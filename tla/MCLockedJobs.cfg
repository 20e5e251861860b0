SPECIFICATION FairSpec
CONSTANTS
    Replicas = {r1, r2}
    Runs = {1, 2}
    None = none
    MaxFaults = 2
INVARIANTS OneMigrates OneJob RecordedIsApplied
PROPERTIES MigratedOrFaulty JobRuns
