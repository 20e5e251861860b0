SPECIFICATION FairSpec
CONSTANTS
    Instances = {i1, i2}
    MaxErrors = 1
INVARIANTS OneLeader NoGhost
PROPERTIES SomeoneLeads ElectionStops
CHECK_DEADLOCK FALSE
