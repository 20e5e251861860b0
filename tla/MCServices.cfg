SPECIFICATION FairSpec
CONSTANTS
    Programs <- Mains
    Closable <- ClosableServices
    FatalOnError <- FatalServices
    NilOnError <- NilServices
    MaxUnits = 2
INVARIANTS NoUseAfterClose HeldBelow ClosedAfterStop
PROPERTY StopEnds
CHECK_DEADLOCK FALSE
