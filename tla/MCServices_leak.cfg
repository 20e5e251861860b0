SPECIFICATION Spec
CONSTANTS
    Programs <- Mains
    Closable <- ClosableServices
    FatalOnError <- FatalServices
    NilOnError <- NilServices
    MaxUnits = 2
INVARIANT AllGivenBack
CHECK_DEADLOCK FALSE
