SPECIFICATION FairSpec
CONSTANTS
    Appliers = {a1}
    Controller = main
    Workers = {w1}
    HandlerPanics = TRUE
    MaxCmds = 3
    MaxGen = 2
INVARIANTS InWorkExact StoppedPoolIsQuiet StopDrains ControllerNeverPanics
PROPERTIES CallsReturn
CHECK_DEADLOCK FALSE
