SPECIFICATION FairSpec
CONSTANTS
    Appliers = {}
    Controller = main
    Workers = {w1}
    HandlerPanics = FALSE
    MaxCmds = 1
    MaxGen = 1
PROPERTY StopReturns
