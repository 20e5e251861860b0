SPECIFICATION FairSpec
CONSTANTS
    Names = {a, b}
    Priorities = {0, 1}
    Callers = {c1}
    Main = main
    NoOne = noone
    MaxRegs = 3
INVARIANTS RegistryOrder Accounted NoOverlap SignalKillsOnlyAfterCancel
PROPERTIES RefinesRegistry ShutdownCompletes
