SPECIFICATION FairSpec
CONSTANTS
    Names = {a}
    Priorities = {0}
    Callers = {}
    Main = main
    NoOne = noone
    MaxRegs = 1
PROPERTY PanicLeadsToStop
