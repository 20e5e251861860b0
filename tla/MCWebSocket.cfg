SPECIFICATION FairSpec
CONSTANTS
    Sessions = {1}
    Cap = 2
    ReadLimit = 4
    MaxSent = 3
INVARIANTS HubHoldsLive OneInFlight
PROPERTIES SessionEnds ClientReconnects
CHECK_DEADLOCK FALSE
