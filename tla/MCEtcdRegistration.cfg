SPECIFICATION FairSpec
CONSTANTS
    Leases = {l1, l2, l3}
    First = l0
    None = none
    MaxReconnectAttempts = 5
INVARIANTS RegisteredKeyIsOurs ConnectionsBounded
PROPERTIES KeyGoesAway CloseReturns RegisteredOrExhausted
