SPECIFICATION FairSpec
CONSTANTS
    Keys = {1, 2, 3}
    Own = 2
    Urls = {u1}
    OwnUrl = own
    Absent = absent
    MaxChanges = 3
    MaxServed = 2
INVARIANTS TypeOK FairShare CaughtUp
PROPERTIES NoFalseUnavailable DeadBackendsSkipped
