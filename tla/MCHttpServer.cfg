\* Two clients that send up to two requests each, ahead of the answers or not.
CONSTANTS
    Conns = {c1, c2}
    MaxRequests = 2
    AcceptMayFail = TRUE
SPECIFICATION Spec
INVARIANTS
    OneAtATime
    AllAnswered
PROPERTIES
    GetsSession
    SessionsEnd
CHECK_DEADLOCK FALSE
