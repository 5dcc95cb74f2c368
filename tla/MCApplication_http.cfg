\* The server driven by POST /game/tick, where an exception ends the process.
CONSTANTS
    Users = {u1, u2, u3}
    Maps = {m1, m2}
    PlayerIds = {0, 1, 2}
    EmptyToken = EmptyToken
    None = None
    AutoTick = FALSE
    HasStateFile = TRUE
    Retirement = 1
    SavePeriod = 1
    Deltas = {1}
    MaxServerTime = 2
    MaxAborts = 1
    MaxRestarts = 1
SPECIFICATION Spec
PROPERTIES
    KeepsMembership
SYMMETRY Symmetry
CHECK_DEADLOCK FALSE
