\* Three users of a server driven by POST /game/tick, and one restart after which
\* ids may be given out again.
CONSTANTS
    Users = {u1, u2, u3}
    Maps = {m1, m2}
    PlayerIds = {0, 1, 2}
    EmptyToken = EmptyToken
    None = None
    AutoTick = FALSE
    HasStateFile = TRUE
    Retirement = 1
    SavePeriod = 1
    Deltas = {1}
    MaxServerTime = 2
    MaxAborts = 1
    MaxRestarts = 1
SPECIFICATION Spec
INVARIANT GlobalNumbering
SYMMETRY Symmetry
CHECK_DEADLOCK FALSE
