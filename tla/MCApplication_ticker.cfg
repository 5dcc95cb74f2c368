\* The server with its own ticker (tick_period > 0) and a state file.
CONSTANTS
    Users = {u1, u2}
    Maps = {m1, m2}
    PlayerIds = {0, 1}
    EmptyToken = EmptyToken
    None = None
    AutoTick = TRUE
    HasStateFile = TRUE
    Retirement = 2
    SavePeriod = 2
    Deltas = {1, 2}
    MaxServerTime = 3
    MaxAborts = 1
    MaxRestarts = 1
SPECIFICATION Spec
INVARIANTS
    TypeOK
    TokenControlsOwnDog
    DogIsControlled
    NobodyVanishes
    RecordedAtMost
    BackupCovers
PROPERTY RetiredIsRecorded
SYMMETRY Symmetry
CHECK_DEADLOCK FALSE
