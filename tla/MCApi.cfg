\* Three players on two maps, under a Ticker or under POST /game/tick.
CONSTANTS
    Tokens = {t1, t2, t3}
    Foreign = Foreign
    Maps = {m1, m2}
    NoSuchMap = NoSuchMap
    PlayerIds = {0, 1, 2}
    Deltas <- Times
    Word = 2
    None = None
SPECIFICATION Spec
INVARIANTS
    KnownUntilRetired
    ShowsOwnSession
    DogIsFound
PROPERTIES
    OnlyAcceptedPostsAct
    TouchesOnlyItsPlayer
    KeepsMembership
SYMMETRY Symmetry
CHECK_DEADLOCK FALSE
