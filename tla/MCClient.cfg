CONSTANTS
    Ids = {me, other}
    Me = me
    LootIds = {l1}
    Updates = {1, 2}
    Syncs = {1}
    UpdateEvery = 1
    SyncEvery = 1
    MaxChanges = 2
    None = None
SPECIFICATION Spec
INVARIANTS
    SceneIsKept
    DrawnOnce
PROPERTIES
    EventuallyShows
CHECK_DEADLOCK FALSE
