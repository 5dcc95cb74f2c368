\* One restart from a backup of any age: two dogs with room for one piece, one
\* kind of loot, one office.
CONSTANTS
    DogIds = {d1, d2}
    LootIds = {0, 1, 2}
    Types = {1}
    Value <- TwoValues
    BagCapacity = 1
    OfficeBase = 9
    Offices = 1
    None = None
    MaxRestarts = 1
SPECIFICATION Spec
INVARIANTS
    OnePlace
    NothingLost
SYMMETRY Symmetry
CHECK_DEADLOCK FALSE
