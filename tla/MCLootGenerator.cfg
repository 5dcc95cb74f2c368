\* One life of the process: two dogs with room for two pieces, two kinds of loot,
\* one office; the ids of loot stay below those of offices.
CONSTANTS
    DogIds = {d1, d2}
    LootIds = {0, 1, 2, 3}
    Types = {0, 1}
    Value <- TwoValues
    BagCapacity = 2
    OfficeBase = 9
    Offices = 1
    None = None
    Kept <- ThreeQuarters
    TickLengths = {1, 2}
    LongEnough = 6
    MaxRestarts = 0
SPECIFICATION GeneratorSpec
INVARIANTS
    NothingLost
    ScoreIsEarned
    LackIsMet
PROPERTY NoMoreThanLooters
SYMMETRY Symmetry
CHECK_DEADLOCK FALSE
