\* The ids of loot reach those of offices, 2 in place of 9999: TLC reports a violation.
CONSTANTS
    DogIds = {d1, d2}
    LootIds = {0, 1, 2}
    Types = {1}
    Value <- TwoValues
    BagCapacity = 1
    OfficeBase = 2
    Offices = 1
    None = None
    MaxRestarts = 0
SPECIFICATION Spec
INVARIANT OfficeIdsAreOffices
SYMMETRY Symmetry
CHECK_DEADLOCK FALSE
