\* A restart makes a generated piece disappear: TLC reports a violation.
CONSTANTS
    DogIds = {d1, d2}
    LootIds = {0, 1, 2}
    Types = {1}
    Value <- TwoValues
    BagCapacity = 1
    OfficeBase = 9
    Offices = 1
    None = None
    MaxRestarts = 1
SPECIFICATION Spec
PROPERTY GeneratedAppear
SYMMETRY Symmetry
CHECK_DEADLOCK FALSE
