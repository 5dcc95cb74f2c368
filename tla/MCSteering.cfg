\* Three of the arrow keys, and posts that overtake each other.
CONSTANTS
    Keys = {"L", "R", "U"}
    FirstDirs = {"U", ""}
    Steps = {1, 3}
    MaxPresses = 3
    MaxPosts = 2
    NaN = NaN
SPECIFICATION SteeringSpec
INVARIANTS
    GoesWhereSteered
PROPERTIES
    TurnsTheShortWay
CHECK_DEADLOCK FALSE
