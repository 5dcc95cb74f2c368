\* Short steps, steps over a crossing, and steps longer than any road.
CONSTANTS
    Roads <- SmallTown
    Unit = 10
    Buildings <- TwoHouses
    Items <- SomeItems
    PlayerWidth = 2
    HalfWidth = 4
    Steps = {1, 6, 15, 60}
SPECIFICATION Spec
INVARIANTS
    OnRoad
    ResultsOfLoop
    DrawnAsWalked
PROPERTIES
    NoJump
    GathersOnItsWay
    StopsAtItsEdge
