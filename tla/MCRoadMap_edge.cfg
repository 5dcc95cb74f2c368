\* A dog is stopped in the middle of its road: TLC reports a violation.
CONSTANTS
    Roads <- SmallTown
    Unit = 10
    Buildings <- TwoHouses
    Items <- SomeItems
    PlayerWidth = 2
    HalfWidth = 4
    Steps = {1, 6, 15, 60}
SPECIFICATION Spec
PROPERTY StopsAtRoadEdge
