\* A period of two milliseconds on a clock of thirds of one, timers that fire up to
\* four steps late, and handlers that may take longer than a period.
CONSTANTS
    Period = 2
    Ms = 3
    MaxDelay = 4
    MaxCost = 8
    MaxTicks = 4
SPECIFICATION Spec
INVARIANTS
    GameTimeFollowsClock
    NoShortTick
PROPERTY KeepsTicking
CHECK_DEADLOCK FALSE
