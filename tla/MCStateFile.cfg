\* Backups of three buffers, and five changes of the game over any number of lives.
CONSTANTS
    None = None
    New = 0
    Parts = 3
    TickerRuns = TRUE
    MaxChanges = 5
SPECIFICATION Spec
INVARIANTS
    FileIsWhole
PROPERTIES
    ReplacedAtOnce
