\* Two windows and three swaps.
SPECIFICATION Spec
CONSTANTS
    NULL = NULL
    Uninit <- MCUninit
    Files <- MCFiles
    MaxOpens = 2
    MaxMoves = 3
    NoButton = NoButton
INVARIANTS
    TypeOK
    EachFreedOnce
    WindowShowsBoard
PROPERTIES
    SwapMovesAsPointed
CHECK_DEADLOCK FALSE
