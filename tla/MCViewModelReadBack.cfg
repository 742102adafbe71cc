\* A game is written and read again, with its moves.
SPECIFICATION Spec
CONSTANTS
    Rows = 2
    Cols = 3
    ExtRows = 2
    Colors = {0, 1, 7}
    MaxSettle = 3
    MaxOffset = 2
    NoState = NoState
    Clients = {m1, m2}
    Files <- MCFiles
    Heaps <- MCHeaps
    MaxPresses = 2
    Failures = TRUE
    Nobody = Nobody
    NoCandy = NoCandy
    NoScreen = NoScreen
INVARIANTS
    ReadBackWithMoves
CHECK_DEADLOCK FALSE
