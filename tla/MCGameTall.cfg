\* A board higher than wide: gravity stops at cap.
SPECIFICATION Spec
CONSTANTS
    Rows = 4
    Cols = 3
    ExtRows = 2
    Colors = {0, 1}
    MaxSettle = 3
    MaxMoves = 1
    Garbage = {0}
    Files <- TallGames
INVARIANTS
    BreakSkipsNoHole
CHECK_DEADLOCK FALSE
