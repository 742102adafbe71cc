\* 4x4 boards, where the templates of four fit, and one move.
SPECIFICATION Spec
CONSTANTS
    Rows = 4
    Cols = 4
    ExtRows = 2
    Colors = {0, 1}
    MaxSettle = 2
    MaxMoves = 1
    Garbage = {0}
    Files <- BigGames
INVARIANTS
    SettledOrCapped
    AcceptedIffLine
    RejectedRestores
    GeneratedIsAccepted
PROPERTIES
    ImplementsGameSpec
CHECK_DEADLOCK FALSE
