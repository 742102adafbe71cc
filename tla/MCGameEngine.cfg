\* Every 3x3 board in two colours, and one move.
SPECIFICATION Spec
CONSTANTS
    Rows = 3
    Cols = 3
    ExtRows = 2
    Colors = {0, 1}
    MaxSettle = 3
    MaxMoves = 1
    Garbage = {0, 7}
    Files <- AllGames
INVARIANTS
    TypeOK
    FullAtRest
    SettledOrCapped
    RejectedRestores
    AcceptedIffLine
    ScoreAccounts
    EvaluationFollowsScore
PROPERTIES
    CallReturns
CHECK_DEADLOCK FALSE
