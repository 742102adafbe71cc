\* Two searches by two threads, the server asking after each has begun.
SPECIFICATION Spec
CONSTANTS
    Workers = {w1, w2}
    PerRound = 2
    Moves <- MCMoves
    Legal <- MCLegal
    Score <- MCScore
    Worst <- MCWorst
    MovesLoaded = {0}
    Paced = TRUE
    MaxRequests = 2
    Hangups = TRUE
    Lines = 2
INVARIANTS
    BestIsBestSeen
    QueueExtendsLiveGame
    ReportCountsSearch
    SearchIsOver
    NeverTerminated
PROPERTIES
    ImplementsSolver
    SearchExhausts
CHECK_DEADLOCK FALSE
