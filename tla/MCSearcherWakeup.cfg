\* A wakeup that comes between the test of done and the wait.
SPECIFICATION Spec
CONSTANTS
    Workers = {w1, w2}
    PerRound = 2
    Moves <- MCMoves
    Legal <- MCLegal
    Score <- MCScore
    Worst <- MCWorst
    MovesLoaded = {0}
    Paced = TRUE
    MaxRequests = 1
    Hangups = FALSE
    Lines = 1
PROPERTIES
    EveryRequestAnswered
CHECK_DEADLOCK FALSE
