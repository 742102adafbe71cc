\* The server may ask while GetBestMove still runs.
SPECIFICATION Spec
CONSTANTS
    Workers = {w1, w2}
    PerRound = 1
    Moves <- MCMoves
    Legal <- MCLegal
    Score <- MCScore
    Worst <- MCWorst
    MovesLoaded = {0}
    Paced = FALSE
    MaxRequests = 2
    Hangups = FALSE
    Lines = 2
INVARIANTS
    QueueExtendsLiveGame
CHECK_DEADLOCK FALSE
