\* The server may ask while GetBestMove still runs, and of a game whose moves
\* were not assigned.
SPECIFICATION Spec
CONSTANTS
    Workers = {w1, w2}
    PerRound = 1
    Moves <- MCMoves
    Legal <- MCLegal
    Score <- MCScore
    Worst <- MCWorst
    MovesLoaded = {0, 2}
    Paced = FALSE
    MaxRequests = 2
    Hangups = FALSE
    Lines = 1
INVARIANTS
    TypeOK
CHECK_DEADLOCK FALSE
