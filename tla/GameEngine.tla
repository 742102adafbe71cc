------------------------------ MODULE GameEngine ------------------------------
(***************************************************************************)
(* One Game object of the solver, loop by loop: Init, ApplyMove (which     *)
(* calls Swap), Settle, MatchTemplate, ApplyGravity and ShiftDown.         *)
(*                                                                         *)
(* One action is one iteration of a loop of the code: a MatchTemplate      *)
(* call, a ShiftDown call, the end of a pass.  pc says which loop runs:    *)
(*   "new"   the object exists, Init has not been called                   *)
(*   "scan"  Settle's three nested template loops (cursor t, row, col)     *)
(*   "fall"  ApplyGravity's loops (cursor row, col, and the local cap)     *)
(*   "idle"  between two calls of a public method                          *)
(***************************************************************************)
EXTENDS Board

CONSTANTS Files,      \* games a file may hold: the gamestate part, or Fresh
          MaxSettle,  \* bound on the passes of one Settle (1000 in the code)
          MaxMoves,   \* bound of the model on the calls of ApplyMove
          Garbage     \* values an uninitialised int may hold

VARIABLES candies,    \* boardCandies
          squares,    \* boardState
          extBoard,
          extOffset,
          score, moves,
          played,     \* moveHistory.size()
          pc, t, row, col, cap, fired, counter,
          pair,       \* the two cells Swap exchanged
          caller,     \* which method called Settle: "Init" or "Swap"
          code,       \* what Swap returned last
          entry       \* history variable: the object when the call began

game == <<candies, squares, extBoard, extOffset, score, moves>>
cursor == <<t, row, col, cap, fired, counter>>
vars == <<game, played, pc, cursor, pair, caller, code, entry>>

(* A file is the "gameinstance" object: both parts name an extension board *)
(* and the squares; only a file with a gamestate has candies and offsets.  *)
FileType ==
    [fresh: BOOLEAN, ext: [ExtCell -> Colors], squares: [Cell -> Nat],
     candies: [Cell -> Colors], offset: [ColIds -> Nat], score: Int]

ASSUME EngineAssumption ==
    /\ Files \subseteq FileType
    /\ MaxSettle \in Nat \ {0} /\ MaxMoves \in Nat
    /\ Garbage \subseteq Int /\ Garbage # {}

Snapshot == [candies |-> candies, squares |-> squares,
             offset |-> extOffset, score |-> score, moves |-> moves]

Init ==
    /\ pc = "new" /\ caller = "Init" /\ code = 0 /\ played = 0
    /\ t = 0 /\ row = 0 /\ col = 0 /\ cap = Cols
    /\ fired = FALSE /\ counter = 0
    /\ pair = <<<<0, 0>>, <<0, 0>>>>
    /\ candies = [x \in Cell |-> Hole] /\ squares = [x \in Cell |-> 0]
    /\ extOffset = [c \in ColIds |-> 0]
    /\ extBoard = [x \in ExtCell |-> Hole]
    /\ score \in Garbage /\ moves \in Garbage
    /\ entry = Snapshot

-----------------------------------------------------------------------------
(* The call of Settle(true): the first pass starts at template 0. *)
StartPass ==
    /\ pc' = "scan" /\ t' = 0 /\ row' = 0 /\ col' = 0 /\ fired' = FALSE

(* The call of ApplyGravity: column 0, row 0.  cap starts at cols. *)
StartFall ==
    /\ pc' = "fall" /\ row' = 0 /\ col' = 0 /\ cap' = Cols
    /\ t' = 0

(* Game::Init of a file with a gamestate.  The count of moves is read from *)
(* the key "moves", which files do not carry (they say "movesmade"), so    *)
(* json_integer_value yields 0.                                            *)
LoadGamestate(f) ==
    /\ pc = "new" /\ ~f.fresh
    /\ candies' = f.candies /\ squares' = f.squares
    /\ extBoard' = f.ext /\ extOffset' = f.offset
    /\ score' = f.score /\ moves' = 0
    /\ entry' = [candies |-> f.candies, squares |-> f.squares,
                 offset |-> f.offset, score |-> f.score, moves |-> 0]
    /\ counter' = 0 /\ StartPass
    /\ UNCHANGED <<played, cap, pair, caller, code>>

(* Game::Init of a file without one: an empty board filled by gravity.     *)
(* Nothing assigns moves and score, which keep what the memory held.       *)
LoadFresh(f) ==
    /\ pc = "new" /\ f.fresh
    /\ candies' = [x \in Cell |-> Hole] /\ squares' = f.squares
    /\ extBoard' = f.ext /\ extOffset' = [c \in ColIds |-> 0]
    /\ entry' = [candies |-> [x \in Cell |-> Hole], squares |-> f.squares,
                 offset |-> [c \in ColIds |-> 0], score |-> score,
                 moves |-> moves]
    /\ counter' = 0 /\ fired' = FALSE /\ StartFall
    /\ UNCHANGED <<score, moves, played, pair, caller, code>>

(* ApplyMove from cell a in direction d when the neighbour is on the       *)
(* board: Swap exchanges the candies and settles.                          *)
ApplyMove(a, d) ==
    LET b == Neighbour(a, d) IN
    /\ pc = "idle" /\ played < MaxMoves
    /\ b \in Cell
    /\ candies' = Exchange(candies, a, b) /\ pair' = <<a, b>>
    /\ entry' = Snapshot /\ caller' = "Swap"
    /\ counter' = 0 /\ StartPass
    /\ UNCHANGED <<squares, extBoard, extOffset, score, moves, played, cap,
                   code>>

(* The same off the board: Array2D_swap refuses, Swap returns -1, and      *)
(* ApplyMove still appends the move to the history.                        *)
ApplyMoveOff(a, d) ==
    /\ pc = "idle" /\ played < MaxMoves
    /\ Neighbour(a, d) \notin Cell
    /\ caller' = "Swap" /\ code' = -1
    /\ played' = played + 1 /\ entry' = Snapshot
    /\ UNCHANGED <<game, pc, cursor, pair>>

-----------------------------------------------------------------------------
(* Where the innermost loop goes after column col of row row. *)
NextPositionInRow ==  \* fault: the row loop does not move to the next row
    IF col + 1 < ScanCols(t) THEN row' = row /\ col' = col + 1
    ELSE row' = row /\ col' = 0
NextPosition ==
    IF col + 1 < ScanCols(t) THEN row' = row /\ col' = col + 1
    ELSE row' = row + 1 /\ col' = 0

(* MatchTemplate matches and, since fire is true, fires. *)
Fire ==
    LET S == Span(t, row, col) IN
    /\ pc = "scan" /\ t \in Templates /\ InScan(t, row, col)
    /\ Matches(candies, t, row, col)
    /\ candies' = Erased(candies, S)
    /\ squares' = Worn(squares, S)
    /\ score' = score + Points(squares, S)
    /\ fired' = TRUE
    /\ NextPosition
    /\ UNCHANGED <<extBoard, extOffset, moves, played, pc, t, cap, counter,
                   pair, caller, code, entry>>

(* MatchTemplate returns false. *)
Miss ==
    /\ pc = "scan" /\ t \in Templates /\ InScan(t, row, col)
    /\ ~Matches(candies, t, row, col)
    /\ NextPosition
    /\ UNCHANGED <<game, played, pc, t, cap, fired, counter, pair, caller,
                   code, entry>>

NextTemplate ==
    /\ pc = "scan" /\ t \in Templates /\ ~InScan(t, row, col)
    /\ t' = t + 1 /\ row' = 0 /\ col' = 0
    /\ UNCHANGED <<game, played, pc, cap, fired, counter, pair, caller, code,
                   entry>>

(* The pass fired something: gravity, and the pass is counted. *)
PassFired ==
    /\ pc = "scan" /\ t \notin Templates /\ fired
    /\ counter' = counter + 1 /\ fired' = fired
    /\ StartFall
    /\ UNCHANGED <<game, played, pair, caller, code, entry>>

(* What Settle's caller does with its result: Init ignores it; Swap counts *)
(* the move, or exchanges the two candies back; ApplyMove then appends the *)
(* move to the history.                                                    *)
Returns ==
    /\ pc' = "idle"
    /\ UNCHANGED <<squares, extBoard, extOffset, score, cursor, pair, caller,
                   entry>>

InitReturns ==
    /\ caller = "Init" /\ Returns
    /\ UNCHANGED <<candies, moves, played, code>>

SwapAccepts ==
    /\ caller = "Swap" /\ Returns
    /\ moves' = moves + 1 /\ code' = 1 /\ played' = played + 1
    /\ UNCHANGED candies

SwapRejectsExchanged ==  \* fault: the candies are not exchanged back
    /\ caller = "Swap" /\ Returns
    /\ code' = 0 /\ played' = played + 1
    /\ UNCHANGED <<candies, moves>>

SwapRejectsCounted ==  \* fault: the move is counted before Settle is called
    /\ caller = "Swap" /\ Returns
    /\ candies' = Exchange(candies, pair[1], pair[2])
    /\ moves' = moves + 1 /\ code' = 0 /\ played' = played + 1

SwapRejects ==
    /\ caller = "Swap" /\ Returns
    /\ candies' = Exchange(candies, pair[1], pair[2])
    /\ code' = 0 /\ played' = played + 1
    /\ UNCHANGED moves

(* A pass that fired nothing ends Settle; counter tells whether an earlier *)
(* pass did.                                                               *)
PassQuietLastPass ==  \* fault: Settle returns what its last pass fired
    /\ pc = "scan" /\ t \notin Templates /\ ~fired
    /\ InitReturns \/ SwapRejects

PassQuiet ==
    /\ pc = "scan" /\ t \notin Templates /\ ~fired
    /\ \/ InitReturns
       \/ counter > 0 /\ SwapAccepts
       \/ counter = 0 /\ SwapRejects

-----------------------------------------------------------------------------
(* The inner while of ApplyGravity: one ShiftDown and cap--.  cap is not    *)
(* looked at again before the row is filled.                               *)
ShiftDownSkipsOne ==  \* fault: the offset is incremented before it is used
    /\ pc = "fall" /\ col < Cols
    /\ candies[<<row, col>>] = Hole
    /\ candies' = Dropped(candies, row, col,
                          ExtCandy(extBoard, extOffset[col] + 1, col))
    /\ extOffset' = [extOffset EXCEPT ![col] = @ + 1]
    /\ cap' = cap - 1
    /\ UNCHANGED <<squares, extBoard, score, moves, played, pc, t, row, col,
                   fired, counter, pair, caller, code, entry>>

ShiftDown ==
    /\ pc = "fall" /\ col < Cols
    /\ candies[<<row, col>>] = Hole
    /\ candies' = Dropped(candies, row, col,
                          ExtCandy(extBoard, extOffset[col], col))
    /\ extOffset' = [extOffset EXCEPT ![col] = @ + 1]
    /\ cap' = cap - 1
    /\ UNCHANGED <<squares, extBoard, score, moves, played, pc, t, row, col,
                   fired, counter, pair, caller, code, entry>>

(* The row is filled.  The row loop goes on below the top of the board and *)
(* below cap, or else breaks off.                                          *)
MoreRows == row + 1 < Rows /\ row + 1 < cap

NextRow ==
    /\ pc = "fall" /\ col < Cols
    /\ candies[<<row, col>>] # Hole /\ MoreRows
    /\ row' = row + 1
    /\ UNCHANGED <<game, played, pc, t, col, cap, fired, counter, pair,
                   caller, code, entry>>

NextColumnKeepsCap ==  \* fault: cap is set once, not for every column
    /\ pc = "fall" /\ col < Cols
    /\ candies[<<row, col>>] # Hole /\ ~MoreRows
    /\ row' = 0 /\ col' = col + 1
    /\ UNCHANGED <<game, played, pc, t, cap, fired, counter, pair, caller,
                   code, entry>>

NextColumn ==
    /\ pc = "fall" /\ col < Cols
    /\ candies[<<row, col>>] # Hole /\ ~MoreRows
    /\ row' = 0 /\ col' = col + 1 /\ cap' = Cols
    /\ UNCHANGED <<game, played, pc, t, fired, counter, pair, caller,
                   code, entry>>

(* ApplyGravity returns, and Settle runs another pass. *)
Resettle ==
    /\ pc = "fall" /\ col >= Cols /\ counter < MaxSettle
    /\ StartPass
    /\ UNCHANGED <<game, played, cap, counter, pair, caller, code, entry>>

(* The bound on the passes is reached: Settle returns true regardless. *)
GiveUpAtOnce ==  \* fault: Settle does not look at the board gravity left
    /\ pc = "fall" /\ col >= Cols
    /\ InitReturns \/ SwapAccepts

GiveUp ==
    /\ pc = "fall" /\ col >= Cols /\ counter >= MaxSettle
    /\ InitReturns \/ SwapAccepts

-----------------------------------------------------------------------------
Scan == Fire \/ Miss \/ NextTemplate \/ PassFired \/ PassQuiet
Gravity == ShiftDown \/ NextRow \/ NextColumn \/ Resettle \/ GiveUp

Call ==
    \/ \E f \in Files : LoadGamestate(f) \/ LoadFresh(f)
    \/ \E a \in Cell, d \in Directions : ApplyMove(a, d) \/ ApplyMoveOff(a, d)

Next == Call \/ Scan \/ Gravity

(* A method that was called runs to its end: it is sequential code that    *)
(* waits for nothing.                                                      *)
Fairness == WF_vars(Scan \/ Gravity)

Spec == Init /\ [][Next]_vars /\ Fairness
==============================================================================
