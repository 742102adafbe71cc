------------------------------- MODULE GameSpec -------------------------------
(***************************************************************************)
(* What a Game object promises its callers: every public call is one step, *)
(* and its effect is stated over whole boards.  A pass fires the templates *)
(* in scan order; gravity packs each column, keeping the order of the      *)
(* candies that survived and taking the next ones of the extension board;  *)
(* passes repeat until one fires nothing or the bound is reached.          *)
(* GameEngine, loop by loop, implements this specification on every board  *)
(* that is at least as wide as it is high.                                 *)
(***************************************************************************)
EXTENDS BoardRules

CONSTANTS Files, MaxSettle, MaxMoves, Garbage

VARIABLES candies, squares, extBoard, extOffset, score, moves, played, loaded

vars == <<candies, squares, extBoard, extOffset, score, moves, played, loaded>>

-----------------------------------------------------------------------------
(* Column c packed: its survivors in order, then the extension board. *)
Packed(ext, g) ==
    [g EXCEPT
        !.candies = [x \in Cell |->
            LET left == Cardinality(Survivors(g.candies, x[2])) IN
            IF x[1] < left THEN Survivor(g.candies, x[2], x[1])
            ELSE ExtCandy(ext, g.offset[x[2]] + x[1] - left, x[2])],
        !.offset = [c \in ColIds |->
            g.offset[c] + Rows - Cardinality(Survivors(g.candies, c))]]

(* Settle: at most MaxSettle passes. *)
Settled(ext, g) == Passes(LAMBDA h : Packed(ext, h), g)[MaxSettle]

Now == [candies |-> candies, squares |-> squares, offset |-> extOffset,
        score |-> score]
Becomes(g) == /\ candies' = g.candies /\ squares' = g.squares
              /\ extOffset' = g.offset /\ score' = g.score

-----------------------------------------------------------------------------
(* Before Load the object holds nothing a caller may rely on. *)
Blank == [candies |-> [x \in Cell |-> Hole], squares |-> [x \in Cell |-> 0],
          ext |-> [x \in ExtCell |-> Hole], offset |-> [c \in ColIds |-> 0],
          score |-> 0, moves |-> 0]

Init ==
    /\ candies = Blank.candies /\ squares = Blank.squares
    /\ extBoard = Blank.ext /\ extOffset = Blank.offset
    /\ score = Blank.score /\ moves = Blank.moves
    /\ played = 0 /\ loaded = FALSE

(* The board file f describes; `found` is what score and moves held where  *)
(* the file says nothing of them.                                          *)
Described(f, found) ==
    IF f.fresh
    THEN Packed(f.ext, [candies |-> Blank.candies, squares |-> f.squares,
                        offset |-> Blank.offset, score |-> found.score])
    ELSE [candies |-> f.candies, squares |-> f.squares, offset |-> f.offset,
          score |-> f.score]

Load ==
    /\ ~loaded /\ loaded' = TRUE
    /\ UNCHANGED played
    /\ \E f \in Files, found \in [score: Garbage, moves: Garbage] :
           /\ extBoard' = f.ext
           /\ moves' = IF f.fresh THEN found.moves ELSE 0
           /\ Becomes(Settled(f.ext, Described(f, found)))

(* A move that makes a template fire is played out and counted; any other  *)
(* leaves the game as it was.  Both enter the history.                     *)
Accepted(a, b) ==
    LET swapped == Exchange(candies, a, b) IN
    /\ b \in Cell /\ Fires(swapped)
    /\ moves' = moves + 1
    /\ Becomes(Settled(extBoard, [Now EXCEPT !.candies = swapped]))

Refused(a, b) ==
    /\ b \in Cell => ~Fires(Exchange(candies, a, b))
    /\ UNCHANGED <<candies, squares, extOffset, score, moves>>

ApplyMove ==
    /\ loaded /\ played < MaxMoves
    /\ played' = played + 1
    /\ UNCHANGED <<extBoard, loaded>>
    /\ \E a \in Cell, d \in Directions :
           Accepted(a, Neighbour(a, d)) \/ Refused(a, Neighbour(a, d))

Next == Load \/ ApplyMove

Spec == Init /\ [][Next]_vars
==============================================================================
