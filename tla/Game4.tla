--------------------------------- MODULE Game4 ---------------------------------
(***************************************************************************)
(* The Game class of hw4, which the model program of hw5 links: one        *)
(* operator per method, on a record that holds the members of the object.  *)
(* Its loops are those of the solver's Game.  It differs in two places:    *)
(* ShiftDown reads the row extOffset names as it is and wraps it only      *)
(* afterwards, at the height of the board instead of the extension board,  *)
(* and Swap counts a move before it knows whether anything fires.          *)
(*                                                                         *)
(* The JSON of a game is the record Instance: what is in "gamedef", and    *)
(* "gamestate", or NoState where the file has none.  A file may name any   *)
(* offset, also one that the extension board has no row for: heap is what  *)
(* Array2D_get finds behind that board, as far as offsets reach.           *)
(***************************************************************************)
EXTENDS BoardRules

CONSTANTS MaxSettle,  \* bound on the passes of one Settle (1000 in the code)
          MaxOffset,  \* bound on the offsets a file names
          NoState

(* Boards at least as wide as high (see GameSpec). *)
ASSUME Game4Assumption ==
    /\ Rows <= Cols /\ MaxSettle \in Nat \ {0}
    /\ MaxOffset \in Nat /\ Rows <= MaxOffset + 1

Offset == [ColIds -> 0..MaxOffset]
Behind == ((0..MaxOffset) \X ColIds) \ ExtCell
Heap == [Behind -> Colors]
GameState == [candies: [Cell -> Candy], squares: [Cell -> Nat],
              offset: Offset, score: Int, movesmade: Int]
Instance == [ext: [ExtCell -> Colors], squares: [Cell -> Nat],
             gamestate: GameState \cup {NoState}]
Game == [ext: [ExtCell -> Colors], candies: [Cell -> Candy],
         squares: [Cell -> Nat], offset: Offset, score: Int, moves: Int,
         heap: Heap]

ASSUME StateAssumption == NoState \notin GameState

-----------------------------------------------------------------------------
(* ApplyGravity and ShiftDown: a candy that is missing comes from the row  *)
(* extOffset names, which then moves on.  NextRow is where it is after k   *)
(* candies of column c.                                                    *)
NextRow(g, c, k) ==
    IF k = 0 THEN g.offset[c] ELSE (g.offset[c] + k) % Rows

ExtRead(g, x) == IF x \in ExtCell THEN g.ext[x] ELSE g.heap[x]

ApplyGravityUnwrapped(g) ==  \* fault: wrapped where it is read only
    LET left(c) == Cardinality(Survivors(g.candies, c)) IN
    [g EXCEPT
        !.candies = [x \in Cell |->
            IF x[1] < left(x[2]) THEN Survivor(g.candies, x[2], x[1])
            ELSE ExtRead(g, <<(g.offset[x[2]] + x[1] - left(x[2])) % Rows, x[2]>>)],
        !.offset = [c \in ColIds |-> g.offset[c] + Rows - left(c)]]

ApplyGravity(g) ==
    LET left(c) == Cardinality(Survivors(g.candies, c)) IN
    [g EXCEPT
        !.candies = [x \in Cell |->
            IF x[1] < left(x[2]) THEN Survivor(g.candies, x[2], x[1])
            ELSE ExtRead(g, <<NextRow(g, x[2], x[1] - left(x[2])), x[2]>>)],
        !.offset = [c \in ColIds |-> NextRow(g, c, Rows - left(c))]]

Settle(g) == Passes(ApplyGravity, g)[MaxSettle]

(* Init of the object g.  moves comes from the key "moves", which no game  *)
(* has: 0.  Without a gamestate moves and score are not assigned.          *)
GameInit(g, f) ==
    LET read == [g EXCEPT !.ext = f.ext, !.squares = f.squares]
    IN  IF f.gamestate = NoState
        THEN Settle(ApplyGravity(
                [read EXCEPT !.candies = [x \in Cell |-> Hole],
                             !.offset = [c \in ColIds |-> 0]]))
        ELSE LET s == f.gamestate IN
             Settle([read EXCEPT !.candies = s.candies, !.squares = s.squares,
                                 !.offset = s.offset, !.score = s.score,
                                 !.moves = 0])

(* Swap of cells a and b, which may lie off the board. *)
Swap(g, a, b) ==
    IF a \notin Cell \/ b \notin Cell THEN g
    ELSE LET counted == [g EXCEPT !.moves = @ + 1]
             swapped == [counted EXCEPT !.candies = Exchange(g.candies, a, b)]
         IN  IF Fires(swapped.candies) THEN Settle(swapped) ELSE counted

(* The game as SerializeCurrentState writes it: the squares twice, the     *)
(* moves as "movesmade".                                                   *)
SerializeWithoutOffset(g) ==  \* fault: the offsets are not written
    [ext |-> g.ext, squares |-> g.squares,
     gamestate |-> [candies |-> g.candies, squares |-> g.squares,
                    offset |-> [c \in ColIds |-> 0], score |-> g.score,
                    movesmade |-> g.moves]]

SerializeCurrentState(g) ==
    [ext |-> g.ext, squares |-> g.squares,
     gamestate |-> [candies |-> g.candies, squares |-> g.squares,
                    offset |-> g.offset, score |-> g.score,
                    movesmade |-> g.moves]]

(* The object before Init: a global, so all zero. *)
NoGame == [ext |-> [x \in ExtCell |-> Hole], candies |-> [x \in Cell |-> Hole],
           squares |-> [x \in Cell |-> 0], offset |-> [c \in ColIds |-> 0],
           score |-> 0, moves |-> 0,
           heap |-> [x \in Behind |-> Hole]]
==============================================================================
