------------------------------ MODULE MCViewModel ------------------------------
(***************************************************************************)
(* A view and two models on a board of two by three: a file without a      *)
(* gamestate, and one of a game that was saved after two moves, with an    *)
(* offset for which the extension board has no row.  Behind that board     *)
(* lies an int that is no colour of the files.                             *)
(***************************************************************************)
EXTENDS ViewModelProps

Squares == [x \in Cell |-> IF x[1] = x[2] THEN 2 ELSE 0]
Striped == [x \in ExtCell |-> (x[1] + x[2]) % 2]
Board(rows) == [x \in Cell |-> rows[Rows - x[1]][x[2] + 1]]

Unplayed == [ext |-> Striped, squares |-> Squares, gamestate |-> NoState]
Saved ==
    [ext |-> Striped, squares |-> Squares,
     gamestate |-> [candies |-> Board(<< <<0, 1, 0>>, <<1, 0, 1>> >>),
                    squares |-> Squares, offset |-> [c \in ColIds |-> c],
                    score |-> 3, movesmade |-> 2]]
MCFiles == {Unplayed, Saved}
MCHeaps == {[x \in Behind |-> 7]}
==============================================================================
