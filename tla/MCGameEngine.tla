----------------------------- MODULE MCGameEngine -----------------------------
(***************************************************************************)
(* The small games on which GameEngine is checked: a configuration takes   *)
(* one of the sets below as Files.  The squares need two hits in one       *)
(* diagonal, one or none elsewhere; the extension board alternates two     *)
(* colours, starting at another row in each column.                        *)
(***************************************************************************)
EXTENDS GameEngineRefinement

Squares == [x \in Cell |-> IF x[1] = x[2] THEN 2 ELSE (x[1] + x[2]) % 2]
Striped == [x \in ExtCell |-> (x[1] + x[2]) % 2]
Plain == [x \in ExtCell |-> 0]

Saved(boards) ==
    [fresh: {FALSE}, ext: {Striped}, squares: {Squares}, candies: boards,
     offset: {[c \in ColIds |-> c]}, score: {3}]
Unplayed(exts) ==
    [fresh: {TRUE}, ext: exts, squares: {Squares},
     candies: {[x \in Cell |-> 0]}, offset: {[c \in ColIds |-> 0]}, score: {0}]

(* Every board of the size and colours, and every extension board. *)
AllGames == Saved([Cell -> Colors]) \cup Unplayed([ExtCell -> Colors])

(* Boards whose columns alternate two colours but for one or two candies:  *)
(* sliding one column against another lines up three or four in a row.     *)
AlmostAlternating ==
    LET Stripe(n) == CASE n = 0 -> <<0, 0, 1, 0>>
                       [] n = 1 -> <<1, 1, 0, 1>>
                       [] n = 2 -> <<0, 1, 0, 0>>
    IN  {[x \in Cell |-> Stripe(s[x[2]])[(x[1] % 4) + 1]] :
            s \in [ColIds -> 0..2]}
BigGames == Saved(AlmostAlternating) \cup Unplayed({Plain, Striped})

(* A match in the top row of a board with no other. *)
TallGames ==
    Saved({[x \in Cell |-> IF x[1] = Rows - 1 THEN 0 ELSE (x[1] + x[2]) % 2]})
==============================================================================
