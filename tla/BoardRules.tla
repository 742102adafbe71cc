------------------------------ MODULE BoardRules ------------------------------
(***************************************************************************)
(* The rules of a pass over whole boards, which both Game classes follow:  *)
(* Settle's three nested loops over the templates, the candies of a column *)
(* that survive, and the passes of Settle.  Here g is a record with the    *)
(* fields candies, squares and score, and whatever else gravity needs.     *)
(*                                                                         *)
(* A loop is a recursive function: its value at n is the game after n      *)
(* iterations that began with g.                                           *)
(***************************************************************************)
EXTENDS Board

(* MatchTemplate with fire set. *)
Tried(g, t, r, c) ==
    LET S == Span(t, r, c) IN
    IF ~Matches(g.candies, t, r, c) THEN g
    ELSE [g EXCEPT !.candies = Erased(g.candies, S),
                   !.squares = Worn(g.squares, S),
                   !.score = @ + Points(g.squares, S)]

(* A loop up to n, which may be negative on a small board. *)
Times(n) == IF n > 0 THEN n ELSE 0

(* The columns of row r, the rows, and the templates. *)
Columns(g, t, r) ==
    LET after[n \in Nat] ==
            IF n = 0 THEN g ELSE Tried(after[n - 1], t, r, n - 1)
    IN  after

RowsOf(g, t) ==
    LET after[n \in Nat] ==
            IF n = 0 THEN g
            ELSE Columns(after[n - 1], t, n - 1)[Times(ScanCols(t))]
    IN  after

TemplatesOf(g) ==
    LET after[n \in Nat] ==
            IF n = 0 THEN g
            ELSE RowsOf(after[n - 1], n - 1)[Times(ScanRows(n - 1))]
    IN  after

Pass(g) == TemplatesOf(g)[4]

(* The rows of column c that still hold a candy, and the candy of the one  *)
(* that has i of them below it.                                            *)
Survivors(f, c) == {r \in RowIds : f[<<r, c>>] # Hole}
Rank(f, c, r) == Cardinality({s \in Survivors(f, c) : s < r})
Survivor(f, c, i) == f[<<CHOOSE r \in Survivors(f, c) : Rank(f, c, r) = i, c>>]

(* The game after each pass that fires, followed by gravity; when a pass   *)
(* fires nothing the game stays as it is.                                  *)
Passes(Gravity(_), g) ==
    LET after[n \in Nat] ==
            IF n = 0 THEN g
            ELSE LET h == after[n - 1]
                 IN  IF Fires(h.candies) THEN Gravity(Pass(h)) ELSE h
    IN  after
==============================================================================
