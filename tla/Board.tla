-------------------------------- MODULE Board --------------------------------
(***************************************************************************)
(* The board of a CandyCrush game and the vocabulary of its rules: cells,  *)
(* the four match templates, the ranges in which Settle tries them, what   *)
(* firing a template erases, and what ShiftDown does to one column.        *)
(*                                                                         *)
(* Row 0 is the bottom row (PrintState prints from rows-1 down), so        *)
(* gravity moves candies towards row 0.  A board maps cells <<row, col>>   *)
(* to colours; Hole (-1) marks a cell whose candy was fired.               *)
(***************************************************************************)
EXTENDS Integers, FiniteSets

CONSTANTS Rows, Cols,     \* size of boardCandies and of boardState
          ExtRows,        \* rows of the extension board (same columns)
          Colors          \* the ints a candy may be, other than Hole

ASSUME BoardAssumption ==
    /\ Rows \in Nat \ {0} /\ Cols \in Nat \ {0} /\ ExtRows \in Nat \ {0}
    /\ Colors \subseteq Int \ {-1}

Hole == -1

RowIds == 0..(Rows - 1)
ColIds == 0..(Cols - 1)
Cell == RowIds \X ColIds
ExtCell == (0..(ExtRows - 1)) \X ColIds
Candy == Colors \cup {Hole}

-----------------------------------------------------------------------------
(* Templates 0 and 2 are vertical, 1 and 3 horizontal; 0 and 1 match four   *)
(* candies, 2 and 3 match three.                                           *)
Templates == 0..3
Vertical(t) == t \in {0, 2}
Extent(t) == IF t \in {0, 1} THEN 3 ELSE 2

(* "we don't need to check to the very end of the board" *)
ScanRows(t) == IF Vertical(t) THEN Rows - Extent(t) ELSE Rows
ScanColsShort(t) ==  \* fault: one column too few is tried
    IF Vertical(t) THEN Cols ELSE Cols - Extent(t) - 1
ScanCols(t) == IF Vertical(t) THEN Cols ELSE Cols - Extent(t)
InScan(t, r, c) == r < ScanRows(t) /\ c < ScanCols(t)

(* The k-th cell of template t placed at row r and column c. *)
Along(t, r, c, k) == IF Vertical(t) THEN <<r + k, c>> ELSE <<r, c + k>>
Span(t, r, c) == {Along(t, r, c, k) : k \in 0..Extent(t)}

(* MatchTemplate finds the template: a candy, and the same one all along. *)
MatchesButLast(f, t, r, c) ==  \* fault: the last candy is not compared
    /\ f[<<r, c>>] # Hole
    /\ \A k \in 1..(Extent(t) - 1) : f[Along(t, r, c, k)] = f[<<r, c>>]
Matches(f, t, r, c) ==
    /\ f[<<r, c>>] # Hole
    /\ \A k \in 1..Extent(t) : f[Along(t, r, c, k)] = f[<<r, c>>]

(* Some template matches somewhere: what Settle(false) reports. *)
Fires(f) ==
    \E t \in Templates, r \in RowIds, c \in ColIds :
        InScan(t, r, c) /\ Matches(f, t, r, c)

(* Firing erases the candies, takes one from each square still above zero  *)
(* and scores a point for each of those.                                   *)
Erased(f, S) == [x \in Cell |-> IF x \in S THEN Hole ELSE f[x]]
WornBelowZero(s, S) ==  \* fault: squares go below zero
    [x \in Cell |-> IF x \in S THEN s[x] - 1 ELSE s[x]]
Worn(s, S) == [x \in Cell |-> IF x \in S /\ s[x] > 0 THEN s[x] - 1 ELSE s[x]]
PointsPerCandy(s, S) == Cardinality(S)  \* fault: every candy scores
Points(s, S) == Cardinality({x \in S : s[x] > 0})

(* Array2D_swap of two cells inside the board. *)
Exchange(f, a, b) == [f EXCEPT ![a] = f[b], ![b] = f[a]]

(* ShiftDown: the candies above row r of column c drop one row and `new`   *)
(* enters at the top.                                                      *)
Dropped(f, r, c, new) ==
    [x \in Cell |-> IF x[2] # c \/ x[1] < r THEN f[x]
                    ELSE IF x[1] = Rows - 1 THEN new
                    ELSE f[<<x[1] + 1, c>>]]

(* The candy ShiftDown takes for column c at extension offset n. *)
ExtCandy(ext, n, c) == ext[<<n % ExtRows, c>>]

(* The cell ApplyMove swaps with, for directions 0 left, 1 right, 2 up     *)
(* and 3 down; it may lie off the board.                                   *)
Directions == 0..3
Neighbour(a, d) == CASE d = 0 -> <<a[1], a[2] - 1>>
                     [] d = 1 -> <<a[1], a[2] + 1>>
                     [] d = 2 -> <<a[1] + 1, a[2]>>
                     [] d = 3 -> <<a[1] - 1, a[2]>>

(* GenerateMoves: up and right from every cell but those of the top row    *)
(* and of the last column, when the exchange makes a template fire.        *)
GenerateMovesUnprobed(f) ==  \* fault: the candies are not exchanged first
    {m \in Cell \X {1, 2} : /\ m[1][1] < Rows - 1 /\ m[1][2] < Cols - 1
                            /\ Fires(f)}

GenerateMoves(f) ==
    {m \in Cell \X {1, 2} : /\ m[1][1] < Rows - 1 /\ m[1][2] < Cols - 1
                            /\ Fires(Exchange(f, m[1], Neighbour(m[1], m[2])))}

Full(f) == \A x \in Cell : f[x] # Hole
==============================================================================
