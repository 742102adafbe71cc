------------------------- MODULE GameEngineRefinement -------------------------
(***************************************************************************)
(* The Game object as its callers see it implements GameSpec: a public     *)
(* call takes effect when it returns, and until then its callers would see *)
(* the object as the call found it.                                        *)
(***************************************************************************)
EXTENDS GameEngineProps, BoardRules

Loaded == pc # "new" /\ (caller = "Swap" \/ pc = "idle")

(* now: at rest; before: within a move; blank: before Init has returned. *)
Seen(now, before, blank) ==
    IF ~Loaded THEN blank ELSE IF pc = "idle" THEN now ELSE before

GS == INSTANCE GameSpec WITH
        candies <- Seen(candies, entry.candies, [x \in Cell |-> Hole]),
        squares <- Seen(squares, entry.squares, [x \in Cell |-> 0]),
        extOffset <- Seen(extOffset, entry.offset, [c \in ColIds |-> 0]),
        extBoard <- Seen(extBoard, extBoard, [x \in ExtCell |-> Hole]),
        score <- Seen(score, entry.score, 0),
        moves <- Seen(moves, entry.moves, 0),
        loaded <- Loaded

(* Every call of Game has, as a whole, the effect GameSpec states: passes  *)
(* in scan order, columns packed in order, refused moves without effect.   *)
ImplementsGameSpec == GS!Spec

-----------------------------------------------------------------------------
(* The invariants of a call under way, from which ImplementsGameSpec       *)
(* follows on boards of every size: where in the whole effect of the call  *)
(* its loops are.                                                          *)

(* The board as it is and as the call found or, in Init, read it.          *)
Held == [candies |-> candies, squares |-> squares, offset |-> extOffset,
         score |-> score]
Found == [candies |-> entry.candies, squares |-> entry.squares,
          offset |-> entry.offset, score |-> entry.score]

(* The board Settle begins with, and what each of its passes begins with.  *)
Start == IF caller = "Swap"
         THEN [Found EXCEPT !.candies = Exchange(@, pair[1], pair[2])]
         ELSE IF Full(entry.candies) THEN Found ELSE GS!Packed(extBoard, Found)
Rounds(ext, g) == Passes(LAMBDA h : GS!Packed(ext, h), g)
Round == Rounds(extBoard, Start)

(* The templates before u have been tried, and u before row r, column c. *)
ScannedTo(g, u, r, c) == Columns(RowsOf(TemplatesOf(g)[u], u)[r], u, r)[c]

ScanInv ==
    pc = "scan" =>
        /\ counter < MaxSettle
        /\ row <= Times(ScanRows(t)) /\ (row > 0 => ScanCols(t) > 0)
        /\ (col > 0 => InScan(t, row, col)) /\ (t = 4 => row = 0 /\ col = 0)
        /\ Held = ScannedTo(Round[counter], t, row, col)
        /\ IF fired THEN Fires(Round[counter].candies) ELSE Held = Round[counter]

(* What gravity takes from in column c: the rows of the board from the     *)
(* bottom up, then the extension board; and how many of the first n of     *)
(* these are candies.                                                      *)
Left(g, c) == Cardinality(Survivors(g.candies, c))
Stream(ext, g, c, n) == IF n < Rows THEN g.candies[<<n, c>>]
                        ELSE ExtCandy(ext, g.offset[c] + n - Rows, c)
CandiesIn(g, c, n) ==
    IF n < Rows THEN Rank(g.candies, c, n) ELSE Left(g, c) + n - Rows

(* Column c of h when gravity that began with g is done with it, has not   *)
(* come to it, or is in its row r after n ShiftDowns: the rows below r are *)
(* packed and the others have moved down by n.                             *)
Done(ext, g, h, c) ==
    /\ h.offset[c] = GS!Packed(ext, g).offset[c]
    /\ \A r \in RowIds :
          h.candies[<<r, c>>] = GS!Packed(ext, g).candies[<<r, c>>]
Untouched(g, h, c) ==
    /\ h.offset[c] = g.offset[c]
    /\ \A r \in RowIds : h.candies[<<r, c>>] = g.candies[<<r, c>>]
Under(ext, g, h, c, r, n) ==
    /\ h.offset[c] = g.offset[c] + n /\ CandiesIn(g, c, r + n) = r
    /\ \A s \in RowIds :
          h.candies[<<s, c>>] = IF s < r THEN GS!Packed(ext, g).candies[<<s, c>>]
                                ELSE Stream(ext, g, c, s + n)

(* The board gravity began with. *)
Source == IF counter = 0 THEN Found ELSE Pass(Round[counter - 1])

FallInv ==
    pc = "fall" =>
        /\ counter <= MaxSettle /\ row < Rows
        /\ counter = 0 => caller = "Init" /\ ~Full(entry.candies)
        /\ counter > 0 => Fires(Round[counter - 1].candies)
        /\ squares = Source.squares /\ score = Source.score
        /\ \A c \in ColIds :
              /\ c < col => Done(extBoard, Source, Held, c)
              /\ c > col => Untouched(Source, Held, c)
              /\ c = col => Under(extBoard, Source, Held, c, row, Cols - cap)

(* What Init has read. *)
Read(f) ==
    /\ extBoard = f.ext /\ entry.squares = f.squares
    /\ IF f.fresh
       THEN /\ entry.candies = [x \in Cell |-> Hole]
            /\ entry.offset = [c \in ColIds |-> 0]
            /\ entry.score \in Garbage /\ entry.moves \in Garbage
       ELSE /\ entry.candies = f.candies /\ entry.offset = f.offset
            /\ entry.score = f.score /\ entry.moves = 0

CallerInv ==
    /\ pc = "new" => caller = "Init" /\ score \in Garbage /\ moves \in Garbage
    /\ pc \in {"scan", "fall"} =>
          /\ moves = entry.moves
          /\ IF caller = "Init" THEN \E f \in Files : Read(f)
             ELSE played < MaxMoves

CallInv == CallerInv /\ ScanInv /\ FallInv
==============================================================================
