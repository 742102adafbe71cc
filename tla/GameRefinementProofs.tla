------------------------- MODULE GameRefinementProofs -------------------------
(***************************************************************************)
(* The Game object, loop by loop, implements GameSpec, on boards at least  *)
(* as wide as they are high and for files and bounds of every size.        *)
(***************************************************************************)
EXTENDS GameEngineRefinement, GameEngineProofs, RulesProofs

(* GameSpec speaks of the same boards and rules. *)
LEMMA SameBoard ==
    /\ GS!Cell = Cell /\ GS!ColIds = ColIds /\ GS!Directions = Directions
    /\ \A a, d : GS!Neighbour(a, d) = Neighbour(a, d)
    /\ \A f, a, b : GS!Exchange(f, a, b) = Exchange(f, a, b)
    /\ \A f : GS!Fires(f) = Fires(f)
    /\ \A f, c : GS!Survivors(f, c) = Survivors(f, c)
<1>1. /\ GS!Cell = Cell /\ GS!ColIds = ColIds /\ GS!Directions = Directions
  BY DEF GS!Cell, Cell, GS!RowIds, RowIds, GS!ColIds, ColIds, GS!Directions,
         Directions
<1>2. \A a, d : GS!Neighbour(a, d) = Neighbour(a, d)
  BY DEF GS!Neighbour, Neighbour
<1>3. \A f, a, b : GS!Exchange(f, a, b) = Exchange(f, a, b)
  BY DEF GS!Exchange, Exchange
<1>4. \A f : GS!Fires(f) = Fires(f)
  BY DEF GS!Fires, Fires, GS!Templates, Templates, GS!RowIds, RowIds,
         GS!ColIds, ColIds, GS!InScan, InScan, GS!ScanRows, ScanRows,
         GS!ScanCols, ScanCols, GS!Extent, Extent, GS!Vertical, Vertical,
         GS!Matches, Matches, GS!Along, Along, GS!Hole, Hole
<1>5. \A f, c : GS!Survivors(f, c) = Survivors(f, c)
  BY DEF GS!Survivors, Survivors, GS!RowIds, RowIds, GS!Hole, Hole
<1> QED
  BY <1>1, <1>2, <1>3, <1>4, <1>5

(* Its gravity and its passes are the operators of BoardRules.             *)
LEMMA SamePacked ==
    ASSUME NEW ext, NEW g
    PROVE  GS!Packed(ext, g) =
             [g EXCEPT
                !.candies = [x \in Cell |->
                    IF x[1] < Cardinality(Survivors(g.candies, x[2]))
                    THEN Survivor(g.candies, x[2], x[1])
                    ELSE ExtCandy(ext, g.offset[x[2]] + x[1]
                             - Cardinality(Survivors(g.candies, x[2])), x[2])],
                !.offset = [c \in ColIds |-> g.offset[c] + Rows
                               - Cardinality(Survivors(g.candies, c))]]
<1>1. \A S : GS!Cardinality(S) = Cardinality(S)
  BY DEF GS!Cardinality, Cardinality
<1>2. \A f, c, r : GS!Rank(f, c, r) = Rank(f, c, r)
  BY <1>1, SameBoard DEF GS!Rank, Rank
<1>3. \A f, c, i : GS!Survivor(f, c, i) = Survivor(f, c, i)
  BY <1>2, SameBoard DEF GS!Survivor, Survivor
<1>4. \A n, c : GS!ExtCandy(ext, n, c) = ExtCandy(ext, n, c)
  BY DEF GS!ExtCandy, ExtCandy
<1> QED
  BY <1>1, <1>3, <1>4, SameBoard DEF GS!Packed

(* The four nested loops are the same loops.                               *)
LEMMA SamePass ==
    ASSUME NEW g
    PROVE  GS!Pass(g) = Pass(g)
<1>1. \A u, r, c : GS!Span(u, r, c) = Span(u, r, c)
  BY DEF GS!Span, Span, GS!Along, Along, GS!Extent, Extent, GS!Vertical, Vertical
<1>2. \A S : GS!Cardinality(S) = Cardinality(S)
  BY DEF GS!Cardinality, Cardinality
<1>3. \A h, u, r, c : GS!Tried(h, u, r, c) = Tried(h, u, r, c)
  <2>1. \A f, u, r, c : GS!Matches(f, u, r, c) = Matches(f, u, r, c)
    BY DEF GS!Extent, Extent, GS!Vertical, Vertical,
           GS!Matches, Matches, GS!Along, Along, GS!Hole, Hole
  <2>2. \A f, S : GS!Erased(f, S) = Erased(f, S) /\ GS!Worn(f, S) = Worn(f, S)
    BY SameBoard DEF GS!Erased, Erased, GS!Worn, Worn, GS!Hole, Hole
  <2>3. \A f, S : GS!Points(f, S) = Points(f, S)
    BY <1>2 DEF GS!Points, Points
  <2> SUFFICES ASSUME NEW h, NEW u, NEW r, NEW c
               PROVE  GS!Tried(h, u, r, c) = Tried(h, u, r, c)
    OBVIOUS
  <2> DEFINE S == Span(u, r, c)
             to(f, s, n) == [h EXCEPT !.candies = f, !.squares = s, !.score = @ + n]
  <2>4. GS!Tried(h, u, r, c) =
          IF ~Matches(h.candies, u, r, c) THEN h
          ELSE to(GS!Erased(h.candies, S), GS!Worn(h.squares, S),
                  GS!Points(h.squares, S))
    BY <1>1, <2>1, Zenon DEF GS!Tried
  <2>5. Tried(h, u, r, c) =
          IF ~Matches(h.candies, u, r, c) THEN h
          ELSE to(Erased(h.candies, S), Worn(h.squares, S), Points(h.squares, S))
    BY Zenon DEF Tried
  <2> HIDE DEF S, to
  <2> QED
    BY <2>2, <2>3, <2>4, <2>5
<1>4. \A u : GS!Times(GS!ScanCols(u)) = Times(ScanCols(u))
             /\ GS!Times(GS!ScanRows(u)) = Times(ScanRows(u))
  BY DEF GS!Times, Times, GS!ScanRows, ScanRows, GS!ScanCols, ScanCols,
         GS!Extent, Extent, GS!Vertical, Vertical
<1>5. \A h, u, r : GS!Columns(h, u, r) = Columns(h, u, r)
  BY <1>3 DEF GS!Columns, Columns
<1>6. \A h, u : GS!RowsOf(h, u) = RowsOf(h, u)
  BY <1>4, <1>5 DEF GS!RowsOf, RowsOf
<1>7. \A h : GS!TemplatesOf(h) = TemplatesOf(h)
  BY <1>4, <1>6 DEF GS!TemplatesOf, TemplatesOf
<1> QED
  BY <1>7 DEF GS!Pass, Pass

-----------------------------------------------------------------------------
(* The positions a call runs through.                                      *)

Position == [candies: [Cell -> Candy], squares: [Cell -> Nat],
             offset: [ColIds -> Nat], score: Int]

(* MatchTemplate and gravity lead from a position to a position.           *)
LEMMA PositionKeeps == Keeps(Position)
<1> SUFFICES ASSUME NEW g \in Position, NEW u \in Nat, NEW r \in Nat, NEW c \in Nat
             PROVE  Tried(g, u, r, c) \in Position
  BY DEF Keeps
<1>1. /\ g.candies \in [Cell -> Candy] /\ g.squares \in [Cell -> Nat]
      /\ g.score \in Int
  BY DEF Position
<1>2. \/ Tried(g, u, r, c) = g
      \/ \E f \in [Cell -> Candy], s \in [Cell -> Nat], n \in Int :
            Tried(g, u, r, c) = Changed(g, f, s, n)
  BY <1>1, TriedType
<1>3. \A f \in [Cell -> Candy], s \in [Cell -> Nat], n \in Int :
          Changed(g, f, s, n) \in Position
  BY DEF Position, Changed
<1> QED
  BY <1>2, <1>3

(* What gravity leaves, column by column. *)
LEMMA PackedIs ==
    ASSUME NEW ext, NEW g \in Position
    PROVE  /\ GS!Packed(ext, g).squares = g.squares
           /\ GS!Packed(ext, g).score = g.score
           /\ \A c \in ColIds :
                 /\ Left(g, c) \in 0..Rows
                 /\ GS!Packed(ext, g).offset[c] = g.offset[c] + Rows - Left(g, c)
                 /\ \A r \in RowIds :
                       GS!Packed(ext, g).candies[<<r, c>>] =
                          IF r < Left(g, c) THEN Survivor(g.candies, c, r)
                          ELSE ExtCandy(ext, g.offset[c] + r - Left(g, c), c)
<1> DEFINE left(c) == Cardinality(Survivors(g.candies, c))
           candiesOf == [x \in Cell |->
                           IF x[1] < left(x[2]) THEN Survivor(g.candies, x[2], x[1])
                           ELSE ExtCandy(ext, g.offset[x[2]] + x[1] - left(x[2]), x[2])]
           offsetOf == [c \in ColIds |-> g.offset[c] + Rows - left(c)]
<1>1. GS!Packed(ext, g) = [g EXCEPT !.candies = candiesOf, !.offset = offsetOf]
  BY SamePacked
<1>2. \A c \in ColIds : left(c) \in 0..Rows /\ offsetOf[c] = g.offset[c] + Rows - left(c)
  BY SurvivorsType
<1>3. \A c \in ColIds, r \in RowIds :
          candiesOf[<<r, c>>] = IF r < left(c) THEN Survivor(g.candies, c, r)
                                ELSE ExtCandy(ext, g.offset[c] + r - left(c), c)
  BY DEF Cell
<1> HIDE DEF left, candiesOf, offsetOf
<1>4. /\ GS!Packed(ext, g).squares = g.squares /\ GS!Packed(ext, g).score = g.score
      /\ GS!Packed(ext, g).candies = candiesOf /\ GS!Packed(ext, g).offset = offsetOf
  BY <1>1 DEF Position
<1> QED
  BY <1>2, <1>3, <1>4 DEF left, Left

(* Gravity leaves a position.                                              *)
LEMMA PackedType ==
    ASSUME NEW ext \in [ExtCell -> Candy], NEW g \in Position
    PROVE  GS!Packed(ext, g) \in Position
<1> DEFINE left(c) == Cardinality(Survivors(g.candies, c))
           candiesOf == [x \in Cell |->
                           IF x[1] < left(x[2]) THEN Survivor(g.candies, x[2], x[1])
                           ELSE ExtCandy(ext, g.offset[x[2]] + x[1] - left(x[2]), x[2])]
           offsetOf == [c \in ColIds |-> g.offset[c] + Rows - left(c)]
<1>1. GS!Packed(ext, g) = [g EXCEPT !.candies = candiesOf, !.offset = offsetOf]
  BY SamePacked
<1>2. /\ g.candies \in [Cell -> Candy] /\ g.offset \in [ColIds -> Nat]
      /\ \A c : left(c) \in 0..Rows
  BY SurvivorsType DEF Position
<1>3. candiesOf \in [Cell -> Candy]
  <2> SUFFICES ASSUME NEW x \in Cell
               PROVE  (IF x[1] < left(x[2]) THEN Survivor(g.candies, x[2], x[1])
                       ELSE ExtCandy(ext, g.offset[x[2]] + x[1] - left(x[2]), x[2]))
                         \in Candy
    OBVIOUS
  <2>1. x[1] \in Nat /\ x[2] \in ColIds
    BY BoardAssumption DEF Cell, RowIds
  <2>2. CASE x[1] < left(x[2])
    BY <1>2, <2>1, <2>2, SurvivorType
  <2>3. CASE ~ (x[1] < left(x[2]))
    <3> HIDE DEF left
    <3>1. g.offset[x[2]] + x[1] - left(x[2]) \in Nat
      <4>1. g.offset[x[2]] \in Nat /\ left(x[2]) \in Int
        BY <1>2, <2>1
      <4> QED
        BY <2>1, <2>3, <4>1
    <3> QED
      BY <2>1, <2>3, <3>1, ExtCandyType
  <2> QED
    BY <2>2, <2>3
<1>4. offsetOf \in [ColIds -> Nat]
  <2> SUFFICES ASSUME NEW c \in ColIds PROVE g.offset[c] + Rows - left(c) \in Nat
    OBVIOUS
  <2>1. g.offset[c] \in Nat /\ left(c) \in 0..Rows
    BY <1>2
  <2> HIDE DEF left
  <2> QED
    BY <2>1, BoardAssumption
<1> HIDE DEF candiesOf, offsetOf
<1> QED
  BY <1>1, <1>3, <1>4 DEF Position

(* The passes of Settle. *)
LEMMA RoundsLoop ==
    ASSUME NEW ext \in [ExtCell -> Candy], NEW g \in Position
    PROVE  /\ Rounds(ext, g) \in [Nat -> Position] /\ Rounds(ext, g)[0] = g
           /\ \A n \in Nat :
                 Rounds(ext, g)[n + 1] = IF Fires(Rounds(ext, g)[n].candies)
                                         THEN GS!Packed(ext, Pass(Rounds(ext, g)[n]))
                                         ELSE Rounds(ext, g)[n]
<1> DEFINE Once(h) == IF Fires(h.candies) THEN GS!Packed(ext, Pass(h)) ELSE h
           F(h) == [n \in Nat |-> IF n = 0 THEN g ELSE Once(h[n - 1])]
           step == [n \in Nat |-> [h \in Position |-> Once(h)]]
           after == CHOOSE h : h = F(h)
<1>1. \A h \in Position : Once(h) \in Position
  BY PositionKeeps, PassKeeps, PackedType
<1>2. PICK h \in [Nat -> Position] : Loop(Position, step, g, h)
  <2>1. step \in [Nat -> [Position -> Position]]
    <3> HIDE DEF Once
    <3> QED
      BY <1>1
  <2> HIDE DEF step
  <2> QED
    BY <2>1, Recursion
<1>3. Rounds(ext, g) = after
  BY DEF Rounds, Passes
<1> HIDE DEF Once
<1>4. h = F(h)
  <2>1. \A n \in Nat : n # 0 => n - 1 \in Nat /\ h[n - 1] \in Position
    OBVIOUS
  <2>2. \A n \in Nat : n # 0 => step[n - 1][h[n - 1]] = Once(h[n - 1])
    BY <2>1
  <2> HIDE DEF step
  <2> QED
    BY <1>2, <2>2 DEF Loop
<1>5. after = F(after)
  BY <1>4
<1> HIDE DEF after
<1>6. /\ after[0] = g /\ after = [n \in Nat |-> after[n]]
      /\ \A n \in Nat : after[n + 1] = Once(after[n])
  BY <1>5
<1>7. after \in [Nat -> Position]
  <2>1. \A n \in Nat : after[n] \in Position => after[n + 1] \in Position
    BY <1>1, <1>6
  <2> QED
    BY <1>6, <2>1, LoopType
<1> QED
  BY <1>3, <1>6, <1>7 DEF Once

(* GameSpec's Settled is the last of these rounds.                         *)
LEMMA SettledIs ==
    ASSUME NEW ext, NEW g
    PROVE  GS!Settled(ext, g) = Rounds(ext, g)[MaxSettle]
<1>1. \A h : GS!Fires(h.candies) = Fires(h.candies) /\ GS!Pass(h) = Pass(h)
  BY SameBoard, SamePass
<1> QED
  BY <1>1, Zenon DEF GS!Settled, GS!Passes, Rounds, Passes

(* After a pass in which nothing fires Settle changes nothing any more.    *)
LEMMA QuietForGood ==
    ASSUME NEW ext \in [ExtCell -> Candy], NEW g \in Position, NEW n \in Nat,
           ~Fires(Rounds(ext, g)[n].candies), NEW m \in Nat, n <= m
    PROVE  Rounds(ext, g)[m] = Rounds(ext, g)[n]
<1> DEFINE h == Rounds(ext, g)
           S == {k \in Nat : h[n + k] = h[n]}
<1>1. 0 \in S
  OBVIOUS
<1>2. ASSUME NEW k \in Nat, k \in S PROVE k + 1 \in S
  <2>1. n + k \in Nat /\ n + k + 1 = n + (k + 1) /\ h[n + k] = h[n]
    BY <1>2
  <2>2. h[n + k + 1] = h[n + k]
    BY <2>1, RoundsLoop
  <2> QED
    BY <2>1, <2>2
<1>3. Nat \subseteq S
  <2> HIDE DEF S
  <2> QED
    BY <1>1, <1>2, NatSet
<1>4. m - n \in S /\ n + (m - n) = m
  BY <1>3
<1> QED
  BY <1>4

-----------------------------------------------------------------------------
(* The scan, position by position.                                         *)
LEMMA ScanLoop ==
    ASSUME NEW g \in Position
    PROVE  /\ ScannedTo(g, 0, 0, 0) = g /\ ScannedTo(g, 4, 0, 0) = Pass(g)
           /\ \A u \in Nat, r \in Nat, c \in Nat :
                 /\ ScannedTo(g, u, r, c) \in Position
                 /\ ScannedTo(g, u, r, c + 1) = Tried(ScannedTo(g, u, r, c), u, r, c)
           /\ \A u \in Nat, r \in Nat :
                 /\ ScannedTo(g, u, r + 1, 0) = ScannedTo(g, u, r, Times(ScanCols(u)))
                 /\ Times(ScanCols(u)) = 0
                       => ScannedTo(g, u, r, 0) = ScannedTo(g, u, 0, 0)
           /\ \A u \in Nat :
                 ScannedTo(g, u + 1, 0, 0) = ScannedTo(g, u, Times(ScanRows(u)), 0)
<1>1. /\ TemplatesOf(g) \in [Nat -> Position] /\ TemplatesOf(g)[0] = g
      /\ \A u \in Nat : TemplatesOf(g)[u + 1]
                           = RowsOf(TemplatesOf(g)[u], u)[Times(ScanRows(u))]
  BY TemplatesLoop, PositionKeeps
<1>2. \A u \in Nat : TemplatesOf(g)[u] \in Position
  BY <1>1
<1>3. ASSUME NEW u \in Nat
      PROVE  /\ RowsOf(TemplatesOf(g)[u], u) \in [Nat -> Position]
             /\ RowsOf(TemplatesOf(g)[u], u)[0] = TemplatesOf(g)[u]
             /\ \A r \in Nat :
                   RowsOf(TemplatesOf(g)[u], u)[r + 1]
                      = Columns(RowsOf(TemplatesOf(g)[u], u)[r], u, r)
                           [Times(ScanCols(u))]
  <2> DEFINE h == TemplatesOf(g)[u]
  <2>1. h \in Position
    BY <1>2
  <2> HIDE DEF h
  <2>2. /\ RowsOf(h, u) \in [Nat -> Position] /\ RowsOf(h, u)[0] = h
        /\ \A r \in Nat : RowsOf(h, u)[r + 1]
                             = Columns(RowsOf(h, u)[r], u, r)[Times(ScanCols(u))]
    BY <2>1, RowsLoop, PositionKeeps
  <2> QED
    BY <2>2 DEF h
<1>4. \A u \in Nat, r \in Nat : RowsOf(TemplatesOf(g)[u], u)[r] \in Position
  BY <1>3
<1>5. ASSUME NEW u \in Nat, NEW r \in Nat
      PROVE  /\ ScannedTo(g, u, r, 0) = RowsOf(TemplatesOf(g)[u], u)[r]
             /\ \A c \in Nat :
                   /\ ScannedTo(g, u, r, c) \in Position
                   /\ ScannedTo(g, u, r, c + 1)
                         = Tried(ScannedTo(g, u, r, c), u, r, c)
  <2> DEFINE h == RowsOf(TemplatesOf(g)[u], u)[r]
  <2>1. h \in Position
    BY <1>4
  <2>2. \A c \in Nat : ScannedTo(g, u, r, c) = Columns(h, u, r)[c]
    BY DEF ScannedTo
  <2> HIDE DEF h
  <2>3. /\ Columns(h, u, r) \in [Nat -> Position] /\ Columns(h, u, r)[0] = h
        /\ \A c \in Nat : Columns(h, u, r)[c + 1] = Tried(Columns(h, u, r)[c], u, r, c)
    BY <2>1, ColumnsLoop, PositionKeeps
  <2> QED
    BY <2>2, <2>3 DEF h
<1>6. \A u \in Nat, r \in Nat :
         ScannedTo(g, u, r, 0) = RowsOf(TemplatesOf(g)[u], u)[r]
  BY <1>5
<1>7. \A u \in Nat : ScannedTo(g, u, 0, 0) = TemplatesOf(g)[u]
  BY <1>3, <1>6
<1>8. /\ ScannedTo(g, 0, 0, 0) = g /\ ScannedTo(g, 4, 0, 0) = Pass(g)
  BY <1>1, <1>7 DEF Pass
<1>9. \A u \in Nat, r \in Nat, c \in Nat :
         /\ ScannedTo(g, u, r, c) \in Position
         /\ ScannedTo(g, u, r, c + 1) = Tried(ScannedTo(g, u, r, c), u, r, c)
  BY <1>5
<1>10. \A u \in Nat, r \in Nat :
         ScannedTo(g, u, r + 1, 0) = ScannedTo(g, u, r, Times(ScanCols(u)))
  <2> SUFFICES ASSUME NEW u \in Nat, NEW r \in Nat
               PROVE  ScannedTo(g, u, r + 1, 0)
                         = ScannedTo(g, u, r, Times(ScanCols(u)))
    OBVIOUS
  <2>1. ScannedTo(g, u, r + 1, 0) = RowsOf(TemplatesOf(g)[u], u)[r + 1]
    BY <1>6
  <2> QED
    BY <2>1, <1>3 DEF ScannedTo
<1>11. ASSUME NEW u \in Nat, Times(ScanCols(u)) = 0, NEW r \in Nat
       PROVE  ScannedTo(g, u, r, 0) = ScannedTo(g, u, 0, 0)
  <2> DEFINE S == {n \in Nat : ScannedTo(g, u, n, 0) = ScannedTo(g, u, 0, 0)}
  <2>1. 0 \in S /\ \A n \in Nat : n \in S => n + 1 \in S
    BY <1>10, <1>11
  <2> HIDE DEF S
  <2>2. r \in S
    BY <2>1, NatSet
  <2> QED
    BY <2>2 DEF S
<1>12. \A u \in Nat :
          ScannedTo(g, u + 1, 0, 0) = ScannedTo(g, u, Times(ScanRows(u)), 0)
  <2> SUFFICES ASSUME NEW u \in Nat
               PROVE  ScannedTo(g, u + 1, 0, 0)
                         = ScannedTo(g, u, Times(ScanRows(u)), 0)
    OBVIOUS
  <2>1. ScannedTo(g, u + 1, 0, 0) = TemplatesOf(g)[u + 1]
    BY <1>7
  <2>2. ScannedTo(g, u, Times(ScanRows(u)), 0)
           = RowsOf(TemplatesOf(g)[u], u)[Times(ScanRows(u))]
    BY <1>6, TimesType
  <2> QED
    BY <2>1, <2>2, <1>1
<1> QED
  BY <1>8, <1>9, <1>10, <1>11, <1>12

-----------------------------------------------------------------------------
(* Gravity, column by column.                                              *)

(* A column gravity has not come to is under it before the first row. *)
LEMMA FallStarts ==
    ASSUME NEW ext, NEW g \in Position, NEW h, NEW c \in ColIds,
           Untouched(g, h, c)
    PROVE  Under(ext, g, h, c, 0, 0)
<1>1. CandiesIn(g, c, 0) = 0
  BY RankSteps, BoardAssumption DEF CandiesIn
<1>2. g.offset[c] \in Nat
  BY DEF Position
<1>3. \A s \in RowIds : s \in Int /\ ~(s < 0) /\ s < Rows
  BY BoardAssumption DEF RowIds
<1> QED
  BY <1>1, <1>2, <1>3 DEF Untouched, Under, Stream

(* One more candy or hole of what gravity takes from. *)
LEMMA CandiesStep ==
    ASSUME NEW ext \in [ExtCell -> Colors], NEW g \in Position,
           NEW c \in ColIds, NEW n \in Nat
    PROVE  /\ CandiesIn(g, c, n) \in Nat
           /\ CandiesIn(g, c, n + 1) = IF Stream(ext, g, c, n) = Hole
                                       THEN CandiesIn(g, c, n)
                                       ELSE CandiesIn(g, c, n) + 1
<1>1. Left(g, c) \in Nat /\ Rank(g.candies, c, n) \in Nat
  <2>1. Left(g, c) \in 0..Rows
    BY SurvivorsType DEF Left
  <2>2. n \in Int
    OBVIOUS
  <2>3. Rank(g.candies, c, n) \in 0..Cardinality(Survivors(g.candies, c))
    BY <2>2, SurvivorsType, Zenon
  <2> QED
    BY <2>1, <2>3, BoardAssumption DEF Left
<1>2. CASE n < Rows
  <2>1. n \in RowIds
    BY <1>2, BoardAssumption DEF RowIds
  <2>2. n \in Survivors(g.candies, c) <=> Stream(ext, g, c, n) # Hole
    BY <1>2, <2>1 DEF Survivors, Stream
  <2>3. CandiesIn(g, c, n + 1) = Rank(g.candies, c, n + 1)
    <3>1. CASE n + 1 < Rows
      BY <3>1 DEF CandiesIn
    <3>2. CASE n + 1 = Rows
      BY <3>2, <1>1, RankSteps, BoardAssumption DEF CandiesIn, Left
    <3> QED
      BY <1>2, <3>1, <3>2, BoardAssumption
  <2>4. CandiesIn(g, c, n) = Rank(g.candies, c, n)
    BY <1>2 DEF CandiesIn
  <2> QED
    BY <1>1, <2>2, <2>3, <2>4, RankSteps
<1>3. CASE ~(n < Rows)
  <2>1. g.offset[c] + n - Rows \in Nat
    <3>1. g.offset[c] \in Nat
      BY DEF Position
    <3> QED
      BY <1>3, <3>1, BoardAssumption
  <2>2. ext \in [ExtCell -> Candy]
    BY DEF Candy
  <2>3. ExtCandy(ext, g.offset[c] + n - Rows, c) \in Colors
    BY <2>1, <2>2, ExtCandyType
  <2>4. Stream(ext, g, c, n) # Hole
    BY <1>3, <2>3, BoardAssumption DEF Stream, Hole
  <2> QED
    BY <1>1, <1>3, <2>4, BoardAssumption DEF CandiesIn
<1> QED
  BY <1>2, <1>3

(* ShiftDown takes one more for the row gravity is in; the other columns   *)
(* stay as they are.                                                       *)
LEMMA DroppedUnder ==
    ASSUME NEW ext \in [ExtCell -> Colors], NEW g \in Position, NEW h \in Position,
           NEW c \in ColIds, NEW r \in RowIds, NEW n \in Nat,
           Under(ext, g, h, c, r, n), h.candies[<<r, c>>] = Hole,
           NEW k, k.candies = Dropped(h.candies, r, c, ExtCandy(ext, h.offset[c], c)),
           k.offset = [h.offset EXCEPT ![c] = @ + 1]
    PROVE  /\ Under(ext, g, k, c, r, n + 1)
           /\ \A d \in ColIds : d # c =>
                 /\ Done(ext, g, h, d) => Done(ext, g, k, d)
                 /\ Untouched(g, h, d) => Untouched(g, k, d)
<1>1. /\ r \in Nat /\ r < Rows /\ r + n \in Nat /\ Rows \in Nat
  BY BoardAssumption DEF RowIds
<1>2. /\ h.offset[c] = g.offset[c] + n /\ CandiesIn(g, c, r + n) = r
      /\ \A s \in RowIds :
            h.candies[<<s, c>>] = IF s < r THEN GS!Packed(ext, g).candies[<<s, c>>]
                                  ELSE Stream(ext, g, c, s + n)
  BY DEF Under
<1>3. /\ g.offset \in [ColIds -> Nat] /\ h.offset \in [ColIds -> Nat]
  BY DEF Position
<1>4. k.offset[c] = g.offset[c] + (n + 1)
  BY <1>2, <1>3
<1>5. CandiesIn(g, c, r + (n + 1)) = r
  <2>1. Stream(ext, g, c, r + n) = Hole
    BY <1>1, <1>2
  <2>2. r + (n + 1) = (r + n) + 1
    BY <1>1
  <2> QED
    BY <1>1, <1>2, <2>1, <2>2, CandiesStep
<1>6. ASSUME NEW s \in RowIds
      PROVE  k.candies[<<s, c>>] = IF s < r THEN GS!Packed(ext, g).candies[<<s, c>>]
                                   ELSE Stream(ext, g, c, s + (n + 1))
  <2>0. s \in Nat /\ s < Rows /\ <<s, c>> \in Cell
    BY BoardAssumption DEF RowIds, Cell
  <2>1. k.candies[<<s, c>>] = IF s < r THEN h.candies[<<s, c>>]
                              ELSE IF s = Rows - 1 THEN ExtCandy(ext, h.offset[c], c)
                              ELSE h.candies[<<s + 1, c>>]
    BY <2>0 DEF Dropped
  <2>2. CASE s < r
    BY <1>2, <2>1, <2>2
  <2>3. CASE ~(s < r) /\ s = Rows - 1
    <3>1. ~(s + (n + 1) < Rows) /\ g.offset[c] + (s + (n + 1)) - Rows = h.offset[c]
      BY <1>1, <1>2, <1>3, <2>0, <2>3
    <3> QED
      BY <2>1, <2>3, <3>1 DEF Stream
  <2>4. CASE ~(s < r) /\ s # Rows - 1
    <3>1. s + 1 \in RowIds /\ ~(s + 1 < r) /\ (s + 1) + n = s + (n + 1)
      BY <1>1, <2>0, <2>4 DEF RowIds
    <3> QED
      BY <1>2, <2>1, <2>4, <3>1
  <2> QED
    BY <2>2, <2>3, <2>4
<1>7. \A d \in ColIds : d # c =>
         /\ k.offset[d] = h.offset[d]
         /\ \A s \in RowIds : k.candies[<<s, d>>] = h.candies[<<s, d>>]
  BY <1>3 DEF Dropped, Cell
<1> QED
  BY <1>4, <1>5, <1>6, <1>7 DEF Under, Done, Untouched

(* A row that holds a candy is packed. *)
LEMMA RowPacked ==
    ASSUME NEW ext \in [ExtCell -> Colors], NEW g \in Position, NEW h \in Position,
           NEW c \in ColIds, NEW r \in RowIds, NEW n \in Nat,
           Under(ext, g, h, c, r, n), h.candies[<<r, c>>] # Hole
    PROVE  Under(ext, g, h, c, r + 1, n)
<1> DEFINE p == GS!Packed(ext, g).candies[<<r, c>>]
<1>1. /\ r \in Nat /\ r < Rows /\ r + n \in Nat /\ Rows \in Nat
  BY BoardAssumption DEF RowIds
<1>2. /\ CandiesIn(g, c, r + n) = r
      /\ Stream(ext, g, c, r + n) # Hole
      /\ h.candies[<<r, c>>] = Stream(ext, g, c, r + n)
  BY <1>1 DEF Under
<1>3. /\ Left(g, c) \in 0..Rows /\ g.offset[c] \in Nat
      /\ p = IF r < Left(g, c) THEN Survivor(g.candies, c, r)
             ELSE ExtCandy(ext, g.offset[c] + r - Left(g, c), c)
  BY PackedIs DEF Position
<1> HIDE DEF p
<1>4. p = Stream(ext, g, c, r + n)
  <2>1. CASE r + n < Rows
    <3>1. r + n \in Survivors(g.candies, c)
      BY <1>1, <1>2, <2>1 DEF Stream, Survivors, RowIds
    <3>2. Rank(g.candies, c, r + n) = r
      BY <1>2, <2>1 DEF CandiesIn
    <3>3. r < Left(g, c)
      BY <1>1, <2>1, <3>1, <3>2, RankGrows, RankSteps DEF Left
    <3>4. Survivor(g.candies, c, r) = g.candies[<<r + n, c>>]
      BY <3>1, <3>2, SurvivorIs
    <3> QED
      BY <1>3, <2>1, <3>3, <3>4 DEF Stream
  <2>2. CASE ~(r + n < Rows)
    <3>1. Left(g, c) + (r + n) - Rows = r
      BY <1>2, <2>2 DEF CandiesIn
    <3>2. ~(r < Left(g, c)) /\ g.offset[c] + r - Left(g, c) = g.offset[c] + (r + n) - Rows
      BY <1>1, <1>3, <2>2, <3>1
    <3> QED
      BY <1>3, <2>2, <3>2 DEF Stream
  <2> QED
    BY <2>1, <2>2
<1>5. CandiesIn(g, c, (r + 1) + n) = r + 1
  <2>1. (r + 1) + n = (r + n) + 1
    BY <1>1
  <2> QED
    BY <1>1, <1>2, <2>1, CandiesStep
<1>6. \A s \in RowIds : s < r + 1 <=> s < r \/ s = r
  BY <1>1, BoardAssumption DEF RowIds
<1> QED
  BY <1>2, <1>4, <1>5, <1>6 DEF Under, p

(* A column is done once its rest comes from the extension board alone. *)
LEMMA ColumnPacked ==
    ASSUME NEW ext \in [ExtCell -> Colors], NEW g \in Position, NEW h \in Position,
           NEW c \in ColIds, NEW r \in RowIds, NEW n \in Nat,
           Under(ext, g, h, c, r, n), h.candies[<<r, c>>] # Hole,
           r + 1 + n >= Rows
    PROVE  Done(ext, g, h, c)
<1>1. /\ r \in Nat /\ r < Rows /\ Rows \in Nat
  BY BoardAssumption DEF RowIds
<1>2. /\ h.offset[c] = g.offset[c] + n
      /\ CandiesIn(g, c, (r + 1) + n) = r + 1
      /\ \A s \in RowIds :
            h.candies[<<s, c>>] = IF s < r + 1 THEN GS!Packed(ext, g).candies[<<s, c>>]
                                  ELSE Stream(ext, g, c, s + n)
  BY RowPacked DEF Under
<1>3. /\ Left(g, c) \in 0..Rows /\ g.offset[c] \in Nat
      /\ GS!Packed(ext, g).offset[c] = g.offset[c] + Rows - Left(g, c)
      /\ \A s \in RowIds :
            GS!Packed(ext, g).candies[<<s, c>>] =
               IF s < Left(g, c) THEN Survivor(g.candies, c, s)
               ELSE ExtCandy(ext, g.offset[c] + s - Left(g, c), c)
  BY PackedIs DEF Position
<1>4. Left(g, c) + n = Rows
  BY <1>1, <1>2, <1>3 DEF CandiesIn
<1>5. h.offset[c] = GS!Packed(ext, g).offset[c]
  BY <1>1, <1>2, <1>3, <1>4
<1>6. ASSUME NEW s \in RowIds, ~(s < r + 1)
      PROVE  Stream(ext, g, c, s + n) = GS!Packed(ext, g).candies[<<s, c>>]
  <2>1. s \in Nat
    BY BoardAssumption DEF RowIds
  <2>2. /\ ~(s < Left(g, c)) /\ ~(s + n < Rows)
        /\ g.offset[c] + s - Left(g, c) = g.offset[c] + (s + n) - Rows
    BY <1>1, <1>3, <1>4, <1>6, <2>1
  <2> QED
    BY <1>3, <2>2 DEF Stream
<1> QED
  BY <1>2, <1>5, <1>6 DEF Done

(* When every column is done, the board is packed. *)
LEMMA BoardPacked ==
    ASSUME NEW ext \in [ExtCell -> Candy], NEW g \in Position, NEW h \in Position,
           \A c \in ColIds : Done(ext, g, h, c),
           h.squares = g.squares, h.score = g.score
    PROVE  h = GS!Packed(ext, g)
<1> DEFINE p == GS!Packed(ext, g)
<1>1. p \in Position
  BY PackedType
<1>2. p.squares = h.squares /\ p.score = h.score
  BY PackedIs
<1>3. \A c \in ColIds : h.offset[c] = p.offset[c]
  BY DEF Done
<1>4. \A x \in Cell : h.candies[x] = p.candies[x]
  <2> SUFFICES ASSUME NEW x \in Cell PROVE h.candies[x] = p.candies[x]
    OBVIOUS
  <2>1. x = <<x[1], x[2]>> /\ x[1] \in RowIds /\ x[2] \in ColIds
    BY DEF Cell
  <2>2. h.candies[<<x[1], x[2]>>] = p.candies[<<x[1], x[2]>>]
    BY <2>1 DEF Done
  <2> QED
    BY <2>1, <2>2
<1> HIDE DEF p
<1>5. h.candies = p.candies /\ h.offset = p.offset
  BY <1>1, <1>3, <1>4 DEF Position
<1> QED
  BY <1>1, <1>2, <1>5 DEF Position, p

-----------------------------------------------------------------------------
(* The call as a whole: CallInv, step by step.                             *)

(* The boards a call is about are positions, and its rounds follow on each *)
(* other.                                                                  *)
LEMMA CallTypes ==
    ASSUME TypeOK
    PROVE  /\ Held \in Position /\ Found \in Position /\ Start \in Position
           /\ Round \in [Nat -> Position] /\ Round[0] = Start
           /\ \A n \in Nat :
                 Round[n + 1] = IF Fires(Round[n].candies)
                                THEN GS!Packed(extBoard, Pass(Round[n]))
                                ELSE Round[n]
           /\ Source \in Position
<1>1. Held \in Position /\ Found \in Position
  BY DEF TypeOK, Held, Found, Position
<1>2. Start \in Position
  <2>1. Exchange(entry.candies, pair[1], pair[2]) \in [Cell -> Candy]
    BY ExchangeType DEF TypeOK
  <2>2. [Found EXCEPT !.candies = Exchange(@, pair[1], pair[2])] \in Position
    BY <1>1, <2>1 DEF Position, Found
  <2>3. GS!Packed(extBoard, Found) \in Position
    BY <1>1, PackedType DEF TypeOK
  <2> QED
    BY <1>1, <2>2, <2>3 DEF Start
<1>3. /\ Round \in [Nat -> Position] /\ Round[0] = Start
      /\ \A n \in Nat :
            Round[n + 1] = IF Fires(Round[n].candies)
                           THEN GS!Packed(extBoard, Pass(Round[n]))
                           ELSE Round[n]
  BY <1>2, RoundsLoop DEF TypeOK, Round
<1>4. Source \in Position
  <2>1. counter \in Nat
    BY DEF TypeOK
  <2>2. CASE counter = 0
    BY <1>1, <2>2 DEF Source
  <2>3. CASE counter # 0
    <3>1. Round[counter - 1] \in Position
      BY <1>3, <2>1, <2>3
    <3> QED
      BY <2>3, <3>1, PositionKeeps, PassKeeps DEF Source
  <2> QED
    BY <2>2, <2>3
<1> QED
  BY <1>1, <1>2, <1>3, <1>4

(* While a call runs, what it found stays. *)
LEMMA CallStays ==
    ASSUME UNCHANGED <<extBoard, pair, caller, entry>>
    PROVE  /\ Found' = Found /\ Start' = Start /\ Round' = Round
           /\ (counter' = counter => Source' = Source)
<1>1. Found' = Found
  BY DEF Found
<1>2. Start' = Start
  BY <1>1 DEF Start
<1>3. Round' = Round
  BY <1>2 DEF Round
<1> QED
  BY <1>1, <1>2, <1>3 DEF Source

(* So does what its caller told it.                                        *)
LEMMA CallerStays ==
    ASSUME CallerInv, UNCHANGED <<extBoard, pair, caller, entry, moves, played>>,
           pc \in {"scan", "fall"}, pc' # "new"
    PROVE  CallerInv'
BY DEF CallerInv, Read

(* MatchTemplate at the cursor, and the cursor of the innermost loop. *)
LEMMA TriedAdvances ==
    ASSUME TypeOK, TypeOK', CallInv, pc = "scan", t \in Templates,
           InScan(t, row, col), NextPosition, UNCHANGED <<t, counter>>,
           UNCHANGED <<extBoard, pair, caller, entry>>,
           Held' = Tried(Held, t, row, col),
           IF fired' THEN Fires(Round[counter].candies) ELSE Held' = Round[counter]
    PROVE  ScanInv'
<1> DEFINE g == Round[counter]
<1>1. Round' = Round
  BY CallStays
<1>2. g \in Position
  BY CallTypes DEF TypeOK
<1>3. /\ t \in Nat /\ row \in Nat /\ col \in Nat /\ t # 4
      /\ row < ScanRows(t) /\ col < ScanCols(t)
      /\ ScanRows(t) \in Int /\ ScanCols(t) \in Int
  BY ScanIsInt DEF TypeOK, Templates, InScan
<1>4. /\ counter < MaxSettle /\ Held = ScannedTo(g, t, row, col)
  BY DEF CallInv, ScanInv
<1> HIDE DEF g
<1>5. Held' = ScannedTo(g, t, row, col + 1)
  BY <1>2, <1>3, <1>4, ScanLoop
<1>6. CASE col + 1 < ScanCols(t)
  <2>1. row' = row /\ col' = col + 1
    BY <1>6 DEF NextPosition
  <2>2. /\ row <= Times(ScanRows(t)) /\ ScanCols(t) > 0 /\ InScan(t, row, col + 1)
    BY <1>3, <1>6 DEF Times, InScan
  <2> QED
    BY <1>1, <1>3, <1>4, <1>5, <2>1, <2>2 DEF ScanInv, g
<1>7. CASE ~(col + 1 < ScanCols(t))
  <2>1. row' = row + 1 /\ col' = 0
    BY <1>7 DEF NextPosition
  <2>2. col + 1 = Times(ScanCols(t)) /\ ScanCols(t) > 0 /\ row + 1 <= Times(ScanRows(t))
    BY <1>3, <1>7 DEF Times
  <2>3. Held' = ScannedTo(g, t, row + 1, 0)
    BY <1>2, <1>3, <1>5, <2>2, ScanLoop
  <2> QED
    BY <1>1, <1>3, <1>4, <2>1, <2>2, <2>3 DEF ScanInv, g
<1> QED
  BY <1>6, <1>7

(* MatchTemplate fires: the round this pass began with does match.         *)
LEMMA FireAdvances ==
    ASSUME TypeOK, TypeOK', CallInv, Fire
    PROVE  CallInv'
<1>1. /\ pc = "scan" /\ pc' = "scan" /\ t \in Templates /\ InScan(t, row, col)
      /\ NextPosition /\ UNCHANGED <<t, counter>> /\ fired'
      /\ UNCHANGED <<extBoard, pair, caller, entry, moves, played>>
      /\ Matches(candies, t, row, col)
  BY DEF Fire
<1>2. Held' = Tried(Held, t, row, col)
  BY DEF Fire, Held, Tried
<1>3. Fires(Round[counter].candies)
  <2>1. CASE fired
    BY <1>1, <2>1 DEF CallInv, ScanInv
  <2>2. CASE ~fired
    <3>1. Round[counter].candies = candies
      BY <1>1, <2>2 DEF CallInv, ScanInv, Held
    <3>2. row \in RowIds /\ col \in ColIds
      <4>1. ScanRows(t) <= Rows /\ ScanCols(t) <= Cols
        BY BoardAssumption DEF ScanRows, ScanCols, Extent
      <4>2. row \in Nat /\ row < ScanRows(t) /\ col \in Nat /\ col < ScanCols(t)
        BY <1>1 DEF TypeOK, InScan
      <4> QED
        BY <4>1, <4>2, ScanIsInt, BoardAssumption DEF RowIds, ColIds
    <3> QED
      BY <1>1, <3>1, <3>2 DEF Fires
  <2> QED
    BY <2>1, <2>2
<1>4. ScanInv'
  BY <1>1, <1>2, <1>3, TriedAdvances
<1>5. CallerInv'
  BY <1>1, CallerStays DEF CallInv
<1> QED
  BY <1>1, <1>4, <1>5 DEF CallInv, FallInv

(* MatchTemplate returns false and changes nothing.                        *)
LEMMA MissAdvancesCall ==
    ASSUME TypeOK, TypeOK', CallInv, Miss
    PROVE  CallInv'
<1>1. /\ pc = "scan" /\ pc' = "scan" /\ t \in Templates /\ InScan(t, row, col)
      /\ NextPosition /\ UNCHANGED <<t, counter, fired>>
      /\ UNCHANGED <<extBoard, pair, caller, entry, moves, played>>
      /\ ~Matches(candies, t, row, col)
  BY DEF Miss, game
<1>2. Held' = Held
  BY DEF Miss, game, Held
<1>3. Tried(Held, t, row, col) = Held
  BY <1>1 DEF Tried, Held
<1>4. IF fired' THEN Fires(Round[counter].candies) ELSE Held' = Round[counter]
  BY <1>1, <1>2 DEF CallInv, ScanInv
<1>5. ScanInv'
  BY <1>1, <1>2, <1>3, <1>4, TriedAdvances
<1>6. CallerInv'
  BY <1>1, CallerStays DEF CallInv
<1> QED
  BY <1>1, <1>5, <1>6 DEF CallInv, FallInv

(* A template has been tried everywhere, or does not fit on the board.     *)
LEMMA TemplateAdvancesCall ==
    ASSUME TypeOK, TypeOK', CallInv, NextTemplate
    PROVE  CallInv'
<1> DEFINE g == Round[counter]
<1>1. /\ pc = "scan" /\ pc' = "scan" /\ t \in Templates /\ ~InScan(t, row, col)
      /\ t' = t + 1 /\ row' = 0 /\ col' = 0
      /\ UNCHANGED <<counter, fired>>
      /\ UNCHANGED <<extBoard, pair, caller, entry, moves, played>>
  BY DEF NextTemplate, game
<1>2. Held' = Held
  BY DEF NextTemplate, game, Held
<1>3. /\ Round' = Round /\ g \in Position
  BY <1>1, CallStays, CallTypes DEF TypeOK
<1>4. /\ counter < MaxSettle /\ row <= Times(ScanRows(t)) /\ col = 0
      /\ (row > 0 => ScanCols(t) > 0) /\ Held = ScannedTo(g, t, row, 0)
      /\ IF fired THEN Fires(g.candies) ELSE Held = g
  BY <1>1 DEF CallInv, ScanInv, TypeOK
<1>5. /\ t \in Nat /\ row \in Nat /\ ScanRows(t) \in Int /\ ScanCols(t) \in Int
  BY ScanIsInt DEF TypeOK
<1> HIDE DEF g
<1>6. ScannedTo(g, t + 1, 0, 0) = Held
  <2>1. ScannedTo(g, t + 1, 0, 0) = ScannedTo(g, t, Times(ScanRows(t)), 0)
    BY <1>3, <1>5, ScanLoop
  <2>2. CASE row >= ScanRows(t)
    <3>1. row = Times(ScanRows(t))
      BY <1>4, <1>5, <2>2 DEF Times
    <3> QED
      BY <1>4, <2>1, <3>1
  <2>3. CASE ~(row >= ScanRows(t))
    <3>1. ScanCols(t) <= 0
      BY <1>1, <1>4, <1>5, <2>3 DEF InScan
    <3>2. Times(ScanCols(t)) = 0 /\ Times(ScanRows(t)) \in Nat
      BY <1>5, <3>1 DEF Times
    <3>3. ScannedTo(g, t, Times(ScanRows(t)), 0) = ScannedTo(g, t, row, 0)
      BY <1>3, <1>5, <3>2, ScanLoop
    <3> QED
      BY <1>4, <2>1, <3>3
  <2> QED
    BY <2>2, <2>3
<1>7. ScanInv'
  <2>1. 0 <= Times(ScanRows(t + 1))
    BY TimesType
  <2> QED
    BY <1>1, <1>2, <1>3, <1>4, <1>6, <2>1 DEF ScanInv, g
<1>8. CallerInv'
  BY <1>1, CallerStays DEF CallInv
<1> QED
  BY <1>1, <1>7, <1>8 DEF CallInv, FallInv

(* Gravity begins. *)
LEMMA FallBegins ==
    ASSUME TypeOK', pc' = "fall", row' = 0, col' = 0, cap' = Cols,
           Held' = Source', counter' <= MaxSettle,
           counter' = 0 => caller' = "Init" /\ ~Full(entry.candies)',
           counter' > 0 => Fires(Round'[counter' - 1].candies),
           Source' \in Position
    PROVE  FallInv'
<1>1. squares' = (Source').squares /\ score' = (Source').score
  BY DEF Held
<1>2. ASSUME NEW c \in ColIds
      PROVE  Untouched(Source', Held', c) /\ Under(extBoard', Source', Held', c, 0, 0)
  <2>1. Untouched(Source', Held', c)
    BY DEF Untouched
  <2> QED
    BY <2>1, FallStarts
<1>3. \A c \in ColIds : c \in Nat /\ ~(c < 0)
  BY BoardAssumption DEF ColIds
<1>4. Cols - cap' = 0 /\ 0 < Rows
  BY BoardAssumption
<1> QED
  BY <1>1, <1>2, <1>3, <1>4 DEF FallInv

(* A pass that fired ends with the whole of Pass done.                     *)
LEMMA PassFiredFalls ==
    ASSUME TypeOK, TypeOK', CallInv, PassFired
    PROVE  CallInv'
<1>1. /\ pc = "scan" /\ t \notin Templates /\ fired
      /\ counter' = counter + 1 /\ pc' = "fall" /\ row' = 0 /\ col' = 0 /\ cap' = Cols
      /\ UNCHANGED <<extBoard, pair, caller, entry, moves, played>>
  BY DEF PassFired, StartFall, game
<1>2. Held' = Held
  BY DEF PassFired, game, Held
<1>3. Round' = Round
  BY <1>1, CallStays
<1>4. /\ counter \in Nat /\ MaxSettle \in Nat /\ t = 4
  BY <1>1, EngineAssumption DEF TypeOK, Templates
<1>5. /\ counter < MaxSettle /\ Held = ScannedTo(Round[counter], 4, 0, 0)
      /\ Fires(Round[counter].candies)
  BY <1>1, <1>4 DEF CallInv, ScanInv
<1>6. Round[counter] \in Position
  BY <1>4, CallTypes
<1>7. Held = Pass(Round[counter])
  BY <1>5, <1>6, ScanLoop
<1>8. counter' # 0 /\ counter' - 1 = counter /\ counter' > 0 /\ counter' <= MaxSettle
  BY <1>1, <1>4, <1>5
<1>9. Source' = Pass(Round[counter])
  BY <1>3, <1>8 DEF Source
<1>10. Source' \in Position
  BY <1>6, <1>9, PositionKeeps, PassKeeps
<1>11. FallInv'
  BY <1>1, <1>2, <1>3, <1>5, <1>7, <1>8, <1>9, <1>10, FallBegins
<1>12. CallerInv'
  BY <1>1, CallerStays DEF CallInv
<1> QED
  BY <1>1, <1>11, <1>12 DEF CallInv, ScanInv

(* The loops of ApplyGravity: all but the column gravity is in stay.       *)
LEMMA ShiftDownFalls ==
    ASSUME TypeOK, TypeOK', FillInv, CallInv, ShiftDown
    PROVE  CallInv'
<1> DEFINE n == Cols - cap
<1>1. /\ pc = "fall" /\ pc' = "fall" /\ col < Cols
      /\ candies[<<row, col>>] = Hole
      /\ UNCHANGED <<extBoard, pair, caller, entry, moves, played, counter>>
      /\ UNCHANGED <<row, col, squares, score>>
  BY DEF ShiftDown
<1>2. /\ candies' = Dropped(candies, row, col,
                            ExtCandy(extBoard, extOffset[col], col))
      /\ extOffset' = [extOffset EXCEPT ![col] = @ + 1] /\ cap' = cap - 1
  BY DEF ShiftDown
<1>3. Source' = Source /\ Round' = Round
  BY <1>1, CallStays
<1>4. /\ Source \in Position /\ Held \in Position
      /\ extBoard \in [ExtCell -> Colors]
  BY <1>1, CallTypes DEF FillInv, ExtensionRead
<1>5. /\ row < Rows /\ row \in RowIds /\ col \in ColIds
      /\ n \in Nat /\ Cols - cap' = n + 1
  <2>1. cap <= Cols /\ row < Rows
    BY <1>1 DEF FillInv, GravityFills, CallInv, FallInv
  <2> QED
    BY <1>1, <1>2, <2>1, BoardAssumption DEF TypeOK, RowIds, ColIds
<1> HIDE DEF n
<1>6. Under(extBoard, Source, Held, col, row, n)
  BY <1>1, <1>5 DEF CallInv, FallInv, n
<1>7. /\ Under(extBoard, Source, Held', col, row, n + 1)
      /\ \A d \in ColIds : d # col =>
            /\ Done(extBoard, Source, Held, d) => Done(extBoard, Source, Held', d)
            /\ Untouched(Source, Held, d) => Untouched(Source, Held', d)
  <2> DEFINE h == Held
             k == Held'
  <2>1. /\ h.candies = candies /\ h.offset = extOffset
        /\ k.candies = candies' /\ k.offset = extOffset'
    BY DEF Held
  <2> HIDE DEF h, k
  <2>2. /\ h.candies[<<row, col>>] = Hole
        /\ k.candies = Dropped(h.candies, row, col,
                               ExtCandy(extBoard, h.offset[col], col))
        /\ k.offset = [h.offset EXCEPT ![col] = @ + 1]
    BY <1>1, <1>2, <2>1
  <2>3. h \in Position /\ Under(extBoard, Source, h, col, row, n)
    BY <1>4, <1>6 DEF h
  <2>4. /\ Under(extBoard, Source, k, col, row, n + 1)
        /\ \A d \in ColIds : d # col =>
              /\ Done(extBoard, Source, h, d) => Done(extBoard, Source, k, d)
              /\ Untouched(Source, h, d) => Untouched(Source, k, d)
    BY <1>4, <1>5, <2>2, <2>3, DroppedUnder
  <2> QED
    BY <2>4 DEF h, k
<1>8. \A c \in ColIds :
         /\ c < col => Done(extBoard, Source, Held', c)
         /\ c > col => Untouched(Source, Held', c)
         /\ c = col => Under(extBoard, Source, Held', c, row, n + 1)
  <2>1. \A c \in ColIds :
           /\ c < col => Done(extBoard, Source, Held, c) /\ c # col
           /\ c > col => Untouched(Source, Held, c) /\ c # col
    BY <1>1, <1>5, BoardAssumption DEF CallInv, FallInv, ColIds
  <2> QED
    BY <1>7, <2>1
<1>9. FallInv'
  BY <1>1, <1>3, <1>5, <1>8 DEF CallInv, FallInv
<1>10. CallerInv'
  BY <1>1, CallerStays DEF CallInv
<1> QED
  BY <1>1, <1>9, <1>10 DEF CallInv, ScanInv

(* A filled row: what gravity takes next is the next candy.                *)
LEMMA NextRowFalls ==
    ASSUME TypeOK, TypeOK', FillInv, CallInv, NextRow
    PROVE  CallInv'
<1> DEFINE n == Cols - cap
<1>1. /\ pc = "fall" /\ pc' = "fall" /\ col < Cols /\ row' = row + 1
      /\ candies[<<row, col>>] # Hole /\ row + 1 < Rows
      /\ UNCHANGED <<extBoard, pair, caller, entry, moves, played, counter>>
      /\ UNCHANGED <<col, squares, score, cap>>
  BY DEF NextRow, game, MoreRows
<1>2. Held' = Held
  BY DEF NextRow, game, Held
<1>3. Source' = Source /\ Round' = Round
  BY <1>1, CallStays
<1>4. /\ Source \in Position /\ Held \in Position
      /\ extBoard \in [ExtCell -> Colors]
  BY <1>1, CallTypes DEF FillInv, ExtensionRead
<1>5. row \in RowIds /\ col \in ColIds /\ n \in Nat
  <2>1. cap <= Cols /\ row < Rows
    BY <1>1 DEF FillInv, GravityFills, CallInv, FallInv
  <2> QED
    BY <1>1, <2>1, BoardAssumption DEF TypeOK, RowIds, ColIds
<1> HIDE DEF n
<1>6. Under(extBoard, Source, Held, col, row, n)
  BY <1>1, <1>5 DEF CallInv, FallInv, n
<1>7. Under(extBoard, Source, Held, col, row + 1, n)
  <2>1. Held.candies = candies
    BY DEF Held
  <2> QED
    BY <1>1, <1>4, <1>5, <1>6, <2>1, RowPacked
<1>8. \A c \in ColIds :
         /\ c < col => Done(extBoard, Source, Held, c)
         /\ c > col => Untouched(Source, Held, c)
         /\ c = col => Under(extBoard, Source, Held, c, row + 1, n)
  BY <1>1, <1>7 DEF CallInv, FallInv
<1>9. FallInv'
  BY <1>1, <1>2, <1>3, <1>8 DEF CallInv, FallInv, n
<1>10. CallerInv'
  BY <1>1, CallerStays DEF CallInv
<1> QED
  BY <1>1, <1>9, <1>10 DEF CallInv, ScanInv

(* The row loop ends or breaks off; on a board at least as wide as high no *)
(* row it leaves out holds anything but candies of the extension board.    *)
LEMMA NextColumnFalls ==
    ASSUME Rows <= Cols, TypeOK, TypeOK', FillInv, CallInv, NextColumn
    PROVE  CallInv'
<1> DEFINE n == Cols - cap
<1>1. /\ pc = "fall" /\ pc' = "fall" /\ col < Cols
      /\ row' = 0 /\ col' = col + 1 /\ cap' = Cols
      /\ candies[<<row, col>>] # Hole /\ ~(row + 1 < Rows /\ row + 1 < cap)
      /\ UNCHANGED <<extBoard, pair, caller, entry, moves, played, counter>>
      /\ UNCHANGED <<squares, score>>
  BY DEF NextColumn, game, MoreRows
<1>2. Held' = Held
  BY DEF NextColumn, game, Held
<1>3. Source' = Source /\ Round' = Round
  BY <1>1, CallStays
<1>4. /\ Source \in Position /\ Held \in Position
      /\ extBoard \in [ExtCell -> Colors]
  BY <1>1, CallTypes DEF FillInv, ExtensionRead
<1>5. row \in RowIds /\ col \in ColIds /\ n \in Nat /\ row + 1 + n >= Rows
  <2>1. cap <= Cols /\ row < Rows
    BY <1>1 DEF FillInv, GravityFills, CallInv, FallInv
  <2> QED
    BY <1>1, <2>1, BoardAssumption DEF TypeOK, RowIds, ColIds
<1> HIDE DEF n
<1>6. Under(extBoard, Source, Held, col, row, n)
  BY <1>1, <1>5 DEF CallInv, FallInv, n
<1>7. Done(extBoard, Source, Held, col)
  <2>1. Held.candies = candies
    BY DEF Held
  <2> QED
    BY <1>1, <1>4, <1>5, <1>6, <2>1, ColumnPacked
<1>8. \A c \in ColIds :
         /\ c < col + 1 => Done(extBoard, Source, Held, c)
         /\ c > col + 1 => Untouched(Source, Held, c)
         /\ c = col + 1 => Under(extBoard, Source, Held, c, 0, 0)
  <2>1. \A c \in ColIds :
           /\ c < col + 1 => c < col \/ c = col
           /\ c > col + 1 => c > col
           /\ c = col + 1 => c > col
    BY <1>5, BoardAssumption DEF ColIds
  <2>2. \A c \in ColIds :
           /\ c < col => Done(extBoard, Source, Held, c)
           /\ c > col => Untouched(Source, Held, c)
    BY <1>1 DEF CallInv, FallInv
  <2> QED
    BY <1>4, <1>7, <2>1, <2>2, FallStarts
<1>9. FallInv'
  <2>1. Cols - Cols = 0 /\ 0 < Rows
    BY BoardAssumption
  <2> QED
    BY <1>1, <1>2, <1>3, <1>8, <2>1 DEF CallInv, FallInv
<1>10. CallerInv'
  BY <1>1, CallerStays DEF CallInv
<1> QED
  BY <1>1, <1>9, <1>10 DEF CallInv, ScanInv

(* When gravity is done the game is where a pass of Settle leaves it. *)
LEMMA RoundDone ==
    ASSUME TypeOK, FillInv, CallInv, pc = "fall", col >= Cols
    PROVE  Held = Round[counter]
<1>1. /\ Source \in Position /\ Held \in Position /\ Found \in Position
      /\ extBoard \in [ExtCell -> Candy] /\ counter \in Nat
  BY CallTypes DEF TypeOK
<1>2. \A c \in ColIds : c < col
  BY BoardAssumption DEF ColIds, TypeOK
<1>3. /\ \A c \in ColIds : Done(extBoard, Source, Held, c)
      /\ Held.squares = Source.squares /\ Held.score = Source.score
  BY <1>2 DEF CallInv, FallInv, Held
<1>4. Held = GS!Packed(extBoard, Source)
  BY <1>1, <1>3, BoardPacked
<1>5. CASE counter = 0
  <2>1. Start = GS!Packed(extBoard, Found)
    BY <1>5 DEF CallInv, FallInv, Start
  <2> QED
    BY <1>4, <1>5, <2>1, CallTypes DEF Source
<1>6. CASE counter # 0
  <2>1. counter - 1 \in Nat /\ (counter - 1) + 1 = counter /\ counter > 0
    BY <1>1, <1>6
  <2>2. Fires(Round[counter - 1].candies)
    BY <2>1 DEF CallInv, FallInv
  <2>3. Round[counter] = GS!Packed(extBoard, Pass(Round[counter - 1]))
    BY <2>1, <2>2, CallTypes
  <2> QED
    BY <1>4, <1>6, <2>3 DEF Source
<1> QED
  BY <1>5, <1>6

(* A pass begins. *)
LEMMA ScanBegins ==
    ASSUME TypeOK', pc' = "scan", t' = 0, row' = 0, col' = 0, ~fired',
           counter' < MaxSettle, Held' = Round'[counter'],
           Round'[counter'] \in Position
    PROVE  ScanInv'
<1>1. ScannedTo(Round'[counter'], 0, 0, 0) = Held'
  BY ScanLoop
<1>2. 0 <= Times(ScanRows(0))
  BY TimesType
<1> QED
  BY <1>1, <1>2 DEF ScanInv

(* The next pass begins with the round gravity has finished.               *)
LEMMA ResettleScans ==
    ASSUME TypeOK, TypeOK', FillInv, CallInv, Resettle
    PROVE  CallInv'
<1>1. /\ pc = "fall" /\ pc' = "scan" /\ t' = 0 /\ row' = 0 /\ col' = 0 /\ ~fired'
      /\ col >= Cols /\ counter < MaxSettle
      /\ UNCHANGED <<extBoard, pair, caller, entry, moves, played, counter>>
  BY DEF Resettle, StartPass, game
<1>2. Held' = Held
  BY DEF Resettle, game, Held
<1>3. Round' = Round
  BY <1>1, CallStays
<1>4. Held = Round[counter] /\ Round[counter] \in Position
  BY <1>1, RoundDone, CallTypes DEF TypeOK
<1>5. ScanInv'
  BY <1>1, <1>2, <1>3, <1>4, ScanBegins
<1>6. CallerInv'
  BY <1>1, CallerStays DEF CallInv
<1> QED
  BY <1>1, <1>5, <1>6 DEF CallInv, FallInv

(* Init of a file with a gamestate settles the board it has read.          *)
LEMMA LoadGamestateScans ==
    ASSUME TypeOK, TypeOK', CallInv, NEW f \in Files, LoadGamestate(f)
    PROVE  CallInv'
<1>1. /\ pc = "new" /\ ~f.fresh /\ pc' = "scan" /\ t' = 0 /\ row' = 0 /\ col' = 0
      /\ ~fired' /\ counter' = 0 /\ caller' = "Init" /\ played' = played
      /\ moves' = 0 /\ extBoard' = f.ext
      /\ entry' = [candies |-> f.candies, squares |-> f.squares,
                   offset |-> f.offset, score |-> f.score, moves |-> 0]
  BY DEF LoadGamestate, StartPass, CallInv, CallerInv
<1>2. Held' = Found'
  BY DEF LoadGamestate, Held, Found
<1>3. Full(f.candies)
  <2>1. f.candies \in [Cell -> Colors]
    BY EngineAssumption DEF FileType
  <2> QED
    BY <2>1, BoardAssumption DEF Full, Hole
<1>4. Start' = Found'
  BY <1>1, <1>3 DEF Start
<1>5. /\ Found' \in Position /\ extBoard' \in [ExtCell -> Candy]
  BY DEF TypeOK, Found, Position
<1>6. Round'[counter'] = Found'
  <2>1. Round' = Rounds(extBoard', Found')
    BY <1>4 DEF Round
  <2> QED
    BY <1>1, <1>5, <2>1, RoundsLoop
<1>7. ScanInv'
  BY <1>1, <1>2, <1>5, <1>6, EngineAssumption, ScanBegins
<1>8. CallerInv'
  BY <1>1 DEF CallerInv, Read
<1> QED
  BY <1>1, <1>7, <1>8 DEF CallInv, FallInv

(* Init of a file without one fills an empty board first.                  *)
LEMMA LoadFreshFalls ==
    ASSUME TypeOK, TypeOK', CallInv, NEW f \in Files, LoadFresh(f)
    PROVE  CallInv'
<1>1. /\ pc = "new" /\ f.fresh /\ pc' = "fall" /\ row' = 0 /\ col' = 0 /\ cap' = Cols
      /\ counter' = 0 /\ caller' = "Init" /\ played' = played
      /\ extBoard' = f.ext /\ moves' = moves
      /\ score \in Garbage /\ moves \in Garbage
      /\ entry' = [candies |-> [x \in Cell |-> Hole], squares |-> f.squares,
                   offset |-> [c \in ColIds |-> 0], score |-> score,
                   moves |-> moves]
  BY DEF LoadFresh, StartFall, CallInv, CallerInv
<1>2. Held' = Found'
  BY DEF LoadFresh, Held, Found
<1>3. ~Full(entry.candies)'
  <2>1. <<0, 0>> \in Cell
    BY BoardAssumption DEF Cell, RowIds, ColIds
  <2> QED
    BY <1>1, <2>1 DEF Full
<1>4. Source' = Found' /\ Found' \in Position
  BY <1>1 DEF TypeOK, Found, Position, Source
<1>5. FallInv'
  BY <1>1, <1>2, <1>3, <1>4, EngineAssumption, FallBegins
<1>6. CallerInv'
  BY <1>1 DEF CallerInv, Read
<1> QED
  BY <1>1, <1>5, <1>6 DEF CallInv, ScanInv

(* Swap settles the board it has exchanged two candies on.                 *)
LEMMA ApplyMoveScans ==
    ASSUME TypeOK, TypeOK', CallInv, NEW a \in Cell, NEW d \in Directions,
           ApplyMove(a, d)
    PROVE  CallInv'
<1> DEFINE b == Neighbour(a, d)
<1>1. /\ pc = "idle" /\ pc' = "scan" /\ t' = 0 /\ row' = 0 /\ col' = 0
      /\ ~fired' /\ counter' = 0 /\ caller' = "Swap" /\ pair' = <<a, b>>
      /\ played < MaxMoves /\ played' = played /\ moves' = moves
      /\ entry' = Snapshot
  BY DEF ApplyMove, StartPass
<1>2. Held' = Start'
  <2>1. Found' = Held
    BY <1>1 DEF Found, Held, Snapshot
  <2>2. Start' = [Held EXCEPT !.candies = Exchange(@, a, b)]
    BY <1>1, <2>1 DEF Start
  <2> QED
    BY <2>2 DEF ApplyMove, Held
<1>3. /\ Start' \in Position /\ extBoard' \in [ExtCell -> Candy]
  <2>1. Held' \in Position
    BY DEF TypeOK, Held, Position
  <2> QED
    BY <1>2, <2>1 DEF TypeOK
<1>4. Round'[counter'] = Start'
  <2>1. Round' = Rounds(extBoard', Start')
    BY DEF Round
  <2> QED
    BY <1>1, <1>3, <2>1, RoundsLoop
<1>5. ScanInv'
  BY <1>1, <1>2, <1>3, <1>4, EngineAssumption, ScanBegins
<1>6. CallerInv'
  BY <1>1 DEF CallerInv, Snapshot
<1> QED
  BY <1>1, <1>5, <1>6 DEF CallInv, FallInv

(* CallInv says where in the whole effect of a call its loops are. *)
LEMMA CallInvariant ==
    ASSUME Rows <= Cols
    PROVE  Spec => []CallInv
<1>1. Init => CallInv
  BY DEF Init, CallInv, CallerInv, ScanInv, FallInv
<1>2. TypeOK /\ TypeOK' /\ FillInv /\ CallInv /\ [Next]_vars => CallInv'
  <2> SUFFICES ASSUME TypeOK, TypeOK', FillInv, CallInv, [Next]_vars
               PROVE  CallInv'
    OBVIOUS
  <2>1. ASSUME NEW f \in Files, LoadGamestate(f) PROVE CallInv'
    BY <2>1, LoadGamestateScans
  <2>2. ASSUME NEW f \in Files, LoadFresh(f) PROVE CallInv'
    BY <2>2, LoadFreshFalls
  <2>3. ASSUME NEW a \in Cell, NEW d \in Directions, ApplyMove(a, d)
        PROVE  CallInv'
    BY <2>3, ApplyMoveScans
  <2>4. ASSUME NEW a \in Cell, NEW d \in Directions, ApplyMoveOff(a, d)
        PROVE  CallInv'
    <3>1. pc' = "idle"
      BY <2>4 DEF ApplyMoveOff
    <3> QED
      BY <3>1 DEF CallInv, CallerInv, ScanInv, FallInv
  <2>5. CASE Fire
    BY <2>5, FireAdvances
  <2>6. CASE Miss
    BY <2>6, MissAdvancesCall
  <2>7. CASE NextTemplate
    BY <2>7, TemplateAdvancesCall
  <2>8. CASE PassFired
    BY <2>8, PassFiredFalls
  <2>9. CASE PassQuiet \/ GiveUp
    <3>1. pc' = "idle"
      BY <2>9 DEF PassQuiet, GiveUp, InitReturns, SwapAccepts, SwapRejects, Returns
    <3> QED
      BY <3>1 DEF CallInv, CallerInv, ScanInv, FallInv
  <2>10. CASE ShiftDown
    BY <2>10, ShiftDownFalls
  <2>11. CASE NextRow
    BY <2>11, NextRowFalls
  <2>12. CASE NextColumn
    BY <2>12, NextColumnFalls
  <2>13. CASE Resettle
    BY <2>13, ResettleScans
  <2>14. CASE UNCHANGED vars
    <3>1. /\ UNCHANGED <<extBoard, pair, caller, entry, moves, played, counter>>
          /\ UNCHANGED <<candies, squares, extOffset, score, pc, t, row, col, cap, fired>>
      BY <2>14 DEF vars, game, cursor
    <3>2. Round' = Round /\ Source' = Source /\ Held' = Held
      BY <3>1, CallStays DEF Held
    <3>3. CallerInv' /\ ScanInv'
      BY <3>1, <3>2 DEF CallInv, CallerInv, ScanInv, Read
    <3>4. FallInv'
      BY <3>1, <3>2 DEF CallInv, FallInv
    <3> QED
      BY <3>3, <3>4 DEF CallInv
  <2> QED
    BY <2>1, <2>2, <2>3, <2>4, <2>5, <2>6, <2>7, <2>8, <2>9, <2>10, <2>11,
       <2>12, <2>13, <2>14 DEF Next, Call, Scan, Gravity
<1> QED
  BY <1>1, <1>2, TypeCorrect, FillInvariant, PTL DEF Spec

-----------------------------------------------------------------------------
(* The steps of a call are stutters of GameSpec, and its return is a step. *)

(* No caller sees an iteration of a loop.                                  *)
LEMMA InnerStutters ==
    ASSUME pc \in {"scan", "fall"}, pc' \in {"scan", "fall"},
           UNCHANGED <<extBoard, caller, entry, played>>
    PROVE  UNCHANGED GS!vars
<1>1. Loaded' = Loaded
  BY DEF Loaded
<1> QED
  BY <1>1 DEF GS!vars, Seen

(* Nor the beginning of a call.                                            *)
LEMMA LoadStutters ==
    ASSUME CallInv, NEW f \in Files, LoadGamestate(f) \/ LoadFresh(f)
    PROVE  UNCHANGED GS!vars
<1>1. /\ ~Loaded /\ ~Loaded' /\ played' = played
  BY DEF LoadGamestate, LoadFresh, StartPass, StartFall, CallInv, CallerInv, Loaded
<1>2. Loaded' = Loaded
  BY <1>1 DEF Loaded
<1> QED
  BY <1>1, <1>2 DEF GS!vars, Seen

(* ApplyMove has no effect before Swap returns.                            *)
LEMMA ApplyMoveStutters ==
    ASSUME NEW a \in Cell, NEW d \in Directions, ApplyMove(a, d)
    PROVE  UNCHANGED GS!vars
<1>1. /\ Loaded /\ Loaded' /\ pc = "idle" /\ pc' # "idle" /\ entry' = Snapshot
      /\ UNCHANGED <<extBoard, played>>
  BY DEF ApplyMove, StartPass, Loaded
<1> QED
  BY <1>1 DEF GS!vars, Seen, Snapshot

(* A move off the board is refused in one step.                            *)
LEMMA OffIsRefused ==
    ASSUME NEW a \in Cell, NEW d \in Directions, ApplyMoveOff(a, d)
    PROVE  GS!ApplyMove
<1>1. /\ pc = "idle" /\ pc' = "idle" /\ Loaded /\ Loaded'
      /\ played < MaxMoves /\ played' = played + 1
      /\ Neighbour(a, d) \notin Cell
      /\ UNCHANGED <<candies, squares, extBoard, extOffset, score, moves>>
  BY DEF ApplyMoveOff, Loaded, game
<1>2. GS!Refused(a, Neighbour(a, d))
  BY <1>1, SameBoard DEF GS!Refused, Seen
<1>3. \E x \in GS!Cell, e \in GS!Directions :
          GS!Accepted(x, GS!Neighbour(x, e)) \/ GS!Refused(x, GS!Neighbour(x, e))
  <2>1. /\ a \in GS!Cell /\ d \in GS!Directions
        /\ GS!Refused(a, GS!Neighbour(a, d))
    BY <1>2, SameBoard
  <2> QED
    BY <2>1
<1> QED
  BY <1>1, <1>3 DEF GS!ApplyMove, Seen

(* When Settle returns, the game is where GameSpec says the passes end. *)
LEMMA SettleReturns ==
    ASSUME TypeOK, FillInv, SettleInv, CallInv,
           \/ pc = "scan" /\ t \notin Templates /\ ~fired
           \/ pc = "fall" /\ col >= Cols /\ counter >= MaxSettle
    PROVE  Held = GS!Settled(extBoard, Start)
<1>1. /\ Start \in Position /\ extBoard \in [ExtCell -> Candy]
      /\ counter \in Nat /\ MaxSettle \in Nat
  BY CallTypes, EngineAssumption DEF TypeOK
<1>2. CASE pc = "scan" /\ t \notin Templates /\ ~fired
  <2>1. Held = Round[counter] /\ counter <= MaxSettle
    BY <1>1, <1>2 DEF CallInv, ScanInv
  <2>2. ~Fires(Held.candies)
    <3>1. ~ThreeInLine(candies)
      BY <1>2, QuietPassHasNoLine DEF SettleInv
    <3> QED
      BY <3>1, FiresIsLine DEF Held
  <2>3. Rounds(extBoard, Start)[MaxSettle] = Rounds(extBoard, Start)[counter]
    BY <1>1, <2>1, <2>2, QuietForGood DEF Round
  <2> QED
    BY <2>1, <2>3, SettledIs DEF Round
<1>3. CASE pc = "fall" /\ col >= Cols /\ counter >= MaxSettle
  <2>1. Held = Round[counter]
    BY <1>3, RoundDone
  <2>2. counter = MaxSettle
    BY <1>1, <1>3 DEF CallInv, FallInv
  <2> QED
    BY <2>1, <2>2, SettledIs DEF Round
<1> QED
  BY <1>2, <1>3

(* The return of Init is the whole effect of Load.                         *)
LEMMA InitReturnsLoads ==
    ASSUME TypeOK, CallInv, pc \in {"scan", "fall"}, InitReturns,
           Held = GS!Settled(extBoard, Start)
    PROVE  GS!Load
<1>1. /\ ~Loaded /\ Loaded' /\ pc # "idle" /\ pc' = "idle"
      /\ UNCHANGED <<candies, squares, extBoard, extOffset, score, moves, played>>
      /\ caller = "Init" /\ moves = entry.moves
  BY DEF InitReturns, Returns, Loaded, CallInv, CallerInv
<1>2. PICK f \in Files : Read(f)
  BY <1>1 DEF CallInv, CallerInv
<1>3. PICK found \in [score: Garbage, moves: Garbage] :
         f.fresh => found = [score |-> entry.score, moves |-> entry.moves]
  <2>1. CASE f.fresh
    BY <1>2, <2>1 DEF Read
  <2>2. CASE ~f.fresh
    <3>1. PICK x \in Garbage : TRUE
      BY EngineAssumption
    <3>2. [score |-> x, moves |-> x] \in [score: Garbage, moves: Garbage]
      OBVIOUS
    <3> QED
      BY <2>2, <3>2
  <2> QED
    BY <2>1, <2>2
<1>4. GS!Described(f, found) = Start
  <2>1. CASE f.fresh
    <3>1. entry.candies = [x \in Cell |-> Hole] /\ entry.offset = [c \in ColIds |-> 0]
      BY <1>2, <2>1 DEF Read
    <3>2. ~Full(entry.candies)
      <4>1. <<0, 0>> \in Cell
        BY BoardAssumption DEF Cell, RowIds, ColIds
      <4> QED
        BY <3>1, <4>1 DEF Full
    <3>3. Start = GS!Packed(f.ext, Found)
      BY <1>1, <1>2, <3>2 DEF Start, Read
    <3>4. Found = [candies |-> GS!Blank.candies, squares |-> f.squares,
                   offset |-> GS!Blank.offset, score |-> found.score]
      BY <1>2, <1>3, <2>1, <3>1, SameBoard DEF Found, Read, GS!Blank, GS!Hole, Hole
    <3> QED
      BY <2>1, <3>3, <3>4 DEF GS!Described
  <2>2. CASE ~f.fresh
    <3>1. Found = [candies |-> f.candies, squares |-> f.squares,
                   offset |-> f.offset, score |-> f.score]
      BY <1>2, <2>2 DEF Found, Read
    <3>2. Full(entry.candies)
      <4>1. f.candies \in [Cell -> Colors]
        BY EngineAssumption DEF FileType
      <4> QED
        BY <1>2, <2>2, <4>1, BoardAssumption DEF Read, Full, Hole
    <3> QED
      BY <1>1, <2>2, <3>1, <3>2 DEF Start, GS!Described
  <2> QED
    BY <2>1, <2>2
<1>5. Held = GS!Settled(f.ext, GS!Described(f, found))
  BY <1>2, <1>4 DEF Read
<1>6. GS!Becomes(Held)
  BY <1>1 DEF GS!Becomes, Seen, Held
<1>7. moves = IF f.fresh THEN found.moves ELSE 0
  BY <1>1, <1>2, <1>3 DEF Read
<1>8. extBoard = f.ext
  BY <1>2 DEF Read
<1>9. /\ Seen(extBoard, extBoard, [x \in ExtCell |-> Hole])' = f.ext
      /\ Seen(moves, entry.moves, 0)' = IF f.fresh THEN found.moves ELSE 0
      /\ GS!Becomes(GS!Settled(f.ext, GS!Described(f, found)))
  BY <1>1, <1>5, <1>6, <1>7, <1>8 DEF Seen
<1> QED
  BY <1>1, <1>9 DEF GS!Load

(* Cells side by side are neighbours in one of the directions. *)
LEMMA AdjacentNeighbour ==
    ASSUME NEW a \in Cell, NEW b \in Cell, Adjacent(a, b)
    PROVE  \E d \in Directions : b = Neighbour(a, d)
<1>1. /\ a[1] \in Nat /\ a[2] \in Nat /\ b[1] \in Nat /\ b[2] \in Nat
      /\ b = <<b[1], b[2]>>
  BY CellPair
<1>2. /\ Neighbour(a, 0) = <<a[1], a[2] - 1>> /\ Neighbour(a, 1) = <<a[1], a[2] + 1>>
      /\ Neighbour(a, 2) = <<a[1] + 1, a[2]>> /\ Neighbour(a, 3) = <<a[1] - 1, a[2]>>
  BY DEF Neighbour
<1>3. \/ b = <<a[1], a[2] - 1>> \/ b = <<a[1], a[2] + 1>>
      \/ b = <<a[1] + 1, a[2]>> \/ b = <<a[1] - 1, a[2]>>
  <2>1. \/ a[1] = b[1] /\ (b[2] = a[2] + 1 \/ b[2] = a[2] - 1)
        \/ a[2] = b[2] /\ (b[1] = a[1] + 1 \/ b[1] = a[1] - 1)
    BY <1>1 DEF Adjacent
  <2> QED
    BY <1>1, <2>1
<1> QED
  BY <1>2, <1>3 DEF Directions

(* A swap in progress, as GameSpec sees it. *)
LEMMA SwapReturns ==
    ASSUME TypeOK, CallInv, SettleInv, PairAdjacent, pc \in {"scan", "fall"},
           caller = "Swap", Returns, played' = played + 1,
           GS!Accepted(pair[1], pair[2]) \/ GS!Refused(pair[1], pair[2])
    PROVE  GS!ApplyMove
<1>1. /\ Loaded /\ Loaded' /\ UNCHANGED extBoard /\ played < MaxMoves
  BY DEF Returns, Loaded, CallInv, CallerInv
<1>2. pair[1] \in Cell /\ pair[2] \in Cell /\ Adjacent(pair[1], pair[2])
  BY DEF TypeOK, PairAdjacent
<1>3. PICK d \in Directions : pair[2] = Neighbour(pair[1], d)
  BY <1>2, AdjacentNeighbour
<1>4. \E x \in GS!Cell, e \in GS!Directions :
          GS!Accepted(x, GS!Neighbour(x, e)) \/ GS!Refused(x, GS!Neighbour(x, e))
  <2>1. /\ pair[1] \in GS!Cell /\ d \in GS!Directions
        /\ pair[2] = GS!Neighbour(pair[1], d)
    BY <1>2, <1>3, SameBoard
  <2> QED
    BY <2>1
<1> QED
  BY <1>1, <1>4 DEF GS!ApplyMove, Seen

(* Swap returns 1: the move fires and its cascade is played out.           *)
LEMMA SwapAcceptsIsAccepted ==
    ASSUME TypeOK, CallInv, SettleInv, PairAdjacent, pc \in {"scan", "fall"},
           SwapAccepts, counter > 0, Held = GS!Settled(extBoard, Start)
    PROVE  GS!ApplyMove
<1> DEFINE exchanged == Exchange(entry.candies, pair[1], pair[2])
<1>1. /\ caller = "Swap" /\ Returns /\ pc' = "idle" /\ Loaded /\ Loaded'
      /\ UNCHANGED <<candies, squares, extBoard, extOffset, score>>
      /\ moves' = entry.moves + 1 /\ played' = played + 1
  BY DEF SwapAccepts, Returns, Loaded, CallInv, CallerInv
<1>2. Fires(exchanged) /\ pair[2] \in Cell
  BY <1>1, FiresIsLine DEF SettleInv, SwapSoFar, TypeOK
<1>3. Start = [Found EXCEPT !.candies = exchanged]
  BY <1>1 DEF Start, Found
<1>4. GS!Now = Found
  BY <1>1 DEF GS!Now, Found, Seen
<1>5. GS!Becomes(Held)
  BY <1>1 DEF GS!Becomes, Seen, Held
<1> HIDE DEF exchanged
<1>6. GS!Exchange(entry.candies, pair[1], pair[2]) = exchanged
  BY SameBoard DEF exchanged
<1>7. /\ Seen(candies, entry.candies, [x \in Cell |-> Hole]) = entry.candies
      /\ Seen(extBoard, extBoard, [x \in ExtCell |-> Hole]) = extBoard
      /\ Seen(moves, entry.moves, 0)' = Seen(moves, entry.moves, 0) + 1
  BY <1>1 DEF Seen
<1>8. GS!Becomes(GS!Settled(extBoard, [GS!Now EXCEPT !.candies = exchanged]))
  BY <1>3, <1>4, <1>5
<1>9. GS!Accepted(pair[1], pair[2])
  BY <1>2, <1>6, <1>7, <1>8, SameBoard DEF GS!Accepted
<1> QED
  BY <1>1, <1>9, SwapReturns

(* Swap returns 0: nothing fires and the exchange is undone.               *)
LEMMA SwapRejectsIsRefused ==
    ASSUME TypeOK, CallInv, SettleInv, PairAdjacent, pc = "scan",
           t \notin Templates, ~fired, counter = 0, SwapRejects
    PROVE  GS!ApplyMove
<1> DEFINE exchanged == Exchange(entry.candies, pair[1], pair[2])
<1>1. /\ caller = "Swap" /\ Returns /\ pc' = "idle" /\ Loaded /\ Loaded'
      /\ UNCHANGED <<squares, extBoard, extOffset, score, moves>>
      /\ candies' = Exchange(candies, pair[1], pair[2]) /\ played' = played + 1
  BY DEF SwapRejects, Returns, Loaded
<1>2. Snapshot = [entry EXCEPT !.candies = exchanged]
  BY <1>1 DEF SettleInv, SwapSoFar
<1>3. /\ candies = exchanged /\ squares = entry.squares /\ extOffset = entry.offset
      /\ score = entry.score /\ moves = entry.moves
  BY <1>2 DEF Snapshot, TypeOK
<1>4. candies' = entry.candies
  BY <1>1, <1>3, ExchangeType DEF TypeOK
<1>5. ~Fires(exchanged)
  BY <1>3, QuietPassHasNoLine, FiresIsLine DEF SettleInv
<1> HIDE DEF exchanged
<1>6. GS!Exchange(entry.candies, pair[1], pair[2]) = exchanged
  BY SameBoard DEF exchanged
<1>7. GS!Refused(pair[1], pair[2])
  BY <1>1, <1>3, <1>4, <1>5, <1>6, SameBoard DEF GS!Refused, Seen
<1> QED
  BY <1>1, <1>7, SwapReturns

-----------------------------------------------------------------------------
(* On boards at least as wide as high, each public call of the Game object *)
(* has as a whole the effect GameSpec states: its passes in scan order,    *)
(* its columns packed, and no effect at all when the move is refused.      *)
THEOREM GameImplementsSpec ==
    ASSUME Rows <= Cols
    PROVE  Spec => ImplementsGameSpec
<1>1. Init => GS!Init
  BY SameBoard DEF Init, GS!Init, GS!Blank, Seen, Loaded, GS!Hole, Hole,
                   GS!ExtCell, ExtCell, GS!ColIds, ColIds
<1>2. /\ TypeOK /\ FillInv /\ SettleInv /\ PairAdjacent /\ CallInv
      /\ [Next]_vars
      => [GS!Next]_GS!vars
  <2> SUFFICES ASSUME TypeOK, FillInv, SettleInv, PairAdjacent, CallInv,
                      [Next]_vars
               PROVE  GS!Next \/ UNCHANGED GS!vars
    OBVIOUS
  <2>1. ASSUME NEW f \in Files, LoadGamestate(f) \/ LoadFresh(f)
        PROVE  UNCHANGED GS!vars
    BY <2>1, LoadStutters
  <2>2. ASSUME NEW a \in Cell, NEW d \in Directions, ApplyMove(a, d)
        PROVE  UNCHANGED GS!vars
    BY <2>2, ApplyMoveStutters
  <2>3. ASSUME NEW a \in Cell, NEW d \in Directions, ApplyMoveOff(a, d)
        PROVE  GS!Next
    BY <2>3, OffIsRefused DEF GS!Next
  <2>4. CASE Fire \/ Miss \/ NextTemplate \/ PassFired \/ ShiftDown
                 \/ NextRow \/ NextColumn \/ Resettle
    <3>1. /\ pc \in {"scan", "fall"} /\ pc' \in {"scan", "fall"}
          /\ UNCHANGED <<extBoard, caller, entry, played>>
      BY <2>4 DEF Fire, Miss, NextTemplate, PassFired, ShiftDown, NextRow,
                  NextColumn, Resettle, StartPass, StartFall, game
    <3> QED
      BY <3>1, InnerStutters
  <2>5. CASE PassQuiet
    <3>1. /\ pc = "scan" /\ t \notin Templates /\ ~fired
          /\ Held = GS!Settled(extBoard, Start)
      BY <2>5, SettleReturns DEF PassQuiet
    <3>2. CASE InitReturns
      BY <3>1, <3>2, InitReturnsLoads DEF GS!Next
    <3>3. CASE counter > 0 /\ SwapAccepts
      BY <3>1, <3>3, SwapAcceptsIsAccepted DEF GS!Next
    <3>4. CASE counter = 0 /\ SwapRejects
      BY <3>1, <3>4, SwapRejectsIsRefused DEF GS!Next
    <3> QED
      BY <2>5, <3>2, <3>3, <3>4 DEF PassQuiet
  <2>6. CASE GiveUp
    <3>1. /\ pc = "fall" /\ Held = GS!Settled(extBoard, Start)
      BY <2>6, SettleReturns DEF GiveUp
    <3>2. counter > 0
      BY <2>6, EngineAssumption DEF GiveUp, TypeOK
    <3>3. CASE InitReturns
      BY <3>1, <3>3, InitReturnsLoads DEF GS!Next
    <3>4. CASE SwapAccepts
      BY <3>1, <3>2, <3>4, SwapAcceptsIsAccepted DEF GS!Next
    <3> QED
      BY <2>6, <3>3, <3>4 DEF GiveUp
  <2>7. CASE UNCHANGED vars
    <3>1. /\ UNCHANGED <<candies, squares, extBoard, extOffset, score, moves>>
          /\ UNCHANGED <<played, pc, caller, entry>>
      BY <2>7 DEF vars, game
    <3>2. Loaded' = Loaded
      BY <3>1 DEF Loaded
    <3> QED
      BY <3>1, <3>2 DEF GS!vars, Seen
  <2> QED
    BY <2>1, <2>2, <2>3, <2>4, <2>5, <2>6, <2>7 DEF Next, Call, Scan, Gravity
<1> QED
  BY <1>1, <1>2, TypeCorrect, FillInvariant, SettleInvariant, PairInvariant,
     CallInvariant, PTL DEF Spec, ImplementsGameSpec, GS!Spec

==============================================================================
