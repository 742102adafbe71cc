--------------------------- MODULE GameEngineProofs ---------------------------
(***************************************************************************)
(* Proofs about GameEngine for boards, files and bounds of every size.     *)
(* TypeCorrect comes first; FillInvariant and SettleInvariant are the two  *)
(* invariants of the loops, each a conjunction of GameEngineProps, and the *)
(* theorems after them are their consequences.                             *)
(***************************************************************************)
EXTENDS GameEngineProps, FiniteSetTheorems, TLAPS

(* Exchanging two cells twice restores the board. *)
LEMMA ExchangeType ==
    ASSUME NEW f \in [Cell -> Candy], NEW a \in Cell, NEW b \in Cell
    PROVE  /\ Exchange(f, a, b) \in [Cell -> Candy]
           /\ Exchange(Exchange(f, a, b), a, b) = f
  BY DEF Exchange, Cell

(* ShiftDown leaves a board of candies.                                    *)
LEMMA DroppedType ==
    ASSUME NEW f \in [Cell -> Candy], NEW r \in Nat, NEW c \in ColIds,
           NEW v \in Candy
    PROVE  Dropped(f, r, c, v) \in [Cell -> Candy]
  <1>1. ASSUME NEW x \in Cell, x[2] = c, x[1] # Rows - 1
        PROVE  <<x[1] + 1, c>> \in Cell
    BY <1>1, BoardAssumption DEF Cell, RowIds, ColIds
  <1> QED
    BY <1>1 DEF Dropped, Cell

(* The row ShiftDown reads exists: the offset is taken modulo ExtRows.     *)
LEMMA ExtCandyType ==
    ASSUME NEW ext \in [ExtCell -> Candy], NEW n \in Nat, NEW c \in ColIds
    PROVE  /\ ExtCandy(ext, n, c) \in Candy
           /\ ext \in [ExtCell -> Colors] => ExtCandy(ext, n, c) \in Colors
  BY BoardAssumption DEF ExtCandy, ExtCell

(* Firing leaves candies and holes.                                        *)
LEMMA ErasedType ==
    ASSUME NEW f \in [Cell -> Candy], NEW S
    PROVE  Erased(f, S) \in [Cell -> Candy]
  BY DEF Erased, Candy

(* Firing never takes a square below zero.                                 *)
LEMMA WornType ==
    ASSUME NEW s \in [Cell -> Nat], NEW S
    PROVE  Worn(s, S) \in [Cell -> Nat]
  BY DEF Worn

(* A board is finite, so that its squares can be counted.                  *)
LEMMA CellFinite == IsFiniteSet(Cell)
  <1>1. IsFiniteSet(RowIds) /\ IsFiniteSet(ColIds)
    BY BoardAssumption, FS_Interval DEF RowIds, ColIds
  <1> QED
    BY <1>1, FS_Product DEF Cell

(* A firing scores a number of points.                                     *)
LEMMA PointsType ==
    ASSUME NEW s \in [Cell -> Nat], NEW S \in SUBSET Cell
    PROVE  Points(s, S) \in Nat
  <1> DEFINE P == {x \in S : s[x] > 0}
  <1>1. IsFiniteSet(P)
    BY CellFinite, FS_Subset
  <1>2. Cardinality(P) \in Nat
    BY <1>1, FS_CardinalityType
  <1> QED
    BY <1>2 DEF Points

(* In the scan ranges a template never reaches off the board.              *)
LEMMA SpanOnBoard ==
    ASSUME NEW u \in Templates, NEW r \in Nat, NEW c \in Nat, InScan(u, r, c)
    PROVE  Span(u, r, c) \subseteq Cell
  <1>1. ASSUME NEW k \in 0..Extent(u) PROVE Along(u, r, c, k) \in Cell
    BY BoardAssumption
    DEF Along, InScan, ScanRows, ScanCols, Vertical, Extent, Templates, Cell,
        RowIds, ColIds
  <1> QED
    BY <1>1 DEF Span

(* Every variable of the object keeps its range in every call. *)
THEOREM TypeCorrect == Spec => []TypeOK
  <1> USE BoardAssumption, EngineAssumption
  <1>0. <<0, 0>> \in Cell /\ Hole \in Candy
    BY DEF Cell, RowIds, ColIds, Candy
  <1>1. Init => TypeOK
    <2>1. Init => fired \in BOOLEAN
      BY Zenon DEF Init
    <2> QED
      BY <1>0, <2>1 DEF Init, TypeOK, Snapshot
  <1>2. TypeOK /\ [Next]_vars => TypeOK'
    <2> SUFFICES ASSUME TypeOK, [Next]_vars PROVE TypeOK'
      OBVIOUS
    <2> USE DEF TypeOK
    <2>1. ASSUME NEW f \in Files, LoadGamestate(f) PROVE TypeOK'
      <3>1. /\ f.ext \in [ExtCell -> Candy] /\ f.candies \in [Cell -> Candy]
            /\ f.squares \in [Cell -> Nat] /\ f.offset \in [ColIds -> Nat]
            /\ f.score \in Int
        BY DEF FileType, Candy
      <3>2. fired' \in BOOLEAN
        BY <2>1, Zenon DEF LoadGamestate, StartPass
      <3> QED
        BY <2>1, <3>1, <3>2 DEF LoadGamestate, StartPass
    <2>2. ASSUME NEW f \in Files, LoadFresh(f) PROVE TypeOK'
      <3>1. f.ext \in [ExtCell -> Candy] /\ f.squares \in [Cell -> Nat]
        BY DEF FileType, Candy
      <3>2. fired' \in BOOLEAN
        BY <2>2, Zenon DEF LoadFresh
      <3> QED
        BY <1>0, <2>2, <3>1, <3>2 DEF LoadFresh, StartFall
    <2>3. ASSUME NEW a \in Cell, NEW d \in Directions, ApplyMove(a, d)
          PROVE  TypeOK'
      <3>1. fired' \in BOOLEAN
        BY <2>3, Zenon DEF ApplyMove, StartPass
      <3>2. Neighbour(a, d) \in Cell
        BY <2>3 DEF ApplyMove
      <3>3. /\ candies' \in [Cell -> Candy] /\ pair' \in Cell \X Cell
            /\ entry' = Snapshot
        BY <2>3, <3>2, ExchangeType DEF ApplyMove
      <3> QED
        BY <2>3, <3>1, <3>3 DEF ApplyMove, StartPass, Snapshot
    <2>4. ASSUME NEW a \in Cell, NEW d \in Directions, ApplyMoveOff(a, d)
          PROVE  TypeOK'
      BY <2>4 DEF ApplyMoveOff, Snapshot, game, cursor
    <2>5. CASE Fire
      <3>1. Points(squares, Span(t, row, col)) \in Nat
        BY <2>5, SpanOnBoard, PointsType DEF Fire
      <3> QED
        BY <2>5, <3>1, ErasedType, WornType DEF Fire, NextPosition
    <2>6. CASE Miss
      BY <2>6 DEF Miss, NextPosition, game
    <2>7. CASE NextTemplate
      BY <2>7 DEF NextTemplate, Templates, game
    <2>8. CASE PassFired
      BY <2>8 DEF PassFired, StartFall, game
    <2>9. CASE PassQuiet
      BY <2>9, ExchangeType
        DEF PassQuiet, Returns, InitReturns, SwapAccepts, SwapRejects, cursor
    <2>10. CASE ShiftDown
      <3>1. col \in ColIds
        BY <2>10 DEF ShiftDown, ColIds
      <3>2. ExtCandy(extBoard, extOffset[col], col) \in Candy
        BY <3>1, ExtCandyType
      <3>3. candies' \in [Cell -> Candy]
        BY <2>10, <3>1, <3>2, DroppedType DEF ShiftDown
      <3> QED
        BY <2>10, <3>1, <3>3 DEF ShiftDown
    <2>11. CASE NextRow
      BY <2>11 DEF NextRow, game
    <2>12. CASE NextColumn
      BY <2>12 DEF NextColumn, game
    <2>13. CASE Resettle
      <3>1. fired' \in BOOLEAN
        BY <2>13, Zenon DEF Resettle, StartPass
      <3> QED
        BY <2>13, <3>1 DEF Resettle, StartPass, game
    <2>14. CASE GiveUp
      BY <2>14 DEF GiveUp, Returns, InitReturns, SwapAccepts, cursor
    <2>15. CASE UNCHANGED vars
      BY <2>15 DEF vars, game, cursor
    <2> QED
      BY <2>1, <2>2, <2>3, <2>4, <2>5, <2>6, <2>7, <2>8, <2>9, <2>10, <2>11,
         <2>12, <2>13, <2>14, <2>15 DEF Next, Call, Scan, Gravity
  <1> QED
    BY <1>1, <1>2, PTL DEF Spec

-----------------------------------------------------------------------------

(* A cell is a pair of a row and a column of the board.                    *)
LEMMA CellPair ==
    ASSUME NEW x \in Cell
    PROVE  /\ x = <<x[1], x[2]>>
           /\ x[1] \in Nat /\ x[1] < Rows /\ x[2] \in Nat /\ x[2] < Cols
  BY BoardAssumption DEF Cell, RowIds, ColIds

(* A swap makes no hole.                                                   *)
LEMMA ExchangeFull ==
    ASSUME NEW f \in [Cell -> Candy], NEW a \in Cell, NEW b \in Cell, Full(f)
    PROVE  Full(Exchange(f, a, b))
  BY DEF Exchange, Full

(* A ShiftDown keeps what gravity has filled and adds a row at the top. *)
LEMMA DroppedFills ==
    ASSUME NEW f \in [Cell -> Candy], NEW r \in Nat, NEW c \in ColIds,
           NEW v, v # Hole, NEW h \in Int,
           \A x \in Cell : x[2] < c \/ (x[2] = c /\ (x[1] < r \/ x[1] >= h))
                          => f[x] # Hole
    PROVE  \A x \in Cell : x[2] < c \/ (x[2] = c /\ (x[1] < r \/ x[1] >= h - 1))
                          => Dropped(f, r, c, v)[x] # Hole
  <1> SUFFICES ASSUME NEW x \in Cell,
                      x[2] < c \/ (x[2] = c /\ (x[1] < r \/ x[1] >= h - 1))
               PROVE  Dropped(f, r, c, v)[x] # Hole
    OBVIOUS
  <1>1. CASE x[2] # c \/ x[1] < r
    BY <1>1 DEF Dropped, Cell, RowIds, ColIds
  <1>2. CASE x[2] = c /\ x[1] >= r /\ x[1] = Rows - 1
    BY <1>2 DEF Dropped, Cell, RowIds, ColIds
  <1>3. CASE x[2] = c /\ x[1] >= r /\ x[1] # Rows - 1
    <2>1. <<x[1] + 1, c>> \in Cell
      BY <1>3, BoardAssumption DEF Cell, RowIds, ColIds
    <2>2. f[<<x[1] + 1, c>>] # Hole
      BY <1>3, <2>1 DEF Cell, RowIds, ColIds
    <2> QED
      BY <1>3, <2>2 DEF Dropped, Cell, RowIds, ColIds
  <1> QED
    BY <1>1, <1>2, <1>3 DEF Cell, RowIds, ColIds

(* The loops keep FillInv on boards at least as wide as they are high.     *)
LEMMA FillInvariant ==
    ASSUME Rows <= Cols
    PROVE  Spec => []FillInv
  <1> USE BoardAssumption, EngineAssumption
  <1>1. Init => FillInv
    BY DEF Init, FillInv, ExtensionRead, GravityFills, FullTillFired, FullAtRest
  <1>2. TypeOK /\ TypeOK' /\ FillInv /\ [Next]_vars => FillInv'
    <2> SUFFICES ASSUME TypeOK, TypeOK', FillInv, [Next]_vars PROVE FillInv'
      OBVIOUS
    <2> USE DEF FillInv, ExtensionRead, FullTillFired, FullAtRest
    <2>1. ASSUME NEW f \in Files, LoadGamestate(f) PROVE FillInv'
      BY <2>1 DEF LoadGamestate, StartPass, FileType, GravityFills, Full, Hole
    <2>2. ASSUME NEW f \in Files, LoadFresh(f) PROVE FillInv'
      BY <2>2 DEF LoadFresh, StartFall, FileType, GravityFills, Full, Cell,
                  RowIds, ColIds
    <2>3. ASSUME NEW a \in Cell, NEW d \in Directions, ApplyMove(a, d)
          PROVE  FillInv'
      BY <2>3, ExchangeFull DEF ApplyMove, StartPass, GravityFills, TypeOK
    <2>4. ASSUME NEW a \in Cell, NEW d \in Directions, ApplyMoveOff(a, d)
          PROVE  FillInv'
      BY <2>4 DEF ApplyMoveOff, game, cursor, GravityFills
    <2>5. CASE Fire
      BY <2>5 DEF Fire, GravityFills
    <2>6. CASE Miss
      BY <2>6 DEF Miss, game, GravityFills
    <2>7. CASE NextTemplate
      BY <2>7 DEF NextTemplate, game, GravityFills
    <2>8. CASE PassFired
      BY <2>8 DEF PassFired, StartFall, game, GravityFills, Cell, RowIds, ColIds
    <2>9. CASE PassQuiet
      BY <2>9, ExchangeFull
      DEF PassQuiet, Returns, InitReturns, SwapAccepts, SwapRejects,
          GravityFills, TypeOK
    <2>10. CASE ShiftDown
      <3> DEFINE new == ExtCandy(extBoard, extOffset[col], col)
      <3>1. col \in ColIds /\ row \in Nat /\ cap \in Int /\ row < Rows
        BY <2>10 DEF ShiftDown, GravityFills, TypeOK, ColIds
      <3>2. new \in Colors
        BY <2>10, <3>1, ExtCandyType DEF ShiftDown, TypeOK
      <3>3. new # Hole
        BY <3>2 DEF Hole
      <3> DEFINE h == Rows - (Cols - cap)
      <3>4. \A x \in Cell : x[2] < col \/ (x[2] = col /\ (x[1] < row \/ x[1] >= h))
                             => candies[x] # Hole
        BY <2>10 DEF ShiftDown, GravityFills
      <3>5. \A x \in Cell :
              x[2] < col \/ (x[2] = col /\ (x[1] < row \/ x[1] >= h - 1))
              => Dropped(candies, row, col, new)[x] # Hole
        <4>1. candies \in [Cell -> Candy] /\ h \in Int
          BY <3>1 DEF TypeOK
        <4> HIDE DEF new, h
        <4> QED
          BY <3>1, <3>3, <3>4, <4>1, DroppedFills
      <3>6. GravityFills'
        BY <2>10, <3>1, <3>5 DEF ShiftDown, GravityFills
      <3> QED
        BY <2>10, <3>6 DEF ShiftDown
    <2>11. CASE NextRow
      <3>1. GravityFills'
        <4>1. candies[<<row, col>>] # Hole /\ row + 1 < Rows /\ row \in Nat
          BY <2>11 DEF NextRow, MoreRows, TypeOK
        <4>2. ASSUME NEW x \in Cell, x[2] = col, x[1] < row + 1, ~(x[1] < row)
              PROVE  candies[x] # Hole
          <5>1. x = <<row, col>>
            BY <4>1, <4>2, CellPair
          <5> QED
            BY <4>1, <5>1
        <4> QED
          BY <2>11, <4>1, <4>2 DEF NextRow, game, GravityFills
      <3> QED
        BY <2>11, <3>1 DEF NextRow, game
    <2>12. CASE NextColumn
      <3>1. ASSUME NEW x \in Cell, x[2] = col
            PROVE  candies[x] # Hole
        <4>1. CASE x[1] = row
          BY <2>12, <3>1, <4>1, CellPair DEF NextColumn
        <4>2. CASE x[1] < row
          BY <2>12, <3>1, <4>2 DEF NextColumn, GravityFills
        <4>3. CASE x[1] > row
          BY <2>12, <3>1, <4>3, CellPair
          DEF NextColumn, MoreRows, GravityFills, TypeOK
        <4>4. x[1] \in Nat /\ row \in Nat
          BY <3>1, CellPair DEF TypeOK
        <4> QED
          BY <4>1, <4>2, <4>3, <4>4
      <3>2. ASSUME NEW x \in Cell, x[2] < col + 1
            PROVE  candies[x] # Hole
        <4>1. x[2] \in Nat /\ col \in Nat
          BY <3>2, CellPair DEF TypeOK
        <4>2. x[2] = col \/ x[2] < col
          BY <3>2, <4>1
        <4> QED
          BY <2>12, <3>1, <4>2 DEF NextColumn, GravityFills
      <3>3. ASSUME NEW x \in Cell
            PROVE  ~(x[1] < 0) /\ ~(x[1] >= Rows - (Cols - Cols))
        BY <3>3, CellPair
      <3>4. col + 1 <= Cols /\ Cols <= Cols /\ 0 < Rows
        BY <2>12 DEF NextColumn, TypeOK
      <3>5. GravityFills'
        BY <2>12, <3>2, <3>3, <3>4 DEF NextColumn, game, GravityFills
      <3> QED
        BY <2>12, <3>5 DEF NextColumn, game
    <2>13. CASE Resettle
      <3>1. Full(candies)
        BY <2>13, CellPair DEF Resettle, GravityFills, Full, TypeOK
      <3> QED
        BY <2>13, <3>1 DEF Resettle, StartPass, game, GravityFills
    <2>14. CASE GiveUp
      <3>1. Full(candies)
        BY <2>14, CellPair DEF GiveUp, GravityFills, Full, TypeOK
      <3> QED
        BY <2>14, <3>1
        DEF GiveUp, Returns, InitReturns, SwapAccepts, GravityFills, Full
    <2>15. CASE UNCHANGED vars
      BY <2>15 DEF vars, game, cursor, GravityFills
    <2> QED
      BY <2>1, <2>2, <2>3, <2>4, <2>5, <2>6, <2>7, <2>8, <2>9, <2>10, <2>11,
         <2>12, <2>13, <2>14, <2>15 DEF Next, Call, Scan, Gravity
  <1> QED
    BY <1>1, <1>2, TypeCorrect, PTL DEF Spec

(* On boards at least as wide as they are high, no hole is left when a     *)
(* public call of Game returns.                                            *)
THEOREM NoHolesAtRest ==
    ASSUME Rows <= Cols
    PROVE  Spec => []FullAtRest
  <1>1. FillInv => FullAtRest
    BY DEF FillInv
  <1> QED
    BY <1>1, FillInvariant, PTL

(* On those boards the comment in ApplyGravity is right: the rows its      *)
(* break leaves out hold no hole.                                          *)
THEOREM BreakIsSound ==
    ASSUME Rows <= Cols
    PROVE  Spec => []BreakSkipsNoHole
  <1>1. TypeOK /\ FillInv => BreakSkipsNoHole
    <2> SUFFICES ASSUME TypeOK, FillInv, pc = "fall", col < Cols,
                        row + 1 >= cap, NEW r \in RowIds, r > row
                 PROVE  candies[<<r, col>>] # Hole
      BY DEF BreakSkipsNoHole
    <2>0. col \in ColIds
      BY BoardAssumption DEF TypeOK, ColIds
    <2>1. <<r, col>> \in Cell
      BY <2>0 DEF Cell
    <2>2. r >= Rows - (Cols - cap)
      BY BoardAssumption DEF TypeOK, RowIds
    <2> QED
      BY <2>1, <2>2 DEF FillInv, GravityFills
  <1> QED
    BY <1>1, FillInvariant, TypeCorrect, PTL

-----------------------------------------------------------------------------

(* Settle's templates find a match exactly when three candies are in line. *)
LEMMA MatchIsLine ==
    ASSUME NEW f, NEW u \in Templates, NEW r \in RowIds, NEW c \in ColIds,
           InScan(u, r, c), Matches(f, u, r, c)
    PROVE  ThreeInLine(f)
  <1>1. f[<<r, c>>] # Hole
    BY DEF Matches
  <1>2. Extent(u) \in {2, 3} /\ 1 \in 1..Extent(u) /\ 2 \in 1..Extent(u)
    BY DEF Extent
  <1>3. /\ f[Along(u, r, c, 1)] = f[<<r, c>>]
        /\ f[Along(u, r, c, 2)] = f[<<r, c>>]
    BY <1>2 DEF Matches
  <1>4. CASE Vertical(u)
    <2>1. r + 2 \in RowIds
      BY BoardAssumption, <1>2, <1>4 DEF InScan, ScanRows, RowIds
    <2> QED
      BY <1>1, <1>3, <1>4, <2>1 DEF Along, ThreeInLine
  <1>5. CASE ~Vertical(u)
    <2>1. c + 2 \in ColIds
      BY BoardAssumption, <1>2, <1>5 DEF InScan, ScanCols, ColIds
    <2> QED
      BY <1>1, <1>3, <1>5, <2>1 DEF Along, ThreeInLine
  <1> QED
    BY <1>4, <1>5

(* Three in a line lie within the scan range of a template of three.       *)
LEMMA LineIsMatch ==
    ASSUME NEW f, ThreeInLine(f)
    PROVE  \E u \in Templates, r \in RowIds, c \in ColIds :
               InScan(u, r, c) /\ Matches(f, u, r, c)
  <1>1. PICK r \in RowIds, c \in ColIds :
          /\ f[<<r, c>>] # Hole
          /\ \/ /\ r + 2 \in RowIds
                /\ f[<<r + 1, c>>] = f[<<r, c>>]
                /\ f[<<r + 2, c>>] = f[<<r, c>>]
             \/ /\ c + 2 \in ColIds
                /\ f[<<r, c + 1>>] = f[<<r, c>>]
                /\ f[<<r, c + 2>>] = f[<<r, c>>]
    BY DEF ThreeInLine
  <1>2. 2 \in Templates /\ 3 \in Templates
    BY DEF Templates
  <1>3. 1..2 = {1, 2}
    OBVIOUS
  <1>4. CASE r + 2 \in RowIds /\ f[<<r + 1, c>>] = f[<<r, c>>]
                             /\ f[<<r + 2, c>>] = f[<<r, c>>]
    <2>1. InScan(2, r, c)
      BY BoardAssumption, <1>4 DEF InScan, ScanRows, ScanCols, Vertical, Extent, RowIds, ColIds
    <2>2. Matches(f, 2, r, c)
      BY <1>1, <1>3, <1>4 DEF Matches, Along, Vertical, Extent
    <2> QED
      BY <1>2, <2>1, <2>2
  <1>5. CASE c + 2 \in ColIds /\ f[<<r, c + 1>>] = f[<<r, c>>]
                             /\ f[<<r, c + 2>>] = f[<<r, c>>]
    <2>1. InScan(3, r, c)
      BY BoardAssumption, <1>5 DEF InScan, ScanRows, ScanCols, Vertical, Extent, RowIds, ColIds
    <2>2. Matches(f, 3, r, c)
      BY <1>1, <1>3, <1>5 DEF Matches, Along, Vertical, Extent
    <2> QED
      BY <1>2, <2>1, <2>2
  <1> QED
    BY <1>1, <1>4, <1>5

(* The scan ranges are integers, perhaps negative on a small board.        *)
LEMMA ScanIsInt == \A u : ScanRows(u) \in Int /\ ScanCols(u) \in Int
  BY BoardAssumption DEF ScanRows, ScanCols, Extent

(* The positions behind the cursor after one step of the scan.             *)
LEMMA MissAdvances ==
    ASSUME TypeOK, NextPosition, t' = t,
           NEW u \in Templates, NEW r \in RowIds, NEW c \in ColIds,
           InScan(u, r, c), Behind(u, r, c)'
    PROVE  Behind(u, r, c) \/ (u = t /\ r = row /\ c = col)
  <1>1. c < ScanCols(u)
    BY DEF InScan
  <1>2. /\ u \in Int /\ r \in Int /\ c \in Int
        /\ t \in Int /\ row \in Int /\ col \in Int
    BY DEF Templates, RowIds, ColIds, TypeOK
  <1>3. u < t \/ (u = t /\ r < row') \/ (u = t /\ r = row' /\ c < col')
    BY DEF Behind
  <1>4. ScanCols(u) \in Int
    BY ScanIsInt
  <1>5. CASE col + 1 < ScanCols(t)
    BY <1>2, <1>3, <1>5 DEF NextPosition, Behind
  <1>6. CASE ~(col + 1 < ScanCols(t))
    <2>1. row' = row + 1 /\ col' = 0 /\ (u = t => c <= col)
      BY <1>1, <1>2, <1>4, <1>6 DEF NextPosition
    <2>2. c >= 0
      BY DEF ColIds
    <2> QED
      BY <1>2, <1>3, <2>1, <2>2 DEF Behind
  <1> QED
    BY <1>5, <1>6

(* Going on to the next template leaves nothing out.                       *)
LEMMA TemplateAdvances ==
    ASSUME TypeOK, ~InScan(t, row, col), col = 0 \/ col < ScanCols(t),
           t' = t + 1, row' = 0, col' = 0,
           NEW u \in Templates, NEW r \in RowIds, NEW c \in ColIds,
           InScan(u, r, c), Behind(u, r, c)'
    PROVE  Behind(u, r, c)
  <1>1. /\ u \in Int /\ r \in Int /\ c \in Int /\ r >= 0 /\ c >= 0
        /\ t \in Int /\ row \in Int /\ col \in Int
    BY DEF Templates, RowIds, ColIds, TypeOK
  <1>2. u < t \/ u = t
    BY <1>1 DEF Behind
  <1>3. ASSUME u = t PROVE r < row
    <2>1. r < ScanRows(t) /\ c < ScanCols(t)
      BY <1>3 DEF InScan
    <2>2. ScanRows(t) \in Int /\ ScanCols(t) \in Int
      BY ScanIsInt
    <2>3. row >= ScanRows(t) \/ col >= ScanCols(t)
      BY <1>1, <2>2 DEF InScan
    <2> QED
      BY <1>1, <2>1, <2>2, <2>3
  <1> QED
    BY <1>2, <1>3 DEF Behind

(* A pass that ends without having fired has looked at every position.     *)
LEMMA QuietPassHasNoLine ==
    ASSUME TypeOK, NoMatchBehind, pc = "scan", t \notin Templates, ~fired
    PROVE  ~ThreeInLine(candies)
  <1>1. ASSUME NEW u \in Templates, NEW r \in RowIds, NEW c \in ColIds,
               InScan(u, r, c)
        PROVE  ~Matches(candies, u, r, c)
    <2>1. Behind(u, r, c)
      BY DEF Behind, Templates, TypeOK
    <2> QED
      BY <1>1, <2>1 DEF NoMatchBehind
  <1> QED
    BY <1>1, LineIsMatch
(* The rejected swap leaves no trace, a swap is accepted exactly when it   *)
(* makes a line, and no match is left behind unless passes ran out: one    *)
(* invariant of the scan gives the three.                                  *)
LEMMA SettleInvariant == Spec => []SettleInv
  <1> USE BoardAssumption, EngineAssumption
  <1> USE DEF SettleInv
  <1>1. Init => SettleInv
    BY DEF Init, NoMatchBehind, SwapSoFar, SettledOrCapped, RejectedRestores,
           AcceptedIffLine
  <1>2. TypeOK /\ TypeOK' /\ SettleInv /\ [Next]_vars => SettleInv'
    <2> SUFFICES ASSUME TypeOK, TypeOK', SettleInv, [Next]_vars
                 PROVE  SettleInv'
      OBVIOUS
    <2> DEFINE AtRest == SettledOrCapped /\ RejectedRestores /\ AcceptedIffLine
    <2>0. ASSUME pc' # "idle" PROVE AtRest'
      BY <2>0 DEF SettledOrCapped, RejectedRestores, AcceptedIffLine
    <2>1. ASSUME NEW f \in Files, LoadGamestate(f) PROVE SettleInv'
      <3>1. NoMatchBehind'
        BY <2>1 DEF LoadGamestate, StartPass, NoMatchBehind, InScan, Behind,
                    RowIds, ColIds, Templates
      <3>2. caller' # "Swap"
        BY <2>1 DEF LoadGamestate, SwapSoFar
      <3> QED
        BY <2>0, <2>1, <3>1, <3>2 DEF LoadGamestate, StartPass, SwapSoFar
    <2>2. ASSUME NEW f \in Files, LoadFresh(f) PROVE SettleInv'
      <3>1. caller' # "Swap"
        BY <2>2 DEF LoadFresh, SwapSoFar
      <3> QED
        BY <2>0, <2>2, <3>1 DEF LoadFresh, StartFall, SwapSoFar, NoMatchBehind
    <2>3. ASSUME NEW a \in Cell, NEW d \in Directions, ApplyMove(a, d)
          PROVE  SettleInv'
      <3> DEFINE b == Neighbour(a, d)
      <3>1. NoMatchBehind'
        BY <2>3 DEF ApplyMove, StartPass, NoMatchBehind, InScan, Behind,
                    RowIds, ColIds, Templates
      <3>2. /\ entry' = Snapshot /\ pair' = <<a, b>> /\ pc' = "scan"
            /\ candies' = Exchange(candies, a, b)
            /\ UNCHANGED <<squares, extOffset, score, moves>>
        BY <2>3 DEF ApplyMove, StartPass
      <3>3. Snapshot' = [entry' EXCEPT
                            !.candies = Exchange(entry'.candies, pair'[1], pair'[2])]
        BY <3>2 DEF Snapshot
      <3>4. SwapSoFar'
        <4>1. ~fired' /\ counter' = 0
          BY <2>3 DEF ApplyMove, StartPass
        <4> QED
          BY <3>2, <3>3, <4>1 DEF SwapSoFar
      <3> QED
        BY <2>0, <3>1, <3>2, <3>4
    <2>4. ASSUME NEW a \in Cell, NEW d \in Directions, ApplyMoveOff(a, d)
          PROVE  SettleInv'
      <3>1. pc' = "idle" /\ code' = -1 /\ caller' = "Swap" /\ Snapshot' = entry'
        BY <2>4 DEF ApplyMoveOff, Snapshot, game
      <3> QED
        BY <3>1 DEF NoMatchBehind, SwapSoFar, SettledOrCapped,
                    RejectedRestores, AcceptedIffLine
    <2>5. CASE Fire
      <3>1. row \in RowIds /\ col \in ColIds
        <4>1. row \in Nat /\ col \in Nat
          BY DEF TypeOK
        <4>2. row < ScanRows(t) /\ col < ScanCols(t)
          BY <2>5 DEF Fire, InScan
        <4>3. ScanRows(t) \in Int /\ ScanRows(t) <= Rows
          BY BoardAssumption DEF ScanRows, Extent
        <4>4. ScanCols(t) \in Int /\ ScanCols(t) <= Cols
          BY BoardAssumption DEF ScanCols, Extent
        <4> QED
          BY ONLY <4>1, <4>2, <4>3, <4>4, BoardAssumption DEF RowIds, ColIds
      <3>2. ThreeInLine(candies)
        BY <2>5, <3>1, MatchIsLine DEF Fire
      <3>3. NoMatchBehind'
        BY <2>5 DEF Fire, NextPosition, NoMatchBehind
      <3>4. SwapSoFar'
        BY <2>5, <3>2 DEF Fire, SwapSoFar, Snapshot, TypeOK
      <3> QED
        BY <2>0, <2>5, <3>3, <3>4 DEF Fire
    <2>6. CASE Miss
      <3>1. NoMatchBehind'
        <4>1. col' = 0 \/ (t' \in Templates /\ col' < ScanCols(t'))
          BY <2>6 DEF Miss, NextPosition
        <4>2. ASSUME ~fired', NEW u \in Templates, NEW r \in RowIds,
                     NEW c \in ColIds, InScan(u, r, c), Behind(u, r, c)'
              PROVE  ~Matches(candies, u, r, c)
          <5>1. Behind(u, r, c) \/ (u = t /\ r = row /\ c = col)
            BY <2>6, <4>2, MissAdvances DEF Miss
          <5> QED
            BY <2>6, <4>2, <5>1 DEF Miss, NoMatchBehind
        <4> QED
          BY <2>6, <4>1, <4>2 DEF Miss, NoMatchBehind, game
      <3>2. SwapSoFar'
        BY <2>6 DEF Miss, SwapSoFar, Snapshot, game
      <3> QED
        BY <2>0, <2>6, <3>1, <3>2 DEF Miss
    <2>7. CASE NextTemplate
      <3>1. NoMatchBehind'
        <4>1. ASSUME ~fired', NEW u \in Templates, NEW r \in RowIds,
                     NEW c \in ColIds, InScan(u, r, c), Behind(u, r, c)'
              PROVE  ~Matches(candies, u, r, c)
          <5>1. Behind(u, r, c)
            BY <2>7, <4>1, TemplateAdvances DEF NextTemplate, NoMatchBehind
          <5> QED
            BY <2>7, <4>1, <5>1 DEF NextTemplate, NoMatchBehind
        <4> QED
          BY <2>7, <4>1 DEF NextTemplate, NoMatchBehind, game
      <3>2. SwapSoFar'
        BY <2>7 DEF NextTemplate, SwapSoFar, Snapshot, game
      <3> QED
        BY <2>0, <2>7, <3>1, <3>2 DEF NextTemplate
    <2>8. CASE PassFired
      <3>1. counter' > 0 /\ counter' # 0
        BY <2>8 DEF PassFired, TypeOK
      <3>2. SwapSoFar'
        BY <2>8, <3>1 DEF PassFired, StartFall, SwapSoFar, game
      <3> QED
        BY <2>0, <2>8, <3>2 DEF PassFired, StartFall, NoMatchBehind
    <2>9. CASE PassQuiet
      <3> DEFINE exchanged == Exchange(entry.candies, pair[1], pair[2])
      <3>1. ~ThreeInLine(candies)
        BY <2>9, QuietPassHasNoLine DEF PassQuiet
      <3>2. ASSUME InitReturns PROVE SettleInv'
        BY <3>1, <3>2 DEF InitReturns, Returns, NoMatchBehind, SwapSoFar,
             SettledOrCapped, RejectedRestores, AcceptedIffLine
      <3>3. ASSUME counter > 0, SwapAccepts PROVE SettleInv'
        <4>1. ThreeInLine(exchanged)
          BY <2>9, <3>3 DEF PassQuiet, SwapAccepts, SwapSoFar
        <4> QED
          BY <3>1, <3>3, <4>1
          DEF SwapAccepts, Returns, NoMatchBehind, SwapSoFar,
              SettledOrCapped, RejectedRestores, AcceptedIffLine
      <3>4. ASSUME counter = 0, SwapRejects PROVE SettleInv'
        <4>1. Snapshot = [entry EXCEPT !.candies = exchanged]
          BY <2>9, <3>4 DEF PassQuiet, SwapRejects, SwapSoFar
        <4>2. /\ candies = exchanged /\ squares = entry.squares
              /\ extOffset = entry.offset /\ score = entry.score
              /\ moves = entry.moves
          BY <4>1 DEF Snapshot, TypeOK
        <4>3. candies' = entry.candies
          BY <3>4, <4>2, ExchangeType DEF SwapRejects, TypeOK
        <4>4. Snapshot' = entry'
          BY <3>4, <4>2, <4>3 DEF SwapRejects, Returns, Snapshot, TypeOK
        <4> QED
          BY <3>1, <3>4, <4>2, <4>4
          DEF SwapRejects, Returns, NoMatchBehind, SwapSoFar,
              SettledOrCapped, RejectedRestores, AcceptedIffLine
      <3> QED
        BY <2>9, <3>2, <3>3, <3>4 DEF PassQuiet
    <2>10. CASE ShiftDown
      BY <2>0, <2>10 DEF ShiftDown, SwapSoFar, NoMatchBehind, TypeOK
    <2>11. CASE NextRow
      BY <2>0, <2>11 DEF NextRow, SwapSoFar, NoMatchBehind, TypeOK
    <2>12. CASE NextColumn
      BY <2>0, <2>12 DEF NextColumn, SwapSoFar, NoMatchBehind, TypeOK
    <2>13. CASE Resettle
      <3>1. NoMatchBehind'
        BY <2>13 DEF Resettle, StartPass, NoMatchBehind, InScan, Behind,
                     RowIds, ColIds, Templates
      <3>2. SwapSoFar'
        BY <2>13 DEF Resettle, StartPass, SwapSoFar, TypeOK
      <3> QED
        BY <2>0, <2>13, <3>1, <3>2 DEF Resettle, StartPass
    <2>14. CASE GiveUp
      <3>1. counter >= MaxSettle /\ (caller = "Swap" => counter > 0)
        BY <2>14 DEF GiveUp, SwapSoFar
      <3>2. caller = "Swap" =>
              ThreeInLine(Exchange(entry.candies, pair[1], pair[2]))
        BY <2>14, <3>1 DEF GiveUp, SwapSoFar
      <3> QED
        BY <2>14, <3>1, <3>2
        DEF GiveUp, Returns, InitReturns, SwapAccepts, NoMatchBehind, SwapSoFar,
            SettledOrCapped, RejectedRestores, AcceptedIffLine, cursor
    <2>15. CASE UNCHANGED vars
      BY <2>15 DEF vars, game, cursor, NoMatchBehind, SwapSoFar, Behind,
           Snapshot, SettledOrCapped, RejectedRestores, AcceptedIffLine
    <2> QED
      BY <2>1, <2>2, <2>3, <2>4, <2>5, <2>6, <2>7, <2>8, <2>9, <2>10, <2>11,
         <2>12, <2>13, <2>14, <2>15 DEF Next, Call, Scan, Gravity
  <1> QED
    BY <1>1, <1>2, TypeCorrect, PTL DEF Spec
(* Whatever the size of the board, Init and an accepted move leave no      *)
(* match behind unless Settle gave up.                                     *)
THEOREM SettledAtRest == Spec => []SettledOrCapped
  <1>1. SettleInv => SettledOrCapped
    BY DEF SettleInv
  <1> QED
    BY <1>1, SettleInvariant, PTL

(* A refused swap leaves the object as the call found it.                  *)
THEOREM RejectionRestores == Spec => []RejectedRestores
  <1>1. SettleInv => RejectedRestores
    BY DEF SettleInv
  <1> QED
    BY <1>1, SettleInvariant, PTL

(* Swap accepts a move exactly when the exchanged board has three equal    *)
(* candies in a line.                                                      *)
THEOREM AcceptanceIsALine == Spec => []AcceptedIffLine
  <1>1. SettleInv => AcceptedIffLine
    BY DEF SettleInv
  <1> QED
    BY <1>1, SettleInvariant, PTL

-----------------------------------------------------------------------------
(* What ApplyMove calls a neighbour is side by side with the cell.         *)
LEMMA NeighbourAdjacent ==
    ASSUME NEW a \in Cell, NEW d \in Directions
    PROVE  Adjacent(a, Neighbour(a, d))
  <1>1. a[1] \in Int /\ a[2] \in Int
    BY CellPair
  <1>2. CASE d = 0
    BY <1>1, <1>2 DEF Neighbour, Adjacent
  <1>3. CASE d = 1
    BY <1>1, <1>3 DEF Neighbour, Adjacent
  <1>4. CASE d = 2
    BY <1>1, <1>4 DEF Neighbour, Adjacent
  <1>5. CASE d = 3
    BY <1>1, <1>5 DEF Neighbour, Adjacent
  <1> QED
    BY <1>2, <1>3, <1>4, <1>5 DEF Directions

(* Swap knows its two cells in no order.                                   *)
LEMMA ExchangeCommutes ==
    ASSUME NEW f \in [Cell -> Candy], NEW a \in Cell, NEW b \in Cell
    PROVE  Exchange(f, a, b) = Exchange(f, b, a)
  BY DEF Exchange

(* Settle(false) finds a match exactly when there are three in a line.     *)
LEMMA FiresIsLine ==
    ASSUME NEW f
    PROVE  Fires(f) <=> ThreeInLine(f)
  BY MatchIsLine, LineIsMatch DEF Fires

(* The cells Swap works on come from ApplyMove.                            *)
LEMMA PairInvariant == Spec => []PairAdjacent
  <1>1. Init => PairAdjacent
    BY DEF Init, PairAdjacent
  <1>2. SettleInv /\ PairAdjacent /\ [Next]_vars => PairAdjacent'
    <2> SUFFICES ASSUME SettleInv, PairAdjacent, [Next]_vars
                 PROVE  PairAdjacent'
      OBVIOUS
    <2>0. caller = "Swap" /\ pc # "idle" => pc \in {"scan", "fall"}
      BY DEF SettleInv, SwapSoFar
    <2>1. CASE \E f \in Files : LoadGamestate(f) \/ LoadFresh(f)
      BY <2>0, <2>1 DEF LoadGamestate, LoadFresh, PairAdjacent
    <2>2. ASSUME NEW a \in Cell, NEW d \in Directions, ApplyMove(a, d)
          PROVE  PairAdjacent'
      <3>1. pair' = <<a, Neighbour(a, d)>>
        BY <2>2 DEF ApplyMove
      <3> QED
        BY <3>1, NeighbourAdjacent DEF PairAdjacent
    <2>3. ASSUME NEW a \in Cell, NEW d \in Directions, ApplyMoveOff(a, d)
          PROVE  PairAdjacent'
      BY <2>3 DEF ApplyMoveOff, PairAdjacent
    <2>4. CASE Scan
      BY <2>4 DEF Scan, Fire, Miss, NextTemplate, PassFired, PassQuiet,
                  InitReturns, SwapAccepts, SwapRejects, Returns, PairAdjacent
    <2>5. CASE Gravity
      BY <2>5 DEF Gravity, ShiftDown, NextRow, NextColumn, Resettle, GiveUp,
                  InitReturns, SwapAccepts, Returns, StartPass, PairAdjacent
    <2>6. CASE UNCHANGED vars
      BY <2>6 DEF vars, PairAdjacent
    <2> QED
      BY <2>1, <2>2, <2>3, <2>4, <2>5, <2>6 DEF Next, Call
  <1> QED
    BY <1>1, <1>2, SettleInvariant, PTL DEF Spec

(* GenerateMoves and Swap agree: a move is listed exactly when it will be  *)
(* accepted, but for the moves along the top row or the last column.       *)
THEOREM GenerationIsAcceptance == Spec => []GeneratedIsAccepted
  <1>1. TypeOK /\ SettleInv /\ PairAdjacent => GeneratedIsAccepted
    <2> SUFFICES ASSUME TypeOK, SettleInv, PairAdjacent,
                        pc = "idle", caller = "Swap", code # -1
                 PROVE  GeneratedIsAccepted
      BY DEF GeneratedIsAccepted
    <2> DEFINE f == entry.candies
               a == pair[1]
               b == pair[2]
               listed == \E m \in GenerateMoves(f) :
                             {m[1], Neighbour(m[1], m[2])} = {a, b}
               atEdge == \/ a[1] = Rows - 1 /\ b[1] = Rows - 1
                         \/ a[2] = Cols - 1 /\ b[2] = Cols - 1
    <2>1. f \in [Cell -> Candy] /\ a \in Cell /\ b \in Cell
      BY DEF TypeOK
    <2>2. Adjacent(a, b)
      BY DEF PairAdjacent
    <2>3. code = 1 <=> Fires(Exchange(f, a, b))
      BY FiresIsLine DEF SettleInv, AcceptedIffLine
    <2> HIDE DEF f, a, b
    <2>4. atEdge => ~listed
      BY <2>1, CellPair DEF GenerateMoves
    <2>5. listed => code = 1
      BY <2>1, <2>3, ExchangeCommutes DEF GenerateMoves
    <2>6. ASSUME NEW x \in Cell, NEW y \in Cell, NEW d \in {1, 2},
                 y = Neighbour(x, d), {x, y} = {a, b}, ~atEdge, code = 1
          PROVE  listed
      <3>1. x[1] < Rows - 1 /\ x[2] < Cols - 1
        <4>1. CASE d = 1
          BY <4>1, <2>6, CellPair, BoardAssumption DEF Neighbour
        <4>2. CASE d = 2
          BY <4>2, <2>6, CellPair, BoardAssumption DEF Neighbour
        <4> QED
          BY <4>1, <4>2
      <3>2. Fires(Exchange(f, x, y))
        BY <2>1, <2>3, <2>6, ExchangeCommutes
      <3>3. <<x, d>> \in GenerateMoves(f)
        BY <3>1, <3>2, <2>6 DEF GenerateMoves
      <3> QED
        BY <3>3, <2>6
    <2>7. ASSUME ~atEdge, code = 1 PROVE listed
      <3>1. /\ a = <<a[1], a[2]>> /\ b = <<b[1], b[2]>>
            /\ a[1] \in Int /\ a[2] \in Int /\ b[1] \in Int /\ b[2] \in Int
        BY <2>1, CellPair
      <3>2. CASE a[1] = b[1] /\ b[2] = a[2] + 1
        <4>1. b = Neighbour(a, 1)
          BY <3>1, <3>2 DEF Neighbour
        <4> QED
          BY <4>1, <2>1, <2>6, <2>7
      <3>3. CASE a[1] = b[1] /\ a[2] = b[2] + 1
        <4>1. a = Neighbour(b, 1)
          BY <3>1, <3>3 DEF Neighbour
        <4> QED
          BY <4>1, <2>1, <2>6, <2>7
      <3>4. CASE a[2] = b[2] /\ b[1] = a[1] + 1
        <4>1. b = Neighbour(a, 2)
          BY <3>1, <3>4 DEF Neighbour
        <4> QED
          BY <4>1, <2>1, <2>6, <2>7
      <3>5. CASE a[2] = b[2] /\ a[1] = b[1] + 1
        <4>1. a = Neighbour(b, 2)
          BY <3>1, <3>5 DEF Neighbour
        <4> QED
          BY <4>1, <2>1, <2>6, <2>7
      <3> QED
        BY <2>2, <3>2, <3>3, <3>4, <3>5 DEF Adjacent
    <2> QED
      BY <2>4, <2>5, <2>7 DEF GeneratedIsAccepted, f, a, b
  <1> QED
    BY <1>1, TypeCorrect, SettleInvariant, PairInvariant, PTL
==============================================================================
