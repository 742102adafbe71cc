------------------------------ MODULE ScoreProofs ------------------------------
(***************************************************************************)
(* Theorems about the score of a Game object, which is a difference of     *)
(* sums over the squares, for boards and files of every size.              *)
(***************************************************************************)
EXTENDS GameEngineProofs, RulesProofs

(* The squares a firing of S takes one from. *)
Hit(s, S) == {x \in S : s[x] > 0}

(* What SimpleEvaluator adds up. *)
Weighed(s) == [x \in Cell |-> (Rows - x[1]) * (2 - s[x])]

(* A firing takes from the squares what it adds to the score.              *)
LEMMA WearIsPoints ==
    ASSUME NEW s \in [Cell -> Nat], NEW S \in SUBSET Cell
    PROVE  /\ SumFunction(s) \in Int /\ SumFunction(Worn(s, S)) \in Int
           /\ SumFunction(s) - SumFunction(Worn(s, S)) = Points(s, S)
<1> DEFINE w == Worn(s, S)
<1>1. w \in [Cell -> Nat]
  BY WornType
<1>2. s \in [Cell -> Int] /\ w \in [Cell -> Int]
  BY <1>1
<1>3. \A x \in Cell : IF x \in Hit(s, S) THEN s[x] - w[x] \in 1..1 ELSE s[x] = w[x]
  BY DEF Worn, Hit
<1>4. Hit(s, S) \in SUBSET Cell /\ 1 \in Int
  BY DEF Hit
<1>5. /\ SumFunctionOnSet(s, Cell) \in Int /\ SumFunctionOnSet(w, Cell) \in Int
      /\ SumFunctionOnSet(s, Cell) - SumFunctionOnSet(w, Cell)
            \in (1 * Cardinality(Hit(s, S)))..(1 * Cardinality(Hit(s, S)))
  <2> HIDE DEF w
  <2> QED
    BY <1>2, <1>3, <1>4, CellFinite, SumsBetween
<1>6. DOMAIN s = Cell /\ DOMAIN w = Cell
  BY <1>1
<1>7. Points(s, S) = Cardinality(Hit(s, S)) /\ Points(s, S) \in Nat
  BY PointsType DEF Points, Hit
<1> HIDE DEF w
<1>8. SumFunction(s) = SumFunctionOnSet(s, Cell)
      /\ SumFunction(w) = SumFunctionOnSet(w, Cell)
  BY <1>6 DEF SumFunction
<1> QED
  BY <1>5, <1>7, <1>8 DEF w

(* A firing makes a position better by one to Rows for each point.         *)
LEMMA PointsAreWorth ==
    ASSUME NEW s \in [Cell -> Nat], NEW S \in SUBSET Cell
    PROVE  /\ Evaluate(s) \in Int /\ Evaluate(Worn(s, S)) \in Int
           /\ Evaluate(Worn(s, S)) - Evaluate(s)
                 \in Points(s, S)..(Rows * Points(s, S))
<1> DEFINE w == Worn(s, S)
           F == Weighed(w)
           G == Weighed(s)
<1>1. w \in [Cell -> Nat]
  BY WornType
<1>2. \A x \in Cell : x[1] \in Int /\ 1 <= Rows - x[1] /\ Rows - x[1] <= Rows
                      /\ Rows - x[1] \in Int
  BY CellPair, BoardAssumption
<1>3. \A v \in [Cell -> Nat] : Weighed(v) \in [Cell -> Int]
  <2> SUFFICES ASSUME NEW v \in [Cell -> Nat], NEW x \in Cell
               PROVE  (Rows - x[1]) * (2 - v[x]) \in Int
    BY DEF Weighed
  <2> QED
    BY <1>2
<1>4. \A x \in Cell : IF x \in Hit(s, S) THEN F[x] - G[x] \in 1..Rows
                      ELSE F[x] = G[x]
  <2> SUFFICES ASSUME NEW x \in Cell
               PROVE  IF x \in Hit(s, S) THEN F[x] - G[x] \in 1..Rows
                      ELSE F[x] = G[x]
    OBVIOUS
  <2>1. F[x] = (Rows - x[1]) * (2 - w[x]) /\ G[x] = (Rows - x[1]) * (2 - s[x])
    BY DEF Weighed
  <2>2. w[x] = IF x \in Hit(s, S) THEN s[x] - 1 ELSE s[x]
    BY DEF Worn, Hit
  <2>3. \A a, b \in Int : a * (2 - (b - 1)) - a * (2 - b) = a
    OBVIOUS
  <2>4. s[x] \in Int /\ Rows \in Int
    BY BoardAssumption
  <2> HIDE DEF F, G, w
  <2> QED
    BY <1>2, <2>1, <2>2, <2>3, <2>4
<1>5. Hit(s, S) \in SUBSET Cell /\ 1 \in Int /\ Rows \in Int
  BY BoardAssumption DEF Hit
<1>6. F \in [Cell -> Int] /\ G \in [Cell -> Int]
  BY <1>1, <1>3
<1>7. /\ SumFunctionOnSet(F, Cell) \in Int /\ SumFunctionOnSet(G, Cell) \in Int
      /\ SumFunctionOnSet(F, Cell) - SumFunctionOnSet(G, Cell)
            \in (1 * Cardinality(Hit(s, S)))..(Rows * Cardinality(Hit(s, S)))
  <2> HIDE DEF F, G
  <2> QED
    BY <1>4, <1>5, <1>6, CellFinite, SumsBetween
<1>8. Evaluate(w) = SumFunctionOnSet(F, Cell) /\ Evaluate(s) = SumFunctionOnSet(G, Cell)
  <2>1. DOMAIN F = Cell /\ DOMAIN G = Cell
    BY DEF Weighed
  <2> HIDE DEF w
  <2> QED
    BY <2>1 DEF SumFunction, Evaluate, Weighed
<1>9. Points(s, S) = Cardinality(Hit(s, S)) /\ Points(s, S) \in Nat
  BY PointsType DEF Points, Hit
<1> HIDE DEF F, G
<1> QED
  BY <1>7, <1>8, <1>9

(* A square's points, the score and the value of the position move         *)
(* together: what Fire does to them, the other steps leave alone.          *)
LEMMA ScoreStep ==
    ASSUME TypeOK, [Next]_vars
    PROVE  \/ pc' = "new" /\ pc = "new"
           \/ score' = entry'.score /\ squares' = entry'.squares
           \/ pc # "new" /\ entry' = entry /\ UNCHANGED <<squares, score>>
           \/ Fire
<1>1. CASE \E f \in Files : LoadGamestate(f) \/ LoadFresh(f)
  BY <1>1 DEF LoadGamestate, LoadFresh
<1>2. CASE \E a \in Cell, d \in Directions : ApplyMove(a, d) \/ ApplyMoveOff(a, d)
  BY <1>2 DEF ApplyMove, ApplyMoveOff, Snapshot, game
<1>3. CASE Scan
  BY <1>3 DEF Scan, Miss, NextTemplate, PassFired, PassQuiet, InitReturns,
              SwapAccepts, SwapRejects, Returns, game
<1>4. CASE Gravity
  BY <1>4 DEF Gravity, ShiftDown, NextRow, NextColumn, Resettle, GiveUp,
              InitReturns, SwapAccepts, Returns, game
<1>5. CASE UNCHANGED vars
  BY <1>5 DEF vars, game
<1> QED
  BY <1>1, <1>2, <1>3, <1>4, <1>5 DEF Next, Call

(* A position no firing has touched is worth what it was worth.            *)
LEMMA NothingScored ==
    ASSUME NEW s \in [Cell -> Nat], NEW n \in Int
    PROVE  Evaluate(s) - Evaluate(s) \in (n - n)..(Rows * (n - n))
<1>1. Evaluate(s) \in Int
  <2>1. {} \in SUBSET Cell
    OBVIOUS
  <2> QED
    BY <2>1, PointsAreWorth
<1>2. n - n = 0 /\ Evaluate(s) - Evaluate(s) = 0 /\ Rows * 0 = 0
  BY <1>1, BoardAssumption
<1> QED
  BY <1>2

ScoreInv == ScoreAccounts /\ EvaluationFollowsScore

(* Firing keeps the two accounts; a call starts them anew.                 *)
LEMMA ScoreInvariant == Spec => []ScoreInv
<1>1. Init => ScoreInv
  BY DEF Init, ScoreInv, ScoreAccounts, EvaluationFollowsScore
<1>2. TypeOK /\ TypeOK' /\ ScoreInv /\ [Next]_vars => ScoreInv'
  <2> SUFFICES ASSUME TypeOK, TypeOK', ScoreInv, [Next]_vars
               PROVE  ScoreInv'
    OBVIOUS
  <2>1. CASE pc' = "new"
    BY <2>1 DEF ScoreInv, ScoreAccounts, EvaluationFollowsScore
  <2>2. CASE score' = entry'.score /\ squares' = entry'.squares
    <3>1. squares' \in [Cell -> Nat] /\ score' \in Int
      BY DEF TypeOK
    <3>2. Evaluate(squares') - Evaluate(squares')
             \in (score' - score')..(Rows * (score' - score'))
      BY <3>1, NothingScored
    <3>3. score' + SumFunction(squares') = entry'.score + SumFunction(entry'.squares)
      BY <2>2
    <3>4. Evaluate(squares') - Evaluate(entry'.squares)
             \in (score' - entry'.score)..(Rows * (score' - entry'.score))
      BY <2>2, <3>2, Zenon
    <3>5. ScoreAccounts'
      BY <3>3 DEF ScoreAccounts
    <3>6. EvaluationFollowsScore'
      BY <3>4 DEF EvaluationFollowsScore
    <3> QED
      BY <3>5, <3>6 DEF ScoreInv
  <2>3. CASE pc # "new" /\ entry' = entry /\ UNCHANGED <<squares, score>>
    BY <2>3 DEF ScoreInv, ScoreAccounts, EvaluationFollowsScore
  <2>4. CASE Fire
    <3> DEFINE S == Span(t, row, col)
               p == Points(squares, S)
    <3>1. /\ squares \in [Cell -> Nat] /\ S \in SUBSET Cell
          /\ squares' = Worn(squares, S) /\ score' = score + p
          /\ pc # "new" /\ entry' = entry
      BY <2>4, SpanOnBoard DEF Fire, TypeOK
    <3>2. p \in Nat /\ score \in Int /\ entry.score \in Int /\ Rows \in Int
      BY <3>1, PointsType, BoardAssumption DEF TypeOK
    <3>3. /\ SumFunction(squares) \in Int /\ SumFunction(squares') \in Int
          /\ SumFunction(squares) - SumFunction(squares') = p
      BY <3>1, WearIsPoints
    <3>4. /\ Evaluate(squares) \in Int /\ Evaluate(squares') \in Int
          /\ Evaluate(squares') - Evaluate(squares) \in p..(Rows * p)
      BY <3>1, PointsAreWorth
    <3>5. SumFunction(entry.squares) \in Int /\ Evaluate(entry.squares) \in Int
      <4>1. entry.squares \in [Cell -> Nat] /\ {} \in SUBSET Cell
        BY DEF TypeOK
      <4> QED
        BY <4>1, WearIsPoints, PointsAreWorth
    <3> HIDE DEF S, p
    <3>6. ScoreAccounts'
      <4>1. score + SumFunction(squares) = entry.score + SumFunction(entry.squares)
        BY <3>1 DEF ScoreInv, ScoreAccounts
      <4>2. score' + SumFunction(squares') = score + SumFunction(squares)
        BY <3>1, <3>2, <3>3
      <4>3. score' + SumFunction(squares')
               = entry'.score + SumFunction(entry'.squares)
        BY <3>1, <4>1, <4>2
      <4> QED
        BY <4>3 DEF ScoreAccounts
    <3>7. EvaluationFollowsScore'
      <4> DEFINE points == score - entry.score
                 e == Evaluate(squares) - Evaluate(entry.squares)
                 d == Evaluate(squares') - Evaluate(squares)
      <4>1. e \in points..(Rows * points) /\ d \in p..(Rows * p)
        BY <3>1, <3>4 DEF ScoreInv, EvaluationFollowsScore
      <4>2. score' - entry'.score = points + p
        BY <3>1, <3>2
      <4>3. Evaluate(squares') - Evaluate(entry.squares) = e + d
        BY <3>4, <3>5
      <4>4. points \in Int /\ e \in Int /\ d \in Int
        BY <3>2, <3>4, <3>5
      <4>5. \A x, y \in Int : Rows * (x + y) = Rows * x + Rows * y
                              /\ Rows * x \in Int
        BY <3>2
      <4> HIDE DEF points, e, d
      <4>6. e + d \in (points + p)..(Rows * (points + p))
        BY <3>2, <4>1, <4>4, <4>5
      <4> QED
        BY <3>1, <4>2, <4>3, <4>6 DEF EvaluationFollowsScore
    <3> QED
      BY <3>6, <3>7 DEF ScoreInv
  <2> QED
    BY <2>1, <2>2, <2>3, <2>4, ScoreStep
<1> QED
  BY <1>1, <1>2, TypeCorrect, PTL DEF Spec

(* Every point scored was taken off a square, at any moment of a call,     *)
(* through every cascade and on boards of every size.                      *)
THEOREM PointsAreWear == Spec => []ScoreAccounts
<1>1. ScoreInv => ScoreAccounts
  BY DEF ScoreInv
<1> QED
  BY <1>1, ScoreInvariant, PTL

(* What SimpleEvaluator returns grows by at least one and at most Rows for *)
(* each point scored since the call began.                                 *)
THEOREM EvaluationIsScore == Spec => []EvaluationFollowsScore
<1>1. ScoreInv => EvaluationFollowsScore
  BY DEF ScoreInv
<1> QED
  BY <1>1, ScoreInvariant, PTL
==============================================================================
