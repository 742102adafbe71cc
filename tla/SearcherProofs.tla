---------------------------- MODULE SearcherProofs ----------------------------
(***************************************************************************)
(* Theorems about the search for any number of threads, any tree of games  *)
(* and any number of requests.                                             *)
(***************************************************************************)
EXTENDS SearcherRefinement, SequenceTheorems, FiniteSetTheorems, TLAPS

(* What GenerateMoves and Evaluate return. *)
WellFormed ==
    \A p \in Seq(Moves) : Legal(p) \in Seq(Moves) /\ Score(p) \in Int

-----------------------------------------------------------------------------
LEMMA MovesType == Moves \subseteq AnyMove /\ NoMove \in AnyMove /\ NoMove \notin Moves
BY SearcherAssumption DEF AnyMove, NoMove

LEMMA LegalSetType ==
    ASSUME WellFormed, NEW p \in Seq(Moves)
    PROVE  LegalSet(p) \subseteq Moves
BY ElementOfSeq DEF LegalSet, WellFormed

(* Playing a move on a game gives a game. *)
LEMMA AfterType ==
    ASSUME WellFormed, NEW g \in Game, NEW m \in AnyMove
    PROVE  After(g, m) \in Game
BY LegalSetType DEF After, Game

(* A move is what its fields are. *)
LEMMA SameMove ==
    ASSUME NEW m \in AnyMove, NEW n \in AnyMove, m.row = n.row,
           m.col = n.col, m.direction = n.direction
    PROVE  m = n
BY DEF AnyMove

(* GetBestMove sets one field of bestMove after the other, and setDone     *)
(* reads one after the other.                                              *)
LEMMA ResetType ==
    ASSUME TypeOK, ResetBest
    PROVE  /\ bestMove' \in [move: AnyMove, score: Int]
           /\ th \in Resetting \ {"begin"} /\ th' \in Resetting \cup {"push"}
           /\ th' # "begin" /\ (th' = "push" <=> th = "resetScore")
           /\ seen' \in {seen, {}} /\ (th' = "push" => seen' = {})
           /\ UNCHANGED <<done, states, counter, threads, mutex, locals, driver,
                          spawned>>
<1>1. bestMove.move \in AnyMove /\ bestMove.score \in Int /\ Worst \in Int
      /\ bestMove = [move |-> bestMove.move, score |-> bestMove.score]
  BY SearcherAssumption DEF TypeOK
<1>2. CASE ResetRow
  BY <1>1, <1>2 DEF ResetRow, ResetField, Resetting, AnyMove
<1>3. CASE ResetCol
  BY <1>1, <1>3 DEF ResetCol, ResetField, Resetting, AnyMove
<1>4. CASE ResetDirection
  BY <1>1, <1>4 DEF ResetDirection, ResetField, Resetting, AnyMove
<1>5. CASE ResetScore
  BY <1>1, <1>5 DEF ResetScore, ResetField, Resetting
<1> QED
  BY <1>2, <1>3, <1>4, <1>5 DEF ResetBest

LEMMA ReadType ==
    ASSUME TypeOK, ReadBest
    PROVE  /\ answer' \in AnyMove /\ main \in Reading
           /\ main' \in Reading \cup {"joinTh"}
           /\ UNCHANGED <<shared, locals, live, msg, joining, asked, server, th,
                          spawned>>
BY DEF TypeOK, ReadBest, ReadRow, ReadCol, ReadDirection, ReadField, MainStep,
       Reading, AnyMove

LEMMA TypeInit == Init => TypeOK /\ Underway
<1> SUFFICES ASSUME Init PROVE TypeOK /\ Underway
  OBVIOUS
<1>1. <<>> \in Seq(Moves) /\ states \in Seq(Game) /\ todo \in [Workers -> Seq(Moves)]
  BY DEF Init
<1>2. live \in Game /\ NoGame \in Game
  <2>1. live.moves \in Int /\ live.path = <<>> /\ live.history = <<>>
    BY SearcherAssumption DEF Init
  <2>2. live = [path |-> <<>>, moves |-> live.moves, history |-> <<>>]
    BY SearcherAssumption DEF Init
  <2>3. <<>> \in Seq(Moves) /\ <<>> \in Seq(AnyMove)
    OBVIOUS
  <2>4. live \in Game
    BY <2>1, <2>2, <2>3 DEF Game
  <2> QED
    BY <2>3, <2>4 DEF Game, NoGame
<1>3. bestMove \in [move: AnyMove, score: Int] /\ answer \in AnyMove
  BY MovesType DEF Init
<1>4. spawned \in 0..PerRound /\ asked \in 0..MaxRequests
  BY SearcherAssumption DEF Init
<1>5. next \in [Workers -> Game]
  BY <1>2 DEF Init
<1> QED
  BY <1>1, <1>2, <1>3, <1>4, <1>5 DEF Init, TypeOK, Underway

LEMMA TypeNext ==
    ASSUME WellFormed, TypeOK, Underway, [Next]_vars
    PROVE  TypeOK' /\ Underway'
<1> USE SearcherAssumption
<1>1. CASE ClearDone
  BY <1>1 DEF ClearDone, TypeOK, Underway, shared, locals, driver
<1>2. CASE ResetBest
  BY <1>2, ResetType DEF TypeOK, Underway, Resetting, locals, driver
<1>3. CASE PushRoot
  BY <1>3 DEF PushRoot, TypeOK, Underway, shared, locals, driver
<1>4. ASSUME NEW w \in Workers, Spawn(w)
      PROVE  TypeOK' /\ Underway'
  <2>1. live.moves \in Int
    BY DEF TypeOK, Game
  <2>2. /\ spawned' \in 0..PerRound /\ th' \in {"spawn", "ended"}
        /\ th' = "spawn" => spawned' < PerRound
    BY <1>4 DEF Spawn, TypeOK, Underway
  <2> QED
    BY <1>4, <2>1, <2>2 DEF Spawn, Goto, TypeOK, Underway, driver
<1>5. ASSUME NEW w \in Workers, Lock(w)
      PROVE  TypeOK' /\ Underway'
  BY <1>5 DEF Lock, Goto, TypeOK, Underway, driver
<1>6. ASSUME NEW w \in Workers, Check(w)
      PROVE  TypeOK' /\ Underway'
  BY <1>6 DEF Check, Goto, TypeOK, Underway, shared, driver
<1>7. ASSUME NEW w \in Workers, Wait(w)
      PROVE  TypeOK' /\ Underway'
  BY <1>7 DEF Wait, Goto, TypeOK, Underway, driver
<1>8. ASSUME NEW w \in Workers, WakeSpuriously(w)
      PROVE  TypeOK' /\ Underway'
  BY <1>8 DEF WakeSpuriously, Goto, TypeOK, Underway, shared, driver
<1>9. ASSUME NEW w \in Workers, Finish(w)
      PROVE  TypeOK' /\ Underway'
  BY <1>9 DEF Finish, Goto, TypeOK, Underway, driver
<1>10. ASSUME NEW w \in Workers, Take(w)
       PROVE  TypeOK' /\ Underway'
  <2>1. Head(states) \in Game /\ Tail(states) \in Seq(Game)
    BY <1>10 DEF Take, TypeOK
  <2>2. Legal(Head(states).path) \in Seq(Moves)
    BY <2>1 DEF WellFormed, Game
  <2> QED
    BY <1>10, <2>1, <2>2 DEF Take, Goto, TypeOK, Underway, driver
<1>11. ASSUME Terminate
       PROVE  TypeOK' /\ Underway'
  BY <1>11 DEF Terminate, TypeOK, Underway, shared
<1>12. ASSUME NEW w \in Workers, Expand(w)
       PROVE  TypeOK' /\ Underway'
  BY <1>12 DEF Expand, Goto, TypeOK, Underway, driver
<1>13. ASSUME NEW w \in Workers, Exhausted(w)
       PROVE  TypeOK' /\ Underway'
  BY <1>13 DEF Exhausted, Goto, TypeOK, Underway, shared, driver
<1>14. ASSUME NEW w \in Workers, Evaluate(w)
       PROVE  TypeOK' /\ Underway'
  <2> DEFINE g == NewGame(w)
  <2>1. g \in Game
    <3>1. todo[w] \in Seq(Moves) /\ todo[w] # <<>> /\ next[w] \in Game
      BY <1>14 DEF Evaluate, TypeOK, Underway
    <3>2. Head(todo[w]) \in AnyMove
      BY <3>1, MovesType
    <3> QED
      BY <3>1, <3>2, AfterType DEF NewGame
  <2>2. bestMove' \in [move: AnyMove, score: Int]
    <3>1. CASE Better(g)
      <4>1. depth[w] + 1 \in 1..Len(g.history) /\ g.history \in Seq(AnyMove)
        BY <1>14, <2>1, <3>1 DEF Evaluate, InHistory, TypeOK, Game
      <4>2. FirstMove(w, g) \in AnyMove
        BY <4>1, ElementOfSeq DEF FirstMove
      <4>3. Score(g.path) \in Int
        BY <2>1 DEF WellFormed, Game
      <4> QED
        BY <1>14, <3>1, <4>2, <4>3 DEF Evaluate
    <3>2. CASE ~Better(g)
      BY <1>14, <3>2 DEF Evaluate, TypeOK
    <3> QED
      BY <3>1, <3>2
  <2>3. g.path \in Seq(Moves)
    BY <2>1 DEF Game
  <2>4. states' = Append(states, g) /\ seen' = seen \cup {g.path}
    BY <1>14 DEF Evaluate
  <2> HIDE DEF g
  <2>5. states' \in Seq(Game) /\ seen' \subseteq Seq(Moves)
    BY <2>1, <2>3, <2>4 DEF TypeOK
  <2> QED
    BY <1>14, <2>2, <2>5 DEF Evaluate, Goto, TypeOK, Underway, driver
<1>15. ASSUME NEW w \in Workers, NotifyOne(w)
       PROVE  TypeOK' /\ Underway'
  <2>1. Tail(todo[w]) \in Seq(Moves)
    BY <1>15 DEF NotifyOne, TypeOK, Underway
  <2>2. CASE Goto(w, "expand")
    BY <1>15, <2>1, <2>2 DEF NotifyOne, Goto, TypeOK, Underway, shared, driver
  <2>3. ASSUME NEW v \in Sleepers,
               at' = [at EXCEPT ![w] = "expand", ![v] = "lock"]
        PROVE  TypeOK' /\ Underway'
    <3>1. v \in Workers /\ v # w /\ todo' = [todo EXCEPT ![w] = Tail(@)]
      BY <1>15, <2>3 DEF NotifyOne, Sleepers
    <3>2. /\ at' \in [Workers -> {"none", "lock", "check", "wait", "sleep",
                          "decide", "expand", "evaluate", "notify", "ended"}]
          /\ todo' \in [Workers -> Seq(Moves)]
      BY <2>1, <2>3, <3>1 DEF TypeOK
    <3>3. TypeOK'
      BY <1>15, <3>2 DEF NotifyOne, TypeOK, shared, driver
    <3>4. \A x \in Workers :
             at'[x] \in {"evaluate", "notify"} => todo'[x] # <<>>
      BY <2>3, <3>1 DEF TypeOK, Underway
    <3> QED
      BY <1>15, <3>3, <3>4 DEF NotifyOne, Underway, driver
  <2> QED
    BY <1>15, <2>2, <2>3 DEF NotifyOne
<1>16. ASSUME NEW kind \in {"requestmove", "bye"}, Receive(kind)
       PROVE  TypeOK' /\ Underway'
  BY <1>16 DEF Receive, MainStep, TypeOK, Underway, shared, locals
<1>17. CASE HangUp
  BY <1>17 DEF HangUp, TypeOK, Underway, shared, locals
<1>18. CASE SetDone
  BY <1>18 DEF SetDone, MainStep, TypeOK, Underway, locals
<1>19. CASE NotifyAll
  BY <1>19 DEF NotifyAll, MainStep, TypeOK, Underway, shared
<1>20. CASE Join
  BY <1>20 DEF Join, MainStep, TypeOK, Underway, shared, locals
<1>21. CASE Clear
  BY <1>21 DEF Clear, MainStep, TypeOK, Underway
<1>22. CASE ResetDone
  BY <1>22 DEF ResetDone, MainStep, TypeOK, Underway, locals
<1>23. CASE Drain \/ Drained \/ ReadBest
  <2>1. CASE Drain
    <3>1. states' \in Seq(Game)
      BY <2>1 DEF Drain, TypeOK
    <3> QED
      BY <2>1, <3>1 DEF Drain, MainStep, TypeOK, Underway, locals
  <2>2. CASE Drained
    BY <2>2 DEF Drained, MainStep, TypeOK, Underway, shared, locals
  <2>3. CASE ReadBest
    <3>1. /\ answer' \in AnyMove /\ main' \in Reading \cup {"joinTh"}
          /\ UNCHANGED <<shared, locals, live, msg, joining, asked, server, th,
                         spawned>>
      BY <2>3, ReadType
    <3> QED
      BY <3>1 DEF Reading, TypeOK, Underway, shared, locals
  <2> QED
    BY <1>23, <2>1, <2>2, <2>3
<1>24. CASE JoinLauncher
  BY <1>24 DEF JoinLauncher, MainStep, TypeOK, Underway, shared, locals
<1>25. CASE Reply
  <2>1. After(live, answer) \in Game
    BY <1>25, AfterType DEF Reply, MainStep, TypeOK, Underway
  <2> QED
    BY <1>25, <2>1 DEF Reply, MainStep, TypeOK, Underway, locals
<1>26. CASE ReceiveNothing
  BY <1>26 DEF ReceiveNothing, MainStep, TypeOK, Underway, shared, locals
<1>27. CASE UNCHANGED vars
  BY <1>27 DEF vars, shared, locals, driver, TypeOK, Underway
<1> QED
  BY <1>1, <1>2, <1>3, <1>4, <1>5, <1>6, <1>7, <1>8, <1>9, <1>10, <1>11,
     <1>12, <1>13, <1>14, <1>15, <1>16, <1>17, <1>18, <1>19, <1>20, <1>21,
     <1>22, <1>23, <1>24, <1>25, <1>26, <1>27
     DEF Next, Launcher, Run, Main, TakeNothing, EvaluateOutOfRange,
         ClearUnjoined, ConnectionFails

(* Every variable keeps its range, whatever the order of the threads and   *)
(* however early the server asks: no position, depth or move is ever       *)
(* anything else than the code expects of it.                              *)
THEOREM TypeCorrect == WellFormed => (Spec => []TypeOK)
<1> SUFFICES ASSUME WellFormed PROVE Spec => []TypeOK
  OBVIOUS
<1>1. Init => TypeOK /\ Underway
  BY TypeInit
<1>2. (TypeOK /\ Underway) /\ [Next]_vars => (TypeOK /\ Underway)'
  BY TypeNext
<1> QED
  BY <1>1, <1>2, PTL DEF Spec

-----------------------------------------------------------------------------
(* How a search is stopped.                                                *)

LEMMA StopInit == Init => StopInv
BY SearcherAssumption
   DEF Init, StopInv, MutexHeld, LaunchedAlone, StoppedInOrder, NoThreads,
       SomethingToTake, Resetting, Reading

LEMMA StopNext ==
    ASSUME Paced, TypeOK, StopInv, [Next]_vars
    PROVE  StopInv'
<1> USE SearcherAssumption
<1> USE DEF StopInv, MutexHeld, LaunchedAlone, StoppedInOrder, NoThreads,
            SomethingToTake, TypeOK, Resetting, Reading
<1>1. CASE ClearDone
  BY <1>1 DEF ClearDone, shared, locals, driver
<1>2. CASE ResetBest
  BY <1>2, ResetType DEF locals, driver
<1>3. CASE PushRoot
  BY <1>3 DEF PushRoot, shared, locals, driver
<1>4. ASSUME NEW w \in Workers, Spawn(w)
      PROVE  StopInv'
  BY <1>4 DEF Spawn, Goto, driver
<1>5. ASSUME NEW w \in Workers, Lock(w)
      PROVE  StopInv'
  BY <1>5 DEF Lock, Goto, driver
<1>6. ASSUME NEW w \in Workers, Check(w)
      PROVE  StopInv'
  BY <1>6 DEF Check, Goto, shared, driver
<1>7. ASSUME NEW w \in Workers, Wait(w)
      PROVE  StopInv'
  BY <1>7 DEF Wait, Goto, driver
<1>8. ASSUME NEW w \in Workers, WakeSpuriously(w)
      PROVE  StopInv'
  BY <1>8 DEF WakeSpuriously, Goto, shared, driver
<1>9. ASSUME NEW w \in Workers, Finish(w)
      PROVE  StopInv'
  BY <1>9 DEF Finish, Goto, driver
<1>10. ASSUME NEW w \in Workers, Take(w)
       PROVE  StopInv'
  <2>1. /\ mutex = w /\ th \notin Resetting \cup {"push"}
        /\ main # "terminated" /\ main' = main
        /\ at' = [at EXCEPT ![w] = "expand"]
    BY <1>10 DEF Take, Goto, driver
  <2>2. ASSUME NEW v \in Workers, v # w
        PROVE  at[v] \notin {"check", "wait", "decide"}
    BY <2>1, <2>2
  <2>3. SomethingToTake'
    BY <2>1, <2>2
  <2>4. MutexHeld'
    BY <1>10, <2>1, <2>2 DEF Take
  <2>5. LaunchedAlone'
    BY <1>10, <2>1 DEF Take, driver
  <2>6. main \notin Reading \cup {"joinTh", "reply"}
    BY <2>1
  <2>7. StoppedInOrder'
    BY <1>10, <2>1, <2>6 DEF Take, driver
  <2> QED
    BY <2>3, <2>4, <2>5, <2>7
<1>11. ASSUME Terminate
       PROVE  StopInv'
  BY <1>11 DEF Terminate, shared
<1>12. ASSUME NEW w \in Workers, Expand(w)
       PROVE  StopInv'
  BY <1>12 DEF Expand, Goto, driver
<1>13. ASSUME NEW w \in Workers, Exhausted(w)
       PROVE  StopInv'
  BY <1>13 DEF Exhausted, Goto, shared, driver
<1>14. ASSUME NEW w \in Workers, Evaluate(w)
       PROVE  StopInv'
  BY <1>14 DEF Evaluate, Goto, driver
<1>15. ASSUME NEW w \in Workers, NotifyOne(w)
       PROVE  StopInv'
  BY <1>15 DEF NotifyOne, Sleepers, Goto, shared, driver
<1>16. ASSUME NEW kind \in {"requestmove", "bye"}, Receive(kind)
       PROVE  StopInv'
  BY <1>16 DEF Receive, MainStep, shared, locals
<1>17. CASE HangUp
  BY <1>17 DEF HangUp, shared, locals
<1>18. CASE SetDone
  BY <1>18 DEF SetDone, MainStep, locals
<1>19. CASE NotifyAll
  BY <1>19 DEF NotifyAll, Sleepers, MainStep, shared
<1>20. CASE Join
  BY <1>20 DEF Join, MainStep, shared, locals
<1>21. CASE Clear
  BY <1>21 DEF Clear, MainStep
<1>22. CASE ResetDone
  BY <1>22 DEF ResetDone, MainStep, locals
<1>23. CASE Drain \/ Drained \/ ReadBest
  <2>1. CASE Drain \/ Drained
    BY <2>1 DEF Drain, Drained, MainStep, shared, locals
  <2>2. CASE ReadBest
    BY <2>2, ReadType DEF shared, locals
  <2> QED
    BY <1>23, <2>1, <2>2
<1>24. CASE JoinLauncher
  BY <1>24 DEF JoinLauncher, MainStep, shared, locals
<1>25. CASE Reply
  BY <1>25 DEF Reply, MainStep, locals
<1>26. CASE ReceiveNothing
  BY <1>26 DEF ReceiveNothing, MainStep, shared, locals
<1>27. CASE UNCHANGED vars
  BY <1>27 DEF vars, shared, locals, driver
<1> QED
  BY <1>1, <1>2, <1>3, <1>4, <1>5, <1>6, <1>7, <1>8, <1>9, <1>10, <1>11,
     <1>12, <1>13, <1>14, <1>15, <1>16, <1>17, <1>18, <1>19, <1>20, <1>21,
     <1>22, <1>23, <1>24, <1>25, <1>26, <1>27
     DEF Next, Launcher, Run, Main, TakeNothing, EvaluateOutOfRange,
         ClearUnjoined, ConnectionFails

-----------------------------------------------------------------------------
(* The games of a search.                                                  *)

(* A legal move takes a game one move further from the live one. *)
LEMMA AfterDescends ==
    ASSUME WellFormed, NEW g \in Game, NEW l \in Game, OnLine(l),
           Descends(g, l), NEW m \in LegalSet(g.path)
    PROVE  /\ After(g, m) \in Game /\ Descends(After(g, m), l)
           /\ After(g, m).path = Append(g.path, m)
           /\ Len(l.path) < Len(After(g, m).path)
           /\ After(g, m).path[Len(l.path) + 1] \in LegalSet(l.path)
<1> DEFINE n == After(g, m)
<1>1. g.path \in Seq(Moves) /\ l.path \in Seq(Moves) /\ m \in Moves
  BY LegalSetType DEF Game
<1>2. n \in Game
  BY <1>1, MovesType, AfterType
<1>3. n.path = Append(g.path, m) /\ n.history = n.path /\ n.moves = Len(n.path)
  BY <1>1 DEF After, Descends, OnLine
<1>4. Len(n.path) = Len(g.path) + 1 /\ n.path[Len(g.path) + 1] = m
      /\ \A i \in 1..Len(g.path) : n.path[i] = g.path[i]
  BY <1>1, <1>3
<1>5. Extending(l.path, n.path) /\ Len(l.path) < Len(n.path)
  BY <1>1, <1>4 DEF Descends, Extending
<1>6. n.path[Len(l.path) + 1] \in LegalSet(l.path)
  <2>1. CASE Len(g.path) > Len(l.path)
    BY <1>1, <1>4, <2>1 DEF Descends
  <2>2. CASE Len(g.path) = Len(l.path)
    <3>1. g.path = l.path
      BY <1>1, <2>2, SeqEqual DEF Descends, Extending
    <3> QED
      BY <1>4, <2>2, <3>1
  <2> QED
    BY <1>1, <2>1, <2>2 DEF Descends, Extending
<1> QED
  BY <1>2, <1>3, <1>5, <1>6 DEF Descends, OnLine

(* The position a thread is about to evaluate, and its place in the tree.  *)
LEMMA NewGameDescends ==
    ASSUME WellFormed, TypeOK, Underway, Lineage,
           NEW w \in Workers, at[w] = "evaluate"
    PROVE  LET g == NewGame(w) IN
           /\ g \in Game /\ Descends(g, live)
           /\ g.path = Append(next[w].path, Head(todo[w]))
           /\ InHistory(w, g) /\ FirstMove(w, g) = g.path[Len(live.path) + 1]
           /\ FirstMove(w, g) \in LegalSet(live.path)
<1> DEFINE g == NewGame(w)
<1>1. /\ next[w] \in Game /\ live \in Game /\ todo[w] \in Seq(Moves)
      /\ todo[w] # <<>> /\ depth[w] = live.moves
      /\ Descends(next[w], live) /\ OnLine(live)
      /\ \A i \in 1..Len(todo[w]) : todo[w][i] \in LegalSet(next[w].path)
  BY DEF TypeOK, Underway, Lineage
<1>2. Head(todo[w]) \in LegalSet(next[w].path)
  BY <1>1
<1>3. /\ g \in Game /\ Descends(g, live)
      /\ g.path = Append(next[w].path, Head(todo[w]))
      /\ Len(live.path) < Len(g.path)
      /\ g.path[Len(live.path) + 1] \in LegalSet(live.path)
  BY <1>1, <1>2, AfterDescends DEF NewGame
<1>4. depth[w] = Len(live.path) /\ g.history = g.path
  BY <1>1, <1>3 DEF OnLine, Descends
<1>5. Len(live.path) \in Nat /\ Len(g.path) \in Nat
  BY <1>1, <1>3 DEF Game
<1>6. InHistory(w, g) /\ FirstMove(w, g) = g.path[Len(live.path) + 1]
  <2> HIDE DEF g
  <2> QED
    BY <1>3, <1>4, <1>5 DEF InHistory, FirstMove
<1> QED
  BY <1>3, <1>6

LEMMA GameInit == Init /\ MovesLoaded = {0} => GameInv
<1> SUFFICES ASSUME Init, MovesLoaded = {0} PROVE GameInv
  OBVIOUS
<1>1. live.path = <<>> /\ live.history = <<>> /\ live.moves = 0
  BY DEF Init
<1> QED
  BY <1>1 DEF Init, GameInv, Lineage, OnLine, BestIsLegal

LEMMA GameNext ==
    ASSUME WellFormed, TypeOK, Underway, StopInv, GameInv, [Next]_vars
    PROVE  GameInv'
<1> USE SearcherAssumption DEF GameInv, Lineage, BestIsLegal
<1>1. CASE ClearDone
  BY <1>1 DEF ClearDone, locals, driver
<1>2. CASE ResetBest
  <2>1. Lineage'
    BY <1>2, ResetType DEF locals, driver
  <2>2. /\ main \in {"listen", "spinning"} /\ main' = main /\ msg' = msg
        /\ live' = live
    BY <1>2, ResetType DEF Resetting, driver, StopInv, LaunchedAlone
  <2>3. CASE ResetRow
    BY <2>1, <2>2, <2>3 DEF ResetRow, ResetField, TypeOK, AnyMove
  <2>4. CASE ResetCol
    BY <2>1, <2>2, <2>4 DEF ResetCol, ResetField, TypeOK, AnyMove
  <2>5. CASE ResetDirection
    BY <2>1, <2>2, <2>5 DEF ResetDirection, ResetField, TypeOK, AnyMove
  <2>6. CASE ResetScore
    <3>1. bestMove.move \in AnyMove /\ bestMove'.move = bestMove.move
      BY <2>6 DEF ResetScore, ResetField, TypeOK
    <3>2. bestMove'.move = NoMove
      BY <2>6, <3>1, SameMove, MovesType DEF ResetScore, ResetField, NoMove
    <3> QED
      BY <2>1, <2>2, <2>6, <3>2 DEF ResetScore, ResetField
  <2> QED
    BY <1>2, <2>1, <2>3, <2>4, <2>5, <2>6 DEF ResetBest
<1>3. CASE PushRoot
  <2>1. Descends(live, live)
    BY DEF Descends, Extending, TypeOK, Game
  <2>2. states' = Append(states, live) /\ states = <<>> /\ live' = live
    BY <1>3 DEF PushRoot, StopInv, LaunchedAlone, driver
  <2> QED
    BY <1>3, <2>1, <2>2 DEF PushRoot, locals, driver, StopInv, LaunchedAlone,
                            NoThreads
<1>4. ASSUME NEW w \in Workers, Spawn(w)
      PROVE  GameInv'
  BY <1>4 DEF Spawn, Goto, driver, TypeOK
<1>5. ASSUME NEW w \in Workers, Lock(w)
      PROVE  GameInv'
  BY <1>5 DEF Lock, Goto, driver, TypeOK
<1>6. ASSUME NEW w \in Workers, Check(w)
      PROVE  GameInv'
  BY <1>6 DEF Check, Goto, shared, driver, TypeOK
<1>7. ASSUME NEW w \in Workers, Wait(w)
      PROVE  GameInv'
  BY <1>7 DEF Wait, Goto, driver, TypeOK
<1>8. ASSUME NEW w \in Workers, WakeSpuriously(w)
      PROVE  GameInv'
  BY <1>8 DEF WakeSpuriously, Goto, shared, driver, TypeOK
<1>9. ASSUME NEW w \in Workers, Finish(w)
      PROVE  GameInv'
  BY <1>9 DEF Finish, Goto, driver, TypeOK
<1>10. ASSUME NEW w \in Workers, Take(w)
       PROVE  GameInv'
  <2>1. states \in Seq(Game) /\ states # <<>>
    BY <1>10 DEF Take, TypeOK
  <2>2. Head(states) = states[1] /\ Len(states) >= 1
        /\ Descends(Head(states), live) /\ Head(states) \in Game
    BY <2>1
  <2>3. \A i \in 1..Len(Tail(states)) : Descends(Tail(states)[i], live)
    BY <2>1
  <2>4. \A i \in 1..Len(Legal(Head(states).path)) :
           Legal(Head(states).path)[i] \in LegalSet(Head(states).path)
    BY DEF LegalSet
  <2> QED
    BY <1>10, <2>2, <2>3, <2>4 DEF Take, Goto, driver, TypeOK
<1>11. ASSUME Terminate
       PROVE  GameInv'
  BY <1>11 DEF Terminate, shared
<1>12. ASSUME NEW w \in Workers, Expand(w)
       PROVE  GameInv'
  BY <1>12 DEF Expand, Goto, driver, TypeOK
<1>13. ASSUME NEW w \in Workers, Exhausted(w)
       PROVE  GameInv'
  BY <1>13 DEF Exhausted, Goto, shared, driver, TypeOK
<1>14. ASSUME NEW w \in Workers, Evaluate(w)
       PROVE  GameInv'
  <2> DEFINE g == NewGame(w)
  <2>1. /\ g \in Game /\ Descends(g, live)
        /\ FirstMove(w, g) \in LegalSet(live.path)
    BY <1>14, NewGameDescends DEF Evaluate
  <2>2. /\ states' = Append(states, g)
        /\ bestMove' = IF Better(g)
                       THEN [move |-> FirstMove(w, g), score |-> Score(g.path)]
                       ELSE bestMove
    BY <1>14 DEF Evaluate
  <2> HIDE DEF g
  <2>3. \A i \in 1..Len(states') : Descends(states'[i], live)
    BY <2>1, <2>2 DEF TypeOK
  <2>4. /\ main \notin Reading \cup {"joinTh", "reply"}
        /\ th \notin Resetting
    BY <1>14 DEF Evaluate, StopInv, StoppedInOrder, LaunchedAlone, NoThreads
  <2>5. Lineage'
    BY <1>14, <2>3 DEF Evaluate, Goto, driver, TypeOK
  <2>6. BestIsLegal'
    BY <1>14, <2>1, <2>2, <2>4 DEF Evaluate, driver, Reading, Resetting
  <2> QED
    BY <2>5, <2>6
<1>15. ASSUME NEW w \in Workers, NotifyOne(w)
       PROVE  GameInv'
  <2>1. todo[w] \in Seq(Moves) /\ todo[w] # <<>>
        /\ todo' = [todo EXCEPT ![w] = Tail(@)]
    BY <1>15 DEF NotifyOne, TypeOK, Underway
  <2>2. \A i \in 1..Len(Tail(todo[w])) :
           Tail(todo[w])[i] \in LegalSet(next[w].path)
    BY <1>15, <2>1 DEF NotifyOne
  <2>3. \A v \in Workers : v # w => todo'[v] = todo[v]
    BY <2>1 DEF TypeOK
  <2>4. todo'[w] = Tail(todo[w])
    BY <2>1 DEF TypeOK
  <2>5. \A v \in Workers : at'[v] = at[v] \/ (at[v] = "sleep" /\ at'[v] = "lock")
                           \/ (v = w /\ at'[v] = "expand")
    BY <1>15 DEF NotifyOne, Goto, Sleepers, TypeOK
  <2> QED
    BY <1>15, <2>2, <2>3, <2>4, <2>5 DEF NotifyOne, shared, driver
<1>16. ASSUME NEW kind \in {"requestmove", "bye"}, Receive(kind)
       PROVE  GameInv'
  BY <1>16 DEF Receive, MainStep, shared, locals
<1>17. CASE HangUp
  BY <1>17 DEF HangUp, shared, locals
<1>18. CASE SetDone
  BY <1>18 DEF SetDone, MainStep, locals
<1>19. CASE NotifyAll
  BY <1>19 DEF NotifyAll, Sleepers, MainStep, shared, TypeOK
<1>20. CASE Join
  BY <1>20 DEF Join, MainStep, shared, locals
<1>21. CASE Clear
  BY <1>21 DEF Clear, MainStep, TypeOK
<1>22. CASE ResetDone
  BY <1>22 DEF ResetDone, MainStep, locals
<1>23. CASE Drain \/ Drained \/ ReadBest
  <2>1. CASE Drain
    <3>1. \A i \in 1..Len(states') : Descends(states'[i], live)
      BY <2>1 DEF Drain, TypeOK
    <3> QED
      BY <2>1, <3>1 DEF Drain, MainStep, locals
  <2>2. CASE Drained
    BY <2>2 DEF Drained, MainStep, shared, locals
  <2>3. CASE ReadBest
    <3>1. Lineage' /\ main \in Reading /\ main' \in Reading \cup {"joinTh"}
          /\ bestMove' = bestMove /\ th' = th /\ msg' = msg /\ live' = live
      BY <2>3, ReadType DEF shared, locals
    <3>2. bestMove.move \in AnyMove /\ answer \in AnyMove /\ answer' \in AnyMove
      BY <2>3, ReadType DEF TypeOK
    <3>3. CASE ReadRow
      BY <3>1, <3>2, <3>3 DEF ReadRow, ReadField, MainStep, AnyMove
    <3>4. CASE ReadCol
      BY <3>1, <3>2, <3>4 DEF ReadCol, ReadField, MainStep, AnyMove
    <3>5. CASE ReadDirection
      <4>1. answer' = bestMove.move
        <5>1. /\ answer'.row = bestMove.move.row
              /\ answer'.col = bestMove.move.col
              /\ answer'.direction = bestMove.move.direction
          BY <3>2, <3>5 DEF ReadDirection, ReadField, MainStep, AnyMove
        <5> QED
          BY <3>2, <5>1, SameMove
      <4> QED
        BY <3>1, <3>5, <4>1 DEF ReadDirection, ReadField, MainStep
    <3> QED
      BY <2>3, <3>3, <3>4, <3>5 DEF ReadBest
  <2> QED
    BY <1>23, <2>1, <2>2, <2>3
<1>24. CASE JoinLauncher
  BY <1>24 DEF JoinLauncher, MainStep, shared, locals, TypeOK
<1>25. CASE Reply
  <2>1. /\ NoThreads /\ states = <<>> /\ th = "ended"
        /\ answer \in LegalSet(live.path) /\ live \in Game
    BY <1>25 DEF Reply, MainStep, StopInv, StoppedInOrder, LaunchedAlone,
                 Underway, TypeOK, NoMove
  <2>2. OnLine(live')
    BY <1>25, <2>1, LegalSetType DEF Reply, After, OnLine, Game
  <2> QED
    BY <1>25, <2>1, <2>2 DEF Reply, MainStep, locals, NoThreads
<1>26. CASE ReceiveNothing
  BY <1>26 DEF ReceiveNothing, MainStep, shared, locals
<1>27. CASE UNCHANGED vars
  BY <1>27 DEF vars, shared, locals, driver
<1> QED
  BY <1>1, <1>2, <1>3, <1>4, <1>5, <1>6, <1>7, <1>8, <1>9, <1>10, <1>11,
     <1>12, <1>13, <1>14, <1>15, <1>16, <1>17, <1>18, <1>19, <1>20, <1>21,
     <1>22, <1>23, <1>24, <1>25, <1>26, <1>27
     DEF Next, Launcher, Run, Main, TakeNothing, EvaluateOutOfRange,
         ClearUnjoined, ConnectionFails

-----------------------------------------------------------------------------
(* What the code assumes: a server that waits for GetBestMove, a game read *)
(* with its number of moves.                                               *)
Sound == WellFormed /\ Paced /\ MovesLoaded = {0}

SafeInv == TypeOK /\ Underway /\ StopInv /\ GameInv /\ NeverTerminated

(* The exceptions a thread could throw are out of reach.                   *)
LEMMA NoThreadThrows ==
    ASSUME WellFormed, SafeInv
    PROVE  /\ \A w \in Workers : ~TakeNothing(w) /\ ~EvaluateOutOfRange(w)
           /\ ~ClearUnjoined
<1>1. ASSUME NEW w \in Workers PROVE ~TakeNothing(w)
  BY DEF SafeInv, StopInv, SomethingToTake, TakeNothing
<1>2. ASSUME NEW w \in Workers PROVE ~EvaluateOutOfRange(w)
  <2>1. CASE at[w] = "evaluate"
    BY <2>1, NewGameDescends DEF SafeInv, GameInv, EvaluateOutOfRange
  <2> QED
    BY <2>1 DEF EvaluateOutOfRange
<1>3. ~ClearUnjoined
  BY DEF SafeInv, StopInv, StoppedInOrder, ClearUnjoined
<1> QED
  BY <1>1, <1>2, <1>3

LEMMA TerminatedNext ==
    ASSUME WellFormed, SafeInv, [Next]_vars
    PROVE  NeverTerminated'
<1>1. CASE ConnectionFails
  BY <1>1 DEF ConnectionFails, Terminate, SafeInv, NeverTerminated
<1>2. CASE UNCHANGED <<main, server>>
  BY <1>2 DEF SafeInv, NeverTerminated
<1>3. CASE HangUp
  BY <1>3 DEF HangUp, NeverTerminated
<1>4. CASE \E kind \in {"requestmove", "bye"} : Receive(kind)
  BY <1>4 DEF Receive, MainStep, NeverTerminated
<1>5. CASE Main /\ ~ConnectionFails
  BY <1>5, NoThreadThrows
     DEF Main, MainStep, ReceiveNothing, SetDone, NotifyAll, Join, Clear,
         ResetDone, Drain, Drained, ReadBest, ReadRow, ReadCol,
         ReadDirection, ReadField, JoinLauncher, Reply, NeverTerminated
<1> QED
  BY <1>1, <1>2, <1>3, <1>4, <1>5, NoThreadThrows
     DEF Next, vars, driver, Launcher, Run, ClearDone, ResetBest, ResetRow,
         ResetCol, ResetDirection, ResetScore, ResetField, PushRoot, Spawn, Lock, Check, Wait, WakeSpuriously, Finish, Take, Expand,
         Exhausted, Evaluate, NotifyOne

LEMMA SafeInit == Init /\ MovesLoaded = {0} => SafeInv
BY TypeInit, StopInit, GameInit DEF SafeInv, Init, NeverTerminated

LEMMA SafeNext ==
    ASSUME Sound, SafeInv, [Next]_vars
    PROVE  SafeInv'
BY TypeNext, StopNext, GameNext, TerminatedNext DEF SafeInv, Sound

LEMMA SafeAlways == Sound => (Spec => []SafeInv)
<1> SUFFICES ASSUME Sound PROVE Spec => []SafeInv
  OBVIOUS
<1>1. Init => SafeInv
  BY SafeInit DEF Sound
<1>2. SafeInv /\ [Next]_vars => SafeInv'
  BY SafeNext
<1> QED
  BY <1>1, <1>2, PTL DEF Spec

(* No thread of the search ends the program, for any number of threads:    *)
(* none reads the front of an empty queue or a history that is too short,  *)
(* and the vector is cleared of threads that were joined.                  *)
THEOREM NoneTerminated == Sound => (Spec => []NeverTerminated)
<1>1. SafeInv => NeverTerminated
  BY DEF SafeInv
<1> QED
  BY <1>1, SafeAlways, PTL

(* When setDone has returned, the search has left nothing behind.          *)
THEOREM NothingLeftBehind == Sound => (Spec => []SearchIsOver)
<1>1. SafeInv => SearchIsOver
  BY SearcherAssumption
     DEF SafeInv, TypeOK, StopInv, StoppedInOrder, MutexHeld, NoThreads,
         SearchIsOver
<1> QED
  BY <1>1, SafeAlways, PTL

LEMMA ExtendingIsPrefix ==
    ASSUME NEW p \in Seq(Moves), NEW q \in Seq(Moves), Extending(p, q)
    PROVE  IsPrefix(p, q)
<1> DEFINE s == SubSeq(q, 1, Len(p))
<1>1. Len(p) \in Nat /\ Len(p) <= Len(q) /\ \A i \in 1..Len(p) : q[i] \in Moves
  BY ElementOfSeq DEF Extending
<1>2. s \in Seq(Moves) /\ Len(s) = Len(p) /\ \A i \in 1..Len(p) : s[i] = q[i]
  BY <1>1, SubSeqProperties
<1>3. SubSeq(p, 1, Len(p)) = p
  BY SubSeqFull
<1> HIDE DEF s
<1>4. s = p
  BY <1>2, SeqEqual DEF Extending
<1> QED
  BY <1>1, <1>3, <1>4 DEF IsPrefix, s

(* Every position in the queue descends from the live game: none is left   *)
(* from the search before the last answer.                                 *)
THEOREM QueueIsLive == Sound => (Spec => []QueueExtendsLiveGame)
<1>1. ASSUME SafeInv, NEW i \in 1..Len(states)
      PROVE  IsPrefix(live.path, states[i].path)
  <2>1. live \in Game /\ states[i] \in Game
    BY <1>1 DEF SafeInv, TypeOK
  <2>2. live.path \in Seq(Moves) /\ states[i].path \in Seq(Moves)
    BY <2>1 DEF Game
  <2>3. Extending(live.path, states[i].path)
    BY <1>1 DEF SafeInv, GameInv, Lineage, Descends
  <2> QED
    BY <2>2, <2>3, ExtendingIsPrefix
<1>2. SafeInv => QueueExtendsLiveGame
  BY <1>1 DEF QueueExtendsLiveGame
<1> QED
  BY <1>2, SafeAlways, PTL

-----------------------------------------------------------------------------
(* The best position.                                                      *)

(* Every board scores more than bestMove starts from.                      *)
WorstIsWorst == \A p \in Seq(Moves) : Score(p) > Worst

(* BestIsBestSeen, and the score a search starts from stays until there is *)
(* a position to compare with.                                             *)
BestInv ==
    /\ BestIsBestSeen
    /\ main # "terminated" /\ th \in {"push", "spawn", "ended"} /\ seen = {} =>
          bestMove.score = Worst

LEMMA BestInit == Init => BestInv
BY DEF Init, BestInv, BestIsBestSeen

LEMMA BestNext ==
    ASSUME Sound, WorstIsWorst, SafeInv, BestInv, [Next]_vars
    PROVE  BestInv'
<1>1. ASSUME NEW w \in Workers, Evaluate(w)
      PROVE  BestInv'
  <2> DEFINE g == NewGame(w)
  <2>1. /\ g \in Game /\ FirstMove(w, g) = g.path[Len(live.path) + 1]
        /\ Score(g.path) \in Int /\ Score(g.path) > Worst
        /\ bestMove.score \in Int /\ \A p \in seen : Score(p) \in Int
    BY <1>1, NewGameDescends
       DEF SafeInv, GameInv, Sound, WellFormed, WorstIsWorst, Evaluate, Game,
           TypeOK
  <2>2. /\ main # "terminated" /\ th \in {"push", "spawn", "ended"}
        /\ main' = main /\ th' = th /\ live' = live
        /\ seen' = seen \cup {g.path}
        /\ bestMove' = IF Better(g)
                       THEN [move |-> FirstMove(w, g), score |-> Score(g.path)]
                       ELSE bestMove
    BY <1>1 DEF SafeInv, TypeOK, StopInv, StoppedInOrder, LaunchedAlone,
                NoThreads, Resetting, Evaluate, driver
  <2> HIDE DEF g
  <2>3. CASE Better(g)
    BY <2>1, <2>2, <2>3 DEF BestInv, BestIsBestSeen, Better
  <2>4. CASE ~Better(g)
    <3>1. seen # {} /\ Score(g.path) <= bestMove.score /\ bestMove' = bestMove
      BY <2>1, <2>2, <2>4 DEF BestInv, Better
    <3> QED
      BY <2>2, <3>1 DEF BestInv, BestIsBestSeen
  <2> QED
    BY <2>3, <2>4
<1>2. CASE ResetBest
  <2>1. CASE ResetScore
    <3>1. seen' = {} /\ bestMove' = [bestMove EXCEPT !.score = Worst]
          /\ th' = "push"
      BY <2>1 DEF ResetScore, ResetField
    <3>2. bestMove'.score = Worst /\ bestMove' \in [move: AnyMove, score: Int]
          /\ bestMove'.move = bestMove.move /\ bestMove.move \in AnyMove
      BY <1>2, <3>1, ResetType DEF SafeInv, TypeOK
    <3>3. bestMove.move = NoMove
      BY <2>1, <3>2, SameMove, MovesType
         DEF ResetScore, ResetField, SafeInv, GameInv, BestIsLegal, NoMove
    <3> QED
      BY <3>1, <3>2, <3>3 DEF BestInv, BestIsBestSeen
  <2>2. CASE ~ResetScore
    BY <1>2, <2>2 DEF ResetBest, ResetRow, ResetCol, ResetDirection, ResetField,
                      BestInv, BestIsBestSeen
  <2> QED
    BY <2>1, <2>2
<1>3. CASE \/ main' = "terminated" \/ th' \in Resetting
  BY <1>3 DEF BestInv, BestIsBestSeen, Resetting
<1>4. CASE /\ UNCHANGED <<bestMove, seen, live>>
           /\ main = "terminated" => main' = "terminated"
           /\ th' \in {"push", "spawn", "ended"} =>
                 th \in {"push", "spawn", "ended"}
  BY <1>4 DEF BestInv, BestIsBestSeen
<1>5. CASE Launcher
  BY <1>2, <1>3, <1>4, <1>5
     DEF Launcher, ClearDone, PushRoot, Spawn, driver, Resetting
<1>6. ASSUME NEW w \in Workers, Run(w) \/ WakeSpuriously(w)
      PROVE  BestInv'
  BY <1>1, <1>3, <1>4, <1>6
     DEF Run, WakeSpuriously, Lock, Check, Wait, Finish, Take, TakeNothing,
         Terminate, Expand, Exhausted, EvaluateOutOfRange, NotifyOne, shared,
         driver
<1>7. CASE Main \/ HangUp \/ \E kind \in {"requestmove", "bye"} : Receive(kind)
  BY <1>3, <1>4, <1>7
     DEF Main, MainStep, Receive, HangUp, ReceiveNothing, ConnectionFails,
         SetDone, NotifyAll, Join, Clear, ClearUnjoined, ResetDone, Drain,
         Drained, ReadBest, ReadRow, ReadCol, ReadDirection, ReadField,
         JoinLauncher, Reply, Terminate, shared, Resetting
<1>8. CASE UNCHANGED vars
  BY <1>4, <1>8 DEF vars, shared, driver
<1> QED
  BY <1>5, <1>6, <1>7, <1>8 DEF Next

(* However the threads interleave, bestMove is at any moment of a search   *)
(* the first move of a best position evaluated so far.                     *)
THEOREM BestIsBest == Sound /\ WorstIsWorst => (Spec => []BestIsBestSeen)
<1> SUFFICES ASSUME Sound, WorstIsWorst PROVE Spec => []BestIsBestSeen
  OBVIOUS
<1>1. Init => BestInv
  BY BestInit
<1>2. SafeInv /\ BestInv /\ [Next]_vars => BestInv'
  BY BestNext
<1>3. BestInv => BestIsBestSeen
  BY DEF BestInv
<1> QED
  BY <1>1, <1>2, <1>3, SafeAlways, PTL DEF Spec

-----------------------------------------------------------------------------
(* What the report counts.                                                 *)

(* GenerateMoves returns no move twice: it tries each cell and each        *)
(* direction once.                                                         *)
NoRepeats ==
    \A p \in Seq(Moves) : \A i, j \in 1..Len(Legal(p)) :
        Legal(p)[i] = Legal(p)[j] => i = j

LEMMA Child ==
    ASSUME NEW p \in Seq(Moves), NEW m \in Moves
    PROVE  LET q == Append(p, m) IN
           q \in Seq(Moves) /\ Front(q) = p /\ Last(q) = m /\ Len(q) = Len(p) + 1
<1> DEFINE q == Append(p, m)
<1>1. /\ q \in Seq(Moves) /\ Len(q) = Len(p) + 1 /\ q[Len(q)] = m
      /\ \A i \in 1..Len(p) : q[i] = p[i]
  OBVIOUS
<1>2. Front(q) = SubSeq(q, 1, Len(p)) /\ Last(q) = m
  BY <1>1 DEF Front, Last
<1> DEFINE s == SubSeq(q, 1, Len(p))
<1>3. \A i \in 1..Len(p) : q[i] \in Moves
  BY <1>1, ElementOfSeq
<1>4. s \in Seq(Moves) /\ Len(s) = Len(p) /\ \A i \in 1..Len(p) : s[i] = q[i]
  <2> HIDE DEF q
  <2>1. Len(p) \in Nat
    OBVIOUS
  <2> QED
    BY <1>3, <2>1, SubSeqProperties
<1>5. s = p
  <2> HIDE DEF s, q
  <2> QED
    BY <1>1, <1>4, SeqEqual
<1> QED
  BY <1>1, <1>2, <1>5

(* Steps that evaluate nothing and take nothing keep TreeOnce. *)
LEMMA TreeFrame ==
    ASSUME TreeOnce, UNCHANGED <<seen, live, next, todo>>,
           states' = states,
           \A w \in Workers :
              InLoop(w)' => InLoop(w) /\ (at'[w] = "notify" <=> at[w] = "notify")
    PROVE  TreeOnce'
<1>1. states' = states
  OBVIOUS
<1>2. \A p : (Known(p)' <=> Known(p)) /\ (Untouched(p)' <=> Untouched(p))
  BY DEF Known, Untouched
<1>3. SeenBelow'
  BY <1>2 DEF TreeOnce, SeenBelow
<1>4. QueueOnce'
  BY <1>1, <1>2 DEF TreeOnce, QueueOnce
<1>5. ASSUME NEW w \in Workers, InLoop(w)'
      PROVE  LoopOnce(w)'
  <2>1. LoopOnce(w) /\ Left(w)' = Left(w)
    BY <1>5 DEF TreeOnce, Left
  <2>2. Known(next[w].path)'
    BY <1>2, <2>1 DEF LoopOnce
  <2> QED
    BY <1>1, <2>1, <2>2 DEF LoopOnce
<1> QED
  BY <1>3, <1>4, <1>5 DEF TreeOnce

(* The position that is evaluated is a new one, and so are those after it. *)
LEMMA TreeEvaluate ==
    ASSUME WellFormed, SafeInv, TreeOnce, NEW w \in Workers, Evaluate(w)
    PROVE  /\ NewGame(w).path \notin seen /\ seen' = seen \cup {NewGame(w).path}
           /\ TreeOnce'
<1> DEFINE g == NewGame(w)
           q == g.path
           p == next[w].path
           m == Head(todo[w])
<1>1. /\ at[w] = "evaluate" /\ at' = [at EXCEPT ![w] = "notify"]
      /\ states' = Append(states, g) /\ seen' = seen \cup {q}
      /\ UNCHANGED <<next, todo, live>>
  BY DEF Evaluate, Goto, driver
<1>2. /\ at \in [Workers -> {"none", "lock", "check", "wait", "sleep",
                        "decide", "expand", "evaluate", "notify", "ended"}]
      /\ states \in Seq(Game) /\ todo[w] \in Seq(Moves) /\ todo[w] # <<>>
      /\ next[w] \in Game /\ live \in Game /\ g \in Game /\ q = Append(p, m)
      /\ seen \subseteq Seq(Moves) /\ Len(p) >= Len(live.path)
  BY <1>1, NewGameDescends
     DEF SafeInv, TypeOK, Underway, GameInv, Lineage, Descends, Extending
<1>3. m = todo[w][1] /\ m \in Moves /\ p \in Seq(Moves) /\ live.path \in Seq(Moves)
  BY <1>2 DEF Game
<1> HIDE DEF g, p, m
<1>4. q \in Seq(Moves) /\ Front(q) = p /\ Last(q) = m /\ Len(q) = Len(p) + 1
  BY <1>2, <1>3, Child
<1> HIDE DEF q
<1>5. InLoop(w) /\ LoopOnce(w) /\ Left(w) = 1..Len(todo[w])
  BY <1>1 DEF InLoop, TreeOnce, Left
<1>6. q \notin seen
  <2>1. 1 \in Left(w)
    BY <1>2, <1>5
  <2> QED
    BY <1>3, <1>4, <1>5, <2>1 DEF LoopOnce, p
<1>7. q # live.path /\ ~Known(q)
  BY <1>2, <1>3, <1>4, <1>6 DEF Known
<1>8. \A r : (Known(r) => Known(r)') /\ (Known(r) => r # q)
  BY <1>1, <1>7 DEF Known
<1>9. \A r : r = q => Untouched(r)'
  <2>1. q \in seen'
    BY <1>1
  <2>2. ASSUME NEW r \in seen' PROVE Front(r) # q
    <3>1. CASE r = q
      BY <1>3, <1>4, <3>1
    <3>2. CASE r \in seen
      BY <1>8, <3>2 DEF TreeOnce, SeenBelow
    <3> QED
      BY <1>1, <3>1, <3>2
  <2> QED
    BY <2>1, <2>2 DEF Untouched, Known
<1>10. SeenBelow'
  <2>1. Known(p)
    BY <1>5 DEF LoopOnce, p
  <2>2. Len(q) > Len(live.path)
    BY <1>2, <1>3, <1>4
  <2>3. ASSUME NEW r \in seen'
        PROVE  Len(r) > Len(live.path) /\ Known(Front(r))
    BY <1>1, <1>4, <2>1, <2>2, <2>3 DEF TreeOnce, SeenBelow
  <2> QED
    BY <1>1, <1>8, <2>3 DEF SeenBelow
<1>11. QueueOnce'
  <2>1. \A i \in 1..Len(states) : Untouched(states[i].path)' /\ states[i].path # q
    BY <1>1, <1>4, <1>5, <1>8
       DEF Untouched, TreeOnce, QueueOnce, LoopOnce, p
  <2>2. /\ Len(states') = Len(states) + 1 /\ states'[Len(states) + 1] = g
        /\ \A i \in 1..Len(states) : states'[i] = states[i]
    BY <1>1, <1>2
  <2>3. \A i, j \in 1..Len(states) : states[i].path = states[j].path => i = j
    BY DEF TreeOnce, QueueOnce
  <2>4. Len(states) \in Nat
    BY <1>2
  <2>5. ASSUME NEW i \in 1..Len(states')
        PROVE  /\ Untouched(states[i].path)'
               /\ \A j \in 1..Len(states') :
                     states'[i].path = states'[j].path => i = j
    <3>1. CASE i \in 1..Len(states)
      BY <2>1, <2>2, <2>3, <2>4, <3>1 DEF q
    <3>2. CASE i = Len(states) + 1
      BY <1>9, <2>1, <2>2, <2>4, <3>2 DEF q
    <3> QED
      BY <2>2, <2>4, <3>1, <3>2
  <2> QED
    BY <2>5 DEF QueueOnce
<1>12. ASSUME NEW v \in Workers, InLoop(v)'
       PROVE  LoopOnce(v)'
  <2>1. InLoop(v) /\ LoopOnce(v) /\ Known(next[v].path)'
    BY <1>1, <1>2, <1>5, <1>8, <1>12 DEF InLoop, TreeOnce, LoopOnce
  <2>2. ASSUME NEW r \in seen', Front(r) = next[v].path, NEW i \in Left(v)'
        PROVE  Last(r) # todo[v][i]
    <3>1. CASE v # w /\ r = q
      BY <1>4, <1>5, <2>1, <2>2, <3>1 DEF LoopOnce, p
    <3>2. CASE v = w /\ r = q
      BY <1>1, <1>2, <1>3, <1>4, <2>1, <2>2, <3>2 DEF Left, LoopOnce
    <3>3. CASE r \in seen
      BY <1>1, <1>2, <1>5, <2>1, <2>2, <3>3 DEF Left, LoopOnce
    <3> QED
      BY <1>1, <3>1, <3>2, <3>3
  <2>3. \A i \in 1..Len(states') : states'[i].path # next[v].path
    <3>1. Known(next[v].path) /\ Len(states) \in Nat
      BY <1>2, <2>1 DEF LoopOnce
    <3>2. states'[Len(states) + 1].path = q /\ Len(states') = Len(states) + 1
          /\ \A i \in 1..Len(states) : states'[i] = states[i]
      BY <1>1, <1>2 DEF q
    <3> QED
      BY <1>8, <2>1, <3>1, <3>2 DEF LoopOnce
  <2>4. \A u \in Workers : InLoop(u)' => InLoop(u)
    BY <1>1, <1>2, <1>5 DEF InLoop
  <2> QED
    BY <1>1, <2>1, <2>2, <2>3, <2>4 DEF LoopOnce
<1> QED
  BY <1>1, <1>6, <1>10, <1>11, <1>12 DEF TreeOnce, q, g

(* The position a thread takes leaves the queue for its loop. *)
LEMMA TreeTake ==
    ASSUME WellFormed, NoRepeats, TypeOK, TreeOnce, NEW w \in Workers, Take(w)
    PROVE  TreeOnce'
<1> DEFINE h == Head(states)
<1>1. /\ states # <<>> /\ states' = Tail(states) /\ at[w] = "decide"
      /\ at' = [at EXCEPT ![w] = "expand"]
      /\ next' = [next EXCEPT ![w] = h]
      /\ todo' = [todo EXCEPT ![w] = Legal(h.path)]
      /\ UNCHANGED <<seen, live>>
  BY DEF Take, Goto, driver
<1>2. /\ states \in Seq(Game) /\ Len(states) \in Nat /\ h = states[1]
      /\ Len(states) >= 1 /\ h.path \in Seq(Moves)
      /\ Len(states') = Len(states) - 1
      /\ \A i \in 1..Len(states') : states'[i] = states[i + 1]
  <2>1. states \in Seq(Game) /\ h = states[1] /\ Len(states) \in Nat
        /\ Len(states) >= 1
    BY <1>1 DEF TypeOK
  <2>2. h \in Game
    BY <2>1, ElementOfSeq
  <2>3. /\ Len(states') = Len(states) - 1
        /\ \A i \in 1..Len(states') : states'[i] = states[i + 1]
    BY <1>1, <2>1
  <2> QED
    BY <2>1, <2>2, <2>3 DEF Game
<1>3. /\ at'[w] = "expand" /\ next'[w] = h /\ todo'[w] = Legal(h.path)
      /\ ~InLoop(w)
      /\ \A v \in Workers : v # w =>
            at'[v] = at[v] /\ next'[v] = next[v] /\ todo'[v] = todo[v]
  BY <1>1 DEF TypeOK, InLoop
<1> HIDE DEF h
<1>4. \A r : (Known(r)' <=> Known(r)) /\ (Untouched(r)' <=> Untouched(r))
  BY <1>1 DEF Known, Untouched
<1>5. /\ 1 \in 1..Len(states) /\ Untouched(h.path)
      /\ \A i \in 1..Len(states') :
            i + 1 \in 1..Len(states) /\ states'[i].path # h.path
  BY <1>2 DEF TreeOnce, QueueOnce
<1>6. SeenBelow'
  BY <1>1, <1>4 DEF TreeOnce, SeenBelow
<1>7. QueueOnce'
  <2>1. ASSUME NEW i \in 1..Len(states')
        PROVE  /\ states'[i] = states[i + 1] /\ i + 1 \in 1..Len(states)
               /\ Untouched(states[i + 1].path)
    BY <1>2, <1>5, <2>1 DEF TreeOnce, QueueOnce
  <2>2. ASSUME NEW i \in 1..Len(states'), NEW j \in 1..Len(states'),
               states'[i].path = states'[j].path
        PROVE  i = j
    <3>1. i + 1 = j + 1
      BY <2>1, <2>2 DEF TreeOnce, QueueOnce
    <3> QED
      BY <1>2, <3>1
  <2>3. ASSUME NEW i \in 1..Len(states')
        PROVE  Untouched(states[i].path)'
    BY <1>4, <2>1, <2>3
  <2> QED
    BY <2>2, <2>3 DEF QueueOnce
<1>8. LoopOnce(w)'
  <2>1. Known(next[w].path)'
    BY <1>3, <1>4, <1>5 DEF Untouched
  <2>2. \A q \in seen' : Front(q) # next'[w].path
    BY <1>1, <1>3, <1>5 DEF Untouched
  <2>3. \A i, j \in 1..Len(todo'[w]) : todo'[w][i] = todo'[w][j] => i = j
    BY <1>2, <1>3 DEF NoRepeats
  <2>4. \A v \in Workers : v # w /\ InLoop(v) => next[v].path # h.path
    BY <1>2, <1>5 DEF TreeOnce, LoopOnce
  <2>5. \A v \in Workers : InLoop(v)' /\ next'[v].path = next'[w].path => v = w
    BY <1>3, <2>4 DEF InLoop
  <2> QED
    BY <1>3, <1>5, <2>1, <2>2, <2>3, <2>5 DEF LoopOnce
<1>9. ASSUME NEW v \in Workers, v # w, InLoop(v)'
      PROVE  LoopOnce(v)'
  <2>1. InLoop(v) /\ LoopOnce(v) /\ Left(v)' = Left(v)
    BY <1>3, <1>9 DEF InLoop, TreeOnce, Left
  <2>2. Known(next[v].path)'
    BY <1>3, <1>4, <1>9, <2>1 DEF LoopOnce
  <2>3. \A i \in 1..Len(states') : states'[i].path # next'[v].path
    BY <1>2, <1>3, <1>5, <1>9, <2>1 DEF LoopOnce
  <2>4. \A u \in Workers : InLoop(u)' /\ next'[u].path = next'[v].path => u = v
    BY <1>2, <1>3, <1>5, <1>9, <2>1 DEF LoopOnce, InLoop
  <2> QED
    BY <1>1, <1>3, <1>9, <2>1, <2>2, <2>3, <2>4 DEF LoopOnce
<1> QED
  BY <1>6, <1>7, <1>8, <1>9 DEF TreeOnce

(* The move that was evaluated is no longer to be done.                    *)
LEMMA TreeNotify ==
    ASSUME TypeOK, Underway, TreeOnce, NEW w \in Workers, NotifyOne(w)
    PROVE  TreeOnce'
<1>1. /\ at[w] = "notify" /\ at'[w] = "expand" /\ todo[w] \in Seq(Moves)
      /\ todo[w] # <<>> /\ todo'[w] = Tail(todo[w])
      /\ \A v \in Workers : v # w =>
            /\ todo'[v] = todo[v]
            /\ at'[v] = at[v] \/ (at[v] = "sleep" /\ at'[v] = "lock")
      /\ UNCHANGED <<seen, live, next, states>>
  BY DEF NotifyOne, Goto, Sleepers, TypeOK, Underway, shared, driver
<1>2. \A r : (Known(r)' <=> Known(r)) /\ (Untouched(r)' <=> Untouched(r))
  BY <1>1 DEF Known, Untouched
<1>3. SeenBelow' /\ QueueOnce'
  BY <1>1, <1>2 DEF TreeOnce, SeenBelow, QueueOnce
<1>4. \A v \in Workers : InLoop(v)' => InLoop(v) /\ LoopOnce(v)
  BY <1>1 DEF InLoop, TreeOnce
<1>5. LoopOnce(w)'
  <2>1. InLoop(w) /\ LoopOnce(w) /\ Left(w) = 2..Len(todo[w])
    BY <1>1 DEF InLoop, TreeOnce, Left
  <2>2. /\ Left(w)' = 1..Len(todo'[w])
        /\ \A i \in 1..Len(todo'[w]) :
              i + 1 \in 2..Len(todo[w]) /\ todo'[w][i] = todo[w][i + 1]
    BY <1>1 DEF Left
  <2>3. \A i, j \in 1..Len(todo'[w]) : todo'[w][i] = todo'[w][j] => i = j
    BY <1>1, <2>1, <2>2 DEF LoopOnce
  <2>4. Known(next[w].path)'
    BY <1>1, <1>2, <2>1 DEF LoopOnce
  <2> QED
    BY <1>1, <1>4, <2>1, <2>2, <2>3, <2>4 DEF LoopOnce
<1>6. ASSUME NEW v \in Workers, v # w, InLoop(v)'
      PROVE  LoopOnce(v)'
  <2>1. LoopOnce(v) /\ Left(v)' = Left(v) /\ todo'[v] = todo[v]
    BY <1>1, <1>4, <1>6 DEF Left, InLoop
  <2>2. Known(next[v].path)'
    BY <1>1, <1>2, <2>1 DEF LoopOnce
  <2> QED
    BY <1>1, <1>4, <2>1, <2>2 DEF LoopOnce
<1> QED
  BY <1>3, <1>5, <1>6 DEF TreeOnce

(* A search starts with the live game alone.                               *)
LEMMA TreeRoot ==
    ASSUME states' = <<live>>, seen' = {}, live' = live, NoThreads, at' = at
    PROVE  TreeOnce'
BY DEF TreeOnce, SeenBelow, QueueOnce, Untouched, Known, NoThreads, InLoop

LEMMA CountInit == Init => CountInv
BY DEF Init, CountInv

(* The steps that neither count nor evaluate. *)
LEMMA CountFrame ==
    ASSUME CountInv,
           UNCHANGED <<seen, live, next, todo, counter>>,
           states' = states,
           main = "terminated" => main' = "terminated",
           th' \in Resetting => th \in Resetting,
           th' = "push" => th = "push",
           th' \in {"spawn", "ended"} => th \in {"push", "spawn", "ended"},
           \A w \in Workers :
              /\ InLoop(w)' =>
                    InLoop(w) /\ (at'[w] = "notify" <=> at[w] = "notify")
              /\ at'[w] = "evaluate" <=> at[w] = "evaluate"
    PROVE  CountInv'
<1>1. Evaluating' = Evaluating
  BY DEF Evaluating
<1>2. TreeOnce => TreeOnce'
  BY TreeFrame
<1> QED
  BY <1>1, <1>2 DEF CountInv

LEMMA CountNext ==
    ASSUME Sound, NoRepeats, IsFiniteSet(Workers), SafeInv, CountInv, [Next]_vars
    PROVE  CountInv'
<1>1. TypeOK /\ Underway /\ WellFormed /\ IsFiniteSet(Evaluating)
  BY FS_Subset DEF SafeInv, Sound, Evaluating
<1>2. NoThreads => Evaluating = {}
  BY DEF NoThreads, Evaluating
<1>3. CASE ResetBest
  <2>1. /\ th' \in Resetting \cup {"push"} /\ counter' = 0 /\ NoThreads
        /\ states' = <<>> /\ at' = at /\ (th' = "push" => seen' = {})
    BY <1>1, <1>3, ResetType
       DEF CountInv, SafeInv, StopInv, LaunchedAlone, locals
  <2>2. seen' = {} => TreeOnce'
    BY <2>1 DEF TreeOnce, SeenBelow, QueueOnce, NoThreads, InLoop
  <2>3. Evaluating' = {}
    BY <2>1 DEF NoThreads, Evaluating
  <2> QED
    BY <2>1, <2>2, <2>3, FS_EmptySet DEF CountInv, Resetting
<1>4. CASE PushRoot
  <2>1. /\ seen' = {} /\ seen = {} /\ counter' = counter /\ th' = "spawn"
        /\ NoThreads /\ states' = <<live>> /\ at' = at /\ live' = live
        /\ main' = main /\ th = "push"
    BY <1>4 DEF PushRoot, CountInv, SafeInv, StopInv, LaunchedAlone, locals,
                driver, TypeOK
  <2>2. TreeOnce'
    BY <2>1, TreeRoot
  <2>3. Evaluating' = Evaluating
    BY <2>1 DEF Evaluating
  <2> QED
    BY <2>1, <2>2, <2>3 DEF CountInv, Resetting
<1>5. ASSUME NEW w \in Workers, Take(w)
      PROVE  CountInv'
  <2>1. TreeOnce => TreeOnce'
    BY <1>1, <1>5, TreeTake
  <2>2. Evaluating' = Evaluating
    BY <1>1, <1>5 DEF Take, Goto, Evaluating, TypeOK
  <2> QED
    BY <1>5, <2>1, <2>2 DEF Take, CountInv, driver
<1>6. ASSUME NEW w \in Workers, NotifyOne(w)
      PROVE  CountInv'
  <2>1. TreeOnce => TreeOnce'
    BY <1>1, <1>6, TreeNotify
  <2>2. Evaluating' = Evaluating
    BY <1>1, <1>6 DEF NotifyOne, Goto, Sleepers, Evaluating, TypeOK
  <2> QED
    BY <1>6, <2>1, <2>2 DEF NotifyOne, CountInv, shared, driver
<1>7. ASSUME NEW w \in Workers, Expand(w)
      PROVE  CountInv'
  <2>1. /\ at[w] = "expand" /\ at' = [at EXCEPT ![w] = "evaluate"]
        /\ counter' = counter + 1
        /\ UNCHANGED <<seen, live, next, todo, states, main, th>>
    BY <1>7 DEF Expand, Goto, driver
  <2>2. TreeOnce => TreeOnce'
    <3>1. \A v \in Workers :
             InLoop(v)' => InLoop(v) /\ (at'[v] = "notify" <=> at[v] = "notify")
      BY <1>1, <2>1 DEF InLoop, TypeOK
    <3> QED
      BY <2>1, <3>1, TreeFrame
  <2>3. Evaluating' = Evaluating \cup {w} /\ w \notin Evaluating
    BY <1>1, <2>1 DEF Evaluating, TypeOK
  <2>4. Cardinality(Evaluating') = Cardinality(Evaluating) + 1
    BY <1>1, <2>3, FS_AddElement
  <2>5. Cardinality(Evaluating) \in Nat
        /\ (IsFiniteSet(seen) => Cardinality(seen) \in Nat)
    BY <1>1, FS_CardinalityType
  <2>6. th \notin Resetting \cup {"push"} /\ counter \in Nat
    BY <1>1, <2>1 DEF SafeInv, StopInv, LaunchedAlone, NoThreads, TypeOK
  <2> QED
    BY <2>1, <2>2, <2>4, <2>5, <2>6 DEF CountInv
<1>8. ASSUME NEW w \in Workers, Evaluate(w)
      PROVE  CountInv'
  <2> DEFINE q == NewGame(w).path
  <2>1. /\ at[w] = "evaluate" /\ at' = [at EXCEPT ![w] = "notify"]
        /\ UNCHANGED <<counter, live, main, th>>
    BY <1>8 DEF Evaluate, Goto, driver
  <2>2. th \notin Resetting \cup {"push"} /\ counter \in Nat
        /\ th \in {"spawn", "ended"} /\ main # "terminated"
    BY <1>1, <2>1 DEF SafeInv, StopInv, LaunchedAlone, StoppedInOrder,
                      NoThreads, TypeOK, Resetting
  <2>3. TreeOnce /\ IsFiniteSet(seen)
        /\ counter = Cardinality(seen) + Cardinality(Evaluating)
    BY <2>2 DEF CountInv
  <2>4. q \notin seen /\ seen' = seen \cup {q} /\ TreeOnce'
    BY <1>1, <1>8, <2>3, TreeEvaluate
  <2>5. Evaluating' = Evaluating \ {w} /\ w \in Evaluating
    BY <1>1, <2>1 DEF Evaluating, TypeOK
  <2> HIDE DEF q
  <2>6. IsFiniteSet(seen') /\ Cardinality(seen') = Cardinality(seen) + 1
    BY <2>3, <2>4, FS_AddElement
  <2>7. Cardinality(Evaluating') = Cardinality(Evaluating) - 1
    BY <1>1, <2>5, FS_RemoveElement
  <2>8. Cardinality(Evaluating) \in Nat /\ Cardinality(seen) \in Nat
    BY <1>1, <2>3, FS_CardinalityType
  <2> QED
    BY <2>1, <2>2, <2>3, <2>4, <2>6, <2>7, <2>8 DEF CountInv
<1>9. CASE Reply
  BY <1>9 DEF Reply, CountInv, Resetting
<1>10. CASE main' = "terminated" /\ th' = "ended"
  BY <1>10 DEF CountInv, Resetting
<1>11. ASSUME NEW w \in Workers,
              \/ Spawn(w) \/ Lock(w) \/ Check(w) \/ Wait(w)
              \/ WakeSpuriously(w) \/ Finish(w) \/ Exhausted(w)
       PROVE  CountInv'
  <2>1. \A v \in Workers :
           /\ InLoop(v)' =>
                 InLoop(v) /\ (at'[v] = "notify" <=> at[v] = "notify")
           /\ at'[v] = "evaluate" <=> at[v] = "evaluate"
    BY <1>1, <1>11
       DEF Spawn, Lock, Check, Wait, WakeSpuriously, Finish, Exhausted, Goto,
           InLoop, TypeOK
  <2> QED
    BY <1>11, <2>1, CountFrame
       DEF Spawn, Lock, Check, Wait, WakeSpuriously, Finish, Exhausted,
           shared, driver, Resetting
<1>12. CASE Main /\ ~Reply /\ ~ConnectionFails /\ ~Drain
  <2>1. \A v \in Workers :
           /\ InLoop(v)' =>
                 InLoop(v) /\ (at'[v] = "notify" <=> at[v] = "notify")
           /\ at'[v] = "evaluate" <=> at[v] = "evaluate"
    BY <1>1, <1>12, NoThreadThrows
       DEF Main, MainStep, SetDone, NotifyAll, Join, Clear, ResetDone,
           Drained, ReadBest, ReadRow, ReadCol, ReadDirection, ReadField,
           JoinLauncher, ReceiveNothing, locals, Sleepers, InLoop, SafeInv,
           StopInv, StoppedInOrder, TypeOK
  <2> QED
    BY <1>1, <1>12, <2>1, CountFrame, NoThreadThrows
       DEF Main, MainStep, SetDone, NotifyAll, Join, Clear, ResetDone,
           Drained, ReadBest, ReadRow, ReadCol, ReadDirection, ReadField,
           JoinLauncher, ReceiveNothing, locals, shared
<1>13. CASE Drain
  <2>1. /\ UNCHANGED <<seen, live, counter, at>> /\ main' # "terminated"
        /\ NoThreads /\ th = "ended" /\ th' = th /\ main = "drain"
        /\ states' = Tail(states) /\ states \in Seq(Game) /\ states # <<>>
    BY <1>13 DEF Drain, MainStep, SafeInv, TypeOK, StopInv, StoppedInOrder,
                 LaunchedAlone, locals
  <2>2. \A i \in 1..Len(states') :
           i + 1 \in 1..Len(states) /\ states'[i] = states[i + 1]
    BY <2>1
  <2>3. TreeOnce /\ counter = Cardinality(seen) + Cardinality(Evaluating)
        /\ IsFiniteSet(seen)
    BY <2>1 DEF CountInv
  <2>4. \A p : (Known(p)' <=> Known(p)) /\ (Untouched(p)' <=> Untouched(p))
    BY <2>1 DEF Known, Untouched
  <2>5. SeenBelow'
    BY <2>1, <2>3, <2>4 DEF TreeOnce, SeenBelow
  <2>6. QueueOnce'
    <3>1. ASSUME NEW i \in 1..Len(states')
          PROVE  Untouched(states[i].path)'
      BY <2>2, <2>3, <2>4, <3>1 DEF TreeOnce, QueueOnce
    <3>2. ASSUME NEW i \in 1..Len(states'), NEW j \in 1..Len(states'),
                 states'[i].path = states'[j].path
          PROVE  i = j
      <4>1. i + 1 = j + 1
        BY <2>2, <2>3, <3>2 DEF TreeOnce, QueueOnce
      <4> QED
        BY <2>1, <4>1
    <3> QED
      BY <3>1, <3>2 DEF QueueOnce
  <2>7. TreeOnce'
    BY <2>1, <2>5, <2>6 DEF TreeOnce, NoThreads, InLoop
  <2>8. Evaluating' = Evaluating
    BY <2>1 DEF Evaluating
  <2> QED
    BY <2>1, <2>3, <2>7, <2>8 DEF CountInv, Resetting
<1>14. CASE ClearDone \/ HangUp \/ (\E kind \in {"requestmove", "bye"} : Receive(kind))
            \/ UNCHANGED vars
  BY <1>14, CountFrame
     DEF ClearDone, HangUp, Receive, MainStep, vars, shared, locals, driver,
         InLoop, Resetting
<1> QED
  BY <1>1, <1>3, <1>4, <1>5, <1>6, <1>7, <1>8, <1>9, <1>10, <1>11, <1>12,
     <1>13, <1>14, NoThreadThrows
     DEF Next, Launcher, Run, Main, ConnectionFails, Terminate

(* The answer reports how many positions the search evaluated, each once:  *)
(* no thread counts on after setDone, and no other search is counted in.   *)
THEOREM ReportIsExact ==
    Sound /\ NoRepeats /\ IsFiniteSet(Workers) => (Spec => []ReportCountsSearch)
<1> SUFFICES ASSUME Sound, NoRepeats, IsFiniteSet(Workers)
             PROVE  Spec => []ReportCountsSearch
  OBVIOUS
<1>1. Init => CountInv
  BY CountInit
<1>2. SafeInv /\ CountInv /\ [Next]_vars => CountInv'
  BY CountNext
<1>3. SafeInv /\ CountInv => ReportCountsSearch
  <2> SUFFICES ASSUME SafeInv, CountInv, main = "reply"
               PROVE  counter = Cardinality(seen)
    BY DEF ReportCountsSearch
  <2>1. NoThreads /\ th = "ended"
    BY DEF SafeInv, StopInv, StoppedInOrder, LaunchedAlone, TypeOK
  <2>2. Evaluating = {} /\ IsFiniteSet(seen)
        /\ counter = Cardinality(seen) + Cardinality(Evaluating)
    BY <2>1 DEF NoThreads, Evaluating, CountInv
  <2> QED
    BY <2>2, FS_EmptySet, FS_CardinalityType
<1> QED
  BY <1>1, <1>2, <1>3, SafeAlways, PTL DEF Spec

-----------------------------------------------------------------------------
(* The searcher implements SolverSpec.                                     *)

LEMMA SolverStep ==
    ASSUME Sound, SafeInv, [Next]_vars
    PROVE  [Solver!Next]_(Solver!vars)
<1> USE DEF Solver!Next, Solver!vars
<1>1. CASE UNCHANGED <<live, main, msg>>
  BY <1>1 DEF Phase
<1>2. CASE \E kind \in {"requestmove", "bye"} : Receive(kind)
  BY <1>2 DEF Receive, MainStep, Phase, Solver!Request
<1>3. CASE ReceiveNothing
  BY <1>3 DEF ReceiveNothing, MainStep, Phase, Solver!GoDeaf
<1>4. CASE ConnectionFails
  BY <1>4 DEF ConnectionFails, Terminate, Phase, Solver!Stop
<1>5. CASE \/ SetDone \/ NotifyAll \/ Join \/ Clear \/ ResetDone \/ Drain
           \/ Drained \/ ReadBest
  BY <1>5
     DEF SetDone, NotifyAll, Join, Clear, ResetDone, Drain, Drained, ReadBest,
         ReadRow, ReadCol, ReadDirection, ReadField, MainStep, Phase
<1>6. CASE JoinLauncher
  BY <1>6 DEF JoinLauncher, MainStep, Phase, Solver!Stop
<1>7. CASE Reply
  <2>1. /\ msg = "requestmove" /\ answer \in LegalSet(live.path)
        /\ live.path \in Seq(Moves)
    BY <1>7 DEF Reply, MainStep, SafeInv, GameInv, BestIsLegal, TypeOK, Game,
                StopInv, LaunchedAlone, Underway, NoMove
  <2>2. live'.path = Append(live.path, answer)
    BY <1>7, <2>1 DEF Reply, After
  <2>3. Phase = "asked" /\ Phase' = "idle"
    BY <1>7, <2>1 DEF Reply, MainStep, Phase
  <2> QED
    BY <2>1, <2>2, <2>3 DEF Solver!Answer, LegalSet
<1>8. CASE HangUp
  BY <1>1, <1>8 DEF HangUp
<1> QED
  BY <1>1, <1>2, <1>3, <1>4, <1>5, <1>6, <1>7, <1>8, NoThreadThrows
     DEF Next, vars, driver, Launcher, Run, Main, ClearDone, ResetBest,
         ResetRow, ResetCol, ResetDirection, ResetScore, ResetField, PushRoot,
         Spawn, Lock, Check, Wait, WakeSpuriously, Finish, Take,
         Expand, Exhausted, Evaluate, NotifyOne, Sound

(* The solver answers each request with one move that is legal in its game *)
(* and plays it, or ends: what ten threads around a queue come to.         *)
THEOREM SearcherImplements == Sound => (Spec => ImplementsSolver)
<1> SUFFICES ASSUME Sound PROVE Spec => ImplementsSolver
  OBVIOUS
<1>1. Init => Solver!Init
  BY DEF Init, Solver!Init, Phase, Sound
<1>2. SafeInv /\ [Next]_vars => [Solver!Next]_(Solver!vars)
  BY SolverStep
<1> QED
  BY <1>1, <1>2, SafeAlways, PTL DEF Spec, ImplementsSolver, Solver!Spec
==============================================================================
