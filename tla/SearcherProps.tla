---------------------------- MODULE SearcherProps ----------------------------
(***************************************************************************)
(* What must be true of the search while it runs, when it is stopped, and  *)
(* of the answers main gets from it.                                       *)
(***************************************************************************)
EXTENDS Searcher, FiniteSets, SequencesExt

(* A move that main copied while th reset it may be any.                   *)
AnyMove == [row: Int, col: Int, direction: Int]
Game == [path: Seq(Moves), moves: Int, history: Seq(AnyMove)]

(* Every variable keeps its range. *)
TypeOK ==
    /\ done \in BOOLEAN /\ states \in Seq(Game) /\ counter \in Nat
    /\ bestMove \in [move: AnyMove, score: Int]
    /\ threads \subseteq Workers /\ mutex \in Workers \cup {Free}
    /\ seen \subseteq Seq(Moves)
    /\ live \in Game /\ answer \in AnyMove
    /\ main \in {"listen", "setDone", "notify", "join", "clear", "resetDone",
                 "drain", "readRow", "readCol", "readDirection", "joinTh",
                 "reply", "exit", "spinning", "terminated"}
    /\ msg \in {"none", "requestmove", "bye"} /\ asked \in 0..MaxRequests
    /\ joining \subseteq Workers /\ server \in {"up", "closed", "broken"}
    /\ th \in {"begin", "resetRow", "resetCol", "resetDirection", "resetScore",
               "push", "spawn", "ended"}
    /\ spawned \in 0..PerRound
    /\ at \in [Workers -> {"none", "lock", "check", "wait", "sleep", "decide",
                           "expand", "evaluate", "notify", "ended"}]
    /\ next \in [Workers -> Game] /\ todo \in [Workers -> Seq(Moves)]
    /\ depth \in [Workers -> Int]

-----------------------------------------------------------------------------
(* At any moment of a search, bestMove is the first move of a best         *)
(* position evaluated so far, however the threads interleave.              *)
BestIsBestSeen ==
    main # "terminated" /\ th \in {"push", "spawn", "ended"} =>
        /\ \A p \in seen : Score(p) <= bestMove.score
        /\ seen # {} => \E p \in seen :
              /\ Score(p) = bestMove.score
              /\ bestMove.move = p[Len(live.path) + 1]
        /\ seen = {} => bestMove.move = NoMove

(* The comment above runBestMove: the games of the search are reached from *)
(* the live one ("moveChain is the chain of moves to get from the live     *)
(* game state to the current game state").  No search inherits a position  *)
(* of an earlier one.                                                      *)
QueueExtendsLiveGame ==
    \A i \in 1..Len(states) : IsPrefix(live.path, states[i].path)

(* movesevaluated, which the answer reports, counts what this search       *)
(* evaluated: nothing of the search is still running or lost.              *)
ReportCountsSearch == main = "reply" => counter = Cardinality(seen)

(* When setDone has returned, no thread of the search is left and nothing  *)
(* it left behind reaches the next one.                                    *)
SearchIsOver ==
    main \in {"joinTh", "reply"} =>
        /\ \A w \in Workers : at[w] = "none"
        /\ threads = {} /\ states = <<>> /\ mutex = Free /\ ~done

(* No thread throws out_of_range from moveHistory.at, copies the front of  *)
(* an empty queue, or is destroyed without having been joined: only the    *)
(* end of the connection ends the program in that way.                     *)
NeverTerminated == main = "terminated" => server # "up"

(* All positions some moves away from the live one. *)
Line(p) == \A i \in 1..Len(p) : p[i] \in LegalSet(SubSeq(p, 1, i - 1))
Reachable(n) ==
    {p \in UNION {[1..k -> Moves] : k \in 0..n} :
        Line(p) /\ Len(p) > Len(live.path) /\ IsPrefix(live.path, p)}

-----------------------------------------------------------------------------
(* Every message gets an answer, or ends the program: "Every time the      *)
(* server asks for an update, the program will send the update" (HW6       *)
(* Documentation).  Said of requests that find a best move.                *)
EveryRequestAnswered ==
    (main = "setDone" /\ msg = "requestmove" /\ bestMove.move # NoMove)
        ~> (main = "reply")

-----------------------------------------------------------------------------
(* The invariants from which the properties above follow, whatever the     *)
(* number of threads and the tree of games.  All but the first need Paced  *)
(* and a game read with its moves.                                         *)

(* A thread in the middle of its for loop has a move under way, main only  *)
(* replies with a move, and GetBestMove counts the threads it starts.      *)
Underway ==
    /\ \A w \in Workers : at[w] \in {"evaluate", "notify"} => todo[w] # <<>>
    /\ main = "reply" => answer.direction # -1
    /\ th = "spawn" => spawned < PerRound

(* The mutex is held by the thread that is between lock and unlock.        *)
MutexHeld ==
    main # "terminated" =>
        \A w \in Workers : mutex = w <=> at[w] \in {"check", "wait", "decide"}

Resetting == {"begin", "resetRow", "resetCol", "resetDirection", "resetScore"}
Reading == {"readRow", "readCol", "readDirection"}
NoThreads == threads = {} /\ \A w \in Workers : at[w] = "none"

(* GetBestMove starts with nothing left of an earlier search, and does not *)
(* run beside setDone.                                                     *)
LaunchedAlone ==
    /\ th # "ended" => main \in {"listen", "spinning"}
    /\ th \in Resetting \cup {"push"} => NoThreads /\ states = <<>>

(* How far setDone has come with the threads there are.                    *)
StoppedInOrder ==
    IF main = "terminated" THEN th = "ended" /\ \A w \in Workers : at[w] = "none"
    ELSE
        /\ \A w \in Workers : w \in threads <=> at[w] # "none"
        /\ done <=> main \in {"notify", "join", "clear", "resetDone"}
        /\ main \in {"join", "clear"} => joining = threads
        /\ main = "clear" => \A w \in joining : at[w] = "ended"
        /\ main \in Reading \cup {"resetDone", "drain", "joinTh", "reply"} =>
              NoThreads
        /\ main \in Reading \cup {"joinTh", "reply"} => states = <<>>

(* A thread that has passed the wait loop finds a position, or done.       *)
SomethingToTake ==
    \A w \in Workers : at[w] = "decide" /\ ~done => states # <<>>

(* The game g was reached from the game l by playing legal moves, the      *)
(* first of which is a move of l.                                          *)
OnLine(g) == g.history = g.path /\ g.moves = Len(g.path)
Extending(p, q) == Len(p) <= Len(q) /\ \A i \in 1..Len(p) : q[i] = p[i]
Descends(g, l) ==
    /\ OnLine(g) /\ Extending(l.path, g.path)
    /\ Len(g.path) > Len(l.path) =>
          g.path[Len(l.path) + 1] \in LegalSet(l.path)
Lineage ==
    /\ OnLine(live)
    /\ \A i \in 1..Len(states) : Descends(states[i], live)
    /\ \A w \in Workers :
          /\ at[w] # "none" => depth[w] = live.moves
          /\ at[w] \in {"expand", "evaluate", "notify"} =>
                /\ Descends(next[w], live)
                /\ \A i \in 1..Len(todo[w]) : todo[w][i] \in LegalSet(next[w].path)

(* What the search found is a move of the live game, and what main has of  *)
(* it; how far GetBestMove has come with the reset.                        *)
BestIsLegal ==
    /\ main # "terminated" /\ th \in {"push", "spawn", "ended"} =>
          bestMove.move \in LegalSet(live.path) \cup {NoMove}
    /\ th \in {"resetCol", "resetDirection", "resetScore"} =>
          bestMove.move.row = -1
    /\ th \in {"resetDirection", "resetScore"} => bestMove.move.col = -1
    /\ th = "resetScore" => bestMove.move.direction = -1
    /\ main \in {"readCol", "readDirection"} => answer.row = bestMove.move.row
    /\ main = "readDirection" => answer.col = bestMove.move.col
    /\ main \in {"joinTh", "reply"} => answer = bestMove.move
    /\ main = "reply" => msg = "requestmove"
    /\ main \notin {"listen", "spinning", "terminated"} => msg # "none"

(* A search evaluates no position twice: the positions in the queue and    *)
(* those that threads are at are distinct, and what is left of them was    *)
(* never evaluated.                                                        *)
InLoop(w) == at[w] \in {"expand", "evaluate", "notify"}
Left(w) == (IF at[w] = "notify" THEN 2 ELSE 1)..Len(todo[w])
Known(p) == p \in seen \/ p = live.path
Untouched(p) == Known(p) /\ \A q \in seen : Front(q) # p
SeenBelow == \A q \in seen : Len(q) > Len(live.path) /\ Known(Front(q))
QueueOnce ==
    \A i \in 1..Len(states) :
        /\ Untouched(states[i].path)
        /\ \A j \in 1..Len(states) : states[i].path = states[j].path => i = j
LoopOnce(w) ==
    /\ Known(next[w].path)
    /\ \A q \in seen : Front(q) = next[w].path =>
          \A i \in Left(w) : Last(q) # todo[w][i]
    /\ \A i \in 1..Len(states) : states[i].path # next[w].path
    /\ \A i, j \in 1..Len(todo[w]) : todo[w][i] = todo[w][j] => i = j
    /\ \A v \in Workers : InLoop(v) /\ next[v].path = next[w].path => v = w
TreeOnce == SeenBelow /\ QueueOnce /\ \A w \in Workers : InLoop(w) => LoopOnce(w)

(* The counter counts what was evaluated, and what is about to be.         *)
Evaluating == {w \in Workers : at[w] = "evaluate"}
CountInv ==
    /\ th \in Resetting => counter = 0
    /\ th = "push" => seen = {}
    /\ main # "terminated" /\ th \in {"push", "spawn", "ended"} =>
          /\ TreeOnce /\ IsFiniteSet(seen)
          /\ counter = Cardinality(seen) + Cardinality(Evaluating)

StopInv == MutexHeld /\ LaunchedAlone /\ StoppedInOrder /\ SomethingToTake
GameInv == Lineage /\ BestIsLegal
==============================================================================
