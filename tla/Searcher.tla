------------------------------- MODULE Searcher -------------------------------
(***************************************************************************)
(* The search of the solver and the loop of its main that drives it:       *)
(* main (hw6.cc), the thread th that runs GetBestMove, and the threads     *)
(* that run runBestMove, around one mutex, one condition variable and the  *)
(* static members of Searcher.  What runBestMove does with the mutex held  *)
(* is one step; what main and th do without it is a step for each field    *)
(* they read or write and each position they pop.                          *)
(*                                                                         *)
(* A game is what the search tells apart of a Game object: the moves that  *)
(* were accepted since it was read (its board and score follow from them), *)
(* the member moves, and moveHistory.  Legal and Score stand for           *)
(* GenerateMoves and Evaluate.                                             *)
(***************************************************************************)
EXTENDS Integers, Sequences

CONSTANTS Workers,      \* identities for the threads of the vector `threads`
          PerRound,     \* threads GetBestMove starts (10 in the code)
          Moves,
          Legal(_),     \* the moves GenerateMoves returns after a path
          Score(_),     \* what SimpleEvaluator makes of the board it leads to
          Worst,        \* the score bestMove starts from (-999999)
          MovesLoaded,  \* what Game::Init may leave in moves: 0 for a file
                        \* with a gamestate, else whatever the memory held
          Paced,        \* the server asks only when GetBestMove has returned
          MaxRequests,  \* bound of the model on the messages of the server
          Hangups       \* the server may close the connection, or lose it

Free == "free"

ASSUME SearcherAssumption ==
    /\ Free \notin Workers
    /\ PerRound \in Nat \ {0} /\ MaxRequests \in Nat
    /\ Paced \in BOOLEAN /\ Hangups \in BOOLEAN /\ Worst \in Int
    /\ MovesLoaded \subseteq Int /\ MovesLoaded # {}
    /\ Moves \subseteq [row: Nat, col: Nat, direction: 0..3]

VARIABLES done, states, bestMove,
          counter,      \* atomic_counter
          threads,      \* the threads in the vector
          mutex,        \* the thread that holds globalMutex, or Free
          live, answer, \* main's game and the Move m it got from setDone
          main, msg, joining, asked,
          server,       \* "up", "closed", or "broken": a read or write fails
          th, spawned,  \* where GetBestMove is
          at, next, todo, depth, \* where each runBestMove is, and its locals
          seen          \* history variable: what this search has evaluated

shared == <<done, states, bestMove, counter, threads, mutex, seen>>
locals == <<at, next, todo, depth>>
driver == <<live, answer, main, msg, joining, asked, server>>
vars == <<shared, locals, driver, th, spawned>>

(* What Move() makes, and what GetBestMove writes into bestMove.           *)
NoMove == [row |-> -1, col |-> -1, direction |-> -1]
NoGame == [path |-> <<>>, moves |-> 0, history |-> <<>>]
LegalSet(path) == {Legal(path)[i] : i \in 1..Len(Legal(path))}

(* ApplyMove: Swap plays the move if it is one, and either way the move    *)
(* enters the history.                                                     *)
After(g, m) ==
    LET played == m \in LegalSet(g.path) IN
    [path |-> IF played THEN Append(g.path, m) ELSE g.path,
     moves |-> IF played THEN g.moves + 1 ELSE g.moves,
     history |-> Append(g.history, m)]

(* main has received the game and starts its first search. *)
Init ==
    /\ done = FALSE /\ states = <<>> /\ threads = {} /\ mutex = Free
    /\ bestMove = [move |-> NoMove, score |-> 0] /\ counter = 0 /\ seen = {}
    /\ live \in [path: {<<>>}, moves: MovesLoaded, history: {<<>>}]
    /\ answer = NoMove
    /\ main = "listen" /\ msg = "none" /\ joining = {} /\ asked = 0
    /\ server = "up"
    /\ th = "begin" /\ spawned = 0
    /\ at = [w \in Workers |-> "none"] /\ next = [w \in Workers |-> NoGame]
    /\ todo = [w \in Workers |-> <<>>] /\ depth = [w \in Workers |-> 0]

Goto(w, label) == at' = [at EXCEPT ![w] = label]
Sleepers == {w \in Workers : at[w] = "sleep"}

(* An exception no thread catches, or the destruction of a thread that was *)
(* not joined: std::terminate, and every thread is gone.                   *)
Terminate ==
    /\ main' = "terminated" /\ th' = "ended"
    /\ at' = [w \in Workers |-> "none"]
    /\ UNCHANGED <<shared, next, todo, depth, live, answer, msg, joining,
                   asked, server, spawned>>

-----------------------------------------------------------------------------
(* GetBestMove, in the thread th.                                          *)

ClearDone ==
    /\ th = "begin" /\ th' = "resetRow"
    /\ done' = FALSE
    /\ UNCHANGED <<states, bestMove, counter, threads, mutex, seen, locals,
                   driver, spawned>>

(* bestMove is reset field by field, without the mutex.                    *)
ResetField(from, to, reset) ==
    /\ th = from /\ th' = to
    /\ bestMove' = reset
    /\ UNCHANGED <<done, states, counter, threads, mutex, locals, driver,
                   spawned>>

ResetRow ==
    ResetField("resetRow", "resetCol", [bestMove EXCEPT !.move.row = -1])
        /\ UNCHANGED seen
ResetCol ==
    ResetField("resetCol", "resetDirection", [bestMove EXCEPT !.move.col = -1])
        /\ UNCHANGED seen
ResetDirection ==
    ResetField("resetDirection", "resetScore",
               [bestMove EXCEPT !.move.direction = -1])
        /\ UNCHANGED seen
ResetScoreForgotten ==  \* fault: the score of the last search stays
    ResetField("resetScore", "push", bestMove) /\ seen' = {}
ResetScore ==
    ResetField("resetScore", "push", [bestMove EXCEPT !.score = Worst])
        /\ seen' = {}
ResetBest == ResetRow \/ ResetCol \/ ResetDirection \/ ResetScore

PushRootAndGoOn ==  \* fault: the loop goes on at the count of the last search
    /\ th = "push" /\ th' = "spawn"
    /\ states' = Append(states, live)
    /\ UNCHANGED <<done, bestMove, counter, threads, mutex, seen, locals,
                   driver, spawned>>

PushRoot ==
    /\ th = "push" /\ th' = "spawn"
    /\ states' = Append(states, live) /\ spawned' = 0
    /\ UNCHANGED <<done, bestMove, counter, threads, mutex, seen, locals,
                   driver>>

(* The argument of the new thread is GetMoves(): depth, the place of the    *)
(* next move in moveHistory.                                               *)
SpawnOneDeeper(w) ==  \* fault: depth counts the move to come
    /\ th = "spawn" /\ at[w] = "none"
    /\ spawned' = spawned + 1
    /\ th' = IF spawned' = PerRound THEN "ended" ELSE "spawn"
    /\ threads' = threads \cup {w}
    /\ Goto(w, "lock") /\ depth' = [depth EXCEPT ![w] = live.moves + 1]
    /\ UNCHANGED <<done, states, bestMove, counter, mutex, seen, next, todo,
                   driver>>

Spawn(w) ==
    /\ th = "spawn" /\ at[w] = "none"
    /\ spawned' = spawned + 1
    /\ th' = IF spawned' = PerRound THEN "ended" ELSE "spawn"
    /\ threads' = threads \cup {w}
    /\ Goto(w, "lock") /\ depth' = [depth EXCEPT ![w] = live.moves]
    /\ UNCHANGED <<done, states, bestMove, counter, mutex, seen, next, todo,
                   driver>>

Launcher == ClearDone \/ ResetBest \/ PushRoot \/ \E w \in Workers : Spawn(w)

-----------------------------------------------------------------------------
(* runBestMove, in each thread w.                                          *)

Lock(w) ==
    /\ at[w] = "lock" /\ mutex = Free
    /\ mutex' = w /\ Goto(w, "check")
    /\ UNCHANGED <<done, states, bestMove, counter, threads, seen, next, todo,
                   depth, driver, th, spawned>>

(* The loop condition.  The mutex is held, but setDone does not take it:   *)
(* done may change between this and cv.wait, or the test that follows.     *)
Check(w) ==
    /\ at[w] = "check"
    /\ Goto(w, IF ~done /\ states = <<>> THEN "wait" ELSE "decide")
    /\ UNCHANGED <<shared, next, todo, depth, driver, th, spawned>>

Wait(w) ==
    /\ at[w] = "wait"
    /\ mutex' = Free /\ Goto(w, "sleep")
    /\ UNCHANGED <<done, states, bestMove, counter, threads, seen, next, todo,
                   depth, driver, th, spawned>>

(* cv.wait may return without having been notified. *)
WakeSpuriously(w) ==
    /\ at[w] = "sleep"
    /\ Goto(w, "lock")
    /\ UNCHANGED <<shared, next, todo, depth, driver, th, spawned>>

Finish(w) ==
    /\ at[w] = "decide" /\ done
    /\ mutex' = Free /\ Goto(w, "ended")
    /\ UNCHANGED <<done, states, bestMove, counter, threads, seen, next, todo,
                   depth, driver, th, spawned>>

Take(w) ==
    /\ at[w] = "decide" /\ ~done /\ states # <<>>
    /\ next' = [next EXCEPT ![w] = Head(states)] /\ states' = Tail(states)
    /\ todo' = [todo EXCEPT ![w] = Legal(Head(states).path)]
    /\ mutex' = Free /\ Goto(w, "expand")
    /\ UNCHANGED <<done, bestMove, counter, threads, seen, depth, driver, th,
                   spawned>>

(* front() of an empty queue: the copy of what is there crashes. *)
TakeNothing(w) ==
    /\ at[w] = "decide" /\ ~done /\ states = <<>>
    /\ Terminate

(* One move of the for loop: newGame is built and counted. *)
Expand(w) ==
    /\ at[w] = "expand" /\ todo[w] # <<>>
    /\ counter' = counter + 1 /\ Goto(w, "evaluate")
    /\ UNCHANGED <<done, states, bestMove, threads, mutex, seen, next, todo,
                   depth, driver, th, spawned>>

Exhausted(w) ==
    /\ at[w] = "expand" /\ todo[w] = <<>>
    /\ Goto(w, "lock")
    /\ UNCHANGED <<shared, next, todo, depth, driver, th, spawned>>

InHistory(w, g) == depth[w] \in 0..(Len(g.history) - 1)
NewGame(w) == After(next[w], Head(todo[w]))
Better(g) == Score(g.path) > bestMove.score
FrontOfHistory(w, g) == g.history[1]  \* fault: depth is not used
FirstMove(w, g) == g.history[depth[w] + 1]

(* The locked part of the for loop. *)
EvaluateUnqueued(w) ==  \* fault: newGame is not pushed
    LET g == NewGame(w) IN
    /\ at[w] = "evaluate" /\ mutex = Free
    /\ Better(g) => InHistory(w, g)
    /\ bestMove' = IF Better(g)
                   THEN [move |-> FirstMove(w, g), score |-> Score(g.path)]
                   ELSE bestMove
    /\ seen' = seen \cup {g.path}
    /\ Goto(w, "notify")
    /\ UNCHANGED <<done, states, counter, threads, mutex, next, todo, depth,
                   driver, th, spawned>>

Evaluate(w) ==
    LET g == NewGame(w) IN
    /\ at[w] = "evaluate" /\ mutex = Free
    /\ Better(g) => InHistory(w, g)
    /\ bestMove' = IF Better(g)
                   THEN [move |-> FirstMove(w, g), score |-> Score(g.path)]
                   ELSE bestMove
    /\ states' = Append(states, g) /\ seen' = seen \cup {g.path}
    /\ Goto(w, "notify")
    /\ UNCHANGED <<done, counter, threads, mutex, next, todo, depth, driver,
                   th, spawned>>

(* moveHistory.at(depth) throws out_of_range. *)
EvaluateOutOfRange(w) ==
    LET g == NewGame(w) IN
    /\ at[w] = "evaluate" /\ mutex = Free
    /\ Better(g) /\ ~InHistory(w, g)
    /\ Terminate

(* notify_one wakes one of the sleepers, if there are any. *)
NotifyOne(w) ==
    /\ at[w] = "notify"
    /\ \/ Sleepers = {} /\ Goto(w, "expand")
       \/ \E v \in Sleepers :
             at' = [at EXCEPT ![w] = "expand", ![v] = "lock"]
    /\ todo' = [todo EXCEPT ![w] = Tail(@)]
    /\ UNCHANGED <<shared, next, depth, driver, th, spawned>>

Run(w) ==
    \/ Lock(w) \/ Check(w) \/ Wait(w) \/ Finish(w) \/ Take(w)
    \/ TakeNothing(w) \/ Expand(w) \/ Exhausted(w) \/ Evaluate(w)
    \/ EvaluateOutOfRange(w) \/ NotifyOne(w)

-----------------------------------------------------------------------------
(* main: the message loop, and setDone step by step.                       *)

MainStep(from, to) == main = from /\ main' = to

Receive(kind) ==
    /\ MainStep("listen", "setDone") /\ server = "up"
    /\ asked < MaxRequests /\ (Paced => th = "ended")
    /\ msg' = kind /\ asked' = asked + 1
    /\ UNCHANGED <<shared, locals, live, answer, joining, server, th, spawned>>

HangUp ==
    /\ Hangups /\ server = "up" /\ server' \in {"closed", "broken"}
    /\ UNCHANGED <<shared, locals, live, answer, main, msg, joining, asked, th,
                   spawned>>

(* GetNextMessage returns a message without a type, which the loop ignores; *)
(* so it does again, for ever, and the search goes on beside it.           *)
ReceiveNothing ==
    /\ MainStep("listen", "spinning") /\ server = "closed"
    /\ UNCHANGED <<shared, locals, live, answer, msg, joining, asked, server,
                   th, spawned>>

(* The read throws, or the write does or raises SIGPIPE.  The handler is   *)
(* outside the scope of th, a thread that nobody joined.                   *)
ConnectionFails ==
    /\ \/ main = "listen" /\ server = "broken"
       \/ main = "reply" /\ server # "up"
    /\ Terminate

SetDone ==
    /\ MainStep("setDone", "notify")
    /\ done' = TRUE
    /\ UNCHANGED <<states, bestMove, counter, threads, mutex, seen, locals,
                   live, answer, msg, joining, asked, server, th, spawned>>

(* notify_all, and the start of the loop that joins the threads there are. *)
NotifyAll ==
    /\ MainStep("notify", "join")
    /\ at' = [w \in Workers |-> IF w \in Sleepers THEN "lock" ELSE at[w]]
    /\ joining' = threads
    /\ UNCHANGED <<shared, next, todo, depth, live, answer, msg, asked, server,
                   th, spawned>>

Join ==
    /\ MainStep("join", "clear")
    /\ \A w \in joining : at[w] = "ended"
    /\ UNCHANGED <<shared, locals, live, answer, msg, joining, asked, server,
                   th, spawned>>

Clear ==
    /\ MainStep("clear", "resetDone")
    /\ threads \subseteq joining
    /\ threads' = {}
    /\ at' = [w \in Workers |-> IF w \in threads THEN "none" ELSE at[w]]
    /\ UNCHANGED <<done, states, bestMove, counter, mutex, seen, next, todo,
                   depth, live, answer, msg, joining, asked, server, th,
                   spawned>>

(* The vector destroys a thread that was pushed after the loop. *)
ClearUnjoined ==
    /\ main = "clear" /\ ~(threads \subseteq joining)
    /\ Terminate

ResetDoneForgotten ==  \* fault: done is left set
    /\ MainStep("resetDone", "drain")
    /\ UNCHANGED <<shared, locals, live, answer, msg, joining, asked, server,
                   th, spawned>>

ResetDone ==
    /\ MainStep("resetDone", "drain")
    /\ done' = FALSE
    /\ UNCHANGED <<states, bestMove, counter, threads, mutex, seen, locals,
                   live, answer, msg, joining, asked, server, th, spawned>>

(* The queue is emptied without the mutex, one position after the other.   *)
Drain ==
    /\ MainStep("drain", "drain") /\ states # <<>>
    /\ states' = Tail(states)
    /\ UNCHANGED <<done, bestMove, counter, threads, mutex, seen, locals,
                   live, answer, msg, joining, asked, server, th, spawned>>

DrainForgotten ==  \* fault: the positions of this search stay queued
    /\ MainStep("drain", "readRow")
    /\ UNCHANGED <<shared, locals, live, answer, msg, joining, asked, server,
                   th, spawned>>

Drained ==
    /\ MainStep("drain", "readRow") /\ states = <<>>
    /\ UNCHANGED <<shared, locals, live, answer, msg, joining, asked, server,
                   th, spawned>>

(* setDone returns a copy of bestMove, read field by field.                *)
ReadField(from, to, copied) ==
    /\ MainStep(from, to)
    /\ answer' = copied
    /\ UNCHANGED <<shared, locals, live, msg, joining, asked, server, th,
                   spawned>>

ReadRow ==
    ReadField("readRow", "readCol", [answer EXCEPT !.row = bestMove.move.row])
ReadCol ==
    ReadField("readCol", "readDirection",
              [answer EXCEPT !.col = bestMove.move.col])
ReadDirection ==
    ReadField("readDirection", "joinTh",
              [answer EXCEPT !.direction = bestMove.move.direction])
ReadBest == ReadRow \/ ReadCol \/ ReadDirection

(* th.join; then bye ends the program, and so does a search without a move. *)
JoinLauncher ==
    /\ th = "ended"
    /\ MainStep("joinTh", IF msg = "bye" \/ answer.direction = -1 THEN "exit"
                          ELSE "reply")
    /\ UNCHANGED <<shared, locals, live, answer, msg, joining, asked, server,
                   th, spawned>>

(* The move is played, the next search started and the answer sent. *)
ReplyKeepsCounter ==  \* fault: atomic_counter is not reset
    /\ MainStep("reply", "listen")
    /\ live' = After(live, answer)
    /\ th' = "begin"
    /\ UNCHANGED <<shared, locals, answer, msg, joining, asked, server,
                   spawned>>

Reply ==
    /\ MainStep("reply", "listen")
    /\ live' = After(live, answer) /\ counter' = 0
    /\ th' = "begin"
    /\ UNCHANGED <<done, states, bestMove, threads, mutex, seen, locals,
                   answer, msg, joining, asked, server, spawned>>

Main == \/ SetDone \/ NotifyAll \/ Join \/ Clear \/ ClearUnjoined
        \/ ResetDone \/ Drain \/ Drained \/ ReadBest \/ JoinLauncher
        \/ Reply
        \/ ReceiveNothing \/ ConnectionFails

-----------------------------------------------------------------------------
Next ==
    \/ Launcher
    \/ \E w \in Workers : Run(w) \/ WakeSpuriously(w)
    \/ \E kind \in {"requestmove", "bye"} : Receive(kind)
    \/ HangUp \/ Main

(* The system runs every thread that can run, and a thread that finds the  *)
(* mutex free again and again gets it: the others hold it for moments.     *)
(* Nothing makes the server send a message or hang up, or a wait return    *)
(* without being notified.                                                 *)
Fairness ==
    /\ WF_vars(Launcher) /\ WF_vars(Main)
    /\ \A w \in Workers :
           WF_vars(Run(w)) /\ SF_vars(Lock(w)) /\ SF_vars(Evaluate(w))

Spec == Init /\ [][Next]_vars /\ Fairness
==============================================================================
