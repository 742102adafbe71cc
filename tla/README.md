# CandyCrush in TLA+

This directory models the programs of the CandyCrush repository in TLA+,
checks the models with TLC on small instances, and proves with TLAPS, for every
value of the constants, the safety properties of the game engine, of the search,
of the messages, of the two programs that talk over TCP, and of the first window.

The repository is a series of programs that grow out of each other: an array
library (hw2), a window that swaps candies (hw3), the rules of the game (hw4), a
view and a model that talk over TCP (hw5), and a solver that plays against a
server (hw6). Paths below are relative to the root of the repository.

## 1. The system

| Part | Source | State it keeps | Operations | What makes it correct |
|---|---|---|---|---|
| Array2D | hw2/Array2D.c | a block of `rows * cols` pointers | create, set, get, swap, destroy, with return codes | cells do not alias; a refused call changes nothing; destroy frees each element once |
| Driver of hw2 | hw2/hw2.c | one array | read, set, swap, write, destroy, once each | straight-line |
| Board window | hw3/hw3Callbacks.c, hw3.c, hw2_modified.c | the board, the selected button, the count of moves, a label | `open`, `activate`, `select`, `swap` callbacks | the window shows the board although a swap draws two buttons only |
| Game of hw4 | hw4/Game.cc | board, squares, extension board, offsets, score, moves | Init, Swap, Settle, ApplyGravity, SerializeCurrentState | like the Game of hw6; what is written can be read back |
| Window of hw4 | hw4/hw4.cc | a Game, widgets | callbacks | (does not compile) |
| View | hw5/solution/hw5-view.cc, Info_Container.cc | one client, the selected button, the window | accept, ccopen, ccactivate, ccselect, ccswap, redraw, bye | the window shows the model's game; arrows are answered |
| Model program | hw5/solution/hw5-model.cc | one Game | hello, helloack, move, bye | every move is answered with one update; it ends |
| MessageHandler | hw5/solution/MessageHandler.cc, Message.cc | a buffer and a count of braces during one call | GetNextMessage, SendMessage | messages arrive whole, in order, and none is lost |
| Sockets | hw5/socketCode/*.cc | descriptors | connect, Accept, WrappedRead, WrappedWrite | short reads and writes are made good |
| Game of hw6 | hw6/Game.cc | as hw4, plus moveHistory | Init, ApplyMove, Swap, GenerateMoves, copies, SerializeCurrentState | no holes, no match left, refused moves leave no trace, generated moves are the accepted ones |
| Searcher | hw6/Searcher.cc | static: `done`, `states`, `bestMove`, counter, threads, one mutex, one condition variable | GetBestMove, runBestMove, setDone | the answer is the best move seen in the game being played |
| SimpleEvaluator | hw6/SimpleEvaluator.cc | none | Evaluate | a function of the board |
| Main of the solver | hw6/hw6.cc | the live Game, the thread `th` | helloack, requestmove, bye | each request is answered with a move of the live game |
| Server, sample programs, jansson, images | hw6, hw5/distribution | | | binaries, examples, vendored code |

How they interact. The view is a server: it accepts one client after the other,
sends its file (`helloack`), draws each `update` and sends a `move` for each
arrow; a model answers each `move` with an `update`. The solver is a client of
another server: it is given a game, starts ten threads through `th` at once, and
answers each `requestmove` with the best move found so far, after stopping the
threads; then it applies the move to its game and starts again. Both use
MessageHandler over a TCP stream. All boards are Array2Ds.

What is hard in it:

* concurrency: `main`, `th` and ten workers share the static members of
  Searcher. `done` is set without the mutex; `setDone` runs in `main` while
  GetBestMove may still run in `th`;
* cascades: a swap fires templates, gravity refills from per-column offsets, and
  the result is scanned again, in place, up to 1000 times;
* TCP cuts the stream anywhere, and either end may die at any moment;
* widgets outlive or are outlived by the globals that refer to them;
* four numberings of directions, rows counted from the bottom in games and from
  the top in windows.

The list of hazards, line by line, is in `PROJECT.json`.

## 2. The modules

| Module | Models | State and actions |
|---|---|---|
| `Board` | the rules both engines share: templates, scan ranges, matching, wear and points, ShiftDown, directions, GenerateMoves | operators on functions from cells `<<row, col>>` to colours; row 0 is the bottom |
| `GameEngine` | hw6/Game.cc, loop by loop | `pc` is the loop that runs; `Fire`/`Miss`/`NextTemplate` are iterations of Settle, `ShiftDown`/`NextRow`/`NextColumn` of ApplyGravity, `PassFired`/`PassQuiet`/`Resettle`/`GiveUp` the ends of a pass; `LoadGamestate`, `LoadFresh` are Init, `ApplyMove`, `ApplyMoveOff` the calls; `entry` is a history variable |
| `GameEngineProps` | | properties, and the invariants the proofs need |
| `BoardRules` | a pass over a whole board, and the passes of Settle | one recursive function per loop (`Columns`, `RowsOf`, `TemplatesOf`, `Passes`), whose value at `n` is the game after `n` iterations; `Survivor`, the i-th candy of a column |
| `GameSpec` | what a Game promises: each public call is one step | `Load`, `ApplyMove`, over whole boards |
| `GameEngineRefinement` | GameEngine implements GameSpec | refinement mapping: the object during a call is the object when the call began (`entry`); `CallInv`, the invariant of a call under way |
| `Evaluator` | hw6/SimpleEvaluator.cc | `Evaluate`, the weighted sum over the squares |
| `Game4` | hw4/Game.cc | one operator per method on a record of its members; the JSON is the record `Instance`. The first candy a column takes comes from the row its offset names, whatever a file set it to; only the next ones are wrapped (`NextRow`), at the rows of the board. Rows the extension board does not have are read from `heap` |
| `ViewModel` | hw5-view.cc, hw5-model.cc, Info_Container.cc, ServerSocket::Accept | `view`/`client`/`selected`/`screen`, one Game per model, two queues of messages per connection; one action per callback and per branch of the two loops, among them the ways the view ends: `AcceptFails` (the exception of accept), `RedrawDangling` (the text of a destroyed string), `RedrawNothing`, `NoHello`, `KillView` |
| `MessageHandler` | GetNextMessage, SendMessage, WrappedRead, WrappedWrite | a message is a sequence of `open`, `close` and `other` text whose braces match at its end only; `out`, `wire` and `strBuf` are sequences of bytes. `PeerSends` is the program at the other end, which waits or runs ahead (`window`); `WriteNothing`, `WriteFails` and `ReadFails` are the calls that fail, `Break` the reset of the connection, which swallows what was not read (`lost`) |
| `Searcher` | Searcher.cc and the loop of hw6.cc, with the end of the connection | program counters for `main`, `th` and each worker; what runBestMove does with the mutex held is one step, what `main` and `th` do without it is one step for each field of `bestMove` they write or copy (`ResetRow` .. `ResetScore`, `ReadRow` .. `ReadDirection`) and for each position they pop (`Drain`). `HangUp` is the server's; `ReceiveNothing` and `ConnectionFails` are what main makes of it |
| `SolverSpec` | what the solver promises its server | `Request`, `Answer`, `Stop`, `GoDeaf`, over the path of moves played |
| `SearcherRefinement` | Searcher implements SolverSpec | refinement mapping: the path is that of the live game, the phase is read off the position of `main` |
| `Array2D` | hw2/Array2D.c | operators that return the code and the array after the call |
| `BoardWindow` | the hw3 program | the callbacks, over several windows in one process |
| `...Props` | | the properties of each, and the invariants their proofs need |
| `RulesProofs` | | lemmas: induction over sets, sums over finite sets, the loops of `BoardRules`, the survivors of a column |
| `...Proofs` | | the theorems: `GameEngineProofs`, `ScoreProofs`, `GameRefinementProofs`, `SearcherProofs`, `MessageHandlerProofs`, `ViewModelProofs`, `BoardWindowProofs` |
| `MC...` | | the constants of the runs |

Every definition's source lines are listed in `PROJECT.json` ("map"). Operators
commented `\* fault:` are not used by any specification: each is a mutated form
of the definition next to it, the way a plausible bug would have it, and the
property it is paired with in `PROJECT.json` ("mutants") is violated when it is
put in its place.

How the modules fit: `ViewModel` builds on `Game4` and passes whole messages,
which is justified by `MessageHandler` (`NothingLost`, `NoFragment`: a peer that
waits for an answer loses nothing) together with its own invariant `OneInFlight`
(the two programs do wait). Both sides of that argument are proved:
`OneMessageInFlight` is the premise `window = 1` under which `NothingIsLost` and
`NoFragmentIsRead` speak. `Searcher` takes the moves and the scores of positions
as constants `Legal` and `Score`; that the moves come from a consistent engine is
what `GameEngine` shows (`GeneratedIsAccepted`), and that maximising the score is
maximising points, `EvaluationFollowsScore`.

### Abstractions

* Candies and squares are small integers in functions; JSON text is the record of
  its values. Formatting, images, colours of widgets and console output are left out.
* `done` is a plain `bool` shared without a lock, which is undefined behaviour in
  C++; it is modelled as a sequentially consistent variable, the outcome x86
  builds of this code give when the loop condition is reloaded after cv.wait.
* `front()` of an empty queue, and `moveHistory.at` out of range, end the program
  (`Terminate`): the exception is not caught in any thread.
* Freed widgets are nondeterministic: the call reads the place of any button that
  may have taken theirs, or the view ends.
* What `redraw` is given after an arrow is the text of a string that was destroyed
  (hw5-view.cc:117): it is still there, or the view ends.
* What lies behind an extension board is any candy but a hole (`Heaps`), chosen
  anew for each message a model handles, or cannot be read and kills the model. A
  -1 there would be a hole that gravity fills from the next row; it is left out.
* The Game of a worker is its path of accepted moves, its `moves` and its history.
* malloc succeeds. Integers are unbounded: scores and counters of a game stay far
  below 2^31.
* References that json_object_get lends and the code releases (hw4/Game.cc:14 and
  others) corrupt jansson's counts; the models take the values as read.
* hw3's sources disagree on the name of the activate handler; the model takes
  the function there is.

## 3. The runs

Bounds are constants named in the modules. All passing runs are exhaustive.

| Run | Instance | What it shows |
|---|---|---|
| `game_small` | every 3x3 board in two colours, extension boards of two rows, one move in every direction from every cell, `MaxSettle` 3 | ranges, no holes, settled boards, refused moves leave no trace, acceptance is three in a line, points equal the wear of squares, what SimpleEvaluator returns grows by at least one and at most `Rows` for each point, every call returns |
| `game_big` | 4x4 boards on which the templates of four overlap and cascades follow | the loops implement `GameSpec`; GenerateMoves lists what Swap accepts |
| `game_tall` | 4 rows, 3 columns | violation: the comment on the break of ApplyGravity is wrong there |
| `search` | two workers, two searches, a tree of games two moves deep, requests once GetBestMove has returned | the answer is the first move of a best position seen, positions belong to the live game, counters are of this search, one search leaves nothing to the next, only the end of the connection ends the program with an exception, main and its threads implement `SolverSpec`, an uninterrupted search visits everything. The server may hang up at any moment |
| `search_early` | one worker per search, two searches, a tree one move deep, requests at any moment, `moves` assigned or not | ranges, also where threads outlive their search, throw, take from an empty queue or are destroyed unjoined |
| `search_stale` | one worker per search, requests at any moment | violation: a thread that setDone did not join queues positions of the old game |
| `search_wakeup` | one request | violation: a lost wakeup blocks `join` for ever |
| `messages` | three messages, reads of up to four bytes, every cut, writes that fail or write nothing, a reset at any moment, peers 1 to 3 messages ahead | order; for a peer that waits no fragments, and nothing lost but what a reset or a failed write swallowed |
| `messages_ahead` | a peer two ahead | violation: the message behind another in one read is lost |
| `play` | 2x3 board, two models, two arrows, kills, interruptions and failures at any point; a file whose offset is one past an extension board of two rows | one message in flight, window = game, arrows move what they point at, a game read back is the same but for its moves, a model that is served stays, no model fails while the view runs, arrows are answered, served models end |
| `play_readback` | as `play` | violation: a game read back has made no moves |
| `window` | 2x3 and 3x2 boards, two opens, three swaps | the hw3 window shows its board, arrows, no candy doubled or lost |

Why the bounds are enough. The engine works column by column and template by
template: 3x3 is the smallest board on which a template fits both ways and
misses both ways, 4x4 the smallest for the templates of four and for overlaps
that fire twice; two extension rows make the offsets wrap. The proofs cover the
other sizes. Two workers are enough for every race in Searcher, which are between
`main` or `th` and one worker, or between two workers at `bestMove`. Two searches
show what one leaves to the next. Reads of at most four bytes against messages of
up to seven let a read end before, at and after the end of a message.
Two models show what the view carries over from one client to the next.

CHECK_DEADLOCK is off in all runs because each program may stop: the server may
send nothing more, the user may do nothing more, the moves of the bound are made.

### Fairness

* `GameEngine`: WF of the steps inside a call. It is sequential code that waits
  for nothing.
* `Searcher`: WF for `main`, `th` and each thread; SF for taking the mutex, which
  is a mutex that every holder releases after finitely many steps. None for the
  server's messages, for its hanging up, nor for spurious wakeups.
* `MessageHandler`: WF of the receiver, which calls GetNextMessage in a loop. None
  for the peer.
* `ViewModel`: WF of the view's own steps and of each model's reads, which return
  when there is something to read. None for the user, for connecting or for kills.
* `BoardWindow`: none; only safety is checked.

### Disagreements with the repository's own text

1. hw6/Game.cc:388, "everything above cap is from the extension board and so
   cannot be -1": not on boards higher than wide (`game_tall`). Proved true for
   `Rows <= Cols` (`BreakIsSound`).
2. hw6/Searcher.cc:43, the chain of moves "from the live game state"
   (`search_stale`). A request comes when GetBestMove has pushed its root and
   started no thread: setDone has nobody to join. The thread that th then starts
   finds `done` false again and takes the root, setDone finds the queue empty, and
   the thread queues positions of the old game behind it, which are still there
   when main has played the answer.
3. HW6 Documentation, "Every time the server asks for an update, the program will
   send the update": lost wakeup in setDone (`search_wakeup`).
4. HW6 Documentation, on the rewritten networking code: bytes after the end of
   a message are dropped (`messages_ahead`).
5. hw4/Game.cc:56 and hw6/Game.cc:90, "get boardCandies and boardState from
   gameState, moves, score, offset": moves is read from the key `moves`, and
   written, in files and by SerializeCurrentState, as `movesmade`
   (`play_readback`).

## 4. What is proved

TLC checked every property below on the instances of section 3 before it was
proved; the theorems hold for every value of the constants that satisfies the
assumption of the module and the hypotheses named here. Each module proves one
inductive invariant: it holds in `Init`, each action keeps it (one lemma or step
per action), and the properties follow from it.

### The game engine (`GameEngineProofs`)

Every `Rows`, `Cols`, `ExtRows`, `Colors`, `Files`, `MaxSettle`, `MaxMoves` and
`Garbage` that satisfy `BoardAssumption` (positive sizes, colours are integers other than -1)
and `EngineAssumption` (files are well formed).

| Theorem | Statement | Argument |
|---|---|---|
| `TypeCorrect` | `Spec => []TypeOK` | inductive by itself, one step per action, with lemmas for each board operator |
| `NoHolesAtRest` | `[]FullAtRest` if `Rows <= Cols` | `FillInv`: columns and rows behind the cursor are full, the rows gravity added at the top are full (`GravityFills`), and outside gravity a hole implies that this pass fired (`FullTillFired`). FullAtRest alone is not inductive: it says nothing while gravity runs |
| `BreakIsSound` | `[]BreakSkipsNoHole` if `Rows <= Cols` | from `FillInv`: ShiftDown ran `Cols - cap` times in this column, so the top `Cols - cap` rows are new |
| `SettledAtRest`, `RejectionRestores`, `AcceptanceIsALine` | `[]SettledOrCapped`, `[]RejectedRestores`, `[]AcceptedIffLine` | `SettleInv`: as long as nothing fired, nothing behind the scan cursor matches and the board is the one the call exchanged (`NoMatchBehind`, `SwapSoFar`); a pass that ends quietly has scanned every position (`QuietPassHasNoLine`) |
| `GenerationIsAcceptance` | `[]GeneratedIsAccepted` | `SettleInv` and `PairAdjacent` (Swap works on neighbours), with `FiresIsLine` |

### The loops, the sums and the columns (`RulesProofs`)

The model computes with recursive functions and with sums over sets. What they
do is proved by induction, stated for sets rather than for predicates, because
the prover cannot instantiate a theorem whose parameter is an operator:
`NatSet` (a set of naturals with 0 and successors is Nat) and `FiniteSet` (a set
of sets that grows by one element holds every finite set). From these follow

* `Recursion`: a loop that maps a set of games into itself has a function that
  gives the game after each number of iterations; `ColumnsLoop`, `RowsLoop`,
  `TemplatesLoop` give the equations of Settle's three loops, `PassKeeps` that
  what every MatchTemplate keeps a pass keeps;
* `SumEquation`, `SumOut`, `SumsBetween`: the sum of a function over a finite set
  does not depend on the order, and two functions that differ by `lo..hi` on `n`
  elements have sums that differ by `lo * n .. hi * n`;
* `RankSteps`, `RankGrows`, `RankOnto`, `SurvivorIs`: counting the candies of a
  column from the bottom up numbers them without gaps.

### The score (`ScoreProofs`)

| Theorem | Statement | Argument |
|---|---|---|
| `PointsAreWear` | `[]ScoreAccounts` | one firing scores as many points as it takes from the squares (`WearIsPoints`, by `SumsBetween`); no other step changes either |
| `EvaluationIsScore` | `[]EvaluationFollowsScore` | a unit taken from a square in row r is worth `Rows - r` to Evaluate, which is in `1..Rows`; the invariant adds up over any number of firings |

### A call as a whole (`GameRefinementProofs`)

`GameImplementsSpec`: if `Rows <= Cols`, `Spec => ImplementsGameSpec`, for every
board, file and bound. Without the hypothesis it is false (`game_tall`).
`GameSpec` fires the templates of a pass in scan order and packs each column in
one step; GameEngine moves a cursor over the board and shifts columns down one
candy at a time. `CallInv` says, at each step in between, where in the whole
effect of the call the loops are:

* `ScanInv`: the board is the one that began this pass, tried up to the cursor
  (`ScannedTo`); if the pass has fired nothing it is unchanged, and if it has then
  that board does fire;
* `FallInv`: columns left of the cursor are packed (`Done`), those right of it are
  untouched (`Untouched`), and in the column under it the rows below the cursor
  are packed, the rest is what gravity takes from (`Stream`: the column, then the
  extension board) moved down by the number of ShiftDowns so far, and exactly as
  many candies have been passed as rows are filled (`Under`);
* `CallerInv`: what Init read from the file, and that the bound on moves leaves
  room for the move under way.

Nothing weaker is inductive: ShiftDown overwrites what it moves, so that the
state no longer shows the board gravity began with. TLC checked `CallInv` on the
instance of `game_big`. The step lemmas prove it action by action
(`TriedAdvances`, `DroppedUnder`, `RowPacked`, `ColumnPacked`, `RoundDone`); the
step that needs `Rows <= Cols` is the break of the row loop (`ColumnPacked`).
When Settle returns, the board is where GameSpec's passes end (`SettleReturns`;
after a quiet pass the later ones change nothing, `QuietForGood`), so a return
maps to `Load`, `Accepted` or `Refused`, and every other step to a stutter.

### The search (`SearcherProofs`)

Any set of workers, any number of threads and requests, any tree of games.
Hypotheses, each of which the theorem states:

* `WellFormed`: `Legal` returns a sequence of moves and `Score` an integer.
* `Sound`: `WellFormed`, the server leaves GetBestMove the time to return
  (`Paced`), and the game was read with its moves (`MovesLoaded = {0}`). Without
  `Paced` a thread of an old search goes on beside the new one (`search_stale`);
  without the moves `depth` points anywhere in `moveHistory`, and a thread throws
  (`EvaluateOutOfRange`, which `search_early` reaches).
* `WorstIsWorst`: every position scores more than `bestMove` starts from.
* `NoRepeats`: GenerateMoves lists no move twice, which its loops guarantee.

| Theorem | Statement | Argument |
|---|---|---|
| `TypeCorrect` (`WellFormed`) | `[]TypeOK` | types, and `Underway`: a thread between Evaluate and Notify has a move under way |
| `NoneTerminated`, `NothingLeftBehind` (`Sound`) | `[]NeverTerminated`, `[]SearchIsOver` | `StopInv`: who holds the mutex, how far `setDone` has come with the threads there are (`StoppedInOrder`), and that a thread which left the wait loop finds a position or `done` (`SomethingToTake`). |
| `QueueIsLive` (`Sound`) | `[]QueueExtendsLiveGame` | `GameInv`: every position in the queue or in a thread descends from the live game by legal moves (`Lineage`), and `bestMove`, when it is not being reset, and what main has copied of it are one of its moves (`BestIsLegal`) |
| `BestIsBest` (`Sound`, `WorstIsWorst`) | `[]BestIsBestSeen` | `BestInv` adds that `bestMove` keeps its first score until there is something to compare with |
| `ReportIsExact` (`Sound`, `NoRepeats`, finitely many workers) | `[]ReportCountsSearch` | `CountInv`: the counter is the number of positions evaluated and about to be, and no position is queued or expanded twice (`TreeOnce`), so that the number of evaluations is a cardinality |
| `SearcherImplements` (`Sound`) | `Spec => ImplementsSolver` | the initial state and each step map to a step of `SolverSpec` or a stutter, by `GameInv`: the answer is a legal move of the live game |

### The messages (`MessageHandlerProofs`)

Any messages, any size of a read, any cut; no hypothesis but `MessageAssumption`
(the braces of a message match at its end and not before).

| Theorem | Statement | Argument |
|---|---|---|
| `TypeCorrect`, `MessagesInOrder` | `[]TypeOK`, `[]InOrder` | `CommonInv`: `bracketCount` is the depth of what this call has kept (`BracesCounted`), and the bytes kept, on the wire and still to be written are in the order of their messages, all of them behind the messages returned (`OrderInv`). InOrder alone says nothing of the bytes that will become a message |
| `NothingIsLost`, `NoFragmentIsRead` | `[]NothingLost`, `[]NoFragment` | `PatientInv`: with one message outstanding, the bytes kept, on the wire, swallowed and unwritten concatenate to it, those that were swallowed coming after all that will still be read, and what is kept is a proper prefix; as no proper prefix of a message is balanced, the count of braces ends at its last byte |

### The view and its models (`ViewModelProofs`)

Any number of models, any kills, interruptions and failures, and any board and
files that satisfy `Game4Assumption`: the board is at least as wide as high, and
offsets are at most `MaxOffset`, any natural. In all rows but those of
`TypeCorrect` and `GameIsReadBack` what a move does to a game plays no part.

| Theorem | Statement | Argument |
|---|---|---|
| `OneMessageInFlight`, `ModelsSurvive` | `[]OneInFlight`, `[]ModelsSurviveUnlessAlone` | `Protocol`: for each state of a model what may be in its two queues (`Flow`), what holds of the models waiting, served and closed (`Queued`), and of the one the view is with (`Served`) |
| `ScreenIsGame`, `ArrowsAreRight` | `[]ScreenShowsGame`, `[]ArrowMovesWhatItShows` | `Current`: an update on its way carries the game the model holds, and the window was drawn from the last one; `Clicked`: a move on its way is the arrow the user pressed, in the model's numbering |
| `TypeCorrect` | `[]TypeOK` | `Typed`: whatever is in a queue, a file or a window is a game of the right ranges (`Letter`), because Init, Swap and Settle return games (`SettleType`, from `PassKeeps` and `GravityType`). An offset is one the file named, or was wrapped at the rows (`NextRowType`); nothing relates it to the rows of the extension board, and what is read behind that board is a candy of `heap` |
| `GameIsReadBack` | `[]ReadBackButMoves` | `ReadBackIs`: a board on which nothing fires passes through Settle unchanged, and each other member is written and read under the same key but the moves |
| `ServedModelRemains` | `[]ServedModelStays` | `Protocol`: a model exits only when it reads the bye of a view that has moved on (`Queued`), and ends only when the view is gone |

### The first window (`BoardWindowProofs`)

Files and boards of any size, any number of windows and swaps. `NullApart` says
that the null pointer is neither an array nor a candy.

| Theorem | Statement | Argument |
|---|---|---|
| `TypeCorrect` | `[]TypeOK` | `BoardIsFile`: after `i` numbers the first `i` cells are filled. The recursive function of the loop is replaced by a closed form that satisfies its equation, and every solution agrees with it: a least index at which it did not would contradict the step (`FillNext`) |
| `EachIsFreedOnce` | `[]EachFreedOnce` | a swap exchanges two values of a function, which keeps each value at one place (`ExchangeKeepsOnce`) |
| `WindowIsBoard` | `[]WindowShowsBoard` | `row * cols + col` tells the cells apart (`CellsApart`), so that the buttons which are not drawn again still show their candies (`BoardExchanged`); `Frames`: the newest window has the buttons of the board |
| `ArrowsMoveAsPointed` | `SwapMovesAsPointed` | the same lemmas, and that the two ways of turning rows over agree (`Steps`) |

### Only model-checked

* Liveness: `CallReturns`, `SearchExhausts`, `PatientPeerIsHeard`,
  `ClickIsAnswered`, `ServedModelsEnd`. It needs fairness and ENABLED, which the
  prover does not handle.
* The violations of the five runs that expect one, which are single behaviours.

Every safety property of every passing run is stated by a theorem.

## 5. Not modelled

* hw4's window: hw4.cc does not compile (stray text at line 29) and passes a path
  where Game::Init parses JSON (line 185). hw5's view is its successor.
* hw2's driver program, which calls each function of Array2D once, in a straight
  line. What it frees too early (set_array, hw2.c:51) needs a model of the heap.
* SerializeCurrentState, IsWon and the accessors of hw6/Game.cc change no state.
  What SerializeCurrentState writes goes into the answer (hw6.cc:84) to a server
  whose source is not in the repository; deep copies are values of the model.
* Undefined behaviour of the heap other than that of freed widgets, among it the
  reference counts of jansson that hw4's Game releases without owning.
* A connection of the solver that ends in the middle of a message, of which
  GetNextMessage parses what there is (`MessageHandler` has that case).
* Two view programs on one desktop, which GApplication would merge.
* Name resolution, port binding and the demonstration programs.
* The game server and the sample solutions, which are binaries. jansson with its
  documentation is vendored: the scripts of its generated HTML pages (jQuery,
  Underscore, the search of Sphinx) are run by no program of the repository. They
  are all the JavaScript there is in it, and none of it is modelled.

## 6. Plan

Done: Board, GameEngine with its specification, refinement and proofs; Searcher
with the end of the connection, its specification, refinement and proofs;
Evaluator and the sums; MessageHandler and its proofs; the two programs of hw5
over Game4 and their proofs; Array2D and the window of hw3 and its proofs.

What is left, in this order:

1. An abstract channel that MessageHandler implements for a peer that waits, so
   that what `ViewModel` assumes of its queues is a refinement and not two
   invariants that fit together.
2. hw2's driver over Array2D with a heap: set_array frees before it sets.
