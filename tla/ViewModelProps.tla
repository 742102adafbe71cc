---------------------------- MODULE ViewModelProps ----------------------------
(***************************************************************************)
(* What the user of the view may rely on, and what the two programs of hw5 *)
(* do to each other when one of them is gone.                              *)
(***************************************************************************)
EXTENDS ViewModel

Content == [row: RowIds, column: ColIds, direction: 0..3]
           \cup Instance \cup {<<>>}
MessageType == [type: {"hello", "helloack", "update", "move", "bye"},
                content: Content]
Screen == [color: [Cell -> Candy], state: [Cell -> Nat], moves: Int, score: Int]

(* Every variable keeps its range: what is sent can be read by the other   *)
(* side, and gravity reads no row beyond the largest offset a file named.  *)
TypeOK ==
    /\ view \in {"accept", "deaf", "hello", "opening", "window", "awaiting",
                 "leaving", "ended", "killed"}
    /\ client \in Clients \cup {Nobody} /\ closed \subseteq Clients
    /\ selected = NoCandy \/ selected \in [window: Clients, button: Cell]
    /\ screen = NoScreen \/ screen \in Screen
    /\ file \in Files /\ presses \in 0..MaxPresses
    /\ \A c \in Clients :
          /\ model[c] \in
                {"off", "connected", "greeting", "playing", "spinning"} \cup Gone
          /\ game[c] = NoGame \/ game[c] \in Game
          /\ \A i \in 1..Len(toView[c]) : toView[c][i] \in MessageType
          /\ \A i \in 1..Len(toModel[c]) : toModel[c][i] \in MessageType

-----------------------------------------------------------------------------
(* No message is sent before the one sent before it was read, so that      *)
(* GetNextMessage loses none (MessageHandler is safe for a peer that       *)
(* waits).                                                                 *)
OneInFlight ==
    \A c \in Clients : ~ModelGone(c) => Len(toView[c]) + Len(toModel[c]) <= 1

(* When the user can act, the window shows the game the model holds, candy *)
(* by candy, with its moves and its score.                                 *)
ScreenShowsGame ==
    view = "window" /\ ~ModelGone(client) =>
        LET g == game[client] IN
        /\ \A b \in Cell : /\ screen.color[b] = g.candies[Flip(b)]
                           /\ screen.state[b] = g.squares[Flip(b)]
        /\ screen.moves = g.moves /\ screen.score = g.score

(* The candies a model exchanges are the one selected in the window and    *)
(* the one the arrow points at there.                                      *)
Beside(b, arrow) ==
    CASE arrow = "left" -> <<b[1], b[2] - 1>>
      [] arrow = "right" -> <<b[1], b[2] + 1>>
      [] arrow = "up" -> <<b[1] - 1, b[2]>>
      [] arrow = "down" -> <<b[1] + 1, b[2]>>
FromBottom(b) == <<Rows - 1 - b[1], b[2]>>
ArrowMovesWhatItShows ==
    view = "awaiting" /\ clicked # NoCandy /\ toView[client] # <<>> =>
        swapped = <<FromBottom(clicked.button),
                    FromBottom(Beside(clicked.button, clicked.arrow))>>

(* A game that has settled is the same game when it is written and read    *)
(* again by Init: its candies, squares, offsets and score, which decide    *)
(* every later move.  Nothing is said of its moves.                        *)
Settled(c) == game[c] # NoGame /\ ~Fires(game[c].candies)
ReadBack(g) ==
    GameInit([NoGame EXCEPT !.heap = g.heap], SerializeCurrentState(g))
ReadBackButMoves ==
    \A c \in Clients :
        Settled(c) => [ReadBack(game[c]) EXCEPT !.moves = 0]
                          = [game[c] EXCEPT !.moves = 0]

(* Its moves are read back too, as the comment of Init says that they are. *)
ReadBackWithMoves ==
    \A c \in Clients : Settled(c) => ReadBack(game[c]) = game[c]

(* While the view serves a model, that model does not leave: only a kill   *)
(* takes it away.                                                          *)
ServedModelStays ==
    ~ViewGone /\ client # Nobody /\ ModelGone(client) =>
        model[client] = "killed"

(* While the view runs no model spins or fails.                            *)
ModelsSurviveUnlessAlone ==
    ~ViewGone => \A c \in Clients : model[c] \notin {"spinning", "ended"}

-----------------------------------------------------------------------------
(* The window never hangs: an arrow is answered, or the view ends.         *)
ClickIsAnswered == view = "awaiting" ~> view # "awaiting"

(* A model that was served ends. *)
ServedModelsEnd ==
    \A c \in Clients : c \in closed ~> ModelGone(c)

-----------------------------------------------------------------------------
(* The invariants from which the safety properties follow, for any number  *)
(* of models, any board and any files.                                     *)
One(s, types) == s # <<>> /\ s = <<s[1]>> /\ s[1].type \in types
Idle(c) == toView[c] = <<>> /\ toModel[c] = <<>>

Ranges ==
    /\ view \in {"accept", "deaf", "hello", "opening", "window", "awaiting",
                 "leaving", "ended", "killed"}
    /\ DOMAIN model = Clients /\ DOMAIN game = Clients
    /\ DOMAIN toView = Clients /\ DOMAIN toModel = Clients
    /\ \A c \in Clients :
          model[c] \in {"off", "connected", "greeting", "playing",
                        "spinning"} \cup Gone
    /\ selected # NoCandy => selected.button \in Cell

(* What may be on its way to and from a model in each of its states. *)
Flow(c) ==
    /\ model[c] \in {"off", "connected"} => Idle(c)
    /\ model[c] = "greeting" =>
          \/ One(toView[c], {"hello"}) /\ toModel[c] = <<>>
          \/ toView[c] = <<>> /\ One(toModel[c], {"helloack"})
    /\ model[c] = "playing" =>
          \/ Idle(c)
          \/ One(toView[c], {"update"}) /\ toModel[c] = <<>>
          \/ toView[c] = <<>> /\ One(toModel[c], {"move", "bye"})
    /\ model[c] = "spinning" => toModel[c] = <<>>
    /\ toView[c] = <<>> \/ One(toView[c], {"hello", "update"})

(* While the view runs: the models it has served, and those that wait. *)
Queued(c) ==
    /\ model[c] \notin {"spinning", "ended"}
    /\ model[c] = "exited" => c \in closed
    /\ c \in closed /\ ~ModelGone(c) =>
          model[c] = "playing" /\ toView[c] = <<>> /\ One(toModel[c], {"bye"})
    /\ c \notin closed \cup {client} /\ ~ModelGone(c) =>
          \/ model[c] \in {"off", "connected"}
          \/ model[c] = "greeting" /\ One(toView[c], {"hello"})

(* The one it serves. *)
Served ==
    /\ view \in {"accept", "deaf"} <=> client = Nobody
    /\ client # Nobody => client \in Clients \ closed /\ model[client] # "off"
    /\ view \in {"window", "leaving"} => toView[client] = <<>>
    /\ client # Nobody /\ ~ModelGone(client) =>
          /\ view = "hello" =>
                \/ model[client] = "connected"
                \/ model[client] = "greeting" /\ One(toView[client], {"hello"})
          /\ view = "opening" =>
                \/ model[client] = "greeting" /\ One(toModel[client], {"helloack"})
                \/ model[client] = "playing" /\ One(toView[client], {"update"})
          /\ view = "awaiting" =>
                /\ model[client] = "playing"
                /\ One(toView[client], {"update"}) \/ One(toModel[client], {"move"})
          /\ view \in {"window", "leaving"} =>
                model[client] = "playing" /\ Idle(client)

Protocol ==
    /\ Ranges /\ \A c \in Clients : Flow(c)
    /\ ~ViewGone => Served /\ \A c \in Clients : Queued(c)

(* An update carries the game as it is, and the window shows it. *)
Current ==
    ~ViewGone /\ client # Nobody /\ ~ModelGone(client) =>
        /\ One(toView[client], {"update"}) =>
              toView[client][1].content = SerializeCurrentState(game[client])
        /\ view = "window" =>
              screen = Shown(SerializeCurrentState(game[client]))

(* The move under way is the one that was clicked. *)
Clicked ==
    view = "awaiting" /\ clicked # NoCandy =>
        /\ clicked.button \in Cell /\ clicked.arrow \in Arrows
        /\ ~ModelGone(client) /\ One(toModel[client], {"move"}) =>
              toModel[client][1].content =
                  [row |-> clicked.button[1], column |-> clicked.button[2],
                   direction |-> Dir(clicked.arrow)]
        /\ toView[client] # <<>> =>
              swapped = <<FromBottom(clicked.button),
                          FromBottom(Beside(clicked.button, clicked.arrow))>>
==============================================================================
