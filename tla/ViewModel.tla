------------------------------- MODULE ViewModel -------------------------------
(***************************************************************************)
(* The two programs of hw5.  The view is a server that shows the game of   *)
(* one client at a time in a window and sends it the moves its user makes; *)
(* a model is a client that owns the Game and answers every move with an   *)
(* update.  Models connect whenever they like and wait for their turn.     *)
(*                                                                         *)
(* A message is a record: MessageHandler delivers whole messages as long   *)
(* as no two are on their way in one direction, which is OneInFlight of    *)
(* ViewModelProps.                                                         *)
(***************************************************************************)
EXTENDS Game4, Sequences

CONSTANTS Clients,    \* the model programs that may connect
          Files,      \* contents the file of the view may have
          Heaps,      \* what may lie behind the extension board
          MaxPresses, \* bound of the model on the arrows pressed
          Failures,   \* processes may be killed, accept fail
          Nobody, NoCandy, NoScreen

ASSUME ViewModelAssumption ==
    /\ Files \subseteq Instance /\ Heaps \subseteq Heap /\ MaxPresses \in Nat
    /\ Failures \in BOOLEAN /\ Nobody \notin Clients

VARIABLES view,       \* where the view program is
          client,     \* the client it serves
          closed,     \* the clients it has served
          selected,   \* the button of the candy selected, and its window
          screen,     \* what the window shows
          file,
          model,      \* where each model program is
          game,       \* the Game of each
          toView, toModel,   \* the two directions of each connection
          presses,    \* arrows pressed
          clicked,    \* history variable: button and arrow of the move under way
          swapped     \* history variable: the cells given to Swap for it

viewVars == <<view, client, closed, selected, screen, file, presses, clicked>>
modelVars == <<model, game, swapped>>
vars == <<viewVars, modelVars, toView, toModel>>

-----------------------------------------------------------------------------
(* Button <<i, j>> is the j-th of the i-th row of the window, from the top;*)
(* it shows the candy of this cell.                                        *)
Flip(b) == <<Rows - b[1] - 1, b[2]>>

(* The "bits" of the arrow buttons, and what a model makes of them. *)
Arrows == {"left", "right", "up", "down"}
DirSwapped(a) ==  \* fault: up and down are interchanged
    CASE a = "left" -> 0 [] a = "right" -> 1 [] a = "down" -> 3 [] a = "up" -> 2
Dir(a) ==
    CASE a = "left" -> 0 [] a = "right" -> 1 [] a = "down" -> 2 [] a = "up" -> 3
Towards(x, dir) ==
    CASE dir = 0 -> <<x[1], x[2] - 1>> [] dir = 1 -> <<x[1], x[2] + 1>>
      [] dir = 2 -> <<x[1] - 1, x[2]>> [] dir = 3 -> <<x[1] + 1, x[2]>>

(* What Info_Container reads from an update, as redraw shows it. *)
Shown(u) ==
    [color |-> [b \in Cell |-> u.gamestate.candies[Flip(b)]],
     state |-> [b \in Cell |-> u.gamestate.squares[Flip(b)]],
     moves |-> u.gamestate.movesmade, score |-> u.gamestate.score]

Message(type, content) == [type |-> type, content |-> content]
Gone == {"exited", "ended", "killed"}
ModelGone(c) == model[c] \in Gone
ViewGone == view \in Gone

Init ==
    /\ view = "accept" /\ client = Nobody /\ closed = {}
    /\ selected = NoCandy /\ screen = NoScreen /\ file \in Files
    /\ model = [c \in Clients |-> "off"] /\ game = [c \in Clients |-> NoGame]
    /\ toView = [c \in Clients |-> <<>>] /\ toModel = [c \in Clients |-> <<>>]
    /\ presses = 0 /\ clicked = NoCandy /\ swapped = <<>>

-----------------------------------------------------------------------------
(* The view.  A write to a model that is gone goes nowhere or ends the     *)
(* view (SIGPIPE, or an exception that main or GTK does not survive).      *)
Tell(m, then) ==
    IF ModelGone(client)
    THEN view' \in {then, "ended"} /\ UNCHANGED toModel
    ELSE view' = then /\ toModel' = [toModel EXCEPT ![client] = Append(@, m)]

Heard(type) == toView[client] # <<>> /\ Head(toView[client]).type = type
Hear == toView' = [toView EXCEPT ![client] = Tail(@)]
HungUp == toView[client] = <<>> /\ ModelGone(client)

Accept(c) ==
    /\ view = "accept" /\ model[c] # "off" /\ c \notin closed
    /\ view' = "hello" /\ client' = c
    /\ UNCHANGED <<closed, selected, screen, file, presses, clicked, modelVars,
                   toView, toModel>>

(* Accept returns false and descriptor -1, which the view does not look    *)
(* at: GetNextMessage reads from -1, and again, for ever.                  *)
AcceptInterrupted ==
    /\ Failures /\ view = "accept" /\ view' = "deaf"
    /\ UNCHANGED <<client, closed, selected, screen, file, presses, clicked,
                   modelVars, toView, toModel>>

(* Any other error of accept is thrown, and main returns. *)
AcceptFails ==
    /\ Failures /\ view = "accept" /\ view' = "ended"
    /\ UNCHANGED <<client, closed, selected, screen, file, presses, clicked,
                   modelVars, toView, toModel>>

(* The application is run: open sends the file and activate waits for the  *)
(* update.                                                                 *)
Open ==
    /\ view = "hello" /\ Heard("hello") /\ Hear
    /\ Tell(Message("helloack", file), "opening")
    /\ UNCHANGED <<client, closed, selected, screen, file, presses, clicked,
                   modelVars>>

(* The client is gone: no hello, or read fails and main returns. *)
NoHello ==
    /\ view = "hello" /\ HungUp
    /\ view' \in {"leaving", "ended"}
    /\ UNCHANGED <<client, closed, selected, screen, file, presses, clicked,
                   modelVars, toView, toModel>>

(* The first update makes the window, the others are drawn in it. *)
RedrawBoardOnly ==  \* fault: the labels are not written again
    /\ view \in {"opening", "awaiting"} /\ Heard("update") /\ Hear
    /\ view' = "window"
    /\ LET new == Shown(Head(toView[client]).content) IN
           screen' = IF screen = NoScreen THEN new
                     ELSE [new EXCEPT !.moves = screen.moves,
                                      !.score = screen.score]
    /\ clicked' = NoCandy /\ swapped' = <<>>
    /\ UNCHANGED <<client, closed, selected, file, presses, model, game,
                   toModel>>

Redraw ==
    /\ view \in {"opening", "awaiting"} /\ Heard("update") /\ Hear
    /\ view' = "window"
    /\ screen' = Shown(Head(toView[client]).content)
    /\ clicked' = NoCandy /\ swapped' = <<>>
    /\ UNCHANGED <<client, closed, selected, file, presses, model, game,
                   toModel>>

(* After an arrow, redraw is given the text of a string that is destroyed: *)
(* it may still be there (Redraw), or what took its place does not parse,  *)
(* and Info_Container follows null pointers.                               *)
RedrawDangling ==
    /\ view = "awaiting" /\ Heard("update") /\ Hear
    /\ view' = "ended"
    /\ UNCHANGED <<client, closed, selected, screen, file, presses, clicked,
                   modelVars, toModel>>

(* An update that is not there: Info_Container follows null pointers. *)
RedrawNothing ==
    /\ view \in {"opening", "awaiting"} /\ HungUp
    /\ view' = "ended"
    /\ UNCHANGED <<client, closed, selected, screen, file, presses, clicked,
                   modelVars, toView, toModel>>

(* selected outlives the window its button was in. *)
Stale == selected # NoCandy /\ client # Nobody /\ selected.window # client

(* ccselect.  The relief of a button that was freed may be written. *)
Select(b) ==
    /\ view = "window"
    /\ \/ selected' = [window |-> client, button |-> b] /\ UNCHANGED view
       \/ Stale /\ view' = "ended" /\ UNCHANGED selected
    /\ UNCHANGED <<client, closed, screen, file, presses, clicked, modelVars,
                   toView, toModel>>

(* ccswap, from button b. *)
SendMove(b, a) ==
    /\ view = "window" /\ presses < MaxPresses /\ presses' = presses + 1
    /\ Tell(Message("move", [row |-> b[1], column |-> b[2],
                             direction |-> Dir(a)]), "awaiting")
    /\ UNCHANGED <<client, closed, selected, screen, file, modelVars, toView>>

Press(a) ==
    /\ selected # NoCandy /\ ~Stale
    /\ SendMove(selected.button, a)
    /\ clicked' = [button |-> selected.button, arrow |-> a]

(* The position of a button that was freed: any that has taken its place,  *)
(* or none, and the view ends.                                             *)
PressStale(a) ==
    /\ Stale
    /\ clicked' = NoCandy
    /\ \/ \E b \in Cell : SendMove(b, a)
       \/ /\ view = "window" /\ view' = "ended"
          /\ UNCHANGED <<client, closed, selected, screen, file, presses,
                         modelVars, toView, toModel>>

CloseWindowAtOnce ==  \* fault: the window also closes during a move
    /\ view \in {"window", "awaiting"}
    /\ view' = "leaving" /\ screen' = NoScreen
    /\ UNCHANGED <<client, closed, selected, file, presses, clicked, modelVars,
                   toView, toModel>>

CloseWindow ==
    /\ view = "window" /\ view' = "leaving" /\ screen' = NoScreen
    /\ UNCHANGED <<client, closed, selected, file, presses, clicked, modelVars,
                   toView, toModel>>

(* bye, and the end of the connection. *)
LeaveWithoutBye ==  \* fault: the connection is closed without bye
    /\ view = "leaving" /\ view' = "accept"
    /\ closed' = closed \cup {client} /\ client' = Nobody
    /\ UNCHANGED <<selected, screen, file, presses, clicked, modelVars, toView,
                   toModel>>

SayBye ==
    /\ view = "leaving" /\ Tell(Message("bye", <<>>), "accept")
    /\ closed' = closed \cup {client} /\ client' = Nobody
    /\ UNCHANGED <<selected, screen, file, presses, clicked, modelVars, toView>>

KillView ==
    /\ Failures /\ ~ViewGone /\ view' = "killed"
    /\ UNCHANGED <<client, closed, selected, screen, file, presses, clicked,
                   modelVars, toView, toModel>>

-----------------------------------------------------------------------------
(* A model.                                                                *)

ModelStep(c, from, to) == model[c] = from /\ model' = [model EXCEPT ![c] = to]
Answer(c, g) ==
    toView' = [toView EXCEPT ![c] =
                  Append(@, Message("update", SerializeCurrentState(g)))]
Told(c, type) == toModel[c] # <<>> /\ Head(toModel[c]).type = type
TakeIn(c) == toModel' = [toModel EXCEPT ![c] = Tail(@)]

Connect(c) ==
    /\ ~ViewGone /\ ModelStep(c, "off", "connected")
    /\ UNCHANGED <<viewVars, game, swapped, toView, toModel>>

SayHello(c) ==
    /\ ModelStep(c, "connected", "greeting")
    /\ toView' = [toView EXCEPT ![c] = Append(@, Message("hello", <<>>))]
    /\ UNCHANGED <<viewVars, game, swapped, toModel>>

(* The game of c, with what lies behind its extension board when a message *)
(* is handled.                                                             *)
Facing(c, heap) == [game[c] EXCEPT !.heap = heap]

Begin(c) ==
    /\ Told(c, "helloack") /\ TakeIn(c) /\ ModelStep(c, "greeting", "playing")
    /\ \E heap \in Heaps :
       \E g \in {GameInit(Facing(c, heap), Head(toModel[c]).content)} :
           game' = [game EXCEPT ![c] = g] /\ Answer(c, g)
    /\ UNCHANGED <<viewVars, swapped>>

(* deserializeAndApplyMove, and the update whatever Swap returned. *)
Moved(c) ==
    LET m == Head(toModel[c]).content
        a == Flip(<<m.row, m.column>>)
    IN  <<a, Towards(a, m.direction)>>

PlayMoveAcceptedOnly(c) ==  \* fault: a move that changes nothing is not answered
    /\ Told(c, "move") /\ TakeIn(c) /\ ModelStep(c, "playing", "playing")
    /\ swapped' = Moved(c)
    /\ \E heap \in Heaps :
       \E g \in {Swap(Facing(c, heap), Moved(c)[1], Moved(c)[2])} :
           /\ game' = [game EXCEPT ![c] = g]
           /\ IF g = Facing(c, heap) THEN UNCHANGED toView ELSE Answer(c, g)
    /\ UNCHANGED viewVars

PlayMoveOrLeave(c) ==  \* fault: a move off the board ends the model
    /\ Told(c, "move") /\ TakeIn(c) /\ swapped' = Moved(c)
    /\ \E heap \in Heaps :
       \E g \in {Swap(Facing(c, heap), Moved(c)[1], Moved(c)[2])} :
           /\ game' = [game EXCEPT ![c] = g]
           /\ IF Moved(c)[2] \in Cell
              THEN ModelStep(c, "playing", "playing") /\ Answer(c, g)
              ELSE ModelStep(c, "playing", "exited") /\ UNCHANGED toView
    /\ UNCHANGED viewVars

PlayMove(c) ==
    /\ Told(c, "move") /\ TakeIn(c) /\ ModelStep(c, "playing", "playing")
    /\ swapped' = Moved(c)
    /\ \E heap \in Heaps :
       \E g \in {Swap(Facing(c, heap), Moved(c)[1], Moved(c)[2])} :
           game' = [game EXCEPT ![c] = g] /\ Answer(c, g)
    /\ UNCHANGED viewVars

ReadBye(c) ==
    /\ Told(c, "bye") /\ TakeIn(c) /\ ModelStep(c, "playing", "exited")
    /\ UNCHANGED <<viewVars, game, swapped, toView>>

(* The view has closed the connection, and everything it sent was read: a  *)
(* message without a type.  Init follows null pointers; the loop ignores   *)
(* the message and asks for the next one, for ever.                        *)
Over(c) == toModel[c] = <<>> /\ (ViewGone \/ c \in closed)

BeginNothing(c) ==
    /\ Over(c) /\ ModelStep(c, "greeting", "ended")
    /\ UNCHANGED <<viewVars, game, swapped, toView, toModel>>

Spin(c) ==
    /\ Over(c) /\ ModelStep(c, "playing", "spinning")
    /\ UNCHANGED <<viewVars, game, swapped, toView, toModel>>

(* The view is gone: a read or a write fails and the program returns. *)
ModelFails(c) ==
    /\ ViewGone /\ model[c] \in {"connected", "greeting", "playing"}
    /\ model' = [model EXCEPT ![c] = "ended"]
    /\ UNCHANGED <<viewVars, game, swapped, toView, toModel>>

(* From outside, or because a read behind the extension board hits nothing *)
(* that can be read.                                                       *)
KillModel(c) ==
    /\ Failures /\ model[c] \in {"connected", "greeting", "playing"}
    /\ model' = [model EXCEPT ![c] = "killed"]
    /\ UNCHANGED <<viewVars, game, swapped, toView, toModel>>

-----------------------------------------------------------------------------
ViewStep == \/ \E c \in Clients : Accept(c)
            \/ Open \/ NoHello \/ Redraw \/ RedrawDangling \/ RedrawNothing
            \/ SayBye

User == \/ \E b \in Cell : Select(b)
        \/ \E a \in Arrows : Press(a) \/ PressStale(a)
        \/ CloseWindow

ModelRuns(c) == \/ SayHello(c) \/ Begin(c) \/ PlayMove(c) \/ ReadBye(c)
                \/ BeginNothing(c) \/ Spin(c)

Next ==
    \/ ViewStep \/ User \/ AcceptInterrupted \/ AcceptFails \/ KillView
    \/ \E c \in Clients :
          Connect(c) \/ ModelRuns(c) \/ ModelFails(c) \/ KillModel(c)

(* Both programs go on when a read returns; nobody need click or connect.  *)
(* A model that takes a message in takes the step that handles it: stated  *)
(* of the message, which TLC evaluates without playing the move.           *)
TakesIn(c) == /\ model[c] \in {"greeting", "playing"}
              /\ toModel[c] # <<>> /\ TakeIn(c)

Fairness ==
    /\ WF_vars(ViewStep)
    /\ \A c \in Clients : /\ WF_toModel(TakesIn(c))
                          /\ WF_vars(SayHello(c) \/ BeginNothing(c) \/ Spin(c))

Spec == Init /\ [][Next]_vars /\ Fairness
==============================================================================
