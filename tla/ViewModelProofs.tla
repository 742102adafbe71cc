--------------------------- MODULE ViewModelProofs ---------------------------
(***************************************************************************)
(* Theorems about the view and the models it serves, for any number of     *)
(* models and any board.  What a move does to a game plays no part in the  *)
(* theorems about the protocol; the last section is about the games.       *)
(***************************************************************************)
EXTENDS ViewModelProps, RulesProofs

(* Queues of one message. *)
LEMMA OneMessage ==
    ASSUME NEW m, NEW types, m.type \in types
    PROVE  One(Append(<<>>, m), types) /\ Append(<<>>, m)[1] = m
<1>1. Append(<<>>, m) = <<m>> /\ <<m>> # <<>> /\ <<m>>[1] = m
  OBVIOUS
<1> QED
  BY <1>1 DEF One

LEMMA OnlyMessage ==
    ASSUME NEW s, NEW types, One(s, types)
    PROVE  /\ Tail(s) = <<>> /\ Head(s) = s[1] /\ Len(s) = 1
           /\ s # <<>> /\ s[1].type \in types
<1>1. s = <<s[1]>> /\ s # <<>> /\ s[1].type \in types
  BY DEF One
<1>2. Tail(<<s[1]>>) = <<>> /\ Head(<<s[1]>>) = s[1] /\ Len(<<s[1]>>) = 1
  OBVIOUS
<1> QED
  BY <1>1, <1>2

LEMMA OneOfMore ==
    ASSUME NEW s, NEW few, NEW more, few \subseteq more, One(s, few)
    PROVE  One(s, more)
BY DEF One

(* A client for which nothing changed. *)
LEMMA FlowStays ==
    ASSUME NEW c, Flow(c), model'[c] = model[c], toView'[c] = toView[c],
           toModel'[c] = toModel[c]
    PROVE  Flow(c)'
BY DEF Flow, Idle

LEMMA QueuedStays ==
    ASSUME NEW c, Queued(c), model'[c] = model[c], toView'[c] = toView[c],
           toModel'[c] = toModel[c], c \in closed <=> c \in closed',
           c # client' => c # client
    PROVE  Queued(c)'
BY DEF Queued, ModelGone

-----------------------------------------------------------------------------
LEMMA ProtocolAtStart == Init => Protocol /\ Current /\ Clicked
<1> SUFFICES ASSUME Init PROVE Protocol /\ Current /\ Clicked
  OBVIOUS
<1>1. /\ view = "accept" /\ client = Nobody /\ closed = {} /\ selected = NoCandy
      /\ model = [c \in Clients |-> "off"] /\ game = [c \in Clients |-> NoGame]
      /\ toView = [c \in Clients |-> <<>>] /\ toModel = [c \in Clients |-> <<>>]
  BY DEF Init
<1>2. Ranges /\ Served /\ Current /\ Clicked
  BY <1>1 DEF Ranges, Served, Current, Clicked
<1>3. ASSUME NEW c \in Clients PROVE Flow(c) /\ Queued(c)
  BY <1>1, <1>3 DEF Flow, Idle, Queued, ModelGone, Gone
<1> QED
  BY <1>2, <1>3 DEF Protocol

(* A step of the view that is not about a message. *)
LEMMA ProtocolAccept ==
    ASSUME Protocol, Current, Clicked, NEW c \in Clients, Accept(c)
    PROVE  Protocol' /\ Current' /\ Clicked'
<1>1. /\ view = "accept" /\ view' = "hello" /\ client' = c /\ model[c] # "off"
      /\ c \notin closed /\ closed' = closed /\ selected' = selected
      /\ model' = model /\ game' = game /\ toView' = toView
      /\ toModel' = toModel
  BY DEF Accept, modelVars
<1>2. /\ Served /\ client = Nobody /\ Ranges
      /\ \A d \in Clients : Flow(d) /\ Queued(d)
  BY <1>1 DEF Protocol, Served, ViewGone, Gone
<1>3. Nobody \notin Clients
  BY ViewModelAssumption
<1>4. Ranges'
  BY <1>1, <1>2 DEF Ranges
<1>5. \A d \in Clients : Flow(d)'
  BY <1>1, <1>2, FlowStays
<1>6. ASSUME NEW d \in Clients PROVE Queued(d)'
  BY <1>1, <1>2, <1>3, <1>6 DEF Queued, ModelGone
<1>7. Served'
  BY <1>1, <1>2, <1>3 DEF Served, Queued, ModelGone
<1>8. Current'
  <2>1. ~ModelGone(c) => ~One(toView[c], {"update"})
    BY <1>1, <1>2, <1>3 DEF Queued, Flow, Idle, One, ModelGone
  <2> QED
    BY <1>1, <2>1 DEF Current, ModelGone
<1> QED
  BY <1>1, <1>4, <1>5, <1>6, <1>7, <1>8 DEF Protocol, Clicked

(* The client the view serves. *)
LEMMA ClientServed ==
    ASSUME Protocol, ~ViewGone, view \notin {"accept", "deaf"}
    PROVE  /\ Served /\ client \in Clients /\ client \notin closed
           /\ client # Nobody /\ Flow(client) /\ Queued(client)
           /\ \A d \in Clients : Flow(d) /\ Queued(d)
BY DEF Protocol, Served

(* Once the view is gone only the models go on. *)
LEMMA ProtocolGone ==
    ASSUME Ranges', \A c \in Clients : Flow(c)', ViewGone'
    PROVE  Protocol' /\ Current' /\ Clicked'
BY DEF Protocol, Current, Clicked, ViewGone, Gone

LEMMA ProtocolViewEnds ==
    ASSUME Protocol, view' \in {"ended", "killed"}, selected' = selected, model' = model,
           game' = game, toView' = toView, toModel' = toModel
    PROVE  Protocol' /\ Current' /\ Clicked'
<1>1. Ranges'
  BY DEF Protocol, Ranges, Gone
<1>2. \A c \in Clients : Flow(c)'
  BY FlowStays DEF Protocol
<1> QED
  BY <1>1, <1>2, ProtocolGone DEF ViewGone, Gone

(* A step of the view that leaves its connections as they are. *)
LEMMA ProtocolViewMoves ==
    ASSUME Protocol, Ranges', Served', client' = client, closed' = closed,
           model' = model, toView' = toView, toModel' = toModel, ~ViewGone
    PROVE  Protocol'
<1>1. \A c \in Clients : Flow(c)'
  BY FlowStays DEF Protocol
<1>2. \A c \in Clients : Queued(c)'
  BY QueuedStays DEF Protocol
<1> QED
  BY <1>1, <1>2 DEF Protocol

LEMMA ProtocolAcceptInterrupted ==
    Protocol /\ Current /\ Clicked /\ AcceptInterrupted
        => Protocol' /\ Current' /\ Clicked'
<1> SUFFICES ASSUME Protocol, Current, Clicked, AcceptInterrupted
             PROVE  Protocol' /\ Current' /\ Clicked'
  OBVIOUS
<1>1. /\ view = "accept" /\ view' = "deaf" /\ client' = client
      /\ closed' = closed /\ selected' = selected /\ model' = model
      /\ game' = game /\ toView' = toView /\ toModel' = toModel
  BY DEF AcceptInterrupted, modelVars
<1>2. Served /\ ~ViewGone /\ client = Nobody /\ Ranges
  BY <1>1 DEF Protocol, Served, ViewGone, Gone
<1>3. Ranges' /\ Served' /\ Current' /\ Clicked'
  BY <1>1, <1>2 DEF Ranges, Served, Current, Clicked
<1> QED
  BY <1>1, <1>2, <1>3, ProtocolViewMoves

LEMMA ProtocolNoHello ==
    Protocol /\ Current /\ Clicked /\ NoHello
        => Protocol' /\ Current' /\ Clicked'
<1> SUFFICES ASSUME Protocol, Current, Clicked, NoHello
             PROVE  Protocol' /\ Current' /\ Clicked'
  OBVIOUS
<1>1. /\ view = "hello" /\ view' \in {"leaving", "ended"} /\ client' = client
      /\ toView[client] = <<>> /\ ModelGone(client)
      /\ closed' = closed /\ selected' = selected /\ model' = model
      /\ game' = game /\ toView' = toView /\ toModel' = toModel
  BY DEF NoHello, HungUp, modelVars
<1>2. /\ ~ViewGone /\ Ranges /\ Served /\ client # Nobody
  BY <1>1, ClientServed DEF Protocol, ViewGone, Gone
<1>3. CASE view' = "ended"
  BY <1>1, <1>3, ProtocolViewEnds
<1>4. CASE view' = "leaving"
  <2>1. Ranges'
    BY <1>1, <1>2, <1>4 DEF Ranges
  <2>2. Served'
    BY <1>1, <1>2, <1>4 DEF Served, ModelGone
  <2>3. Current' /\ Clicked'
    BY <1>1, <1>4 DEF Current, Clicked, ModelGone
  <2> QED
    BY <1>1, <1>2, <2>1, <2>2, <2>3, ProtocolViewMoves
<1> QED
  BY <1>1, <1>3, <1>4

LEMMA ProtocolSelect ==
    ASSUME Protocol, Current, Clicked, NEW b \in Cell, Select(b)
    PROVE  Protocol' /\ Current' /\ Clicked'
<1>1. /\ view = "window" /\ client' = client /\ closed' = closed
      /\ model' = model /\ game' = game /\ screen' = screen
      /\ toView' = toView /\ toModel' = toModel
      /\ \/ selected' = [window |-> client, button |-> b] /\ view' = view
         \/ view' = "ended" /\ selected' = selected
  BY DEF Select, modelVars
<1>2. ~ViewGone /\ Ranges /\ Served
  BY <1>1, ClientServed DEF Protocol, ViewGone, Gone
<1>3. CASE view' = "ended" /\ selected' = selected
  BY <1>1, <1>3, ProtocolViewEnds
<1>4. CASE selected' = [window |-> client, button |-> b] /\ view' = view
  <2>1. Ranges'
    BY <1>1, <1>2, <1>4 DEF Ranges
  <2>2. Served'
    BY <1>1, <1>2, <1>4 DEF Served, ModelGone, Idle
  <2>3. Clicked'
    BY <1>1, <1>4 DEF Clicked
  <2>4. Current'
    BY <1>1, <1>4 DEF Current, ModelGone, ViewGone
  <2> QED
    BY <1>1, <1>2, <2>1, <2>2, <2>3, <2>4, ProtocolViewMoves
<1> QED
  BY <1>1, <1>3, <1>4

LEMMA ProtocolCloseWindow ==
    Protocol /\ Current /\ Clicked /\ CloseWindow
        => Protocol' /\ Current' /\ Clicked'
<1> SUFFICES ASSUME Protocol, Current, Clicked, CloseWindow
             PROVE  Protocol' /\ Current' /\ Clicked'
  OBVIOUS
<1>1. /\ view = "window" /\ view' = "leaving" /\ client' = client
      /\ closed' = closed /\ selected' = selected /\ model' = model
      /\ game' = game /\ toView' = toView /\ toModel' = toModel
  BY DEF CloseWindow, modelVars
<1>2. ~ViewGone /\ Ranges /\ Served /\ Ranges'
  BY <1>1, ClientServed DEF Protocol, ViewGone, Gone, Ranges
<1>3. Served'
  BY <1>1, <1>2 DEF Served, ModelGone, Idle
<1>4. Clicked'
  BY <1>1 DEF Clicked
<1>5. Current'
  BY <1>1, <1>2 DEF Current, ModelGone, ViewGone, Gone
<1> QED
  BY <1>1, <1>2, <1>3, <1>4, <1>5, ProtocolViewMoves

(* A write of the view: to a model that is there it is the only message.   *)
LEMMA Telling ==
    ASSUME Protocol, ~ViewGone, view \notin {"accept", "deaf"},
           NEW m, NEW then, Tell(m, then)
    PROVE  /\ DOMAIN toModel' = Clients
           /\ \A d \in Clients \ {client} : toModel'[d] = toModel[d]
           /\ \/ ModelGone(client) /\ view' \in {then, "ended"}
                 /\ toModel' = toModel
              \/ /\ ~ModelGone(client) /\ view' = then
                 /\ toModel'[client] = Append(toModel[client], m)
<1>1. DOMAIN toModel = Clients /\ client \in Clients
  BY ClientServed DEF Protocol, Ranges
<1> QED
  BY <1>1 DEF Tell

(* The view hears of the client it serves and tells it something. *)
LEMMA ProtocolOpen ==
    Protocol /\ Current /\ Clicked /\ Open => Protocol' /\ Current' /\ Clicked'
<1> SUFFICES ASSUME Protocol, Current, Clicked, Open
             PROVE  Protocol' /\ Current' /\ Clicked'
  OBVIOUS
<1> DEFINE m == Message("helloack", file)
<1>1. /\ view = "hello" /\ toView[client] # <<>>
      /\ toView' = [toView EXCEPT ![client] = Tail(@)]
      /\ Tell(m, "opening") /\ client' = client /\ closed' = closed
      /\ selected' = selected /\ model' = model /\ game' = game
  BY DEF Open, Heard, Hear, modelVars
<1>2. ~ViewGone /\ view \notin {"accept", "deaf"}
  BY <1>1 DEF ViewGone, Gone
<1>3. /\ Served /\ client \in Clients /\ client \notin closed /\ Ranges
      /\ client # Nobody /\ Flow(client) /\ Queued(client)
      /\ \A d \in Clients : Flow(d) /\ Queued(d)
  BY <1>2, ClientServed DEF Protocol
<1>4. /\ DOMAIN toModel' = Clients
      /\ \A d \in Clients \ {client} : toModel'[d] = toModel[d]
      /\ \/ ModelGone(client) /\ view' \in {"opening", "ended"}
            /\ toModel' = toModel
         \/ /\ ~ModelGone(client) /\ view' = "opening"
            /\ toModel'[client] = Append(toModel[client], m)
  BY <1>1, <1>2, Telling
<1>5. /\ DOMAIN toView' = Clients /\ toView'[client] = <<>>
      /\ \A d \in Clients \ {client} : toView'[d] = toView[d]
  <2>1. One(toView[client], {"hello", "update"})
    BY <1>1, <1>3 DEF Flow
  <2>2. Tail(toView[client]) = <<>>
    BY <2>1, OnlyMessage
  <2> QED
    BY <1>1, <1>3, <2>2 DEF Ranges
<1>6. Ranges'
  BY <1>1, <1>3, <1>4, <1>5 DEF Ranges
<1>7. ~ModelGone(client) =>
          /\ model[client] = "greeting"
          /\ One(toModel'[client], {"helloack"})
  <2>1. ASSUME ~ModelGone(client)
        PROVE  model[client] = "greeting" /\ toModel[client] = <<>>
    BY <1>1, <1>3, <2>1 DEF Served, Flow, Idle
  <2>2. m.type \in {"helloack"}
    BY DEF Message
  <2> HIDE DEF m
  <2>3. One(Append(<<>>, m), {"helloack"})
    BY <2>2, OneMessage
  <2> QED
    BY <1>4, <2>1, <2>3
<1>8. Flow(client)'
  <2>1. CASE ModelGone(client)
    BY <1>1, <1>5, <2>1 DEF Flow, ModelGone, Gone, Idle
  <2>2. CASE ~ModelGone(client)
    BY <1>1, <1>5, <1>7, <2>2 DEF Flow
  <2> QED
    BY <2>1, <2>2
<1>9. ASSUME NEW d \in Clients PROVE Flow(d)'
  BY <1>1, <1>3, <1>4, <1>5, <1>8, FlowStays
<1>10. ASSUME NEW d \in Clients PROVE Queued(d)'
  <2>1. CASE d # client
    BY <1>1, <1>3, <1>4, <1>5, <2>1, QueuedStays
  <2>2. CASE d = client
    BY <1>1, <1>3, <2>2 DEF Queued, ModelGone
  <2> QED
    BY <2>1, <2>2
<1>11. CASE view' = "ended"
  BY <1>6, <1>9, <1>11, ProtocolGone DEF ViewGone, Gone
<1>12. CASE view' = "opening"
  <2>1. Served'
    BY <1>1, <1>3, <1>7, <1>12 DEF Served, ModelGone
  <2>2. ~One(toView'[client], {"update"})
    BY <1>5 DEF One
  <2>3. Current'
    BY <1>1, <1>12, <2>2 DEF Current
  <2>4. Clicked'
    BY <1>12 DEF Clicked
  <2> QED
    BY <1>6, <1>9, <1>10, <2>1, <2>3, <2>4 DEF Protocol
<1> QED
  BY <1>4, <1>11, <1>12

(* The view reads the update of the client it serves. *)
LEMMA UpdateRead ==
    ASSUME Protocol, view \in {"opening", "awaiting"}, Heard("update"), Hear,
           view' \in {"window", "ended"}, client' = client, closed' = closed,
           toModel' = toModel, selected' = selected, model' = model, game' = game
    PROVE  /\ ~ViewGone /\ Served /\ client # Nobody /\ client \notin closed
           /\ One(toView[client], {"update"})
           /\ Head(toView[client]) = toView[client][1]
           /\ toView'[client] = <<>>
           /\ ~ModelGone(client) =>
                 model[client] = "playing" /\ toModel[client] = <<>>
           /\ Ranges'
           /\ \A d \in Clients : Flow(d)' /\ Queued(d)'
<1>1. /\ toView[client] # <<>> /\ Head(toView[client]).type = "update"
      /\ toView' = [toView EXCEPT ![client] = Tail(@)]
  BY DEF Heard, Hear
<1>2. ~ViewGone /\ view \notin {"accept", "deaf"}
  BY DEF ViewGone, Gone
<1>3. /\ Served /\ client \in Clients /\ client \notin closed /\ Ranges
      /\ client # Nobody /\ Flow(client) /\ Queued(client)
      /\ \A d \in Clients : Flow(d) /\ Queued(d)
  BY <1>2, ClientServed DEF Protocol
<1>4. /\ One(toView[client], {"update"}) /\ Tail(toView[client]) = <<>>
      /\ Head(toView[client]) = toView[client][1]
  <2>1. One(toView[client], {"hello", "update"})
    BY <1>1, <1>3 DEF Flow
  <2>2. /\ Tail(toView[client]) = <<>>
        /\ Head(toView[client]) = toView[client][1]
    BY <2>1, OnlyMessage
  <2> QED
    BY <1>1, <2>1, <2>2 DEF One
<1>5. /\ DOMAIN toView' = Clients /\ toView'[client] = <<>>
      /\ \A d \in Clients \ {client} : toView'[d] = toView[d]
  BY <1>1, <1>3, <1>4 DEF Ranges
<1>6. Ranges'
  BY <1>3, <1>5 DEF Ranges, Gone
<1>7. ~ModelGone(client) =>
          model[client] = "playing" /\ toModel[client] = <<>>
  <2>1. ASSUME ~ModelGone(client) PROVE model[client] = "playing"
    <3>1. model[client] = "greeting" => ~One(toModel[client], {"helloack"})
      BY <1>3, <1>4 DEF Flow, One
    <3> QED
      BY <1>3, <2>1, <3>1 DEF Served
  <2> QED
    BY <1>1, <1>3, <2>1 DEF Flow, Idle
<1>8. Flow(client)'
  <2>1. CASE ModelGone(client)
    BY <1>5, <2>1 DEF Flow, ModelGone, Gone, Idle
  <2>2. CASE ~ModelGone(client)
    BY <1>5, <1>7, <2>2 DEF Flow, Idle
  <2> QED
    BY <2>1, <2>2
<1>9. ASSUME NEW d \in Clients PROVE Flow(d)'
  BY <1>3, <1>5, <1>8, FlowStays
<1>10. ASSUME NEW d \in Clients PROVE Queued(d)'
  <2>1. CASE d # client
    BY <1>3, <1>5, <2>1, QueuedStays
  <2>2. CASE d = client
    BY <1>3, <2>2 DEF Queued, ModelGone
  <2> QED
    BY <2>1, <2>2
<1> QED
  BY <1>2, <1>3, <1>4, <1>5, <1>6, <1>7, <1>9, <1>10

LEMMA ProtocolRedraw ==
    Protocol /\ Current /\ Clicked /\ Redraw
        => Protocol' /\ Current' /\ Clicked'
<1> SUFFICES ASSUME Protocol, Current, Clicked, Redraw
             PROVE  Protocol' /\ Current' /\ Clicked'
  OBVIOUS
<1>1. /\ view \in {"opening", "awaiting"} /\ view' = "window"
      /\ Heard("update") /\ Hear
      /\ screen' = Shown(Head(toView[client]).content)
      /\ client' = client /\ closed' = closed /\ toModel' = toModel
      /\ selected' = selected /\ model' = model /\ game' = game
  BY DEF Redraw
<1>2. /\ ~ViewGone /\ Served /\ client # Nobody /\ client \notin closed
      /\ One(toView[client], {"update"})
      /\ Head(toView[client]) = toView[client][1]
      /\ toView'[client] = <<>>
      /\ ~ModelGone(client) =>
            model[client] = "playing" /\ toModel[client] = <<>>
      /\ Ranges'
      /\ \A d \in Clients : Flow(d)' /\ Queued(d)'
  BY <1>1, UpdateRead
<1>3. Served'
  BY <1>1, <1>2 DEF Served, ModelGone, Idle
<1>4. Current'
  <2>1. ~One(toView'[client], {"update"})
    BY <1>2 DEF One
  <2>2. ~ModelGone(client) =>
            screen' = Shown(SerializeCurrentState(game[client]))
    BY <1>1, <1>2 DEF Current
  <2> QED
    BY <1>1, <2>1, <2>2 DEF Current, ModelGone
<1>5. Clicked'
  BY <1>1 DEF Clicked
<1> QED
  BY <1>2, <1>3, <1>4, <1>5 DEF Protocol

LEMMA ProtocolRedrawDangling ==
    Protocol /\ RedrawDangling => Protocol' /\ Current' /\ Clicked'
<1> SUFFICES ASSUME Protocol, RedrawDangling
             PROVE  Protocol' /\ Current' /\ Clicked'
  OBVIOUS
<1>1. /\ view = "awaiting" /\ view' = "ended" /\ Heard("update") /\ Hear
      /\ client' = client /\ closed' = closed /\ toModel' = toModel
      /\ selected' = selected /\ model' = model /\ game' = game
  BY DEF RedrawDangling, modelVars
<1>2. Ranges' /\ \A d \in Clients : Flow(d)'
  BY <1>1, UpdateRead
<1>3. ViewGone'
  BY <1>1 DEF ViewGone, Gone
<1> QED
  BY <1>2, <1>3, ProtocolGone

LEMMA ProtocolRedrawNothing ==
    Protocol /\ RedrawNothing => Protocol' /\ Current' /\ Clicked'
<1>1. RedrawNothing => /\ view' \in {"ended", "killed"} /\ selected' = selected
                       /\ model' = model /\ game' = game /\ toView' = toView
                       /\ toModel' = toModel
  BY DEF RedrawNothing, modelVars
<1> QED
  BY <1>1, ProtocolViewEnds

LEMMA ProtocolKillView ==
    Protocol /\ (KillView \/ AcceptFails) => Protocol' /\ Current' /\ Clicked'
<1>1. KillView \/ AcceptFails =>
                  /\ view' \in {"ended", "killed"} /\ selected' = selected
                  /\ model' = model /\ game' = game /\ toView' = toView
                  /\ toModel' = toModel
  BY DEF KillView, AcceptFails, modelVars
<1> QED
  BY <1>1, ProtocolViewEnds

(* Once the window can be used nothing is on its way, so that the move is  *)
(* the only message.                                                       *)
LEMMA ProtocolSendMove ==
    ASSUME Protocol, Current, NEW b, NEW a, SendMove(b, a)
    PROVE  /\ Protocol' /\ Current'
           /\ view' \in {"awaiting", "ended"} /\ toView'[client'] = <<>>
           /\ ~ModelGone(client)' =>
                 toModel'[client'][1].content =
                     [row |-> b[1], column |-> b[2], direction |-> Dir(a)]
<1> DEFINE move == [row |-> b[1], column |-> b[2], direction |-> Dir(a)]
           m == Message("move", move)
<1>1. /\ view = "window" /\ Tell(m, "awaiting") /\ toView' = toView
      /\ client' = client /\ closed' = closed
      /\ selected' = selected /\ model' = model /\ game' = game
  BY DEF SendMove, modelVars
<1>2. ~ViewGone /\ view \notin {"accept", "deaf"}
  BY <1>1 DEF ViewGone, Gone
<1>3. /\ Served /\ client \in Clients /\ client \notin closed /\ Ranges
      /\ client # Nobody /\ Flow(client) /\ Queued(client)
      /\ \A d \in Clients : Flow(d) /\ Queued(d)
  BY <1>2, ClientServed DEF Protocol
<1>4. /\ DOMAIN toModel' = Clients
      /\ \A d \in Clients \ {client} : toModel'[d] = toModel[d]
      /\ \/ ModelGone(client) /\ view' \in {"awaiting", "ended"}
            /\ toModel' = toModel
         \/ /\ ~ModelGone(client) /\ view' = "awaiting"
            /\ toModel'[client] = Append(toModel[client], m)
  BY <1>1, <1>2, Telling
<1>5. toView[client] = <<>>
  BY <1>1, <1>3 DEF Served
<1>6. Ranges'
  BY <1>1, <1>3, <1>4 DEF Ranges
<1>7. ~ModelGone(client) => /\ model[client] = "playing"
                            /\ One(toModel'[client], {"move"})
                            /\ toModel'[client][1] = m
  <2>1. ASSUME ~ModelGone(client)
        PROVE  model[client] = "playing" /\ toModel[client] = <<>>
    BY <1>1, <1>3, <2>1 DEF Served, Idle
  <2>2. m.type \in {"move"}
    BY DEF Message
  <2> HIDE DEF m
  <2>3. One(Append(<<>>, m), {"move"}) /\ Append(<<>>, m)[1] = m
    BY <2>2, OneMessage
  <2> QED
    BY <1>4, <2>1, <2>3
<1>8. m.content = move
  BY DEF Message
<1> HIDE DEF m, move
<1>9. Flow(client)'
  <2>1. CASE ModelGone(client)
    BY <1>1, <1>5, <2>1 DEF Flow, ModelGone, Gone, Idle
  <2>2. CASE ~ModelGone(client)
    <3>1. One(toModel'[client], {"move", "bye"})
      BY <1>7, <2>2, OneOfMore
    <3> QED
      BY <1>1, <1>5, <1>7, <2>2, <3>1 DEF Flow
  <2> QED
    BY <2>1, <2>2
<1>10. ASSUME NEW d \in Clients PROVE Flow(d)'
  BY <1>1, <1>3, <1>4, <1>9, FlowStays
<1>11. ASSUME NEW d \in Clients PROVE Queued(d)'
  <2>1. CASE d # client
    BY <1>1, <1>3, <1>4, <2>1, QueuedStays
  <2>2. CASE d = client
    BY <1>1, <1>3, <2>2 DEF Queued, ModelGone
  <2> QED
    BY <2>1, <2>2
<1>12. Protocol' /\ Current'
  <2>1. CASE view' = "ended"
    BY <1>6, <1>10, <2>1, ProtocolGone DEF ViewGone, Gone
  <2>2. CASE view' = "awaiting"
    <3>1. Served'
      BY <1>1, <1>3, <1>7, <2>2 DEF Served, ModelGone
    <3>2. ~One(toView'[client], {"update"})
      BY <1>1, <1>5 DEF One
    <3>3. Current'
      BY <1>1, <2>2, <3>2 DEF Current
    <3> QED
      BY <1>6, <1>10, <1>11, <3>1, <3>3 DEF Protocol
  <2> QED
    BY <1>4, <2>1, <2>2
<1>13. /\ view' \in {"awaiting", "ended"} /\ toView'[client'] = <<>>
       /\ ModelGone(client)' <=> ModelGone(client)
  BY <1>1, <1>4, <1>5 DEF ModelGone
<1> QED
  BY <1>1, <1>7, <1>8, <1>12, <1>13 DEF move

LEMMA ProtocolPress ==
    ASSUME Protocol, Current, Clicked, NEW a \in Arrows,
           Press(a) \/ PressStale(a)
    PROVE  Protocol' /\ Current' /\ Clicked'
<1>1. CASE Press(a)
  <2> DEFINE b == selected.button
  <2>1. /\ SendMove(b, a) /\ clicked' = [button |-> b, arrow |-> a]
        /\ b \in Cell
    BY <1>1 DEF Press, Protocol, Ranges
  <2> HIDE DEF b
  <2>2. /\ Protocol' /\ Current' /\ toView'[client'] = <<>>
        /\ ~ModelGone(client)' =>
              toModel'[client'][1].content =
                  [row |-> b[1], column |-> b[2], direction |-> Dir(a)]
    BY <2>1, ProtocolSendMove
  <2>3. clicked'.button = b /\ clicked'.arrow = a
    BY <2>1
  <2>4. Clicked'
    BY <2>1, <2>2, <2>3 DEF Clicked
  <2> QED
    BY <2>2, <2>4
<1>2. CASE PressStale(a) /\ \E b \in Cell : SendMove(b, a)
  <2>1. Clicked'
    BY <1>2 DEF PressStale, Clicked
  <2> QED
    BY <1>2, <2>1, ProtocolSendMove
<1>3. CASE /\ view' = "ended" /\ selected' = selected /\ modelVars' = modelVars
           /\ toView' = toView /\ toModel' = toModel
  BY <1>3, ProtocolViewEnds DEF modelVars
<1> QED
  BY <1>1, <1>2, <1>3 DEF PressStale

LEMMA ProtocolSayBye ==
    Protocol /\ Current /\ Clicked /\ SayBye
        => Protocol' /\ Current' /\ Clicked'
<1> SUFFICES ASSUME Protocol, Current, Clicked, SayBye
             PROVE  Protocol' /\ Current' /\ Clicked'
  OBVIOUS
<1> DEFINE m == Message("bye", <<>>)
<1>1. /\ view = "leaving" /\ Tell(m, "accept") /\ toView' = toView
      /\ client' = Nobody /\ closed' = closed \cup {client}
      /\ selected' = selected /\ model' = model /\ game' = game
  BY DEF SayBye, modelVars
<1>2. ~ViewGone /\ view \notin {"accept", "deaf"}
  BY <1>1 DEF ViewGone, Gone
<1>3. /\ Served /\ client \in Clients /\ client \notin closed /\ Ranges
      /\ client # Nobody /\ Flow(client) /\ Queued(client)
      /\ \A d \in Clients : Flow(d) /\ Queued(d)
  BY <1>2, ClientServed DEF Protocol
<1>4. /\ DOMAIN toModel' = Clients
      /\ \A d \in Clients \ {client} : toModel'[d] = toModel[d]
      /\ \/ ModelGone(client) /\ view' \in {"accept", "ended"}
            /\ toModel' = toModel
         \/ /\ ~ModelGone(client) /\ view' = "accept"
            /\ toModel'[client] = Append(toModel[client], m)
  BY <1>1, <1>2, Telling
<1>5. toView[client] = <<>>
  BY <1>1, <1>3 DEF Served
<1>6. Ranges'
  BY <1>1, <1>3, <1>4 DEF Ranges
<1>7. ~ModelGone(client) => /\ model[client] = "playing"
                            /\ One(toModel'[client], {"bye"})
  <2>1. ASSUME ~ModelGone(client)
        PROVE  model[client] = "playing" /\ toModel[client] = <<>>
    BY <1>1, <1>3, <2>1 DEF Served, Idle
  <2>2. m.type \in {"bye"}
    BY DEF Message
  <2> HIDE DEF m
  <2>3. One(Append(<<>>, m), {"bye"})
    BY <2>2, OneMessage
  <2> QED
    BY <1>4, <2>1, <2>3
<1>8. ASSUME NEW d \in Clients, d = client PROVE Flow(d)'
  <2>1. CASE ModelGone(client)
    BY <1>1, <1>5, <1>8, <2>1 DEF Flow, ModelGone, Gone, Idle
  <2>2. CASE ~ModelGone(client)
    <3>1. One(toModel'[client], {"move", "bye"})
      BY <1>7, <2>2, OneOfMore
    <3> QED
      BY <1>1, <1>5, <1>7, <1>8, <2>2, <3>1 DEF Flow
  <2> QED
    BY <2>1, <2>2
<1>9. ASSUME NEW d \in Clients PROVE Flow(d)'
  BY <1>1, <1>3, <1>4, <1>8, FlowStays
<1>10. ASSUME NEW d \in Clients PROVE Queued(d)'
  <2>1. CASE d # client
    BY <1>1, <1>3, <1>4, <2>1 DEF Queued, ModelGone
  <2>2. CASE d = client
    BY <1>1, <1>3, <1>5, <1>7, <2>2 DEF Queued, ModelGone
  <2> QED
    BY <2>1, <2>2
<1>11. CASE view' = "ended"
  BY <1>6, <1>9, <1>11, ProtocolGone DEF ViewGone, Gone
<1>12. CASE view' = "accept"
  BY <1>1, <1>6, <1>9, <1>10, <1>12 DEF Protocol, Served, Current, Clicked
<1> QED
  BY <1>4, <1>11, <1>12

-----------------------------------------------------------------------------
(* A step of a model changes its own connection and its own game only.     *)
ChangesOnly(c) ==
    /\ viewVars' = viewVars
    /\ DOMAIN model' = Clients /\ DOMAIN game' = Clients
    /\ DOMAIN toView' = Clients /\ DOMAIN toModel' = Clients
    /\ \A d \in Clients \ {c} :
          /\ model'[d] = model[d] /\ game'[d] = game[d]
          /\ toView'[d] = toView[d] /\ toModel'[d] = toModel[d]

LEMMA ProtocolModelStep ==
    ASSUME Protocol, NEW c \in Clients, ChangesOnly(c), Flow(c)',
           model'[c] \in {"off", "connected", "greeting", "playing",
                          "spinning"} \cup Gone,
           ~ViewGone => Queued(c)', ~ViewGone /\ c = client => Served'
    PROVE  Protocol'
<1>1. /\ view' = view /\ client' = client /\ closed' = closed
      /\ selected' = selected
  BY DEF ChangesOnly, viewVars
<1>2. Ranges'
  BY <1>1 DEF Protocol, Ranges, ChangesOnly
<1>3. ASSUME NEW d \in Clients PROVE Flow(d)'
  BY FlowStays DEF Protocol, ChangesOnly
<1>4. ASSUME ~ViewGone', NEW d \in Clients PROVE Queued(d)'
  BY <1>1, <1>4, QueuedStays DEF Protocol, ChangesOnly, ViewGone
<1>5. ASSUME ~ViewGone' PROVE Served'
  <2>1. CASE c = client
    BY <1>1, <1>5, <2>1 DEF ViewGone
  <2>2. CASE c # client /\ client # Nobody
    <3>1. Served /\ client \in Clients \ {c}
      BY <1>1, <1>5, <2>2 DEF Protocol, ViewGone, Served
    <3> QED
      BY <1>1, <2>2, <3>1 DEF Served, ChangesOnly, ModelGone, Idle
  <2>3. CASE client = Nobody
    <3>1. Served /\ view \in {"accept", "deaf"}
      BY <1>1, <1>5, <2>3 DEF Protocol, ViewGone, Served
    <3> QED
      BY <1>1, <2>3, <3>1 DEF Served
  <2> QED
    BY <2>1, <2>2, <2>3
<1> QED
  BY <1>2, <1>3, <1>4, <1>5 DEF Protocol

LEMMA CurrentElsewhere ==
    ASSUME Protocol, Current, NEW c \in Clients, ChangesOnly(c),
           ViewGone \/ c # client
    PROVE  Current'
<1>1. /\ view' = view /\ client' = client /\ screen' = screen
  BY DEF ChangesOnly, viewVars
<1> SUFFICES ASSUME ~ViewGone', client' # Nobody, ~ModelGone(client)'
             PROVE  Current'
  BY DEF Current
<1>2. client \in Clients \ {c} /\ ~ViewGone
  BY <1>1 DEF Protocol, Served, ViewGone
<1>3. /\ model'[client] = model[client] /\ game'[client] = game[client]
      /\ toView'[client] = toView[client] /\ toModel'[client] = toModel[client]
  BY <1>2 DEF ChangesOnly
<1> QED
  BY <1>1, <1>2, <1>3 DEF Current, ModelGone

LEMMA ClickedElsewhere ==
    ASSUME Protocol, Clicked, NEW c \in Clients, ChangesOnly(c),
           \/ ViewGone
           \/ view # "awaiting"
           \/ c # client /\ swapped' = swapped
    PROVE  Clicked'
<1>1. /\ view' = view /\ client' = client /\ clicked' = clicked
  BY DEF ChangesOnly, viewVars
<1>2. CASE ViewGone \/ view # "awaiting"
  BY <1>1, <1>2 DEF Clicked, ViewGone, Gone
<1>3. CASE view = "awaiting" /\ c # client /\ swapped' = swapped
  <2>1. client \in Clients \ {c}
    BY <1>3 DEF Protocol, Served, ViewGone, Gone
  <2>2. /\ model'[client] = model[client]
        /\ toView'[client] = toView[client] /\ toModel'[client] = toModel[client]
    BY <2>1 DEF ChangesOnly
  <2> QED
    BY <1>1, <1>3, <2>2 DEF Clicked, ModelGone
<1> QED
  BY <1>2, <1>3

LEMMA ProtocolConnect ==
    ASSUME Protocol, Current, Clicked, NEW c \in Clients, Connect(c)
    PROVE  Protocol' /\ Current' /\ Clicked'
<1>1. /\ ~ViewGone /\ model[c] = "off" /\ viewVars' = viewVars
      /\ model' = [model EXCEPT ![c] = "connected"] /\ game' = game
      /\ toView' = toView /\ toModel' = toModel /\ swapped' = swapped
  BY DEF Connect, ModelStep
<1>2. Served /\ Flow(c) /\ Queued(c) /\ Ranges
  BY <1>1 DEF Protocol
<1>3. ChangesOnly(c) /\ model'[c] = "connected"
  BY <1>1, <1>2 DEF ChangesOnly, Ranges
<1>4. c # client /\ c \notin closed
  BY <1>1, <1>2, ViewModelAssumption DEF Served, Queued, ModelGone, Gone
<1>5. Flow(c)'
  BY <1>1, <1>2, <1>3 DEF Flow, Idle
<1>6. Queued(c)'
  BY <1>1, <1>3, <1>4 DEF Queued, viewVars
<1>7. Protocol'
  BY <1>3, <1>4, <1>5, <1>6, ProtocolModelStep
<1> QED
  BY <1>1, <1>3, <1>4, <1>7, CurrentElsewhere, ClickedElsewhere

LEMMA ProtocolSayHello ==
    ASSUME Protocol, Current, Clicked, NEW c \in Clients, SayHello(c)
    PROVE  Protocol' /\ Current' /\ Clicked'
<1> DEFINE m == Message("hello", <<>>)
<1>1. /\ model[c] = "connected" /\ viewVars' = viewVars
      /\ model' = [model EXCEPT ![c] = "greeting"] /\ game' = game
      /\ toView' = [toView EXCEPT ![c] = Append(@, m)]
      /\ toModel' = toModel /\ swapped' = swapped
  BY DEF SayHello, ModelStep
<1>2. /\ view' = view /\ client' = client /\ closed' = closed
      /\ screen' = screen /\ clicked' = clicked
  BY <1>1 DEF viewVars
<1>3. /\ Flow(c) /\ Ranges
      /\ ~ViewGone => Served /\ Queued(c)
  BY DEF Protocol
<1>4. toView[c] = <<>> /\ toModel[c] = <<>>
  BY <1>1, <1>3 DEF Flow, Idle
<1>5. m.type \in {"hello"}
  BY DEF Message
<1> HIDE DEF m
<1>6. One(Append(<<>>, m), {"hello"})
  BY <1>5, OneMessage
<1>7. /\ ChangesOnly(c) /\ model'[c] = "greeting"
      /\ One(toView'[c], {"hello"}) /\ toModel'[c] = <<>>
  BY <1>1, <1>3, <1>4, <1>6 DEF ChangesOnly, Ranges
<1>8. Flow(c)'
  <2>1. One(toView'[c], {"hello", "update"})
    BY <1>7, OneOfMore
  <2> QED
    BY <1>7, <2>1 DEF Flow
<1>9. ~ViewGone => c \notin closed /\ (c = client => view = "hello")
  <2> SUFFICES ASSUME ~ViewGone
               PROVE  c \notin closed /\ (c = client => view = "hello")
    OBVIOUS
  <2>1. c \notin closed
    BY <1>1, <1>3 DEF Queued, ModelGone, Gone
  <2>2. c = client => view = "hello"
    BY <1>1, <1>3, ViewModelAssumption
       DEF Served, ModelGone, Gone, Ranges, ViewGone
  <2> QED
    BY <2>1, <2>2
<1>10. ~ViewGone => Queued(c)'
  BY <1>2, <1>7, <1>9 DEF Queued, ModelGone, Gone
<1>11. ~ViewGone /\ c = client => Served'
  BY <1>2, <1>3, <1>7, <1>9 DEF Served
<1>12. Protocol'
  BY <1>7, <1>8, <1>10, <1>11, ProtocolModelStep
<1>13. Current'
  <2>1. CASE ViewGone \/ c # client
    BY <1>7, <2>1, CurrentElsewhere
  <2>2. CASE ~ViewGone /\ c = client
    <3>1. ~One(toView'[c], {"update"}) /\ view' = "hello"
      BY <1>2, <1>7, <1>9, <2>2 DEF One
    <3> QED
      BY <1>2, <2>2, <3>1 DEF Current
  <2> QED
    BY <2>1, <2>2
<1>14. Clicked'
  BY <1>1, <1>7, <1>9, ClickedElsewhere
<1> QED
  BY <1>12, <1>13, <1>14

(* A model takes a message in and answers with its game: it is the client. *)
LEMMA ProtocolAnswers ==
    ASSUME Protocol, Current, NEW c \in Clients, NEW g,
           viewVars' = viewVars, model' = [model EXCEPT ![c] = "playing"],
           \/ model[c] = "greeting" /\ Told(c, "helloack")
           \/ model[c] = "playing" /\ Told(c, "move"),
           TakeIn(c), game' = [game EXCEPT ![c] = g], Answer(c, g)
    PROVE  /\ Protocol' /\ Current' /\ ChangesOnly(c)
           /\ toView[c] = <<>> /\ Head(toModel[c]) = toModel[c][1]
           /\ ViewGone \/ c = client
           /\ ~ViewGone /\ model[c] = "greeting" => view = "opening"
           /\ ~ViewGone /\ model[c] = "playing" =>
                 view = "awaiting" /\ One(toModel[c], {"move"})
<1> DEFINE m == Message("update", SerializeCurrentState(g))
<1>1. /\ view' = view /\ client' = client /\ closed' = closed
      /\ screen' = screen
  BY DEF viewVars
<1>2. /\ Flow(c) /\ Ranges /\ model[c] \in {"greeting", "playing"}
      /\ ~ViewGone => Served /\ Queued(c)
  BY DEF Protocol
<1>3. /\ toView[c] = <<>>
      /\ \/ model[c] = "greeting" /\ One(toModel[c], {"helloack"})
         \/ model[c] = "playing" /\ One(toModel[c], {"move", "bye"})
      /\ Head(toModel[c]).type \in {"helloack", "move"}
  BY <1>2 DEF Flow, Idle, Told
<1>4. Tail(toModel[c]) = <<>> /\ Head(toModel[c]) = toModel[c][1]
  BY <1>3, OnlyMessage
<1>5. model[c] = "playing" => One(toModel[c], {"move"})
  BY <1>3, <1>4 DEF One, Told
<1>6. m.type \in {"update"} /\ m.content = SerializeCurrentState(g)
  BY DEF Message
<1>7. toView' = [toView EXCEPT ![c] = Append(@, m)]
  BY DEF Answer
<1> HIDE DEF m
<1>8. One(Append(<<>>, m), {"update"}) /\ Append(<<>>, m)[1] = m
  BY <1>6, OneMessage
<1>9. /\ ChangesOnly(c) /\ model'[c] = "playing" /\ game'[c] = g
      /\ toModel'[c] = <<>>
  BY <1>2, <1>4, <1>7 DEF ChangesOnly, Ranges, TakeIn
<1>10. One(toView'[c], {"update"}) /\ toView'[c][1] = m
  BY <1>2, <1>3, <1>7, <1>8 DEF Ranges
<1>11. Flow(c)'
  <2>1. One(toView'[c], {"hello", "update"})
    BY <1>10, OneOfMore
  <2> QED
    BY <1>9, <1>10, <2>1 DEF Flow
<1>12. ASSUME ~ViewGone
       PROVE  /\ c = client /\ c \notin closed
              /\ model[c] = "greeting" => view = "opening"
              /\ model[c] = "playing" => view = "awaiting"
  <2>1. c \notin closed
    <3>1. ASSUME c \in closed PROVE FALSE
      <4>1. model[c] = "playing" /\ One(toModel[c], {"bye"})
        BY <1>2, <1>12, <3>1 DEF Queued, ModelGone, Gone
      <4> QED
        BY <1>5, <4>1 DEF One
    <3> QED
      BY <3>1
  <2>2. ~One(toView[c], {"hello"}) /\ ~One(toView[c], {"update"})
    BY <1>3 DEF One
  <2>3. c = client
    BY <1>2, <1>12, <2>1, <2>2 DEF Queued, ModelGone, Gone
  <2>4. view \notin {"accept", "deaf", "hello"}
    BY <1>2, <1>12, <2>2, <2>3, ViewModelAssumption DEF Served, ModelGone, Gone
  <2>5. view \notin {"window", "leaving"}
    <3>1. toModel[c] # <<>>
      BY <1>3 DEF One
    <3> QED
      BY <1>2, <1>12, <2>3, <3>1, ViewModelAssumption
         DEF Served, ModelGone, Gone, Idle
  <2>6. view \in {"opening", "awaiting"}
    BY <1>2, <1>12, <2>4, <2>5 DEF Ranges, ViewGone, Gone
  <2>7. model[c] = "greeting" => view = "opening"
    BY <1>2, <1>12, <2>3, <2>6, ViewModelAssumption
       DEF Served, ModelGone, Gone
  <2>8. model[c] = "playing" => view = "awaiting"
    BY <1>2, <1>12, <2>2, <2>3, <2>6, ViewModelAssumption
       DEF Served, ModelGone, Gone
  <2> QED
    BY <2>1, <2>3, <2>7, <2>8
<1>13. ~ViewGone => Queued(c)'
  BY <1>1, <1>9, <1>12 DEF Queued, ModelGone, Gone
<1>14. ~ViewGone /\ c = client => Served'
  <2> SUFFICES ASSUME ~ViewGone, c = client PROVE Served'
    OBVIOUS
  <2>1. view \in {"opening", "awaiting"}
    BY <1>2, <1>12
  <2> QED
    BY <1>1, <1>2, <1>9, <1>10, <2>1 DEF Served
<1>15. Protocol'
  BY <1>9, <1>11, <1>13, <1>14, ProtocolModelStep
<1>16. Current'
  <2>1. CASE ViewGone
    BY <1>9, <2>1, CurrentElsewhere
  <2>2. CASE ~ViewGone
    <3>1. view' # "window" /\ c = client
      BY <1>1, <1>2, <1>12, <2>2
    <3> QED
      BY <1>1, <1>6, <1>9, <1>10, <3>1 DEF Current
  <2> QED
    BY <2>1, <2>2
<1> QED
  BY <1>3, <1>4, <1>5, <1>9, <1>12, <1>15, <1>16

LEMMA ProtocolBegin ==
    ASSUME Protocol, Current, Clicked, NEW c \in Clients, Begin(c)
    PROVE  Protocol' /\ Current' /\ Clicked'
<1>1. PICK g : /\ viewVars' = viewVars /\ model[c] = "greeting"
               /\ model' = [model EXCEPT ![c] = "playing"]
               /\ Told(c, "helloack") /\ TakeIn(c)
               /\ game' = [game EXCEPT ![c] = g] /\ Answer(c, g)
               /\ swapped' = swapped
  BY DEF Begin, ModelStep
<1>2. /\ Protocol' /\ Current' /\ ChangesOnly(c)
      /\ ViewGone \/ view # "awaiting"
  BY <1>1, ProtocolAnswers
<1> QED
  BY <1>2, ClickedElsewhere

(* The cells are those of the button and of the one beside it, counted     *)
(* from the bottom as the model counts them.                               *)
LEMMA MovedAsClicked ==
    ASSUME NEW b \in Cell, NEW a \in Arrows
    PROVE  LET x == Flip(b) IN
           x = FromBottom(b) /\ Towards(x, Dir(a)) = FromBottom(Beside(b, a))
<1>1. /\ b[1] \in Int /\ b[2] \in Int /\ Rows \in Int
  BY BoardAssumption DEF Cell, RowIds, ColIds
<1>2. Flip(b) = FromBottom(b)
  BY <1>1 DEF Flip, FromBottom
<1>3. Flip(b)[1] = Rows - b[1] - 1 /\ Flip(b)[2] = b[2]
  BY DEF Flip
<1>4. CASE a = "left"
  <2>1. /\ Towards(Flip(b), Dir(a)) = <<Rows - b[1] - 1, b[2] - 1>>
        /\ FromBottom(Beside(b, a)) = <<Rows - 1 - b[1], b[2] - 1>>
    BY <1>3, <1>4 DEF Towards, Dir, FromBottom, Beside
  <2> QED
    BY <1>1, <1>2, <2>1
<1>5. CASE a = "right"
  <2>1. /\ Towards(Flip(b), Dir(a)) = <<Rows - b[1] - 1, b[2] + 1>>
        /\ FromBottom(Beside(b, a)) = <<Rows - 1 - b[1], b[2] + 1>>
    BY <1>3, <1>5 DEF Towards, Dir, FromBottom, Beside
  <2> QED
    BY <1>1, <1>2, <2>1
<1>6. CASE a = "up"
  <2>1. /\ Towards(Flip(b), Dir(a)) = <<(Rows - b[1] - 1) + 1, b[2]>>
        /\ FromBottom(Beside(b, a)) = <<Rows - 1 - (b[1] - 1), b[2]>>
    BY <1>3, <1>6 DEF Towards, Dir, FromBottom, Beside
  <2> QED
    BY <1>1, <1>2, <2>1
<1>7. CASE a = "down"
  <2>1. /\ Towards(Flip(b), Dir(a)) = <<(Rows - b[1] - 1) - 1, b[2]>>
        /\ FromBottom(Beside(b, a)) = <<Rows - 1 - (b[1] + 1), b[2]>>
    BY <1>3, <1>7 DEF Towards, Dir, FromBottom, Beside
  <2> QED
    BY <1>1, <1>2, <2>1
<1> QED
  BY <1>4, <1>5, <1>6, <1>7 DEF Arrows

LEMMA ProtocolPlayMove ==
    ASSUME Protocol, Current, Clicked, NEW c \in Clients, PlayMove(c)
    PROVE  Protocol' /\ Current' /\ Clicked'
<1>1. PICK g : /\ viewVars' = viewVars /\ model[c] = "playing"
               /\ model' = [model EXCEPT ![c] = "playing"]
               /\ Told(c, "move") /\ TakeIn(c)
               /\ game' = [game EXCEPT ![c] = g] /\ Answer(c, g)
               /\ swapped' = Moved(c)
  BY DEF PlayMove, ModelStep
<1>2. /\ Protocol' /\ Current' /\ ChangesOnly(c)
      /\ Head(toModel[c]) = toModel[c][1]
      /\ ViewGone \/ c = client
      /\ ~ViewGone => One(toModel[c], {"move"})
  BY <1>1, ProtocolAnswers
<1>3. CASE ViewGone
  BY <1>2, <1>3, ClickedElsewhere
<1>4. CASE ~ViewGone
  <2>1. /\ view' = view /\ client' = client /\ clicked' = clicked
        /\ c = client /\ ~ModelGone(client) /\ One(toModel[client], {"move"})
        /\ toModel'[client] = <<>>
    <3>1. Tail(toModel[c]) = <<>> /\ DOMAIN toModel = Clients
      BY <1>2, <1>4, OnlyMessage DEF Protocol, Ranges
    <3> QED
      BY <1>1, <1>2, <1>4, <3>1 DEF viewVars, ModelGone, Gone, TakeIn
  <2> SUFFICES ASSUME view = "awaiting", clicked # NoCandy PROVE Clicked'
    BY <1>2, <2>1 DEF Clicked
  <2> DEFINE b == clicked.button
             a == clicked.arrow
  <2>2. /\ b \in Cell /\ a \in Arrows
        /\ Head(toModel[c]).content =
              [row |-> b[1], column |-> b[2], direction |-> Dir(a)]
    BY <1>2, <2>1 DEF Clicked
  <2> HIDE DEF b, a
  <2>3. swapped' = <<FromBottom(b), FromBottom(Beside(b, a))>>
    <3>1. Flip(<<b[1], b[2]>>) = Flip(b)
      BY <2>2 DEF Flip
    <3>2. Moved(c) = <<Flip(b), Towards(Flip(b), Dir(a))>>
      <4>1. /\ Head(toModel[c]).content.row = b[1]
            /\ Head(toModel[c]).content.column = b[2]
            /\ Head(toModel[c]).content.direction = Dir(a)
        BY <2>2
      <4> QED
        BY <3>1, <4>1 DEF Moved
    <3> QED
      BY <1>1, <2>2, <3>2, MovedAsClicked
  <2>4. ~One(toModel'[client], {"move"})
    BY <2>1 DEF One
  <2>5. /\ clicked'.button \in Cell /\ clicked'.arrow \in Arrows
        /\ swapped' = <<FromBottom(clicked'.button),
                        FromBottom(Beside(clicked'.button, clicked'.arrow))>>
    BY <2>1, <2>2, <2>3, Zenon DEF b, a
  <2>6. ~One(toModel[client], {"move"})'
    BY <2>1, <2>4
  <2> QED
    BY <2>5, <2>6 DEF Clicked
<1> QED
  BY <1>2, <1>3, <1>4

LEMMA ProtocolReadBye ==
    ASSUME Protocol, Current, Clicked, NEW c \in Clients, ReadBye(c)
    PROVE  Protocol' /\ Current' /\ Clicked'
<1>1. /\ model[c] = "playing" /\ viewVars' = viewVars /\ toModel[c] # <<>>
      /\ Head(toModel[c]).type = "bye" /\ TakeIn(c)
      /\ model' = [model EXCEPT ![c] = "exited"] /\ game' = game
      /\ toView' = toView /\ swapped' = swapped
  BY DEF ReadBye, ModelStep, Told
<1>2. /\ Flow(c) /\ Ranges
      /\ ~ViewGone => Served /\ Queued(c)
  BY DEF Protocol
<1>3. ChangesOnly(c) /\ model'[c] = "exited"
  BY <1>1, <1>2 DEF ChangesOnly, Ranges, TakeIn
<1>4. toView[c] = <<>> /\ One(toModel[c], {"bye"})
  <2>1. toView[c] = <<>> /\ One(toModel[c], {"move", "bye"})
    BY <1>1, <1>2 DEF Flow, Idle
  <2>2. Head(toModel[c]) = toModel[c][1]
    BY <2>1, OnlyMessage
  <2> QED
    BY <1>1, <2>1, <2>2 DEF One
<1>5. ~ViewGone => c \in closed /\ c # client
  <2> SUFFICES ASSUME ~ViewGone, c \notin closed PROVE FALSE
    BY <1>2, ViewModelAssumption DEF Served
  <2>1. c = client
    BY <1>1, <1>2 DEF Queued, ModelGone, Gone
  <2>2. toModel[c] # <<>> /\ ~One(toModel[c], {"move"}) /\ ~One(toView[c], {"update"})
        /\ ~One(toView[c], {"hello"})
    BY <1>4 DEF One
  <2>3. view \in {"hello", "opening", "awaiting", "window", "leaving"}
    BY <1>2, <2>1, ViewModelAssumption DEF Served, Ranges, ViewGone, Gone
  <2> QED
    BY <1>1, <1>2, <2>1, <2>2, <2>3, ViewModelAssumption
       DEF Served, ModelGone, Gone, Idle
<1>6. Flow(c)'
  BY <1>1, <1>3, <1>4 DEF Flow
<1>7. ~ViewGone => Queued(c)'
  BY <1>1, <1>3, <1>5 DEF Queued, ModelGone, Gone, viewVars
<1>8. Protocol'
  BY <1>3, <1>5, <1>6, <1>7, ProtocolModelStep DEF Gone
<1> QED
  BY <1>1, <1>3, <1>5, <1>8, CurrentElsewhere, ClickedElsewhere

(* No model finds that the view is over while the view is there.           *)
LEMMA OverOnlyWhenGone ==
    ASSUME Protocol, NEW c \in Clients, Over(c),
           model[c] \in {"greeting", "playing"}
    PROVE  ViewGone
<1> SUFFICES ASSUME ~ViewGone PROVE FALSE
  OBVIOUS
<1>1. c \in closed /\ toModel[c] = <<>> /\ Queued(c)
  BY DEF Over, Protocol
<1>2. One(toModel[c], {"bye"})
  BY <1>1 DEF Queued, ModelGone, Gone
<1> QED
  BY <1>1, <1>2 DEF One

(* A model stops or is killed, or spins, with its queues as they are.      *)
LEMMA ProtocolModelEnds ==
    ASSUME Protocol, Current, Clicked, NEW c \in Clients,
           BeginNothing(c) \/ Spin(c) \/ ModelFails(c)
    PROVE  Protocol' /\ Current' /\ Clicked'
<1>1. PICK s \in {"ended", "spinning"} :
         /\ viewVars' = viewVars /\ model' = [model EXCEPT ![c] = s]
         /\ game' = game /\ toView' = toView /\ toModel' = toModel
         /\ s = "spinning" => toModel[c] = <<>>
  BY DEF BeginNothing, Spin, ModelFails, ModelStep, Over
<1>2. ViewGone
  BY OverOnlyWhenGone DEF BeginNothing, Spin, ModelFails, ModelStep
<1>3. Flow(c) /\ Ranges
  BY DEF Protocol
<1>4. ChangesOnly(c) /\ model'[c] = s
  BY <1>1, <1>3 DEF ChangesOnly, Ranges
<1>5. Flow(c)'
  BY <1>1, <1>3, <1>4 DEF Flow
<1>6. Protocol'
  BY <1>2, <1>4, <1>5, ProtocolModelStep DEF Gone
<1> QED
  BY <1>2, <1>4, <1>6, CurrentElsewhere, ClickedElsewhere

LEMMA ProtocolKillModel ==
    ASSUME Protocol, Current, Clicked, NEW c \in Clients, KillModel(c)
    PROVE  Protocol' /\ Current' /\ Clicked'
<1>1. /\ viewVars' = viewVars /\ model' = [model EXCEPT ![c] = "killed"]
      /\ model[c] \in {"connected", "greeting", "playing"}
      /\ game' = game /\ toView' = toView /\ toModel' = toModel
      /\ swapped' = swapped
  BY DEF KillModel
<1>2. /\ Flow(c) /\ Ranges
      /\ ~ViewGone => Served
  BY DEF Protocol
<1>3. ChangesOnly(c) /\ model'[c] = "killed"
  BY <1>1, <1>2 DEF ChangesOnly, Ranges
<1>4. /\ view' = view /\ client' = client /\ closed' = closed
      /\ clicked' = clicked
  BY <1>1 DEF viewVars
<1>5. Flow(c)'
  BY <1>1, <1>2, <1>3 DEF Flow
<1>6. Queued(c)' /\ ModelGone(c)'
  BY <1>3 DEF Queued, ModelGone, Gone
<1>7. ~ViewGone /\ c = client => Served'
  BY <1>1, <1>2, <1>3, <1>4 DEF Served, ModelGone, Gone
<1>8. Protocol'
  BY <1>3, <1>5, <1>6, <1>7, ProtocolModelStep DEF Gone
<1>9. Current'
  <2>1. CASE c # client
    BY <1>3, <2>1, CurrentElsewhere
  <2>2. CASE c = client
    BY <1>3, <1>4, <2>2 DEF Current, ModelGone, Gone
  <2> QED
    BY <2>1, <2>2
<1>10. Clicked'
  <2>1. CASE c # client
    BY <1>1, <1>3, <2>1, ClickedElsewhere
  <2>2. CASE c = client
    <3>1. ModelGone(client)'
      BY <1>3, <1>4, <2>2 DEF ModelGone, Gone
    <3>2. toView'[client'] = toView[client] /\ swapped' = swapped
      BY <1>1, <1>4
    <3> QED
      BY <1>4, <3>1, <3>2 DEF Clicked
  <2> QED
    BY <2>1, <2>2
<1> QED
  BY <1>8, <1>9, <1>10

LEMMA ProtocolStutters ==
    Protocol /\ Current /\ Clicked /\ UNCHANGED vars
        => Protocol' /\ Current' /\ Clicked'
<1> SUFFICES ASSUME Protocol, Current, Clicked, UNCHANGED vars
             PROVE  Protocol' /\ Current' /\ Clicked'
  OBVIOUS
<1>1. /\ view' = view /\ client' = client /\ closed' = closed
      /\ selected' = selected /\ screen' = screen /\ clicked' = clicked
      /\ model' = model /\ game' = game /\ swapped' = swapped
      /\ toView' = toView /\ toModel' = toModel
  BY DEF vars, viewVars, modelVars
<1>2. Ranges'
  BY <1>1 DEF Protocol, Ranges
<1>3. \A c \in Clients : Flow(c)'
  BY <1>1, FlowStays DEF Protocol
<1>4. ~ViewGone => Served' /\ \A c \in Clients : Queued(c)'
  <2>1. ~ViewGone => \A c \in Clients : Queued(c)'
    BY <1>1, QueuedStays DEF Protocol
  <2>2. ~ViewGone => Served'
    BY <1>1 DEF Protocol, Served, ModelGone, Idle
  <2> QED
    BY <2>1, <2>2
<1>5. Current' /\ Clicked'
  <2>1. Current'
    BY <1>1 DEF Current, ModelGone, ViewGone
  <2>2. Clicked'
    BY <1>1 DEF Clicked, ModelGone
  <2> QED
    BY <2>1, <2>2
<1> QED
  BY <1>1, <1>2, <1>3, <1>4, <1>5 DEF Protocol, ViewGone

-----------------------------------------------------------------------------
LEMMA ProtocolInductive ==
    Protocol /\ Current /\ Clicked /\ [Next]_vars
        => Protocol' /\ Current' /\ Clicked'
<1> SUFFICES ASSUME Protocol, Current, Clicked, [Next]_vars
             PROVE  Protocol' /\ Current' /\ Clicked'
  OBVIOUS
<1>1. CASE ViewStep
  BY <1>1, ProtocolAccept, ProtocolOpen, ProtocolNoHello, ProtocolRedraw,
     ProtocolRedrawDangling, ProtocolRedrawNothing, ProtocolSayBye DEF ViewStep
<1>2. CASE User
  BY <1>2, ProtocolSelect, ProtocolPress, ProtocolCloseWindow DEF User
<1>3. CASE AcceptInterrupted \/ AcceptFails \/ KillView
  BY <1>3, ProtocolAcceptInterrupted, ProtocolKillView
<1>4. ASSUME NEW c \in Clients,
             Connect(c) \/ ModelRuns(c) \/ ModelFails(c) \/ KillModel(c)
      PROVE  Protocol' /\ Current' /\ Clicked'
  BY <1>4, ProtocolConnect, ProtocolSayHello, ProtocolBegin,
     ProtocolPlayMove, ProtocolReadBye, ProtocolModelEnds, ProtocolKillModel
     DEF ModelRuns
<1>5. CASE UNCHANGED vars
  BY <1>5, ProtocolStutters
<1> QED
  BY <1>1, <1>2, <1>3, <1>4, <1>5 DEF Next

LEMMA ProtocolInvariant == Spec => [](Protocol /\ Current /\ Clicked)
<1> QED
  BY ProtocolAtStart, ProtocolInductive, PTL DEF Spec

(* No message is sent before the one before it was read, in either         *)
(* direction, so that the assumption of the messages' theorems is met.     *)
THEOREM OneMessageInFlight == Spec => []OneInFlight
<1>1. Protocol => OneInFlight
  <2> SUFFICES ASSUME Protocol, NEW c \in Clients, ~ModelGone(c)
               PROVE  Len(toView[c]) + Len(toModel[c]) <= 1
    BY DEF OneInFlight
  <2>1. Flow(c) /\ model[c] \in {"off", "connected", "greeting", "playing",
                                 "spinning"}
    BY DEF Protocol, Ranges, ModelGone
  <2>2. Len(<<>>) = 0 /\ \A s, types : One(s, types) => Len(s) = 1
    BY OnlyMessage
  <2>3. CASE toView[c] = <<>>
    <3>1. \/ toModel[c] = <<>>
          \/ \E types : One(toModel[c], types)
      BY <2>1, <2>3 DEF Flow, Idle
    <3>2. Len(toModel[c]) = 0 \/ Len(toModel[c]) = 1
      BY <2>2, <3>1
    <3>3. Len(toView[c]) = 0
      BY <2>2, <2>3
    <3>4. 0 + 0 <= 1 /\ 0 + 1 <= 1
      OBVIOUS
    <3> QED
      BY <3>2, <3>3, <3>4, Zenon
  <2>4. CASE toView[c] # <<>>
    <3>1. toModel[c] = <<>> /\ One(toView[c], {"hello", "update"})
      BY <2>1, <2>4 DEF Flow, Idle
    <3>2. Len(toView[c]) = 1 /\ Len(toModel[c]) = 0
      BY <2>2, <3>1
    <3> QED
      BY <3>2
  <2> QED
    BY <2>3, <2>4
<1> QED
  BY <1>1, ProtocolInvariant, PTL

(* When the user can act, the window shows the game the model holds.       *)
THEOREM ScreenIsGame == Spec => []ScreenShowsGame
<1>1. Protocol /\ Current => ScreenShowsGame
  <2> SUFFICES ASSUME Protocol, Current, view = "window", ~ModelGone(client)
               PROVE  /\ \A b \in Cell :
                            /\ screen.color[b] = game[client].candies[Flip(b)]
                            /\ screen.state[b] = game[client].squares[Flip(b)]
                      /\ screen.moves = game[client].moves
                      /\ screen.score = game[client].score
    BY DEF ScreenShowsGame
  <2>1. ~ViewGone /\ client # Nobody
    BY ClientServed DEF ViewGone, Gone
  <2>2. screen = Shown(SerializeCurrentState(game[client]))
    BY <2>1 DEF Current
  <2> QED
    BY <2>2 DEF Shown, SerializeCurrentState
<1> QED
  BY <1>1, ProtocolInvariant, PTL

(* The candies that are exchanged are the one selected and the one the     *)
(* arrow points at, as the window shows them.                              *)
THEOREM ArrowsAreRight == Spec => []ArrowMovesWhatItShows
<1>1. Clicked => ArrowMovesWhatItShows
  BY DEF Clicked, ArrowMovesWhatItShows
<1> QED
  BY <1>1, ProtocolInvariant, PTL

(* While the view runs no model spins or fails.                            *)
THEOREM ModelsSurvive == Spec => []ModelsSurviveUnlessAlone
<1>1. Protocol => ModelsSurviveUnlessAlone
  BY DEF Protocol, Queued, ModelsSurviveUnlessAlone
<1> QED
  BY <1>1, ProtocolInvariant, PTL

(* The model that the view serves leaves only when it is killed.           *)
THEOREM ServedModelRemains == Spec => []ServedModelStays
<1>1. Protocol => ServedModelStays
  <2> SUFFICES ASSUME Protocol, ~ViewGone, client # Nobody, ModelGone(client)
               PROVE  model[client] = "killed"
    BY DEF ServedModelStays
  <2>1. client \in Clients \ closed /\ Queued(client)
    BY DEF Protocol, Served
  <2> QED
    BY <2>1 DEF Queued, ModelGone, Gone
<1> QED
  BY <1>1, ProtocolInvariant, PTL

-----------------------------------------------------------------------------
(* The game of a model.                                                    *)

(* The row of the next candy is one the game can read. *)
LEMMA NextRowType ==
    ASSUME NEW g \in Game, NEW c \in ColIds, NEW k \in Nat
    PROVE  /\ NextRow(g, c, k) \in 0..MaxOffset
           /\ ExtRead(g, <<NextRow(g, c, k), c>>) \in Colors
<1>1. g.offset[c] \in 0..MaxOffset
  BY DEF Game, Offset
<1>2. NextRow(g, c, k) \in 0..MaxOffset
  <2>1. \A n \in Int : n % Rows \in 0..(Rows - 1)
    BY BoardAssumption
  <2>2. (g.offset[c] + k) % Rows \in 0..(Rows - 1)
    BY <1>1, <2>1, Game4Assumption
  <2>3. 0..(Rows - 1) \subseteq 0..MaxOffset
    BY BoardAssumption, Game4Assumption
  <2> QED
    BY <1>1, <2>2, <2>3 DEF NextRow
<1>3. ASSUME NEW n \in 0..MaxOffset PROVE ExtRead(g, <<n, c>>) \in Colors
  <2>1. g.ext \in [ExtCell -> Colors] /\ g.heap \in [Behind -> Colors]
    BY DEF Game, Heap
  <2>2. <<n, c>> \in ExtCell \/ <<n, c>> \in Behind
    BY DEF Behind
  <2> QED
    BY <2>1, <2>2 DEF ExtRead
<1> QED
  BY <1>2, <1>3

(* Gravity leaves a game: it finds as many survivors as it packs, and the  *)
(* row it takes from behind the survivors is one it can read.              *)
LEMMA GravityType ==
    ASSUME NEW g \in Game
    PROVE  ApplyGravity(g) \in Game
<1> DEFINE left(c) == Cardinality(Survivors(g.candies, c))
           taken(x) == ExtRead(g, <<NextRow(g, x[2], x[1] - left(x[2])), x[2]>>)
           candies == [x \in Cell |->
               IF x[1] < left(x[2]) THEN Survivor(g.candies, x[2], x[1])
               ELSE taken(x)]
           offset == [c \in ColIds |-> NextRow(g, c, Rows - left(c))]
<1>0. g.candies \in [Cell -> Candy]
  BY DEF Game
<1>1. \A c : left(c) \in 0..Rows
  BY SurvivorsType
<1>2. ASSUME NEW x \in Cell
      PROVE  (IF x[1] < left(x[2]) THEN Survivor(g.candies, x[2], x[1])
              ELSE taken(x)) \in Candy
  <2>1. x[1] \in Nat /\ x[2] \in ColIds
    BY BoardAssumption DEF Cell, RowIds
  <2>2. CASE x[1] < left(x[2])
    BY <1>0, <2>1, <2>2, SurvivorType
  <2>3. CASE ~ (x[1] < left(x[2]))
    <3>1. x[1] - left(x[2]) \in Nat
      <4>1. left(x[2]) \in 0..Rows
        BY <1>1
      <4> HIDE DEF left
      <4> QED
        BY <2>1, <2>3, <4>1
    <3>2. taken(x) \in Colors
      <4> HIDE DEF left
      <4> QED
        BY <2>1, <3>1, NextRowType
    <3> HIDE DEF left, taken
    <3> QED
      BY <2>3, <3>2 DEF Candy
  <2> QED
    BY <2>2, <2>3
<1>3. ASSUME NEW c \in ColIds
      PROVE  NextRow(g, c, Rows - left(c)) \in 0..MaxOffset
  <2>1. Rows - left(c) \in Nat
    <3>1. left(c) \in 0..Rows
      BY <1>1
    <3> HIDE DEF left
    <3> QED
      BY <3>1, BoardAssumption
  <2> HIDE DEF left
  <2> QED
    BY <2>1, NextRowType
<1>4. ApplyGravity(g) = [g EXCEPT !.candies = candies, !.offset = offset]
  BY DEF ApplyGravity
<1>5. candies \in [Cell -> Candy]
  <2> HIDE DEF left, taken
  <2> QED
    BY <1>2
<1>6. offset \in Offset
  <2> HIDE DEF left
  <2> QED
    BY <1>3 DEF Offset
<1> HIDE DEF candies, offset
<1> QED
  BY <1>4, <1>5, <1>6 DEF Game

(* So does a pass. *)
LEMMA GameKeeps == Keeps(Game)
<1> SUFFICES ASSUME NEW g \in Game, NEW u \in Nat, NEW r \in Nat, NEW c \in Nat
             PROVE  Tried(g, u, r, c) \in Game
  BY DEF Keeps
<1>1. /\ g.candies \in [Cell -> Candy] /\ g.squares \in [Cell -> Nat]
      /\ g.score \in Int
  BY DEF Game
<1>2. \/ Tried(g, u, r, c) = g
      \/ \E f \in [Cell -> Candy], s \in [Cell -> Nat], n \in Int :
            Tried(g, u, r, c) = Changed(g, f, s, n)
  BY <1>1, TriedType
<1>3. \A f \in [Cell -> Candy], s \in [Cell -> Nat], n \in Int :
          Changed(g, f, s, n) \in Game
  BY DEF Game, Changed
<1> QED
  BY <1>2, <1>3

(* Settle, pass by pass. *)
After(g) == Passes(ApplyGravity, g)

LEMMA SettleLoop ==
    ASSUME NEW g \in Game
    PROVE  /\ After(g) \in [Nat -> Game] /\ After(g)[0] = g
           /\ \A n \in Nat :
                 After(g)[n + 1] = IF Fires(After(g)[n].candies)
                                   THEN ApplyGravity(Pass(After(g)[n]))
                                   ELSE After(g)[n]
<1> DEFINE Once(h) == IF Fires(h.candies) THEN ApplyGravity(Pass(h)) ELSE h
           F(h) == [n \in Nat |-> IF n = 0 THEN g ELSE Once(h[n - 1])]
           step == [n \in Nat |-> [h \in Game |-> Once(h)]]
           after == CHOOSE h : h = F(h)
<1>1. \A h \in Game : Once(h) \in Game
  BY GameKeeps, PassKeeps, GravityType
<1>2. PICK h \in [Nat -> Game] : Loop(Game, step, g, h)
  <2>1. step \in [Nat -> [Game -> Game]]
    <3> HIDE DEF Once
    <3> QED
      BY <1>1
  <2> HIDE DEF step
  <2> QED
    BY <2>1, Recursion
<1>3. After(g) = after
  BY DEF After, Passes
<1> HIDE DEF Once
<1>4. h = F(h)
  <2>1. \A n \in Nat : n # 0 => n - 1 \in Nat /\ h[n - 1] \in Game
    OBVIOUS
  <2>2. \A n \in Nat : n # 0 => step[n - 1][h[n - 1]] = Once(h[n - 1])
    BY <2>1
  <2> HIDE DEF step
  <2> QED
    BY <1>2, <2>2 DEF Loop
<1>5. after = F(after)
  BY <1>4
<1> HIDE DEF after
<1>6. /\ after[0] = g /\ after = [n \in Nat |-> after[n]]
      /\ \A n \in Nat : after[n + 1] = Once(after[n])
  BY <1>5
<1>7. after \in [Nat -> Game]
  <2>1. \A n \in Nat : after[n] \in Game => after[n + 1] \in Game
    BY <1>1, <1>6
  <2> QED
    BY <1>6, <2>1, LoopType
<1> QED
  BY <1>3, <1>6, <1>7 DEF Once

(* Settle leaves a game, and one in which nothing fires as it is.          *)
LEMMA SettleType ==
    ASSUME NEW g \in Game
    PROVE  Settle(g) \in Game /\ (~Fires(g.candies) => Settle(g) = g)
<1>1. MaxSettle \in Nat /\ Settle(g) = After(g)[MaxSettle]
  BY Game4Assumption DEF Settle, After
<1>2. Settle(g) \in Game
  BY <1>1, SettleLoop
<1>3. ASSUME ~Fires(g.candies) PROVE Settle(g) = g
  <2> DEFINE S == {n \in Nat : After(g)[n] = g}
  <2>1. 0 \in S
    BY SettleLoop
  <2>2. ASSUME NEW n \in Nat, n \in S PROVE n + 1 \in S
    <3>1. After(g)[n] = g
      BY <2>2
    <3>2. After(g)[n + 1] = g
      BY <1>3, <3>1, SettleLoop
    <3> QED
      BY <3>2
  <2>3. Nat \subseteq S
    <3> HIDE DEF S
    <3> QED
      BY <2>1, <2>2, NatSet
  <2> QED
    BY <1>1, <2>3
<1> QED
  BY <1>2, <1>3

(* A game object before or after Init, as it faces the heap. *)
Object == [ext: [ExtCell -> Candy], candies: [Cell -> Candy],
           squares: [Cell -> Nat], offset: Offset, score: Int, moves: Int,
           heap: Heap]

LEMMA ObjectType ==
    ASSUME NEW g \in Game \cup {NoGame}, NEW heap \in Heap
    PROVE  /\ [g EXCEPT !.heap = heap] \in Object
           /\ g \in Game => [g EXCEPT !.heap = heap] \in Game
<1>1. Hole \in Candy /\ 0 \in 0..MaxOffset
  BY Game4Assumption DEF Candy
<1>2. [ExtCell -> Colors] \subseteq [ExtCell -> Candy]
  BY DEF Candy
<1>3. CASE g = NoGame
  <2>1. [g EXCEPT !.heap = heap] \in Object
    BY <1>1, <1>3 DEF NoGame, Offset, Object
  <2>2. g.heap = [x \in Behind |-> Hole]
    BY <1>3 DEF NoGame
  <2>3. g \in Game => [g EXCEPT !.heap = heap] \in Game
    BY DEF Game
  <2> QED
    BY <2>1, <2>3
<1>4. CASE g \in Game
  BY <1>2, <1>4 DEF Game, Object
<1> QED
  BY <1>3, <1>4

(* What Init makes of a file is a game. *)
LEMMA InitType ==
    ASSUME NEW g \in Object, NEW f \in Instance
    PROVE  GameInit(g, f) \in Game
<1> DEFINE read == [g EXCEPT !.ext = f.ext, !.squares = f.squares]
<1>1. /\ f.ext \in [ExtCell -> Colors] /\ f.squares \in [Cell -> Nat]
      /\ f.gamestate = NoState \/ f.gamestate \in GameState
  BY DEF Instance
<1>3. read \in [ext: [ExtCell -> Colors], candies: [Cell -> Candy],
                squares: [Cell -> Nat], offset: Offset, score: Int, moves: Int,
                heap: Heap]
  BY <1>1 DEF Object
<1>4. read \in Game
  BY <1>3 DEF Game
<1> HIDE DEF read
<1>5. CASE f.gamestate = NoState
  <2> DEFINE fresh == [read EXCEPT !.candies = [x \in Cell |-> Hole],
                                   !.offset = [c \in ColIds |-> 0]]
  <2>1. [x \in Cell |-> Hole] \in [Cell -> Candy] /\ [c \in ColIds |-> 0] \in Offset
    BY Game4Assumption DEF Candy, Offset
  <2>2. fresh \in Game
    BY <1>4, <2>1 DEF Game
  <2>3. GameInit(g, f) = Settle(ApplyGravity(fresh))
    BY <1>5 DEF GameInit, read
  <2> HIDE DEF fresh
  <2> QED
    BY <2>2, <2>3, GravityType, SettleType
<1>6. CASE f.gamestate # NoState
  <2> DEFINE s == f.gamestate
             kept == [read EXCEPT !.candies = s.candies, !.squares = s.squares,
                                  !.offset = s.offset, !.score = s.score,
                                  !.moves = 0]
  <2>1. /\ s.candies \in [Cell -> Candy] /\ s.squares \in [Cell -> Nat]
        /\ s.offset \in Offset /\ s.score \in Int
    BY <1>1, <1>6 DEF GameState
  <2>2. kept \in Game
    <3> DEFINE board == [read EXCEPT !.candies = s.candies, !.squares = s.squares]
               placed == [board EXCEPT !.offset = s.offset]
               scored == [placed EXCEPT !.score = s.score]
    <3> HIDE DEF s
    <3>1. board \in Game
      BY <1>4, <2>1 DEF Game
    <3>2. placed \in Game
      <4> HIDE DEF board
      <4> QED
        BY <2>1, <3>1 DEF Game
    <3>3. scored \in Game
      <4> HIDE DEF placed
      <4> QED
        BY <2>1, <3>2 DEF Game
    <3>4. [scored EXCEPT !.moves = 0] \in Game
      <4> HIDE DEF scored
      <4> QED
        BY <3>3 DEF Game
    <3> QED
      BY <3>4
  <2>3. GameInit(g, f) = Settle(kept)
    BY <1>6 DEF GameInit, read
  <2> HIDE DEF kept
  <2> QED
    BY <2>2, <2>3, SettleType
<1> QED
  BY <1>5, <1>6

(* What a move makes of a game, and what is written of it.                 *)
LEMMA SwapType ==
    ASSUME NEW g \in Game, NEW a, NEW b
    PROVE  Swap(g, a, b) \in Game
<1> DEFINE counted == [g EXCEPT !.moves = @ + 1]
           exchanged == [counted EXCEPT !.candies = Exchange(g.candies, a, b)]
<1>1. counted \in Game
  BY DEF Game
<1>2. ASSUME a \in Cell, b \in Cell PROVE exchanged \in Game
  <2>1. Exchange(g.candies, a, b) \in [Cell -> Candy]
    BY <1>2 DEF Exchange, Game
  <2> HIDE DEF counted
  <2> QED
    BY <1>1, <2>1 DEF Game
<1>3. CASE a \notin Cell \/ b \notin Cell
  BY <1>3 DEF Swap
<1>4. CASE a \in Cell /\ b \in Cell
  <2>1. Swap(g, a, b) = IF Fires(exchanged.candies) THEN Settle(exchanged) ELSE counted
    BY <1>4 DEF Swap
  <2> HIDE DEF counted, exchanged
  <2> QED
    BY <1>1, <1>2, <1>4, <2>1, SettleType
<1> QED
  BY <1>3, <1>4

LEMMA SerializeType ==
    ASSUME NEW g \in Game
    PROVE  /\ SerializeCurrentState(g) \in Instance
           /\ SerializeCurrentState(g).gamestate \in GameState
  BY DEF Game, Instance, GameState, SerializeCurrentState

(* A game that has settled is read back as it was, without its moves.      *)
LEMMA ReadBackIs ==
    ASSUME NEW g \in Game, ~Fires(g.candies)
    PROVE  ReadBack(g) = [g EXCEPT !.moves = 0]
<1> DEFINE f == SerializeCurrentState(g)
           s == f.gamestate
           blank == [NoGame EXCEPT !.heap = g.heap]
           read == [blank EXCEPT !.ext = f.ext, !.squares = f.squares]
           kept == [read EXCEPT !.candies = s.candies, !.squares = s.squares,
                                !.offset = s.offset, !.score = s.score,
                                !.moves = 0]
           unmoved == [g EXCEPT !.moves = 0]
<1>1. s # NoState
  BY SerializeType, StateAssumption
<1>2. ReadBack(g) = Settle(kept)
  BY <1>1 DEF GameInit, ReadBack
<1>3. kept = unmoved
  BY DEF SerializeCurrentState, NoGame, Game
<1>4. unmoved \in Game /\ unmoved.candies = g.candies
  BY DEF Game
<1>5. Settle(unmoved) = unmoved
  <2> HIDE DEF unmoved
  <2> QED
    BY <1>4, SettleType
<1> HIDE DEF kept, unmoved, f
<1> QED
  BY <1>2, <1>3, <1>5 DEF unmoved

-----------------------------------------------------------------------------
(* Every variable keeps its range.                                         *)

(* What is sent: a move of a cell, the file, or a game that was written.   *)
Letter ==
    {m \in MessageType :
        /\ m.type = "helloack" => m.content \in Instance
        /\ m.type = "update" =>
              \E g \in Game : m.content = SerializeCurrentState(g)
        /\ m.type = "move" =>
              m.content \in [row: RowIds, column: ColIds, direction: 0..3]}

Queues == /\ toView \in [Clients -> Seq(Letter)]
          /\ toModel \in [Clients -> Seq(Letter)]
Games == /\ game \in [Clients -> Game \cup {NoGame}]
         /\ \A c \in Clients : model[c] = "playing" => game[c] \in Game
Seats == client \in Clients \cup {Nobody} /\ closed \subseteq Clients
Window ==
    /\ selected = NoCandy \/ selected \in [window: Clients, button: Cell]
    /\ screen = NoScreen \/ screen \in Screen
Bounds == file \in Files /\ presses \in 0..MaxPresses
Typed == Queues /\ Games /\ Seats /\ Window /\ Bounds

LEMMA TypedStart == Init => Typed
<1> SUFFICES ASSUME Init PROVE Typed
  OBVIOUS
<1>1. Queues /\ Games /\ Seats
  BY DEF Init, Queues, Games, Seats
<1>2. Window /\ Bounds
  BY ViewModelAssumption DEF Init, Window, Bounds
<1> QED
  BY <1>1, <1>2 DEF Typed

(* The queues of letters. *)
LEMMA Enqueue ==
    ASSUME NEW q \in [Clients -> Seq(Letter)], NEW c, NEW m \in Letter
    PROVE  [q EXCEPT ![c] = Append(@, m)] \in [Clients -> Seq(Letter)]
<1>1. \A d \in Clients : Append(q[d], m) \in Seq(Letter)
  OBVIOUS
<1> QED
  BY <1>1

LEMMA Dequeue ==
    ASSUME NEW q \in [Clients -> Seq(Letter)], NEW c \in Clients, q[c] # <<>>
    PROVE  /\ [q EXCEPT ![c] = Tail(@)] \in [Clients -> Seq(Letter)]
           /\ Head(q[c]) \in Letter
<1>1. q[c] \in Seq(Letter)
  OBVIOUS
<1>2. Tail(q[c]) \in Seq(Letter) /\ Head(q[c]) \in Letter
  BY <1>1
<1> QED
  BY <1>2

LEMMA LetterIs ==
    /\ Message("hello", <<>>) \in Letter /\ Message("bye", <<>>) \in Letter
    /\ Message("helloack", file) \in Letter \/ file \notin Files
    /\ \A g \in Game : Message("update", SerializeCurrentState(g)) \in Letter
    /\ \A x \in [row: RowIds, column: ColIds, direction: 0..3] :
          Message("move", x) \in Letter
<1>1. <<>> \in Content
  BY DEF Content
<1>2. file \in Files => file \in Instance /\ file \in Content
  BY ViewModelAssumption DEF Content
<1>3. \A g \in Game : SerializeCurrentState(g) \in Content
  BY SerializeType DEF Content
<1>4. \A x \in [row: RowIds, column: ColIds, direction: 0..3] : x \in Content
  BY DEF Content
<1>5. ASSUME NEW type \in {"hello", "helloack", "update", "move", "bye"},
             NEW content \in Content
      PROVE  /\ Message(type, content) \in MessageType
             /\ Message(type, content).type = type
             /\ Message(type, content).content = content
  BY DEF Message, MessageType
<1>6. Message("hello", <<>>) \in Letter /\ Message("bye", <<>>) \in Letter
  BY <1>1, <1>5 DEF Letter
<1>7. file \in Files => Message("helloack", file) \in Letter
  BY <1>2, <1>5 DEF Letter
<1>8. \A g \in Game : Message("update", SerializeCurrentState(g)) \in Letter
  BY <1>3, <1>5 DEF Letter
<1>9. \A x \in [row: RowIds, column: ColIds, direction: 0..3] :
          Message("move", x) \in Letter
  BY <1>4, <1>5 DEF Letter
<1> QED
  BY <1>6, <1>7, <1>8, <1>9

(* What an update shows has a picture. *)
LEMMA ShownType ==
    ASSUME NEW g \in Game
    PROVE  Shown(SerializeCurrentState(g)) \in Screen
<1>1. \A b \in Cell : Flip(b) \in Cell
  BY BoardAssumption DEF Flip, Cell, RowIds
<1>2. /\ g.candies \in [Cell -> Candy] /\ g.squares \in [Cell -> Nat]
      /\ g.score \in Int /\ g.moves \in Int
  BY DEF Game
<1> QED
  BY <1>1, <1>2 DEF Shown, SerializeCurrentState, Screen

(* The view's steps touch neither games nor models.                        *)
LEMMA TypedView ==
    ASSUME Protocol, Typed,
           \/ ViewStep \/ User \/ AcceptInterrupted \/ AcceptFails \/ KillView
    PROVE  Typed'
<1> USE DEF Typed
<1>0. ASSUME NEW m \in Letter, NEW then, Tell(m, then)
      PROVE  toModel' \in [Clients -> Seq(Letter)]
  <2>1. toModel' = toModel \/ toModel' = [toModel EXCEPT ![client] = Append(@, m)]
    BY <1>0 DEF Tell
  <2>2. toModel \in [Clients -> Seq(Letter)]
    BY DEF Queues
  <2>3. [toModel EXCEPT ![client] = Append(@, m)] \in [Clients -> Seq(Letter)]
    BY <2>2, Enqueue
  <2> QED
    BY <2>1, <2>2, <2>3
<1>1. ASSUME NEW c \in Clients, Accept(c) PROVE Typed'
  BY <1>1 DEF Accept, modelVars, Queues, Games, Seats, Window, Bounds
<1>2. CASE Open
  <2>1. client \in Clients
    BY <1>2, ClientServed DEF Open, ViewGone, Gone
  <2>2. Message("helloack", file) \in Letter
    BY LetterIs DEF Bounds
  <2>3. toModel' \in [Clients -> Seq(Letter)]
    BY <1>0, <1>2, <2>2 DEF Open
  <2>4. toView' \in [Clients -> Seq(Letter)]
    BY <1>2, <2>1, Dequeue DEF Open, Heard, Hear, Queues
  <2> QED
    BY <1>2, <2>3, <2>4 DEF Open, modelVars, Queues, Games, Seats, Window, Bounds
<1>3. CASE \/ NoHello \/ RedrawNothing \/ AcceptInterrupted \/ AcceptFails
           \/ KillView
  BY <1>3 DEF NoHello, RedrawNothing, AcceptInterrupted, AcceptFails, KillView, modelVars,
              Queues, Games, Seats, Window, Bounds
<1>4. CASE Redraw
  <2> DEFINE m == Head(toView[client])
  <2>1. client \in Clients /\ toView[client] # <<>> /\ m.type = "update"
    BY <1>4, ClientServed DEF Redraw, Heard, ViewGone, Gone
  <2>2. toView' \in [Clients -> Seq(Letter)] /\ m \in Letter
    BY <1>4, <2>1, Dequeue DEF Redraw, Hear, Queues
  <2>3. PICK g \in Game : m.content = SerializeCurrentState(g)
    BY <2>1, <2>2 DEF Letter
  <2>4. screen' \in Screen
    BY <1>4, <2>3, ShownType DEF Redraw
  <2> QED
    BY <1>4, <2>2, <2>4 DEF Redraw, Queues, Games, Seats, Window, Bounds
<1>10. CASE RedrawDangling
  <2>1. client \in Clients /\ toView[client] # <<>>
    BY <1>10, ClientServed DEF RedrawDangling, Heard, ViewGone, Gone
  <2>2. toView' \in [Clients -> Seq(Letter)]
    BY <1>10, <2>1, Dequeue DEF RedrawDangling, Hear, Queues
  <2> QED
    BY <1>10, <2>2 DEF RedrawDangling, modelVars, Queues, Games, Seats, Window,
                       Bounds
<1>5. ASSUME NEW b \in Cell, Select(b) PROVE Typed'
  <2>1. client \in Clients
    BY <1>5, ClientServed DEF Select, ViewGone, Gone
  <2>2. Window'
    BY <1>5, <2>1 DEF Select, Window
  <2> QED
    BY <1>5, <2>2 DEF Select, modelVars, Queues, Games, Seats, Bounds
<1>6. ASSUME NEW b \in Cell, NEW a \in Arrows, SendMove(b, a) PROVE Typed'
  <2> DEFINE x == [row |-> b[1], column |-> b[2], direction |-> Dir(a)]
  <2>1. x \in [row: RowIds, column: ColIds, direction: 0..3]
    <3>1. b[1] \in RowIds /\ b[2] \in ColIds
      BY DEF Cell
    <3>2. Dir(a) \in 0..3
      BY DEF Dir, Arrows
    <3> QED
      BY <3>1, <3>2
  <2>2. Message("move", x) \in Letter
    <3> HIDE DEF x
    <3> QED
      BY <2>1, LetterIs
  <2>3. toModel' \in [Clients -> Seq(Letter)]
    BY <1>0, <1>6, <2>2 DEF SendMove
  <2>4. Bounds'
    BY <1>6, ViewModelAssumption DEF SendMove, Bounds
  <2> QED
    BY <1>6, <2>3, <2>4 DEF SendMove, modelVars, Queues, Games, Seats, Window
<1>7. ASSUME NEW a \in Arrows, Press(a) \/ PressStale(a) PROVE Typed'
  <2>1. CASE Press(a)
    <3>1. selected.button \in Cell
      BY <2>1 DEF Press, Window
    <3> QED
      BY <1>6, <2>1, <3>1 DEF Press
  <2>2. CASE PressStale(a) /\ \E b \in Cell : SendMove(b, a)
    BY <1>6, <2>2
  <2>3. CASE PressStale(a) /\ ~ \E b \in Cell : SendMove(b, a)
    BY <2>3 DEF PressStale, modelVars, Queues, Games, Seats, Window, Bounds
  <2> QED
    BY <1>7, <2>1, <2>2, <2>3
<1>8. CASE CloseWindow
  BY <1>8 DEF CloseWindow, modelVars, Queues, Games, Seats, Window, Bounds
<1>9. CASE SayBye
  <2>1. client \in Clients
    BY <1>9, ClientServed DEF SayBye, ViewGone, Gone
  <2>2. Message("bye", <<>>) \in Letter
    BY LetterIs
  <2>3. toModel' \in [Clients -> Seq(Letter)]
    BY <1>0, <1>9, <2>2 DEF SayBye
  <2> QED
    BY <1>9, <2>1, <2>3 DEF SayBye, modelVars, Queues, Games, Seats, Window, Bounds
<1> QED
  BY <1>1, <1>2, <1>3, <1>4, <1>5, <1>7, <1>8, <1>9, <1>10 DEF ViewStep, User

(* Nor do the models' steps touch the view.                                *)
LEMMA TypedModel ==
    ASSUME Protocol, Typed, NEW c \in Clients,
           Connect(c) \/ ModelRuns(c) \/ ModelFails(c) \/ KillModel(c)
    PROVE  Typed'
<1> USE DEF Typed
<1>0. DOMAIN model = Clients
  BY DEF Protocol, Ranges
<1>1. ASSUME UNCHANGED viewVars PROVE Seats' /\ Window' /\ Bounds'
  BY <1>1 DEF viewVars, Seats, Window, Bounds
<1>2. ASSUME NEW g \in Game, Answer(c, g)
      PROVE  toView' \in [Clients -> Seq(Letter)]
  <2>1. Message("update", SerializeCurrentState(g)) \in Letter
    BY LetterIs
  <2> QED
    BY <1>2, <2>1, Enqueue DEF Answer, Queues
<1>3. ASSUME toModel[c] # <<>>, TakeIn(c)
      PROVE  toModel' \in [Clients -> Seq(Letter)] /\ Head(toModel[c]) \in Letter
  BY <1>3, Dequeue DEF TakeIn, Queues
<1>4. ASSUME NEW to, to # "playing", model' = [model EXCEPT ![c] = to], game' = game
      PROVE  Games'
  BY <1>0, <1>4 DEF Games
<1>5. CASE \/ Connect(c) \/ BeginNothing(c) \/ Spin(c) \/ ModelFails(c)
           \/ KillModel(c)
  <2>1. /\ UNCHANGED <<viewVars, game, toView, toModel>>
        /\ \E to \in {"connected", "ended", "spinning", "killed"} :
              model' = [model EXCEPT ![c] = to]
    BY <1>5 DEF Connect, BeginNothing, Spin, ModelFails, KillModel, ModelStep
  <2>2. Games'
    BY <1>4, <2>1
  <2> QED
    BY <1>1, <2>1, <2>2 DEF Queues
<1>6. CASE SayHello(c)
  <2>1. toView' \in [Clients -> Seq(Letter)]
    BY <1>6, LetterIs, Enqueue DEF SayHello, Queues
  <2>2. Games'
    BY <1>4, <1>6 DEF SayHello, ModelStep
  <2> QED
    BY <1>1, <1>6, <2>1, <2>2 DEF SayHello, Queues
<1>7. ASSUME NEW g \in Game, game' = [game EXCEPT ![c] = g], Answer(c, g),
             toModel[c] # <<>>, TakeIn(c), UNCHANGED viewVars,
             model' = [model EXCEPT ![c] = "playing"]
      PROVE  Typed'
  <2>1. Games'
    BY <1>0, <1>7 DEF Games
  <2>2. Queues'
    BY <1>2, <1>3, <1>7 DEF Queues
  <2> QED
    BY <1>1, <1>7, <2>1, <2>2
<1>8. CASE Begin(c)
  <2>1. PICK heap \in Heaps :
            \E g \in {GameInit(Facing(c, heap), Head(toModel[c]).content)} :
                game' = [game EXCEPT ![c] = g] /\ Answer(c, g)
    BY <1>8 DEF Begin
  <2> DEFINE g == GameInit(Facing(c, heap), Head(toModel[c]).content)
  <2>2. /\ toModel[c] # <<>> /\ TakeIn(c) /\ Head(toModel[c]).type = "helloack"
        /\ game' = [game EXCEPT ![c] = g] /\ Answer(c, g) /\ UNCHANGED viewVars
        /\ model' = [model EXCEPT ![c] = "playing"]
    BY <1>8, <2>1 DEF Begin, Told, ModelStep
  <2>3. g \in Game
    <3>1. Head(toModel[c]).content \in Instance /\ game[c] \in Game \cup {NoGame}
      BY <1>3, <2>2 DEF Letter, Games
    <3>2. Facing(c, heap) \in Object
      BY <3>1, ObjectType, ViewModelAssumption DEF Facing
    <3> QED
      BY <3>1, <3>2, InitType
  <2> HIDE DEF g
  <2> QED
    BY <1>7, <2>2, <2>3
<1>9. CASE PlayMove(c)
  <2>1. PICK heap \in Heaps :
            \E g \in {Swap(Facing(c, heap), Moved(c)[1], Moved(c)[2])} :
                game' = [game EXCEPT ![c] = g] /\ Answer(c, g)
    BY <1>9 DEF PlayMove
  <2> DEFINE g == Swap(Facing(c, heap), Moved(c)[1], Moved(c)[2])
  <2>2. /\ toModel[c] # <<>> /\ TakeIn(c) /\ model[c] = "playing"
        /\ game' = [game EXCEPT ![c] = g] /\ Answer(c, g) /\ UNCHANGED viewVars
        /\ model' = [model EXCEPT ![c] = "playing"]
    BY <1>9, <2>1 DEF PlayMove, Told, ModelStep
  <2>3. g \in Game
    <3>1. Facing(c, heap) \in Game
      BY <2>2, ObjectType, ViewModelAssumption DEF Games, Facing
    <3> QED
      BY <3>1, SwapType
  <2> HIDE DEF g
  <2> QED
    BY <1>7, <2>2, <2>3
<1>10. CASE ReadBye(c)
  <2>1. Games'
    BY <1>4, <1>10 DEF ReadBye, ModelStep
  <2>2. Queues'
    BY <1>3, <1>10 DEF ReadBye, Told, Queues
  <2> QED
    BY <1>1, <1>10, <2>1, <2>2 DEF ReadBye
<1> QED
  BY <1>5, <1>6, <1>8, <1>9, <1>10 DEF ModelRuns

LEMMA TypedInvariant == Spec => []Typed
<1>1. Protocol /\ Typed /\ [Next]_vars => Typed'
  <2> SUFFICES ASSUME Protocol, Typed, [Next]_vars PROVE Typed'
    OBVIOUS
  <2>1. CASE \/ ViewStep \/ User \/ AcceptInterrupted \/ AcceptFails
             \/ KillView
    BY <2>1, TypedView
  <2>2. ASSUME NEW c \in Clients,
               Connect(c) \/ ModelRuns(c) \/ ModelFails(c) \/ KillModel(c)
        PROVE  Typed'
    BY <2>2, TypedModel
  <2>3. CASE UNCHANGED vars
    BY <2>3 DEF vars, viewVars, modelVars, Typed, Queues, Games, Seats, Window,
                Bounds
  <2> QED
    BY <2>1, <2>2, <2>3 DEF Next
<1> QED
  BY <1>1, TypedStart, ProtocolInvariant, PTL DEF Spec

(* Whatever is played, what the programs keep, send and show has its       *)
(* range; in particular gravity asks for no row beyond the largest offset  *)
(* that a file named, and draws no hole from the extension board.          *)
THEOREM TypeCorrect == Spec => []TypeOK
<1>1. Protocol /\ Typed => TypeOK
  <2> SUFFICES ASSUME Protocol, Typed PROVE TypeOK
    OBVIOUS
  <2>1. ASSUME NEW c \in Clients
        PROVE  /\ game[c] = NoGame \/ game[c] \in Game
               /\ \A i \in 1..Len(toView[c]) : toView[c][i] \in MessageType
               /\ \A i \in 1..Len(toModel[c]) : toModel[c][i] \in MessageType
    <3>1. toView[c] \in Seq(Letter) /\ toModel[c] \in Seq(Letter)
      BY DEF Typed, Queues
    <3>2. \A m \in Letter : m \in MessageType
      BY DEF Letter
    <3>3. \A s \in Seq(Letter) : \A i \in 1..Len(s) : s[i] \in Letter
      OBVIOUS
    <3>4. game[c] \in Game \cup {NoGame}
      BY DEF Typed, Games
    <3> QED
      BY <3>1, <3>2, <3>3, <3>4
  <2> QED
    BY <2>1 DEF TypeOK, Typed, Protocol, Ranges, Seats, Window, Bounds
<1> QED
  BY <1>1, TypedInvariant, ProtocolInvariant, PTL

(* Whatever game a model has settled, it survives being written and read   *)
(* again, but for its moves.                                               *)
THEOREM GameIsReadBack == Spec => []ReadBackButMoves
<1>1. Typed => ReadBackButMoves
  <2> SUFFICES ASSUME Typed, NEW c \in Clients, Settled(c)
               PROVE  [ReadBack(game[c]) EXCEPT !.moves = 0]
                          = [game[c] EXCEPT !.moves = 0]
    BY DEF ReadBackButMoves
  <2>1. game[c] \in Game /\ ~Fires(game[c].candies)
    BY DEF Typed, Games, Settled
  <2>2. ReadBack(game[c]) = [game[c] EXCEPT !.moves = 0]
    BY <2>1, ReadBackIs
  <2> QED
    BY <2>1, <2>2 DEF Game
<1> QED
  BY <1>1, TypedInvariant, PTL
==============================================================================
