------------------------------ MODULE SolverSpec ------------------------------
(***************************************************************************)
(* What the solver promises its server, without threads, locks and queues: *)
(* each request is answered by one legal move of the game as it stands,    *)
(* which is then played; bye ends the program.  It may stop instead of     *)
(* answering, and once its server has hung up it may go on for ever        *)
(* without doing anything.                                                 *)
(***************************************************************************)
EXTENDS Naturals, Sequences

CONSTANT Legal(_)   \* the moves there are after a path

VARIABLES path,     \* the moves played
          phase     \* "idle", "asked", "dismissed", "over" or "deaf"

vars == <<path, phase>>

Init == path = <<>> /\ phase = "idle"

Request ==
    /\ phase = "idle" /\ phase' \in {"asked", "dismissed"}
    /\ UNCHANGED path

Answer ==
    /\ phase = "asked" /\ phase' = "idle"
    /\ \E i \in 1..Len(Legal(path)) : path' = Append(path, Legal(path)[i])

(* No move was found, bye was answered, or the connection broke.           *)
Stop ==
    /\ phase \in {"idle", "asked", "dismissed"} /\ phase' = "over"
    /\ UNCHANGED path

GoDeaf ==
    /\ phase = "idle" /\ phase' = "deaf"
    /\ UNCHANGED path

Next == Request \/ Answer \/ Stop \/ GoDeaf

Spec == Init /\ [][Next]_vars
==============================================================================
