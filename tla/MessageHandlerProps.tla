------------------------- MODULE MessageHandlerProps -------------------------
(***************************************************************************)
(* What the users of a MessageHandler rely on, and how much of it holds    *)
(* when the peer does not wait for one message to be received before it    *)
(* sends the next.                                                         *)
(***************************************************************************)
EXTENDS MessageHandler

Byte == UNION {{<<n, i>> : i \in 1..Len(Outgoing[n])} : n \in 1..Len(Outgoing)}

(* Every variable keeps its range, and the peer keeps to its window.       *)
TypeOK ==
    /\ window \in Windows /\ sent \in 0..Len(Outgoing) /\ closed \in BOOLEAN
    /\ broken \in BOOLEAN /\ lost \in Seq(Byte)
    /\ sent - Len(got) \in 0..window
    /\ out \in Seq(Byte) /\ wire \in Seq(Byte) /\ strBuf \in Seq(Byte)
    /\ pc \in {"idle", "reading", "crashed", "thrown"} /\ bracketCount \in Int
    /\ got \in Seq(1..Len(Outgoing)) /\ ended \in BOOLEAN

(* Messages are returned in the order they were sent, none twice and none  *)
(* put together from parts of several, whatever the peer does.             *)
InOrder == \A i \in 1..(Len(got) - 1) : got[i] < got[i + 1]

(* A peer that waits loses nothing but what the connection or a failed     *)
(* write swallowed: what was read of the message in flight, what is on the *)
(* wire, what was swallowed and what is still to be written make the       *)
(* message, however writes and reads cut it.                               *)
NothingLost ==
    window = 1 /\ sent > Len(got) /\ ~ended /\ pc # "thrown" =>
        LET read == IF pc = "reading" THEN strBuf ELSE <<>>
        IN  read \o wire \o (lost \o out) = Bytes(sent)

(* Nor does its message end the program, or wait while it can be returned. *)
NoFragment == window = 1 => pc # "crashed"

-----------------------------------------------------------------------------
LastByteWritten(n) == \E i \in 1..Len(wire) : wire[i] = <<n, Len(Outgoing[n])>>
Returned(n) == \E i \in 1..Len(got) : got[i] = n

(* A message that a peer that waits has wholly written is returned, unless *)
(* the connection breaks and swallows a part of it.                        *)
PatientPeerIsHeard ==
    \A n \in 1..Len(Outgoing) :
        (window = 1 /\ LastByteWritten(n)) ~> (Returned(n) \/ lost # <<>>)


-----------------------------------------------------------------------------
(* The invariants from which the safety properties follow, for any         *)
(* messages and any size of a read.                                        *)

(* What the call in progress has kept; bracketCount is its depth.          *)
Held == IF pc = "reading" THEN strBuf ELSE <<>>
BracesCounted == pc = "reading" => bracketCount = Depth(strBuf)

(* All bytes on their way are in the order in which they were written, and *)
(* are of messages after those that were returned.                         *)
Before(a, b) == a[1] < b[1] \/ (a[1] = b[1] /\ a[2] < b[2])
Ascending(s) == \A i, j \in 1..Len(s) : i < j => Before(s[i], s[j])
Below(s, t) == \A i \in 1..Len(s), j \in 1..Len(t) : Before(s[i], t[j])
Ahead(s) ==
    \A i \in 1..Len(s) :
        s[i][1] <= sent /\ \A j \in 1..Len(got) : got[j] < s[i][1]
BytesInOrder ==
    /\ Ascending(Held) /\ Ascending(wire) /\ Ascending(out)
    /\ Below(Held, wire) /\ Below(Held, out) /\ Below(wire, out)
    /\ Ahead(Held) /\ Ahead(wire) /\ Ahead(out)
GotInOrder ==
    /\ \A i \in 1..Len(got) : i <= got[i] /\ got[i] <= sent
    /\ \A i, j \in 1..Len(got) : i < j => got[i] < got[j]
OrderInv == BytesInOrder /\ GotInOrder

(* With a peer that waits, the bytes on their way are one message, of      *)
(* which the end is still to come.                                         *)
PatientInv ==
    window = 1 =>
        /\ pc # "crashed"
        /\ ended => closed /\ wire = <<>>
        /\ pc = "thrown" => broken /\ wire = <<>>
        /\ sent = Len(got) =>
              Held = <<>> /\ wire = <<>> /\ lost = <<>> /\ out = <<>>
        /\ sent > Len(got) /\ ~ended /\ pc # "thrown" =>
              /\ Held \o wire \o (lost \o out) = Bytes(sent)
              /\ lost # <<>> => broken \/ out = <<>>
              /\ Len(Held) < Len(Outgoing[sent])
==============================================================================
