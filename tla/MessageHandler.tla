---------------------------- MODULE MessageHandler ----------------------------
(***************************************************************************)
(* One direction of a connection: the peer's SendMessage and WrappedWrite, *)
(* the stream of bytes TCP makes of them, and GetNextMessage, which counts *)
(* braces to find where a JSON message ends.                               *)
(*                                                                         *)
(* A byte is <<n, i>>, the i-th of the n-th message; of its text only the  *)
(* braces matter.  write and read may move any number of bytes: TCP keeps  *)
(* the order of bytes and nothing else.  The peer may close its end, and   *)
(* the connection may break at any moment: read and write then fail.       *)
(***************************************************************************)
EXTENDS Integers, Sequences, SequencesExt, FiniteSetsExt

CONSTANTS Outgoing,   \* the messages the peer sends, in order
          Windows,    \* how many the peer may send before they were received
          MaxRead     \* the size of a read (49999 in the code)

(* A message is a sequence of braces and other text: one JSON object.      *)
Text == {"open", "close", "other"}
Braces(s, b) == Cardinality({i \in 1..Len(s) : s[i] = b})
IsObject(s) ==
    /\ s # <<>> /\ s[1] = "open"
    /\ \A p \in 1..Len(s) :
          LET start == SubSeq(s, 1, p) IN
          /\ Braces(start, "open") >= Braces(start, "close")
          /\ Braces(start, "open") = Braces(start, "close") <=> p = Len(s)

ASSUME MessageAssumption ==
    /\ Outgoing \in Seq(Seq(Text)) /\ \A n \in 1..Len(Outgoing) : IsObject(Outgoing[n])
    /\ Windows \subseteq Nat \ {0} /\ MaxRead \in Nat \ {0}

VARIABLES window,     \* the peer's choice among Windows
          sent,       \* messages given to SendMessage
          out,        \* what WrappedWrite has still to write
          wire,       \* written and not yet read
          closed,     \* the peer's end of the connection is gone
          broken,     \* the connection was reset
          lost,       \* history variable: bytes that will never be read
          pc,         \* GetNextMessage: "idle", "reading", "crashed", "thrown"
          bracketCount, strBuf,
          got,        \* the messages returned
          ended       \* a message without a type was returned: end of file

peer == <<window, sent, out, closed>>
link == <<broken, lost>>
vars == <<peer, link, wire, pc, bracketCount, strBuf, got, ended>>

Bytes(n) == [i \in 1..Len(Outgoing[n]) |-> <<n, i>>]
Token(b) == Outgoing[b[1]][b[2]]
Depth(s) ==
    LET tokens == [i \in 1..Len(s) |-> Token(s[i])]
    IN  Braces(tokens, "open") - Braces(tokens, "close")

Init ==
    /\ window \in Windows /\ sent = 0 /\ out = <<>> /\ closed = FALSE
    /\ broken = FALSE /\ lost = <<>>
    /\ wire = <<>> /\ pc = "idle" /\ bracketCount = 0 /\ strBuf = <<>>
    /\ got = <<>> /\ ended = FALSE

-----------------------------------------------------------------------------
SendMessageWithNul ==  \* fault: the length counts the end of the string
    /\ ~closed /\ out = <<>> /\ sent < Len(Outgoing)
    /\ sent' = sent + 1
    /\ out' = Append(Bytes(sent + 1), <<sent + 1, Len(Outgoing[sent + 1]) + 1>>)
    /\ UNCHANGED <<window, closed, link, wire, pc, bracketCount, strBuf, got,
                   ended>>

SendMessage ==
    /\ ~closed /\ out = <<>> /\ sent < Len(Outgoing)
    /\ sent' = sent + 1 /\ out' = Bytes(sent + 1)
    /\ UNCHANGED <<window, closed, link, wire, pc, bracketCount, strBuf, got,
                   ended>>

(* What the program at the other end does: it waits for an answer to what  *)
(* it sent before it sends more, or is some messages ahead.                *)
PeerSends == sent - Len(got) < window /\ SendMessage

WriteOnce(k) ==  \* fault: what a short write left over is not written
    /\ ~closed /\ ~broken /\ k \in 1..Len(out)
    /\ wire' = wire \o SubSeq(out, 1, k)
    /\ out' = <<>>
    /\ UNCHANGED <<window, sent, closed, link, pc, bracketCount, strBuf, got,
                   ended>>

(* One write of WrappedWrite's loop: the first k bytes are accepted. *)
Write(k) ==
    /\ ~closed /\ ~broken /\ k \in 1..Len(out)
    /\ wire' = wire \o SubSeq(out, 1, k)
    /\ out' = SubSeq(out, k + 1, Len(out))
    /\ UNCHANGED <<window, sent, closed, link, pc, bracketCount, strBuf, got,
                   ended>>

(* write returns 0: the loop is left, and nobody looks at how much of the  *)
(* message was written.                                                    *)
WriteNothing ==
    /\ ~closed /\ out # <<>>
    /\ out' = <<>> /\ lost' = lost \o out
    /\ UNCHANGED <<window, sent, closed, broken, wire, pc, bracketCount, strBuf,
                   got, ended>>

(* write fails: an exception, or SIGPIPE.  Either way the peer ends.       *)
WriteFails ==
    /\ ~closed /\ broken /\ out # <<>>
    /\ closed' = TRUE /\ out' = <<>> /\ lost' = lost \o out
    /\ UNCHANGED <<window, sent, broken, wire, pc, bracketCount, strBuf, got,
                   ended>>

(* The peer ends or dies, perhaps in the middle of a message. *)
Close ==
    /\ ~closed /\ closed' = TRUE
    /\ UNCHANGED <<window, sent, out, link, wire, pc, bracketCount, strBuf, got,
                   ended>>

(* The connection is reset; of what was not read yet, the end is lost.     *)
Break ==
    /\ ~broken /\ broken' = TRUE
    /\ \E k \in 0..Len(wire) :
          /\ wire' = SubSeq(wire, 1, k)
          /\ lost' = SubSeq(wire, k + 1, Len(wire)) \o lost
    /\ UNCHANGED <<peer, pc, bracketCount, strBuf, got, ended>>

-----------------------------------------------------------------------------
Call ==
    /\ pc = "idle" /\ pc' = "reading"
    /\ bracketCount' = 0 /\ strBuf' = <<>>
    /\ UNCHANGED <<peer, link, wire, got, ended>>

(* The inner while: it takes at least one byte and stops when the braces   *)
(* are balanced.  The bytes of the read after that are not kept anywhere.  *)
Kept(count, chunk) ==
    LET balanced == {p \in 1..Len(chunk) :
                        count + Depth(SubSeq(chunk, 1, p)) <= 0}
    IN  IF balanced = {} THEN chunk ELSE SubSeq(chunk, 1, Min(balanced))

(* json_loads accepts the text: one object, nothing before it or after it. *)
Parses(s) == Token(s[1]) = "open" /\ Depth(s) = 0

(* The object has an "action": it is a message and not a part of one. *)
HasAnyAction(s) == TRUE  \* fault: a part of a message passes for one

HasAction(s) == s = Bytes(s[1][1])

Read(k) ==
    /\ pc = "reading" /\ k \in 1..Len(wire) /\ k <= MaxRead
    /\ wire' = SubSeq(wire, k + 1, Len(wire))
    /\ LET kept == Kept(bracketCount, SubSeq(wire, 1, k)) IN
           /\ strBuf' = strBuf \o kept
           /\ bracketCount' = bracketCount + Depth(kept)

ReadMoreAfresh(k) ==  \* fault: braces are counted per read, not per message
    /\ pc = "reading" /\ k \in 1..Len(wire) /\ k <= MaxRead
    /\ wire' = SubSeq(wire, k + 1, Len(wire))
    /\ strBuf' = strBuf \o Kept(0, SubSeq(wire, 1, k))
    /\ bracketCount' = 0
    /\ ~Parses(strBuf')
    /\ UNCHANGED <<peer, link, pc, got, ended>>

(* The text is not an object yet: the loop reads on. *)
ReadMore(k) ==
    /\ Read(k) /\ ~Parses(strBuf')
    /\ UNCHANGED <<peer, link, pc, got, ended>>

ReadMessage(k) ==
    /\ Read(k) /\ Parses(strBuf') /\ HasAction(strBuf')
    /\ pc' = "idle" /\ got' = Append(got, strBuf'[1][1])
    /\ UNCHANGED <<peer, link, ended>>

(* strcmp of a null pointer. *)
ReadFragment(k) ==
    /\ Read(k) /\ Parses(strBuf') /\ ~HasAction(strBuf')
    /\ pc' = "crashed"
    /\ UNCHANGED <<peer, link, got, ended>>

(* read returns 0: what there is becomes a message without a type. *)
ReadEndOfFile ==
    /\ pc = "reading" /\ wire = <<>> /\ closed /\ ~broken
    /\ pc' = "idle" /\ ended' = TRUE
    /\ UNCHANGED <<peer, link, wire, bracketCount, strBuf, got>>

(* read fails: WrappedRead throws, and so does GetNextMessage.             *)
ReadFails ==
    /\ pc = "reading" /\ wire = <<>> /\ broken
    /\ pc' = "thrown"
    /\ UNCHANGED <<peer, link, wire, bracketCount, strBuf, got, ended>>

-----------------------------------------------------------------------------
Receiver ==
    \/ Call \/ ReadEndOfFile \/ ReadFails
    \/ \E k \in 1..Len(wire) :
          ReadMore(k) \/ ReadMessage(k) \/ ReadFragment(k)

Next ==
    \/ PeerSends \/ WriteNothing \/ WriteFails \/ Close \/ Break
    \/ \E k \in 1..Len(out) : Write(k)
    \/ Receiver

(* The receiver calls GetNextMessage again and again, and read returns     *)
(* when there is something to read.  The peer need not do anything.        *)
Spec == Init /\ [][Next]_vars /\ WF_vars(Receiver)
==============================================================================
