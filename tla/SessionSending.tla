--------------------------- MODULE SessionSending ---------------------------
(***************************************************************************)
(* What CSession sends: any thread hands messages to the session's strand  *)
(* (Send, SendIpc), which keeps them in a queue and has one asynchronous   *)
(* write at a time take them to the socket, while the peer, a failing      *)
(* write or the server itself may close it (Disconnect).                   *)
(*                                                                         *)
(* Abstractions: a message has no contents; a write that the closing of    *)
(* the socket overtook may still have succeeded.                           *)
(***************************************************************************)
EXTENDS Naturals, Sequences, SequencesExt

CONSTANTS
    Message     \* what is sent, each once

VARIABLES
    posted,     \* messages handed to the strand that it has not come to
    queue,      \* m_SendQueue
    writes,     \* the asynchronous writes under way
    socket,     \* "open" or "closed"
    accepted,   \* history: messages put into the queue, in that order
    wire,       \* history: what the peer was sent, in the order of the writes
    told        \* how often m_on_disconnect_callback was called

vars == <<posted, queue, writes, socket, accepted, wire, told>>

TypeOK ==
    /\ posted \in Seq(Message) /\ queue \in Seq(Message) /\ writes \in Seq(Message)
    /\ socket \in {"open", "closed"}
    /\ accepted \in Seq(Message) /\ wire \in Seq(Message)
    /\ told \in Nat

Init ==
    /\ posted = <<>> /\ queue = <<>> /\ writes = <<>> /\ socket = "open"
    /\ accepted = <<>> /\ wire = <<>> /\ told = 0

-----------------------------------------------------------------------------
\* Send, from any thread.
Send(m) ==
    /\ m \notin ToSet(posted) \cup ToSet(accepted) \cup ToSet(wire)
    /\ posted' = Append(posted, m)
    /\ UNCHANGED <<queue, writes, socket, accepted, wire, told>>

\* Defect: it is the socket and not the queue that is asked whether a write is
\* to be started.
IdleWhileOpen(q) == TRUE

Idle(q) == q = <<>>

\* The strand comes to a message.
Queue ==
    /\ posted # <<>> /\ posted' = Tail(posted)
    /\ IF socket = "open"
       THEN /\ accepted' = Append(accepted, Head(posted))
            /\ queue' = Append(queue, Head(posted))
            /\ writes' = IF Idle(queue) THEN Append(writes, Head(queue')) ELSE writes
       ELSE UNCHANGED <<accepted, queue, writes>>
    /\ UNCHANGED <<socket, wire, told>>

\* Defect: the next message waits until something else is sent.
ChainNone(q) == <<>>

\* DoSend with what is left in the queue.
Chain(q) == IF q = <<>> THEN <<>> ELSE <<Head(q)>>

Popped == IF queue = <<>> THEN <<>> ELSE Tail(queue)

\* A write completes; DoSend gives the rest up when the socket was closed meanwhile.
Written ==
    /\ writes # <<>>
    /\ wire' = Append(wire, Head(writes))
    /\ IF socket = "open"
       THEN queue' = Popped /\ writes' = Tail(writes) \o Chain(Popped)
       ELSE queue' = <<>> /\ writes' = Tail(writes)
    /\ UNCHANGED <<posted, socket, accepted, told>>

\* Disconnect, on the strand, at whatever's request; the first time it tells
\* the server.
Closed ==
    /\ socket' = "closed"
    /\ told' = IF socket = "open" THEN told + 1 ELSE told

WriteFails ==
    /\ writes # <<>>
    /\ queue' = <<>> /\ writes' = Tail(writes)
    /\ Closed
    /\ UNCHANGED <<posted, accepted, wire>>

Disconnect ==
    /\ socket = "open" /\ Closed
    /\ UNCHANGED <<posted, queue, writes, accepted, wire>>

Next ==
    \/ \E m \in Message : Send(m)
    \/ Queue \/ Written \/ WriteFails \/ Disconnect

\* The strand gets to what it was handed, and a write succeeds or fails.
Fairness == WF_vars(Queue) /\ WF_vars(Written \/ WriteFails)

Spec == Init /\ [][Next]_vars /\ Fairness
-----------------------------------------------------------------------------
\* "Only one write is ever in flight", and it is of the queue's first message.
OneWrite == Len(writes) <= 1 /\ (writes # <<>> => queue # <<>> /\ Head(queue) = Head(writes))

\* As long as the socket is open, what was accepted is what the peer was sent
\* and what the queue still holds; whatever happens, the peer gets a beginning
\* of it, without a gap, a repetition or an exchange, by one write at a time.
SentInOrder ==
    /\ OneWrite
    /\ socket = "open" => accepted = wire \o queue
    /\ IsPrefix(wire, accepted)

\* Every message that was accepted is sent, unless the session ends, and the
\* session's end is told exactly once.
EverythingSent ==
    \A m \in Message : (m \in ToSet(accepted) /\ told = 0) ~> (m \in ToSet(wire) \/ told = 1)
=============================================================================
