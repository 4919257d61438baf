------------------------------ MODULE IpcLink ------------------------------
(***************************************************************************)
(* The connection that a server keeps to another one for its messages      *)
(* (CServer's persistent ipc): connecting, losing the connection and       *)
(* trying again after a delay, by threads that share only                  *)
(* SPersistentIpcState under its mutex.  Every step below is one hold of   *)
(* that mutex, or an event of asio.                                        *)
(*                                                                         *)
(* Abstractions: the resolving of the peer's name is part of the attempt   *)
(* to connect, which succeeds if the peer is up when it ends; the delay of *)
(* the timer; the messages (SessionSending models how one connection sends *)
(* them).                                                                  *)
(***************************************************************************)
EXTENDS Naturals

CONSTANTS
    MaxSessions,    \* connections that are made: the link breaks finitely often
    MaxPending      \* what may be under way when a message starts an attempt

Session == 1 .. MaxSessions
None    == 0

VARIABLES
    up,             \* whether the peer accepts connections
    connecting,     \* SPersistentIpcState::connecting
    session,        \* SPersistentIpcState::session
    made,           \* how many connections were made
    open,           \* the connections whose socket is open
    closing,        \* closed ones whose disconnect callback is still to run
    attempts,       \* attempts to connect under way
    retrying,       \* threads that are about to set the timer
    arming,         \* threads that have set it and are about to wait for it
    waits,          \* waits for the timer
    fired           \* waits that are over and whose handler is to run

timer == <<retrying, arming, waits, fired>>
vars  == <<up, connecting, session, made, open, closing, attempts, timer>>

TypeOK ==
    /\ up \in BOOLEAN /\ connecting \in BOOLEAN
    /\ session \in 0 .. MaxSessions /\ made \in 0 .. MaxSessions
    /\ open \subseteq Session /\ closing \subseteq Session
    /\ attempts \in Nat /\ retrying \in Nat /\ arming \in Nat /\ waits \in Nat /\ fired \in Nat

\* StartPersistentIpcClients.
Init ==
    /\ up \in BOOLEAN /\ connecting = TRUE /\ attempts = 1
    /\ session = None /\ made = 0 /\ open = {} /\ closing = {}
    /\ retrying = 0 /\ arming = 0 /\ waits = 0 /\ fired = 0

-----------------------------------------------------------------------------
Connected == session \in open

\* EnsurePersistentIpcConnection; waits that have ended cannot be cancelled.
Ensure ==
    IF Connected \/ connecting THEN UNCHANGED <<connecting, attempts, waits>>
    ELSE connecting' = TRUE /\ attempts' = attempts + 1 /\ waits' = 0

Pending == attempts + retrying + arming + waits + fired

\* A message is to be sent while there is no connection (SendCastIpc): it takes
\* a connection of its own.
SendUnconnected ==
    /\ ~Connected /\ Pending < MaxPending /\ Ensure
    /\ UNCHANGED <<up, session, made, open, closing, retrying, arming, fired>>

Connects ==
    /\ attempts > 0 /\ up /\ made < MaxSessions
    /\ attempts' = attempts - 1 /\ made' = made + 1
    /\ open' = open \cup {made + 1} /\ session' = made + 1
    /\ connecting' = FALSE /\ waits' = 0
    /\ UNCHANGED <<up, closing, retrying, arming, fired>>

\* Defect: an attempt that fails leaves the mark of an attempt behind.
AttemptMarked == connecting' = connecting /\ retrying' = retrying + 1

AttemptOver == connecting' = FALSE /\ retrying' = retrying + 1

Fails ==
    /\ attempts > 0 /\ ~up
    /\ attempts' = attempts - 1 /\ AttemptOver
    /\ UNCHANGED <<up, session, made, open, closing, arming, waits, fired>>

\* Any connection but the last that the bound allows may break.
Break(s) ==
    /\ s \in open /\ made < MaxSessions
    /\ open' = open \ {s} /\ closing' = closing \cup {s}
    /\ UNCHANGED <<up, connecting, session, made, attempts, timer>>

\* The disconnect callback of s, which need not be the current session, and
\* may come after the next attempt has begun.
OnDisconnect(s) ==
    /\ s \in closing /\ closing' = closing \ {s}
    /\ session' = IF session = s THEN None ELSE session
    /\ connecting' = FALSE /\ retrying' = retrying + 1
    /\ UNCHANGED <<up, made, open, attempts, arming, waits, fired>>

\* SchedulePersistentIpcReconnect: setting the timer ends the waits for it, and
\* the wait is begun without the mutex.
SetTimer ==
    /\ retrying > 0 /\ retrying' = retrying - 1
    /\ arming' = arming + 1 /\ waits' = 0
    /\ UNCHANGED <<up, connecting, session, made, open, closing, attempts, fired>>

Wait ==
    /\ arming > 0 /\ arming' = arming - 1 /\ waits' = waits + 1
    /\ UNCHANGED <<up, connecting, session, made, open, closing, attempts, retrying, fired>>

Expire ==
    /\ waits > 0 /\ waits' = 0 /\ fired' = fired + waits
    /\ UNCHANGED <<up, connecting, session, made, open, closing, attempts, retrying, arming>>

Retry ==
    /\ fired > 0 /\ fired' = fired - 1
    /\ Ensure
    /\ UNCHANGED <<up, session, made, open, closing, retrying, arming>>

PeerChanges ==
    /\ up' = ~up
    /\ UNCHANGED <<connecting, session, made, open, closing, attempts, timer>>

Next ==
    \/ SendUnconnected \/ Connects \/ Fails \/ SetTimer \/ Wait \/ Expire \/ Retry \/ PeerChanges
    \/ \E s \in Session : Break(s) \/ OnDisconnect(s)

\* asio runs what is ready, and every attempt ends.
Fairness ==
    /\ WF_vars(Connects \/ Fails) /\ WF_vars(SetTimer) /\ WF_vars(Wait) /\ WF_vars(Expire)
    /\ WF_vars(Retry) /\ \A s \in Session : WF_vars(OnDisconnect(s))

Spec == Init /\ [][Next]_vars /\ Fairness
-----------------------------------------------------------------------------
\* Once the peer stays up, the server is connected to it for good.
Reconnects == <>[]up => <>[]Connected
=============================================================================
