---------------------------- MODULE MCComponents ----------------------------
(***************************************************************************)
(* Components that share no state, on small instances, in one run: "part"  *)
(* says which of them runs, the others stay in their initial states.  The  *)
(* movement batcher is extended, the others are instances.                 *)
(***************************************************************************)
EXTENDS MovementBatcher, Sequences, FiniteSets, TLC

VARIABLE part

-----------------------------------------------------------------------------
CONSTANTS Player, Host, Worker, Kinds, MaxBegun
VARIABLES script, holds, begun
locks == <<script, holds, begun>>
Locks == INSTANCE HandlerLocks

ASSUME PlayersAssumption == IsFiniteSet(Player)

CONSTANT Message
VARIABLES posted, queue, writes, socket, accepted, wire, told
sending == <<posted, queue, writes, socket, accepted, wire, told>>
Sending == INSTANCE SessionSending

CONSTANTS MaxSessions, MaxPending
VARIABLES up, connecting, session, made, open, closing, attempts, retrying, arming, waits, fired
link ==
    <<up, connecting, session, made, open, closing, attempts, retrying, arming, waits, fired>>
Link == INSTANCE IpcLink

ASSUME LinkAssumption == MaxSessions \in Nat

batcher == vars

CONSTANTS MaxChallenges, MaxRetries, MaxTimers
VARIABLES life, answering, pending, unanswered, retries, awaiting, current, others, calls
heartbeat ==
    <<life, answering, pending, unanswered, retries, awaiting, current, others, calls>>
Heartbeats == INSTANCE Heartbeat WITH MaxPending <- MaxChallenges

ASSUME HeartbeatAssumption == MaxChallenges \in Nat \ {0} /\ MaxRetries \in Nat \ {0}

-----------------------------------------------------------------------------
MCInit ==
    /\ part \in {"locks", "sending", "link", "batcher", "heartbeat"}
    /\ Locks!Init /\ Sending!Init /\ Link!Init /\ Init /\ Heartbeats!Init
    /\ part # "link" => up

LocksNext ==
    /\ part = "locks" /\ Locks!Next
    /\ UNCHANGED <<part, sending, link, batcher, heartbeat>>

SendingNext ==
    /\ part = "sending" /\ Sending!Next
    /\ UNCHANGED <<part, locks, link, batcher, heartbeat>>

LinkNext ==
    /\ part = "link" /\ Link!Next
    /\ UNCHANGED <<part, locks, sending, batcher, heartbeat>>

BatcherNext ==
    /\ part = "batcher" /\ Next
    /\ UNCHANGED <<part, locks, sending, link, heartbeat>>

HeartbeatNext ==
    /\ part = "heartbeat" /\ Heartbeats!Next
    /\ UNCHANGED <<part, locks, sending, link, batcher>>

MCNext == LocksNext \/ SendingNext \/ LinkNext \/ BatcherNext \/ HeartbeatNext

\* A component that does not run has nothing enabled to be fair to.
MCSpec ==
    /\ MCInit /\ [][MCNext]_<<part, locks, sending, link, batcher, heartbeat>>
    /\ \A t \in Player \cup Worker : WF_locks(LocksNext /\ Locks!Run(t))
    /\ WF_sending(SendingNext /\ Sending!Queue)
    /\ WF_sending(SendingNext /\ (Sending!Written \/ Sending!WriteFails))
    /\ WF_link(LinkNext /\ (Link!Connects \/ Link!Fails))
    /\ WF_link(LinkNext /\ Link!SetTimer) /\ WF_link(LinkNext /\ Link!Wait)
    /\ WF_link(LinkNext /\ Link!Expire) /\ WF_link(LinkNext /\ Link!Retry)
    /\ \A s \in 1 .. MaxSessions : WF_link(LinkNext /\ Link!OnDisconnect(s))
    /\ WF_batcher(BatcherNext /\ Flush)
    /\ \A p \in Heartbeats!Purpose : WF_heartbeat(HeartbeatNext /\ Heartbeats!Schedule(p))
    /\ WF_heartbeat(HeartbeatNext /\ Heartbeats!SendAgain)
    /\ WF_heartbeat(HeartbeatNext /\ Heartbeats!NextChallenge)
    /\ WF_heartbeat(HeartbeatNext /\ Heartbeats!Timeout)
    /\ WF_heartbeat(HeartbeatNext /\ Heartbeats!Answer)

-----------------------------------------------------------------------------
EveryoneReturns  == part = "locks" => Locks!EveryoneReturns
SentInOrder      == Sending!SentInOrder
EverythingSent   == Sending!EverythingSent
Reconnects       == part = "link" => Link!Reconnects
KeepsChallenging == part = "heartbeat" => Heartbeats!KeepsChallenging
SilentIsDropped  == Heartbeats!SilentIsDropped
=============================================================================
