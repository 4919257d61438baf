-------------------------- MODULE MovementBatcher --------------------------
(***************************************************************************)
(* How Cast collects the movements of the players in one room and sends    *)
(* them at a fixed rate: packets of the players come in on any thread      *)
(* (Submit), the timer's flush takes what there is under the mutex and     *)
(* sends it without the mutex, in as many packets as it takes.             *)
(*                                                                         *)
(* Abstractions: a sample is its tick, its length and its number among the *)
(* player's own; the rooms share only the flush, which takes them one      *)
(* after the other.  The cap of 255 entries is never met, 2035 bytes being *)
(* fewer.  DropRoom and a second Start have no callers.                    *)
(***************************************************************************)
EXTENDS Naturals, FiniteSets, Functions

CONSTANTS
    Sid,        \* session ids of the players
    MaxTick,    \* the greatest tick that clients send
    EntryLen,   \* lengths of an entry
    MaxEntriesLen,
    MaxSamples  \* samples of one player

ASSUME ConstantsAssumption ==
    /\ MaxTick \in Nat /\ MaxEntriesLen \in Nat /\ MaxSamples \in Nat
    /\ EntryLen \subseteq 1 .. MaxEntriesLen

VARIABLES
    entries,    \* Sid -> the sample to be sent (m_rooms[room].entries)
    lastTick,   \* m_rooms[room].lastTick
    flushing,   \* whether a flush has entries of the room to send
    batch,      \* Sid -> the sample that it has not sent yet
    lastEmitted,\* the greatest tick that it has sent
    submitted,  \* history: Sid -> how many samples were submitted
    shown,      \* history: Sid -> the number of the sample sent last
    front       \* history: the tick of the packet sent last

vars == <<entries, lastTick, flushing, batch, lastEmitted, submitted, shown, front>>

Tick    == 0 .. MaxTick
NoEntry == [tick |-> 0, len |-> 0, number |-> 0]
Sample  == [tick : Tick, len : EntryLen, number : 1 .. MaxSamples] \cup {NoEntry}
Nothing == [s \in Sid |-> NoEntry]

TypeOK ==
    /\ entries \in [Sid -> Sample] /\ batch \in [Sid -> Sample]
    /\ lastTick \in Tick /\ lastEmitted \in Tick /\ front \in Tick
    /\ flushing \in BOOLEAN
    /\ submitted \in [Sid -> 0 .. MaxSamples] /\ shown \in [Sid -> 0 .. MaxSamples]

Init ==
    /\ entries = Nothing /\ batch = Nothing /\ flushing = FALSE
    /\ lastTick = 0 /\ lastEmitted = 0 /\ front = 0
    /\ submitted = [s \in Sid |-> 0] /\ shown = [s \in Sid |-> 0]

-----------------------------------------------------------------------------
\* Defect: a sample that is still to be sent is kept.
FirstWins(old, new) == IF old = NoEntry THEN new ELSE old

LatestWins(old, new) == new

\* Submit; the tick is what the client says.
Submit(s, tick, len) ==
    /\ submitted[s] < MaxSamples
    /\ submitted' = [submitted EXCEPT ![s] = @ + 1]
    /\ entries' = [entries EXCEPT ![s] =
           LatestWins(@, [tick |-> tick, len |-> len, number |-> submitted[s] + 1])]
    /\ UNCHANGED <<lastTick, flushing, batch, lastEmitted, shown, front>>

\* A flush takes the entries; the timer is set again only when it is over.
Drain ==
    /\ ~flushing /\ entries # Nothing
    /\ flushing' = TRUE /\ batch' = entries /\ entries' = Nothing /\ lastEmitted' = lastTick
    /\ UNCHANGED <<lastTick, submitted, shown, front>>

Unsent  == {s \in Sid : batch[s] # NoEntry}
Size(S) == FoldFunctionOnSet(+, 0, [s \in Sid |-> batch[s].len], S)

\* A packet takes entries as they come until the next one does not fit.
Packet(S) ==
    /\ S # {} /\ S \subseteq Unsent /\ Size(S) <= MaxEntriesLen
    /\ S = Unsent \/ \E s \in Unsent \ S : Size(S) + batch[s].len > MaxEntriesLen

\* Defect: the packet's own greatest tick, whatever was sent before.
OwnFront(S, tick) ==
    /\ \A s \in S : batch[s].tick <= tick
    /\ \E s \in S : batch[s].tick = tick

\* The greatest tick of its entries and of the packets before.
Front(S, tick) ==
    /\ lastEmitted <= tick /\ \A s \in S : batch[s].tick <= tick
    /\ tick = lastEmitted \/ \E s \in S : batch[s].tick = tick

\* emit in emitRoom.
Emit(S, tick) ==
    /\ flushing /\ Packet(S) /\ Front(S, tick)
    /\ front' = tick /\ lastEmitted' = tick
    /\ shown' = [s \in Sid |-> IF s \in S THEN batch[s].number ELSE shown[s]]
    /\ batch' = [s \in Sid |-> IF s \in S THEN NoEntry ELSE batch[s]]
    /\ UNCHANGED <<entries, lastTick, flushing, submitted>>

\* The rest of flush: the room is locked again for its tick.
Store ==
    /\ flushing /\ Unsent = {} /\ flushing' = FALSE
    /\ lastTick' = IF lastEmitted > lastTick THEN lastEmitted ELSE lastTick
    /\ UNCHANGED <<entries, batch, lastEmitted, submitted, shown, front>>

Flush == Drain \/ Store \/ \E S \in SUBSET Sid, tick \in Tick : Emit(S, tick)

Next ==
    \/ Flush
    \/ \E s \in Sid, tick \in Tick, len \in EntryLen : Submit(s, tick, len)

\* The timer's period passes and its handler goes on.
Spec == Init /\ [][Next]_vars /\ WF_vars(Flush)
-----------------------------------------------------------------------------
\* "The front tick MUST be ... monotonic across flushes", whatever ticks the
\* players send, in which packets they are and what comes in meanwhile; and no
\* player is seen to step back to an older sample.
NeverBackwards ==
    [][front' >= front /\ \A s \in Sid : shown'[s] >= shown[s]]_vars

\* "Latest sample per (room, sid) wins": what a player has sent is seen by the
\* others, or something newer.
LatestShown ==
    \A s \in Sid, n \in 1 .. MaxSamples : submitted[s] = n ~> shown[s] >= n
=============================================================================
