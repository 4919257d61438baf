------------------------------- MODULE Plazas -------------------------------
(***************************************************************************)
(* The plazas of the Main server: CPlaza, and the plaza that each account  *)
(* says it is in, under the handlers of Plaza/, the ways out of a plaza    *)
(* into a room or a party, and the end of a session.                       *)
(*                                                                         *)
(* A handler of a session holds the lock of its account until the player   *)
(* is in a plaza, so the account changes in one step.  The plaza is locked *)
(* anew for every question asked of it: PlazaJoin decides where to go, and *)
(* in Enter others may have filled the place.  Plazas are never erased.    *)
(*                                                                         *)
(* Abstractions: what players are told of each other.  Where no plaza has  *)
(* room the code goes on with an id that none has (Nowhere) and fails at   *)
(* the release of a lock, after the account was changed.                   *)
(***************************************************************************)
EXTENDS Naturals, Sequences, SequencesExt, Lists

CONSTANTS
    Sid,        \* session ids of players
    MaxPlaza,   \* plazas have the ids 0 .. MaxPlaza (65535 in the code)
    MaxPlayers, \* max_players of a plaza
    Nowhere,    \* the id for "all are full"
    Idle        \* no plaza: no PlazaJoin is under way

Plaza == 0 .. MaxPlaza

VARIABLES
    counter,    \* m_plazaIdGenerator
    alive,      \* the keys of CPlaza
    players,    \* Plaza -> session_ids
    online,     \* the sessions with an account in CAccount
    plazaId,    \* plaza_id of their accounts
    inPlaza,    \* in_plaza of their accounts
    making,     \* the plaza a session's PlazaJoin has not found and makes
    bound,      \* the plaza it has decided on
    closing,    \* sessions that are being disconnected
    left        \* those whose purge has taken them out of their plaza

account == <<online, plazaId, inPlaza>>
vars    == <<counter, alive, players, account, making, bound, closing, left>>

TypeOK ==
    /\ counter \in Plaza /\ alive \subseteq Plaza
    /\ players \in [Plaza -> Seq(Sid)]
    /\ online \subseteq Sid /\ inPlaza \subseteq online
    /\ plazaId \in [Sid -> Plaza \cup {Nowhere}]
    /\ making \in [Sid -> Plaza \cup {Idle}]
    /\ bound \in [Sid -> Plaza \cup {Nowhere, Idle}]
    /\ closing \subseteq Sid /\ left \subseteq closing

Init ==
    /\ counter = 0 /\ alive = {} /\ players = [q \in Plaza |-> <<>>]
    /\ online = {} /\ plazaId = [s \in Sid |-> 0] /\ inPlaza = {}
    /\ making = [s \in Sid |-> Idle] /\ bound = making /\ closing = {} /\ left = {}

Listed(q) == ToSet(players[q])
Full(q) == Len(players[q]) >= MaxPlayers

\* Handlers of a session follow one another, and the account waits for them.
Idling(s) == making[s] = Idle /\ bound[s] = Idle
Ready(s)  == s \in online \ left /\ Idling(s)

-----------------------------------------------------------------------------
\* A session is given an account, which starts outside of any plaza.
Login(s) ==
    /\ s \notin online /\ s \notin closing
    /\ online' = online \cup {s} /\ plazaId' = [plazaId EXCEPT ![s] = 0]
    /\ UNCHANGED <<counter, alive, players, inPlaza, making, bound, closing, left>>

\* The first plaza with room, whichever it is: their order is that of a hash map.
FirstNonFull == LET free == {q \in alive : ~Full(q)} IN IF free = {} THEN {Nowhere} ELSE free

\* Where a player goes who asks for a plaza that is there.
Place(q) == IF Full(q) THEN FirstNonFull ELSE {q}

\* The id is not free any more once the generator is exhausted, and 0 is used.
NextPlaza == IF counter < MaxPlaza THEN counter ELSE 0

\* PlazaJoin with an id that no plaza has yet ...
AskNew(s, q) ==
    /\ Ready(s) /\ q \notin alive
    /\ making' = [making EXCEPT ![s] = q]
    /\ UNCHANGED <<counter, alive, players, account, bound, closing, left>>

\* Defect: a plaza that another has made since is made anew.
MadeAnew(q) == [players EXCEPT ![q] = <<>>]

\* A plaza that is there already is left as it is.
Made(q) == players

\* ... which it makes now: under the next id of the generator, if 0 was asked for.
Make(s) ==
    LET q == IF making[s] = 0 THEN NextPlaza ELSE making[s]
    IN  /\ making[s] # Idle
        /\ counter' = IF making[s] = 0 /\ counter < MaxPlaza THEN counter + 1 ELSE counter
        /\ alive' = alive \cup {q} /\ players' = Made(q)
        /\ making' = [making EXCEPT ![s] = Idle] /\ bound' = [bound EXCEPT ![s] = q]
        /\ UNCHANGED <<account, closing, left>>

\* PlazaJoin with the id of a plaza; whoever is in its list is disconnected
\* (for 0 nobody looks).
JoinOld(s, q) ==
    /\ Ready(s) /\ q \in alive
    /\ IF q # 0 /\ s \in Listed(q)
       THEN closing' = closing \cup {s} /\ UNCHANGED bound
       ELSE /\ \E t \in Place(q) : bound' = [bound EXCEPT ![s] = t]
            /\ UNCHANGED closing
    /\ UNCHANGED <<counter, alive, players, account, making, left>>

\* TryRemovePlazaPlayer, which returns if the player is there.
Removed(list, s) == IF s \in ToSet(list) THEN list ELSE Without(list, s)

\* TryJoinPlaza.
Enter(s) ==
    LET t   == bound[s]
        old == plazaId[s]
        kept == IF t # old /\ old \in alive THEN [players EXCEPT ![old] = Removed(@, s)] ELSE players
    IN  /\ s \in online /\ t # Idle
        /\ players' = IF t = Nowhere THEN kept ELSE [kept EXCEPT ![t] = Append(@, s)]
        /\ plazaId' = [plazaId EXCEPT ![s] = t] /\ inPlaza' = inPlaza \cup {s}
        /\ bound' = [bound EXCEPT ![s] = Idle]
        /\ UNCHANGED <<counter, alive, online, making, closing, left>>

\* The player is taken out of the plaza the account names, if it is there.
OutOf(s) ==
    /\ plazaId[s] \in alive /\ s \in Listed(plazaId[s])
    /\ players' = [players EXCEPT ![plazaId[s]] = Without(@, s)]
    /\ plazaId' = [plazaId EXCEPT ![s] = 0] /\ inPlaza' = inPlaza \ {s}
    /\ UNCHANGED <<counter, alive, online, making, bound, closing, left>>

\* PlazaLeave.
Leave(s) == Ready(s) /\ OutOf(s)

\* Creating or joining a room or a party.
LeaveForRoom(s) == Ready(s) /\ s \in inPlaza /\ OutOf(s)

-----------------------------------------------------------------------------
\* The session is closed by either side; packets that are in may yet be handled.
Close(s) ==
    /\ s \in online \ closing /\ closing' = closing \cup {s}
    /\ UNCHANGED <<counter, alive, players, account, making, bound, left>>

\* The task of ServerDisconnect, up to the release of the account.
Purge(s) ==
    /\ s \in closing \ left /\ Idling(s)
    /\ players' = IF plazaId[s] \in alive THEN [players EXCEPT ![plazaId[s]] = Without(@, s)] ELSE players
    /\ left' = left \cup {s}
    /\ UNCHANGED <<counter, alive, account, making, bound, closing>>

\* The rest of it.
EraseAccount(s) ==
    /\ s \in left
    /\ online' = online \ {s} /\ inPlaza' = inPlaza \ {s}
    /\ closing' = closing \ {s} /\ left' = left \ {s}
    /\ UNCHANGED <<counter, alive, players, plazaId, making, bound>>

Next ==
    \E s \in Sid :
        \/ Login(s) \/ Make(s) \/ Enter(s) \/ Leave(s) \/ LeaveForRoom(s)
        \/ \E q \in Plaza : AskNew(s, q) \/ JoinOld(s, q)
        \/ Close(s) \/ Purge(s) \/ EraseAccount(s)

Spec == Init /\ [][Next]_vars

-----------------------------------------------------------------------------
\* Whoever is in a plaza by its account is in that plaza's list, and so is told
\* of and shown to the others there: although plazas are made by several at once
\* and the list is changed without the account (Plaza/Join.h, Core/Disconnect.h).
InPlazaIsListed ==
    \A s \in inPlaza \ left : plazaId[s] # Nowhere => s \in Listed(plazaId[s])
=============================================================================
