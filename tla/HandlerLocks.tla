---------------------------- MODULE HandlerLocks ----------------------------
(***************************************************************************)
(* The locks that the handlers of the Main server take for one room and    *)
(* one plaza: each account, the room and the plaza has a shared_mutex of   *)
(* its own in a CCache, whose map has another one.  A handler is the list  *)
(* of what it locks and releases until it returns.                         *)
(*                                                                         *)
(* Abstractions: what the handlers compute; handlers that end early, which *)
(* are shorter lists; CAidSid and other maps no element of which is locked.*)
(* A shared_mutex grants what its holders allow, without regard to who     *)
(* waits (the build's default prefers readers).                            *)
(***************************************************************************)
EXTENDS Naturals, Sequences, SequencesExt, FiniteSets

CONSTANTS
    Player,     \* the players in the room, or on their way in
    Host,       \* the one of them who hosts the room
    Worker,     \* threads for the tasks of the database and the reports of Cast
    Kinds,      \* the handlers that may run
    MaxBegun    \* handlers that are begun

\* A player's packets are handled one after the other, on its strand.
Thread == Player \cup Worker

VARIABLES
    script,     \* Thread -> what its handler still locks and releases
    holds,      \* Thread -> the locks it holds, with their modes
    begun       \* how many handlers were begun

vars == <<script, holds, begun>>

-----------------------------------------------------------------------------
\* Locks: one per account, of the room and the plaza, of the maps that hold them,
\* and of the set of the ids of the rooms.

Account(p) == [of |-> "account", player |-> p]
Room     == [of |-> "room"]
Plaza    == [of |-> "plaza"]
Accounts == [of |-> "map of accounts"]
Rooms    == [of |-> "map of rooms"]
Plazas   == [of |-> "map of plazas"]
RoomIds  == [of |-> "room ids"]

Lock(l, mode) == [op |-> "lock", lock |-> l, mode |-> mode]
Unlock(l)     == [op |-> "unlock", lock |-> l, mode |-> "none"]

MapOf(l) == CASE l = Room -> Rooms [] l = Plaza -> Plazas [] OTHER -> Accounts

\* CCache::get waits for the element while it holds the map.
Get(l, mode) == <<Lock(MapOf(l), "shared"), Lock(l, mode), Unlock(MapOf(l))>>

Visit(l, mode) == Get(l, mode) \o <<Unlock(l)>>
Changed(map)   == <<Lock(map, "unique"), Unlock(map)>>
Looked(map)    == <<Lock(map, "shared"), Unlock(map)>>

\* The same for every player of the room, in the order of the teams' lists.
ForEach(script1(_)) == FlattenSeq([i \in 1 .. Cardinality(Player) |-> script1(SetToSeq(Player)[i])])
VisitAll == ForEach(LAMBDA p : Visit(Account(p), "unique"))

-----------------------------------------------------------------------------
\* The handlers, run for p, with q as the other player they are about.

\* MatchStart, MatchRoundsEnd and others: the room from under the account.
MatchStart(p) ==
    Get(Account(p), "unique") \o Looked(Rooms) \o Get(Room, "unique")
    \o <<Unlock(Account(p)), Unlock(Room)>>

\* MatchStart of a player who has loaded the match: the account once more.
MatchLoaded(p) ==
    Get(Account(p), "unique") \o Looked(Rooms) \o Get(Room, "unique")
    \o <<Unlock(Account(p)), Lock(Account(p), "unique"), Unlock(Account(p)), Unlock(Room)>>

\* Defect: the room is kept over the visits to the players.
RoundsStartInRoom(p) ==
    Get(Account(p), "unique") \o Looked(Rooms) \o Get(Room, "unique") \o <<Unlock(Account(p))>>
    \o VisitAll \o <<Unlock(Room)>>

RoundsStart(p) ==
    Get(Account(p), "unique") \o Looked(Rooms) \o Get(Room, "unique") \o <<Unlock(Account(p))>>
    \o <<Unlock(Room)>> \o VisitAll

MatchEnd(p) ==
    Get(Account(p), "unique") \o Looked(Rooms) \o Get(Room, "unique") \o <<Unlock(Account(p))>>
    \o VisitAll \o VisitAll \o <<Unlock(Room)>>

Join(p) ==
    Get(Account(p), "unique") \o Looked(Rooms) \o Get(Room, "unique")
    \o Visit(Account(Host), "shared") \o <<Unlock(Account(p)), Unlock(Room)>>

\* RoomLeave of the last player: the room is erased from its map by the thread
\* that holds it.
LeaveLast(p) ==
    Get(Account(p), "unique") \o Looked(Rooms) \o Get(Room, "unique") \o <<Unlock(Account(p))>>
    \o Visit(Account(p), "unique") \o Changed(Rooms) \o Changed(RoomIds) \o <<Unlock(Room)>>

VotekickAgree(p, target) ==
    Get(Account(p), "shared") \o Looked(Rooms) \o Get(Room, "unique")
    \o Visit(Account(target), "shared") \o <<Unlock(Room), Unlock(Account(p))>>

\* The task of VotekickStart.
VotekickBegin(p, target) ==
    Get(Account(p), "unique") \o Get(Account(target), "shared") \o Get(Room, "unique")
    \o <<Unlock(Room), Unlock(Account(target)), Unlock(Account(p))>>

\* A hit that Cast reports.
CombatStats(p, victim) ==
    Looked(Rooms) \o Get(Room, "unique") \o Get(Account(p), "shared")
    \o Get(Account(victim), "shared") \o <<Unlock(Account(p)), Unlock(Account(victim))>>
    \o Visit(Account(victim), "unique") \o Visit(Account(p), "shared") \o <<Unlock(Room)>>

\* /breakall: the ids of the rooms stay locked while the rooms are taken from them.
BreakAll(p) ==
    <<Lock(RoomIds, "shared")>> \o Get(Room, "shared") \o VisitAll \o <<Unlock(Room)>>
    \o Changed(Rooms) \o Changed(RoomIds) \o <<Unlock(RoomIds)>>

\* A command that looks a player up by its nickname, from under the account of
\* the staff, for which it reads the accounts without their own locks.
Command(p) ==
    Get(Account(p), "unique") \o Looked(Accounts) \o <<Unlock(Account(p))>>

\* PlazaJoin with the id of a plaza: the players there are read with the plaza
\* locked, and the player's own account first.
PlazaJoin(p) ==
    Get(Account(p), "unique") \o Looked(Plazas) \o Visit(Plaza, "unique") \o Visit(Plaza, "shared")
    \o Get(Plaza, "unique") \o <<Unlock(Account(p))>> \o Visit(Account(p), "shared")
    \o ForEach(LAMBDA q : IF q = p THEN <<>> ELSE Visit(Account(q), "shared")) \o <<Unlock(Plaza)>>

PlazaLeave(p) ==
    Get(Account(p), "unique") \o Looked(Plazas) \o Get(Plaza, "unique")
    \o <<Unlock(Plaza), Unlock(Account(p))>>

\* A login or the end of a disconnect: an account is put into or taken out of the map.
AccountChanged(p) == Changed(Accounts)

Script(kind, p, q) ==
    CASE kind = "MatchStart"     -> MatchStart(p)
      [] kind = "MatchLoaded"    -> MatchLoaded(p)
      [] kind = "RoundsStart"    -> RoundsStart(p)
      [] kind = "MatchEnd"       -> MatchEnd(p)
      [] kind = "Join"           -> Join(p)
      [] kind = "LeaveLast"      -> LeaveLast(p)
      [] kind = "VotekickAgree"  -> VotekickAgree(p, q)
      [] kind = "VotekickBegin"  -> VotekickBegin(p, q)
      [] kind = "CombatStats"    -> CombatStats(p, q)
      [] kind = "BreakAll"       -> BreakAll(p)
      [] kind = "Command"        -> Command(p)
      [] kind = "PlazaJoin"      -> PlazaJoin(p)
      [] kind = "PlazaLeave"     -> PlazaLeave(p)
      [] kind = "AccountChanged" -> AccountChanged(p)

-----------------------------------------------------------------------------
Init ==
    /\ script = [t \in Thread |-> <<>>]
    /\ holds = [t \in Thread |-> {}]
    /\ begun = 0

\* What does not run on a strand.
Background == {"VotekickBegin", "CombatStats", "AccountChanged"}

Begin(t, kind, p, q) ==
    /\ script[t] = <<>> /\ begun < MaxBegun /\ p # q
    /\ IF kind \in Background THEN t \in Worker ELSE t = p
    /\ (kind = "Join" => p # Host) /\ (kind = "LeaveLast" => p = Host)
    /\ script' = [script EXCEPT ![t] = Script(kind, p, q)]
    /\ begun' = begun + 1
    /\ UNCHANGED holds

\* The lock that t waits for or takes next, and who keeps it from having it: the
\* mutexes are not recursive, so t may do so itself.
Wants(t) == Head(script[t])

Blockers(t) ==
    IF script[t] = <<>> \/ Wants(t).op # "lock" THEN {}
    ELSE {u \in Thread : \E h \in holds[u] :
             h.lock = Wants(t).lock /\ "unique" \in {h.mode, Wants(t).mode}}

Acquire(t) ==
    /\ script[t] # <<>> /\ Wants(t).op = "lock" /\ Blockers(t) = {}
    /\ holds' = [holds EXCEPT ![t] = @ \cup {[lock |-> Wants(t).lock, mode |-> Wants(t).mode]}]
    /\ script' = [script EXCEPT ![t] = Tail(@)]
    /\ UNCHANGED begun

Release(t) ==
    /\ script[t] # <<>> /\ Wants(t).op = "unlock"
    /\ holds' = [holds EXCEPT ![t] = {h \in @ : h.lock # Wants(t).lock}]
    /\ script' = [script EXCEPT ![t] = Tail(@)]
    /\ UNCHANGED begun

Run(t) == Acquire(t) \/ Release(t)

Next ==
    \E t \in Thread :
        \/ Run(t)
        \/ \E kind \in Kinds, p, q \in Player : Begin(t, kind, p, q)

Spec == Init /\ [][Next]_vars /\ \A t \in Thread : WF_vars(Run(t))
-----------------------------------------------------------------------------
\* No handlers wait for each other, or for themselves, in a circle: "every
\* other path locks accounts first, so holding the room here while locking
\* accounts would invert the order".
NobodyStuck ==
    \A T \in (SUBSET Thread) \ {{}} : \E t \in T : Blockers(t) \cap T = {}

\* A handler that was begun returns.
EveryoneReturns == \A t \in Thread : script[t] # <<>> ~> script[t] = <<>>
=============================================================================
