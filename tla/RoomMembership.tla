--------------------------- MODULE RoomMembership ---------------------------
(***************************************************************************)
(* Who is in which game room on the Main server: the account cache         *)
(* (CAccount: in_room, room_id, team_id, playing) and the room cache       *)
(* (CRoom: the four team lists, the host, is_playing, kicked and the       *)
(* settings that decide placement), under every handler that moves a       *)
(* player in or out of a room.                                             *)
(*                                                                         *)
(* A handler holds the room's element lock from its first look at the room *)
(* to its last write, so each critical section is one step; what the locks *)
(* themselves do is in HandlerLocks.  The two handlers that take more than *)
(* one section have one action per section: joining while in               *)
(* another room (SwitchRoom, then Join or JoinRefused), and disconnecting  *)
(* (Disconnect on the session's strand, Purge on the database pool).       *)
(*                                                                         *)
(* A session sends nothing more in the read whose packet made the server   *)
(* close it: its handlers do not run between Disconnect and Purge.         *)
(*                                                                         *)
(* Abstractions: a player stands for its session id and its account;       *)
(* lists are sets, whose order is left out; PlayerInfo::State, ping,       *)
(* passwords and room titles only restrict or resolve choices, and are     *)
(* left nondeterministic.  Of the parties only who is in one is kept: which *)
(* party, and whether a party stands against another, is left open.  Rooms *)
(* closed as a whole (/break, and a clan party's leader in PartyClanLeave) *)
(* are not modelled here.                                                  *)
(*                                                                         *)
(* PartyClanOtherJoin runs RoomCreate and RoomJoin for the members of two  *)
(* parties on its caller's thread: each is that member's Join.  That it    *)
(* never meets a handler of the same member half done is assumed.          *)
(***************************************************************************)
EXTENDS Integers, FiniteSets

CONSTANTS
    Player,         \* authorised sessions
    Staff,          \* players of grade Tester or above, who may be invisible
    RoomId,         \* ids the room-id generator hands out
    None,           \* no room, no host
    Limits,         \* values max_players can take
    MaxObservers    \* seats in the observer list (10 in the code)

PlayTeam == {"neutral", "red", "blue"}
Team     == PlayTeam \cup {"observer"}
Rules    == [teamBased : BOOLEAN, observers : BOOLEAN, max : Limits]
Vacant   == [t \in Team |-> {}]

ASSUME ConstantsAssumption ==
    /\ IsFiniteSet(Player) /\ Staff \subseteq Player
    /\ Limits \subseteq Nat /\ MaxObservers \in Nat
    /\ None \notin Player /\ None \notin RoomId /\ None \notin Team /\ None \notin Rules

VARIABLES
    session,    \* Player -> "offline", "online" or "closing" (disconnected, not purged)
    room,       \* Player -> the room the account is in (in_room and room_id)
    team,       \* Player -> team_id
    playing,    \* Player -> the account's playing flag
    inParty,    \* the players whose account is in a party
    joining,    \* Player -> the room a RoomJoin that already left the old room goes to
    live,       \* the keys of CRoom
    issued,     \* ids the generator has handed out and not got back
    members,    \* RoomId -> the four session lists
    host,       \* RoomId -> host_session_id
    started,    \* RoomId -> is_playing
    kicked,     \* RoomId -> accounts barred from the room
    rules       \* RoomId -> settings of a live room

accounts == <<room, team, playing>>   \* what the room handlers write
rooms    == <<live, issued, members, host, started, kicked, rules>>
vars     == <<session, joining, inParty, accounts, rooms>>

TypeOK ==
    /\ session \in [Player -> {"offline", "online", "closing"}]
    /\ room \in [Player -> RoomId \cup {None}]
    /\ team \in [Player -> Team]
    /\ playing \in [Player -> BOOLEAN]
    /\ inParty \subseteq Player
    /\ joining \in [Player -> RoomId \cup {None}]
    /\ live \subseteq issued /\ issued \subseteq RoomId
    /\ members \in [RoomId -> [Team -> SUBSET Player]]
    /\ host \in [RoomId -> Player \cup {None}]
    /\ started \in [RoomId -> BOOLEAN]
    /\ kicked \in [RoomId -> SUBSET Player]
    /\ rules \in [RoomId -> Rules \cup {None}]
    /\ \A r \in live : rules[r] # None

Init ==
    /\ session = [p \in Player |-> "offline"]
    /\ room = [p \in Player |-> None]
    /\ team = [p \in Player |-> "neutral"]
    /\ playing = [p \in Player |-> FALSE]
    /\ inParty = {}
    /\ joining = [p \in Player |-> None]
    /\ live = {} /\ issued = {}
    /\ members = [r \in RoomId |-> Vacant]
    /\ host = [r \in RoomId |-> None]
    /\ started = [r \in RoomId |-> FALSE]
    /\ kicked = [r \in RoomId |-> {}]
    /\ rules = [r \in RoomId |-> None]

-----------------------------------------------------------------------------
\* Reading a room.

\* The non-observer lists that the room's mode uses.
Fighters(r) == IF rules[r].teamBased THEN members[r]["red"] \cup members[r]["blue"]
               ELSE members[r]["neutral"]

\* Of the sessions q, those whose account says it is in room r.
Seated(S, r) == {q \in S : room[q] = r}

Everyone(r) == Seated(Fighters(r) \cup members[r]["observer"], r)

\* Defect: a second handler of p runs while its RoomJoin is between two rooms.
ReadyTwice(p) == session[p] = "online"

\* A handler of p runs: p has an authorised session and no RoomJoin half done.
Ready(p) == session[p] = "online" /\ joining[p] = None
InRoom(p) == Ready(p) /\ room[p] \in live
Hosting(p) == InRoom(p) /\ host[room[p]] = p

-----------------------------------------------------------------------------
\* Leaving a room.

\* Defects that the checks must notice: the list of the player's team is
\* searched among the playing teams only, ...
RemainingObserversStay(r, S) ==
    [t \in Team |-> {q \in members[r][t] : ~(q \in S /\ team[q] = t /\ t # "observer")}]

Remaining(r, S) == [t \in Team |-> {q \in members[r][t] : ~(q \in S /\ team[q] = t)}]

\* No list of players is left once S has gone, so the room is deleted.
Closes(r, S) == \A t \in PlayTeam : Remaining(r, S)[t] = {}

\* ... the observers of a deleted room are forgotten, ...
GoneWithoutObservers(r, S) == S

\* With the room go the observers that are still in it.
Gone(r, S) == IF Closes(r, S) THEN S \cup Seated(Remaining(r, S)["observer"], r) ELSE S

\* The id of a deleted room goes back to the generator.
Freed(r, S) == IF Closes(r, S) THEN {r} ELSE {}

\* ... the new host is any player on a team, in the match or not, even the
\* one that leaves.
HeirsLobbyFirst(r, p) ==
    LET others == Seated(Fighters(r), r) \ {p}
    IN  IF host[r] # p \/ team[p] = "observer" \/ others = {} THEN {host[r]} ELSE others
HeirsWithLeaver(r, p) ==
    IF host[r] # p \/ team[p] = "observer" THEN {host[r]} ELSE Seated(Fighters(r), r)

\* Whom PickAutoHost may choose when p goes: someone in the match if there is
\* one, by ping; with nobody to choose the host stays as it is.
Heirs(r, p) ==
    LET others   == Seated(Fighters(r), r) \ {p}
        fighting == {q \in others : playing[q]}
    IN  IF host[r] # p \/ team[p] = "observer" \/ others = {} THEN {host[r]}
        ELSE IF fighting # {} THEN fighting
        ELSE others

\* NewRemoveRoomPlayer for the players S of room r; B of them are barred.
\* started' is left to the caller.
Depart(r, S, B, heir) ==
    LET gone  == Gone(r, S)
        close == Closes(r, S)
    IN  /\ room' = [q \in Player |-> IF q \in gone THEN None ELSE room[q]]
        /\ playing' = [q \in Player |-> IF q \in gone THEN FALSE ELSE playing[q]]
        /\ members' = [members EXCEPT ![r] = IF close THEN Vacant ELSE Remaining(r, S)]
        /\ live' = IF close THEN live \ {r} ELSE live
        /\ issued' = issued \ Freed(r, S)
        /\ host' = [host EXCEPT ![r] = IF close THEN None ELSE heir]
        /\ kicked' = [kicked EXCEPT ![r] = IF close THEN {} ELSE @ \cup B]
        /\ rules' = [rules EXCEPT ![r] = IF close THEN None ELSE @]
        /\ UNCHANGED team

\* One player leaves, whatever the reason; a match in progress goes on.
Remove(p, B) ==
    LET r == room[p]
    IN  /\ \E heir \in Heirs(r, p) : Depart(r, {p}, B, heir)
        /\ started' = [started EXCEPT ![r] = @ /\ ~Closes(r, {p})]

-----------------------------------------------------------------------------
\* Sessions.

Login(p) ==
    /\ session[p] = "offline"
    /\ session' = [session EXCEPT ![p] = "online"]
    /\ team' = [team EXCEPT ![p] = "neutral"]
    /\ UNCHANGED <<room, playing, joining, inParty, rooms>>

\* The strand's part of ServerDisconnect: only the database task is queued.
Disconnect(p) ==
    /\ Ready(p)
    /\ session' = [session EXCEPT ![p] = "closing"]
    /\ UNCHANGED <<joining, inParty, accounts, rooms>>

\* The task: leave the room and the party, then drop the account.  votedOut says that p is
\* the target of the room's kick vote.
Purge(p, votedOut) ==
    /\ session[p] = "closing"
    /\ session' = [session EXCEPT ![p] = "offline"]
    /\ inParty' = inParty \ {p}
    /\ UNCHANGED joining
    /\ IF room[p] \in live
       THEN Remove(p, IF votedOut THEN {p} ELSE {})
       ELSE /\ room' = [room EXCEPT ![p] = None]
            /\ playing' = [playing EXCEPT ![p] = FALSE]
            /\ UNCHANGED <<team, rooms>>

-----------------------------------------------------------------------------
\* Parties.

\* PartyCreate, which takes its player out of the room it is in.
CreateParty(p) ==
    /\ Ready(p) /\ room[p] \in live \cup {None}
    /\ inParty' = inParty \cup {p}
    /\ IF room[p] = None THEN UNCHANGED <<accounts, rooms>> ELSE Remove(p, {})
    /\ UNCHANGED <<session, joining>>

\* PartyJoin, which does not.
JoinParty(p) ==
    /\ Ready(p)
    /\ inParty' = inParty \cup {p}
    /\ UNCHANGED <<session, joining, accounts, rooms>>

\* PartyLeave, or the kick of the party's leader.
LeaveParty(p) ==
    /\ p \in inParty
    /\ inParty' = inParty \ {p}
    /\ UNCHANGED <<session, joining, accounts, rooms>>

-----------------------------------------------------------------------------
\* Creating and joining.

\* The limit of a new room is twice the number asked for.
CreateRoom(p, r, rl) ==
    /\ Ready(p) /\ room[p] = None
    /\ r \notin issued /\ rl.max % 2 = 0
    /\ LET t == IF rl.teamBased THEN "blue" ELSE "neutral"
       IN  /\ members' = [members EXCEPT ![r] = [Vacant EXCEPT ![t] = {p}]]
           /\ team' = [team EXCEPT ![p] = t]
    /\ room' = [room EXCEPT ![p] = r]
    /\ playing' = [playing EXCEPT ![p] = FALSE]
    /\ live' = live \cup {r} /\ issued' = issued \cup {r}
    /\ host' = [host EXCEPT ![r] = p]
    /\ rules' = [rules EXCEPT ![r] = rl]
    /\ UNCHANGED <<session, joining, inParty, started, kicked>>

\* The id is taken before the mode turns out to have no options, and not
\* given back.
CreateWithoutOptions(p, r) ==
    /\ Ready(p) /\ room[p] = None
    /\ r \notin issued
    /\ issued' = issued \cup {r}
    /\ UNCHANGED <<session, joining, inParty, accounts, live, members, host, started, kicked, rules>>

\* RoomJoin while in another room: out of the old one first, under its lock.
SwitchRoom(p, r) ==
    /\ InRoom(p) /\ r # room[p]
    /\ Remove(p, {})
    /\ joining' = [joining EXCEPT ![p] = r]
    /\ UNCHANGED <<session, inParty>>

Size(r, t) == Cardinality(members[r][t])

Full(r) ==
    LET rl     == rules[r]
        inPlay == IF rl.teamBased THEN Size(r, "red") + Size(r, "blue") ELSE Size(r, "neutral")
    IN  IF rl.observers THEN inPlay + Size(r, "observer") >= rl.max + MaxObservers
        ELSE inPlay >= rl.max

\* How a joiner stands to the room's host: in no party, in the host's party or
\* in another one.
Way == {"alone", "ours", "theirs"}

\* Defects: the limits are exceeded by one; a free-for-all room seats joiners on
\* the blue team.
PlacementOverLimit(r, way) ==
    LET rl == rules[r]
    IN  IF ~rl.teamBased THEN IF Size(r, "neutral") <= rl.max THEN "neutral" ELSE None
        ELSE IF way # "alone" THEN IF way = "ours" THEN "blue" ELSE "red"
        ELSE IF Size(r, "blue") <= Size(r, "red") /\ Size(r, "blue") <= rl.max \div 2 THEN "blue"
        ELSE "red"
PlacementIgnoresMode(r, way) == IF Size(r, "blue") <= Size(r, "red") THEN "blue" ELSE "red"

\* The list a joiner is appended to; None when every list is at its limit, in
\* which case RoomJoin reports an error and carries on.  In a team room the
\* members of parties go to their party's side without a look at the limits.
Placement(r, way) ==
    LET rl    == rules[r]
        half  == rl.max \div 2
        bench == IF rl.observers /\ Size(r, "observer") < MaxObservers THEN "observer" ELSE None
    IN  IF ~rl.teamBased
        THEN IF Size(r, "neutral") < rl.max THEN "neutral" ELSE bench
        ELSE IF way = "ours" THEN "blue"
        ELSE IF way = "theirs" THEN "red"
        ELSE IF Size(r, "blue") <= Size(r, "red") /\ Size(r, "blue") < half THEN "blue"
        ELSE IF Size(r, "red") < Size(r, "blue") /\ Size(r, "red") < half THEN "red"
        ELSE bench

\* p is about to enter room r: it is in none, and r is where it was heading.
Entering(p, r) ==
    /\ session[p] = "online"
    /\ room[p] = None
    /\ joining[p] \in {None, r}

Listed(p, r) == \E t \in Team : p \in members[r][t]

\* Defect: the kicked set is not looked at.
TurnedAwayIfListed(p, r) == Full(r) \/ Listed(p, r)

TurnedAway(p, r) == Full(r) \/ Listed(p, r) \/ p \in kicked[r]

Admit(p, r, t) ==
    /\ room' = [room EXCEPT ![p] = r]
    /\ playing' = [playing EXCEPT ![p] = FALSE]
    /\ team' = IF t = None THEN team ELSE [team EXCEPT ![p] = t]
    /\ members' = IF t = None THEN members ELSE [members EXCEPT ![r][t] = @ \cup {p}]
    /\ joining' = [joining EXCEPT ![p] = None]
    /\ UNCHANGED <<session, inParty, live, issued, host, started, kicked, rules>>

\* Entering a room: an invisible tester always becomes an observer.
JoinInvisible(p, r) ==
    /\ Entering(p, r) /\ r \in live
    /\ p \in Staff
    /\ Admit(p, r, "observer")

\* Anyone else passes the checks and is placed; a member of a party gets in only
\* where the host is in one.
Join(p, r, way) ==
    /\ Entering(p, r) /\ r \in live
    /\ IF p \in inParty THEN way # "alone" /\ host[r] \in inParty ELSE way = "alone"
    /\ ~TurnedAway(p, r)
    /\ Admit(p, r, Placement(r, way))

\* The second half of a switch is refused (full, kicked, wrong password, no
\* party's room) or finds the room gone; the player is then in no room.
JoinRefused(p) ==
    /\ session[p] = "online" /\ joining[p] # None
    /\ joining' = [joining EXCEPT ![p] = None]
    /\ UNCHANGED <<session, inParty, accounts, rooms>>

-----------------------------------------------------------------------------
\* Leaving and being removed.

\* RoomLeave; also what StateUpdate does with a member of a party whose room has
\* lost one of its teams.
Leave(p) ==
    /\ InRoom(p)
    /\ Remove(p, {})
    /\ UNCHANGED <<session, joining, inParty>>

\* RoomLeave with extra 28: the host throws q out.  The code looks the host,
\* not the target, up in the kicked set.
HostKick(p, q) ==
    /\ Hosting(p) /\ q # p /\ room[q] = room[p]
    /\ p \notin kicked[room[p]]
    /\ Remove(q, {q})
    /\ UNCHANGED <<session, joining, inParty>>

\* The /kick command of a game master, who need not be in the room.
GmKick(q) ==
    /\ room[q] \in live
    /\ Remove(q, {q})
    /\ UNCHANGED <<session, joining, inParty>>

-----------------------------------------------------------------------------
\* Settings and seats.

Move(p, t) ==
    LET r == room[p]
    IN  /\ members' = [members EXCEPT ![r] =
                          [u \in Team |-> IF u = t THEN @[u] \cup {p}
                                          ELSE IF u = team[p] THEN @[u] \ {p}
                                          ELSE @[u]]]
        /\ team' = [team EXCEPT ![p] = t]

\* TeamChange outside zombie mode; asked says whether p asked for the
\* observer seats, otherwise the server picks the team.
TeamChange(p, asked) ==
    /\ InRoom(p) /\ ~playing[p]
    /\ LET r    == room[p]
           rl   == rules[r]
           half == rl.max \div 2
       IN  \/ /\ asked = "observer" /\ host[r] # p
              /\ rl.observers /\ Size(r, "observer") < MaxObservers
              /\ p \notin members[r]["observer"]
              /\ Move(p, "observer")
           \/ /\ asked # "observer" /\ ~rl.teamBased
              /\ Size(r, "neutral") < rl.max /\ p \notin members[r]["neutral"]
              /\ Move(p, "neutral")
           \/ /\ asked # "observer" /\ rl.teamBased
              /\ LET t == IF team[p] = "blue" THEN "red"
                          ELSE IF team[p] = "red" THEN "blue"
                          ELSE IF Size(r, "blue") <= Size(r, "red") THEN "blue" ELSE "red"
                 IN  team[p] # "neutral" /\ Size(r, t) < half /\ Move(p, t)
    /\ UNCHANGED <<session, joining, inParty, room, playing, live, issued, host, started, kicked, rules>>

HostChange(p, q) ==
    /\ Hosting(p) /\ ~started[room[p]]
    /\ q \in Seated(Fighters(room[p]), room[p]) \ {p}
    /\ host' = [host EXCEPT ![room[p]] = q]
    /\ UNCHANGED <<session, joining, inParty, accounts, live, issued, members, started, kicked, rules>>

\* Modinfo with BalanceTeams: the host changes the settings, and a change
\* between team and free-for-all modes re-seats everyone; B are the players
\* that BalanceTeams, alternating from blue, makes blue.
ChangeRules(p, rl, B) ==
    /\ Hosting(p) /\ ~started[room[p]]
    /\ LET r     == room[p]
           lists == members[r]
           n     == lists["neutral"]
           both  == Seated(lists["red"] \cup lists["blue"], r)
       IN  /\ rl.observers = rules[r].observers
           /\ rules' = [rules EXCEPT ![r] = rl]
           /\ IF rl.teamBased = rules[r].teamBased
              THEN B = {} /\ UNCHANGED <<members, team>>
              ELSE IF rl.teamBased
              THEN /\ B \subseteq n /\ Cardinality(B) = (Cardinality(n) + 1) \div 2
                   /\ members' = [members EXCEPT ![r] =
                          [@ EXCEPT !["blue"] = B, !["red"] = n \ B, !["neutral"] = {}]]
                   /\ team' = [q \in Player |-> IF q \in B THEN "blue"
                                                ELSE IF q \in n THEN "red" ELSE team[q]]
              ELSE /\ B = {}
                   /\ members' = [members EXCEPT ![r] =
                          [@ EXCEPT !["neutral"] = both, !["red"] = {}, !["blue"] = {}]]
                   /\ team' = [q \in Player |-> IF q \in both THEN "neutral" ELSE team[q]]
    /\ UNCHANGED <<session, joining, inParty, room, playing, live, issued, host, started, kicked>>

\* The host allows or forbids observers.  Forbidding removes them in a loop
\* over the very vector NewRemoveRoomPlayer erases from, which may skip some:
\* O are those it reached, at least one.
AllowObservers(p, allow, O) ==
    /\ Hosting(p) /\ ~started[room[p]]
    /\ LET r   == room[p]
           all == Seated(members[r]["observer"], r)
       IN  /\ O \subseteq all
           /\ (O = {}) <=> (allow \/ all = {})
           /\ room' = [q \in Player |-> IF q \in O THEN None ELSE room[q]]
           /\ playing' = [q \in Player |-> IF q \in O THEN FALSE ELSE playing[q]]
           /\ members' = [members EXCEPT ![r]["observer"] = @ \ O]
           /\ rules' = [rules EXCEPT ![r].observers = allow]
    /\ UNCHANGED <<session, joining, inParty, team, live, issued, host, started, kicked>>

-----------------------------------------------------------------------------
\* Matches.

\* MatchStart, result Started: sent by every client as it enters the match.
MatchStart(p) ==
    /\ InRoom(p)
    /\ playing' = [playing EXCEPT ![p] = TRUE]
    /\ started' = [started EXCEPT ![room[p]] = TRUE]
    /\ UNCHANGED <<session, joining, inParty, room, team, live, issued, members, host, kicked, rules>>

\* MatchLeave.  With others still in the match the host, the target of a running
\* vote and the member of a party also leave the room, the last also the party.
MatchLeave(p, votedOut) ==
    /\ InRoom(p)
    /\ UNCHANGED <<session, joining>>
    /\ LET r    == room[p]
           busy == {q \in Everyone(r) \ {p} : playing[q]}
           B    == IF votedOut THEN {p} ELSE {}
           last == busy = {} \/ Cardinality(Everyone(r)) = 1
       IN  /\ inParty' = IF busy = {} THEN inParty ELSE inParty \ {p}
           /\ IF busy # {} /\ (host[r] = p \/ votedOut \/ p \in inParty)
              THEN
                /\ \E heir \in Heirs(r, p) : Depart(r, {p}, B, heir)
                /\ started' = [started EXCEPT ![r] = @ /\ ~last /\ ~Closes(r, {p})]
              ELSE
                /\ playing' = [q \in Player |->
                       IF q = p \/ (busy = {} /\ q \in Seated(members[r]["observer"], r))
                       THEN FALSE ELSE playing[q]]
                /\ started' = [started EXCEPT ![r] = @ /\ ~last]
                /\ kicked' = [kicked EXCEPT ![r] = @ \cup B]
                /\ UNCHANGED <<room, team, live, issued, members, host, rules>>

\* MatchEnd (MpGameModes), sent by any member: only the players that its
\* scoreboard lists stop playing.
MatchEnd(p, scored) ==
    /\ InRoom(p) /\ started[room[p]]
    /\ LET r == room[p]
       IN  /\ scored \subseteq {q \in Seated(Fighters(r), r) : playing[q]}
           /\ playing' = [q \in Player |->
                  IF q \in scored \cup Seated(members[r]["observer"], r) THEN FALSE ELSE playing[q]]
           /\ started' = [started EXCEPT ![r] = FALSE]
           /\ kicked' = [kicked EXCEPT ![r] = {}]
    /\ UNCHANGED <<session, joining, inParty, room, team, live, issued, members, host, rules>>

\* MatchEnd gives up at the first player of the scoreboard whose level cannot be
\* worked out: those before it no longer play, and the match stays on.
MatchEndBrokenOff(p, done) ==
    /\ InRoom(p) /\ started[room[p]]
    /\ LET scored == {q \in Seated(Fighters(room[p]), room[p]) : playing[q]}
       IN  done \subseteq scored /\ done # scored
    /\ playing' = [q \in Player |-> IF q \in done THEN FALSE ELSE playing[q]]
    /\ UNCHANGED <<session, joining, inParty, room, team, rooms>>

\* A report of Cast that p hit q, who are in one room (their sessions may be
\* gone by now): if either still plays, a match marked as over runs again.
CombatStats(p, q) ==
    /\ p # q /\ room[p] = room[q] /\ room[p] \in live
    /\ playing[p] \/ playing[q]
    /\ started' = [started EXCEPT ![room[p]] = TRUE]
    /\ UNCHANGED <<session, joining, inParty, accounts, live, issued, members, host, kicked, rules>>

-----------------------------------------------------------------------------
Step(p) ==
    \/ Login(p) \/ Disconnect(p) \/ CreateParty(p) \/ JoinParty(p) \/ LeaveParty(p)
    \/ Leave(p) \/ GmKick(p) \/ JoinRefused(p) \/ MatchStart(p)
    \/ \E votedOut \in BOOLEAN : Purge(p, votedOut) \/ MatchLeave(p, votedOut)
    \/ \E r \in RoomId :
          \/ CreateWithoutOptions(p, r)
          \/ SwitchRoom(p, r)
          \/ JoinInvisible(p, r)
          \/ \E rl \in Rules : CreateRoom(p, r, rl)
          \/ \E way \in Way : Join(p, r, way)
    \/ \E q \in Player : HostKick(p, q) \/ HostChange(p, q) \/ CombatStats(p, q)
    \/ \E t \in Team : TeamChange(p, t)
    \/ \E S \in SUBSET Player :
          \/ \E rl \in Rules : ChangeRules(p, rl, S)
          \/ \E allow \in BOOLEAN : AllowObservers(p, allow, S)
          \/ MatchEnd(p, S) \/ MatchEndBrokenOff(p, S)

Next == \E p \in Player : Step(p)

Spec == Init /\ [][Next]_vars

-----------------------------------------------------------------------------
\* The room's lists and the accounts agree: whoever a list of a live room
\* names is in that room, on that list's team (so on one list only), and a
\* room that is gone has no lists.
ListedAreSeated ==
    \A r \in RoomId, t \in Team : \A p \in members[r][t] :
        r \in live /\ room[p] = r /\ team[p] = t

\* Conversely, a player is seated in the room it believes to be in when that room
\* lists it on the team it believes to be on.
HasSeat(p) == room[p] # None /\ p \in members[room[p]][team[p]]

\* Two teams of half an odd limit: the room is not full, but has no seat.
OddSeatOnly(r) ==
    /\ rules[r].teamBased /\ rules[r].max % 2 = 1
    /\ \A t \in {"blue", "red"} : Size(r, t) = rules[r].max \div 2
    /\ rules[r].observers => Size(r, "observer") >= MaxObservers

\* No step takes the seat of a player and leaves it in its room, and whoever
\* enters a room gets a seat, with the one exception of RoomJoin's missing error
\* path: it lets a player into a team room of odd limit (the settings take any
\* number) whose two teams have half of it, and reports an error without undoing
\* anything.
SeatedAreListed ==
    [][\A p \in Player : (room'[p] # None /\ ~HasSeat(p)') =>
          \/ room'[p] = room[p] /\ ~HasSeat(p)
          \/ room[p] = None /\ OddSeatOnly(room'[p])]_vars

\* A live room has a host, who plays on a team in it and still has an account.
\* No room is left behind without players or with its host gone, whichever
\* way players leave.
HostPresent ==
    \A r \in live : /\ host[r] \in Fighters(r)
                    /\ room[host[r]] = r
                    /\ session[host[r]] # "offline"

\* Only the lists of the room's kind of mode are used, across every change of
\* mode; GetRoomSorted... reads only those.
ListsFitMode ==
    \A r \in live : IF rules[r].teamBased THEN members[r]["neutral"] = {}
                    ELSE members[r]["red"] = {} /\ members[r]["blue"] = {}

\* An account that is gone, or halfway between two rooms, is in no room.
NoStrays ==
    \A p \in Player : /\ session[p] = "offline" => room[p] = None
                      /\ joining[p] # None => session[p] = "online" /\ room[p] = None

\* When the host of a running match is replaced, by leaving in whatever way, while
\* somebody on a team is still in the match, then by one who is in the match, also
\* after a match end that was broken off for some: the clients in the match get a
\* host that relays for them.
MatchKeepsItsHost ==
    [][\A r \in live \cap live' :
          (started[r] /\ host'[r] # host[r] /\ \E q \in Fighters(r)' : playing'[q])
          => playing'[host'[r]]]_vars

\* Whoever is barred from a room does not get into it, except an invisible
\* tester; not even by having been on the way in when it was barred.
KickedStayOut ==
    [][\A r \in RoomId : \A p \in kicked[r] \ Staff : room[p] # r => room'[p] # r]_vars

\* A member of a party enters room r on team t of the two.
PartyEnters(r, t) ==
    rules[r].teamBased /\ \E p \in inParty : room[p] # r /\ room'[p] = r /\ team'[p] = t

\* Who counts when a team room is checked for being full.
Crowd(r) == Size(r, "red") + Size(r, "blue")
            + (IF rules[r].observers THEN Size(r, "observer") ELSE 0)

\* No step that leaves a room's settings alone takes a team over its limit,
\* although a change of settings may leave a team above it.  Parties fill one
\* side of a team room past its half, but not the room: the teams and observers
\* together are within what the room takes.
TeamsWithinLimits ==
    [][\A r \in live \cap live', t \in PlayTeam :
          (rules'[r] = rules[r] /\ Cardinality(members'[r][t]) > Size(r, t))
          => IF PartyEnters(r, t)
             THEN Crowd(r)' <= rules[r].max + (IF rules[r].observers THEN MaxObservers ELSE 0)
             ELSE Cardinality(members'[r][t]) <=
                     (IF t = "neutral" THEN rules[r].max ELSE rules[r].max \div 2)]_vars

\* A player of no party who enters a team room never makes the teams more uneven
\* than they were, except from even teams.
JoinsKeepTeamsEven ==
    [][\A p \in Player \ inParty, r \in live \cap live' :
          (room[p] # r /\ room'[p] = r /\ rules[r].teamBased /\ Size(r, "blue") # Size(r, "red"))
          => LET b == Cardinality(members'[r]["blue"])
                 d == Cardinality(members'[r]["red"])
             IN  IF Size(r, "blue") > Size(r, "red") THEN b - d <= Size(r, "blue") - Size(r, "red")
                 ELSE d - b <= Size(r, "red") - Size(r, "blue")]_vars

\* The rooms do what Lobby promises of the players who have a seat: one who was
\* let in without is outside of it, until a change of team seats it or it leaves.
seat == [p \in Player |-> IF HasSeat(p) THEN room[p] ELSE None]
Promise == INSTANCE Lobby WITH where <- seat, leader <- host
KeepsPromise == Promise!Spec

\* Match/Leave.h:196 says that without a player in the match the match is
\* over.
MatchOverWhenNobodyPlays ==
    \A r \in live : started[r] => \E p \in Player : room[p] = r /\ playing[p]
=============================================================================
