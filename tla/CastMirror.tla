----------------------------- MODULE CastMirror -----------------------------
(***************************************************************************)
(* The rooms as Cast knows them: every handler of Main that changes who is *)
(* in a room, its host or its match sends Cast a message about it, over    *)
(* one connection and in order, and Cast rebuilds the rooms from these     *)
(* messages alone; its own connections and disconnections do not count.    *)
(*                                                                         *)
(* A handler of Main holds the room's lock from the change to the message, *)
(* so it is one step.  The commands that break a room do not: they clear   *)
(* the accounts of its players under the lock, let go of it, erase the     *)
(* room, tell Cast and give the id back.                                   *)
(*                                                                         *)
(* Abstractions: teams, except that who only watches cannot become host    *)
(* nor keep a room alive; who is playing in a match; a session's end is    *)
(* its leaving; invisible staff; what Cast notes in its accounts.  The     *)
(* link loses nothing (IpcLink and SessionSending model how it can break). *)
(***************************************************************************)
EXTENDS Naturals, Sequences, FiniteSets

CONSTANTS
    Player,     \* session ids of players
    Watcher,    \* those who only watch
    Room,       \* ids of rooms
    Breaker,    \* who may break a room at a time: /break, /breakall, PartyClanLeave
    None,       \* no player, no room
    MaxLink     \* messages on their way

VARIABLES
    inRoom,     \* Player -> the room that the account names
    live,       \* the keys of Main's CRoom
    free,       \* ids that GetNextAvailableRoomId may return
    members,    \* Room -> whom its lists name
    host,       \* Room -> host_session_id
    playing,    \* Room -> is_playing
    breaking,   \* Breaker -> the room it has cleared and is about to erase
    erased,     \* Breaker -> the room it has erased and not yet told Cast of
    twice,      \* the rooms that two were breaking at once, ever
    link,       \* messages on their way to Cast
    castRooms, castMembers, castHost, castPlaying   \* Cast's CRoom

main == <<inRoom, live, free, members, host, playing, breaking, erased, twice>>
cast == <<castRooms, castMembers, castHost, castPlaying>>
vars == <<main, link, cast>>

About(r) ==
    [kind : {"Join", "Leave"}, room : {r}, sid : Player, host : Player, playing : BOOLEAN]
    \cup [kind : {"MatchState"}, room : {r}, host : Player, playing : BOOLEAN]
    \cup [kind : {"HostChange"}, room : {r}, host : Player] \cup [kind : {"Remove"}, room : {r}]

TypeOK ==
    /\ inRoom \in [Player -> Room \cup {None}]
    /\ live \subseteq Room /\ free \subseteq Room
    /\ members \in [Room -> SUBSET Player] /\ castMembers \in [Room -> SUBSET Player]
    /\ host \in [Room -> Player \cup {None}] /\ castHost \in [Room -> Player \cup {None}]
    /\ playing \in [Room -> BOOLEAN] /\ castPlaying \in [Room -> BOOLEAN]
    /\ breaking \in [Breaker -> Room \cup {None}] /\ erased \in [Breaker -> Room \cup {None}]
    /\ twice \subseteq Room
    /\ \A i \in 1 .. Len(link) : \E r \in Room : link[i] \in About(r)
    /\ castRooms \subseteq Room

Nobody == [r \in Room |-> {}]
NoHost == [r \in Room |-> None]
NoPlay == [r \in Room |-> FALSE]

Init ==
    /\ inRoom = [p \in Player |-> None] /\ live = {} /\ free = Room
    /\ members = Nobody /\ host = NoHost /\ playing = NoPlay
    /\ breaking = [b \in Breaker |-> None] /\ erased = [b \in Breaker |-> None]
    /\ twice = {} /\ link = <<>>
    /\ castRooms = {} /\ castMembers = Nobody /\ castHost = NoHost /\ castPlaying = NoPlay

-----------------------------------------------------------------------------
\* Main's messages.

JoinSync(r, p, h, play) == [kind |-> "Join", room |-> r, sid |-> p, host |-> h, playing |-> play]
LeaveSync(r, p, h) ==
    [kind |-> "Leave", room |-> r, sid |-> p, host |-> h, playing |-> playing[r]]
MatchSync(r, play)   == [kind |-> "MatchState", room |-> r, host |-> host[r], playing |-> play]
HostMessage(r, p)    == [kind |-> "HostChange", room |-> r, host |-> p]
RemoveSync(r)        == [kind |-> "Remove", room |-> r]

Say(messages) ==
    /\ Len(link) + Len(messages) <= MaxLink
    /\ link' = link \o messages

InRoom(p) == inRoom[p] # None /\ inRoom[p] \in live

-----------------------------------------------------------------------------
\* Main's handlers.

\* RoomCreate, with the account locked until Cast is told.
Create(p, r) ==
    /\ inRoom[p] = None /\ p \notin Watcher /\ r \in free
    /\ free' = free \ {r} /\ live' = live \cup {r}
    /\ inRoom' = [inRoom EXCEPT ![p] = r]
    /\ members' = [members EXCEPT ![r] = {p}]
    /\ host' = [host EXCEPT ![r] = p] /\ playing' = [playing EXCEPT ![r] = FALSE]
    /\ Say(<<JoinSync(r, p, p, FALSE)>>)
    /\ UNCHANGED <<breaking, erased, twice, cast>>

\* RoomJoin, also of a room that is being broken.
Join(p, r) ==
    /\ inRoom[p] = None /\ r \in live /\ p \notin members[r]
    /\ inRoom' = [inRoom EXCEPT ![p] = r]
    /\ members' = [members EXCEPT ![r] = @ \cup {p}]
    /\ Say(<<JoinSync(r, p, host[r], playing[r])>>)
    /\ UNCHANGED <<live, free, host, playing, breaking, erased, twice, cast>>

\* PickAutoHost: anyone else whose account says that it is in the room.
Heirs(r, p) == {q \in members[r] \ ({p} \cup Watcher) : inRoom[q] = r}

\* Who is host once p has left, and whether that takes a message.
NextHost(r, p, h) == IF host[r] = p /\ Heirs(r, p) # {} THEN h \in Heirs(r, p) ELSE h = host[r]
Inherited(r, h)   == IF h # host[r] THEN <<HostMessage(r, h)>> ELSE <<>>

\* NewRemoveRoomPlayer, by whatever handler.
Leave(p, h) ==
    LET r == inRoom[p]
        rest == members[r] \ {p}
    IN  /\ InRoom(p) /\ NextHost(r, p, h)
        /\ IF rest \subseteq Watcher
           THEN /\ live' = live \ {r} /\ free' = free \cup {r}
                /\ inRoom' = [q \in Player |->
                       IF q = p \/ (q \in rest /\ inRoom[q] = r) THEN None ELSE inRoom[q]]
                /\ members' = [members EXCEPT ![r] = {}] /\ host' = [host EXCEPT ![r] = None]
                /\ playing' = [playing EXCEPT ![r] = FALSE]
                /\ Say(Inherited(r, h) \o <<LeaveSync(r, p, h), RemoveSync(r)>>)
           ELSE /\ inRoom' = [inRoom EXCEPT ![p] = None]
                /\ members' = [members EXCEPT ![r] = rest] /\ host' = [host EXCEPT ![r] = h]
                /\ Say(Inherited(r, h) \o <<LeaveSync(r, p, h)>>)
                /\ UNCHANGED <<live, free, playing>>
        /\ UNCHANGED <<breaking, erased, twice, cast>>

\* The host appoints another, not during a match.
HostChange(p, q) ==
    /\ InRoom(p) /\ host[inRoom[p]] = p /\ ~playing[inRoom[p]]
    /\ q \in Heirs(inRoom[p], p)
    /\ host' = [host EXCEPT ![inRoom[p]] = q]
    /\ Say(<<HostMessage(inRoom[p], q)>>)
    /\ UNCHANGED <<inRoom, live, free, members, playing, breaking, erased, twice, cast>>

\* MatchStart with Started; the ends of a match in MatchEnd and MatchLeave.
MatchState(p, play) ==
    /\ InRoom(p)
    /\ playing' = [playing EXCEPT ![inRoom[p]] = play]
    /\ Say(<<MatchSync(inRoom[p], play)>>)
    /\ UNCHANGED <<inRoom, live, free, members, host, breaking, erased, twice, cast>>

\* A late combat report makes the match run again; Cast is not told.
Reopened(p) ==
    /\ InRoom(p) /\ playing' = [playing EXCEPT ![inRoom[p]] = TRUE]
    /\ UNCHANGED <<inRoom, live, free, members, host, breaking, erased, twice, link, cast>>

\* The players of the room are sent to the lobby, the room keeps its lists.
BreakClear(b, r) ==
    /\ breaking[b] = None /\ erased[b] = None /\ r \in live
    /\ breaking' = [breaking EXCEPT ![b] = r]
    /\ twice' = IF \E c \in Breaker : breaking[c] = r THEN twice \cup {r} ELSE twice
    /\ inRoom' = [p \in Player |->
           IF p \in members[r] /\ inRoom[p] = r THEN None ELSE inRoom[p]]
    /\ UNCHANGED <<live, free, members, host, playing, erased, link, cast>>

\* Defect: the id is given back with the room.
FreeWithRoom(r) == free \cup {r}

FreeLater(r) == free

BreakErase(b) ==
    LET r == breaking[b]
    IN  /\ r # None
        /\ breaking' = [breaking EXCEPT ![b] = None] /\ erased' = [erased EXCEPT ![b] = r]
        /\ live' = live \ {r} /\ members' = [members EXCEPT ![r] = {}]
        /\ host' = [host EXCEPT ![r] = None] /\ playing' = [playing EXCEPT ![r] = FALSE]
        /\ free' = FreeLater(r)
        /\ UNCHANGED <<inRoom, twice, link, cast>>

BreakTell(b) ==
    /\ erased[b] # None /\ erased' = [erased EXCEPT ![b] = None]
    /\ free' = free \cup {erased[b]}
    /\ Say(<<RemoveSync(erased[b])>>)
    /\ UNCHANGED <<inRoom, live, members, host, playing, breaking, twice, cast>>

-----------------------------------------------------------------------------
\* Cast's handlers.

\* EnsureCastRoomExists, and what the message says of the room.
Synced(m, who) ==
    /\ castRooms' = castRooms \cup {m.room}
    /\ castMembers' = [castMembers EXCEPT ![m.room] = who]
    /\ castHost' = [castHost EXCEPT ![m.room] = m.host]
    /\ castPlaying' = [castPlaying EXCEPT ![m.room] = m.playing]

\* IpcMainRoomLifecycleSync and IpcMainHostChange, which ignores a host who is
\* not in the room or whose own connection to Cast is not authorised then.
Handled(m) ==
    CASE m.kind = "Join"       -> Synced(m, castMembers[m.room] \cup {m.sid})
      [] m.kind = "MatchState" -> Synced(m, castMembers[m.room])
      [] m.kind = "Leave"      -> IF m.room \in castRooms
                                  THEN Synced(m, castMembers[m.room] \ {m.sid})
                                  ELSE UNCHANGED cast
      [] m.kind = "HostChange" -> /\ \/ castHost' = castHost
                                     \/ /\ m.host \in castMembers[m.room]
                                        /\ castHost' = [castHost EXCEPT ![m.room] = m.host]
                                  /\ UNCHANGED <<castRooms, castMembers, castPlaying>>
      [] m.kind = "Remove"     -> /\ castRooms' = castRooms \ {m.room}
                                  /\ castMembers' = [castMembers EXCEPT ![m.room] = {}]
                                  /\ castHost' = [castHost EXCEPT ![m.room] = None]
                                  /\ castPlaying' = [castPlaying EXCEPT ![m.room] = FALSE]

Receive ==
    /\ link # <<>> /\ Handled(Head(link)) /\ link' = Tail(link)
    /\ UNCHANGED main

Next ==
    \/ \E p, q \in Player : Leave(p, q) \/ HostChange(p, q)
    \/ \E p \in Player : Reopened(p)
    \/ \E p \in Player, play \in BOOLEAN : MatchState(p, play)
    \/ \E p \in Player, r \in Room : Create(p, r) \/ Join(p, r)
    \/ \E b \in Breaker, r \in Room : BreakClear(b, r)
    \/ \E b \in Breaker : BreakErase(b) \/ BreakTell(b)
    \/ Receive

Spec == Init /\ [][Next]_vars
-----------------------------------------------------------------------------
\* Once Cast has had all messages about a room, and none is still to be sent, it
\* knows whether the room exists and who is in it; a match that it knows of is
\* going on, and under the host that Main has for it.  Of a match that goes on
\* after all, and of a host appointed in the lobby, Cast need not know.  Nothing
\* is said of a room that two have been breaking at once: the second of them tells
\* Cast to remove, and gives back, an id that may be another room's by then.
Settled(r) ==
    /\ \A i \in 1 .. Len(link) : link[i].room # r
    /\ \A b \in Breaker : erased[b] # r

RoomsMirrored ==
    \A r \in Room \ twice : Settled(r) =>
        /\ r \in castRooms <=> r \in live
        /\ castMembers[r] = members[r]
        /\ castPlaying[r] => playing[r] /\ castHost[r] = host[r]
=============================================================================
