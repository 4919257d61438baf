# A TLA+ model of MegaVoltsPP

MegaVoltsPP is the server side of an online shooter, in C++: three processes
that share one network engine and talk to each other over TCP.

* **Front** checks passwords and hands out authentication keys.
* **Main** keeps the accounts of everybody online and everything outside a
  running match: rooms, parties, plazas, the shop, mail, trades, statistics.
* **Cast** relays the packets of the matches and plazas between the players in
  them.  It holds a copy of Main's rooms, rebuilt from Main's messages.

This directory models the parts of it whose steps can go wrong in an order
nobody tried.  The text below says what is there, how it corresponds to the
code, what is checked and proved, and what is left out.

## 1. Inventory

Paths are relative to the repository (`src/Main` is the Main server).

| Part | State | Operations | What is hard about it |
|---|---|---|---|
| Rooms on Main (`src/Main/handlers/Room`, `CMainServer.h`) | `CRoom`: four lists of session ids (neutral, red, blue, observer), host, `is_playing`, `kicked`, settings; `CAccount`: `in_room`, `room_id`, `team_id`, `slot_id`, `playing` | create, join, leave, kick, team change, host change, settings, observers on/off, match start/leave/end, disconnect | two copies of who is where; the host may go at any moment; lists of two kinds of mode; limits checked in four places, and not for parties; locks dropped in the middle of a join |
| Slots | `slot_id` per player, order of the lists | join, swap-with-last on removal, host change | lists that a binary search takes to be sorted |
| Kick votes | `voters`, `voteKickers`, target, running | start (strand, then database task), agree, verify, target leaves | counted against players who are no longer the ones who voted |
| Sessions (`common/NetEngine/CServer.*`) | `m_sessions`, `IdGenerator` | accept, remove, adopt another id | ids freed and handed out again while a cache still uses them |
| Session sending and reading (`CSession.*`) | send queue, reader buffer | send from any thread, completion, read | one write in flight |
| Caches and locks (`BaseLib/CCache.h`, `CLocker.h`) | a map lock and a lock per element | get, insert, erase, get_all | handlers take element locks in different orders |
| Login | Front's `CAccount`, `CAuthKeys`; Main's `CAidSid`, `CAuthKey`; Cast's `CAccount`, `CAuthKey` | authorize, reconnect, disconnect, five kinds of message between servers | answers that come after the session that asked has gone; two logins of one account |
| Heartbeat (`secure_channel.cpp`, `HeartbeatManager`) | an entry of `sessions_`: `pendingChallenges`, `retryCount`, `awaitingResponse`, one timer | start, challenge, answer, timeout, retry, stop | timers that are replaced and not cancelled; late answers |
| Cast's rooms | `CRoom` (host, players, is_playing), the players' `room_id`, `state_id` | create, join, leave, remove, match state, host change | messages against the players' own connections to Cast |
| Movement batching on Cast | latest sample per room and player, last tick | submit, flush, drop | a flush works on a copy, without the lock |
| Account changes | account in the cache, the database | validate, write, apply | check and use far apart, on different threads |
| Trades (`Socials/Trade/Trade.h`) | two offers, locks, confirmations | not registered (`CMainServer.cpp:1227`) | nothing calls them at present |
| Plazas on Main (`handlers/Plaza`) | `CPlaza`: lists of session ids; the accounts' `plaza_id`, `in_plaza` | join, find one with room, make, change, leave, on the way into a room or party, purge | the plaza is locked anew for every question; two copies of who is where |
| Plazas on Cast | the same, erased when empty | join, leave, disconnect | looking, making, emptying and erasing are steps of their own |
| Friends, blocked players (`handlers/Socials`) | `player_socials` rows of either account; `CSocial` lists by session | request, answer, remove, block, unblock, login | rows and lists of two players, changed by the tasks of both |
| Mail (`handlers/Player/Mail`) | `player_mailbox`; `CMailboxData`, `CMailSent`, `CMailRecv` | send, delete, login | a cache that no session owns, filled by logins and tasks |
| Parties, rate limits, inter-server connections, combat statistics | see `PROJECT.json` | | |
| Chat, staff commands, missions | rows of the database and one account each | | mostly arithmetic and I/O |

How they interact: packets of one session are handled one after another on the
session's strand; different sessions run in parallel on the threads of the
`io_context`.  Handlers share the caches (`CAccount`, `CRoom`, ...), each a map
with a lock on the map and one on every element.  Slow work goes to a pool of
database threads as a task that runs later and takes the same locks.  Main
tells Cast of every change to a room over one TCP connection, so in order.

`PROJECT.json` lists every component with its sources and every hazard with
its line and the properties aimed at it.

## 2. Plan

In the order in which it matters; all of it is done.

1. `RoomMembership` with the abstract `Lobby`: who is in which room.
2. `SessionTable` with `MainSessions` and `CastSessions`: which session, key and
   account an id leads to, on Main and on Cast; `FrontLogin`: a login's way
   through Front and the logins of one account that get in each other's way.
3. `AccountUpdates` with the abstract `AccountBook`: what requests do to the
   cached account and to the database.
4. `Match`: rounds, combat statistics, rewards and kick votes of one room.
5. `HandlerLocks`: what waits on what.
6. `SessionSending`, `IpcLink`: how bytes leave a process, and what keeps two
   processes connected.
7. `CastMirror`: Cast's copy of the rooms against the messages in flight.
8. `Parties`, `MovementBatcher`, `Heartbeat`.
9. `Plazas`, `CastPlazas`, `Socials`, `Mailbox`: what players have with each
   other outside of rooms.

Components that share no state are checked together, each on its own instance:
`MCServers` runs those whose properties are safety (Main's sessions, logins on
Front, parties, Cast's copy of the rooms, Main's plazas,
friends, mails), `MCCast` Cast's sessions and plazas, `MCComponents` those with
liveness (locks, sending, the link, the batcher, the heartbeat).  The proofs
have modules of their own: beside `RoomMembership`, `SessionTable`,
`MainSessions`, `AccountUpdates` and `Match`, and one for each of the three
modules that put components together (`ServersProofs`, `CastProofs`,
`ComponentsProofs`).  `Lists` holds what parties and plazas do to their vectors of
session ids.  What is left out, and why, is section 6.

## 3. Modules

### RoomMembership, Lobby

One player of the model is a session with its account; `room`, `team` and
`playing` are the account's fields (`CAccount`), `members`, `host`, `started`,
`kicked` and `rules` those of the room (`CRoom`), `live` the keys of `CRoom` and
`issued` the ids the generator has given out.  Every handler that moves a player
is an action: `CreateRoom`, `Join` (with `SwitchRoom` for a player who is in
another room), `Leave`, `HostKick`, `GmKick`, `TeamChange`, `HostChange`,
`ChangeRules`, `AllowObservers`, `MatchStart`, `MatchLeave`, `MatchEnd`,
`MatchEndBrokenOff`, `CreateParty`, `Login`, `Disconnect`, `Purge`.  All departures go through `Remove`, as in the
code through `NewRemoveRoomPlayer`.

A handler holds the room's lock from its first look at the room to its last
write, so its critical section is one step.  Where a handler has more than one
section the model has more than one action: a join out of another room leaves
it, drops all locks and only then enters (`SwitchRoom`, then `Join` or
`JoinRefused`); a disconnect is a step on the strand and a task later.  Handlers
of one session do not overlap, being on its strand; `Ready` says so.

The settings take any limit of players that the client sends (`PlayersRule.h:27`,
`Modinfo.h:140`, `ModinfoFull.h:40`; a new room has twice the number asked for).
With an odd limit, two teams of half of it leave the room not full and without a
seat: `Placement` is then `None`, and the joiner is marked as in the room and in
no list, as `RoomJoin` has it.  `SeatedAreListed` says that this is the only way
to be in a room without a seat, and `Lobby` is implemented for those who have one.

Of the parties `RoomMembership` keeps who is in one (`inParty`): their members
are placed on their party's side without a look at its limit (`Way`, `Placement`),
which is what `TeamsWithinLimits` and `JoinsKeepTeamsEven` except; who makes a
party leaves the room; and `MatchLeave` takes a member of a party out of both.
Which party is whose, and whether two stand against each other, is left open
(the parties themselves are in `Parties`).  A match end that fails for one player
of its scoreboard leaves those before it out of the match and the match running
(`MatchEndBrokenOff`).

Abstracted: lists are sets here; ping, `PlayerInfo::State`, passwords, titles
and what decides between several legal heirs or teams are nondeterministic
choices.  Assumed: a session sends nothing in the same read after a packet that
makes the server close it (`CSession.cpp:243` would still handle it; only the
anti-cheat, plaza and login handlers close their own session); and the joins that
`PartyClanOtherJoin` runs for the members of two parties, on its own thread, do
not meet another handler of such a member halfway.  Left out: the closing of a
room as a whole, by `/break` (it is in `CastMirror`) and by the leader of a clan
party (`PartyClanLeave`).

`Lobby` is what the rooms promise, in four actions: a player is in at most one
room, a room is there exactly as long as somebody is in it, and it has a leader
among them who stays until leaving or handing over.  The players of a room are
those who have a seat in it (`seat`).  `RoomMembership` implements it under the mapping at the end of the module
(`KeepsPromise`).

### SessionTable, MainSessions, CastSessions

`SessionTable` is `CServer`'s part: the id generator (`counter`, `free`),
`m_sessions` (`table`), and accepting a connection, which takes
`m_sessions_mutex` twice and greets in between (`Accept`, `Enter`).  It is
extended, not instantiated: the two servers add variables and give the actions
that read packets and disconnect.

`MainSessions` adds three things filed under session ids: the key of the secure
channel, the account, and the tasks that name them.  `Authorize` takes the key
on the strand and queues a task, `Login` is that task, `Disconnect` closes the
socket and either removes the session or queues the purge, whose two steps are
`PurgeAccount` and `PurgeSession`.  Packets of a read that outlive the closing
of the socket are included (`Handling`).

`CastSessions` adds the request for authorisation and Main's answer, which may
name any id (Main's ids have nothing to do with Cast's): `AdoptSid`, `Retry`,
`Install`.  The disconnect there reads the session's id first and uses it in
two later steps, and an adoption can come between any of them.

Abstracted: what an account holds, `CAuthKey`, `CSid`, clans; second logins of an account are in `FrontLogin` and the heartbeat in
`Heartbeat`; a refused login only tells a session to disconnect, which any
session may do at any time.

### FrontLogin

Front's `CAccount` has an entry for each account that is logging in (`entry`,
the id of the session on Front); it turns other logins of the account away as
long as the entry is there and its session open.  A login is a task
(`Authorize`, or `Reconnect` for the second one, with the one-time password)
that looks at the entry, clears one whose session has gone (`CheckKey`,
`Forget`, `Look`, `Evict`), and inserts its own (`Insert`), a lock at a time.
`Insert` asks Main: is the account online (`TryLoginPlayer`), or disconnect
whoever is (`DisconnectPlayer`).  Main answers (`AidOnline`, `AidOffline`), or
marks the player with `front_sid`, and reports when the player's purge is through
(`MainDisconnect`, `DropAccount`, `DropAid`, `AidDisconnected`).  `Drop` is the
last step of an answer's handler on Front, which erases the entry by the
account, whosever it is by then.  `known` is `CAuthKeys`.

The history `state` says what has become of an entry: "asked", "told" (its
session was answered), or "lost": Main told a session to disconnect that was
closed already, so nobody reports.  `NobodyBlocks` is about the rest: an
unanswered login that blocks others always has something on the way that ends
it, a message, a handler, or a disconnect that will be reported.

Abstracted: what the database says of a password or a key; messages arrive, in
any order (each handler runs on any thread).  Left out: the deletion in the
database of a key that Front has just handed out, by the purge of the account's
former session on Main.

### Heartbeat

One entry of `HeartbeatManager::sessions_`.  `pending` is the number of
`pendingChallenges`, `current` the timer in `state.timer` by its purpose, and
`others` the timers that were set and are no longer there: `scheduleTimeout`
and `scheduleNextChallenge` (`Schedule`) put a new timer in the place of the old
one without cancelling it.  `calls` are threads between two holds of the
manager's mutex.  `NextChallenge` and `Timeout` are the timers' handlers,
`SendAgain` the retry, `Answer` is `onResponse`, `Disconnect` and the failing
ends stop the session.  A client answers its challenges in order, and may fall
silent (`FallSilent`).

Time is abstracted: timers fire in any order.  An answer to an older challenge
takes back the wait for the newer one (`awaitingResponse`), so `SilentIsDropped`
speaks of clients that fall silent while an answer is awaited.

### Accounts, AccountUpdates, AccountBook

`Accounts` says what an account is: a balance of micro points, and items filed
under serials (a number, a second and an origin, as in `ItemSerialInfo`; the
primary key of `player_items` together with the account).  In `AccountUpdates`
`store` is the database, `cache` is `CAccount` (by session id), and `task` the
tasks that handlers have submitted to `DbPool`, each with its
`ValidatedDbUpdates`.

A request is three steps of the code and of the model.  The handler
(`ShopNormal`, `ItemSell`, `ItemDelete`, `ItemRepair`) checks the change against
the cached account under its lock (`Valid` is `ValidateDatabaseUpdates`) and
queues a task (`Submit`).  The task's transaction (`UpdateAccount`) is `Commit`,
whose guard `Accepts` is what makes the SQL statements roll back, or `Refuse`,
which is also any failure of the database.  Then `Apply` takes the lock again
and changes the cached account (`Applied` is `ApplyDatabaseUpdates`, with
uint32_t arithmetic, and stops at the first item to repair that has gone).
`ItemCommand` is the staff's `/item`, which changes the cache in its first step
and has no third.  Tasks run in any order and any of them may lag behind.

`Login` and `Logout` put an account into the cache and take it out while tasks
of the session are under way; a task then changes whatever account it finds
under the id.  The history variable `behind` marks the sessions whose account
another session's task has touched, in the cache or in the database: nothing in
the code says what should happen then, so the agreement of cache and database
is claimed for the others.  `Checked` says which database:
MariaDB counts the rows a charge has touched, PostgreSQL does not.

`AccountBook` is what the database promises: accounts change by one purchase,
sale, deletion, repair or gift of the staff at a time, in full and paid for.

Abstracted: one currency for all; a purchase buys one kind of good; what a
repair costs is a price per worn item, and nothing wears out (the item starts
worn); the branch of `ShopNormal` for buying an expired item again never submits
anything; logs and answers to the client.  Left out: a COMMIT whose answer is
lost on the way back; a login's reading of the database and its insertion into
the cache are one step.

### Match

One room's matches: `MatchStart`, late joins, leaving, `MatchEnd`, the ends of
rounds, the combat reports of Cast (`Hit`), and the kick vote from its request
to its count.  `playing` is `CAccount::playing`, `fight` is `CRoom::combat_open`
with `is_playing`, `kills` and `log` are `match_combat_stats` and
`combat_events`, the timeline is `match_events` with `round_seq`.

A handler holds the room's lock while it writes, so it is one step.  Two are
more: `MatchRoundsEnd` looks at the host under one hold of the lock and counts
the round under another (`RoundEnd`, `RoundEndCount`), and a vote is checked on
the strand and begun by a database task (`AskVote`, `BeginVote`).  A late report
of a hit makes a match that was ended run again, as the code has it, and a
`MatchEnd` may be broken off after rewarding some of the players.

Who is in the room changes freely (`RoomMembership` says how it may).  Left out:
observers, the values of statistics and rewards (a reward is an end of a match
that counts for a player), modes without rounds.

### HandlerLocks

Fourteen handlers of Main as lists of what they lock and release, step by step:
`MatchStart` and most others keep the player's account and wait for the room;
`RoundsStart` lets the room go before it visits the players; `MatchEnd` visits
them while it holds the room, as `Join`, `VotekickAgree` and `CombatStats` do;
`BreakAll` holds the map of ids throughout; `PlazaJoin` reads the accounts of
everybody in the plaza while it holds the plaza, for which `PlazaLeave` waits
with its account; a staff `Command` reads all accounts
under the map's lock.  `CCache::get` waits for an element *while it holds the
map* (`Get`).  Locks are shared or unique, not recursive, as `std::shared_mutex`.
With the handlers that lock accounts inside the room there is a circle (finding
`lock_order`); with those that keep the order there is none (`NobodyStuckHolds`), and
`EveryoneReturns`.

### SessionSending

`CSession`'s sending: `Send` from any thread, the strand's `Queue`, one
asynchronous write at a time (`Written`, `WriteFails`), and the
closing of the socket by either side at any time (`Disconnect`).  `wire` is what
the peer gets.

### IpcLink

A server's connection to another server: `SendUnconnected`, `Connects`, `Fails`,
the retry timer (`SetTimer`, `Wait`, `Expire`, `Retry`) and the callback of a
connection that closes (`OnDisconnect`), which comes at any later time, also
when the next connection is up.  Each step is one hold of
`SPersistentIpcState`'s mutex or one event of asio.  `up` is the peer.

### Parties

`CParty` and the party that each account says it is in.  The list of a party's
members and the accounts disagree more easily than those of a room: neither
`Create` nor `Join` asks whether the player is in a party already, and a kick
leaves the kicked player in the list.  What still holds is that a party has its
leader in its list, and that an account is in the list of the party that it
names.  A handler that looks at an account that is gone throws at the point at
which it then gives its lock back; the model has these ends.

### MovementBatcher

The samples of movement that Cast collects (`Submit`) and sends at a fixed rate
(`Flush`: `Drain` takes what is there under the mutex, `Emit` sends packets
without it, `Store` notes the tick under it again).  Samples carry the ticks of the clients, which may be
anything.

### CastMirror

Main's rooms and Cast's copy of them with the messages between in `link`, in
order.  Handlers hold the room's lock from the change to the message and are one
step; `/break` and `/breakall` are three (`BreakClear`, `BreakErase`,
`BreakTell`).  `RoomsMirrored` says that Cast, once it has read all there is
about a room, knows whether it exists and who is in it, and plays a match only
if Main does, under the same host.  Main need not tell Cast of a match that goes
on after all, nor of a host appointed in the lobby.

Two may break one room at once.  The one who comes second then tells Cast to
remove, and gives back, an id that may be in use again, and `RoomsMirrored`
fails.  `twice` remembers the rooms that this has ever happened to, and the
property is about the others; several breakers of different rooms, or of one
room after the other, are all in it.

### Plazas, CastPlazas

On Main a handler keeps its account locked until the player is in a plaza, so
the account changes in one step (`Enter`, `Leave`, `LeaveForRoom`), but it asks
each question of the plazas under a lock of its own.  `PlazaJoin` is three steps:
it finds that the plaza is not there (`AskNew`) and makes it (`Make`), or decides
on one with room (`JoinOld`), and goes there (`Enter`, which is `TryJoinPlaza`
with `TryRemovePlazaPlayer`).  `Purge` and `EraseAccount` are the end of a
session.  What must hold is that whoever is in a plaza by its account is in its
list.  The other direction fails at once: the test in `TryRemovePlazaPlayer`
(`Removed`, line 34 of `Plaza/Join.h`) is the wrong way round, so a player who
changes the plaza stays in the list of the old one; a comment at line 148 wonders
at finding it there.

On Cast nothing is held in between: `Look`, then `Add` or `MakePlaza`, then
`TellAccount`, then `LeaveOld` (or `Leave`, `Disconnect`), then `Erase`.
A player may be lost from the lists by others' steps; no step may leave one in a
list that it does not know of, and no empty plaza may stay.  Every answer of Main
to a login erases the account and inserts a new one that is in no plaza
(`Authorised`, `MainAuthorize.h:45-48`), also a repeated one: the session then stays
in its list, which `ListedInOwnPlaza` excepts, as it does a join before the first
answer, and it names no third case.  An answer that comes while a leave or a
disconnect holds the lock of the account that it erases is undefined behaviour and
left out.

Abstracted: what players are shown of each other.  Where all plazas are full,
Main goes on with an id that none has (`Nowhere`).

### Socials

`row` is the table `player_socials`: what one account is to another.  A handler
reads the lists of its session (`list`) and of the other's and queues a task
(`FriendsRequest`, `FriendsAccept`, `FriendsRemove`, `BlockedsAdd`,
`BlockedsRemove`); the task writes the rows of both in one transaction (`Rows`
is `PersistPlayerSocialsPatches`) and then the list of its own session
(`Perform`), and after the end of a friendship the list of the other (`Forget`).
A login reads the rows and makes the list of them later (`Load`, `Login`).  The
handler holds its account over the transaction, so transaction and list are one
step for that player.  `shown` are the requests a player has seen and may answer.

A request is a row of the one who asks, so a login loads the requests that the
player has made and not those made to it; `Friends/Add.h:59` seems to expect the
latter.

Abstracted: names; the limit of 100 friends; the transactions are MariaDB's,
which locks the rows a pair of them has in common.

### Mailbox

`row` is `player_mailbox`, `data` is `CMailboxData`, `sent` and `recv` count how
often a mail is in the list of an account.  A mail is sent or deleted in two
steps, in the database (`InsertRow`, `DeleteRow`) and in the cache (`ApplySend`,
`ApplyDelete`), and a login in two as well (`Load`, `Login`).  Each login of
either account of a mail lists it once more: the comment at `Authorize.h:323`
speaks of a check, which `CMailboxData` has and the lists beside it have not; the
property is about a mail being there at all.  A mail with an empty text passes
`MailSend` and the transaction; the cache refuses it then
(`CMainServer.h:2804-2808`), so it is held back until a login of either player
reads its row.  Abstracted: of the text only whether there is one; gifts (their lists work alike), reading, the limit of 100 mails, several
mails deleted at once.  The database may hold mails when the server starts.

## 4. Runs

| Run | Instance | Distinct states | Shows |
|---|---|---|---|
| `rooms` | 3 players (one of the staff), 1 room, limits 2 and 3, 1 observer seat, parties; or 2 players (one of the staff), 2 rooms, limit 2 | 278,558 | lists and accounts agree both ways; hosts are present; lists fit the mode; limits; kicked players stay out; the host of a match stays in it; joining while in another room leaves no strays; `Lobby` is implemented |
| `match_over` | 2 players, 1 room | | violation, see findings |
| `servers` | seven components, one at a time, see below | 1,725,072 | ids, sessions, keys and accounts on Main belong together; no login blocks an account for good; parties and accounts agree; Cast knows Main's rooms; players in a plaza are listed; no friend of a player who has blocked one; no mail is missing |
| `ghost_account` | 2 connections | | violation, see findings |
| `cast` | two components, one at a time, see below | 2,550,601 | what Cast's table keeps while ids change; nobody is left in a plaza that it has left, and no empty plaza stays |
| `probe` | 3 connections | | violation, see findings |
| `accounts` | 1 account, 1 session id, 2 tasks at once, 2 goods, 2 requests that make items, 2-bit balances, 1 item as the limit | 1,746,965 | cached balance and items agree with the database but for what is pending; `AccountBook` is implemented |
| `postgres` | the same with `Checked = FALSE` | | violation, see findings |
| `match` | 3 players, 1 kill, 2 rounds, 1 request for a vote | 1,943,678 | rewards once per match; statistics agree with their log; rounds numbered once; votes throw their target out |
| `lock_order` | 2 players, 1 database thread, 2 handlers begun | | violation, see findings |
| `components` | five components, one at a time, see below | 28,360 | two safety properties and all liveness properties |
| `social_blocks` | 2 accounts, 1 task at a time | | violation, see findings |

`servers`: `MainSessions` with 4 connections and the ids 1 and 2 (the counter
stops before 3); `FrontLogin` with 1 account, 2 session ids on Front (which are
interchangeable), 1 connection to Main and 3 logins on Front; `Parties` with 3
players, 2 parties of at most 2; `CastMirror` with 3 players (one only watches),
1 room, 2 breakers, 3 messages in flight; `Plazas` with 2 players and 2
plazas with room for one; `Socials` with 2 accounts and 2 tasks; `Mailbox` with 2
accounts, 1 mail, 4 logins and 2 tasks.

`cast`: `CastSessions` with 3 connections, the ids 1 and 2, adoptable ids 1 to 3
and 1 retry; `CastPlazas` with 3 sessions and 2 plazas; connections and sessions
are interchangeable.

`components`: `HandlerLocks` with 2 players, 2 database threads and 3 handlers
begun, of the kinds `MatchStart`, `RoundsStart`, `Command`, `PlazaLeave`,
`AccountChanged`; `SessionSending` with 3 messages; `IpcLink` with 3 connections made; `MovementBatcher` with 2 players, ticks 0 to 2, entries
of 2 or 3 bytes in packets of 4, 2 samples of each player; `Heartbeat` with 4
pending challenges, 3 retries and 3 timers and calls under way when an answer
comes.

Why the bounds are enough.  *Rooms*: three players are the least with a host, a
player who leaves or is kicked and one who stays; a limit of 2 is reached and
passed, 3 is odd, has two teams of one and no seat for the third; teams that
can be more uneven need more players, and the theorems have any number.
`MaxObservers` is 10 in the code and 1 here so that it is reached.  Rooms of odd
limit and of parties are team rooms that bar nobody, the former without matches,
the latter without observers (`OneRoom`).  At most two players at once are
disconnected and not purged, barred, or in a party, one where the limit is odd;
and while somebody is barred or in a party nobody disconnects from a match
(`FewTroubles`): two late purges meet a match, a kick meets either, and the
theorems have none of these bounds.  Two rooms are needed only for moving
between rooms: the constraint `OneRoomOrTwoPlayers` takes the behaviours either
with one room and anybody in it, or with two rooms and one player beside the
staff.  *Sessions*: with two ids and four connections an id has an owner, a
former owner whose task is still to run and a next owner, and the generator runs
dry; on Cast three connections are the adopted one, the one in its way and the
one that is given a colliding id.  `MaxTries` is 10 in the code; one retry and
giving up are both reached with 1.  *Front*: of three logins of one account one
waits, one overtakes it, and one has the id of a login that has gone.  *Accounts*: two tasks overlap in every order
and a third follows when one is done; with 2-bit balances (`Word`, 2^32 in the
code) sales wrap the cached balance around and purchases compete for 3 points at
2 apiece; the limit of the inventory is passed by two purchases checked against
the same cache; the session id is used again by the same account while old tasks
run.  The goods sell at different prices so that mixing up serials shows.
*Match*: three players are the least with a majority that is not everybody; a
match can be ended, reopened and ended again, with two rounds on either side;
hits and rounds are explored while at most two players are around
(`HitsBetweenTwo`), votes and rewards with three.  *Locks*: a circle of two
needs two, and three threads on one account, the room and the map are more than
any pair of handlers locks in two orders.  *Sending*: two messages wait while
one is written.  *Heartbeat*: retries and pending
challenges are bounded as in the code; three timers are the current one, one
that was replaced and a call that sets the next.  *Link*: a third connection is made while the callback of the
first is still to come.  *Batcher*: a full packet is one entry of 3 bytes or two
of 2, so a flush takes one or two packets.  *Mirror*: three messages
are those of a whole `/break` or of a departure with the next room's first; the
same holds with two rooms and one breaker (3,633,249 states, not among the runs
for its length).  *Plazas*: a plaza with room for
one is full at once and others are looked for; on Cast three sessions are the
one that leaves last, the one that joins meanwhile and the one that makes the
plaza anew.  *Socials, mail*: every row and list is about two accounts; two
tasks overlap in every order, a third follows; a mail may be there from the start.
Nothing follows of `CastMirror` once every room has been broken by two at once
(`MirrorNext`), since nothing is said of such rooms.  The theorems of section 5
have none of these bounds, but for the numbers that the modules themselves count
up to.

`CHECK_DEADLOCK FALSE` is set where the system may stop: for the session
modules, where connections are accepted once; for `AccountUpdates`, where an
account whose balance has outgrown `Word` cannot be loaded any more; for `Match`,
`servers`, `cast` and `components`, whose counters (`MaxKills`, `MaxRounds`, `MaxAsked`,
`MaxLogins`, `MaxBegun`, `MaxSessions`, `MaxSamples`) run out, and whose
heartbeat is over once stopped.

### Fairness and liveness

Fairness is assumed where the code's scheduling gives it, and nowhere else.

* `HandlerLocks`: every thread that can take its next step does (weak).  Locks
  are not assumed to be fair.  `EveryoneReturns`: every handler begun ends.
* `SessionSending`: the strand runs what was posted to it, and a write that was
  started ends, well or badly (weak).  `EverythingSent`: what was accepted is
  sent, or the session's end is told.
* `IpcLink`: an attempt to connect ends, a timer that was set expires, and
  handlers that asio has queued run (weak).  Nothing is assumed of the peer.
  `Reconnects`: a peer that stays up is connected again.
* `Heartbeat`: timers fire, asio runs the handlers that are ready, and a client
  that has not fallen silent answers (weak).  `KeepsChallenging`: a session with
  no challenge pending gets another one.  `SilentIsDropped`: a client that falls
  silent while an answer is awaited is disconnected.
* `MovementBatcher`: the timer's flush comes again and again (weak).
  `LatestShown`: what a player has sent is shown, or something newer.

### Findings

* `match_over`.  `Room/Match/Leave.h:196` says "If no player is actively in the
  match anymore, the match is effectively over." and resets `is_playing`; when
  the last player in the match leaves the room or disconnects instead, while
  others wait in the lobby, nobody resets it.
* `ghost_account`.  `Core/Disconnect.h:24` of Main says "Unauthenticated
  sessions (probes, port scans, pre-auth drops) have no account entry."  A
  connection that drops between its login packet and the login's database task
  leaves an account under an id that has been freed; the next connection with
  the id has an account without having logged in.
* `probe`.  `Core/Disconnect.h:14` of Cast says the same of Cast.  The generator
  there hands out ids that sessions have already adopted; the connection that
  gets one is refused by `AddSession`, goes on all the same, and its disconnect
  removes the session and the account of the player who has the id.
* `postgres`.  `BaseLib/IDatabase.h:224` promises "a full account update
  transaction".  On PostgreSQL a charge that the account cannot pay touches no
  row, which nobody notices (`CPostgresDatabase.cpp:1019`), and the rest of the
  transaction is committed: of two purchases checked against the same cached
  balance both are delivered and one is paid.
* `lock_order`.  `Room/Match/Rounds/Start.h:30` says "every other path locks
  accounts first, so holding the room here while locking accounts would invert
  the order".  `MatchEnd` (`End.h:721`) visits the accounts of all players with
  the room locked, as do `Join`, `VotekickAgree` and the combat reports of Cast:
  a `MatchEnd` and a `MatchStart` of the same room wait for each other for good.
  `PlazaJoin` and `PlazaLeave` do the same with a plaza (`Plaza/Join.h:66`).
* `social_blocks`.  `Friends/Add.h:111` speaks of refusing a player who "tried to
  add player ({}) that already blocked him".  Lines 74 and 106 look in each list
  for the account whose list it is, which is never there; so nobody is refused,
  and the answer to an older request makes friends of a blocked player and the
  one who has blocked it.

## 5. Proofs

All theorems are of the form `Spec => ...`, or `MCSpec => ...` where several
components stand side by side, for any sets and numbers the modules' assumptions
allow (`ConstantsAssumption`, `MaxIdAssumption`, `NoneAssumption`,
`MaxTriesAssumption`, `FirstAssumption`; in `MCServers` `FrontAssumption`,
`PartiesAssumption`, `MirrorAssumption`, `PlazasAssumption`, `SocialsAssumption`,
`MailAssumption`; in `MCComponents` `PlayersAssumption`, `LinkAssumption`,
`HeartbeatAssumption`: sizes are naturals, there are finitely many players, a
challenge and a retry are allowed, `None` is not a player, a room, a party, an
account or a connection).  Every invariant and every action property that a passing run checks is the
statement of a theorem.  TLC has no counterexample to the larger inductive
invariants (`MirrorInv`, `FrontInv`, `MailInv`) on small instances either.

* `RoomMembershipProofs`: `TypeCorrect`, `ListedAreSeatedHolds`,
  `ListsFitModeHolds`, `NoStraysHolds`, `HostPresentHolds`.  The invariant
  `Agreement` is their conjunction with `HostSeated` in the place of
  `HostPresent`.  None of them is inductive alone: that a listed player is seated
  survives a departure only because the lists fit the mode (else the leaver's
  list would not be the one searched) and because a player between rooms is in
  none; that the host is present survives because the heir is taken from those
  listed, who are seated.

  On top of `Agreement` and `Vacated` (a room that is not live has no host and
  bars nobody): the action properties `KickedStayOutHolds`,
  `SeatedAreListedHolds`, `MatchKeepsItsHostHolds`, `TeamsWithinLimitsHolds` and
  `JoinsKeepTeamsEvenHolds`, for which `StepShape` first sorts every step into a
  departure, one of the handlers that seat players or hand over, or a step that
  leaves the seats alone.  `SeatedAreListedHolds` rests on `SeatLeft`: a room
  that is not full has a seat for whoever joins, unless its limit is odd, both
  teams have half of it and no observer fits (`OddSeatOnly`).  For
  `ImplementsLobby`, without any assumption on the limits, the lemmas on `seat`
  say what each kind of step does to the players with a seat: whoever was let in
  without is outside of the lobby, and enters it with the change of team that
  seats it.
* `SessionTableProofs`: what accepting does to the types of the table and the
  generator, shared by the next two.
* `MainSessionsProofs`: `TypeCorrect`, `FreshIdsHolds`,
  `OpenSessionsListedHolds`, `AccountsOwnedHolds`, `OwnKeyHolds`,
  `PurgeFindsAccountHolds`, from one invariant `IInv`.  Its heart is `Listed`
  with `EntersAlone`: as long as a session is open *or being purged* it is in the
  table under its id or alone on its way there.  Since an id is given back only
  by removing its session, nobody else can have the id while a task still names
  it.  `Counted` says that unused ids are those in the free list and those from
  the counter on.
* `CastProofs`: of the sessions `TypeCorrect`, `TableAgreesHolds`,
  `NeverDisplacedHolds`.  Little holds on Cast, as `probe` shows; these do,
  because every step under `m_sessions_mutex` looks at the places it writes.
  Of the plazas `EmptyGoesHolds`, inductive together with a plaza that is not in
  the cache having nobody in it (`GoneAreEmpty`), and on top of both
  `ListedInOwnPlazaHolds`, an action property: each step that puts a session into
  a list, or makes it forget a plaza, is looked at alone (`KnowingStep`).

* `AccountUpdatesProofs`: `TypeCorrect`, and `ImplementsAccountBook`, that with
  `Checked` the specification implements `AccountBook` (under
  `PricesAssumption`, `InitialAssumption`, `BoundsAssumption`).  The invariant
  is `Typed` with `Shaped`: a task carries the update of one request, so it has
  one of five shapes.  `CommitRefines` shows that what the transaction asks of
  the database at its own time (enough points, rows to delete, no row under a
  new serial) turns each shape into one action of the book.  Nothing need be
  known of the cache, which is why stale checks do no harm to the database;
  without `Checked` the purchase fails exactly at `Pays`.

  `ItemsAgreeHolds` (on either database) and `BalanceAgreesHolds` (with
  `Checked`, for a finite pool of tasks) say that what is cached of an account
  agrees with the database but for what the session's tasks have yet to tell
  it.  Both assume that `None` is neither an account nor a task
  (`NoneIsNothing`) and that the items in the database at the start carry
  serials of an earlier second (`InitialIsOld`).  The invariant `Traced` follows
  one serial of one account (`Whole`): it is bought by at most one task, nobody
  can ask to drop it before that task is over, and it moves first into the
  database and then into the cache, or out of them in that order; a serial is
  fresh when it is made, because what is recorded anywhere was made before
  (`Recorded`), and a task without its session can only touch an account that
  `behind` then marks (`Attached`, `Alone`).  `Balanced` adds that the cached
  balance is the database's less the sum of what is pending, modulo `Word`: a
  transaction moves an amount from the request into the sum, and the second step
  from the sum into the cache.  The sums are folds over finite sets; what is
  needed of them (`TotalSame`, `TotalWith`) is proved by a least counterexample
  from `WellFoundedInduction`, and the remainders from uniqueness of quotients.

* `MatchProofs`: `TypeCorrect`, `NobodyOverpaidHolds` (from `PlayersOwe`: who
  plays has been neither rewarded nor left out), `StatsMatchLogHolds` and
  `RoundsNumberedHolds` (inductive together: one operator empties both),
  `VoteHasTargetHolds`, and the action property `VotedOutIsOutHolds`.
* `ComponentsProofs`: `SentInOrderHolds`, from `SInv`: what is on the wire,
  in the queue is, put together, what was accepted, as long as nothing was given
  up, and the one write under way is of the queue's first message.
  `NeverBackwardsHolds`, from `BInv`: the tick sent last is never ahead of the one
  the room, or the flush under way, takes for the greatest, and a player's
  samples are shown, sent and collected in this order.

  `NobodyStuckHolds` is about handlers of the kinds in `AccountsFirst`, which take
  one account at a time and that before the room or the plaza.  `LockInv` says of every
  thread that what it holds and what its handler has still to do go together
  (`Fits`): whenever it will wait, it waits for something that ranks above all
  it holds by then, and in the end it holds nothing.  The ranks are not those of
  the locks alone.  A map is taken before an account (`CCache::get`) and looked up from
  under one, so to read it ranks high and to write it low; who holds it for
  reading ranks low, since readers let each other in.  Of threads that wait in a circle the one
  whose rank is highest would wait for one that ranks higher.  The loops over the
  players are of any length: the handlers that fit alone fit one after the other
  (`ConcatFits`), and for `FlattenSeq` that follows by a least counterexample.
  The other kinds of `HandlerLocks` take an account inside the room or the plaza,
  or two accounts, and `lock_order` shows what comes of it.

  The liveness properties have a safety part that is proved:
  `LinkNotGivenUpHolds` (servers that are not connected have an attempt, a
  timer or a callback under way, although late callbacks clear the mark of
  attempts that are not theirs), `ChallengeDueHolds` and `TimeoutDueHolds` (a
  session without pending challenges has the next one coming, one whose answer
  is awaited a timeout, whichever timers were replaced).  With them, what is left
  to fairness is that what is under way happens.
* `ServersProofs` has a part for each component of `MCServers`, with an
  inductive invariant and a theorem that it holds whichever component runs.
  `TypesOKHolds` puts the types together.
  * *Parties*: `LeaderIsListedHolds` and `OwnPartyListsMeHolds`, from `PartyInv`,
    which adds `PartyIds`: an id is free, of a party that is there, or about to be
    given back, and a party on its way out is still there.  What `std::erase`
    leaves of a list (`WithoutElements`) is proved for `Lists!Without` by a least
    counterexample (`LeastNatural`), here as well as for plazas.
  * *Plazas*: `InPlazaIsListedHolds`; the property is inductive with the types.
  * *Friends*: `OneSidedBlockHolds`, with `TasksOfTwo`: a task is about two
    players, never about one and the same.
  * *Mails*: `NoMailMissingHolds`, from `MailInv`.  A mail that its receiver has
    not deleted is in the cache, is on its way there with the task that sends it,
    its receiver is offline or has read it from the database, or it has no text
    and is not cached (`Seen`); and what is cached is listed (`CachedIsListed`).
    For this to be kept, whatever is known of the mail elsewhere must name the
    same receiver (`SameReceiver`) and must not have it deleted (`NotDeleted`), and
    nothing may be known of a mail before its row is there (`UnsentUnknown`).
  * *Cast's rooms*: `RoomsMirroredHolds`, from `MirrorInv`.  Its heart is
    `ToldOfRooms`: what Cast has of a room, changed by the messages on the link
    in their order, is what Main has, whether or not there are any on the way.
    Of the messages that decide a question the last one counts, so `WillExist`,
    `WillList`, `WillPlay` and `StillPlays` each look for the last; a message
    sent adds one at the end, one received takes the first away.  Only while a room is
    erased and Cast not yet told is nothing claimed, and then the id is not
    free (`BreakOwnsRoom`).
  * *Logins on Front*: `NobodyBlocksHolds`, from `FrontInv`.  `WillEnd`
    claims more than the property, namely that something is coming for every
    login that waits, also for one whose session has gone: the session may be
    closed and its id be open again before the answer is there.  The rest says
    what Main's purge can rely on: an account that is online is so with the
    session that has logged in with it and whose account is cached, or is just
    being purged (`OnlineOwn`, `CachedFrom`, `PurgedClosed`).

Eight theorems state what no run checks beside them: `JoinsKeepTeamsEvenHolds`,
`PurgeFindsAccountHolds`, `VoteHasTargetHolds`, `NeverDisplacedHolds` (no
arrival and no adoption on Cast puts a session in the place of another),
`NobodyStuckHolds` (`lock_order` checks the same of all kinds of handlers, and
finds it violated), `LinkNotGivenUpHolds`, `ChallengeDueHolds` and `TimeoutDueHolds`.

Only model-checked: the liveness properties
(`EveryoneReturns`, `EverythingSent`, `Reconnects`, `LatestShown`,
`KeepsChallenging`, `SilentIsDropped`): liveness under fairness and ENABLED are
out of the prover's reach.  The library's induction theorems take
an operator and cannot be used; what is claimed of recursive functions here goes by
a least counterexample.  No module uses RECURSIVE operators.

## 6. What is not modelled

`PROJECT.json` lists every component with its reason.  In short:

* *Slots and the order of the lists*: no document says that slots are distinct
  or lists sorted, and the code does not keep them so.  *Other settings of a
  room*: one field each, on which nothing depends; the limit of players and the
  mode are in `RoomMembership`.
* *Login across Front, Main and Cast* is modelled in parts: Front's and the
  messages with Main in `FrontLogin`, the servers' halves in `MainSessions` and
  `CastSessions`; they are not composed, and a message that is lost with a
  broken connection between servers is not modelled.
* *Rate limits*: windows of wall-clock time on which nothing else depends.
  *Watchdog*: changes no state.
* *Cast's relay of the game*: packets forwarded; what comes back to Main is in
  `Match`.
* *Trades*: written and not registered.
* *Missions, battle pass, clans, chat, staff commands*: rows of the database and
  lists and arithmetic of one account.  *Reading a mail, gifts*: a mark on a mail,
  and mails with an item, whose purchase is in `AccountUpdates`.
* *Cryptography, packet layouts, SQL text, logging, vendored code*: no state
  that several steps share.

Also left out: `AdoptSid` with eviction, which no caller asks for; the window
inside a login task between caching the account and looking it up again.
