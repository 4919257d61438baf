---------------------------- MODULE MainSessions ----------------------------
(***************************************************************************)
(* Sessions of the Main server, the login keys they are greeted with and   *)
(* the accounts that CAccount caches, both filed under session ids.  A     *)
(* login is a packet handled on the session's strand, which uses up the    *)
(* key, and a task of the database pool that caches the account some time  *)
(* later; a disconnect is the closing of the socket on the strand and, if  *)
(* there is an account, a task that drops it and then the session.  Tasks  *)
(* of one session run in any order.                                        *)
(***************************************************************************)
EXTENDS SessionTable

VARIABLES
    channel,    \* g_secureChannels: Id -> the connection whose key it is, or None
    account,    \* CAccount: Id -> the connection that logged in, or None
    login,      \* Conn -> "none", or its login task's state: "queued", "done"
    leaving     \* Conn -> "no", or its purge task's state: "queued", "erased"

vars == <<tableVars, channel, account, login, leaving>>

TypeOK ==
    /\ TableTypeOK
    /\ channel \in [Id -> Conn \cup {None}]
    /\ account \in [Id -> Conn \cup {None}]
    /\ login \in [Conn -> {"none", "queued", "done"}]
    /\ leaving \in [Conn -> {"no", "queued", "erased"}]
    /\ \A c \in Conn : login[c] # "none" \/ leaving[c] # "no" => sid[c] \in Id

Init ==
    /\ TableInit
    /\ channel = [id \in Id |-> None]
    /\ account = [id \in Id |-> None]
    /\ login = [c \in Conn |-> "none"]
    /\ leaving = [c \in Conn |-> "no"]

-----------------------------------------------------------------------------
\* Accepting stores the key that the greeting tells the client.
Arrive(c) ==
    /\ \/ Accept(c) /\ channel' = [channel EXCEPT ![sid'[c]] = c]
       \/ (Refuse(c) \/ Enter(c)) /\ UNCHANGED channel
    /\ UNCHANGED <<account, login, leaving>>

\* Authorize on the strand takes the key filed under the session's id and
\* queues a task, unless the packet does not decrypt or its files do not
\* match.  Without a key, or refused, the session under this id is told to
\* disconnect, which it may do at any time.
Authorize(c, accepted) ==
    /\ Handling(c) /\ channel[sid[c]] # None
    /\ accepted => channel[sid[c]] = c
    /\ channel' = [channel EXCEPT ![sid[c]] = None]
    /\ login' = [login EXCEPT ![c] = IF accepted THEN "queued" ELSE @]
    /\ UNCHANGED account /\ UNCHANGED leaving /\ Still

\* The task: the database refuses the login (again a disconnect), or the
\* account is cached unless there is one under the id.  Nobody asks whether
\* the session is still there.
Login(c, found) ==
    /\ login[c] = "queued"
    /\ login' = [login EXCEPT ![c] = "done"]
    /\ account' = IF found /\ account[sid[c]] = None
                  THEN [account EXCEPT ![sid[c]] = c] ELSE account
    /\ UNCHANGED channel /\ UNCHANGED leaving /\ Still

\* Defect: the session goes before its account, as on the Cast server.
DisconnectAtOnce(c) ==
    /\ Close(c)
    /\ channel' = [channel EXCEPT ![sid[c]] = None]
    /\ RemoveSession(sid[c])
    /\ leaving' = [leaving EXCEPT ![c] = IF account[sid[c]] = None THEN "no" ELSE "queued"]
    /\ UNCHANGED <<counter, sid, entering, account, login>>

\* ServerDisconnect: the key is dropped; without an account the session goes
\* at once, else a task is queued.  (A cached account has an index, and the two
\* updates it asks for cannot fail to validate.)
Disconnect(c) ==
    /\ Close(c)
    /\ channel' = [channel EXCEPT ![sid[c]] = None]
    /\ IF account[sid[c]] = None
       THEN RemoveSession(sid[c]) /\ UNCHANGED leaving
       ELSE leaving' = [leaving EXCEPT ![c] = "queued"] /\ UNCHANGED <<table, free>>
    /\ UNCHANGED <<counter, sid, entering, account, login>>

\* The purge task leaves clan, room and party (the room in RoomMembership),
\* drops the account, and a while later the session.
PurgeAccount(c) ==
    /\ leaving[c] = "queued"
    /\ leaving' = [leaving EXCEPT ![c] = "erased"]
    /\ account' = [account EXCEPT ![sid[c]] = None]
    /\ UNCHANGED channel /\ UNCHANGED login /\ Still

PurgeSession(c) ==
    /\ leaving[c] = "erased"
    /\ leaving' = [leaving EXCEPT ![c] = "no"]
    /\ RemoveSession(sid[c])
    /\ UNCHANGED <<counter, sid, socket, entering, channel, account, login>>

Next ==
    \E c \in Conn :
        \/ Arrive(c) \/ Disconnect(c) \/ PurgeAccount(c) \/ PurgeSession(c)
        \/ \E accepted \in BOOLEAN : Authorize(c, accepted)
        \/ \E found \in BOOLEAN : Login(c, found)

Spec == Init /\ [][Next]_vars

-----------------------------------------------------------------------------
\* An id that can be handed out belongs to no session, and no two sessions
\* have one id: AddSession never refuses a new session, although nobody would
\* notice.
FreshIds ==
    /\ \A id \in NextIds : table[id] = None /\ \A c \in entering : sid[c] # id
    /\ \A c \in entering : table[sid[c]] = None
    /\ \A c, d \in entering : sid[c] = sid[d] => c = d

\* Whoever looks an open session up by its id finds it: disconnects and purges
\* only ever remove the session they are about, although they name it by an id
\* that may have had other owners.
OpenSessionsListed == \A c \in Conn : Reading(c) => table[sid[c]] = c

\* An account is cached under the id of the session that logged in, and for
\* as long as that session is open or being purged, the id leads to it.
AccountsOwned ==
    \A id \in Id : LET c == account[id]
                   IN  c # None =>
                          /\ sid[c] = id
                          /\ socket[c] = "open" \/ leaving[c] # "no" => table[id] = c

\* A login is decrypted with the key its session was greeted with, or not at
\* all: no key outlives its session under an id that others get.
OwnKey == \A c \in Conn : Reading(c) => channel[sid[c]] \in {c, None}

\* A purge finds an account under its id when it runs; it does not ask
\* (Core/Disconnect.h:85), and no second purge of the id can have come first.
PurgeFindsAccount == \A c \in Conn : leaving[c] = "queued" => account[sid[c]] # None

\* Core/Disconnect.h:24: sessions that have not logged in have no account
\* entry.
NoAccountWithoutLogin ==
    \A c \in Conn : Reading(c) /\ login[c] = "none" => account[sid[c]] = None
=============================================================================
