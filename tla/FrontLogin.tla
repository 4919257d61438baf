----------------------------- MODULE FrontLogin -----------------------------
(***************************************************************************)
(* A player's way through the Front server: a login, or a second one with  *)
(* the one-time password, is entered in Front's CAccount and reported to   *)
(* Main, which says whether the account is online there or disconnects the *)
(* player who is.  Tasks of the database pool, the handlers of Main's and  *)
(* Front's messages, and disconnects run beside each other, and the        *)
(* answers name the login by its session's id, which others may have by    *)
(* then, and by its account.                                               *)
(*                                                                         *)
(* Abstractions: an account keeps one key; a session has one task at a     *)
(* time; the database finds every login it is asked for (what it refuses   *)
(* is answered at once and changes nothing); messages arrive, in any       *)
(* order; what Main does beside this is in MainSessions.                   *)
(***************************************************************************)
EXTENDS Naturals, FiniteSets

CONSTANTS
    Account, Id,    \* accounts, and ids of sessions on Front
    Player,         \* connections to Main
    MaxLogins,      \* how many logins on Front there are: a bound
    None

VARIABLES
    has2fa,     \* the accounts that log in with a one-time password
    open,       \* ids whose session Front's table has
    leaving,    \* Id -> how far the disconnect of its session has come
    task,       \* Id -> the database task of its session
    entry,      \* Front's CAccount: Account -> the id that logs in, or None
    state,      \* Account -> "asked", "told" or "lost": what became of the entry
    known,      \* CAuthKeys, by account
    dropping,   \* accounts that a handler is about to erase from CAccount
    logins,     \* how many logins there were
    toMain, toFront     \* messages under way

front == <<has2fa, open, leaving, task, entry, state, known, dropping, logins>>

VARIABLES
    socket,     \* Player -> "out", "open", "closed"
    aid,        \* Player -> the account of the connection
    login,      \* Player -> "none", its login task "queued" or "done"
    cached,     \* Main's CAccount: the players with an account there
    online,     \* CAidSid: Account -> the player
    frontSid,   \* Player -> front_sid if multiple_accs_logged_in is set, or None
    reported,   \* Player -> the same as the disconnect has read it
    purge       \* Player -> "no", its purge task "queued", the account "dropped"

main == <<socket, aid, login, cached, online, frontSid, reported, purge>>
vars == <<front, toMain, toFront, main>>

Staying == [at |-> "no", aid |-> None]
Idle    == [of |-> "nothing", aid |-> None, at |-> "idle"]

Message(kind, id, a) == [kind |-> kind, sid |-> id, aid |-> a]
Messages(kinds) == [kind : kinds, sid : Id, aid : Account]

TypeOK ==
    /\ has2fa \subseteq Account /\ open \subseteq Id
    /\ leaving \in [Id -> [at : {"no", "key", "session"}, aid : Account \cup {None}]]
    /\ task \in [Id -> [of : {"nothing", "Authorize", "Reconnect"}, aid : Account \cup {None},
                        at : {"idle", "key", "forget", "look", "evict", "insert"}]]
    /\ entry \in [Account -> Id \cup {None}]
    /\ state \in [Account -> {"asked", "told", "lost"}]
    /\ known \subseteq Account /\ dropping \subseteq Account /\ logins \in 0 .. MaxLogins
    /\ toMain \subseteq Messages({"TryLoginPlayer", "DisconnectPlayer"})
    /\ toFront \subseteq Messages({"AidOnline", "AidOffline", "AidDisconnected"})
    /\ socket \in [Player -> {"out", "open", "closed"}]
    /\ aid \in [Player -> Account \cup {None}]
    /\ login \in [Player -> {"none", "queued", "done"}]
    /\ cached \subseteq Player /\ online \in [Account -> Player \cup {None}]
    /\ frontSid \in [Player -> Id \cup {None}] /\ reported \in [Player -> Id \cup {None}]
    /\ purge \in [Player -> {"no", "queued", "dropped"}]

Init ==
    /\ has2fa \in SUBSET Account
    /\ open = {} /\ leaving = [i \in Id |-> Staying] /\ task = [i \in Id |-> Idle]
    /\ entry = [a \in Account |-> None] /\ state = [a \in Account |-> "told"]
    /\ known = {} /\ dropping = {} /\ logins = 0 /\ toMain = {} /\ toFront = {}
    /\ socket = [m \in Player |-> "out"] /\ aid = [m \in Player |-> None]
    /\ login = [m \in Player |-> "none"] /\ cached = {}
    /\ online = [a \in Account |-> None]
    /\ frontSid = [m \in Player |-> None] /\ reported = [m \in Player |-> None]
    /\ purge = [m \in Player |-> "no"]

-----------------------------------------------------------------------------
\* Sessions of Front.
Connect(i) ==
    /\ i \notin open /\ open' = open \cup {i}
    /\ UNCHANGED <<has2fa, logins, leaving, task, entry, state, known, dropping, toMain, toFront, main>>

\* ServerDisconnect: the entry of the session, its key, and the session itself.
Disconnect(i) ==
    /\ i \in open /\ leaving[i] = Staying
    /\ \/ /\ \A a \in Account : entry[a] # i
          /\ leaving' = [leaving EXCEPT ![i].at = "session"] /\ UNCHANGED entry
       \/ \E a \in Account :
             /\ entry[a] = i /\ entry' = [entry EXCEPT ![a] = None]
             /\ leaving' = [leaving EXCEPT ![i] = [at |-> "key", aid |-> a]]
    /\ UNCHANGED <<has2fa, logins, open, task, state, known, dropping, toMain, toFront, main>>

EraseKey(i) ==
    /\ leaving[i].at = "key"
    /\ known' = known \ {leaving[i].aid}
    /\ leaving' = [leaving EXCEPT ![i] = [at |-> "session", aid |-> None]]
    /\ UNCHANGED <<has2fa, logins, open, task, entry, state, dropping, toMain, toFront, main>>

RemoveSession(i) ==
    /\ leaving[i].at = "session" /\ open' = open \ {i}
    /\ leaving' = [leaving EXCEPT ![i] = Staying]
    /\ UNCHANGED <<has2fa, logins, task, entry, state, known, dropping, toMain, toFront, main>>

-----------------------------------------------------------------------------
\* Logins on Front, each a task.
Submit(i, of, a, at) ==
    /\ i \in open /\ leaving[i] = Staying /\ task[i] = Idle
    /\ logins < MaxLogins /\ logins' = logins + 1
    /\ task' = [task EXCEPT ![i] = [of |-> of, aid |-> a, at |-> at]]
    /\ UNCHANGED <<has2fa, open, leaving, entry, state, known, dropping, toMain, toFront, main>>

Authorize(i, a) == Submit(i, "Authorize", a, "look")
Reconnect(i, a) == a \in has2fa /\ Submit(i, "Reconnect", a, "key")

GoesTo(i, at) == task' = [task EXCEPT ![i] = IF at = "idle" THEN Idle ELSE [@ EXCEPT !.at = at]]

\* Reconnect with a key that is known: its login is over only if its session
\* has gone.
CheckKey(i) ==
    LET a == task[i].aid
    IN  /\ task[i].at = "key"
        /\ \/ a \notin known /\ GoesTo(i, "look") /\ UNCHANGED entry
           \/ a \in known /\ entry[a] \in open \cup {None} /\ GoesTo(i, "idle") /\ UNCHANGED entry
           \/ /\ a \in known /\ entry[a] \notin open \cup {None}
              /\ entry' = [entry EXCEPT ![a] = None] /\ GoesTo(i, "forget")
        /\ UNCHANGED <<has2fa, logins, open, leaving, state, known, dropping, toMain, toFront, main>>

Forget(i) ==
    /\ task[i].at = "forget" /\ known' = known \ {task[i].aid} /\ GoesTo(i, "look")
    /\ UNCHANGED <<has2fa, logins, open, leaving, entry, state, dropping, toMain, toFront, main>>

\* Is the account logging in already?  Then this login ends without an answer,
\* unless the other's session has gone.
Look(i) ==
    LET other == entry[task[i].aid]
    IN  /\ task[i].at = "look"
        /\ GoesTo(i, IF other = None THEN "insert" ELSE IF other \in open THEN "idle" ELSE "evict")
        /\ UNCHANGED <<has2fa, logins, open, leaving, entry, state, known, dropping, toMain, toFront, main>>

Evict(i) ==
    LET a == task[i].aid
    IN  /\ task[i].at = "evict" /\ GoesTo(i, "insert")
        /\ known' = known \ {a} /\ entry' = [entry EXCEPT ![a] = None]
        /\ UNCHANGED <<has2fa, logins, open, leaving, state, dropping, toMain, toFront, main>>

\* The mail address is not verified, or the password was wrong.
Refuse(i) ==
    /\ task[i].at = "insert" /\ GoesTo(i, "idle")
    /\ UNCHANGED <<has2fa, logins, open, leaving, entry, state, known, dropping, toMain, toFront, main>>

\* The entry is made and Main is asked, unless another login came first.
Insert(i) ==
    LET a == task[i].aid
        kind == IF task[i].of = "Authorize" THEN "TryLoginPlayer" ELSE "DisconnectPlayer"
    IN  /\ task[i].at = "insert" /\ GoesTo(i, "idle")
        /\ IF entry[a] = None
           THEN /\ entry' = [entry EXCEPT ![a] = i] /\ state' = [state EXCEPT ![a] = "asked"]
                /\ known' = known \cup {a}
                /\ toMain' = toMain \cup {Message(kind, i, a)}
           ELSE known' = known \ {a} /\ UNCHANGED <<entry, state, toMain>>
        /\ UNCHANGED <<has2fa, logins, open, leaving, dropping, toFront, main>>

-----------------------------------------------------------------------------
\* IpcFrontAidOnline on Main.
TryLoginPlayer(msg) ==
    /\ msg.kind = "TryLoginPlayer" /\ toMain' = toMain \ {msg}
    /\ toFront' = toFront \cup
          {[msg EXCEPT !.kind = IF online[msg.aid] # None THEN "AidOnline" ELSE "AidOffline"]}
    /\ UNCHANGED <<front, main>>

\* IpcFrontDisconnect on Main: whoever is online is marked and told to
\* disconnect; that the session may be closed already, or its account dropped,
\* is not noticed, and nobody will report to this login.
DisconnectPlayer(msg) ==
    LET m == online[msg.aid]
    IN  /\ msg.kind = "DisconnectPlayer"
        /\ \/ /\ m = None
              /\ toFront' = toFront \cup {[msg EXCEPT !.kind = "AidDisconnected"]}
              /\ UNCHANGED <<frontSid, state>>
           \/ /\ m # None
              /\ frontSid' = IF m \in cached THEN [frontSid EXCEPT ![m] = msg.sid] ELSE frontSid
              /\ state' = IF socket[m] = "closed" /\ entry[msg.aid] = msg.sid
                          THEN [state EXCEPT ![msg.aid] = "lost"] ELSE state
              /\ UNCHANGED toFront
        /\ toMain' = toMain \ {msg}
        /\ UNCHANGED <<has2fa, logins, open, leaving, task, entry, known, dropping>>
        /\ UNCHANGED <<socket, aid, login, cached, online, reported, purge>>

\* IpcMainAidOnline on Front: a login of an account with a one-time password is
\* told to send it, others succeed or wait for the disconnect; if the session
\* has gone, that was the answer.
AidOnline(msg) ==
    LET a == msg.aid
        there == msg.sid \in open
    IN  /\ msg.kind \in {"AidOnline", "AidOffline"}
        /\ toMain' = IF there /\ msg.kind = "AidOnline" /\ ~(a \in has2fa /\ entry[a] # None)
                     THEN toMain \cup {Message("DisconnectPlayer", msg.sid, a)} ELSE toMain
        /\ state' = IF entry[a] = msg.sid /\ (there => msg.kind = "AidOffline" /\ a \notin has2fa)
                    THEN [state EXCEPT ![a] = "told"] ELSE state
        /\ IF there /\ a \in has2fa /\ entry[a] # None
           THEN known' = known \ {a} /\ dropping' = dropping \cup {a}
           ELSE UNCHANGED <<known, dropping>>
        /\ toFront' = toFront \ {msg}
        /\ UNCHANGED <<has2fa, logins, open, leaving, task, entry, main>>

\* IpcMainDisconnect on Front: the login succeeds, if its session is there.
AidDisconnected(msg) ==
    /\ msg.kind = "AidDisconnected" /\ toFront' = toFront \ {msg}
    /\ IF entry[msg.aid] = None THEN UNCHANGED <<known, dropping>>
       ELSE known' = known \ {msg.aid} /\ dropping' = dropping \cup {msg.aid}
    /\ UNCHANGED <<has2fa, logins, open, leaving, task, entry, state, toMain, main>>

\* The end of both: the entry is erased, whosever it is by then.
Drop(a) ==
    /\ a \in dropping /\ dropping' = dropping \ {a}
    /\ entry' = [entry EXCEPT ![a] = None]
    /\ UNCHANGED <<has2fa, logins, open, leaving, task, state, known, toMain, toFront, main>>

-----------------------------------------------------------------------------
\* Connections of Main, as in MainSessions.
Arrive(m, a) ==
    /\ socket[m] = "out" /\ socket' = [socket EXCEPT ![m] = "open"]
    /\ aid' = [aid EXCEPT ![m] = a] /\ login' = [login EXCEPT ![m] = "queued"]
    /\ UNCHANGED <<front, toMain, toFront, cached, online, frontSid, reported, purge>>

Login(m) ==
    /\ login[m] = "queued" /\ login' = [login EXCEPT ![m] = "done"]
    /\ cached' = cached \cup {m}
    /\ online' = IF online[aid[m]] = None THEN [online EXCEPT ![aid[m]] = m] ELSE online
    /\ UNCHANGED <<front, toMain, toFront, socket, aid, frontSid, reported, purge>>

\* Defect: the mark is taken back before it is read.
ReportsNobody(m) == reported' = [reported EXCEPT ![m] = None]

ReportsTo(m) == reported' = [reported EXCEPT ![m] = frontSid[m]]

MainDisconnect(m) ==
    /\ socket[m] = "open" /\ socket' = [socket EXCEPT ![m] = "closed"]
    /\ IF m \in cached
       THEN /\ ReportsTo(m) /\ frontSid' = [frontSid EXCEPT ![m] = None]
            /\ purge' = [purge EXCEPT ![m] = "queued"]
       ELSE UNCHANGED <<reported, frontSid, purge>>
    /\ UNCHANGED <<front, toMain, toFront, aid, login, cached, online>>

DropAccount(m) ==
    /\ purge[m] = "queued" /\ purge' = [purge EXCEPT ![m] = "dropped"]
    /\ cached' = cached \ {m} /\ frontSid' = [frontSid EXCEPT ![m] = None]
    /\ UNCHANGED <<front, toMain, toFront, socket, aid, login, online, reported>>

\* CAidSid forgets the account, and Front is told of it.
DropAid(m) ==
    /\ purge[m] = "dropped" /\ purge' = [purge EXCEPT ![m] = "no"]
    /\ online' = [online EXCEPT ![aid[m]] = None]
    /\ toFront' = IF reported[m] = None THEN toFront
                  ELSE toFront \cup {Message("AidDisconnected", reported[m], aid[m])}
    /\ reported' = [reported EXCEPT ![m] = None]
    /\ socket' = [socket EXCEPT ![m] = IF login[m] = "done" THEN "out" ELSE @]
    /\ UNCHANGED <<front, toMain, aid, login, cached, frontSid>>

Next ==
    \/ \E i \in Id :
          \/ Connect(i) \/ Disconnect(i) \/ EraseKey(i) \/ RemoveSession(i)
          \/ CheckKey(i) \/ Forget(i) \/ Look(i) \/ Evict(i) \/ Refuse(i) \/ Insert(i)
          \/ \E a \in Account : Authorize(i, a) \/ Reconnect(i, a)
    \/ \E msg \in toMain : TryLoginPlayer(msg) \/ DisconnectPlayer(msg)
    \/ \E msg \in toFront : AidOnline(msg) \/ AidDisconnected(msg)
    \/ \E a \in Account : Drop(a)
    \/ \E m \in Player :
          \/ Login(m) \/ MainDisconnect(m) \/ DropAccount(m) \/ DropAid(m)
          \/ \E a \in Account : Arrive(m, a)

Spec == Init /\ [][Next]_vars

-----------------------------------------------------------------------------
\* Something is on its way that ends the login of the account: a message, the
\* handler that drops it, or a disconnect on Main that will be reported.
Coming(a) ==
    \/ \E msg \in toMain \cup toFront : msg.aid = a /\ msg.sid = entry[a]
    \/ \E msg \in toFront : msg.aid = a /\ msg.kind = "AidDisconnected"
    \/ a \in dropping
    \/ \E m \in Player :
          /\ aid[m] = a
          /\ \/ socket[m] = "open" /\ frontSid[m] # None
             \/ purge[m] # "no" /\ reported[m] # None

\* Front refuses all other logins of an account while one has an entry and an
\* open session.  Such a login has been answered or will be, or Main was asked
\* to disconnect a session that had been closed already: no overtaking, no
\* reuse of an id and no second login leaves an account blocked otherwise.
NobodyBlocks ==
    \A a \in Account : entry[a] \in open /\ state[a] = "asked" => Coming(a)
=============================================================================
