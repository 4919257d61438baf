------------------------------ MODULE Mailbox -------------------------------
(***************************************************************************)
(* Mails between accounts, on the Main server.  A mail is a row of the     *)
(* database; the server caches it (CMailboxData), and for each account the *)
(* list of the mails that it has sent and of those that it has received.   *)
(* Nothing of this cache goes with a session: it is filled by the logins   *)
(* of both accounts of a mail and by the tasks that send and delete mails, *)
(* which change the row first and the cache in a step of their own.        *)
(*                                                                         *)
(* Abstractions: of a text only whether there is one; gifts and what is    *)
(* read already; the limit of 100 mails; blocked senders (Socials);        *)
(* several mails deleted by one task.  A task that finds no account where  *)
(* its session's was goes by the account -1, Nobody here.                  *)
(***************************************************************************)
EXTENDS Naturals, FiniteSets

CONSTANTS
    Aid,        \* accounts
    Nobody,     \* -1, the account of a session that is gone
    None,       \* no such mail
    MaxMail,    \* bounds the mails, which have the ids 1 .. MaxMail
    MaxLogins,  \* bounds the logins
    MaxTasks    \* bounds the tasks that wait for the database

Mail == 1 .. MaxMail
Owner == Aid \cup {Nobody}

VARIABLES
    row,        \* player_mailbox
    last,       \* the last id that the database has given to a mail
    data,       \* CMailboxData
    sent,       \* CMailSent: how often a mail is in its account's list
    recv,       \* CMailRecv
    online,     \* accounts that have a session
    loaded,     \* what a login has read: a part of the table
    loading,    \* the accounts whose login is under way
    logins,     \* how many logins there were
    tasks       \* what is submitted to the database

cache == <<data, sent, recv>>
login == <<online, loaded, loading, logins>>
vars  == <<row, last, cache, login, tasks>>

\* A mail, whether its text is not empty, and which of the two have deleted it.
MailRow == [from : Owner, to : Aid, text : BOOLEAN, deletedFrom : SUBSET {"sender", "receiver"}]
Table == [Mail -> MailRow \cup {None}]
Task == [op : {"send", "delete"}, by : Aid, to : Aid, text : BOOLEAN, mail : Mail \cup {0},
         side : {"sender", "receiver"}, at : {"database", "cache"}, here : BOOLEAN]

Empty == [m \in Mail |-> None]
NoMail == [m \in Mail |-> 0]

TypeOK ==
    /\ row \in Table /\ data \in Table /\ loaded \in [Aid -> Table]
    /\ last \in 0 .. MaxMail /\ logins \in 0 .. MaxLogins
    /\ sent \in [Owner -> [Mail -> Nat]] /\ recv \in [Aid -> [Mail -> Nat]]
    /\ online \subseteq Aid /\ loading \subseteq Aid \ online
    /\ tasks \subseteq Task

\* What the database may hold when the server starts: mails that not both have deleted.
Stored == {r \in MailRow : r.from \in Aid \ {r.to} /\ r.deletedFrom # {"sender", "receiver"}}

Init ==
    /\ last \in 0 .. MaxMail
    /\ row \in {table \in [Mail -> Stored \cup {None}] : \A m \in Mail : m > last => table[m] = None}
    /\ data = Empty /\ tasks = {}
    /\ sent = [a \in Owner |-> NoMail] /\ recv = [a \in Aid |-> NoMail]
    /\ online = {} /\ loading = {} /\ loaded = [a \in Aid |-> Empty] /\ logins = 0

There(table) == {m \in Mail : table[m] # None}

-----------------------------------------------------------------------------
\* Sessions.

\* A login reads the mails that its account has sent or received ...
Load(a) ==
    /\ a \notin online \cup loading /\ logins < MaxLogins
    /\ logins' = logins + 1 /\ loading' = loading \cup {a}
    /\ loaded' = [loaded EXCEPT ![a] =
          [m \in Mail |-> IF m \in There(row) /\ a \in {row[m].from, row[m].to} THEN row[m] ELSE None]]
    /\ UNCHANGED <<row, last, cache, online, tasks>>

\* How often the mails are listed, when those of "more" are added once more.
Added(counts, more) == [m \in Mail |-> IF m \in more THEN counts[m] + 1 ELSE counts[m]]

\* The data of mails, with those that were not there yet.
Cached(table) == [m \in Mail |-> IF data[m] = None THEN table[m] ELSE data[m]]

\* ... and adds them to the cache, to the lists of either account.
Login(a) ==
    LET kept(side) == {m \in There(loaded[a]) : side \notin loaded[a][m].deletedFrom}
        of(b, side) == {m \in kept(side) : b = IF side = "sender" THEN loaded[a][m].from ELSE loaded[a][m].to}
    IN  /\ a \in loading
        /\ loading' = loading \ {a} /\ online' = online \cup {a}
        /\ data' = Cached(loaded[a])
        /\ sent' = [b \in Owner |-> Added(sent[b], of(b, "sender"))]
        /\ recv' = [b \in Aid |-> Added(recv[b], of(b, "receiver"))]
        /\ loaded' = [loaded EXCEPT ![a] = Empty]
        /\ UNCHANGED <<row, last, logins, tasks>>

Logoff(a) ==
    /\ a \in online /\ online' = online \ {a}
    /\ tasks' = {[t EXCEPT !.here = @ /\ t.by # a] : t \in tasks}
    /\ UNCHANGED <<row, last, cache, loaded, loading, logins>>

-----------------------------------------------------------------------------
\* Handlers.

Submit(t) ==
    /\ Cardinality(tasks) < MaxTasks /\ tasks' = tasks \cup {t}
    /\ UNCHANGED <<row, last, cache, login>>

\* No handler asks for a text.
MailSend(a, b, text) ==
    /\ a \in online
    /\ Submit([op |-> "send", by |-> a, to |-> b, text |-> text, mail |-> 0, side |-> "sender",
               at |-> "database", here |-> TRUE])

\* The side on which the account deletes the mail goes by the cached data.
MailDelete(a, m) ==
    /\ a \in online /\ data[m] # None /\ a \in {data[m].from, data[m].to}
    /\ Submit([op |-> "delete", by |-> a, to |-> data[m].to, text |-> FALSE, mail |-> m,
               side |-> IF data[m].to = a THEN "receiver" ELSE "sender",
               at |-> "database", here |-> TRUE])

-----------------------------------------------------------------------------
\* Tasks: first the transaction of PersistMailboxPatches, which may fail ...

Moves(t, u) == tasks' = (tasks \ {t}) \cup {u}

InsertRow(t) ==
    /\ t.op = "send" /\ t.at = "database" /\ last < MaxMail
    /\ last' = last + 1
    /\ row' = [row EXCEPT ![last + 1] =
          [from |-> t.by, to |-> t.to, text |-> t.text, deletedFrom |-> {}]]
    /\ Moves(t, [t EXCEPT !.mail = last + 1, !.at = "cache"])
    /\ UNCHANGED <<cache, login>>

\* A row that the other has deleted goes.
DeleteRow(t) ==
    /\ t.op = "delete" /\ t.at = "database"
    /\ row' = [row EXCEPT ![t.mail] =
          IF @ = None \/ @.deletedFrom \ {t.side} # {} THEN None
          ELSE [@ EXCEPT !.deletedFrom = {t.side}]]
    /\ Moves(t, [t EXCEPT !.at = "cache"])
    /\ UNCHANGED <<last, cache, login>>

Fail(t) ==
    /\ t.at = "database" /\ tasks' = tasks \ {t}
    /\ UNCHANGED <<row, last, cache, login>>

\* ... then ApplyDatabaseUpdates, for the account that is there.
Actor(t) == IF t.here THEN t.by ELSE Nobody

\* Defect: a receiver who is offline is left to its login.
ListedIfOnline(t) == IF t.to \in online THEN {t.mail} ELSE {}

Delivered(t) == {t.mail}

Fresh(t) == [from |-> Actor(t), to |-> t.to, text |-> t.text, deletedFrom |-> {}]

\* InvalidMailInserts: a mail without a text, whose row is there by now, is not cached.
ApplySend(t) ==
    /\ t.op = "send" /\ t.at = "cache"
    /\ \/ /\ t.text
          /\ sent' = [sent EXCEPT ![Actor(t)] = Added(@, {t.mail})]
          /\ recv' = [recv EXCEPT ![t.to] = Added(@, Delivered(t))]
          /\ data' = Cached([m \in Mail |-> IF m = t.mail THEN Fresh(t) ELSE None])
       \/ ~t.text /\ UNCHANGED cache
    /\ tasks' = tasks \ {t}
    /\ UNCHANGED <<row, last, login>>

ApplyDelete(t) ==
    LET m == t.mail
        side == IF data[m].to = Actor(t) THEN "receiver" ELSE "sender"
        gone == data[m].deletedFrom \cup {side}
    IN  /\ t.op = "delete" /\ t.at = "cache" /\ tasks' = tasks \ {t}
        /\ IF data[m] # None /\ Actor(t) \in {data[m].to, data[m].from}
           THEN /\ data' = [data EXCEPT ![m] =
                      IF gone = {"sender", "receiver"} THEN None ELSE [@ EXCEPT !.deletedFrom = gone]]
                /\ IF side = "receiver"
                   THEN recv' = [recv EXCEPT ![Actor(t)][m] = 0] /\ UNCHANGED sent
                   ELSE sent' = [sent EXCEPT ![Actor(t)][m] = 0] /\ UNCHANGED recv
           ELSE UNCHANGED cache
        /\ UNCHANGED <<row, last, login>>

Next ==
    \/ \E a \in Aid : Load(a) \/ Login(a) \/ Logoff(a)
    \/ \E a \in Aid : \E b \in Aid \ {a}, text \in BOOLEAN : MailSend(a, b, text)
    \/ \E a \in Aid : \E m \in Mail : MailDelete(a, m)
    \/ \E t \in tasks : InsertRow(t) \/ DeleteRow(t) \/ Fail(t) \/ ApplySend(t) \/ ApplyDelete(t)

Spec == Init /\ [][Next]_vars

-----------------------------------------------------------------------------
\* A player who is online can see every mail that it has received and not deleted,
\* but for one whose sender's task is between the database and the cache: also one that
\* was sent while its login was under way, or while it was away.  A mail without a text
\* is held back until a login of its sender or its receiver caches it; from then on it is
\* seen like any other (Authorize.h, ApplyDatabaseUpdates).
NoMailMissing ==
    \A m \in There(row) :
        /\ row[m].to \in online /\ "receiver" \notin row[m].deletedFrom
        /\ row[m].text \/ data[m] # None
        => \/ recv[row[m].to][m] > 0 /\ data[m] # None
           \/ \E t \in tasks : t.op = "send" /\ t.mail = m
=============================================================================
