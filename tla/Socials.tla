------------------------------ MODULE Socials -------------------------------
(***************************************************************************)
(* Friends and blocked players of the Main server.  What an account is to  *)
(* another is a row of the database, and an entry of a list that its       *)
(* session loads at login.  A handler reads the lists and leaves a task,   *)
(* which changes the rows of both accounts in one transaction and then the *)
(* list of its own; the list of the other is changed by the end of a       *)
(* friendship alone, in a step after the transaction.                      *)
(*                                                                         *)
(* Abstractions: nicknames (an account that is offline is not found by     *)
(* its name: the row for account -1 fails, and nothing changes); the limit *)
(* of 100 friends; a task whose session has gone changes only the rows     *)
(* (another account that has its session's id by then is the concern of    *)
(* AccountUpdates); the list is there as soon as the account.  The         *)
(* transactions are MariaDB's, which locks the rows that a pair of them    *)
(* has in common.                                                          *)
(***************************************************************************)
EXTENDS Naturals, FiniteSets

CONSTANTS
    Aid,        \* accounts
    MaxTasks    \* tasks that wait for the database at a time

VARIABLES
    row,        \* player_socials: what Aid is to TargetAid, by the database
    loaded,     \* the rows of an account that a login has read
    loading,    \* the accounts whose login is under way
    online,     \* the accounts that have a session
    list,       \* CSocial, by the session's account
    shown,      \* those whose requests the session's player has been shown
    tasks       \* what is submitted to the database

vars == <<row, loaded, loading, online, list, shown, tasks>>

State == {"none", "accepted", "pending", "blocked"}
Nobody == [b \in Aid |-> "none"]
Task == [op : {"request", "accept", "remove", "block", "unblock", "forget"},
         by : Aid, of : Aid, here : BOOLEAN, seen : BOOLEAN]

TypeOK ==
    /\ row \in [Aid -> [Aid -> State]] /\ loaded \in [Aid -> [Aid -> State]]
    /\ loading \subseteq Aid \ online /\ online \subseteq Aid
    /\ list \in [Aid -> [Aid -> State]] /\ shown \in [Aid -> SUBSET Aid]
    /\ tasks \subseteq Task /\ Cardinality(tasks) <= MaxTasks

Init ==
    /\ row = [a \in Aid |-> Nobody] /\ loaded = row /\ list = row
    /\ loading = {} /\ online = {} /\ shown = [a \in Aid |-> {}] /\ tasks = {}

-----------------------------------------------------------------------------
\* Sessions.

\* A login reads the rows of its account ...
Load(a) ==
    /\ a \notin online \cup loading
    /\ loading' = loading \cup {a} /\ loaded' = [loaded EXCEPT ![a] = row[a]]
    /\ UNCHANGED <<row, online, list, shown, tasks>>

\* ... and shows the player those that are pending.
Login(a) ==
    /\ a \in loading
    /\ loading' = loading \ {a} /\ online' = online \cup {a}
    /\ list' = [list EXCEPT ![a] = loaded[a]]
    /\ shown' = [shown EXCEPT ![a] = {b \in Aid : loaded[a][b] = "pending"}]
    /\ UNCHANGED <<row, tasks>> /\ loaded' = [loaded EXCEPT ![a] = Nobody]

\* The session ends; its tasks go on without it, and what was to be shown to it is not.
Logoff(a) ==
    /\ a \in online /\ online' = online \ {a}
    /\ list' = [list EXCEPT ![a] = Nobody] /\ shown' = [shown EXCEPT ![a] = {}]
    /\ tasks' = {[t EXCEPT !.here = @ /\ t.by # a, !.seen = @ /\ t.of # a] : t \in tasks}
    /\ UNCHANGED <<row, loaded, loading>>

-----------------------------------------------------------------------------
\* Handlers: what they find in the lists, and the task they leave.

Submit(op, a, b) ==
    /\ Cardinality(tasks) < MaxTasks
    /\ tasks' = tasks \cup {[op |-> op, by |-> a, of |-> b, here |-> TRUE, seen |-> b \in online]}
    /\ UNCHANGED <<row, loaded, loading, online, list, shown>>

\* Whether a's request to b is refused: GetPlayerSocial asks each list for the
\* account whose list it is.
Refused(a, b) ==
    \/ list[a][a] \in {"blocked", "accepted"}
    \/ b \in online /\ list[b][b] # "none"

\* FriendsAdd, RequestSend.
FriendsRequest(a, b) ==
    /\ a \in online /\ b \in online /\ ~Refused(a, b)
    /\ Submit("request", a, b)

\* FriendsAdd, RequestRecv: the answer to a request that the player was shown.
FriendsAccept(a, b) ==
    /\ a \in online /\ b \in shown[a] /\ ~Refused(a, b)
    /\ Submit("accept", a, b)

FriendsRemove(a, b) ==
    /\ a \in online /\ list[a][b] = "accepted"
    /\ Submit("remove", a, b)

BlockedsAdd(a, b) ==
    /\ a \in online /\ b \in online
    /\ Submit("block", a, b)

BlockedsRemove(a, b) ==
    /\ a \in online /\ list[a][b] = "blocked"
    /\ Submit("unblock", a, b)

-----------------------------------------------------------------------------
\* Tasks.

Becomes(op) ==
    CASE op = "request" -> "pending" [] op = "accept" -> "accepted" [] op = "block" -> "blocked"
      [] OTHER -> "none"

\* Defect: only the row of the account itself is written.
OwnRow(t) == [row EXCEPT ![t.by][t.of] = Becomes(t.op)]

\* PersistPlayerSocialsPatches: whoever is accepted accepts as well; who is blocked
\* or removed loses the row the other way.
Rows(t) ==
    LET mirrored == IF t.op = "request" THEN row[t.of][t.by]
                    ELSE IF t.op = "accept" THEN "accepted" ELSE "none"
    IN  [row EXCEPT ![t.by][t.of] = Becomes(t.op), ![t.of][t.by] = mirrored]

\* UpdateAccount and ApplyDatabaseUpdates; then the other is told of a request.
Perform(t) ==
    /\ t \in tasks /\ t.op # "forget"
    /\ row' = Rows(t)
    /\ list' = IF t.here THEN [list EXCEPT ![t.by][t.of] = Becomes(t.op)] ELSE list
    /\ shown' = IF t.op = "request" /\ t.seen THEN [shown EXCEPT ![t.of] = @ \cup {t.by}] ELSE shown
    /\ tasks' = (tasks \ {t}) \cup IF t.op = "remove" THEN {[t EXCEPT !.op = "forget"]} ELSE {}
    /\ UNCHANGED <<loaded, loading, online>>

\* FriendsRemove, after the transaction: the list of the one who was a friend.
Forget(t) ==
    /\ t \in tasks /\ t.op = "forget"
    /\ list' = IF t.of \in online THEN [list EXCEPT ![t.of][t.by] = "none"] ELSE list
    /\ tasks' = tasks \ {t}
    /\ UNCHANGED <<row, loaded, loading, online, shown>>

\* The transaction fails and is rolled back.
Fail(t) ==
    /\ t \in tasks /\ t.op # "forget" /\ tasks' = tasks \ {t}
    /\ UNCHANGED <<row, loaded, loading, online, list, shown>>

Handlers ==
    \E a \in Aid : \E b \in Aid \ {a} :
        \/ FriendsRequest(a, b) \/ FriendsAccept(a, b) \/ FriendsRemove(a, b)
        \/ BlockedsAdd(a, b) \/ BlockedsRemove(a, b)

Next ==
    \/ \E a \in Aid : Load(a) \/ Login(a) \/ Logoff(a)
    \/ Handlers
    \/ \E t \in tasks : Perform(t) \/ Forget(t) \/ Fail(t)

Spec == Init /\ [][Next]_vars

-----------------------------------------------------------------------------
\* Whoever has blocked another is not that one's friend, and is not blocked by it,
\* in the database: whichever requests, answers and blocks of the two cross
\* (PersistPlayerSocialsPatches, which keeps a pair of rows in step).
OneSidedBlock ==
    \A a, b \in Aid : row[a][b] = "blocked" => row[b][a] \in {"none", "pending"}

\* Nobody ends another's block by a request or the answer to one: Friends/Add.h:111
\* refuses whoever "tried to add player that already blocked him".
BlocksOutlastRequests ==
    [][\A a, b \in Aid :
          row[a][b] = "blocked" /\ row'[a][b] # "blocked" =>
            ~\E t \in tasks : t.by # a /\ t.op \in {"request", "accept"} /\ Perform(t)]_vars
=============================================================================
