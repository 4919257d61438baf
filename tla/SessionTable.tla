---------------------------- MODULE SessionTable ----------------------------
(***************************************************************************)
(* CServer's table of sessions and the generator of their ids: what        *)
(* accepting a connection, RemoveSession and AdoptSid do.  MainSessions    *)
(* and CastSessions add what their servers do with sessions.               *)
(*                                                                         *)
(* Each of the three takes m_sessions_mutex for as long as one step here.  *)
(* Accepting takes it twice, first for an id and then to enter the table,  *)
(* and sends the greeting in between, which may already fail and close the *)
(* connection.                                                             *)
(***************************************************************************)
EXTENDS Integers

CONSTANTS
    Conn,       \* client connections, each accepted once
    MaxId,      \* the generator's m_max, the largest value of its counter's type
    None        \* no session

ASSUME MaxIdAssumption == MaxId \in Nat \ {0}
ASSUME NoneAssumption == None \notin Conn

Id == 1 .. MaxId

VARIABLES
    counter,    \* m_counter: ids below it have been handed out
    free,       \* m_freeList: ids given back
    table,      \* m_sessions: Id -> connection or None
    sid,        \* Conn -> m_sessionId, 0 before accepting
    socket,     \* Conn -> "new", "open" or "closed"
    entering    \* connections that have an id and are not yet in the table

tableVars == <<counter, free, table, sid, socket, entering>>

TableTypeOK ==
    /\ counter \in Id
    /\ free \subseteq Id
    /\ table \in [Id -> Conn \cup {None}]
    /\ sid \in [Conn -> 0 .. MaxId]
    /\ socket \in [Conn -> {"new", "open", "closed"}]
    /\ entering \subseteq Conn
    /\ \A c \in Conn : socket[c] = "open" \/ c \in entering => sid[c] \in Id

TableInit ==
    /\ counter = 1
    /\ free = {}
    /\ table = [id \in Id |-> None]
    /\ sid = [c \in Conn |-> 0]
    /\ socket = [c \in Conn |-> "new"]
    /\ entering = {}

-----------------------------------------------------------------------------
\* Defect: the counter runs over the end of its type.
NextIdsPastTheEnd == IF free # {} THEN free ELSE {counter} \cap Id

\* What getNext may return: any id given back, else the counter's next.
NextIds == IF free # {} THEN free ELSE IF counter < MaxId THEN {counter} ELSE {}

\* AcceptSessions up to the greeting; no id, no session.
Accept(c) ==
    /\ socket[c] = "new"
    /\ \E id \in NextIds :
          /\ sid' = [sid EXCEPT ![c] = id]
          /\ free' = free \ {id}
          /\ counter' = IF free = {} THEN (counter + 1) % (MaxId + 1) ELSE counter
    /\ socket' = [socket EXCEPT ![c] = "open"]
    /\ entering' = entering \cup {c}
    /\ UNCHANGED table

Refuse(c) ==
    /\ socket[c] = "new" /\ NextIds = {}
    /\ socket' = [socket EXCEPT ![c] = "closed"]
    /\ UNCHANGED <<counter, free, table, sid, entering>>

\* AddSession's table: with a session of that id there it stays as it is.
Added(c) == IF table[sid[c]] = None THEN [table EXCEPT ![sid[c]] = c] ELSE table

\* The rest of AcceptSessions; the result of AddSession is not looked at.
Enter(c) ==
    /\ c \in entering
    /\ entering' = entering \ {c}
    /\ table' = Added(c)
    /\ UNCHANGED <<counter, free, sid, socket>>

\* Reading has begun and the socket is open.
Reading(c) == socket[c] = "open" /\ c \notin entering

\* Handlers of c run.  Packets that came in one read are handled even when one
\* of them has closed the session; how many is left open.
Handling(c) == sid[c] # 0 /\ c \notin entering

\* CSession::Disconnect closes a socket once.
Close(c) ==
    /\ socket[c] = "open"
    /\ socket' = [socket EXCEPT ![c] = "closed"]

\* Defect: the id goes back whether or not there was such a session.
FreedByAlways(id) == {id}

\* The ids that RemoveSession(id) gives back.
FreedBy(id) == IF table[id] = None THEN {} ELSE {id}

RemoveSession(id) ==
    /\ table' = [table EXCEPT ![id] = None]
    /\ free' = free \cup FreedBy(id)

\* Nothing moves: the other steps of a server.
Still == UNCHANGED tableVars

-----------------------------------------------------------------------------
\* A session in the table carries the id it is found under, so it is there
\* once, through every accept, adoption and removal.
TableAgrees == \A id \in Id : table[id] # None => sid[table[id]] = id

\* No step puts one session in the place of another: a new or adopted session
\* never displaces one that has the id.
NeverDisplaced ==
    [][\A id \in Id : table[id] # None => table'[id] \in {table[id], None}]_table
=============================================================================
