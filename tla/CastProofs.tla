----------------------------- MODULE CastProofs -----------------------------
(***************************************************************************)
(* Proofs about Cast's sessions, for any set of connections, range of ids  *)
(* and number of retries: what its table keeps although ids may collide.   *)
(* Then about Cast's plazas, for any sets of plazas and sessions: their    *)
(* lists and their end.                                                    *)
(***************************************************************************)
EXTENDS MCCast, SessionTableProofs

\* A connection that has not been accepted has no id, and is in no table.
NewHaveNoId == \A c \in Conn : socket[c] = "new" => sid[c] = 0

IInv == TypeOK /\ TableAgrees /\ NewHaveNoId

-----------------------------------------------------------------------------
LEMMA TypeStep == TypeOK /\ [Next]_vars => TypeOK'
<1> SUFFICES ASSUME TypeOK, [Next]_vars PROVE TypeOK'
  OBVIOUS
<1> USE DEF TypeOK
<1>1. ASSUME NEW c \in Conn, Arrive(c) PROVE TypeOK'
  BY <1>1, ArrivalTypes DEF Arrive
<1>2. ASSUME NEW c \in Conn, NEW new \in Id, NodeAuthorize(c, new) PROVE TypeOK'
  <2>1. sid[c] \in Id
    BY <1>2 DEF NodeAuthorize, Handling, TableTypeOK, Id
  <2>2. TableTypeOK' /\ UNCHANGED account /\ UNCHANGED leaving
    BY <1>2 DEF NodeAuthorize, Still, tableVars, TableTypeOK
  <2>3. request' = [request EXCEPT ![c] =
                       [request[c] EXCEPT !.at = "pending", !.old = sid[c], !.new = new]]
    BY <1>2 DEF NodeAuthorize
  <2>4. Id \subseteq 0 .. MaxId
    BY MaxIdAssumption DEF Id
  <2>5. request' \in [Conn -> Request]
    BY <2>1, <2>3, <2>4 DEF Request
  <2>6. \A d \in Conn : request'[d].at \in {"pending", "adopted"} => {request'[d].old, request'[d].new} \subseteq Id
    BY <2>1, <2>3 DEF Request
  <2> QED
    BY <2>2, <2>5, <2>6
<1>3. ASSUME NEW c \in Conn, AdoptSid(c) PROVE TypeOK'
  <2> DEFINE old == request[c].old
             new == request[c].new
  <2>1. request[c].at = "pending" /\ old \in Id /\ new \in Id
    BY <1>3 DEF AdoptSid
  <2>2. request' = [request EXCEPT ![c].at = "adopted"] /\ UNCHANGED account /\ UNCHANGED leaving
    BY <1>3 DEF AdoptSid
  <2>3. /\ request' \in [Conn -> Request]
        /\ \A d \in Conn : request'[d].at \in {"pending", "adopted"} => {request'[d].old, request'[d].new} \subseteq Id
    BY <2>1, <2>2 DEF Request
  <2>4. CASE old = new
    BY <2>2, <2>3, <2>4, <1>3 DEF AdoptSid, Still, tableVars, TableTypeOK
  <2>5. CASE old # new
    <3>1. /\ table' = [table EXCEPT ![old] = None, ![new] = table[old]]
          /\ sid' = [sid EXCEPT ![table[old]] = new]
          /\ free' = free \cup {old}
          /\ UNCHANGED <<counter, socket, entering>>
      BY <2>5, <1>3 DEF AdoptSid, Moved
    <3>2. Id \subseteq 0 .. MaxId
      BY MaxIdAssumption DEF Id
    <3>3. TableTypeOK'
      BY <2>1, <3>1, <3>2 DEF TableTypeOK
    <3> QED
      BY <2>2, <2>3, <3>3
  <2> QED
    BY <2>4, <2>5
<1>4. ASSUME NEW c \in Conn, Retry(c) PROVE TypeOK'
  <2>1. TableTypeOK' /\ UNCHANGED account /\ UNCHANGED leaving
    BY <1>4 DEF Retry, Still, tableVars, TableTypeOK
  <2>2. CASE MayRetry(c)
    <3>1. request' = [request EXCEPT ![c] = [request[c] EXCEPT !.tries = request[c].tries + 1]]
      BY <1>4, <2>2 DEF Retry
    <3>2. request[c].tries + 1 \in 0 .. MaxTries
      BY <2>2, MaxTriesAssumption DEF MayRetry, Request
    <3> QED
      BY <2>1, <3>1, <3>2 DEF Request
  <2>3. CASE ~MayRetry(c)
    <3>1. request' = [request EXCEPT ![c] = Unused("over")]
      BY <1>4, <2>3 DEF Retry
    <3> QED
      BY <2>1, <3>1, MaxIdAssumption, MaxTriesAssumption DEF Request, Unused
  <2> QED
    BY <2>2, <2>3
<1>5. ASSUME NEW c \in Conn, Install(c) PROVE TypeOK'
  BY <1>5, MaxIdAssumption, MaxTriesAssumption
  DEF Install, Still, tableVars, TableTypeOK, Request, Unused
<1>6. ASSUME NEW c \in Conn, Disconnect(c) PROVE TypeOK'
  <2>1. socket[c] = "open" /\ sid[c] \in Id
    BY <1>6 DEF Disconnect, Close, TableTypeOK
  <2>2. Id \subseteq 0 .. MaxId
    BY MaxIdAssumption DEF Id
  <2>3. TableTypeOK'
    BY <1>6, <2>1 DEF Disconnect, Close, TableTypeOK
  <2> QED
    BY <1>6, <2>1, <2>2, <2>3 DEF Disconnect, Leaving
<1>7. ASSUME NEW c \in Conn, DropSession(c) PROVE TypeOK'
  <2>1. TableTypeOK'
    BY <1>7 DEF DropSession, RemoveSession, FreedBy, TableTypeOK
  <2> QED
    BY <1>7, <2>1 DEF DropSession, Leaving
<1>8. ASSUME NEW c \in Conn, DropAccount(c) PROVE TypeOK'
  <2>1. TableTypeOK'
    BY <1>8 DEF DropAccount, Still, tableVars, TableTypeOK
  <2> QED
    BY <1>8, <2>1, MaxIdAssumption DEF DropAccount, Leaving, Staying
<1>9. CASE UNCHANGED vars
  BY <1>9 DEF vars, tableVars, TableTypeOK
<1> QED
  BY <1>1, <1>2, <1>3, <1>4, <1>5, <1>6, <1>7, <1>8, <1>9 DEF Next

-----------------------------------------------------------------------------
\* One step of the table: the sessions in it keep their ids or move with them,
\* and none is put in the place of another.
LEMMA TableStep ==
    ASSUME IInv, [Next]_vars
    PROVE  /\ TableAgrees' /\ NewHaveNoId'
           /\ \A id \in Id : table[id] # None => table'[id] \in {table[id], None}
<1> DEFINE Kept == /\ TableAgrees' /\ NewHaveNoId'
                   /\ \A id \in Id : table[id] # None => table'[id] \in {table[id], None}
<1> USE NoneAssumption DEF IInv
<1>1. \A id \in Id : table[id] \in Conn \cup {None}
  BY DEF TypeOK, TableTypeOK
<1>2. ASSUME UNCHANGED <<table, sid, socket>> PROVE Kept
  BY <1>2 DEF TableAgrees, NewHaveNoId
<1>3. ASSUME NEW c \in Conn, NEW id \in Id, RemoveSession(id), UNCHANGED <<sid, socket>> PROVE Kept
  <2>1. \A i \in Id : table'[i] = IF i = id THEN None ELSE table[i]
    BY <1>3 DEF RemoveSession, TypeOK, TableTypeOK
  <2> QED
    BY <2>1, <1>3 DEF TableAgrees, NewHaveNoId
<1>4. ASSUME NEW c \in Conn, Accept(c) PROVE Kept
  <2>1. PICK id \in NextIds : id \in Id /\ sid' = [sid EXCEPT ![c] = id]
    BY <1>4, AcceptTakes DEF TypeOK
  <2>2. socket[c] = "new" /\ socket' = [socket EXCEPT ![c] = "open"] /\ UNCHANGED table
    BY <1>4 DEF Accept
  <2>3. \A i \in Id : table[i] # c
    BY <2>2, MaxIdAssumption DEF TableAgrees, NewHaveNoId, Id
  <2> QED
    BY <2>1, <2>2, <2>3, <1>1 DEF TableAgrees, NewHaveNoId, TypeOK, TableTypeOK
<1>5. ASSUME NEW c \in Conn, Refuse(c) PROVE Kept
  BY <1>5 DEF Refuse, TableAgrees, NewHaveNoId, TypeOK, TableTypeOK
<1>6. ASSUME NEW c \in Conn, Enter(c) PROVE Kept
  <2>1. sid[c] \in Id /\ UNCHANGED <<sid, socket>>
    BY <1>6 DEF Enter, TypeOK, TableTypeOK
  <2>2. \A i \in Id : \/ table'[i] = table[i]
                      \/ table[i] = None /\ i = sid[c] /\ table'[i] = c
    BY <1>6, <2>1 DEF Enter, Added, TypeOK, TableTypeOK
  <2> QED
    BY <2>1, <2>2 DEF TableAgrees, NewHaveNoId
<1>7. ASSUME NEW c \in Conn, AdoptSid(c) PROVE Kept
  <2> DEFINE old == request[c].old
             new == request[c].new
  <2>1. request[c].at = "pending" /\ old \in Id /\ new \in Id /\ Adopts(old, new)
    BY <1>7 DEF AdoptSid, TypeOK
  <2>2. CASE old = new
    BY <2>2, <1>2, <1>7 DEF AdoptSid, Still, tableVars
  <2>3. CASE old # new
    <3>1. /\ table' = [table EXCEPT ![old] = None, ![new] = table[old]]
          /\ sid' = [sid EXCEPT ![table[old]] = new]
          /\ UNCHANGED socket
      BY <2>3, <1>7 DEF AdoptSid, Moved
    <3>2. table[old] \in Conn /\ table[new] = None
      BY <2>1, <2>3, <1>1 DEF Adopts
    <3>3. \A i \in Id : table'[i] = IF i = new THEN table[old] ELSE IF i = old THEN None ELSE table[i]
      BY <2>1, <2>3, <3>1 DEF TypeOK, TableTypeOK
    <3>4. \A d \in Conn : sid'[d] = IF d = table[old] THEN new ELSE sid[d]
      BY <3>1, <3>2 DEF TypeOK, TableTypeOK
    <3>5. \A i \in Id : i # old => table[i] # table[old]
      BY <2>1, <3>2 DEF TableAgrees
    <3>6. TableAgrees'
      BY <3>2, <3>3, <3>4, <3>5, <1>1 DEF TableAgrees
    <3>7. NewHaveNoId'
      <4>1. socket[table[old]] # "new"
        BY <2>1, <3>2, MaxIdAssumption DEF TableAgrees, NewHaveNoId, Id
      <4> QED
        BY <3>1, <3>4, <4>1 DEF NewHaveNoId
    <3> QED
      BY <3>2, <3>3, <3>6, <3>7
  <2> QED
    BY <2>2, <2>3
<1>8. ASSUME NEW c \in Conn, Disconnect(c) PROVE Kept
  BY <1>8 DEF Disconnect, Close, TableAgrees, NewHaveNoId, TypeOK, TableTypeOK
<1>9. ASSUME NEW c \in Conn, DropSession(c) PROVE Kept
  BY <1>3, <1>9 DEF DropSession, TypeOK
<1>10. ASSUME NEW c \in Conn, Retry(c) \/ Install(c) \/ DropAccount(c)
       PROVE  Kept
  BY <1>2, <1>10 DEF Retry, Install, DropAccount, Still, tableVars
<1>11. ASSUME NEW c \in Conn, NEW new \in Id, NodeAuthorize(c, new) PROVE Kept
  BY <1>2, <1>11 DEF NodeAuthorize, Still, tableVars
<1>12. CASE UNCHANGED vars
  BY <1>2, <1>12 DEF vars, tableVars
<1> QED
  BY <1>4, <1>5, <1>6, <1>7, <1>8, <1>9, <1>10, <1>11, <1>12 DEF Next, Arrive

-----------------------------------------------------------------------------
LEMMA InvInit == Init => IInv
<1> SUFFICES ASSUME Init PROVE IInv
  OBVIOUS
<1>1. TypeOK
  BY MaxIdAssumption, MaxTriesAssumption
  DEF Init, TableInit, TypeOK, TableTypeOK, Request, Leaving, Unused, Staying, Id
<1> QED
  BY <1>1 DEF IInv, Init, TableInit, TableAgrees, NewHaveNoId

THEOREM Invariance == Spec => []IInv
<1>1. IInv /\ [Next]_vars => IInv'
  BY TypeStep, TableStep DEF IInv
<1> QED
  BY InvInit, <1>1, PTL DEF Spec

\* Type correctness: pending answers name ids, and no answer is retried more
\* than MaxTries times (MainAuthorize.h:70).
THEOREM TypeCorrect == Spec => []TypeOK
<1>1. IInv => TypeOK
  BY DEF IInv
<1> QED
  BY <1>1, Invariance, PTL

\* A session is found under the id it carries and under no other, although
\* AdoptSid changes ids while disconnects, arrivals and other answers go on.
THEOREM TableAgreesHolds == Spec => []TableAgrees
<1>1. IInv => TableAgrees
  BY DEF IInv
<1> QED
  BY <1>1, Invariance, PTL

\* No step puts a session in the place of another.
THEOREM NeverDisplacedHolds == Spec => NeverDisplaced
<1>1. IInv /\ [Next]_vars =>
        [\A id \in Id : table[id] # None => table'[id] \in {table[id], None}]_table
  BY TableStep
<1> QED
  BY <1>1, Invariance, PTL DEF Spec, NeverDisplaced

-----------------------------------------------------------------------------
\* Plazas.  What a step of one session's handler reads of a plaza stays true
\* although others run, because of one more fact: a plaza that is not there has
\* an empty list.
GoneAreEmpty == \A q \in Plaza \ plazas : players[q] = {}

PlazaInv == Plazas!TypeOK /\ Plazas!EmptyGoes /\ GoneAreEmpty

\* A handler's new step is one, and the others' stay.
LEMMA StepTypes ==
    ASSUME Plazas!TypeOK, NEW s \in Conn, NEW q \in Plaza,
           NEW where \in {"idle", "adds", "makes", "joined", "moves", "erases"},
           step' = [step EXCEPT ![s] = Plazas!At(where, q)]
    PROVE  /\ step' \in [Conn -> [at : {"idle", "adds", "makes", "joined", "moves", "erases"},
                                  plaza : Plaza]]
           /\ step'[s].at = where /\ step'[s].plaza = q /\ step'[s] = Plazas!At(where, q)
           /\ \A o \in Conn \ {s} : step'[o] = step[o]
BY DEF Plazas!TypeOK, Plazas!At

LEMMA PlazasInit == Plazas!Init => PlazaInv
<1> SUFFICES ASSUME Plazas!Init PROVE PlazaInv
  OBVIOUS
<1>1. Plazas!TypeOK
  BY FirstAssumption DEF Plazas!Init, Plazas!TypeOK, Plazas!Idle, Plazas!At
<1> QED
  BY <1>1
  DEF PlazaInv, Plazas!Init, Plazas!EmptyGoes, GoneAreEmpty

\* Every empty plaza still has its eraser after a handler's step, if it was empty
\* before and had another.
LEMMA Moving ==
    ASSUME Plazas!TypeOK, Plazas!EmptyGoes, NEW s \in Conn, NEW q \in Plaza,
           NEW where \in {"idle", "adds", "makes", "joined", "moves", "erases"},
           step' = [step EXCEPT ![s] = Plazas!At(where, q)],
           \A p \in plazas' : players'[p] = {} =>
               p \in plazas /\ players[p] = {} /\ ~(step[s].at = "erases" /\ step[s].plaza = p)
    PROVE  Plazas!EmptyGoes'
<1> SUFFICES ASSUME NEW p \in plazas', players'[p] = {}
             PROVE  \E o \in Conn : step'[o] = Plazas!At("erases", p)
  BY DEF Plazas!EmptyGoes, Plazas!At
<1>1. PICK o \in Conn : step[o] = Plazas!At("erases", p)
  BY DEF Plazas!EmptyGoes
<1>2. o # s
  BY <1>1 DEF Plazas!At
<1>3. step'[o] = step[o]
  BY <1>2, StepTypes
<1> QED
  BY <1>1, <1>3

\* What taking a session out of a plaza does, whichever handler does it: the one
\* that leaves an empty plaza behind is the one that will erase it.
LEMMA TakingOut ==
    ASSUME PlazaInv, NEW s \in Conn, NEW q \in Plaza, step[s].at \in {"idle", "moves"},
           Plazas!TakeOut(s, q), plazas' = plazas
    PROVE  /\ players' = [p \in Plaza |-> IF p = q THEN players[p] \ {s} ELSE players[p]]
           /\ step' \in [Conn -> [at : {"idle", "adds", "makes", "joined", "moves", "erases"},
                                  plaza : Plaza]]
           /\ step'[s].at \in {"idle", "erases"}
           /\ \A o \in Conn \ {s} : step'[o] = step[o]
           /\ Plazas!EmptyGoes'
<1> USE DEF PlazaInv
<1>1. First \in Plaza
  BY FirstAssumption
<1>2. CASE q \notin plazas
  <2>1. step' = [step EXCEPT ![s] = Plazas!At("idle", First)] /\ players' = players
    BY <1>2 DEF Plazas!TakeOut, Plazas!Ends, Plazas!Idle
  <2>2. players[q] = {} /\ step[s].at # "erases"
    BY <1>2 DEF GoneAreEmpty
  <2>3. players' = [p \in Plaza |-> IF p = q THEN players[p] \ {s} ELSE players[p]]
    BY <2>1, <2>2 DEF Plazas!TypeOK
  <2>5. \A p \in plazas' : players'[p] = {} =>
            p \in plazas /\ players[p] = {} /\ ~(step[s].at = "erases" /\ step[s].plaza = p)
    BY <2>1, <2>2
  <2>4. Plazas!EmptyGoes'
    BY <1>1, <2>1, <2>5, Moving
  <2> QED
    BY <1>1, <2>1, <2>3, <2>4, StepTypes
<1>3. CASE q \in plazas /\ players[q] \ {s} = {}
  <2>1. /\ step' = [step EXCEPT ![s] = Plazas!At("erases", q)]
        /\ players' = [players EXCEPT ![q] = @ \ {s}]
    BY <1>3 DEF Plazas!TakeOut, Plazas!Goes, Plazas!Last
  <2>2. players' = [p \in Plaza |-> IF p = q THEN players[p] \ {s} ELSE players[p]]
    BY <2>1 DEF Plazas!TypeOK
  <2>3. Plazas!EmptyGoes'
    <3>1. SUFFICES ASSUME NEW p \in plazas, players'[p] = {}
                   PROVE  \E o \in Conn : step'[o] = Plazas!At("erases", p)
      BY DEF Plazas!EmptyGoes, Plazas!At
    <3>2. CASE p = q
      BY <2>1, <3>2, StepTypes
    <3>3. CASE p # q
      <4>1. PICK o \in Conn : step[o] = Plazas!At("erases", p)
        BY <2>2, <3>1, <3>3 DEF Plazas!EmptyGoes, Plazas!TypeOK
      <4>2. step'[o] = step[o]
        BY <2>1, <4>1 DEF Plazas!TypeOK, Plazas!At
      <4> QED
        BY <4>1, <4>2
    <3> QED
      BY <3>2, <3>3
  <2> QED
    BY <2>1, <2>2, <2>3, StepTypes
<1>4. CASE q \in plazas /\ players[q] \ {s} # {}
  <2>1. /\ step' = [step EXCEPT ![s] = Plazas!At("idle", First)]
        /\ players' = [players EXCEPT ![q] = @ \ {s}]
    BY <1>4 DEF Plazas!TakeOut, Plazas!Ends, Plazas!Idle, Plazas!Last
  <2>2. players' = [p \in Plaza |-> IF p = q THEN players[p] \ {s} ELSE players[p]]
    BY <2>1 DEF Plazas!TypeOK
  <2>5. \A p \in plazas' : players'[p] = {} =>
            p \in plazas /\ players[p] = {} /\ ~(step[s].at = "erases" /\ step[s].plaza = p)
    BY <1>4, <2>1, <2>2 DEF Plazas!TypeOK
  <2>6. step' = [step EXCEPT ![s] = Plazas!At("idle", First)]
    BY <2>1
  <2>3. Plazas!EmptyGoes'
    BY ONLY Plazas!TypeOK, Plazas!EmptyGoes, s \in Conn, <1>1, <2>6, <2>5, Moving
  <2> QED
    BY <1>1, <2>1, <2>2, <2>3, StepTypes
<1> QED
  BY <1>2, <1>3, <1>4

LEMMA PlazasStep == PlazaInv /\ [Plazas!Next]_inPlazas => PlazaInv'
<1> SUFFICES ASSUME PlazaInv, [Plazas!Next]_inPlazas PROVE PlazaInv'
  OBVIOUS
<1> USE DEF PlazaInv
<1>f. First \in Plaza
  BY FirstAssumption
<1>1. ASSUME NEW s \in Conn, Plazas!Authorised(s) PROVE PlazaInv'
  BY <1>1, <1>f
  DEF Plazas!Authorised, Plazas!TypeOK, Plazas!EmptyGoes, GoneAreEmpty, Plazas!Idle, Plazas!At
<1>2. ASSUME NEW s \in Conn, NEW q \in Plaza, Plazas!Look(s, q) PROVE PlazaInv'
  <2>1. PICK where \in {"adds", "makes"} : step' = [step EXCEPT ![s] = Plazas!At(where, q)]
    BY <1>2 DEF Plazas!Look, Plazas!Goes
  <2>2. step[s].at = "idle"
    BY <1>2 DEF Plazas!Look, Plazas!Idle, Plazas!At
  <2>3. /\ step' \in [Conn -> [at : {"idle", "adds", "makes", "joined", "moves", "erases"},
                               plaza : Plaza]]
        /\ step'[s].at = where /\ \A o \in Conn \ {s} : step'[o] = step[o]
    BY <2>1, StepTypes
  <2>4. Plazas!EmptyGoes'
    BY <1>2, <2>1, <2>2, Moving DEF Plazas!Look
  <2> QED
    BY <1>2, <2>2, <2>3, <2>4
    DEF Plazas!Look, Plazas!TypeOK, GoneAreEmpty
<1>3. ASSUME NEW s \in Conn, Plazas!Add(s) PROVE PlazaInv'
  <2> DEFINE q == step[s].plaza
  <2>1. q \in Plaza /\ step[s].at = "adds"
    BY <1>3 DEF Plazas!Add, Plazas!TypeOK
  <2>2. CASE q \in plazas /\ s \notin players[q]
    <3>1. /\ players' = [players EXCEPT ![q] = @ \cup {s}]
          /\ step' = [step EXCEPT ![s] = Plazas!At("joined", q)]
      BY <1>3, <2>2 DEF Plazas!Add, Plazas!Goes
    <3>2. /\ step' \in [Conn -> [at : {"idle", "adds", "makes", "joined", "moves", "erases"},
                                 plaza : Plaza]]
          /\ step'[s].at = "joined" /\ step'[s].plaza = q
          /\ \A o \in Conn \ {s} : step'[o] = step[o]
      BY <2>1, <3>1, StepTypes
    <3>4. \A p \in plazas' : players'[p] = {} =>
              p \in plazas /\ players[p] = {} /\ ~(step[s].at = "erases" /\ step[s].plaza = p)
      BY <1>3, <2>1, <3>1 DEF Plazas!Add, Plazas!TypeOK
    <3>3. Plazas!EmptyGoes'
      BY <2>1, <3>1, <3>4, Moving
    <3> QED
      BY <1>3, <2>1, <2>2, <3>1, <3>2, <3>3
      DEF Plazas!Add, Plazas!TypeOK, GoneAreEmpty
  <2>3. CASE ~(q \in plazas /\ s \notin players[q])
    <3>1. players' = players /\ step' = [step EXCEPT ![s] = Plazas!At("idle", First)]
      BY <1>3, <2>3 DEF Plazas!Add, Plazas!Ends, Plazas!Idle
    <3>2. /\ step' \in [Conn -> [at : {"idle", "adds", "makes", "joined", "moves", "erases"},
                                 plaza : Plaza]]
          /\ step'[s].at = "idle" /\ \A o \in Conn \ {s} : step'[o] = step[o]
      BY <1>f, <3>1, StepTypes
    <3>3. Plazas!EmptyGoes'
      BY <1>f, <1>3, <2>1, <3>1, Moving DEF Plazas!Add
    <3> QED
      BY <1>3, <2>1, <3>1, <3>2, <3>3
      DEF Plazas!Add, Plazas!TypeOK, GoneAreEmpty
  <2> QED
    BY <2>2, <2>3
<1>4. ASSUME NEW s \in Conn, Plazas!MakePlaza(s) PROVE PlazaInv'
  <2> DEFINE q == step[s].plaza
  <2>1. q \in Plaza /\ step[s].at = "makes"
    BY <1>4 DEF Plazas!MakePlaza, Plazas!TypeOK
  <2>2. step' = [step EXCEPT ![s] = Plazas!At("joined", q)]
    BY <1>4 DEF Plazas!MakePlaza, Plazas!Goes
  <2>3. /\ step' \in [Conn -> [at : {"idle", "adds", "makes", "joined", "moves", "erases"},
                               plaza : Plaza]]
        /\ step'[s].at = "joined" /\ step'[s].plaza = q
        /\ \A o \in Conn \ {s} : step'[o] = step[o]
    BY <2>1, <2>2, StepTypes
  <2>5. \A p \in plazas' : players'[p] = {} =>
            p \in plazas /\ players[p] = {} /\ ~(step[s].at = "erases" /\ step[s].plaza = p)
    BY <1>4, <2>1 DEF Plazas!MakePlaza, Plazas!TypeOK
  <2>4. Plazas!EmptyGoes'
    BY <2>1, <2>2, <2>5, Moving
  <2> QED
    BY <1>4, <2>1, <2>3, <2>4
    DEF Plazas!MakePlaza, Plazas!TypeOK, GoneAreEmpty
<1>5. ASSUME NEW s \in Conn, Plazas!TellAccount(s) PROVE PlazaInv'
  <2> DEFINE q == step[s].plaza
  <2>1. q \in Plaza /\ step[s].at = "joined" /\ plazaId[s] \in Plaza
    BY <1>5 DEF Plazas!TellAccount, Plazas!TypeOK
  <2>2. CASE s \in cached /\ Plazas!Moves(s, q)
    <3>1. /\ plazaId' = [plazaId EXCEPT ![s] = q] /\ inPlaza' = inPlaza \cup {s}
          /\ step' = [step EXCEPT ![s] = Plazas!At("moves", plazaId[s])]
      BY <1>5, <2>2 DEF Plazas!TellAccount, Plazas!Goes
    <3>2. /\ step' \in [Conn -> [at : {"idle", "adds", "makes", "joined", "moves", "erases"},
                                 plaza : Plaza]]
          /\ step'[s].at = "moves" /\ step'[s].plaza = plazaId[s]
          /\ \A o \in Conn \ {s} : step'[o] = step[o]
      BY <2>1, <3>1, StepTypes
    <3>3. Plazas!EmptyGoes'
      BY <1>5, <2>1, <3>1, Moving DEF Plazas!TellAccount
    <3> QED
      BY <1>5, <2>1, <2>2, <3>1, <3>2, <3>3
      DEF Plazas!TellAccount, Plazas!TypeOK, GoneAreEmpty
  <2>3. CASE s \in cached /\ ~Plazas!Moves(s, q)
    <3>1. /\ plazaId' = [plazaId EXCEPT ![s] = q] /\ inPlaza' = inPlaza \cup {s}
          /\ step' = [step EXCEPT ![s] = Plazas!At("idle", First)]
          /\ plazaId[s] = q
      BY <1>5, <2>3 DEF Plazas!TellAccount, Plazas!Ends, Plazas!Idle, Plazas!Moves
    <3>2. /\ step' \in [Conn -> [at : {"idle", "adds", "makes", "joined", "moves", "erases"},
                                 plaza : Plaza]]
          /\ step'[s].at = "idle" /\ \A o \in Conn \ {s} : step'[o] = step[o]
      BY <1>f, <3>1, StepTypes
    <3>3. Plazas!EmptyGoes'
      BY <1>f, <1>5, <2>1, <3>1, Moving DEF Plazas!TellAccount
    <3> QED
      BY <1>5, <2>1, <2>3, <3>1, <3>2, <3>3
      DEF Plazas!TellAccount, Plazas!TypeOK, GoneAreEmpty
  <2>4. CASE s \notin cached
    <3>1. /\ UNCHANGED <<plazaId, inPlaza>>
          /\ step' = [step EXCEPT ![s] = Plazas!At("idle", First)]
      BY <1>5, <2>4 DEF Plazas!TellAccount, Plazas!Ends, Plazas!Idle
    <3>2. /\ step' \in [Conn -> [at : {"idle", "adds", "makes", "joined", "moves", "erases"},
                                 plaza : Plaza]]
          /\ step'[s].at = "idle" /\ \A o \in Conn \ {s} : step'[o] = step[o]
      BY <1>f, <3>1, StepTypes
    <3>3. Plazas!EmptyGoes'
      BY <1>f, <1>5, <2>1, <3>1, Moving DEF Plazas!TellAccount
    <3> QED
      BY <1>5, <2>1, <2>4, <3>1, <3>2, <3>3
      DEF Plazas!TellAccount, Plazas!TypeOK, GoneAreEmpty
  <2> QED
    BY <2>2, <2>3, <2>4
<1>6. ASSUME NEW s \in Conn, Plazas!LeaveOld(s) PROVE PlazaInv'
  <2> DEFINE q == step[s].plaza
  <2>1. q \in Plaza /\ step[s].at = "moves" /\ plazas' = plazas /\ Plazas!TakeOut(s, q)
    BY <1>6 DEF Plazas!LeaveOld, Plazas!TypeOK
  <2>2. /\ players' = [p \in Plaza |-> IF p = q THEN players[p] \ {s} ELSE players[p]]
        /\ step' \in [Conn -> [at : {"idle", "adds", "makes", "joined", "moves", "erases"},
                               plaza : Plaza]]
        /\ \A o \in Conn \ {s} : step'[o] = step[o]
        /\ Plazas!EmptyGoes'
    BY <2>1, TakingOut
  <2> QED
    BY <1>6, <2>1, <2>2
    DEF Plazas!LeaveOld, Plazas!TypeOK, GoneAreEmpty
<1>7. ASSUME NEW s \in Conn, Plazas!Erase(s) PROVE PlazaInv'
  <2> DEFINE q == step[s].plaza
  <2>1. q \in Plaza /\ step[s].at = "erases"
    BY <1>7 DEF Plazas!Erase, Plazas!TypeOK
  <2>2. step' = [step EXCEPT ![s] = Plazas!At("idle", First)]
    BY <1>7 DEF Plazas!Erase, Plazas!Ends, Plazas!Idle
  <2>3. /\ step' \in [Conn -> [at : {"idle", "adds", "makes", "joined", "moves", "erases"},
                               plaza : Plaza]]
        /\ step'[s].at = "idle" /\ \A o \in Conn \ {s} : step'[o] = step[o]
    BY <1>f, <2>2, StepTypes
  <2>5. \A p \in plazas' : players'[p] = {} =>
            p \in plazas /\ players[p] = {} /\ ~(step[s].at = "erases" /\ step[s].plaza = p)
    BY <1>7, <2>1 DEF Plazas!Erase, Plazas!TypeOK
  <2>4. Plazas!EmptyGoes'
    BY <1>f, <2>2, <2>5, Moving
  <2> QED
    BY <1>7, <2>1, <2>3, <2>4
    DEF Plazas!Erase, Plazas!TypeOK, GoneAreEmpty
<1>8. ASSUME NEW s \in Conn, Plazas!Leave(s) PROVE PlazaInv'
  <2> DEFINE q == plazaId[s]
  <2>1. q \in Plaza /\ step[s].at = "idle" /\ plazas' = plazas /\ Plazas!TakeOut(s, q)
    BY <1>8 DEF Plazas!Leave, Plazas!TypeOK, Plazas!Idle, Plazas!At
  <2>2. /\ players' = [p \in Plaza |-> IF p = q THEN players[p] \ {s} ELSE players[p]]
        /\ step' \in [Conn -> [at : {"idle", "adds", "makes", "joined", "moves", "erases"},
                               plaza : Plaza]]
        /\ \A o \in Conn \ {s} : step'[o] = step[o]
        /\ Plazas!EmptyGoes'
    BY <2>1, TakingOut
  <2> QED
    BY <1>8, <2>1, <2>2
    DEF Plazas!Leave, Plazas!TypeOK, GoneAreEmpty
<1>9. ASSUME NEW s \in Conn, Plazas!Disconnect(s) PROVE PlazaInv'
  <2> DEFINE q == plazaId[s]
  <2>1. q \in Plaza /\ step[s].at = "idle" /\ plazas' = plazas
    BY <1>9 DEF Plazas!Disconnect, Plazas!TypeOK, Plazas!Idle, Plazas!At
  <2>2. CASE s \in inPlaza
    <3>1. /\ players' = [p \in Plaza |-> IF p = q THEN players[p] \ {s} ELSE players[p]]
          /\ step' \in [Conn -> [at : {"idle", "adds", "makes", "joined", "moves", "erases"},
                                 plaza : Plaza]]
          /\ \A o \in Conn \ {s} : step'[o] = step[o]
          /\ Plazas!EmptyGoes'
      BY <1>9, <2>1, <2>2, TakingOut DEF Plazas!Disconnect
    <3> QED
      BY <1>9, <2>1, <3>1
      DEF Plazas!Disconnect, Plazas!TypeOK, GoneAreEmpty
  <2>3. CASE s \notin inPlaza
    BY <1>9, <2>1, <2>3
    DEF Plazas!Disconnect, Plazas!TypeOK, Plazas!EmptyGoes, GoneAreEmpty
  <2> QED
    BY <2>2, <2>3
<1>10. CASE UNCHANGED inPlazas
  BY <1>10
  DEF inPlazas, Plazas!TypeOK, Plazas!EmptyGoes, GoneAreEmpty
<1> QED
  BY <1>1, <1>2, <1>3, <1>4, <1>5, <1>6, <1>7, <1>8, <1>9, <1>10 DEF Plazas!Next

THEOREM PlazasInvariance == MCSpec => []PlazaInv
<1>1. MCInit => PlazaInv
  BY PlazasInit DEF MCInit
<1>2. [SessionsNext \/ PlazasNext]_<<part, sessions, inPlazas>> => [Plazas!Next]_inPlazas
  BY DEF SessionsNext, PlazasNext, inPlazas
<1> QED
  BY <1>1, <1>2, PlazasStep, PTL DEF MCSpec

\* One step of a session's handler or of Main's answer: who is in a list afterwards
\* knows, or did not before, or has got or lacks an account.
LEMMA KnowingStep ==
    ASSUME PlazaInv, [Plazas!Next]_inPlazas, NEW q \in Plaza, NEW s \in players'[q],
           ~Plazas!Knows(s, q)', ~(s \in players[q] /\ ~Plazas!Knows(s, q)), s \in cached
    PROVE  Plazas!Authorised(s)
<1> USE DEF PlazaInv
<1>1. PICK o \in Conn : \/ \E p \in Plaza : Plazas!Look(o, p)
                        \/ Plazas!Authorised(o) \/ Plazas!Add(o) \/ Plazas!MakePlaza(o)
                        \/ Plazas!TellAccount(o) \/ Plazas!LeaveOld(o) \/ Plazas!Erase(o)
                        \/ Plazas!Leave(o) \/ Plazas!Disconnect(o)
  BY DEF Plazas!Next, inPlazas, Plazas!Knows
<1>2. ASSUME NEW p \in Plaza, Plazas!Look(o, p) PROVE FALSE
  BY <1>2 DEF Plazas!Look, Plazas!Goes, Plazas!Knows, Plazas!TypeOK, Plazas!Idle, Plazas!At
<1>3. CASE Plazas!Authorised(o)
  BY <1>3 DEF Plazas!Authorised, Plazas!Knows, Plazas!TypeOK
<1>4. CASE Plazas!Add(o)
  BY <1>4 DEF Plazas!Add, Plazas!Goes, Plazas!Ends, Plazas!Idle, Plazas!At, Plazas!Knows, Plazas!TypeOK
<1>5. CASE Plazas!MakePlaza(o)
  BY <1>5 DEF Plazas!MakePlaza, Plazas!Goes, Plazas!At, Plazas!Knows, Plazas!TypeOK
<1>6. CASE Plazas!TellAccount(o)
  BY <1>6 DEF Plazas!TellAccount, Plazas!Moves, Plazas!Goes, Plazas!Ends, Plazas!Idle, Plazas!At,
             Plazas!Knows, Plazas!TypeOK
<1>7. CASE Plazas!LeaveOld(o)
  <2>1. Plazas!TakeOut(o, step[o].plaza) /\ step[o].plaza \in Plaza /\ step[o].at = "moves"
    BY <1>7 DEF Plazas!LeaveOld, Plazas!TypeOK
  <2>2. /\ players' = [p \in Plaza |-> IF p = step[o].plaza THEN players[p] \ {o} ELSE players[p]]
        /\ \A c \in Conn \ {o} : step'[c] = step[c]
    BY <1>7, <2>1, TakingOut DEF Plazas!LeaveOld
  <2> QED
    BY <1>7, <2>1, <2>2 DEF Plazas!LeaveOld, Plazas!Knows, Plazas!TypeOK
<1>8. CASE Plazas!Erase(o)
  BY <1>8 DEF Plazas!Erase, Plazas!Ends, Plazas!Idle, Plazas!At, Plazas!Knows, Plazas!TypeOK
<1>9. CASE Plazas!Leave(o) \/ Plazas!Disconnect(o)
  <2>1. step[o].at = "idle" /\ plazaId[o] \in Plaza
    BY <1>9 DEF Plazas!Leave, Plazas!Disconnect, Plazas!TypeOK, Plazas!Idle, Plazas!At
  <2>2. CASE Plazas!TakeOut(o, plazaId[o])
    <3>1. /\ players' = [p \in Plaza |-> IF p = plazaId[o] THEN players[p] \ {o} ELSE players[p]]
          /\ \A c \in Conn \ {o} : step'[c] = step[c]
      BY <1>9, <2>1, <2>2, TakingOut DEF Plazas!Leave, Plazas!Disconnect
    <3> QED
      BY <1>9, <2>1, <3>1 DEF Plazas!Leave, Plazas!Disconnect, Plazas!Knows, Plazas!TypeOK
  <2>3. CASE o \notin inPlaza /\ UNCHANGED <<players, step>>
    BY <1>9, <2>3 DEF Plazas!Leave, Plazas!Disconnect, Plazas!Knows
  <2> QED
    BY <1>9, <2>2, <2>3 DEF Plazas!Leave, Plazas!Disconnect
<1> QED
  BY <1>1, <1>2, <1>3, <1>4, <1>5, <1>6, <1>7, <1>8, <1>9

\* Nobody gets into a plaza's list without knowing, except by a new account or for
\* want of one: between the look and the entry, and between the entry and the
\* account's update, no lock is held and others run.
THEOREM ListedInOwnPlazaHolds == MCSpec => ListedInOwnPlaza
<1>1. PlazaInv /\ [Plazas!Next]_inPlazas =>
        [\A q \in Plaza : \A s \in players'[q] :
           ~Plazas!Knows(s, q)' => \/ s \in players[q] /\ ~Plazas!Knows(s, q)
                                  \/ Plazas!Authorised(s)
                                  \/ s \notin cached]_inPlazas
  BY KnowingStep
<1>2. [SessionsNext \/ PlazasNext]_<<part, sessions, inPlazas>> => [Plazas!Next]_inPlazas
  BY DEF SessionsNext, PlazasNext, inPlazas
<1> QED
  BY <1>1, <1>2, PlazasInvariance, PTL
  DEF MCSpec, ListedInOwnPlaza, Plazas!ListedInOwnPlaza, Plazas!vars, inPlazas

\* An empty plaza has somebody who will erase it, however joins and leaves mix.
THEOREM EmptyGoesHolds == MCSpec => []EmptyGoes
<1>1. PlazaInv => EmptyGoes
  BY DEF PlazaInv, EmptyGoes
<1> QED
  BY <1>1, PlazasInvariance, PTL

=============================================================================
