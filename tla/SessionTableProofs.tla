------------------------- MODULE SessionTableProofs -------------------------
(***************************************************************************)
(* Facts about the session table that hold on every server.                *)
(***************************************************************************)
EXTENDS SessionTable, TLAPS

\* The counter stays within its type: it is below MaxId when it is advanced.
LEMMA CounterAdvances ==
    ASSUME counter \in Id, counter < MaxId
    PROVE  (counter + 1) % (MaxId + 1) = counter + 1
<1> SUFFICES ASSUME NEW a \in Nat, NEW b \in Nat, a < b PROVE a % b = a
  BY MaxIdAssumption DEF Id
<1> QED
  OBVIOUS

\* The generator's answers are ids.
LEMMA NextIdsAreIds == ASSUME TableTypeOK PROVE NextIds \subseteq Id
BY DEF NextIds, TableTypeOK

\* Accepting gives the connection one of those ids; the counter moves past a
\* new one and never back.
LEMMA AcceptTakes ==
    ASSUME TableTypeOK, NEW c \in Conn, Accept(c)
    PROVE  \E id \in NextIds :
              /\ id \in Id
              /\ sid' = [sid EXCEPT ![c] = id]
              /\ free' = free \ {id}
              /\ counter' \in Id /\ counter <= counter'
              /\ id \in free \/ id < counter'
<1>1. PICK id \in NextIds :
         /\ sid' = [sid EXCEPT ![c] = id]
         /\ free' = free \ {id}
         /\ counter' = IF free = {} THEN (counter + 1) % (MaxId + 1) ELSE counter
  BY DEF Accept
<1>2. id \in Id /\ counter \in Id
  BY NextIdsAreIds DEF TableTypeOK
<1>3. CASE free # {}
  <2>1. id \in free /\ counter' = counter
    BY <1>1, <1>3 DEF NextIds
  <2>2. counter <= counter'
    BY <1>2, <2>1, MaxIdAssumption DEF Id
  <2> QED
    BY <1>1, <1>2, <2>1, <2>2
<1>4. CASE free = {}
  <2>1. id = counter /\ counter < MaxId
    BY <1>4 DEF NextIds
  <2>2. counter' = counter + 1
    BY <1>1, <1>2, <1>4, <2>1, CounterAdvances
  <2>3. counter' \in Id /\ counter <= counter' /\ id < counter'
    BY <1>2, <2>1, <2>2, MaxIdAssumption DEF Id
  <2> QED
    BY <1>1, <1>2, <2>3
<1> QED
  BY <1>3, <1>4

\* Arriving keeps the types of the table.
LEMMA ArrivalTypes ==
    ASSUME TableTypeOK, NEW c \in Conn, Accept(c) \/ Refuse(c) \/ Enter(c)
    PROVE  TableTypeOK'
<1>1. CASE Accept(c)
  <2>1. PICK id \in NextIds :
           id \in Id /\ sid' = [sid EXCEPT ![c] = id] /\ free' = free \ {id} /\ counter' \in Id
    BY <1>1, AcceptTakes
  <2> QED
    BY <1>1, <2>1 DEF TableTypeOK, Accept, Id
<1>2. CASE Refuse(c)
  BY <1>2 DEF TableTypeOK, Refuse
<1>3. CASE Enter(c)
  BY <1>3 DEF TableTypeOK, Enter, Added
<1> QED
  BY <1>1, <1>2, <1>3
=============================================================================
