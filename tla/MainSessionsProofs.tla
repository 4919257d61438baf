------------------------- MODULE MainSessionsProofs -------------------------
(***************************************************************************)
(* Proofs about MainSessions, for any set of connections and any range of  *)
(* ids.  Sessions, keys, accounts and tasks name a session by its id; the  *)
(* invariant says that whoever can still do so is the id's only owner.     *)
(***************************************************************************)
EXTENDS MainSessions, SessionTableProofs

-----------------------------------------------------------------------------
\* Ids at or above the counter are unused, and so are those in the free list.
Counted ==
    /\ \A id \in free : id < counter /\ table[id] = None
    /\ \A id \in free : \A c \in entering : sid[c] # id
    /\ \A id \in Id : table[id] # None => id < counter
    /\ \A c \in entering : sid[c] < counter

\* A connection on its way into the table finds its place there vacant, and
\* is alone on its way to it.
EntersAlone ==
    /\ \A c \in entering : table[sid[c]] = None /\ socket[c] # "new" /\ login[c] = "none"
    /\ \A c, d \in entering : sid[c] = sid[d] => c = d

\* A session is found under its own id and no other, and for as long as it is
\* open or being purged it is on its way into the table or in it.
Listed ==
    /\ TableAgrees
    /\ \A id \in Id : table[id] # None => table[id] \notin entering /\ socket[table[id]] # "new"
    /\ \A c \in Conn :
          /\ socket[c] = "open" \/ leaving[c] # "no" => c \in entering \/ table[sid[c]] = c
          /\ leaving[c] # "no" => socket[c] = "closed"
          /\ socket[c] = "new" => login[c] = "none" /\ sid[c] = 0

\* A key waits for the login of the open session it was made for.
KeysOwned ==
    \A id \in Id : LET c == channel[id]
                   IN  c # None => sid[c] = id /\ socket[c] = "open" /\ login[c] = "none"

\* An account has been cached by a login that is done with.
LoggedIn == \A id \in Id : account[id] # None => login[account[id]] = "done"

IInv == /\ TypeOK /\ Counted /\ EntersAlone /\ Listed
        /\ KeysOwned /\ LoggedIn /\ AccountsOwned /\ PurgeFindsAccount

-----------------------------------------------------------------------------
(***************************************************************************)
(* Ids that are handed out.                                                *)
(***************************************************************************)

\* What getNext may return is in nobody's use.
LEMMA NextIdsUnused ==
    ASSUME TypeOK, Counted, NEW id \in NextIds
    PROVE  table[id] = None /\ \A c \in entering : sid[c] # id
<1>1. CASE free # {}
  BY <1>1 DEF NextIds, Counted
<1>2. CASE free = {}
  <2>1. id = counter /\ id \in Id
    BY <1>2, NextIdsAreIds DEF NextIds, TypeOK
  <2> QED
    BY <2>1, MaxIdAssumption DEF Counted, Id, TypeOK, TableTypeOK
<1> QED
  BY <1>1, <1>2

\* Accept, spelled out: the new id is below the counter, as all in use are.
LEMMA AcceptEffect ==
    ASSUME TypeOK, Counted, NEW c \in Conn, Accept(c)
    PROVE  \E id \in NextIds :
              /\ id \in Id
              /\ sid' = [sid EXCEPT ![c] = id]
              /\ free' = free \ {id}
              /\ counter' \in Id /\ counter <= counter' /\ id < counter'
<1>1. PICK id \in NextIds :
         /\ id \in Id /\ sid' = [sid EXCEPT ![c] = id] /\ free' = free \ {id}
         /\ counter' \in Id /\ counter <= counter' /\ (id \in free \/ id < counter')
  BY AcceptTakes DEF TypeOK
<1>2. id < counter'
  <2>1. counter \in Nat /\ counter' \in Nat /\ id \in Nat
    BY <1>1, MaxIdAssumption DEF TypeOK, TableTypeOK, Id
  <2>2. id \in free => id < counter
    BY DEF Counted
  <2> QED
    BY <1>1, <2>1, <2>2
<1> QED
  BY <1>1, <1>2

-----------------------------------------------------------------------------
(***************************************************************************)
(* Type correctness.                                                       *)
(***************************************************************************)

\* The types are kept by every step.
LEMMA TypeStep == IInv /\ [Next]_vars => TypeOK'
<1> SUFFICES ASSUME IInv, [Next]_vars PROVE TypeOK'
  OBVIOUS
<1> USE DEF TypeOK, TableTypeOK
<1>t. TypeOK
  BY DEF IInv
<1>1. ASSUME NEW c \in Conn, Arrive(c) PROVE TypeOK'
  <2>1. TableTypeOK'
    BY <1>t, <1>1, ArrivalTypes DEF Arrive
  <2>2. CASE Accept(c) /\ channel' = [channel EXCEPT ![sid'[c]] = c]
    <3>1. \A d \in Conn : sid[d] \in Id => sid'[d] \in Id
      BY <1>t, <2>2, AcceptTakes
    <3> QED
      BY <1>t, <1>1, <2>1, <2>2, <3>1 DEF Arrive
  <2>3. CASE Refuse(c) /\ UNCHANGED channel
    BY <1>t, <1>1, <2>1, <2>3 DEF Refuse, Arrive
  <2>4. CASE Enter(c) /\ UNCHANGED channel
    BY <1>t, <1>1, <2>1, <2>4 DEF Enter, Arrive
  <2> QED
    BY <1>1, <2>2, <2>3, <2>4 DEF Arrive
<1>2. ASSUME NEW c \in Conn, Disconnect(c) PROVE TypeOK'
  BY <1>t, <1>2 DEF Disconnect, Close, RemoveSession, FreedBy
<1>3. ASSUME NEW c \in Conn, PurgeAccount(c) PROVE TypeOK'
  BY <1>t, <1>3 DEF PurgeAccount, Still, tableVars
<1>4. ASSUME NEW c \in Conn, PurgeSession(c) PROVE TypeOK'
  BY <1>t, <1>4 DEF PurgeSession, RemoveSession, FreedBy
<1>5. ASSUME NEW c \in Conn, NEW accepted \in BOOLEAN, Authorize(c, accepted) PROVE TypeOK'
  BY <1>t, <1>5 DEF Authorize, Handling, Still, tableVars, Id
<1>6. ASSUME NEW c \in Conn, NEW found \in BOOLEAN, Login(c, found) PROVE TypeOK'
  BY <1>t, <1>6 DEF Login, Still, tableVars
<1>7. CASE UNCHANGED vars
  BY <1>t, <1>7 DEF vars, tableVars
<1> QED
  BY <1>1, <1>2, <1>3, <1>4, <1>5, <1>6, <1>7 DEF Next

-----------------------------------------------------------------------------
(***************************************************************************)
(* The invariant, action by action.                                        *)
(***************************************************************************)

\* Everything in IInv but the types.
Owners == Counted /\ EntersAlone /\ Listed /\ KeysOwned /\ LoggedIn /\ AccountsOwned /\ PurgeFindsAccount

LEMMA AcceptKeeps ==
    ASSUME IInv, NEW c \in Conn, Arrive(c), Accept(c), channel' = [channel EXCEPT ![sid'[c]] = c]
    PROVE  Owners'
<1> USE NoneAssumption DEF IInv
<1>1. PICK id \in NextIds :
         /\ id \in Id /\ sid' = [sid EXCEPT ![c] = id]
         /\ free' = free \ {id}
         /\ counter' \in Id /\ counter <= counter' /\ id < counter'
  BY AcceptEffect
<1>2. table[id] = None /\ \A d \in entering : sid[d] # id
  BY NextIdsUnused
<1>3. /\ socket[c] = "new" /\ socket' = [socket EXCEPT ![c] = "open"]
      /\ entering' = entering \cup {c}
      /\ UNCHANGED <<table, account, login, leaving>>
  BY DEF Accept, Arrive
<1>4. /\ c \notin entering /\ login[c] = "none" /\ leaving[c] = "no"
      /\ \A i \in Id : table[i] # c
  BY <1>3 DEF EntersAlone, Listed
<1>5. \A d \in Conn : d # c => sid'[d] = sid[d] /\ socket'[d] = socket[d]
  BY <1>1, <1>3 DEF TypeOK, TableTypeOK
<1>6. sid'[c] = id /\ socket'[c] = "open"
  BY <1>1, <1>3 DEF TypeOK, TableTypeOK
<1>7. entering \subseteq Conn /\ free \subseteq Id /\ counter \in Nat /\ counter' \in Nat /\ Id \subseteq Nat
  BY <1>1, MaxIdAssumption DEF TypeOK, TableTypeOK, Id
<1>8. \A d \in entering : sid[d] \in Id
  BY <1>7 DEF TypeOK, TableTypeOK
<1>9. Counted'
  <2>1. \A i \in free' : i \in free /\ i # id
    BY <1>1
  <2>2. \A i \in free' : i < counter' /\ table'[i] = None
    BY <2>1, <1>1, <1>3, <1>7 DEF Counted
  <2>3. \A i \in free' : \A d \in entering' : sid'[d] # i
    <3>1. \A d \in entering : d \in Conn /\ d # c
      BY <1>4, <1>7
    <3>2. \A d \in entering : sid'[d] = sid[d]
      BY <3>1, <1>5
    <3>3. \A i \in free : \A d \in entering : sid[d] # i
      BY DEF Counted
    <3> QED
      BY <2>1, <3>2, <3>3, <1>3, <1>6
  <2>4. \A i \in Id : table'[i] # None => i < counter'
    BY <1>1, <1>3, <1>7 DEF Counted
  <2>5. \A d \in entering' : sid'[d] < counter'
    <3>1. \A d \in entering : sid'[d] = sid[d] /\ sid[d] < counter /\ sid[d] \in Nat
      BY <1>4, <1>5, <1>7, <1>8 DEF Counted
    <3> QED
      BY <3>1, <1>1, <1>3, <1>6, <1>7
  <2> QED
    BY <2>2, <2>3, <2>4, <2>5 DEF Counted
<1>10. EntersAlone'
  BY <1>2, <1>3, <1>4, <1>5, <1>6, <1>7 DEF EntersAlone
<1>11. Listed'
  <2>1. \A i \in Id : table[i] \in Conn \cup {None}
    BY DEF TypeOK, TableTypeOK
  <2> QED
    BY <2>1, <1>3, <1>4, <1>5, <1>6 DEF Listed, TableAgrees
<1>12. KeysOwned'
  <2>1. \A i \in Id : channel'[i] = IF i = id THEN c ELSE channel[i]
    BY <1>6 DEF TypeOK
  <2>2. \A i \in Id : channel[i] \in Conn \cup {None}
    BY DEF TypeOK
  <2> QED
    BY <2>1, <2>2, <1>3, <1>4, <1>5, <1>6 DEF KeysOwned
<1>13. LoggedIn' /\ AccountsOwned'
  <2>1. \A i \in Id : account[i] \in Conn \cup {None} /\ account[i] # c
    BY <1>4 DEF LoggedIn, TypeOK
  <2> QED
    BY <2>1, <1>3, <1>5 DEF LoggedIn, AccountsOwned
<1>14. PurgeFindsAccount'
  BY <1>3, <1>4, <1>5 DEF PurgeFindsAccount
<1> QED
  BY <1>9, <1>10, <1>11, <1>12, <1>13, <1>14 DEF Owners

\* Of the invariant, a refused connection changes the state of its socket only.
LEMMA RefuseKeeps ==
    ASSUME IInv, NEW c \in Conn, Arrive(c), Refuse(c), UNCHANGED channel
    PROVE  Owners'
<1> USE NoneAssumption DEF IInv
<1>1. /\ socket[c] = "new" /\ socket' = [socket EXCEPT ![c] = "closed"]
      /\ UNCHANGED <<counter, free, table, sid, entering, channel, account, login, leaving>>
  BY DEF Refuse, Arrive
<1>2. \A d \in Conn : d # c => socket'[d] = socket[d]
  BY <1>1 DEF TypeOK, TableTypeOK
<1>3. socket'[c] = "closed" /\ login[c] = "none" /\ leaving[c] = "no" /\ c \notin entering
  BY <1>1 DEF TypeOK, TableTypeOK, Listed, EntersAlone
<1>4. /\ entering \subseteq Conn
      /\ \A i \in Id : {table[i], channel[i], account[i]} \subseteq Conn \cup {None}
  BY DEF TypeOK, TableTypeOK
<1>5. Counted' /\ EntersAlone' /\ LoggedIn' /\ PurgeFindsAccount'
  BY <1>1, <1>2, <1>3, <1>4 DEF Counted, EntersAlone, LoggedIn, PurgeFindsAccount
<1>6. Listed'
  BY <1>1, <1>2, <1>3, <1>4 DEF Listed, TableAgrees
<1>7. KeysOwned'
  BY <1>1, <1>2, <1>3, <1>4 DEF KeysOwned
<1>8. AccountsOwned'
  BY <1>1, <1>2, <1>3, <1>4 DEF AccountsOwned
<1> QED
  BY <1>5, <1>6, <1>7, <1>8 DEF Owners

LEMMA EnterKeeps ==
    ASSUME IInv, NEW c \in Conn, Arrive(c), Enter(c), UNCHANGED channel
    PROVE  Owners'
<1> USE NoneAssumption DEF IInv
<1>1. /\ c \in entering /\ entering' = entering \ {c}
      /\ UNCHANGED <<counter, free, sid, socket, channel, account, login, leaving>>
  BY DEF Enter, Arrive
<1>2. sid[c] \in Id /\ table[sid[c]] = None
  BY <1>1 DEF EntersAlone, TypeOK, TableTypeOK
<1>3. \A i \in Id : table'[i] = IF i = sid[c] THEN c ELSE table[i]
  BY <1>2 DEF Enter, Added, TypeOK, TableTypeOK
<1>4. /\ entering \subseteq Conn /\ free \subseteq Id
      /\ \A i \in Id : {table[i], account[i]} \subseteq Conn \cup {None}
      /\ \A d \in entering : sid[d] \in Id
  BY DEF TypeOK, TableTypeOK
<1>5. Counted'
  BY <1>1, <1>2, <1>3, <1>4 DEF Counted
<1>6. EntersAlone'
  BY <1>1, <1>2, <1>3, <1>4 DEF EntersAlone
<1>7. Listed'
  <2>1. socket[c] # "new"
    BY <1>1 DEF EntersAlone
  <2>2. TableAgrees'
    BY <1>1, <1>3 DEF Listed, TableAgrees
  <2>3. \A i \in Id : table'[i] # None => table'[i] \notin entering' /\ socket'[table'[i]] # "new"
    BY <2>1, <1>1, <1>3 DEF Listed
  <2>4. ASSUME NEW d \in Conn, socket[d] = "open" \/ leaving[d] # "no"
        PROVE  d \in entering' \/ table'[sid[d]] = d
    <3>1. d \in entering \/ table[sid[d]] = d
      BY <2>4 DEF Listed
    <3>2. sid[d] \in Id
      BY <2>4 DEF TypeOK, TableTypeOK
    <3> QED
      BY <3>1, <3>2, <1>1, <1>2, <1>3
  <2> QED
    BY <2>2, <2>3, <2>4, <1>1 DEF Listed
<1>8. KeysOwned' /\ LoggedIn' /\ PurgeFindsAccount'
  BY <1>1 DEF KeysOwned, LoggedIn, PurgeFindsAccount
<1>9. AccountsOwned'
  BY <1>1, <1>2, <1>3, <1>4 DEF AccountsOwned
<1> QED
  BY <1>5, <1>6, <1>7, <1>8, <1>9 DEF Owners

\* Removing the session of c takes nobody else out of the table, and the id it
\* gives back is nobody's.
LEMMA RemovalEffect ==
    ASSUME IInv, NEW c \in Conn, sid[c] \in Id, table[sid[c]] \in {None, c},
           RemoveSession(sid[c]), UNCHANGED <<counter, sid, entering>>
    PROVE  /\ Counted'
           /\ \A i \in Id : table'[i] = IF table[i] = c THEN None ELSE table[i]
<1> USE NoneAssumption DEF IInv
<1>1. \A i \in Id : table[i] = c => sid[c] = i
  BY DEF Listed, TableAgrees
<1>2. \A i \in Id : table'[i] = IF table[i] = c THEN None ELSE table[i]
  BY <1>1 DEF RemoveSession, TypeOK, TableTypeOK
<1>3. /\ entering \subseteq Conn /\ free \subseteq Id
      /\ \A d \in entering : table[sid[d]] = None
  BY DEF TypeOK, TableTypeOK, EntersAlone
<1>4. \A i \in free' : i \in free \/ (i = sid[c] /\ table[i] = c)
  BY DEF RemoveSession, FreedBy
<1>5. \A i \in free' : i < counter' /\ table'[i] = None
  BY <1>2, <1>3, <1>4 DEF Counted
<1>6. \A i \in free' : \A d \in entering' : sid'[d] # i
  BY <1>3, <1>4 DEF Counted
<1>7. \A i \in Id : table'[i] # None => i < counter'
  BY <1>2 DEF Counted
<1>8. \A d \in entering' : sid'[d] < counter'
  BY DEF Counted
<1> QED
  BY <1>2, <1>5, <1>6, <1>7, <1>8 DEF Counted

LEMMA DisconnectKeeps ==
    ASSUME IInv, NEW c \in Conn, Disconnect(c)
    PROVE  Owners'
<1> USE NoneAssumption DEF IInv
<1>1. /\ socket[c] = "open" /\ socket' = [socket EXCEPT ![c] = "closed"]
      /\ channel' = [channel EXCEPT ![sid[c]] = None]
      /\ UNCHANGED <<counter, sid, entering, account, login>>
  BY DEF Disconnect, Close
<1>2. \A d \in Conn : d # c => socket'[d] = socket[d]
  BY <1>1 DEF TypeOK, TableTypeOK
<1>3. /\ socket'[c] = "closed" /\ leaving[c] = "no" /\ sid[c] \in Id
      /\ c \in entering \/ table[sid[c]] = c
      /\ table[sid[c]] \in {None, c}
  BY <1>1 DEF TypeOK, TableTypeOK, Listed, EntersAlone
<1>4. /\ entering \subseteq Conn
      /\ \A i \in Id : {table[i], channel[i], account[i]} \subseteq Conn \cup {None}
  BY DEF TypeOK, TableTypeOK
<1>5. \A i \in Id : channel'[i] = IF i = sid[c] THEN None ELSE channel[i]
  BY <1>1 DEF TypeOK
<1>6. KeysOwned'
  BY <1>1, <1>2, <1>4, <1>5 DEF KeysOwned
<1>7. LoggedIn'
  BY <1>1 DEF LoggedIn
<1>8. CASE account[sid[c]] = None
  <2>1. RemoveSession(sid[c]) /\ UNCHANGED leaving
    BY <1>8 DEF Disconnect
  <2>2. Counted' /\ \A i \in Id : table'[i] = IF table[i] = c THEN None ELSE table[i]
    BY <2>1, <1>1, <1>3, RemovalEffect
  <2>3. EntersAlone'
    <3>1. \A d \in entering : sid[d] \in Id
      BY <1>4 DEF TypeOK, TableTypeOK
    <3> QED
      BY <3>1, <2>2, <1>1, <1>2, <1>3, <1>4 DEF EntersAlone
  <2>4. Listed'
    <3>1. TableAgrees'
      BY <2>2, <1>1, <1>4 DEF Listed, TableAgrees
    <3>2. \A i \in Id : table'[i] # None => table'[i] \notin entering' /\ socket'[table'[i]] # "new"
      BY <2>2, <1>1, <1>2, <1>4 DEF Listed
    <3>3. ASSUME NEW d \in Conn, socket'[d] = "open" \/ leaving'[d] # "no"
          PROVE  d \in entering' \/ table'[sid'[d]] = d
      <4>1. d # c /\ (socket[d] = "open" \/ leaving[d] # "no")
        BY <3>3, <2>1, <1>2, <1>3
      <4>2. sid[d] \in Id /\ (d \in entering \/ table[sid[d]] = d)
        BY <4>1 DEF TypeOK, TableTypeOK, Listed
      <4> QED
        BY <4>1, <4>2, <2>2, <1>1
    <3>4. \A d \in Conn : /\ leaving'[d] # "no" => socket'[d] = "closed"
                          /\ socket'[d] = "new" => login'[d] = "none" /\ sid'[d] = 0
      BY <2>1, <1>1, <1>2, <1>3 DEF Listed
    <3> QED
      BY <3>1, <3>2, <3>3, <3>4 DEF Listed
  <2>5. AccountsOwned'
    BY <2>1, <2>2, <1>1, <1>2, <1>3, <1>4, <1>8 DEF AccountsOwned
  <2>6. PurgeFindsAccount'
    BY <2>1, <1>1 DEF PurgeFindsAccount
  <2> QED
    BY <2>2, <2>3, <2>4, <2>5, <2>6, <1>6, <1>7 DEF Owners
<1>9. CASE account[sid[c]] # None
  <2>1. leaving' = [leaving EXCEPT ![c] = "queued"] /\ UNCHANGED <<table, free>>
    BY <1>9 DEF Disconnect
  <2>2. \A d \in Conn : leaving'[d] = IF d = c THEN "queued" ELSE leaving[d]
    BY <2>1 DEF TypeOK
  <2>3. Counted'
    BY <2>1, <1>1 DEF Counted
  <2>4. EntersAlone'
    BY <2>1, <1>1, <1>2, <1>3, <1>4 DEF EntersAlone
  <2>5. Listed'
    BY <2>1, <2>2, <1>1, <1>2, <1>3, <1>4 DEF Listed, TableAgrees
  <2>6. AccountsOwned'
    BY <2>1, <2>2, <1>1, <1>2, <1>3, <1>4 DEF AccountsOwned
  <2>7. PurgeFindsAccount'
    BY <2>2, <1>1, <1>9 DEF PurgeFindsAccount
  <2> QED
    BY <2>3, <2>4, <2>5, <2>6, <2>7, <1>6, <1>7 DEF Owners
<1> QED
  BY <1>8, <1>9

\* The account dropped under the id of c is nobody's whose purge is to come:
\* until it has run, the id belongs to c.
LEMMA PurgeAccountKeeps ==
    ASSUME IInv, NEW c \in Conn, PurgeAccount(c)
    PROVE  Owners'
<1> USE NoneAssumption DEF IInv
<1>1. /\ leaving[c] = "queued" /\ leaving' = [leaving EXCEPT ![c] = "erased"]
      /\ account' = [account EXCEPT ![sid[c]] = None]
      /\ UNCHANGED <<counter, free, table, sid, socket, entering, channel, login>>
  BY DEF PurgeAccount, Still, tableVars
<1>2. \A d \in Conn : leaving'[d] = IF d = c THEN "erased" ELSE leaving[d]
  BY <1>1 DEF TypeOK
<1>3. sid[c] \in Id /\ socket[c] = "closed" /\ (c \in entering \/ table[sid[c]] = c)
  BY <1>1 DEF TypeOK, Listed
<1>4. \A i \in Id : account'[i] = IF i = sid[c] THEN None ELSE account[i]
  BY <1>1 DEF TypeOK
<1>5. \A i \in Id : account[i] \in Conn \cup {None}
  BY DEF TypeOK
<1>6. Counted' /\ EntersAlone' /\ KeysOwned' /\ LoggedIn'
  BY <1>1, <1>4 DEF Counted, EntersAlone, KeysOwned, LoggedIn
<1>7. Listed'
  BY <1>1, <1>2, <1>3 DEF Listed, TableAgrees
<1>8. AccountsOwned'
  BY <1>1, <1>2, <1>4, <1>5 DEF AccountsOwned
<1>9. PurgeFindsAccount'
  <2>1. ASSUME NEW d \in Conn, leaving'[d] = "queued" PROVE account'[sid'[d]] # None
    <3>1. d # c /\ leaving[d] = "queued" /\ sid[d] \in Id
      BY <2>1, <1>2 DEF TypeOK
    <3>2. d \in entering \/ table[sid[d]] = d
      BY <3>1 DEF Listed
    <3>3. sid[d] # sid[c]
      BY <3>1, <3>2, <1>3 DEF EntersAlone
    <3> QED
      BY <3>1, <3>3, <1>1, <1>4 DEF PurgeFindsAccount
  <2> QED
    BY <2>1 DEF PurgeFindsAccount
<1> QED
  BY <1>6, <1>7, <1>8, <1>9 DEF Owners

LEMMA PurgeSessionKeeps ==
    ASSUME IInv, NEW c \in Conn, PurgeSession(c)
    PROVE  Owners'
<1> USE NoneAssumption DEF IInv
<1>1. /\ leaving[c] = "erased" /\ leaving' = [leaving EXCEPT ![c] = "no"]
      /\ RemoveSession(sid[c])
      /\ UNCHANGED <<counter, sid, socket, entering, channel, account, login>>
  BY DEF PurgeSession
<1>2. \A d \in Conn : leaving'[d] = IF d = c THEN "no" ELSE leaving[d]
  BY <1>1 DEF TypeOK
<1>3. /\ sid[c] \in Id /\ socket[c] = "closed"
      /\ table[sid[c]] \in {None, c}
  BY <1>1 DEF TypeOK, Listed, EntersAlone
<1>4. /\ entering \subseteq Conn
      /\ \A i \in Id : {table[i], account[i]} \subseteq Conn \cup {None}
      /\ \A d \in entering : sid[d] \in Id
  BY DEF TypeOK, TableTypeOK
<1>5. Counted' /\ \A i \in Id : table'[i] = IF table[i] = c THEN None ELSE table[i]
  BY <1>1, <1>3, RemovalEffect
<1>6. EntersAlone'
  BY <1>1, <1>4, <1>5 DEF EntersAlone
<1>7. Listed'
  <2>1. TableAgrees'
    BY <1>1, <1>4, <1>5 DEF Listed, TableAgrees
  <2>2. \A i \in Id : table'[i] # None => table'[i] \notin entering' /\ socket'[table'[i]] # "new"
    BY <1>1, <1>4, <1>5 DEF Listed
  <2>3. ASSUME NEW d \in Conn, socket'[d] = "open" \/ leaving'[d] # "no"
        PROVE  d \in entering' \/ table'[sid'[d]] = d
    <3>1. d # c /\ (socket[d] = "open" \/ leaving[d] # "no")
      BY <2>3, <1>1, <1>2, <1>3
    <3>2. sid[d] \in Id /\ (d \in entering \/ table[sid[d]] = d)
      BY <3>1 DEF TypeOK, TableTypeOK, Listed
    <3> QED
      BY <3>1, <3>2, <1>1, <1>5
  <2>4. \A d \in Conn : /\ leaving'[d] # "no" => socket'[d] = "closed"
                        /\ socket'[d] = "new" => login'[d] = "none" /\ sid'[d] = 0
    BY <1>1, <1>2 DEF Listed
  <2> QED
    BY <2>1, <2>2, <2>3, <2>4 DEF Listed
<1>8. KeysOwned' /\ LoggedIn' /\ PurgeFindsAccount'
  BY <1>1, <1>2 DEF KeysOwned, LoggedIn, PurgeFindsAccount
<1>9. AccountsOwned'
  BY <1>1, <1>2, <1>3, <1>4, <1>5 DEF AccountsOwned
<1> QED
  BY <1>5, <1>6, <1>7, <1>8, <1>9 DEF Owners

\* An accepted login took the key of its own open session, which is in the
\* table by then.
LEMMA AuthorizeKeeps ==
    ASSUME IInv, NEW c \in Conn, NEW accepted \in BOOLEAN, Authorize(c, accepted)
    PROVE  Owners'
<1> USE NoneAssumption DEF IInv
<1>1. /\ sid[c] # 0 /\ c \notin entering
      /\ accepted => channel[sid[c]] = c
      /\ channel' = [channel EXCEPT ![sid[c]] = None]
      /\ login' = [login EXCEPT ![c] = IF accepted THEN "queued" ELSE @]
      /\ UNCHANGED <<counter, free, table, sid, socket, entering, account, leaving>>
  BY DEF Authorize, Handling, Still, tableVars
<1>2. sid[c] \in Id
  BY <1>1 DEF TypeOK, TableTypeOK, Id
<1>3. \A i \in Id : channel'[i] = IF i = sid[c] THEN None ELSE channel[i]
  BY <1>1 DEF TypeOK
<1>4. accepted => socket[c] = "open" /\ login[c] = "none"
  BY <1>1, <1>2 DEF KeysOwned
<1>5. /\ \A d \in Conn : login'[d] = IF d = c /\ accepted THEN "queued" ELSE login[d]
      /\ entering \subseteq Conn
      /\ \A i \in Id : {channel[i], account[i]} \subseteq Conn \cup {None}
  BY <1>1 DEF TypeOK, TableTypeOK
<1>6. Counted' /\ AccountsOwned' /\ PurgeFindsAccount'
  BY <1>1 DEF Counted, AccountsOwned, PurgeFindsAccount
<1>7. EntersAlone'
  BY <1>1, <1>5 DEF EntersAlone
<1>8. Listed'
  BY <1>1, <1>4, <1>5 DEF Listed, TableAgrees
<1>9. KeysOwned'
  BY <1>1, <1>2, <1>3, <1>4, <1>5 DEF KeysOwned
<1>10. LoggedIn'
  BY <1>1, <1>4, <1>5 DEF LoggedIn
<1> QED
  BY <1>6, <1>7, <1>8, <1>9, <1>10 DEF Owners

LEMMA LoginKeeps ==
    ASSUME IInv, NEW c \in Conn, NEW found \in BOOLEAN, Login(c, found)
    PROVE  Owners'
<1> USE NoneAssumption DEF IInv
<1>1. /\ login[c] = "queued" /\ login' = [login EXCEPT ![c] = "done"]
      /\ UNCHANGED <<counter, free, table, sid, socket, entering, channel, leaving>>
  BY DEF Login, Still, tableVars
<1>2. sid[c] \in Id /\ c \notin entering
  BY <1>1 DEF TypeOK, EntersAlone
<1>3. \A d \in Conn : login'[d] = IF d = c THEN "done" ELSE login[d]
  BY <1>1 DEF TypeOK
<1>4. \A i \in Id : \/ account'[i] = account[i]
                    \/ account[i] = None /\ i = sid[c] /\ account'[i] = c
  BY <1>2 DEF Login, TypeOK
<1>5. /\ entering \subseteq Conn
      /\ \A i \in Id : {channel[i], account[i]} \subseteq Conn \cup {None}
  BY DEF TypeOK, TableTypeOK
<1>6. Counted'
  BY <1>1 DEF Counted
<1>7. EntersAlone'
  BY <1>1, <1>2, <1>3, <1>5 DEF EntersAlone
<1>8. Listed'
  BY <1>1, <1>3 DEF Listed, TableAgrees
<1>9. KeysOwned'
  BY <1>1, <1>3, <1>5 DEF KeysOwned
<1>10. LoggedIn'
  BY <1>1, <1>3, <1>4, <1>5 DEF LoggedIn
<1>11. AccountsOwned'
  BY <1>1, <1>2, <1>4, <1>5 DEF AccountsOwned, Listed
<1>12. PurgeFindsAccount'
  <2>1. \A d \in Conn : leaving[d] = "queued" => sid[d] \in Id
    BY DEF TypeOK
  <2> QED
    BY <2>1, <1>1, <1>4 DEF PurgeFindsAccount
<1> QED
  BY <1>6, <1>7, <1>8, <1>9, <1>10, <1>11, <1>12 DEF Owners

-----------------------------------------------------------------------------
(***************************************************************************)
(* The theorems.                                                           *)
(***************************************************************************)

LEMMA InvInit == Init => IInv
<1> SUFFICES ASSUME Init PROVE IInv
  OBVIOUS
<1> USE MaxIdAssumption, NoneAssumption DEF Init, TableInit
<1>1. TypeOK
  BY DEF TypeOK, TableTypeOK, Id
<1>2. Counted /\ EntersAlone /\ Listed
  BY DEF Counted, EntersAlone, Listed, TableAgrees
<1>3. KeysOwned /\ LoggedIn /\ AccountsOwned /\ PurgeFindsAccount
  BY DEF KeysOwned, LoggedIn, AccountsOwned, PurgeFindsAccount
<1> QED
  BY <1>1, <1>2, <1>3 DEF IInv

LEMMA InvStep == IInv /\ [Next]_vars => IInv'
<1> SUFFICES ASSUME IInv, [Next]_vars PROVE Owners'
  BY TypeStep DEF IInv, Owners
<1>1. ASSUME NEW c \in Conn, Arrive(c) PROVE Owners'
  BY <1>1, AcceptKeeps, RefuseKeeps, EnterKeeps DEF Arrive
<1>2. CASE UNCHANGED vars
  <2>1. Owners
    BY DEF IInv, Owners
  <2> QED
    BY <1>2, <2>1 DEF vars, tableVars, Owners, Counted, EntersAlone, Listed, TableAgrees,
                      KeysOwned, LoggedIn, AccountsOwned, PurgeFindsAccount
<1> QED
  BY <1>1, <1>2, DisconnectKeeps, PurgeAccountKeeps, PurgeSessionKeeps, AuthorizeKeeps, LoginKeeps
  DEF Next

THEOREM Invariance == Spec => []IInv
BY InvInit, InvStep, PTL DEF Spec

\* Type correctness: ids stay in range, and whoever is open, has logged in or
\* is being purged has one.
THEOREM TypeCorrect == Spec => []TypeOK
<1>1. IInv => TypeOK
  BY DEF IInv
<1> QED
  BY <1>1, Invariance, PTL

\* The generator never hands out an id that a session has, so that AddSession
\* (CServer.cpp:555), whose refusal nobody looks at, never refuses.
THEOREM FreshIdsHolds == Spec => []FreshIds
<1>1. IInv => FreshIds
  BY NextIdsUnused DEF IInv, FreshIds, EntersAlone
<1> QED
  BY <1>1, Invariance, PTL

\* An open session is found under its id: no disconnect and no purge, which
\* name sessions by ids, removes any but its own.
THEOREM OpenSessionsListedHolds == Spec => []OpenSessionsListed
<1>1. IInv => OpenSessionsListed
  BY DEF IInv, OpenSessionsListed, Reading, Listed
<1> QED
  BY <1>1, Invariance, PTL

\* An account cached under an id was cached by the session that has or had the
\* id, and that session is in the table while it is open or being purged.
THEOREM AccountsOwnedHolds == Spec => []AccountsOwned
<1>1. IInv => AccountsOwned
  BY DEF IInv
<1> QED
  BY <1>1, Invariance, PTL

\* The login of a session uses the key it was greeted with, or none.
THEOREM OwnKeyHolds == Spec => []OwnKey
<1>1. ASSUME IInv PROVE OwnKey
  <2>1. ASSUME NEW c \in Conn, Reading(c) PROVE channel[sid[c]] \in {c, None}
    <3>1. sid[c] \in Id /\ table[sid[c]] = c /\ channel[sid[c]] \in Conn \cup {None}
      BY <1>1, <2>1 DEF IInv, Reading, Listed, TypeOK, TableTypeOK
    <3>2. ASSUME channel[sid[c]] # None PROVE channel[sid[c]] = c
      <4> DEFINE d == channel[sid[c]]
      <4>1. d \in Conn /\ sid[d] = sid[c] /\ socket[d] = "open"
        BY <1>1, <3>1, <3>2 DEF IInv, KeysOwned
      <4>2. d \in entering \/ table[sid[d]] = d
        BY <1>1, <4>1 DEF IInv, Listed
      <4> QED
        BY <1>1, <3>1, <4>1, <4>2, NoneAssumption DEF IInv, EntersAlone
    <3> QED
      BY <3>2
  <2> QED
    BY <2>1 DEF OwnKey
<1> QED
  BY <1>1, Invariance, PTL

\* A purge finds the account it is to drop, whatever other disconnects and
\* logins have been about its id.
THEOREM PurgeFindsAccountHolds == Spec => []PurgeFindsAccount
<1>1. IInv => PurgeFindsAccount
  BY DEF IInv
<1> QED
  BY <1>1, Invariance, PTL
=============================================================================
