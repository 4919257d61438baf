--------------------------- MODULE AccountUpdates ---------------------------
(***************************************************************************)
(* How the Main server changes an account.  A handler on the session's     *)
(* strand checks the change against the cached account, under its lock,    *)
(* lets the lock go and queues a task for the database pool.  The task     *)
(* writes the change to the database in one transaction, and if that       *)
(* succeeded takes the lock again and changes the cached account.  The     *)
(* pool has many threads: tasks run in any order and stop anywhere between *)
(* their two steps.  The staff's /item changes the cache first.            *)
(*                                                                         *)
(* Session ids are used again, and a task names its session by the id: the *)
(* account it finds in the cache may be another one, or have been loaded   *)
(* since.                                                                  *)
(***************************************************************************)
EXTENDS Accounts, FiniteSetsExt

CONSTANTS
    Id,             \* session ids
    Slot,           \* bounds the tasks that are under way at once
    None,           \* no task, or no cached account
    MaximumItems,   \* the limit on an inventory
    Word,           \* 2^32: cached balances are uint32_t
    LastId,         \* 0x100000, the greatest serial id
    Batch,          \* bounds the items bought or made at once
    MaxMade,        \* bounds the requests that make items
    Checked         \* TRUE: MariaDB.  FALSE: PostgreSQL, which does not look
                    \* whether an account could pay

ASSUME BoundsAssumption ==
    /\ Word \in Nat \ {0} /\ LastId \in Nat /\ MaximumItems \in Nat
    /\ Batch \in Nat /\ MaxMade \in Nat
    /\ Checked \in BOOLEAN

VARIABLES
    store,      \* Aid -> the account in the database
    cache,      \* Id -> the account that CAccount caches under the id, or None
    task,       \* Slot -> a task of the database pool, or None
    clock,      \* the second that the next serial is stamped with
    behind,     \* history: ids whose account a task of another session changed,
                \* here or in the database, since it was loaded
    issued,     \* history: serials made in this second,
    twice,      \* and those of any second that were made more than once
    made        \* how many requests have made items

serials == <<clock, issued, twice, made>>
vars == <<store, cache, task, behind, serials>>

\* ValidatedDbUpdates, with the net change of the balance.
IsUpdate(u) ==
    /\ u = [delta |-> u.delta, deleted |-> u.deleted, repaired |-> u.repaired, added |-> u.added]
    /\ u.delta \in Int /\ u.deleted \subseteq Serial /\ u.repaired \subseteq Serial
    /\ IsInventory(u.added)

\* early: the cache was changed first.  orphan: the session has gone.
IsTask(t) ==
    /\ t = [aid |-> t.aid, sid |-> t.sid, update |-> t.update, early |-> t.early,
            state |-> t.state, orphan |-> t.orphan]
    /\ t.aid \in Aid /\ t.sid \in Id /\ IsUpdate(t.update)
    /\ t.early \in BOOLEAN /\ t.state \in {"queued", "committed"} /\ t.orphan \in BOOLEAN

IsCached(c) ==
    /\ c = [aid |-> c.aid, mp |-> c.mp, items |-> c.items]
    /\ c.aid \in Aid /\ c.mp \in 0 .. Word - 1 /\ IsInventory(c.items)

TypeOK ==
    /\ DOMAIN store = Aid /\ \A a \in Aid : IsAccount(store[a])
    /\ DOMAIN cache = Id /\ \A id \in Id : cache[id] # None => IsCached(cache[id])
    /\ DOMAIN task = Slot /\ \A k \in Slot : task[k] # None => IsTask(task[k])
    /\ clock \in Nat /\ behind \subseteq Id
    /\ issued \subseteq Serial /\ twice \subseteq Serial /\ made \in 0 .. MaxMade

Init ==
    /\ store \in [Aid -> Initial]
    /\ cache = [id \in Id |-> None]
    /\ task = [k \in Slot |-> None]
    /\ clock = 1
    /\ behind = {} /\ issued = {} /\ twice = {} /\ made = 0

-----------------------------------------------------------------------------
\* FindLowestAvailableSerialIds: the n lowest ids no cached item has.
LowestAvailable(items, n) ==
    LET unused == (0 .. LastId) \ {s.id : s \in DOMAIN items}
    IN  {i \in unused : Cardinality({j \in unused : j < i}) < n}

Crafted(items, g, n, origin) ==
    [s \in {[id |-> i, time |-> clock, origin |-> origin] : i \in LowestAvailable(items, n)}
        |-> [good |-> g, worn |-> FALSE]]

\* A serial's second is the clock's, and the next one is of the same second or
\* of a later one.
Stamp(new) ==
    /\ made < MaxMade /\ made' = made + 1
    /\ twice' = twice \cup (new \cap issued)
    /\ \/ clock' = clock /\ issued' = issued \cup new
       \/ clock' = clock + 1 /\ issued' = {}

Change(delta, deleted, repaired, added) ==
    [delta |-> delta, deleted |-> deleted, repaired |-> repaired, added |-> added]

Nothing == [s \in {} |-> None]

\* ValidateDatabaseUpdates.  The new items count only after the limit has been
\* compared with what is there.
Valid(acc, u) ==
    /\ u.deleted \subseteq DOMAIN acc.items
    /\ DOMAIN u.added # {} => Cardinality(DOMAIN acc.items) <= MaximumItems
    /\ u.delta < 0 => acc.mp >= -u.delta
    /\ u.delta > 0 => acc.mp <= Word - 1 - u.delta

\* Defect: a balance wider than uint32_t.
AppliedUnwrapped(acc, u, S) ==
    [aid |-> acc.aid, mp |-> acc.mp + u.delta,
     items |-> With(Repaired(Without(acc.items, u.deleted), S), u.added)]

\* ApplyDatabaseUpdates checks nothing again.  Repairs stop at the first item
\* that has gone: S are the others before it.
Applied(acc, u, S) ==
    [aid |-> acc.aid, mp |-> (acc.mp + u.delta) % Word,
     items |-> With(Repaired(Without(acc.items, u.deleted), S), u.added)]

Reached(acc, u) ==
    LET left == DOMAIN acc.items \ u.deleted
    IN  IF u.repaired \subseteq left THEN {u.repaired} ELSE SUBSET (u.repaired \cap left)

Submit(k, id, u, early) ==
    /\ task[k] = None
    /\ task' = [task EXCEPT ![k] =
                   [aid |-> cache[id].aid, sid |-> id, update |-> u, early |-> early,
                    state |-> "queued", orphan |-> FALSE]]
    /\ UNCHANGED <<store, behind>>

Ask(k, id, u) ==
    /\ Valid(cache[id], u)
    /\ Submit(k, id, u, FALSE)
    /\ UNCHANGED cache

-----------------------------------------------------------------------------
\* Of the goods a purchase lists, all are taken to be the same.
ShopNormal(k, id, g, n) ==
    /\ cache[id] # None
    /\ LET items == Crafted(cache[id].items, g, n, "game")
       IN  /\ Cardinality(DOMAIN items) = n
           /\ Ask(k, id, Change(-(n * Price[g]), {}, {}, items))
           /\ Stamp(DOMAIN items)

ItemSell(k, id, s) ==
    /\ cache[id] # None /\ s \in DOMAIN cache[id].items
    /\ Ask(k, id, Change(SellPrice[cache[id].items[s].good], {s}, {}, Nothing))
    /\ UNCHANGED serials

\* Serials that are not in the inventory are skipped.
ItemDelete(k, id, S) ==
    /\ cache[id] # None /\ S # {} /\ S \subseteq DOMAIN cache[id].items
    /\ Ask(k, id, Change(0, S, {}, Nothing))
    /\ UNCHANGED serials

RepairCost(items, S) == RepairPrice * Cardinality({s \in S : items[s].worn})

ItemRepair(k, id, S) ==
    /\ cache[id] # None /\ S # {} /\ S \subseteq DOMAIN cache[id].items
    /\ Ask(k, id, Change(-RepairCost(cache[id].items, S), {}, S, Nothing))
    /\ UNCHANGED serials

\* The command of the staff: the cache first, the database later.
ItemCommand(k, id, g, n) ==
    /\ cache[id] # None
    /\ Cardinality(DOMAIN cache[id].items) + n <= MaximumItems
    /\ LET u == Change(0, {}, {}, Crafted(cache[id].items, g, n, "gm"))
       IN  /\ Cardinality(DOMAIN u.added) = n
           /\ Valid(cache[id], u)
           /\ Submit(k, id, u, TRUE)
           /\ cache' = [cache EXCEPT ![id] = Applied(@, u, {})]
           /\ Stamp(DOMAIN u.added)

-----------------------------------------------------------------------------
\* The currency's UPDATE asks for a balance that is high enough.
Pays(acc, u) == acc.mp + u.delta >= 0

\* Defect: the UPDATE's condition is left to the cached balance.
AcceptsUnpaid(acc, u) ==
    /\ u.deleted # {} => u.deleted \cap Owned(acc) # {}
    /\ u.repaired # {} => u.repaired \cap (Owned(acc) \ u.deleted) # {}
    /\ DOMAIN u.added \cap Owned(acc) = {}

\* Defect: rows are deleted if they are there; nobody asks whether any was.
AcceptsAnyDelete(acc, u) ==
    /\ Checked => Pays(acc, u)
    /\ u.repaired # {} => u.repaired \cap (Owned(acc) \ u.deleted) # {}
    /\ DOMAIN u.added \cap Owned(acc) = {}

\* UpdateAccount, one transaction: it goes through if the account can pay
\* (where that is looked at), at least one row is deleted and repaired where
\* any is to be, and no row has a new serial.
Accepts(acc, u) ==
    /\ Checked => Pays(acc, u)
    /\ u.deleted # {} => u.deleted \cap Owned(acc) # {}
    /\ u.repaired # {} => u.repaired \cap (Owned(acc) \ u.deleted) # {}
    /\ DOMAIN u.added \cap Owned(acc) = {}

Written(acc, u) ==
    [mp |-> IF Pays(acc, u) THEN acc.mp + u.delta ELSE acc.mp,
     items |-> With(Repaired(Without(acc.items, u.deleted), u.repaired), u.added)]

\* A task's transaction.  An early task has no more to do.
Commit(k) ==
    /\ task[k] # None /\ task[k].state = "queued"
    /\ LET t == task[k]
       IN  /\ Accepts(store[t.aid], t.update)
           /\ store' = [store EXCEPT ![t.aid] = Written(@, t.update)]
           /\ behind' = behind \cup {id \in Id : /\ t.orphan /\ cache[id] # None
                                                 /\ cache[id].aid = t.aid}
           /\ task' = [task EXCEPT ![k] =
                          IF t.early THEN None ELSE [t EXCEPT !.state = "committed"]]
    /\ UNCHANGED <<cache, serials>>

\* Defect: the handler's task does not look at UpdateAccount's result.
RefuseUnnoticed(k) ==
    /\ task[k] # None /\ task[k].state = "queued"
    /\ task' = [task EXCEPT ![k] =
                   IF task[k].early THEN None ELSE [task[k] EXCEPT !.state = "committed"]]
    /\ UNCHANGED <<store, cache, behind, serials>>

\* A transaction that is refused, or any other error of the database: the task
\* ends there.
Refuse(k) ==
    /\ task[k] # None /\ task[k].state = "queued"
    /\ task' = [task EXCEPT ![k] = None]
    /\ UNCHANGED <<store, cache, behind, serials>>

\* The task's second step, on whatever the cache has under its session's id.
Apply(k) ==
    /\ task[k] # None /\ task[k].state = "committed"
    /\ LET t == task[k]
       IN  IF cache[t.sid] = None
           THEN UNCHANGED <<cache, behind>>
           ELSE /\ \E S \in Reached(cache[t.sid], t.update) :
                      cache' = [cache EXCEPT ![t.sid] = Applied(@, t.update, S)]
                /\ behind' = IF t.orphan THEN behind \cup {t.sid} ELSE behind
    /\ task' = [task EXCEPT ![k] = None]
    /\ UNCHANGED <<store, serials>>

-----------------------------------------------------------------------------
\* The Authorize task loads an account nobody is logged in to, reads and caches
\* it at once here, and fails to read a balance that does not fit.
Login(a, id) ==
    /\ cache[id] = None
    /\ \A other \in Id : cache[other] # None => cache[other].aid # a
    /\ store[a].mp < Word
    /\ cache' = [cache EXCEPT ![id] = [aid |-> a, mp |-> store[a].mp, items |-> store[a].items]]
    /\ behind' = behind \ {id}
    /\ UNCHANGED <<store, task, serials>>

\* ServerDisconnect's task drops the account; the session's other tasks stay.
Logout(id) ==
    /\ cache[id] # None
    /\ cache' = [cache EXCEPT ![id] = None]
    /\ task' = [k \in Slot |-> IF task[k] # None /\ task[k].sid = id
                               THEN [task[k] EXCEPT !.orphan = TRUE] ELSE task[k]]
    /\ behind' = behind \ {id}
    /\ UNCHANGED <<store, serials>>

Shown(id) == IF cache[id] = None THEN {} ELSE DOMAIN cache[id].items

Next ==
    \/ \E k \in Slot, id \in Id :
          \/ \E g \in Good, n \in 1 .. Batch : ShopNormal(k, id, g, n) \/ ItemCommand(k, id, g, n)
          \/ \E s \in Shown(id) : ItemSell(k, id, s)
          \/ \E S \in SUBSET Shown(id) : ItemDelete(k, id, S) \/ ItemRepair(k, id, S)
    \/ \E k \in Slot : Commit(k) \/ Refuse(k) \/ Apply(k)
    \/ \E id \in Id : Logout(id) \/ \E a \in Aid : Login(a, id)

Spec == Init /\ [][Next]_vars
-----------------------------------------------------------------------------
\* The tasks that have written to the database what they have yet to tell the
\* account cached under their session's id.
Pending(id) ==
    {k \in Slot : /\ task[k] # None /\ task[k].state = "committed"
                  /\ task[k].sid = id /\ ~task[k].orphan}

Current(id) == cache[id] # None /\ id \notin behind

\* The cached balance, which requests are checked against and which wraps
\* around at 2^32, is the database's but for what is pending: tasks may finish
\* in any order, be refused, or overtake one another, and nothing is lost or
\* applied twice.
BalanceAgrees ==
    \A id \in Id : Current(id) =>
        cache[id].mp = (store[cache[id].aid].mp
                          - MapThenSumSet(LAMBDA k : task[k].update.delta, Pending(id))) % Word

\* The same for the items that the staff did not make: what the database has,
\* the cache has or will be given; what only the cache has is about to go.
\* Serials that were made twice are left aside.
ItemsAgree ==
    \A id \in Id : Current(id) =>
        LET saved == store[cache[id].aid].items
            items == cache[id].items
            given == UNION {DOMAIN task[k].update.added : k \in Pending(id)}
            doomed == UNION {task[k].update.deleted : k \in Pending(id)}
            known == {s \in DOMAIN saved \cup DOMAIN items : s.origin = "game"} \ twice
        IN  \A s \in known :
               IF s \notin DOMAIN items THEN s \in given
               ELSE IF s \notin DOMAIN saved THEN s \in doomed
               ELSE items[s].good = saved[s].good

\* Whatever requests were checked against and whichever account a task finds
\* in the cache, the accounts in the database change by whole updates that are
\* paid for.
Book == INSTANCE AccountBook WITH book <- store
WholeUpdates == Book!Spec
=============================================================================
