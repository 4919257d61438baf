------------------------ MODULE AccountUpdatesProofs ------------------------
(***************************************************************************)
(* Proofs about AccountUpdates, for any accounts, ids, prices, limits and  *)
(* number of tasks: type correctness (the cached balance stays within its  *)
(* word, inventories stay finite functions, whatever a task finds in the   *)
(* cache when it gets there); that on MariaDB the database implements      *)
(* AccountBook; and that what is cached of an account, its items and, on   *)
(* MariaDB, its balance, agrees with the database but for what the tasks   *)
(* have yet to tell it.                                                    *)
(***************************************************************************)
EXTENDS AccountUpdates, FiniteSetTheorems, WellFoundedInduction, TLAPS

\* The three ways of changing an inventory yield one.
LEMMA InventoryTypes ==
    ASSUME NEW items, IsInventory(items), NEW more, IsInventory(more), NEW S
    PROVE  /\ IsInventory(Without(items, S))
           /\ IsInventory(With(items, more))
           /\ IsInventory(Repaired(items, S))
<1>1. IsInventory(Without(items, S))
  <2>1. IsFiniteSet(DOMAIN items \ S)
    BY FS_Difference DEF IsInventory
  <2> QED
    BY <2>1 DEF IsInventory, Without
<1>2. IsInventory(With(items, more))
  <2>1. IsFiniteSet(DOMAIN items \cup DOMAIN more)
    BY FS_Union DEF IsInventory
  <2> QED
    BY <2>1 DEF IsInventory, With
<1>3. IsInventory(Repaired(items, S))
  <2>1. ASSUME NEW s \in DOMAIN items
        PROVE  [items[s] EXCEPT !.worn = FALSE] \in Item
    BY DEF IsInventory, Item
  <2> QED
    BY <2>1 DEF IsInventory, Repaired
<1> QED
  BY <1>1, <1>2, <1>3

\* Nothing is an inventory, and what Crafted makes is one.
LEMMA CraftedType ==
    ASSUME NEW items, NEW g \in Good, NEW n, NEW origin \in {"game", "gm"}, clock \in Nat
    PROVE  IsInventory(Crafted(items, g, n, origin)) /\ IsInventory(Nothing)
<1> DEFINE ids == LowestAvailable(items, n)
           serial(i) == [id |-> i, time |-> clock, origin |-> origin]
           new == {serial(i) : i \in ids}
<1>1. IsFiniteSet(0 .. LastId)
  BY FS_Interval, BoundsAssumption
<1>2. ids \subseteq 0 .. LastId
  BY DEF LowestAvailable
<1>3. IsFiniteSet(ids)
  BY <1>1, <1>2, FS_Subset
<1>4. IsFiniteSet(new)
  <2> DEFINE f == [i \in ids |-> serial(i)]
  <2>1. f \in Surjection(ids, new)
    BY DEF Surjection
  <2> QED
    BY <1>3, <2>1, FS_Surjection
<1>5. new \subseteq Serial
  BY <1>2 DEF Serial
<1>6. [good |-> g, worn |-> FALSE] \in Item
  BY DEF Item
<1>7. IsInventory(Crafted(items, g, n, origin))
  BY <1>4, <1>5, <1>6 DEF IsInventory, Crafted
<1>8. IsInventory(Nothing)
  BY FS_EmptySet DEF IsInventory, Nothing
<1> QED
  BY <1>7, <1>8

\* An update leaves a cached account one whose balance fits its word ...
LEMMA AppliedType ==
    ASSUME NEW acc, IsCached(acc), NEW u, IsUpdate(u), NEW S
    PROVE  IsCached(Applied(acc, u, S))
<1> DEFINE items == With(Repaired(Without(acc.items, u.deleted), S), u.added)
           mp == (acc.mp + u.delta) % Word
<1>1. IsInventory(items)
  BY InventoryTypes DEF IsCached, IsUpdate
<1>2. mp \in 0 .. Word - 1
  BY BoundsAssumption DEF IsCached, IsUpdate
<1>3. Applied(acc, u, S) = [aid |-> acc.aid, mp |-> mp, items |-> items]
  BY DEF Applied
<1>4. acc.aid \in Aid
  BY DEF IsCached
<1> HIDE DEF items, mp
<1> QED
  BY <1>1, <1>2, <1>3, <1>4 DEF IsCached

\* ... and an account of the database one whose balance is not negative.
LEMMA WrittenType ==
    ASSUME NEW acc, IsAccount(acc), NEW u, IsUpdate(u)
    PROVE  IsAccount(Written(acc, u))
<1> DEFINE items == With(Repaired(Without(acc.items, u.deleted), u.repaired), u.added)
           mp == IF Pays(acc, u) THEN acc.mp + u.delta ELSE acc.mp
<1>1. IsInventory(items)
  BY InventoryTypes DEF IsAccount, IsUpdate
<1>2. mp \in Nat
  BY DEF Pays, IsAccount, IsUpdate
<1>3. Written(acc, u) = [mp |-> mp, items |-> items]
  BY DEF Written
<1> HIDE DEF items, mp
<1> QED
  BY <1>1, <1>2, <1>3 DEF IsAccount

\* Change makes updates.
LEMMA ChangeType ==
    ASSUME NEW delta \in Int, NEW deleted, deleted \subseteq Serial,
           NEW repaired, repaired \subseteq Serial, NEW added, IsInventory(added)
    PROVE  IsUpdate(Change(delta, deleted, repaired, added))
BY DEF IsUpdate, Change

-----------------------------------------------------------------------------
\* The parts of TypeOK.
StoreOK == DOMAIN store = Aid /\ \A a \in Aid : IsAccount(store[a])
CacheOK == DOMAIN cache = Id /\ \A id \in Id : cache[id] # None => IsCached(cache[id])
TaskOK  == DOMAIN task = Slot /\ \A k \in Slot : task[k] # None => IsTask(task[k])
SerialsOK ==
    /\ clock \in Nat /\ issued \subseteq Serial /\ twice \subseteq Serial
    /\ made \in 0 .. MaxMade

Typed == StoreOK /\ CacheOK /\ TaskOK /\ SerialsOK /\ behind \subseteq Id

LEMMA TypeParts == TypeOK <=> Typed
BY DEF Typed, TypeOK, StoreOK, CacheOK, TaskOK, SerialsOK

LEMMA TypeInit == Init => Typed
<1> SUFFICES ASSUME Init PROVE Typed
  OBVIOUS
<1>1. StoreOK
  BY InitialAssumption DEF Init, StoreOK
<1>2. CacheOK /\ TaskOK
  BY DEF Init, CacheOK, TaskOK
<1>3. SerialsOK /\ behind \subseteq Id
  BY BoundsAssumption DEF Init, SerialsOK
<1> QED
  BY <1>1, <1>2, <1>3 DEF Typed

\* A request that leads to a task for a cached account leads to a well-typed one.
LEMMA SubmitType ==
    ASSUME Typed, NEW k \in Slot, NEW id \in Id, cache[id] # None,
           NEW u, IsUpdate(u), NEW early \in BOOLEAN, Submit(k, id, u, early)
    PROVE  StoreOK' /\ TaskOK' /\ (behind \subseteq Id)'
<1> DEFINE t == [aid |-> cache[id].aid, sid |-> id, update |-> u, early |-> early,
                 state |-> "queued", orphan |-> FALSE]
<1>1. task' = [task EXCEPT ![k] = t]
  BY DEF Submit
<1>2. IsTask(t)
  BY DEF IsTask, Typed, CacheOK, IsCached
<1> HIDE DEF t
<1>3. TaskOK'
  BY <1>1, <1>2 DEF TaskOK, Typed
<1>4. StoreOK' /\ (behind \subseteq Id)'
  BY DEF Submit, Typed, StoreOK
<1> QED
  BY <1>3, <1>4

\* New serials are stamped with a type-correct second, within the bound.
LEMMA StampType ==
    ASSUME SerialsOK, NEW new, new \subseteq Serial, Stamp(new)
    PROVE  SerialsOK'
<1>1. made' \in 0 .. MaxMade
  BY BoundsAssumption DEF Stamp, SerialsOK
<1>2. clock' \in Nat
  BY DEF Stamp, SerialsOK
<1>3. issued' \subseteq Serial /\ twice' \subseteq Serial
  BY DEF Stamp, SerialsOK
<1> QED
  BY <1>1, <1>2, <1>3 DEF SerialsOK

\* The requests that do not touch the cache.
LEMMA AskType ==
    ASSUME Typed, NEW k \in Slot, NEW id \in Id, cache[id] # None,
           NEW u, IsUpdate(u), Ask(k, id, u), SerialsOK'
    PROVE  Typed'
<1>1. StoreOK' /\ TaskOK' /\ (behind \subseteq Id)'
  BY SubmitType DEF Ask
<1>2. CacheOK'
  BY DEF Ask, Typed, CacheOK
<1> QED
  BY <1>1, <1>2 DEF Typed

-----------------------------------------------------------------------------
\* Every action leaves the variables well-typed: one lemma for each.
LEMMA ShopNormalType ==
    ASSUME Typed, NEW k \in Slot, NEW id \in Id, NEW g \in Good, NEW n \in 1 .. Batch,
           ShopNormal(k, id, g, n)
    PROVE  Typed'
<1> DEFINE items == Crafted(cache[id].items, g, n, "game")
           u == Change(-(n * Price[g]), {}, {}, items)
<1>1. IsInventory(items)
  BY CraftedType DEF Typed, SerialsOK
<1>2. -(n * Price[g]) \in Int
  BY PricesAssumption
<1>3. IsUpdate(u)
  BY <1>1, <1>2, ChangeType
<1>4. cache[id] # None /\ Ask(k, id, u) /\ Stamp(DOMAIN items)
  BY DEF ShopNormal
<1>5. DOMAIN items \subseteq Serial
  BY <1>1 DEF IsInventory
<1> HIDE DEF items, u
<1>6. SerialsOK'
  BY <1>4, <1>5, StampType DEF Typed
<1> QED
  BY <1>3, <1>4, <1>6, AskType

LEMMA ItemCommandType ==
    ASSUME Typed, NEW k \in Slot, NEW id \in Id, NEW g \in Good, NEW n \in 1 .. Batch,
           ItemCommand(k, id, g, n)
    PROVE  Typed'
<1> DEFINE items == Crafted(cache[id].items, g, n, "gm")
           u == Change(0, {}, {}, items)
<1>1. IsInventory(items)
  BY CraftedType DEF Typed, SerialsOK
<1>2. IsUpdate(u) /\ u.added = items
  BY <1>1, ChangeType DEF Change
<1>3. /\ cache[id] # None /\ Submit(k, id, u, TRUE) /\ Stamp(DOMAIN u.added)
      /\ cache' = [cache EXCEPT ![id] = Applied(cache[id], u, {})]
  BY DEF ItemCommand
<1>4. DOMAIN u.added \subseteq Serial
  BY <1>1, <1>2 DEF IsInventory
<1> HIDE DEF items, u
<1>5. SerialsOK'
  BY <1>3, <1>4, StampType DEF Typed
<1>6. StoreOK' /\ TaskOK' /\ (behind \subseteq Id)'
  BY <1>2, <1>3, SubmitType
<1>7. IsCached(Applied(cache[id], u, {}))
  BY <1>2, <1>3, AppliedType DEF Typed, CacheOK
<1>8. CacheOK'
  BY <1>3, <1>7 DEF Typed, CacheOK
<1> QED
  BY <1>5, <1>6, <1>8 DEF Typed

LEMMA ItemSellType ==
    ASSUME Typed, NEW k \in Slot, NEW id \in Id, NEW s, ItemSell(k, id, s)
    PROVE  Typed'
<1> DEFINE good == cache[id].items[s].good
           u == Change(SellPrice[good], {s}, {}, Nothing)
<1>1. cache[id] # None /\ s \in DOMAIN cache[id].items /\ Ask(k, id, u)
  BY DEF ItemSell
<1>2. s \in Serial /\ good \in Good
  BY <1>1 DEF Typed, CacheOK, IsCached, IsInventory, Item
<1>3. IsInventory(Nothing)
  BY FS_EmptySet DEF IsInventory, Nothing
<1>4. SellPrice[good] \in Int
  BY <1>2, PricesAssumption
<1>5. IsUpdate(u)
  BY <1>2, <1>3, <1>4, ChangeType
<1>6. SerialsOK'
  BY DEF ItemSell, Typed, SerialsOK, serials
<1> HIDE DEF u
<1> QED
  BY <1>1, <1>5, <1>6, AskType

LEMMA ItemDeleteType ==
    ASSUME Typed, NEW k \in Slot, NEW id \in Id, NEW S, ItemDelete(k, id, S)
    PROVE  Typed'
<1> DEFINE u == Change(0, S, {}, Nothing)
<1>1. cache[id] # None /\ S \subseteq DOMAIN cache[id].items /\ Ask(k, id, u)
  BY DEF ItemDelete
<1>2. S \subseteq Serial
  BY <1>1 DEF Typed, CacheOK, IsCached, IsInventory
<1>3. IsInventory(Nothing)
  BY FS_EmptySet DEF IsInventory, Nothing
<1>4. IsUpdate(u)
  BY <1>2, <1>3, ChangeType
<1>5. SerialsOK'
  BY DEF ItemDelete, Typed, SerialsOK, serials
<1> HIDE DEF u
<1> QED
  BY <1>1, <1>4, <1>5, AskType

\* A repair costs a natural number of points.
LEMMA RepairCostType ==
    ASSUME CacheOK, NEW id \in Id, cache[id] # None, NEW S, S \subseteq DOMAIN cache[id].items
    PROVE  RepairCost(cache[id].items, S) \in Nat
<1> DEFINE worn == {s \in S : cache[id].items[s].worn}
<1>1. IsFiniteSet(worn)
  BY FS_Subset DEF CacheOK, IsCached, IsInventory
<1>2. Cardinality(worn) \in Nat
  BY <1>1, FS_CardinalityType
<1> QED
  BY <1>2, PricesAssumption DEF RepairCost

LEMMA ItemRepairType ==
    ASSUME Typed, NEW k \in Slot, NEW id \in Id, NEW S, ItemRepair(k, id, S)
    PROVE  Typed'
<1> DEFINE items == cache[id].items
           u == Change(-RepairCost(items, S), {}, S, Nothing)
<1>1. cache[id] # None /\ S \subseteq DOMAIN items /\ Ask(k, id, u)
  BY DEF ItemRepair
<1>2. S \subseteq Serial
  BY <1>1 DEF Typed, CacheOK, IsCached, IsInventory
<1>3. IsInventory(Nothing)
  BY FS_EmptySet DEF IsInventory, Nothing
<1>4. -RepairCost(items, S) \in Int
  <2>1. RepairCost(items, S) \in Nat
    BY <1>1, RepairCostType DEF Typed
  <2> QED
    BY <2>1
<1>5. IsUpdate(u)
  BY <1>2, <1>3, <1>4, ChangeType
<1>6. SerialsOK'
  BY DEF ItemRepair, Typed, SerialsOK, serials
<1> HIDE DEF u
<1> QED
  BY <1>1, <1>5, <1>6, AskType

-----------------------------------------------------------------------------
\* The same for the tasks' steps, logins and logouts.
LEMMA CommitType ==
    ASSUME Typed, NEW k \in Slot, Commit(k)
    PROVE  Typed'
<1> DEFINE t == task[k]
           next == IF t.early THEN None ELSE [t EXCEPT !.state = "committed"]
<1>1. IsTask(t)
  BY DEF Commit, Typed, TaskOK
<1>2. StoreOK'
  <2>1. store' = [store EXCEPT ![t.aid] = Written(store[t.aid], t.update)]
    BY DEF Commit
  <2>2. IsAccount(Written(store[t.aid], t.update))
    BY <1>1, WrittenType DEF IsTask, Typed, StoreOK
  <2> QED
    BY <2>1, <2>2 DEF Typed, StoreOK
<1>3. next # None => IsTask(next)
  <2>1. [t EXCEPT !.state = "committed"]
          = [aid |-> t.aid, sid |-> t.sid, update |-> t.update, early |-> t.early,
             state |-> "committed", orphan |-> t.orphan]
    BY <1>1 DEF IsTask
  <2> QED
    BY <1>1, <2>1 DEF IsTask
<1>4. task' = [task EXCEPT ![k] = next]
  BY DEF Commit
<1> HIDE DEF next
<1>5. TaskOK'
  BY <1>3, <1>4 DEF Typed, TaskOK
<1>6. CacheOK' /\ SerialsOK' /\ (behind \subseteq Id)'
  BY DEF Commit, Typed, CacheOK, SerialsOK, serials
<1> QED
  BY <1>2, <1>5, <1>6 DEF Typed

LEMMA RefuseType ==
    ASSUME Typed, NEW k \in Slot, Refuse(k)
    PROVE  Typed'
BY DEF Refuse, Typed, StoreOK, CacheOK, TaskOK, SerialsOK, serials

LEMMA ApplyType ==
    ASSUME Typed, NEW k \in Slot, Apply(k)
    PROVE  Typed'
<1> DEFINE t == task[k]
<1>1. IsTask(t)
  BY DEF Apply, Typed, TaskOK
<1>2. TaskOK'
  BY DEF Apply, Typed, TaskOK
<1>3. StoreOK' /\ SerialsOK'
  BY DEF Apply, Typed, StoreOK, SerialsOK, serials
<1>4. (behind \subseteq Id)'
  BY <1>1 DEF Apply, Typed, IsTask
<1>5. CacheOK'
  <2>1. CASE cache[t.sid] = None
    BY <2>1 DEF Apply, Typed, CacheOK
  <2>2. CASE cache[t.sid] # None
    <3>1. PICK S : cache' = [cache EXCEPT ![t.sid] = Applied(cache[t.sid], t.update, S)]
      BY <2>2 DEF Apply
    <3>2. IsCached(Applied(cache[t.sid], t.update, S))
      BY <1>1, <2>2, AppliedType DEF IsTask, Typed, CacheOK
    <3> QED
      BY <3>1, <3>2 DEF Typed, CacheOK
  <2> QED
    BY <2>1, <2>2
<1> QED
  BY <1>2, <1>3, <1>4, <1>5 DEF Typed

LEMMA LoginType ==
    ASSUME Typed, NEW a \in Aid, NEW id \in Id, Login(a, id)
    PROVE  Typed'
<1> DEFINE c == [aid |-> a, mp |-> store[a].mp, items |-> store[a].items]
<1>1. cache' = [cache EXCEPT ![id] = c]
  BY DEF Login
<1>2. IsCached(c)
  BY BoundsAssumption DEF Login, IsCached, Typed, StoreOK, IsAccount
<1> HIDE DEF c
<1>3. CacheOK'
  BY <1>1, <1>2 DEF Typed, CacheOK
<1>4. StoreOK' /\ TaskOK' /\ SerialsOK' /\ (behind \subseteq Id)'
  BY DEF Login, Typed, StoreOK, TaskOK, SerialsOK, serials
<1> QED
  BY <1>3, <1>4 DEF Typed

LEMMA LogoutType ==
    ASSUME Typed, NEW id \in Id, Logout(id)
    PROVE  Typed'
<1>1. TaskOK'
  <2>1. ASSUME NEW k \in Slot, task'[k] # None PROVE IsTask(task'[k])
    <3> DEFINE t == task[k]
    <3>1. task'[k] = IF t # None /\ t.sid = id THEN [t EXCEPT !.orphan = TRUE] ELSE t
      BY DEF Logout
    <3>2. t # None => IsTask(t)
      BY DEF Typed, TaskOK
    <3> HIDE DEF t
    <3>3. CASE t # None /\ t.sid = id
      <4>1. IsTask(t)
        BY <3>2, <3>3
      <4>2. [t EXCEPT !.orphan = TRUE]
              = [aid |-> t.aid, sid |-> t.sid, update |-> t.update, early |-> t.early,
                 state |-> t.state, orphan |-> TRUE]
        <5>1. \A b : [t EXCEPT !.orphan = b]
                        = [aid |-> t.aid, sid |-> t.sid, update |-> t.update,
                           early |-> t.early, state |-> t.state, orphan |-> b]
          BY <4>1 DEF IsTask
        <5> QED
          BY <5>1, Zenon
      <4> QED
        BY <3>1, <3>3, <4>1, <4>2 DEF IsTask
    <3>4. CASE ~(t # None /\ t.sid = id)
      BY <2>1, <3>1, <3>2, <3>4
    <3> QED
      BY <3>3, <3>4
  <2> QED
    BY <2>1 DEF Logout, TaskOK
<1>2. CacheOK'
  BY DEF Logout, Typed, CacheOK
<1>3. StoreOK' /\ SerialsOK' /\ (behind \subseteq Id)'
  BY DEF Logout, Typed, StoreOK, SerialsOK, serials
<1> QED
  BY <1>1, <1>2, <1>3 DEF Typed

-----------------------------------------------------------------------------
\* Together: Typed is inductive.
LEMMA TypeStep == Typed /\ [Next]_vars => Typed'
<1> SUFFICES ASSUME Typed, [Next]_vars PROVE Typed'
  OBVIOUS
<1>1. ASSUME NEW k \in Slot, NEW id \in Id, NEW g \in Good, NEW n \in 1 .. Batch,
             ShopNormal(k, id, g, n) \/ ItemCommand(k, id, g, n)
      PROVE  Typed'
  BY <1>1, ShopNormalType, ItemCommandType
<1>2. ASSUME NEW k \in Slot, NEW id \in Id, NEW s \in Shown(id), ItemSell(k, id, s)
      PROVE  Typed'
  BY <1>2, ItemSellType
<1>3. ASSUME NEW k \in Slot, NEW id \in Id, NEW S \in SUBSET Shown(id),
             ItemDelete(k, id, S) \/ ItemRepair(k, id, S)
      PROVE  Typed'
  BY <1>3, ItemDeleteType, ItemRepairType
<1>4. ASSUME NEW k \in Slot, Commit(k) \/ Refuse(k) \/ Apply(k) PROVE Typed'
  BY <1>4, CommitType, RefuseType, ApplyType
<1>5. ASSUME NEW id \in Id, Logout(id) \/ \E a \in Aid : Login(a, id) PROVE Typed'
  BY <1>5, LoginType, LogoutType
<1>6. CASE UNCHANGED vars
  BY <1>6 DEF vars, serials, Typed, StoreOK, CacheOK, TaskOK, SerialsOK
<1> QED
  BY <1>1, <1>2, <1>3, <1>4, <1>5, <1>6 DEF Next

\* TypeOK of AccountUpdates: balances in the database are never negative, cached
\* ones are words, inventories are finite, and tasks carry well-formed updates.
THEOREM TypeCorrect == Spec => []TypeOK
<1>1. Typed => TypeOK
  BY TypeParts
<1> QED
  BY <1>1, TypeInit, TypeStep, PTL DEF Spec

-----------------------------------------------------------------------------
(***************************************************************************)
(* On MariaDB (Checked) the accounts in the database implement AccountBook.*)
(* A task carries the update of one request, so it has one of five shapes; *)
(* what the transaction asks of the database at its own time turns each    *)
(* into an action of AccountBook, and nothing need be known of the cache.  *)
(***************************************************************************)
Empty(f) == DOMAIN f = {}

Bought(u) ==
    \E g \in Good :
        /\ u.deleted = {} /\ u.repaired = {} /\ ~Empty(u.added)
        /\ u.added = Book!Goods(DOMAIN u.added, g)
        /\ u.delta = -(Cardinality(DOMAIN u.added) * Price[g])
Sold(u) ==
    \E s \in Serial, g \in Good :
        /\ u.deleted = {s} /\ u.repaired = {} /\ Empty(u.added)
        /\ u.delta = SellPrice[g]
Dropped(u) ==
    u.deleted # {} /\ u.repaired = {} /\ Empty(u.added) /\ u.delta = 0
Mended(u) ==
    u.deleted = {} /\ u.repaired # {} /\ Empty(u.added) /\ -u.delta \in Nat
Granted(u) ==
    /\ u.deleted = {} /\ u.repaired = {} /\ ~Empty(u.added) /\ u.delta = 0
    /\ \A s \in DOMAIN u.added : s.origin = "gm"
    /\ \E g \in Good : u.added = Book!Goods(DOMAIN u.added, g)

Shape(u) == Bought(u) \/ Sold(u) \/ Dropped(u) \/ Mended(u) \/ Granted(u)
Shaped == \A k \in Slot : task[k] # None => Shape(task[k].update)

\* A request leaves the other tasks alone.
LEMMA SubmitShape ==
    ASSUME Typed, Shaped, NEW k \in Slot, NEW id, NEW u, Shape(u), NEW early,
           Submit(k, id, u, early)
    PROVE  Shaped'
<1> DEFINE t == [aid |-> cache[id].aid, sid |-> id, update |-> u, early |-> early,
                 state |-> "queued", orphan |-> FALSE]
<1>1. task' = [task EXCEPT ![k] = t]
  BY DEF Submit
<1>2. t.update = u
  OBVIOUS
<1> HIDE DEF t
<1>3. ASSUME NEW j \in Slot, task'[j] # None PROVE Shape(task'[j].update)
  BY <1>1, <1>2, <1>3 DEF Shaped, Typed, TaskOK
<1> QED
  BY <1>3 DEF Shaped

\* What Crafted makes is of one good and of one origin.
LEMMA CraftedShape ==
    ASSUME NEW items, NEW g, NEW n, NEW origin, NEW new, new = Crafted(items, g, n, origin)
    PROVE  /\ new = Book!Goods(DOMAIN new, g)
           /\ \A s \in DOMAIN new : s.origin = origin
BY DEF Crafted, Book!Goods

\* Whatever task a step leaves has the update of a task before it.
LEMMA ShapeKept ==
    ASSUME Shaped,
           \A k \in Slot : task'[k] # None =>
               task[k] # None /\ task'[k].update = task[k].update
    PROVE  Shaped'
BY DEF Shaped

\* A task has its shape from its request on.
LEMMA ShapeStep == Typed /\ Shaped /\ [Next]_vars => Shaped'
<1> SUFFICES ASSUME Typed, Shaped, [Next]_vars PROVE Shaped'
  OBVIOUS
<1>1. ASSUME NEW k \in Slot, NEW id \in Id, NEW g \in Good, NEW n \in 1 .. Batch,
             ShopNormal(k, id, g, n)
      PROVE  Shaped'
  <2> DEFINE items == Crafted(cache[id].items, g, n, "game")
             u == Change(-(n * Price[g]), {}, {}, items)
  <2>1. Cardinality(DOMAIN items) = n /\ Submit(k, id, u, FALSE)
    BY <1>1 DEF ShopNormal, Ask
  <2>2. items = Book!Goods(DOMAIN items, g)
    BY CraftedShape
  <2> HIDE DEF items
  <2>3. ~Empty(items)
    BY <2>1, FS_EmptySet DEF Empty
  <2>4. Bought(u)
    BY <2>1, <2>2, <2>3 DEF Bought, Change
  <2> HIDE DEF u
  <2> QED
    BY <2>1, <2>4, SubmitShape DEF Shape
<1>2. ASSUME NEW k \in Slot, NEW id \in Id, NEW g \in Good, NEW n \in 1 .. Batch,
             ItemCommand(k, id, g, n)
      PROVE  Shaped'
  <2> DEFINE items == Crafted(cache[id].items, g, n, "gm")
             u == Change(0, {}, {}, items)
  <2>1. u.added = items
    BY DEF Change
  <2>2. Cardinality(DOMAIN items) = n /\ Submit(k, id, u, TRUE)
    BY <1>2, <2>1 DEF ItemCommand
  <2>3. items = Book!Goods(DOMAIN items, g) /\ \A s \in DOMAIN items : s.origin = "gm"
    BY CraftedShape
  <2> HIDE DEF items
  <2>4. ~Empty(items)
    BY <2>2, FS_EmptySet DEF Empty
  <2>5. Granted(u)
    BY <2>3, <2>4 DEF Granted, Change
  <2> HIDE DEF u
  <2> QED
    BY <2>2, <2>5, SubmitShape DEF Shape
<1>3. ASSUME NEW k \in Slot, NEW id \in Id, NEW s, ItemSell(k, id, s)
      PROVE  Shaped'
  <2> DEFINE good == cache[id].items[s].good
             u == Change(SellPrice[good], {s}, {}, Nothing)
  <2>1. cache[id] # None /\ s \in DOMAIN cache[id].items /\ Submit(k, id, u, FALSE)
    BY <1>3 DEF ItemSell, Ask
  <2>2. s \in Serial /\ good \in Good
    BY <2>1 DEF Typed, CacheOK, IsCached, IsInventory, Item
  <2>3. Sold(u)
    BY <2>2 DEF Sold, Change, Nothing, Empty
  <2> HIDE DEF u
  <2> QED
    BY <2>1, <2>3, SubmitShape DEF Shape
<1>4. ASSUME NEW k \in Slot, NEW id \in Id, NEW S, ItemDelete(k, id, S)
      PROVE  Shaped'
  <2> DEFINE u == Change(0, S, {}, Nothing)
  <2>1. S # {} /\ Submit(k, id, u, FALSE)
    BY <1>4 DEF ItemDelete, Ask
  <2>2. Dropped(u)
    BY <2>1 DEF Dropped, Change, Nothing, Empty
  <2> HIDE DEF u
  <2> QED
    BY <2>1, <2>2, SubmitShape DEF Shape
<1>5. ASSUME NEW k \in Slot, NEW id \in Id, NEW S, ItemRepair(k, id, S)
      PROVE  Shaped'
  <2> DEFINE cost == RepairCost(cache[id].items, S)
             u == Change(-cost, {}, S, Nothing)
  <2>1. S # {} /\ Submit(k, id, u, FALSE)
    BY <1>5 DEF ItemRepair, Ask
  <2>2. cost \in Nat
    BY <1>5, RepairCostType DEF ItemRepair, Typed
  <2> HIDE DEF cost
  <2>3. Mended(u)
    BY <2>1, <2>2 DEF Mended, Change, Nothing, Empty
  <2> HIDE DEF u
  <2> QED
    BY <2>1, <2>3, SubmitShape DEF Shape
<1>6. ASSUME NEW k \in Slot, Commit(k) PROVE Shaped'
  <2>1. ASSUME NEW j \in Slot, task'[j] # None
        PROVE  task[j] # None /\ task'[j].update = task[j].update
    <3>1. IsTask(task[k]) /\ DOMAIN task = Slot
      BY <1>6 DEF Commit, Typed, TaskOK
    <3> QED
      BY <1>6, <2>1, <3>1 DEF Commit, IsTask
  <2> QED
    BY <2>1, ShapeKept
<1>7. ASSUME NEW k \in Slot, Refuse(k) \/ Apply(k) PROVE Shaped'
  BY <1>7, ShapeKept DEF Refuse, Apply, Typed, TaskOK
<1>8. ASSUME NEW id \in Id, Logout(id) PROVE Shaped'
  <2>1. ASSUME NEW j \in Slot, task'[j] # None
        PROVE  task[j] # None /\ task'[j].update = task[j].update
    <3>1. task[j] # None => IsTask(task[j])
      BY DEF Typed, TaskOK
    <3> QED
      BY <1>8, <2>1, <3>1 DEF Logout, IsTask
  <2> QED
    BY <2>1, ShapeKept
<1>9. CASE UNCHANGED task
  BY <1>9, ShapeKept
<1> QED
  BY <1>1, <1>2, <1>3, <1>4, <1>5, <1>6, <1>7, <1>8, <1>9 DEF Next, Login, vars

\* Dropping nothing, repairing nothing and adding nothing leave an inventory as
\* it is; serials that are not in it do not matter.
LEMMA InventoryIdentities ==
    ASSUME NEW items, IsInventory(items), NEW S, NEW more
    PROVE  /\ Without(items, {}) = items
           /\ Repaired(items, {}) = items
           /\ Empty(more) => With(items, more) = items
           /\ Without(items, S) = Without(items, S \cap DOMAIN items)
           /\ Repaired(items, S) = Repaired(items, S \cap DOMAIN items)
<1>1. items = [s \in DOMAIN items |-> items[s]]
  BY DEF IsInventory
<1>2. Without(items, {}) = items
  BY <1>1 DEF Without
<1>3. Repaired(items, {}) = items
  BY <1>1 DEF Repaired
<1>4. Empty(more) => With(items, more) = items
  BY <1>1 DEF With, Empty
<1>5. Without(items, S) = Without(items, S \cap DOMAIN items)
  BY DEF Without
<1>6. Repaired(items, S) = Repaired(items, S \cap DOMAIN items)
  BY DEF Repaired
<1> QED
  BY <1>2, <1>3, <1>4, <1>5, <1>6

\* AccountBook and AccountUpdates extend the same Accounts.
LEMMA SameAccounts ==
    ASSUME NEW acc, NEW items, NEW S, NEW more
    PROVE  /\ Book!Owned(acc) = Owned(acc)
           /\ Book!Without(items, S) = Without(items, S)
           /\ Book!With(items, more) = With(items, more)
           /\ Book!Repaired(items, S) = Repaired(items, S)
BY DEF Book!Owned, Owned, Book!Without, Without, Book!With, With, Book!Repaired, Repaired

\* And they count alike.
LEMMA SameCardinality == \A S : Book!Cardinality(S) = Cardinality(S)
BY DEF Book!Cardinality, Cardinality

\* A transaction that MariaDB accepts is one step of AccountBook.
LEMMA CommitRefines ==
    ASSUME Typed, Shaped, Checked, NEW k \in Slot, Commit(k)
    PROVE  Book!Next
<1> DEFINE a == task[k].aid
           u == task[k].update
           acc == store[a]
<1>1. a \in Aid /\ IsUpdate(u) /\ Shape(u)
  BY DEF Commit, Typed, TaskOK, IsTask, Shaped
<1>2. IsAccount(acc) /\ IsInventory(acc.items)
  BY <1>1 DEF Typed, StoreOK, IsAccount
<1>3. Accepts(acc, u) /\ store' = [store EXCEPT ![a] = Written(acc, u)]
  BY DEF Commit
<1> HIDE DEF a, u, acc
<1>4. Pays(acc, u) /\ acc.mp + u.delta >= 0
  BY <1>3 DEF Accepts, Pays
<1>5. Written(acc, u) = [mp |-> acc.mp + u.delta,
                         items |-> With(Repaired(Without(acc.items, u.deleted), u.repaired), u.added)]
  BY <1>4 DEF Written
<1>6. acc.mp \in Nat /\ u.delta \in Int
  BY <1>1, <1>2 DEF IsAccount, IsUpdate
<1>7. store'[a] = Written(acc, u)
  BY <1>1, <1>3 DEF Typed, StoreOK
<1>8. CASE u.deleted = {} /\ u.repaired = {} /\ ~Empty(u.added)
  <2>1. Written(acc, u) = [mp |-> acc.mp + u.delta, items |-> With(acc.items, u.added)]
    BY <1>2, <1>5, <1>8, InventoryIdentities
  <2>2. Book!New(a) = DOMAIN u.added
    <3>1. DOMAIN store'[a].items = DOMAIN acc.items \cup DOMAIN u.added
      BY <1>7, <2>1 DEF With
    <3>2. DOMAIN u.added \cap DOMAIN acc.items = {}
      BY <1>3 DEF Accepts, Owned
    <3> QED
      BY <3>1, <3>2 DEF Book!New, Book!Owned, Owned, acc
  <2>3. CASE Bought(u)
    <3>1. PICK g \in Good :
             /\ u.added = Book!Goods(DOMAIN u.added, g)
             /\ u.delta = -(Cardinality(DOMAIN u.added) * Price[g])
      BY <2>3 DEF Bought
    <3> DEFINE cost == Cardinality(Book!New(a)) * Price[g]
    <3>2. cost \in Nat
      <4>1. Cardinality(DOMAIN u.added) \in Nat
        BY <1>1, FS_CardinalityType DEF IsUpdate, IsInventory
      <4> QED
        BY <2>2, <4>1, PricesAssumption
    <3>3. u.delta = -cost
      BY <2>2, <3>1
    <3> HIDE DEF cost
    <3>4. cost <= acc.mp /\ acc.mp + u.delta = acc.mp - cost
      BY <1>4, <1>6, <3>2, <3>3
    <3>5. store' = [store EXCEPT ![a] =
                      [mp |-> acc.mp - cost,
                       items |-> Book!With(acc.items, Book!Goods(Book!New(a), g))]]
      BY <1>3, <2>1, <2>2, <3>1, <3>4, SameAccounts
    <3>6. Book!New(a) # {}
      BY <1>8, <2>2 DEF Empty
    <3>7. Book!Buy(a)
      <4>1. /\ Cardinality(Book!New(a)) * Price[g] <= store[a].mp
            /\ store' = [store EXCEPT ![a] =
                            [mp |-> store[a].mp - Cardinality(Book!New(a)) * Price[g],
                             items |-> Book!With(store[a].items, Book!Goods(Book!New(a), g))]]
        BY <3>4, <3>5 DEF cost, acc
      <4> QED
        BY <3>6, <4>1, SameCardinality DEF Book!Buy
    <3> QED
      BY <1>1, <3>7 DEF Book!Next
  <2>4. CASE Granted(u)
    <3>1. PICK g \in Good : u.added = Book!Goods(DOMAIN u.added, g)
      BY <2>4 DEF Granted
    <3>2. Written(acc, u) = [mp |-> acc.mp, items |-> With(acc.items, u.added)]
      BY <1>6, <2>1, <2>4 DEF Granted
    <3>3. store' = [store EXCEPT ![a].items = With(acc.items, Book!Goods(Book!New(a), g))]
      <4>1. acc = [mp |-> acc.mp, items |-> acc.items]
        BY <1>2 DEF IsAccount
      <4> QED
        BY <1>3, <2>2, <3>1, <3>2, <4>1 DEF acc
    <3>4. Book!Grant(a)
      BY <1>8, <2>2, <2>4, <3>3, SameAccounts DEF Book!Grant, Granted, Empty, acc
    <3> QED
      BY <1>1, <3>4 DEF Book!Next
  <2> QED
    BY <1>1, <1>8, <2>3, <2>4 DEF Shape, Sold, Dropped, Mended
<1>9. CASE Sold(u)
  <2>1. PICK s \in Serial, g \in Good :
           u.deleted = {s} /\ u.repaired = {} /\ Empty(u.added) /\ u.delta = SellPrice[g]
    BY <1>9 DEF Sold
  <2>2. s \in Owned(acc)
    BY <1>3, <2>1 DEF Accepts
  <2>3. Written(acc, u) = [mp |-> acc.mp + SellPrice[g], items |-> Without(acc.items, {s})]
    <3>1. IsInventory(Without(acc.items, {s}))
      BY <1>2, InventoryTypes
    <3> QED
      BY <1>5, <2>1, <3>1, InventoryIdentities
  <2>4. Book!Sell(a)
    BY <1>3, <2>2, <2>3, SameAccounts DEF Book!Sell, acc
  <2> QED
    BY <1>1, <2>4 DEF Book!Next
<1>10. CASE Dropped(u)
  <2> DEFINE S == u.deleted \cap DOMAIN acc.items
  <2>1. S \in SUBSET Owned(acc) /\ S # {}
    BY <1>3, <1>10 DEF Accepts, Owned, Dropped
  <2>2. Written(acc, u) = [mp |-> acc.mp, items |-> Without(acc.items, S)]
    <3>1. IsInventory(Without(acc.items, u.deleted))
      BY <1>2, InventoryTypes
    <3>2. Without(acc.items, u.deleted) = Without(acc.items, S)
      BY <1>2, <1>10, InventoryIdentities DEF Dropped
    <3>3. /\ Repaired(Without(acc.items, S), {}) = Without(acc.items, S)
          /\ With(Without(acc.items, S), u.added) = Without(acc.items, S)
      BY <1>10, <3>1, <3>2, InventoryIdentities DEF Dropped
    <3> QED
      BY <1>5, <1>6, <1>10, <3>2, <3>3 DEF Dropped
  <2> HIDE DEF S
  <2>3. store' = [store EXCEPT ![a].items = Without(acc.items, S)]
    <3>1. acc = [mp |-> acc.mp, items |-> acc.items]
      BY <1>2 DEF IsAccount
    <3> QED
      BY <1>3, <2>2, <3>1 DEF acc
  <2>4. Book!Delete(a)
    BY <2>1, <2>3, SameAccounts DEF Book!Delete, acc
  <2> QED
    BY <1>1, <2>4 DEF Book!Next
<1>11. CASE Mended(u)
  <2> DEFINE S == u.repaired \cap DOMAIN acc.items
             cost == -u.delta
  <2>1. S \in SUBSET Owned(acc) /\ S # {}
    BY <1>3, <1>11 DEF Accepts, Owned, Mended
  <2>2. cost \in 0 .. acc.mp /\ acc.mp + u.delta = acc.mp - cost
    BY <1>4, <1>6, <1>11 DEF Mended
  <2>3. Written(acc, u) = [mp |-> acc.mp - cost, items |-> Repaired(acc.items, S)]
    <3>1. Repaired(acc.items, u.repaired) = Repaired(acc.items, S)
      BY <1>2, <1>11, InventoryIdentities DEF Mended
    <3>2. IsInventory(Repaired(acc.items, S))
      BY <1>2, InventoryTypes
    <3>3. Without(acc.items, u.deleted) = acc.items
      BY <1>2, <1>11, InventoryIdentities DEF Mended
    <3>4. With(Repaired(acc.items, S), u.added) = Repaired(acc.items, S)
      BY <1>11, <3>2, InventoryIdentities DEF Mended
    <3> QED
      BY <1>5, <2>2, <3>1, <3>3, <3>4
  <2> HIDE DEF S, cost
  <2>4. Book!Repair(a)
    BY <1>3, <2>1, <2>2, <2>3, SameAccounts DEF Book!Repair, acc
  <2> QED
    BY <1>1, <2>4 DEF Book!Next
<1> QED
  BY <1>1, <1>8, <1>9, <1>10, <1>11 DEF Shape, Bought, Granted

\* No other step touches the database.
LEMMA StepRefines ==
    ASSUME Checked
    PROVE  Typed /\ Shaped /\ [Next]_vars => [Book!Next]_store
<1> SUFFICES ASSUME Typed, Shaped, [Next]_vars PROVE [Book!Next]_store
  OBVIOUS
<1>1. ASSUME NEW k \in Slot, Commit(k) PROVE Book!Next
  BY <1>1, CommitRefines
<1>2. ASSUME NEW k \in Slot, NEW id \in Id, NEW g \in Good, NEW n \in 1 .. Batch,
             ShopNormal(k, id, g, n) \/ ItemCommand(k, id, g, n)
      PROVE  UNCHANGED store
  BY <1>2 DEF ShopNormal, ItemCommand, Ask, Submit
<1>3. ASSUME NEW k \in Slot, NEW id \in Id, NEW s, ItemSell(k, id, s)
      PROVE  UNCHANGED store
  BY <1>3 DEF ItemSell, Ask, Submit
<1>4. ASSUME NEW k \in Slot, NEW id \in Id, NEW S, ItemDelete(k, id, S) \/ ItemRepair(k, id, S)
      PROVE  UNCHANGED store
  BY <1>4 DEF ItemDelete, ItemRepair, Ask, Submit
<1>5. ASSUME NEW k \in Slot, Refuse(k) \/ Apply(k) PROVE UNCHANGED store
  BY <1>5 DEF Refuse, Apply
<1>6. ASSUME NEW id \in Id, Logout(id) \/ \E a \in Aid : Login(a, id) PROVE UNCHANGED store
  BY <1>6 DEF Logout, Login
<1>7. CASE UNCHANGED vars
  BY <1>7 DEF vars
<1> QED
  BY <1>1, <1>2, <1>3, <1>4, <1>5, <1>6, <1>7 DEF Next

\* On MariaDB the accounts in the database change by whole updates that are paid
\* for (UpdateAccount), for any number of accounts and overlapping requests.
THEOREM ImplementsAccountBook == ASSUME Checked PROVE Spec => WholeUpdates
<1>1. Init => Typed /\ Shaped /\ Book!Init
  <2>1. Init => Shaped /\ Book!Init
    BY DEF Init, Shaped, Book!Init
  <2> QED
    BY <2>1, TypeInit
<1>2. Typed /\ Shaped /\ [Next]_vars => Typed' /\ Shaped'
  BY TypeStep, ShapeStep
<1>3. Typed /\ Shaped /\ [Next]_vars => [Book!Next]_store
  BY StepRefines
<1> QED
  BY <1>1, <1>2, <1>3, PTL DEF Spec, WholeUpdates, Book!Spec
-----------------------------------------------------------------------------
(***************************************************************************)
(* Cached items agree with the database's (ItemsAgree).  Every serial that *)
(* anything knows has been made (Recorded), so new serials, unless made    *)
(* twice in one second, are new everywhere.  A task whose session is still *)
(* there belongs to the account cached under its id, which is cached       *)
(* nowhere else (Attached, Alone), so the other sessions' tasks leave the  *)
(* account alone or mark it.  For one serial of one account this makes     *)
(* Whole inductive: it is bought by at most one task, and nobody can ask   *)
(* to drop it before that task is over.                                    *)
(***************************************************************************)

\* What is in the database at the start was made before.
InitialIsOld == \A acc \in Initial : \A s \in DOMAIN acc.items : s.time = 0

Made(s) == s.time < clock \/ s \in issued

Recorded ==
    /\ \A s \in issued : s.time <= clock
    /\ \A a \in Aid : \A s \in DOMAIN store[a].items : Made(s)
    /\ \A id \in Id : cache[id] # None => \A s \in DOMAIN cache[id].items : Made(s)
    /\ \A k \in Slot : task[k] # None =>
          \A s \in DOMAIN task[k].update.added \cup task[k].update.deleted : Made(s)

Attached ==
    \A k \in Slot : (task[k] # None /\ ~task[k].orphan) =>
        cache[task[k].sid] # None /\ cache[task[k].sid].aid = task[k].aid

Alone ==
    \A i, j \in Id : (cache[i] # None /\ cache[j] # None /\ cache[i].aid = cache[j].aid) => i = j

\* The staff's tasks only add items of the staff.
Gifts ==
    \A k \in Slot : (task[k] # None /\ task[k].early) =>
        /\ task[k].update.delta = 0 /\ task[k].update.deleted = {}
        /\ \A s \in DOMAIN task[k].update.added : s.origin = "gm"

Own(id)    == {k \in Slot : task[k] # None /\ task[k].sid = id /\ ~task[k].orphan}
Adds(k, s) == s \in DOMAIN task[k].update.added
Drops(k, s) == s \in task[k].update.deleted
Done(k)    == task[k].state = "committed"
Items(id)  == cache[id].items
Saved(id)  == store[cache[id].aid].items
Known      == {s \in Serial : s.origin = "game"} \ twice

Whole(id, s) ==
    /\ \A k \in Own(id) : Adds(k, s) =>
          /\ s \notin DOMAIN Items(id)
          /\ \A j \in Own(id) : ~Drops(j, s) /\ (Adds(j, s) => j = k)
          /\ Done(k) => /\ s \in DOMAIN Saved(id)
                        /\ Saved(id)[s].good = task[k].update.added[s].good
          /\ ~Done(k) => s \notin DOMAIN Saved(id)
    /\ \A k \in Own(id) : (Drops(k, s) /\ Done(k)) => s \notin DOMAIN Saved(id)
    /\ (s \in DOMAIN Items(id) /\ s \in DOMAIN Saved(id)) =>
          Items(id)[s].good = Saved(id)[s].good
    /\ (s \in DOMAIN Saved(id) /\ s \notin DOMAIN Items(id)) =>
          \E k \in Own(id) : Adds(k, s) /\ Done(k)
    /\ (s \in DOMAIN Items(id) /\ s \notin DOMAIN Saved(id)) =>
          \E k \in Own(id) : Drops(k, s) /\ Done(k)

AllWhole == \A id \in Id : Current(id) => \A s \in Known : Whole(id, s)

Traced == Recorded /\ Attached /\ Alone /\ Gifts /\ AllWhole

\* The property follows.
LEMMA TracedAgree == Typed /\ Traced => ItemsAgree
<1> SUFFICES ASSUME Typed, Traced, NEW id \in Id, Current(id),
                    NEW s \in DOMAIN Saved(id) \cup DOMAIN Items(id),
                    s.origin = "game", s \notin twice
             PROVE  IF s \notin DOMAIN Items(id)
                    THEN s \in UNION {DOMAIN task[k].update.added : k \in Pending(id)}
                    ELSE IF s \notin DOMAIN Saved(id)
                         THEN s \in UNION {task[k].update.deleted : k \in Pending(id)}
                         ELSE Items(id)[s].good = Saved(id)[s].good
  BY DEF ItemsAgree, Items, Saved
<1>1. IsCached(cache[id]) /\ cache[id].aid \in Aid
  BY DEF Typed, CacheOK, Current, IsCached
<1>2. IsInventory(Items(id)) /\ IsInventory(Saved(id))
  BY <1>1 DEF Typed, StoreOK, IsAccount, IsCached, Items, Saved
<1>3. s \in Serial
  BY <1>2 DEF IsInventory
<1>4. Whole(id, s)
  BY <1>3 DEF Traced, AllWhole, Known
<1>5. \A k \in Own(id) : Done(k) => k \in Pending(id)
  BY DEF Own, Done, Pending
<1>6. CASE s \notin DOMAIN Items(id)
  <2>1. PICK k \in Own(id) : Adds(k, s) /\ Done(k)
    BY <1>4, <1>6 DEF Whole
  <2> QED
    BY <1>5, <1>6, <2>1 DEF Adds
<1>7. CASE s \in DOMAIN Items(id) /\ s \notin DOMAIN Saved(id)
  <2>1. PICK k \in Own(id) : Drops(k, s) /\ Done(k)
    BY <1>4, <1>7 DEF Whole
  <2> QED
    BY <1>5, <1>7, <2>1 DEF Drops
<1> QED
  BY <1>4, <1>6, <1>7 DEF Whole

LEMMA TracedInit == ASSUME InitialIsOld PROVE Init => Traced
<1> SUFFICES ASSUME Init PROVE Traced
  OBVIOUS
<1>1. \A a \in Aid : store[a] \in Initial
  BY DEF Init
<1>2. Recorded
  BY <1>1 DEF InitialIsOld, Init, Recorded, Made
<1>3. Attached /\ Alone /\ Gifts /\ AllWhole
  BY DEF Init, Attached, Alone, Gifts, AllWhole, Current
<1> QED
  BY <1>2, <1>3 DEF Traced

\* A serial that agrees in two inventories.
Alike(f, g, s) == (s \in DOMAIN f <=> s \in DOMAIN g) /\ (s \in DOMAIN f => f[s].good = g[s].good)

\* A step that the serial and the tasks that mention it have no part in.
LEMMA WholeKept ==
    ASSUME NEW id \in Id, NEW s, Whole(id, s),
           Alike(Items(id)', Items(id), s), Alike(Saved(id)', Saved(id), s),
           \A k \in Slot :
               \/ k \in Own(id) /\ k \in Own(id)' /\ task'[k] = task[k]
               \/ /\ k \in Own(id) => ~Adds(k, s) /\ ~Drops(k, s)
                  /\ k \in Own(id)' => ~Adds(k, s)' /\ ~Drops(k, s)'
    PROVE  Whole(id, s)'
<1>1. \A k \in Own(id) : (Adds(k, s) \/ Drops(k, s)) => k \in Own(id)' /\ task'[k] = task[k]
  BY DEF Own
<1>2. \A k \in Own(id)' : (Adds(k, s)' \/ Drops(k, s)') =>
          k \in Own(id) /\ task'[k] = task[k]
  BY DEF Own
<1>3. \A k \in Own(id)' : (Adds(k, s)' \/ Drops(k, s)') =>
          /\ k \in Own(id) /\ (Adds(k, s)' <=> Adds(k, s)) /\ (Drops(k, s)' <=> Drops(k, s))
          /\ (Done(k)' <=> Done(k))
          /\ task'[k].update.added[s].good = task[k].update.added[s].good
  BY <1>2 DEF Adds, Drops, Done
<1>4. \A k \in Own(id) : (Adds(k, s) \/ Drops(k, s)) =>
          /\ k \in Own(id)' /\ (Adds(k, s)' <=> Adds(k, s)) /\ (Drops(k, s)' <=> Drops(k, s))
          /\ (Done(k)' <=> Done(k))
  BY <1>1 DEF Adds, Drops, Done
<1> QED
  BY <1>3, <1>4 DEF Whole, Alike
\* Serials that have been made stay so, and stamped ones have been.
LEMMA MadeKept ==
    ASSUME SerialsOK, Recorded, UNCHANGED serials \/ \E new : Stamp(new)
    PROVE  \A s \in Serial : Made(s) => Made(s)'
<1>1. CASE UNCHANGED serials
  BY <1>1 DEF Made, serials
<1>2. ASSUME NEW new, Stamp(new) PROVE \A s \in Serial : Made(s) => Made(s)'
  BY <1>2 DEF Stamp, Made, Recorded, SerialsOK, Serial
<1> QED
  BY <1>1, <1>2

LEMMA StampMakes ==
    ASSUME SerialsOK, Recorded, NEW new, Stamp(new), \A s \in new : s.time = clock
    PROVE  /\ \A s \in new : Made(s)'
           /\ \A s \in issued' : s.time <= clock'
           /\ \A s \in new : s \notin twice' => ~Made(s)
<1>1. clock \in Nat /\ issued \subseteq Serial
  BY DEF SerialsOK
<1>2. CASE clock' = clock /\ issued' = issued \cup new
  BY <1>1, <1>2 DEF Stamp, Made, Recorded
<1>3. CASE clock' = clock + 1 /\ issued' = {}
  BY <1>1, <1>3 DEF Stamp, Made, Recorded
<1> QED
  BY <1>2, <1>3 DEF Stamp

\* What inventories hold and updates name are serials.
LEMMA AllSerials ==
    ASSUME Typed
    PROVE  /\ \A a \in Aid : DOMAIN store[a].items \subseteq Serial
           /\ \A id \in Id : cache[id] # None =>
                 cache[id].aid \in Aid /\ DOMAIN cache[id].items \subseteq Serial
           /\ \A k \in Slot : task[k] # None =>
                 /\ task[k].aid \in Aid /\ task[k].sid \in Id
                 /\ DOMAIN task[k].update.added \subseteq Serial
                 /\ task[k].update.deleted \subseteq Serial
<1>1. \A a \in Aid : DOMAIN store[a].items \subseteq Serial
  BY DEF Typed, StoreOK, IsAccount, IsInventory
<1>2. \A id \in Id : cache[id] # None =>
          cache[id].aid \in Aid /\ DOMAIN cache[id].items \subseteq Serial
  BY DEF Typed, CacheOK, IsCached, IsInventory
<1>3. \A k \in Slot : task[k] # None => IsTask(task[k])
  BY DEF Typed, TaskOK
<1>4. \A k \in Slot : task[k] # None =>
          /\ task[k].aid \in Aid /\ task[k].sid \in Id
          /\ DOMAIN task[k].update.added \subseteq Serial
          /\ task[k].update.deleted \subseteq Serial
  BY <1>3 DEF IsTask, IsUpdate, IsInventory
<1> QED
  BY <1>1, <1>2, <1>4

\* The items that updates leave.
LEMMA LeftOver ==
    ASSUME NEW items, NEW D, NEW R, NEW more, NEW s
    PROVE  LET new == With(Repaired(Without(items, D), R), more)
           IN  /\ s \in DOMAIN new <=> (s \in DOMAIN items /\ s \notin D) \/ s \in DOMAIN more
               /\ s \in DOMAIN more => new[s] = more[s]
               /\ (s \in DOMAIN items /\ s \notin D /\ s \notin DOMAIN more) =>
                     new[s].good = items[s].good
<1> DEFINE w == Without(items, D)
           r == Repaired(w, R)
           new == With(r, more)
<1>1. DOMAIN w = DOMAIN items \ D /\ \A x \in DOMAIN w : w[x] = items[x]
  BY DEF Without
<1>2. DOMAIN r = DOMAIN w /\ \A x \in DOMAIN r : r[x].good = w[x].good
  BY DEF Repaired
<1>3. DOMAIN new = DOMAIN r \cup DOMAIN more
  BY DEF With
<1>4. \A x \in DOMAIN new : new[x] = IF x \in DOMAIN more THEN more[x] ELSE r[x]
  BY DEF With
<1> HIDE DEF w, r, new
<1>5. /\ s \in DOMAIN new <=> (s \in DOMAIN items /\ s \notin D) \/ s \in DOMAIN more
      /\ s \in DOMAIN more => new[s] = more[s]
      /\ (s \in DOMAIN items /\ s \notin D /\ s \notin DOMAIN more) => new[s].good = items[s].good
  BY <1>1, <1>2, <1>3, <1>4
<1> QED
  BY <1>5 DEF w, r, new
\* None is taken neither for an account nor for a task.
NoneIsNothing == ~IsCached(None) /\ ~IsTask(None)

\* The cached accounts stay who they are, and but for the staff's items stay as
\* they are.
CacheAlike ==
    \A j \in Id :
        /\ (cache[j] = None) <=> (cache'[j] = None)
        /\ cache[j] # None =>
              /\ cache'[j].aid = cache[j].aid
              /\ \A s \in DOMAIN cache'[j].items : Made(s)'
              /\ \A s \in Known : Alike(cache'[j].items, cache[j].items, s)

\* What a request makes of the serials, and may name.
Allows(id, u, early) ==
    /\ \A s \in Serial : Made(s) => Made(s)'
    /\ \A s \in issued' : s.time <= clock'
    /\ twice \subseteq twice'
    /\ \A s \in DOMAIN u.added : Made(s)' /\ (s \in Known' => ~Made(s))
    /\ u.deleted \subseteq DOMAIN Items(id)
    /\ early => /\ u.delta = 0 /\ u.deleted = {}
                /\ \A s \in DOMAIN u.added : s.origin = "gm"

\* A request adds a task whose new items nothing has heard of, and which drops
\* only what is cached.
LEMMA SubmitTraced ==
    ASSUME Typed, Traced, NEW k \in Slot, NEW id \in Id, cache[id] # None,
           NEW u, IsUpdate(u), NEW early \in BOOLEAN, Submit(k, id, u, early),
           CacheAlike, Allows(id, u, early)
    PROVE  Traced'
<1> DEFINE t == [aid |-> cache[id].aid, sid |-> id, update |-> u, early |-> early,
                 state |-> "queued", orphan |-> FALSE]
<1>1. /\ task[k] = None /\ task' = [task EXCEPT ![k] = t] /\ UNCHANGED <<store, behind>>
      /\ DOMAIN task = Slot
  BY DEF Submit, Typed, TaskOK
<1>2. /\ t.aid = cache[id].aid /\ t.sid = id /\ t.update = u /\ t.early = early
      /\ t.state = "queued" /\ t.orphan = FALSE
  OBVIOUS
<1> HIDE DEF t
<1>3. Recorded'
  <2>1. \A s \in u.deleted : Made(s)
    BY DEF Allows, Traced, Recorded, Items
  <2>2. \A s \in DOMAIN u.added \cup u.deleted : Made(s)'
    BY <2>1 DEF Allows, IsUpdate
  <2>3. \A s \in issued' : s.time <= clock'
    BY DEF Allows
  <2>4. \A a \in Aid : \A s \in DOMAIN store'[a].items : Made(s)'
    BY <1>1, AllSerials DEF Allows, Traced, Recorded
  <2>5. \A j \in Id : cache'[j] # None => \A s \in DOMAIN cache'[j].items : Made(s)'
    BY DEF CacheAlike
  <2>6. \A j \in Slot : task'[j] # None =>
          \A s \in DOMAIN task'[j].update.added \cup task'[j].update.deleted : Made(s)'
    <3> TAKE j \in Slot
    <3>1. CASE j = k
      BY <1>1, <1>2, <2>2, <3>1
    <3>2. CASE j # k
      BY <1>1, <3>2, AllSerials DEF Allows, Traced, Recorded
    <3> QED
      BY <3>1, <3>2
  <2> QED
    BY <2>3, <2>4, <2>5, <2>6 DEF Recorded
<1>4. Attached'
  BY <1>1, <1>2, AllSerials DEF Attached, Traced, CacheAlike
<1>5. Alone'
  BY DEF Alone, Traced, CacheAlike
<1>6. Gifts'
  BY <1>1, <1>2 DEF Gifts, Traced, Allows
<1>7. ASSUME NEW j \in Id, Current(j)', NEW s \in Known' PROVE Whole(j, s)'
  <2>1. Current(j) /\ s \in Known /\ Whole(j, s)
    BY <1>1, <1>7 DEF Current, CacheAlike, Traced, AllWhole, Known, Allows
  <2>2. Alike(Items(j)', Items(j), s) /\ Alike(Saved(j)', Saved(j), s)
    BY <1>1, <2>1 DEF Items, Saved, CacheAlike, Current, Alike
  <2>3. \A i \in Slot : i # k => task'[i] = task[i] /\ (i \in Own(j) <=> i \in Own(j)')
    BY <1>1 DEF Own
  <2>4. k \notin Own(j)
    BY <1>1 DEF Own
  <2>5. CASE k \in Own(j)' /\ s \in DOMAIN u.added
    <3>1. ~Made(s) /\ j = id
      BY <1>1, <1>2, <1>7, <2>5 DEF Allows, Own
    <3>2. s \notin DOMAIN Items(j) /\ s \notin DOMAIN Saved(j)
      BY <2>1, <3>1, AllSerials DEF Traced, Recorded, Items, Saved, Current
    <3>3. \A i \in Own(j) : ~Adds(i, s) /\ ~Drops(i, s)
      BY <3>1 DEF Traced, Recorded, Own, Adds, Drops
    <3>4. \A i \in Own(j)' : i # k => ~Adds(i, s)' /\ ~Drops(i, s)'
      BY <2>3, <3>3 DEF Adds, Drops, Own
    <3>5. Adds(k, s)' /\ ~Done(k)' /\ ~Drops(k, s)'
      <4>1. s \notin u.deleted
        BY <3>1, <3>2 DEF Allows
      <4> QED
        BY <1>1, <1>2, <2>5, <4>1 DEF Adds, Done, Drops
    <3>6. s \notin DOMAIN Items(j)' /\ s \notin DOMAIN Saved(j)'
      BY <2>2, <3>2 DEF Alike
    <3> QED
      BY <3>4, <3>5, <3>6 DEF Whole
  <2>6. CASE k \in Own(j)' /\ s \notin DOMAIN u.added /\ s \in u.deleted
    <3>1. j = id /\ s \in DOMAIN Items(j)
      BY <1>1, <1>2, <2>6 DEF Allows, Own
    <3>2. ~Adds(k, s)' /\ ~Done(k)'
      BY <1>1, <1>2, <2>6 DEF Adds, Done
    <3>3. \A i \in Own(j) : ~Adds(i, s)
      BY <2>1, <3>1 DEF Whole
    <3>4. \A i \in Own(j)' : ~Adds(i, s)'
      BY <2>3, <3>2, <3>3 DEF Adds, Own
    <3>5. \A i \in Own(j)' : (Drops(i, s) /\ Done(i))' => i \in Own(j) /\ Drops(i, s) /\ Done(i)
      BY <2>3, <3>2 DEF Drops, Done, Own
    <3>6. \A i \in Own(j) : i \in Own(j)' /\ (Drops(i, s) /\ Done(i) => (Drops(i, s) /\ Done(i))')
      BY <2>3, <2>4 DEF Drops, Done, Own
    <3> QED
      BY <2>1, <2>2, <3>1, <3>3, <3>4, <3>5, <3>6 DEF Whole, Alike
  <2>7. CASE ~(k \in Own(j)' /\ (s \in DOMAIN u.added \/ s \in u.deleted))
    <3>1. k \in Own(j)' => ~Adds(k, s)' /\ ~Drops(k, s)'
      BY <1>1, <1>2, <2>7 DEF Adds, Drops
    <3>2. \A i \in Slot : i # k =>
             \/ i \in Own(j) /\ i \in Own(j)' /\ task'[i] = task[i]
             \/ i \notin Own(j) /\ i \notin Own(j)'
      BY <2>3
    <3> QED
      BY <2>1, <2>2, <2>4, <3>1, <3>2, WholeKept
  <2> QED
    BY <2>5, <2>6, <2>7
<1>8. AllWhole'
  BY <1>7 DEF AllWhole
<1> QED
  BY <1>3, <1>4, <1>5, <1>6, <1>8 DEF Traced
\* Requests that make nothing.
LEMMA AskTraced ==
    ASSUME Typed, Traced, NEW k \in Slot, NEW id \in Id, cache[id] # None,
           NEW u, IsUpdate(u), u.added = Nothing, u.deleted \subseteq DOMAIN cache[id].items,
           Ask(k, id, u), UNCHANGED serials
    PROVE  Traced'
<1>1. Submit(k, id, u, FALSE) /\ cache' = cache
  BY DEF Ask
<1>2. \A s \in Serial : Made(s) => Made(s)'
  BY DEF Made, serials
<1>3. Allows(id, u, FALSE)
  <2>1. \A s \in issued' : s.time <= clock'
    BY DEF serials, Traced, Recorded
  <2> QED
    BY <1>2, <2>1 DEF Allows, Nothing, Items, serials
<1>4. CacheAlike
  BY <1>1, <1>2, AllSerials DEF CacheAlike, Alike, Traced, Recorded
<1> QED
  BY <1>1, <1>3, <1>4, SubmitTraced

LEMMA CraftedSerials ==
    ASSUME NEW items, NEW g, NEW n, NEW origin, NEW s \in DOMAIN Crafted(items, g, n, origin)
    PROVE  s.time = clock /\ s.origin = origin
BY DEF Crafted

LEMMA ShopNormalTraced ==
    ASSUME Typed, Traced, NEW k \in Slot, NEW id \in Id, NEW g \in Good, NEW n \in 1 .. Batch,
           ShopNormal(k, id, g, n)
    PROVE  Traced'
<1> DEFINE items == Crafted(cache[id].items, g, n, "game")
           u == Change(-(n * Price[g]), {}, {}, items)
<1>1. IsInventory(items)
  BY CraftedType DEF Typed, SerialsOK
<1>2. -(n * Price[g]) \in Int
  BY PricesAssumption
<1>3. IsUpdate(u) /\ u.deleted = {} /\ u.added = items
  BY <1>1, <1>2, ChangeType DEF Change
<1>4. /\ cache[id] # None /\ Submit(k, id, u, FALSE) /\ cache' = cache
      /\ Stamp(DOMAIN u.added)
  BY <1>3 DEF ShopNormal, Ask
<1>5. \A s \in DOMAIN u.added : s.time = clock
  BY <1>3, CraftedSerials
<1> HIDE DEF items, u
<1>6. \A s \in Serial : Made(s) => Made(s)'
  BY <1>4, MadeKept DEF Typed, Traced
<1>7. /\ \A s \in DOMAIN u.added : Made(s)' /\ (s \notin twice' => ~Made(s))
      /\ \A s \in issued' : s.time <= clock'
  BY <1>4, <1>5, StampMakes DEF Typed, Traced
<1>8. Allows(id, u, FALSE)
  BY <1>3, <1>4, <1>6, <1>7 DEF Allows, Known, Stamp
<1>9. CacheAlike
  BY <1>4, <1>6, AllSerials DEF CacheAlike, Alike, Traced, Recorded
<1> QED
  BY <1>3, <1>4, <1>8, <1>9, SubmitTraced

LEMMA ItemCommandTraced ==
    ASSUME NoneIsNothing, Typed, Traced, NEW k \in Slot, NEW id \in Id, NEW g \in Good,
           NEW n \in 1 .. Batch, ItemCommand(k, id, g, n)
    PROVE  Traced'
<1> DEFINE items == Crafted(cache[id].items, g, n, "gm")
           u == Change(0, {}, {}, items)
           new == Applied(cache[id], u, {})
<1>1. IsInventory(items)
  BY CraftedType DEF Typed, SerialsOK
<1>2. IsUpdate(u) /\ u.delta = 0 /\ u.deleted = {} /\ u.added = items
  BY <1>1, ChangeType DEF Change
<1>3. /\ cache[id] # None /\ Submit(k, id, u, TRUE) /\ Stamp(DOMAIN u.added)
      /\ cache' = [cache EXCEPT ![id] = new]
  BY DEF ItemCommand
<1>4. \A s \in DOMAIN u.added : s.time = clock /\ s.origin = "gm"
  BY <1>2, CraftedSerials
<1>5. /\ IsCached(new) /\ new.aid = cache[id].aid
      /\ new.items = With(Repaired(Without(cache[id].items, {}), {}), u.added)
  <2>1. IsCached(new)
    BY <1>2, <1>3, AppliedType DEF Typed, CacheOK
  <2> QED
    BY <1>2, <2>1 DEF Applied
<1> HIDE DEF items, u, new
<1>6. \A s \in Serial : Made(s) => Made(s)'
  BY <1>3, MadeKept DEF Typed, Traced
<1>7. /\ \A s \in DOMAIN u.added : Made(s)'
      /\ \A s \in issued' : s.time <= clock'
  BY <1>3, <1>4, StampMakes DEF Typed, Traced
<1>8. Allows(id, u, TRUE)
  BY <1>2, <1>3, <1>4, <1>6, <1>7 DEF Allows, Known, Stamp
<1>9. CacheAlike
  <2>1. ASSUME NEW s PROVE s \in DOMAIN new.items
                             <=> s \in DOMAIN cache[id].items \/ s \in DOMAIN u.added
    BY <1>5, LeftOver
  <2>2. \A s \in DOMAIN new.items : Made(s)'
    BY <1>3, <1>6, <1>7, <2>1, AllSerials DEF Traced, Recorded
  <2>3. ASSUME NEW s \in Known PROVE Alike(new.items, cache[id].items, s)
    <3>1. s \notin DOMAIN u.added
      BY <1>4 DEF Known
    <3> QED
      BY <1>5, <2>1, <3>1, LeftOver DEF Alike
  <2>4. new # None
    BY <1>5 DEF NoneIsNothing
  <2>5. DOMAIN cache = Id
    BY DEF Typed, CacheOK
  <2>6. ASSUME NEW j \in Id, j # id, cache[j] # None
        PROVE  /\ \A s \in DOMAIN cache[j].items : Made(s)'
               /\ \A s \in Known : Alike(cache[j].items, cache[j].items, s)
    BY <1>6, <2>6, AllSerials DEF Alike, Traced, Recorded
  <2> QED
    BY <1>3, <1>5, <2>2, <2>3, <2>4, <2>5, <2>6 DEF CacheAlike
<1> QED
  BY <1>2, <1>3, <1>8, <1>9, SubmitTraced

LEMMA ItemSellTraced ==
    ASSUME Typed, Traced, NEW k \in Slot, NEW id \in Id, NEW s, ItemSell(k, id, s)
    PROVE  Traced'
<1> DEFINE good == cache[id].items[s].good
           u == Change(SellPrice[good], {s}, {}, Nothing)
<1>1. /\ cache[id] # None /\ s \in DOMAIN cache[id].items /\ Ask(k, id, u)
      /\ UNCHANGED serials
  BY DEF ItemSell
<1>2. s \in Serial /\ good \in Good
  BY <1>1 DEF Typed, CacheOK, IsCached, IsInventory, Item
<1>3. IsInventory(Nothing) /\ SellPrice[good] \in Int
  BY <1>2, FS_EmptySet, PricesAssumption DEF IsInventory, Nothing
<1>4. IsUpdate(u) /\ u.added = Nothing /\ u.deleted = {s}
  BY <1>2, <1>3, ChangeType DEF Change
<1> HIDE DEF u
<1> QED
  BY <1>1, <1>4, AskTraced

LEMMA ItemDeleteTraced ==
    ASSUME Typed, Traced, NEW k \in Slot, NEW id \in Id, NEW S, ItemDelete(k, id, S)
    PROVE  Traced'
<1> DEFINE u == Change(0, S, {}, Nothing)
<1>1. /\ cache[id] # None /\ S \subseteq DOMAIN cache[id].items /\ Ask(k, id, u)
      /\ UNCHANGED serials
  BY DEF ItemDelete
<1>2. S \subseteq Serial
  BY <1>1, AllSerials
<1>3. IsInventory(Nothing)
  BY FS_EmptySet DEF IsInventory, Nothing
<1>4. IsUpdate(u) /\ u.added = Nothing /\ u.deleted = S
  BY <1>2, <1>3, ChangeType DEF Change
<1> HIDE DEF u
<1> QED
  BY <1>1, <1>4, AskTraced

LEMMA ItemRepairTraced ==
    ASSUME Typed, Traced, NEW k \in Slot, NEW id \in Id, NEW S, ItemRepair(k, id, S)
    PROVE  Traced'
<1> DEFINE items == cache[id].items
           cost == RepairCost(items, S)
           u == Change(-cost, {}, S, Nothing)
<1>1. /\ cache[id] # None /\ S \subseteq DOMAIN items /\ Ask(k, id, u)
      /\ UNCHANGED serials
  BY DEF ItemRepair
<1>2. S \subseteq Serial
  BY <1>1, AllSerials
<1>3. IsInventory(Nothing)
  BY FS_EmptySet DEF IsInventory, Nothing
<1>4. cost \in Nat
  BY <1>1, RepairCostType DEF Typed
<1> HIDE DEF cost
<1>5. -cost \in Int
  BY <1>4
<1>6. IsUpdate(u) /\ u.added = Nothing /\ u.deleted = {}
  BY <1>2, <1>3, <1>5, ChangeType DEF Change
<1> HIDE DEF u
<1> QED
  BY <1>1, <1>6, AskTraced
\* A task that ends before it has written anything leaves no trace.
LEMMA RefuseTraced ==
    ASSUME Typed, Traced, NEW k \in Slot, Refuse(k)
    PROVE  Traced'
<1>1. /\ task[k] # None /\ task[k].state = "queued" /\ task' = [task EXCEPT ![k] = None]
      /\ UNCHANGED <<store, cache, behind, serials>> /\ DOMAIN task = Slot
  BY DEF Refuse, Typed, TaskOK
<1>2. Recorded' /\ Attached' /\ Alone' /\ Gifts'
  BY <1>1 DEF Traced, Recorded, Made, Attached, Alone, Gifts, serials
<1>3. ASSUME NEW j \in Id, Current(j)', NEW s \in Known' PROVE Whole(j, s)'
  <2>1. Whole(j, s)
    BY <1>1, <1>3 DEF Current, Traced, AllWhole, Known, serials
  <2>2. /\ Items(j)' = Items(j) /\ Saved(j)' = Saved(j)
        /\ Own(j)' = Own(j) \ {k} /\ \A i \in Own(j)' : task'[i] = task[i]
    BY <1>1 DEF Items, Saved, Own
  <2>3. ~Done(k)
    BY <1>1 DEF Done
  <2>4. \A i \in Own(j)' : /\ i \in Own(j) /\ (Adds(i, s)' <=> Adds(i, s))
                           /\ (Drops(i, s)' <=> Drops(i, s)) /\ (Done(i)' <=> Done(i))
                           /\ task'[i].update.added[s].good = task[i].update.added[s].good
    BY <2>2 DEF Adds, Drops, Done
  <2>5. \A i \in Own(j) : Done(i) => i \in Own(j)'
    BY <2>2, <2>3
  <2> QED
    BY <2>1, <2>2, <2>4, <2>5 DEF Whole
<1> QED
  BY <1>2, <1>3 DEF Traced, AllWhole

\* The account of a task whose session is there is cached under that session's
\* id and nowhere else.
LEMMA OwnAccount ==
    ASSUME Typed, Traced, NEW k \in Slot, task[k] # None, ~task[k].orphan,
           NEW id \in Id, cache[id] # None
    PROVE  cache[id].aid = task[k].aid <=> id = task[k].sid
BY AllSerials DEF Traced, Attached, Alone

\* A transaction moves what its task adds and drops from one side to the other.
LEMMA CommitTraced ==
    ASSUME NoneIsNothing, Typed, Traced, NEW k \in Slot, Commit(k)
    PROVE  Traced'
<1> DEFINE t == task[k]
           a == t.aid
           u == t.update
           next == IF t.early THEN None ELSE [t EXCEPT !.state = "committed"]
<1>1. /\ t # None /\ t.state = "queued" /\ Accepts(store[a], u)
      /\ store' = [store EXCEPT ![a] = Written(store[a], u)]
      /\ task' = [task EXCEPT ![k] = next]
      /\ UNCHANGED <<cache, serials>> /\ DOMAIN task = Slot /\ DOMAIN store = Aid
      /\ IsTask(t) /\ a \in Aid
  BY DEF Commit, Typed, TaskOK, StoreOK, IsTask
<1>2. behind' = behind \cup {id \in Id : t.orphan /\ cache[id] # None /\ cache[id].aid = a}
  BY DEF Commit
<1>3. next # None => /\ next.aid = a /\ next.sid = t.sid /\ next.update = u
                     /\ next.early = t.early /\ next.orphan = t.orphan
                     /\ next.state = "committed" /\ ~t.early
  BY <1>1 DEF IsTask
<1>4. store'[a].items = With(Repaired(Without(store[a].items, u.deleted), u.repaired), u.added)
  BY <1>1 DEF Written
<1>5. ~t.early => next # None
  <2>1. [t EXCEPT !.state = "committed"]
          = [aid |-> t.aid, sid |-> t.sid, update |-> t.update, early |-> t.early,
             state |-> "committed", orphan |-> t.orphan]
    BY <1>1 DEF IsTask
  <2>2. IsTask([t EXCEPT !.state = "committed"])
    BY <1>1, <2>1 DEF IsTask
  <2> QED
    BY <2>2 DEF NoneIsNothing
<1> HIDE DEF next
<1>6. Recorded'
  <2>1. \A b \in Aid : \A s \in DOMAIN store'[b].items : Made(s)'
    <3> TAKE b \in Aid
    <3>1. CASE b = a
      <4> TAKE s \in DOMAIN store'[b].items
      <4>1. s \in DOMAIN store[a].items \/ s \in DOMAIN u.added
        BY <1>4, <3>1, LeftOver
      <4> QED
        BY <1>1, <4>1 DEF Traced, Recorded, Made, serials
    <3>2. CASE b # a
      BY <1>1, <3>2 DEF Traced, Recorded, Made, serials
    <3> QED
      BY <3>1, <3>2
  <2>2. \A j \in Slot : task'[j] # None =>
            \A s \in DOMAIN task'[j].update.added \cup task'[j].update.deleted : Made(s)'
    BY <1>1, <1>3 DEF Traced, Recorded, Made, serials
  <2> QED
    BY <1>1, <2>1, <2>2 DEF Traced, Recorded, Made, serials
<1>7. Attached' /\ Alone' /\ Gifts'
  BY <1>1, <1>3 DEF Traced, Attached, Alone, Gifts
<1>8. ASSUME NEW j \in Id, Current(j)', NEW s \in Known' PROVE Whole(j, s)'
  <2>1. /\ Current(j) /\ s \in Known /\ Whole(j, s)
        /\ ~(t.orphan /\ cache[j].aid = a)
    BY <1>1, <1>2, <1>8 DEF Current, Traced, AllWhole, Known, serials
  <2>2. Items(j)' = Items(j)
    BY <1>1 DEF Items
  <2>3. \A i \in Slot : i # k => task'[i] = task[i] /\ (i \in Own(j) <=> i \in Own(j)')
    BY <1>1 DEF Own
  <2>4. CASE k \notin Own(j)
    <3>1. cache[j].aid # a
      BY <1>1, <2>1, <2>4, OwnAccount DEF Own, Current
    <3>2. Alike(Saved(j)', Saved(j), s) /\ Alike(Items(j)', Items(j), s)
      BY <1>1, <2>2, <3>1 DEF Saved, Alike
    <3>3. k \notin Own(j)'
      BY <1>1, <1>3, <2>4 DEF Own
    <3> QED
      BY <2>1, <2>3, <2>4, <3>2, <3>3, WholeKept
  <2>5. CASE k \in Own(j)
    <3>1. cache[j].aid = a
      BY <1>1, <2>1, <2>5, OwnAccount DEF Own, Current
    <3>2. Saved(j) = store[a].items /\ Saved(j)' = store'[a].items
      BY <1>1, <3>1 DEF Saved
    <3>3. /\ s \in DOMAIN Saved(j)' <=> \/ s \in DOMAIN Saved(j) /\ s \notin u.deleted
                                        \/ s \in DOMAIN u.added
          /\ s \in DOMAIN u.added => Saved(j)'[s] = u.added[s]
          /\ (s \in DOMAIN Saved(j) /\ s \notin u.deleted /\ s \notin DOMAIN u.added) =>
                Saved(j)'[s].good = Saved(j)[s].good
      BY <1>4, <3>2, LeftOver
    <3>4. (s \in DOMAIN u.added \/ s \in u.deleted) => ~t.early
      <4>1. s.origin = "game"
        BY <2>1 DEF Known
      <4> QED
        BY <1>1, <4>1 DEF Traced, Gifts
    <3>5. /\ Adds(k, s) <=> s \in DOMAIN u.added
          /\ Drops(k, s) <=> s \in u.deleted
          /\ ~Done(k)
      BY <1>1 DEF Adds, Drops, Done
    <3>6. k \in Own(j)' => /\ Adds(k, s)' <=> Adds(k, s)
                           /\ Drops(k, s)' <=> Drops(k, s)
                           /\ Done(k)'
                           /\ task'[k].update.added = u.added
      BY <1>1, <1>3, <3>5 DEF Own, Adds, Drops, Done
    <3>7. ~t.early => k \in Own(j)'
      BY <1>1, <1>3, <1>5, <2>5 DEF Own
    <3>8. \A i \in Own(j)' : i # k =>
             /\ i \in Own(j) /\ (Adds(i, s)' <=> Adds(i, s)) /\ (Drops(i, s)' <=> Drops(i, s))
             /\ (Done(i)' <=> Done(i))
             /\ task'[i].update.added[s].good = task[i].update.added[s].good
      BY <2>3 DEF Adds, Drops, Done, Own
    <3>9. CASE s \in DOMAIN u.added
      <4>1. /\ s \notin DOMAIN Items(j)
            /\ \A i \in Own(j) : ~Drops(i, s) /\ (Adds(i, s) => i = k)
        BY <2>1, <2>5, <3>5, <3>9 DEF Whole
      <4>2. s \in DOMAIN Saved(j)' /\ Saved(j)'[s].good = u.added[s].good
        BY <3>3, <3>9
      <4>3. \A i \in Own(j)' : ~Drops(i, s)' /\ (Adds(i, s)' => i = k)
        BY <2>5, <3>6, <3>8, <4>1
      <4> QED
        BY <2>2, <3>4, <3>5, <3>6, <3>7, <3>9, <4>1, <4>2, <4>3 DEF Whole
    <3>10. CASE s \notin DOMAIN u.added /\ s \in u.deleted
      <4>1. \A i \in Own(j) : ~Adds(i, s)
        BY <2>1, <2>5, <3>5, <3>10 DEF Whole
      <4>2. \A i \in Own(j)' : ~Adds(i, s)'
        BY <2>5, <3>6, <3>8, <4>1
      <4>3. s \notin DOMAIN Saved(j)'
        BY <3>3, <3>10
      <4> QED
        BY <2>2, <3>4, <3>5, <3>6, <3>7, <3>10, <4>2, <4>3 DEF Whole
    <3>11. CASE s \notin DOMAIN u.added /\ s \notin u.deleted
      <4>1. Alike(Saved(j)', Saved(j), s) /\ Alike(Items(j)', Items(j), s)
        BY <2>2, <3>3, <3>11 DEF Alike
      <4>2. k \in Own(j)' => ~Adds(k, s)' /\ ~Drops(k, s)'
        BY <3>5, <3>6, <3>11
      <4> QED
        BY <2>1, <2>3, <3>5, <3>11, <4>1, <4>2, WholeKept
    <3> QED
      BY <3>9, <3>10, <3>11
  <2> QED
    BY <2>4, <2>5
<1> QED
  BY <1>6, <1>7, <1>8 DEF Traced, AllWhole
\* The cached account is given what the database has by then.
LEMMA ApplyTraced ==
    ASSUME NoneIsNothing, Typed, Traced, NEW k \in Slot, Apply(k)
    PROVE  Traced'
<1> DEFINE t == task[k]
           id == t.sid
           u == t.update
<1>1. /\ t # None /\ t.state = "committed" /\ task' = [task EXCEPT ![k] = None]
      /\ UNCHANGED <<store, serials>> /\ DOMAIN task = Slot /\ DOMAIN cache = Id
      /\ id \in Id
  BY AllSerials DEF Apply, Typed, TaskOK, CacheOK
<1>2. \/ cache[id] = None /\ UNCHANGED <<cache, behind>>
      \/ /\ cache[id] # None
         /\ \E S : cache' = [cache EXCEPT ![id] = Applied(cache[id], u, S)]
         /\ behind' = IF t.orphan THEN behind \cup {id} ELSE behind
  BY DEF Apply
<1>3. \A j \in Id : j # id => cache'[j] = cache[j] /\ (j \in behind <=> j \in behind')
  BY <1>1, <1>2
<1>4. cache[id] = None <=> cache'[id] = None
  <2>1. ASSUME cache[id] # None PROVE cache'[id] # None
    <3>1. PICK S : cache' = [cache EXCEPT ![id] = Applied(cache[id], u, S)]
      BY <1>2, <2>1
    <3>2. IsUpdate(u)
      BY <1>1 DEF Typed, TaskOK, IsTask
    <3>3. IsCached(Applied(cache[id], u, S))
      BY <1>1, <2>1, <3>2, AppliedType DEF Typed, CacheOK
    <3> QED
      BY <1>1, <3>1, <3>3 DEF NoneIsNothing
  <2> QED
    BY <1>2, <2>1
<1>5. cache[id] # None =>
        /\ cache'[id].aid = cache[id].aid
        /\ \E S : cache'[id].items = With(Repaired(Without(cache[id].items, u.deleted), S), u.added)
  <2>1. SUFFICES ASSUME cache[id] # None
                 PROVE  /\ cache'[id].aid = cache[id].aid
                        /\ \E S : cache'[id].items =
                              With(Repaired(Without(cache[id].items, u.deleted), S), u.added)
    OBVIOUS
  <2>2. PICK S : cache' = [cache EXCEPT ![id] = Applied(cache[id], u, S)]
    BY <1>2, <2>1
  <2>3. cache'[id] = Applied(cache[id], u, S)
    BY <1>1, <2>2
  <2>4. /\ Applied(cache[id], u, S).aid = cache[id].aid
        /\ Applied(cache[id], u, S).items =
              With(Repaired(Without(cache[id].items, u.deleted), S), u.added)
    BY DEF Applied
  <2> QED
    BY <2>3, <2>4
<1>6. cache[id] # None => \A s :
        /\ s \in DOMAIN cache'[id].items <=> \/ s \in DOMAIN cache[id].items /\ s \notin u.deleted
                                             \/ s \in DOMAIN u.added
        /\ s \in DOMAIN u.added => cache'[id].items[s] = u.added[s]
        /\ (s \in DOMAIN cache[id].items /\ s \notin u.deleted /\ s \notin DOMAIN u.added) =>
              cache'[id].items[s].good = cache[id].items[s].good
  BY <1>5, LeftOver
<1>7. Recorded'
  <2>1. \A j \in Id : cache'[j] # None => \A s \in DOMAIN cache'[j].items : Made(s)'
    <3> TAKE j \in Id
    <3>1. CASE j = id
      BY <1>1, <1>4, <1>6, <3>1 DEF Traced, Recorded, Made, serials
    <3>2. CASE j # id
      BY <1>1, <1>3, <3>2 DEF Traced, Recorded, Made, serials
    <3> QED
      BY <3>1, <3>2
  <2>2. \A j \in Slot : task'[j] # None => task'[j] = task[j] /\ task[j] # None
    BY <1>1
  <2> QED
    BY <1>1, <2>1, <2>2 DEF Traced, Recorded, Made, serials
<1>8. Attached' /\ Alone' /\ Gifts'
  <2>1. \A j \in Id : (cache[j] = None <=> cache'[j] = None)
                      /\ (cache[j] # None => cache'[j].aid = cache[j].aid)
    BY <1>3, <1>4, <1>5
  <2>2. \A j \in Slot : task'[j] # None => task'[j] = task[j] /\ task[j] # None
    BY <1>1
  <2> QED
    BY <2>1, <2>2, AllSerials DEF Traced, Attached, Alone, Gifts
<1>9. ASSUME NEW j \in Id, Current(j)', NEW s \in Known' PROVE Whole(j, s)'
  <2>1. s \in Known
    BY <1>1, <1>9 DEF Known, serials
  <2>2. CASE k \notin Own(j)
    <3>1. Current(j) /\ cache'[j] = cache[j]
      <4>1. CASE j # id
        BY <1>3, <1>9, <4>1 DEF Current
      <4>2. CASE j = id
        <5>1. cache[j] # None
          BY <1>4, <1>9, <4>2 DEF Current
        <5>2. t.orphan
          BY <1>1, <2>2, <4>2 DEF Own
        <5> QED
          BY <1>2, <1>9, <4>2, <5>1, <5>2 DEF Current
      <4> QED
        BY <4>1, <4>2
    <3>2. Whole(j, s) /\ Alike(Saved(j)', Saved(j), s) /\ Alike(Items(j)', Items(j), s)
      BY <1>1, <2>1, <3>1 DEF Traced, AllWhole, Saved, Items, Alike
    <3>3. \A i \in Slot : i # k => task'[i] = task[i] /\ (i \in Own(j) <=> i \in Own(j)')
      BY <1>1, <3>1 DEF Own
    <3>4. k \notin Own(j)'
      BY <1>1 DEF Own
    <3> QED
      BY <2>2, <3>2, <3>3, <3>4, WholeKept
  <2>3. CASE k \in Own(j)
    <3>1. j = id /\ ~t.orphan
      BY <2>3 DEF Own
    <3>2. Current(j) /\ Whole(j, s) /\ cache[j] # None
      BY <1>2, <1>4, <1>9, <2>1, <3>1 DEF Current, Traced, AllWhole
    <3>3. Saved(j)' = Saved(j)
      BY <1>1, <1>5, <3>1, <3>2 DEF Saved
    <3>4. /\ s \in DOMAIN Items(j)' <=> \/ s \in DOMAIN Items(j) /\ s \notin u.deleted
                                        \/ s \in DOMAIN u.added
          /\ s \in DOMAIN u.added => Items(j)'[s] = u.added[s]
          /\ (s \in DOMAIN Items(j) /\ s \notin u.deleted /\ s \notin DOMAIN u.added) =>
                Items(j)'[s].good = Items(j)[s].good
      BY <1>6, <3>1, <3>2 DEF Items
    <3>5. /\ Adds(k, s) <=> s \in DOMAIN u.added
          /\ Drops(k, s) <=> s \in u.deleted
          /\ Done(k)
      BY <1>1 DEF Adds, Drops, Done
    <3>6. Own(j)' = Own(j) \ {k}
      BY <1>1, <2>3 DEF Own
    <3>7. \A i \in Own(j)' :
             /\ i \in Own(j) /\ (Adds(i, s)' <=> Adds(i, s)) /\ (Drops(i, s)' <=> Drops(i, s))
             /\ (Done(i)' <=> Done(i))
             /\ task'[i].update.added[s].good = task[i].update.added[s].good
      BY <1>1, <3>6 DEF Adds, Drops, Done, Own
    <3>8. CASE s \in DOMAIN u.added
      <4>1. /\ \A i \in Own(j)' : ~Drops(i, s)' /\ ~Adds(i, s)'
            /\ s \in DOMAIN Saved(j) /\ Saved(j)[s].good = u.added[s].good
        BY <2>3, <3>2, <3>5, <3>6, <3>7, <3>8 DEF Whole
      <4> QED
        BY <3>3, <3>4, <3>8, <4>1 DEF Whole
    <3>9. CASE s \notin DOMAIN u.added /\ s \in u.deleted
      <4>1. s \notin DOMAIN Saved(j) /\ \A i \in Own(j)' : ~Adds(i, s)'
        BY <2>3, <3>2, <3>5, <3>7, <3>9 DEF Whole
      <4> QED
        BY <3>3, <3>4, <3>9, <4>1 DEF Whole
    <3>10. CASE s \notin DOMAIN u.added /\ s \notin u.deleted
      <4>1. Alike(Items(j)', Items(j), s) /\ Alike(Saved(j)', Saved(j), s)
        BY <3>3, <3>4, <3>10 DEF Alike
      <4>2. \A i \in Slot : \/ i \in Own(j) /\ i \in Own(j)' /\ task'[i] = task[i]
                            \/ i \notin Own(j) /\ i \notin Own(j)'
                            \/ i = k
        BY <1>1, <3>6
      <4>3. k \notin Own(j)' /\ ~Adds(k, s) /\ ~Drops(k, s)
        BY <3>5, <3>6, <3>10
      <4> QED
        BY <3>2, <4>1, <4>2, <4>3, WholeKept
    <3> QED
      BY <3>8, <3>9, <3>10
  <2> QED
    BY <2>2, <2>3
<1> QED
  BY <1>7, <1>8, <1>9 DEF Traced, AllWhole

\* A login caches what the database has, with no task of its session under way.
LEMMA LoginTraced ==
    ASSUME Typed, Traced, NEW a \in Aid, NEW id \in Id, Login(a, id)
    PROVE  Traced'
<1> DEFINE c == [aid |-> a, mp |-> store[a].mp, items |-> store[a].items]
<1>1. /\ cache[id] = None /\ cache' = [cache EXCEPT ![id] = c]
      /\ \A j \in Id : cache[j] # None => cache[j].aid # a
      /\ behind' = behind \ {id}
      /\ UNCHANGED <<store, task, serials>> /\ DOMAIN cache = Id
  BY DEF Login, Typed, CacheOK
<1>2. c.aid = a /\ c.items = store[a].items
  OBVIOUS
<1> HIDE DEF c
<1>3. \A j \in Id : j # id => cache'[j] = cache[j]
  BY <1>1
<1>4. Recorded'
  BY <1>1, <1>2, <1>3 DEF Traced, Recorded, Made, serials
<1>5. \A k \in Slot : task[k] # None /\ ~task[k].orphan => task[k].sid # id
  BY <1>1 DEF Traced, Attached
<1>6. Attached' /\ Alone' /\ Gifts'
  <2>1. Attached'
    BY <1>1, <1>3, <1>5, AllSerials DEF Traced, Attached
  <2>2. Alone'
    BY <1>1, <1>2, <1>3 DEF Traced, Alone
  <2> QED
    BY <1>1, <2>1, <2>2 DEF Traced, Gifts
<1>7. ASSUME NEW j \in Id, Current(j)', NEW s \in Known' PROVE Whole(j, s)'
  <2>1. CASE j = id
    <3>1. Items(j)' = Saved(j)'
      BY <1>1, <1>2, <2>1 DEF Items, Saved
    <3>2. Own(j)' = {}
      BY <1>1, <1>5, <2>1 DEF Own
    <3> QED
      BY <3>1, <3>2 DEF Whole
  <2>2. CASE j # id
    <3>1. Current(j) /\ s \in Known
      BY <1>1, <1>3, <1>7, <2>2 DEF Current, Known, serials
    <3>2. Items(j)' = Items(j) /\ Saved(j)' = Saved(j)
      BY <1>1, <1>3, <2>2 DEF Items, Saved
    <3>3. \A i \in Slot : task'[i] = task[i] /\ (i \in Own(j)' <=> i \in Own(j))
      BY <1>1 DEF Own
    <3>4. Whole(j, s) /\ Alike(Saved(j)', Saved(j), s) /\ Alike(Items(j)', Items(j), s)
      BY <3>1, <3>2 DEF Traced, AllWhole, Alike
    <3>5. \A i \in Slot : \/ i \in Own(j) /\ i \in Own(j)' /\ task'[i] = task[i]
                          \/ i \notin Own(j) /\ i \notin Own(j)'
      BY <3>3
    <3> QED
      BY <3>4, <3>5, WholeKept
  <2> QED
    BY <2>1, <2>2
<1> QED
  BY <1>4, <1>6, <1>7 DEF Traced, AllWhole

\* A logout leaves the session's tasks without a session.
LEMMA LogoutTraced ==
    ASSUME Typed, Traced, NEW id \in Id, Logout(id)
    PROVE  Traced'
<1>1. /\ cache' = [cache EXCEPT ![id] = None] /\ behind' = behind \ {id}
      /\ UNCHANGED <<store, serials>> /\ DOMAIN cache = Id
  BY DEF Logout, Typed, CacheOK
<1>2. \A k \in Slot : task'[k] = IF task[k] # None /\ task[k].sid = id
                                 THEN [task[k] EXCEPT !.orphan = TRUE] ELSE task[k]
  BY DEF Logout
<1>3. \A k \in Slot : task[k] # None => IsTask(task[k])
  BY DEF Typed, TaskOK
<1>4. ASSUME NEW k \in Slot, task'[k] # None
      PROVE  /\ task[k] # None /\ task'[k].aid = task[k].aid /\ task'[k].sid = task[k].sid
             /\ task'[k].update = task[k].update /\ task'[k].early = task[k].early
             /\ ~task'[k].orphan => task'[k] = task[k] /\ task[k].sid # id
  <2>1. task[k] # None
    BY <1>2, <1>4
  <2>2. CASE task[k].sid = id
    <3>1. task'[k] = [task[k] EXCEPT !.orphan = TRUE]
      BY <1>2, <2>1, <2>2
    <3> QED
      BY <1>3, <2>1, <3>1 DEF IsTask
  <2>3. CASE task[k].sid # id
    BY <1>2, <2>1, <2>3
  <2> QED
    BY <2>2, <2>3
<1>5. \A j \in Id : j # id => cache'[j] = cache[j]
  BY <1>1
<1>6. cache'[id] = None
  BY <1>1
<1>7. Recorded'
  BY <1>1, <1>4, <1>5, <1>6 DEF Traced, Recorded, Made, serials
<1>8. Attached' /\ Alone' /\ Gifts'
  <2>1. Attached'
    BY <1>4, <1>5, AllSerials DEF Traced, Attached
  <2>2. Alone'
    BY <1>5, <1>6 DEF Traced, Alone
  <2>3. Gifts'
    BY <1>4 DEF Traced, Gifts
  <2> QED
    BY <2>1, <2>2, <2>3
<1>9. ASSUME NEW j \in Id, Current(j)', NEW s \in Known' PROVE Whole(j, s)'
  <2>1. j # id
    BY <1>6, <1>9 DEF Current
  <2>2. Current(j) /\ s \in Known
    BY <1>1, <1>5, <1>9, <2>1 DEF Current, Known, serials
  <2>3. Items(j)' = Items(j) /\ Saved(j)' = Saved(j)
    BY <1>1, <1>5, <2>1 DEF Items, Saved
  <2>4. ASSUME NEW k \in Slot
        PROVE  \/ k \in Own(j) /\ k \in Own(j)' /\ task'[k] = task[k]
               \/ k \notin Own(j) /\ k \notin Own(j)'
    <3>1. CASE k \in Own(j)
      <4>1. task[k].sid # id /\ task[k] # None
        BY <2>1, <3>1 DEF Own
      <4>2. task'[k] = task[k]
        BY <1>2, <4>1
      <4> QED
        BY <3>1, <4>2 DEF Own
    <3>2. CASE k \notin Own(j)
      BY <1>4, <3>2 DEF Own
    <3> QED
      BY <3>1, <3>2
  <2>5. Whole(j, s) /\ Alike(Saved(j)', Saved(j), s) /\ Alike(Items(j)', Items(j), s)
    BY <2>2, <2>3 DEF Traced, AllWhole, Alike
  <2> QED
    BY <2>4, <2>5, WholeKept
<1> QED
  BY <1>7, <1>8, <1>9 DEF Traced, AllWhole

\* Together: Traced is inductive, given that the variables are well-typed.
LEMMA TracedStep == ASSUME NoneIsNothing PROVE Typed /\ Traced /\ [Next]_vars => Traced'
<1> SUFFICES ASSUME Typed, Traced, [Next]_vars PROVE Traced'
  OBVIOUS
<1>1. ASSUME NEW k \in Slot, NEW id \in Id, NEW g \in Good, NEW n \in 1 .. Batch,
             ShopNormal(k, id, g, n) \/ ItemCommand(k, id, g, n)
      PROVE  Traced'
  BY <1>1, ShopNormalTraced, ItemCommandTraced
<1>2. ASSUME NEW k \in Slot, NEW id \in Id, NEW s \in Shown(id), ItemSell(k, id, s)
      PROVE  Traced'
  BY <1>2, ItemSellTraced
<1>3. ASSUME NEW k \in Slot, NEW id \in Id, NEW S \in SUBSET Shown(id),
             ItemDelete(k, id, S) \/ ItemRepair(k, id, S)
      PROVE  Traced'
  BY <1>3, ItemDeleteTraced, ItemRepairTraced
<1>4. ASSUME NEW k \in Slot, Commit(k) \/ Refuse(k) \/ Apply(k) PROVE Traced'
  BY <1>4, CommitTraced, RefuseTraced, ApplyTraced
<1>5. ASSUME NEW id \in Id, Logout(id) \/ \E a \in Aid : Login(a, id) PROVE Traced'
  BY <1>5, LoginTraced, LogoutTraced
<1>6. CASE UNCHANGED vars
  <2>1. UNCHANGED <<store, cache, task, behind, clock, issued, twice>>
    BY <1>6 DEF vars, serials
  <2> QED
    BY <2>1 DEF Traced, Recorded, Made, Attached, Alone, Gifts, AllWhole, Whole, Current, Known,
                Own, Adds, Drops, Done, Items, Saved
<1> QED
  BY <1>1, <1>2, <1>3, <1>4, <1>5, <1>6 DEF Next

\* What the cached account owns is what the database says, but for what its
\* session's tasks have yet to tell it, on both kinds of database: for any
\* number of accounts, sessions and tasks that run and are refused in any order.
THEOREM ItemsAgreeHolds ==
    ASSUME NoneIsNothing, InitialIsOld PROVE Spec => []ItemsAgree
<1>1. Init => Typed /\ Traced
  BY TypeInit, TracedInit
<1>2. Typed /\ Traced /\ [Next]_vars => Typed' /\ Traced'
  BY TypeStep, TracedStep
<1>3. Typed /\ Traced => ItemsAgree
  BY TracedAgree
<1> QED
  BY <1>1, <1>2, <1>3, PTL DEF Spec
-----------------------------------------------------------------------------
(***************************************************************************)
(* Sums over finite sets and remainders, for BalanceAgrees.  The library's *)
(* induction theorems take an operator, which the provers cannot give      *)
(* them; a least counterexample (LeastNatural) does instead.               *)
(***************************************************************************)

\* Every set of naturals that has an element has a least one.
LEMMA LeastNatural ==
    ASSUME NEW T \in SUBSET Nat, T # {}
    PROVE  \E n \in T : \A m \in T : n <= m
<1> DEFINE Less == {p \in Nat \X Nat : p[1] < p[2]}
<1>1. IsWellFoundedOn(Less, Nat)
  BY NatLessThanWellFounded DEF OpToRel
<1>2. \A m, n \in Nat : m < n => <<m, n>> \in Less
  OBVIOUS
<1> HIDE DEF Less
<1>3. PICK n \in T : \A m \in T : <<m, n>> \notin Less
  BY <1>1, WFMin
<1>4. \A m \in T : n <= m
  <2> TAKE m \in T
  <2>1. m \in Nat /\ n \in Nat /\ ~(m < n)
    BY <1>2, <1>3
  <2> QED
    BY <2>1
<1> QED
  BY <1>4

\* g sums f over the subsets of S the way MapThenSumSet does: element by
\* element, in the order of CHOOSE.
First(s) == CHOOSE x \in s : TRUE
Sums(g, f, S) ==
    g = [s \in SUBSET S |-> IF s = {} THEN 0 ELSE f[First(s)] + g[s \ {First(s)}]]

\* The subsets of S of at most n elements.
UpTo(S, n) == {s \in SUBSET S : Cardinality(s) <= n}
SumsUpTo(g, f, S, n) ==
    /\ g \in [UpTo(S, n) -> Int]
    /\ \A s \in UpTo(S, n) : g[s] = IF s = {} THEN 0 ELSE f[First(s)] + g[s \ {First(s)}]

LEMMA WithoutFirst ==
    ASSUME NEW S, IsFiniteSet(S), NEW s \in SUBSET S, s # {}
    PROVE  /\ First(s) \in s /\ s \ {First(s)} \in SUBSET S
           /\ IsFiniteSet(s) /\ Cardinality(s) \in Nat \ {0}
           /\ Cardinality(s \ {First(s)}) = Cardinality(s) - 1
<1>1. First(s) \in s
  BY DEF First
<1>2. IsFiniteSet(s)
  BY FS_Subset
<1>3. Cardinality(s) \in Nat /\ Cardinality(s) # 0
  BY <1>2, FS_CardinalityType, FS_EmptySet
<1>4. Cardinality(s \ {First(s)}) = Cardinality(s) - 1
  BY <1>1, <1>2, FS_RemoveElement
<1> QED
  BY <1>1, <1>2, <1>3, <1>4

LEMMA SumsExist ==
    ASSUME NEW S, IsFiniteSet(S), NEW f \in [S -> Int]
    PROVE  \E g \in [SUBSET S -> Int] : Sums(g, f, S)
<1> DEFINE T == {n \in Nat : ~ \E g : SumsUpTo(g, f, S, n)}
<1>1. ASSUME T # {} PROVE FALSE
  <2>1. PICK n \in T : \A m \in T : n <= m
    BY <1>1, LeastNatural
  <2>2. CASE n = 0
    <3> DEFINE g == [s \in UpTo(S, 0) |-> 0]
    <3>1. \A s \in UpTo(S, 0) : s = {}
      <4> TAKE s \in UpTo(S, 0)
      <4>1. CASE s # {}
        <5>1. s \in SUBSET S /\ Cardinality(s) <= 0
          BY DEF UpTo
        <5>2. Cardinality(s) \in Nat \ {0}
          BY <4>1, <5>1, WithoutFirst
        <5> QED
          BY <5>1, <5>2
      <4> QED
        BY <4>1
    <3>2. SumsUpTo(g, f, S, 0)
      BY <3>1 DEF SumsUpTo
    <3> QED
      BY <2>2, <3>2
  <2>3. CASE n # 0
    <3>1. n - 1 \in Nat /\ n - 1 \notin T
      BY <2>1, <2>3
    <3>2. PICK h : SumsUpTo(h, f, S, n - 1)
      BY <3>1
    <3> DEFINE g == [s \in UpTo(S, n) |-> IF s = {} THEN 0 ELSE f[First(s)] + h[s \ {First(s)}]]
    <3>3. ASSUME NEW s \in UpTo(S, n), s # {}
          PROVE  /\ s \ {First(s)} \in UpTo(S, n - 1) /\ s \ {First(s)} \in UpTo(S, n)
                 /\ First(s) \in S
      BY <2>1, <3>3, WithoutFirst DEF UpTo
    <3>4. g \in [UpTo(S, n) -> Int]
      <4>1. \A s \in UpTo(S, n) : s # {} => f[First(s)] \in Int /\ h[s \ {First(s)}] \in Int
        BY <3>2, <3>3 DEF SumsUpTo
      <4> QED
        BY <4>1
    <3>5. ASSUME NEW s \in UpTo(S, n - 1) PROVE g[s] = h[s] /\ s \in UpTo(S, n)
      <4>1. s \in UpTo(S, n)
        <5>1. Cardinality(s) \in Nat
          BY FS_Subset, FS_CardinalityType DEF UpTo
        <5> QED
          BY <2>1, <5>1 DEF UpTo
      <4> QED
        BY <3>2, <4>1 DEF SumsUpTo
    <3>6. \A s \in UpTo(S, n) : g[s] = IF s = {} THEN 0 ELSE f[First(s)] + g[s \ {First(s)}]
      BY <3>3, <3>5
    <3>7. SumsUpTo(g, f, S, n)
      BY <3>4, <3>6 DEF SumsUpTo
    <3> QED
      BY <2>1, <3>7
  <2> QED
    BY <2>2, <2>3
<1>2. Cardinality(S) \in Nat
  BY FS_CardinalityType
<1>3. PICK g : SumsUpTo(g, f, S, Cardinality(S))
  BY <1>1, <1>2
<1>4. UpTo(S, Cardinality(S)) = SUBSET S
  BY FS_Subset DEF UpTo
<1> QED
  BY <1>3, <1>4 DEF SumsUpTo, Sums

\* A sum is that of one element, whichever it is, and that of the others.
Summed(g, f, S) ==
    IsFiniteSet(S) /\ f \in [S -> Int] /\ g \in [SUBSET S -> Int] /\ Sums(g, f, S)

LEMMA SumsAdd ==
    ASSUME NEW S, NEW f, NEW g, Summed(g, f, S), NEW s \in SUBSET S, NEW k \in s
    PROVE  g[s] = f[k] + g[s \ {k}]
<1> USE DEF Summed
<1> DEFINE Fails(r) == \E x \in r : g[r] # f[x] + g[r \ {x}]
           T == {n \in Nat : \E r \in SUBSET S : Cardinality(r) = n /\ Fails(r)}
<1>1. \A r \in SUBSET S : r # {} => g[r] = f[First(r)] + g[r \ {First(r)}]
  BY DEF Sums
<1>2. ASSUME T # {} PROVE FALSE
  <2>1. PICK n \in T : \A m \in T : n <= m
    BY <1>2, LeastNatural
  <2>2. PICK r \in SUBSET S : Cardinality(r) = n /\ Fails(r)
    BY <2>1
  <2>3. PICK x \in r : g[r] # f[x] + g[r \ {x}]
    BY <2>2
  <2> DEFINE c == First(r)
  <2>4. /\ c \in r /\ IsFiniteSet(r) /\ Cardinality(r) \in Nat \ {0}
        /\ Cardinality(r \ {c}) = n - 1 /\ Cardinality(r \ {x}) = n - 1
    BY <2>2, <2>3, WithoutFirst, FS_RemoveElement
  <2>5. g[r] = f[c] + g[r \ {c}]
    BY <1>1, <2>3
  <2> HIDE DEF c
  <2>6. c # x
    BY <2>3, <2>5
  <2>7. n - 1 \in Nat /\ n - 1 \notin T
    <3>1. n \in Nat /\ n - 1 \in Nat /\ ~(n <= n - 1)
      BY <2>2, <2>4
    <3> HIDE DEF T
    <3> QED
      BY <2>1, <3>1
  <2>8. ~Fails(r \ {c}) /\ ~Fails(r \ {x})
    <3>1. r \ {c} \in SUBSET S /\ r \ {x} \in SUBSET S
      OBVIOUS
    <3> HIDE DEF Fails
    <3> QED
      BY <2>4, <2>7, <3>1
  <2>9. g[r \ {c}] = f[x] + g[(r \ {c}) \ {x}]
    BY <2>3, <2>6, <2>8
  <2>10. g[r \ {x}] = f[c] + g[(r \ {x}) \ {c}]
    BY <2>4, <2>6, <2>8
  <2>11. (r \ {c}) \ {x} = (r \ {x}) \ {c}
    OBVIOUS
  <2>12. f[x] \in Int /\ f[c] \in Int /\ g[(r \ {c}) \ {x}] \in Int
    <3>1. (r \ {c}) \ {x} \in SUBSET S /\ c \in S
      BY <2>4
    <3> QED
      BY <3>1
  <2>13. g[r] = f[c] + (f[x] + g[(r \ {c}) \ {x}])
    BY <2>5, <2>9
  <2>14. g[r] # f[x] + (f[c] + g[(r \ {c}) \ {x}])
    BY <2>3, <2>10, <2>11
  <2> QED
    BY <2>12, <2>13, <2>14
<1>3. IsFiniteSet(s) /\ Cardinality(s) \in Nat
  BY FS_Subset, FS_CardinalityType
<1> QED
  BY <1>2, <1>3

\* A sum depends on its summands.
LEMMA SumsAgree ==
    ASSUME NEW S, IsFiniteSet(S), NEW f, NEW g, Sums(g, f, S),
           NEW R, IsFiniteSet(R), NEW e, NEW h, Sums(h, e, R),
           NEW s \in SUBSET (S \cap R), \A k \in s : e[k] = f[k]
    PROVE  g[s] = h[s]
<1> DEFINE T == {n \in Nat : \E r \in SUBSET s : Cardinality(r) = n /\ g[r] # h[r]}
<1>1. ASSUME T # {} PROVE FALSE
  <2>1. PICK n \in T : \A m \in T : n <= m
    BY <1>1, LeastNatural
  <2>2. PICK r \in SUBSET s : Cardinality(r) = n /\ g[r] # h[r]
    BY <2>1
  <2>3. r \in SUBSET S /\ r \in SUBSET R
    OBVIOUS
  <2>4. r # {}
    BY <2>2, <2>3 DEF Sums
  <2> DEFINE c == First(r)
  <2>5. c \in r /\ Cardinality(r) \in Nat \ {0} /\ Cardinality(r \ {c}) = n - 1
    BY <2>2, <2>3, <2>4, WithoutFirst
  <2>6. g[r] = f[c] + g[r \ {c}] /\ h[r] = e[c] + h[r \ {c}]
    BY <2>3, <2>4 DEF Sums
  <2> HIDE DEF c
  <2>7. n - 1 \in Nat /\ n - 1 \notin T
    BY <2>1, <2>2, <2>5
  <2>8. g[r \ {c}] = h[r \ {c}]
    BY <2>5, <2>7
  <2> QED
    BY <2>2, <2>5, <2>6, <2>8
<1>2. IsFiniteSet(s) /\ Cardinality(s) \in Nat
  BY FS_Subset, FS_CardinalityType
<1> QED
  BY <1>1, <1>2

\* Remainders, as cached balances are: what TLA+'s % says,
LEMMA Modulus ==
    ASSUME NEW W \in Nat \ {0}, NEW x \in Int
    PROVE  /\ x % W \in 0 .. W - 1
           /\ \E q \in Int : x = W * q + (x % W)
<1>1. x % W \in 0 .. W - 1
  OBVIOUS
<1>2. x = W * (x \div W) + (x % W) /\ x \div W \in Int
  OBVIOUS
<1> QED
  BY <1>1, <1>2

\* that a remainder is unique,
LEMMA ModulusUnique ==
    ASSUME NEW W \in Nat \ {0}, NEW q \in Int, NEW p \in Int, NEW r \in 0 .. W - 1,
           NEW s \in 0 .. W - 1, W * q + r = W * p + s
    PROVE  r = s
<1> DEFINE z == q - p
<1>1. z \in Int /\ W * z = s - r
  OBVIOUS
<1> HIDE DEF z
<1>2. CASE z >= 1
  <2>1. W * z >= W
    BY <1>1, <1>2
  <2> QED
    BY <1>1, <2>1
<1>3. CASE z <= -1
  <2>1. W * z <= -W
    BY <1>1, <1>3
  <2> QED
    BY <1>1, <2>1
<1>4. CASE z = 0
  BY <1>1, <1>4
<1> QED
  BY <1>1, <1>2, <1>3, <1>4

\* that one may wrap around now or later,
LEMMA ModulusAdds ==
    ASSUME NEW W \in Nat \ {0}, NEW x \in Int, NEW d \in Int
    PROVE  ((x % W) + d) % W = (x + d) % W
<1> DEFINE m == x % W
           y == m + d
           z == x + d
<1>1. m \in Int /\ y \in Int /\ z \in Int
  BY Modulus
<1>2. PICK q \in Int : x = W * q + m
  BY Modulus
<1> HIDE DEF y, z
<1>3. PICK p \in Int : y = W * p + (y % W)
  BY <1>1, Modulus
<1>4. PICK t \in Int : z = W * t + (z % W)
  BY <1>1, Modulus
<1>5. y % W \in 0 .. W - 1 /\ z % W \in 0 .. W - 1
  BY <1>1, Modulus
<1> DEFINE a == y % W
           b == z % W
           A == W * q
           B == W * p
           C == W * t
<1>6. a \in Int /\ b \in Int /\ A \in Int /\ B \in Int /\ C \in Int
  BY <1>5
<1>7. z = A + y
  <2>1. x = A + m
    BY <1>2
  <2> HIDE DEF m, A
  <2> QED
    BY <1>1, <1>6, <2>1 DEF y, z
<1>8. y = B + a /\ z = C + b
  BY <1>3, <1>4
<1>9. A + B = W * (q + p)
  OBVIOUS
<1> HIDE DEF a, b, A, B, C
<1>10. (A + B) + a = C + b
  BY <1>6, <1>7, <1>8
<1>11. W * (q + p) + a = W * t + b /\ q + p \in Int
  BY <1>9, <1>10 DEF C
<1>12. a \in 0 .. W - 1 /\ b \in 0 .. W - 1
  BY <1>5 DEF a, b
<1>13. a = b
  BY <1>11, <1>12, ModulusUnique
<1> QED
  BY <1>13 DEF a, b, y, z

\* and that small numbers do not wrap.
LEMMA ModulusSmall ==
    ASSUME NEW W \in Nat \ {0}, NEW x \in 0 .. W - 1
    PROVE  x % W = x
<1>1. x \in Int
  OBVIOUS
<1>2. PICK q \in Int : x = W * q + (x % W)
  BY <1>1, Modulus
<1>3. W * q + (x % W) = W * 0 + x /\ x % W \in 0 .. W - 1
  BY <1>1, <1>2, Modulus
<1> QED
  BY <1>3, ModulusUnique

\* What the tasks in S add to a balance, in a state in which tk are the tasks.
Total(tk, S) == MapThenSumSet(LAMBDA k : tk[k].update.delta, S)

LEMMA TotalSums ==
    ASSUME NEW tk, NEW S, IsFiniteSet(S), \A k \in S : tk[k].update.delta \in Int
    PROVE  \E g \in [SUBSET S -> Int] :
              Sums(g, [k \in S |-> tk[k].update.delta], S) /\ Total(tk, S) = g[S]
<1> DEFINE f == [k \in S |-> tk[k].update.delta]
           Is(g) == g = [s \in SUBSET S |->
                            IF s = {} THEN 0
                            ELSE LET x == CHOOSE x \in s : TRUE
                                 IN  tk[x].update.delta + g[s \ {x}]]
           iter == CHOOSE g : Is(g)
<1>1. ASSUME NEW g PROVE Sums(g, f, S) <=> Is(g)
  <2>1. \A s \in SUBSET S : s # {} => (CHOOSE x \in s : TRUE) \in S
    OBVIOUS
  <2>2. \A x \in S : f[x] = tk[x].update.delta
    OBVIOUS
  <2> HIDE DEF f
  <2> QED
    BY <2>1, <2>2 DEF Sums, First
<1>2. f \in [S -> Int]
  OBVIOUS
<1>3. Total(tk, S) = iter[S]
  BY DEF Total, MapThenSumSet, MapThenFoldSet
<1> HIDE DEF f, Is
<1>4. PICK g \in [SUBSET S -> Int] : Sums(g, f, S)
  BY <1>2, SumsExist
<1>5. Is(iter)
  BY <1>1, <1>4
<1> HIDE DEF iter
<1>6. Sums(iter, f, S)
  BY <1>1, <1>5
<1>7. iter = g
  <2>1. \A s \in SUBSET S : iter[s] = g[s]
    BY <1>4, <1>6, SumsAgree
  <2>2. iter = [s \in SUBSET S |-> iter[s]]
    BY <1>6 DEF Sums
  <2>3. g = [s \in SUBSET S |-> g[s]]
    OBVIOUS
  <2> QED
    BY <2>1, <2>2, <2>3
<1> QED
  BY <1>3, <1>4, <1>7 DEF f

LEMMA TotalEmpty == ASSUME NEW tk PROVE Total(tk, {}) = 0
<1>1. PICK g \in [SUBSET {} -> Int] :
         Sums(g, [k \in {} |-> tk[k].update.delta], {}) /\ Total(tk, {}) = g[{}]
  BY TotalSums, FS_EmptySet
<1> QED
  BY <1>1 DEF Sums

LEMMA TotalType ==
    ASSUME NEW tk, NEW S, IsFiniteSet(S), \A k \in S : tk[k].update.delta \in Int
    PROVE  Total(tk, S) \in Int
<1>1. PICK g \in [SUBSET S -> Int] : Total(tk, S) = g[S]
  BY TotalSums
<1> QED
  BY <1>1

\* A total depends on what its tasks add.
LEMMA TotalSame ==
    ASSUME NEW tk, NEW other, NEW S, IsFiniteSet(S),
           \A k \in S : tk[k].update.delta \in Int
                         /\ other[k].update.delta = tk[k].update.delta
    PROVE  Total(other, S) = Total(tk, S)
<1> DEFINE f == [k \in S |-> tk[k].update.delta]
           e == [k \in S |-> other[k].update.delta]
<1>1. PICK g \in [SUBSET S -> Int] : Sums(g, f, S) /\ Total(tk, S) = g[S]
  BY TotalSums
<1>2. PICK h \in [SUBSET S -> Int] : Sums(h, e, S) /\ Total(other, S) = h[S]
  BY TotalSums
<1>3. f = e
  OBVIOUS
<1> HIDE DEF f, e
<1>4. g[S] = h[S]
  BY <1>1, <1>2, <1>3, SumsAgree
<1> QED
  BY <1>1, <1>2, <1>4

\* The same for sums over different sets.
LEMMA SumsDrop ==
    ASSUME NEW S, NEW f, NEW g, Summed(g, f, S), NEW k \in S,
           NEW e, NEW h, Sums(h, e, S \ {k}), \A j \in S \ {k} : e[j] = f[j]
    PROVE  g[S] = f[k] + h[S \ {k}]
<1>1. S \in SUBSET S /\ IsFiniteSet(S) /\ Sums(g, f, S)
  BY DEF Summed
<1>2. g[S] = f[k] + g[S \ {k}]
  BY <1>1, SumsAdd
<1> DEFINE R == S \ {k}
<1>3. IsFiniteSet(R) /\ R \in SUBSET (S \cap R)
  BY <1>1, FS_RemoveElement
<1>4. Sums(h, e, R) /\ \A j \in R : e[j] = f[j]
  OBVIOUS
<1> HIDE DEF R
<1>5. g[R] = h[R]
  BY <1>1, <1>3, <1>4, SumsAgree
<1> QED
  BY <1>2, <1>5 DEF R

\* A total with one task more.
LEMMA TotalWith ==
    ASSUME NEW tk, NEW S, IsFiniteSet(S), \A k \in S : tk[k].update.delta \in Int,
           NEW k \in S
    PROVE  Total(tk, S) = tk[k].update.delta + Total(tk, S \ {k})
<1> DEFINE f == [j \in S |-> tk[j].update.delta]
           e == [j \in S \ {k} |-> tk[j].update.delta]
<1>1. IsFiniteSet(S \ {k})
  BY FS_RemoveElement
<1>2. PICK g \in [SUBSET S -> Int] : Sums(g, f, S) /\ Total(tk, S) = g[S]
  BY TotalSums
<1>3. PICK h \in [SUBSET (S \ {k}) -> Int] :
         Sums(h, e, S \ {k}) /\ Total(tk, S \ {k}) = h[S \ {k}]
  BY <1>1, TotalSums
<1>4. /\ Summed(g, f, S) /\ f[k] = tk[k].update.delta
      /\ \A j \in S \ {k} : e[j] = f[j]
  BY <1>2 DEF Summed
<1> HIDE DEF f, e
<1>5. g[S] = f[k] + h[S \ {k}]
  BY <1>2, <1>3, <1>4, SumsDrop
<1> QED
  BY <1>2, <1>3, <1>4, <1>5
-----------------------------------------------------------------------------
(***************************************************************************)
(* The cached balance agrees with the database's (BalanceAgrees), given    *)
(* what Traced says of the tasks: a transaction moves an amount from the   *)
(* request into what is pending, and the task's second step takes it from  *)
(* there into the cache.                                                   *)
(***************************************************************************)
Balance(id) ==
    cache[id].mp = (store[cache[id].aid].mp - Total(task, Pending(id))) % Word

Balanced == \A id \in Id : Current(id) => Balance(id)

LEMMA BalancedAgrees == Balanced <=> BalanceAgrees
BY DEF Balanced, Balance, BalanceAgrees, Total

\* The numbers of Balance are numbers.
LEMMA BalanceTypes ==
    ASSUME Typed, IsFiniteSet(Slot), NEW id \in Id
    PROVE  /\ IsFiniteSet(Pending(id))
           /\ \A k \in Pending(id) : task[k].update.delta \in Int
           /\ Total(task, Pending(id)) \in Int
           /\ cache[id] # None => /\ cache[id].mp \in 0 .. Word - 1
                                  /\ cache[id].aid \in Aid
                                  /\ store[cache[id].aid].mp \in Nat
<1>1. IsFiniteSet(Pending(id))
  BY FS_Subset DEF Pending
<1>2. \A k \in Pending(id) : task[k].update.delta \in Int
  BY DEF Pending, Typed, TaskOK, IsTask, IsUpdate
<1>3. cache[id] # None => IsCached(cache[id])
  BY DEF Typed, CacheOK
<1>4. \A a \in Aid : store[a].mp \in Nat
  BY DEF Typed, StoreOK, IsAccount
<1> QED
  BY <1>1, <1>2, <1>3, <1>4, TotalType DEF IsCached

\* A step that leaves both balances, and what is pending, alone.
LEMMA BalanceKept ==
    ASSUME Typed, IsFiniteSet(Slot), NEW id \in Id, Balance(id),
           cache'[id].mp = cache[id].mp,
           store'[cache'[id].aid].mp = store[cache[id].aid].mp,
           Pending(id)' = Pending(id),
           \A k \in Pending(id) : task'[k].update = task[k].update
    PROVE  Balance(id)'
<1>1. Total(task', Pending(id)) = Total(task, Pending(id))
  BY BalanceTypes, TotalSame
<1> QED
  BY <1>1 DEF Balance

\* A request, which changes a cached balance by nothing if at all.
LEMMA SubmitBalanced ==
    ASSUME Typed, IsFiniteSet(Slot), Balanced,
           NEW k \in Slot, NEW id, NEW u, NEW early, Submit(k, id, u, early),
           \A j \in Id : cache[j] = None => cache'[j] = None,
           \A j \in Id : cache[j] # None => cache'[j].aid = cache[j].aid
                                            /\ cache'[j].mp = cache[j].mp
    PROVE  Balanced'
<1> SUFFICES ASSUME NEW j \in Id, Current(j)' PROVE Balance(j)'
  BY DEF Balanced
<1>1. /\ task[k] = None /\ UNCHANGED <<store, behind>> /\ DOMAIN task = Slot
      /\ \E t : t.state = "queued" /\ task' = [task EXCEPT ![k] = t]
  BY DEF Submit, Typed, TaskOK
<1>2. Current(j)
  BY <1>1 DEF Current
<1>3. \A i \in Slot : i # k => task'[i] = task[i]
  BY <1>1
<1>4. k \notin Pending(j) /\ k \notin Pending(j)'
  BY <1>1 DEF Pending
<1>5. Pending(j)' = Pending(j) /\ \A i \in Pending(j) : task'[i].update = task[i].update
  <2>1. \A i \in Slot : i # k => (i \in Pending(j)' <=> i \in Pending(j))
    BY <1>3 DEF Pending
  <2>2. Pending(j) \subseteq Slot /\ Pending(j)' \subseteq Slot
    BY DEF Pending
  <2>3. Pending(j)' = Pending(j)
    BY <1>4, <2>1, <2>2
  <2> QED
    BY <1>3, <1>4, <2>2, <2>3
<1>6. Balance(j) /\ cache'[j].mp = cache[j].mp
      /\ store'[cache'[j].aid].mp = store[cache[j].aid].mp
  BY <1>1, <1>2 DEF Balanced, Current
<1> QED
  BY <1>5, <1>6, BalanceKept

LEMMA RequestBalanced ==
    ASSUME Typed, IsFiniteSet(Slot), Balanced, NEW k \in Slot, NEW id \in Id,
           \/ \E g \in Good, n \in 1 .. Batch : ShopNormal(k, id, g, n)
           \/ \E s : ItemSell(k, id, s)
           \/ \E S : ItemDelete(k, id, S) \/ ItemRepair(k, id, S)
    PROVE  Balanced'
<1>1. cache' = cache /\ \E u : Submit(k, id, u, FALSE)
  BY DEF ShopNormal, ItemSell, ItemDelete, ItemRepair, Ask
<1> QED
  BY <1>1, SubmitBalanced

LEMMA ItemCommandBalanced ==
    ASSUME Typed, IsFiniteSet(Slot), Balanced, NEW k \in Slot, NEW id \in Id,
           NEW g \in Good, NEW n \in 1 .. Batch, ItemCommand(k, id, g, n)
    PROVE  Balanced'
<1> DEFINE u == Change(0, {}, {}, Crafted(cache[id].items, g, n, "gm"))
<1>1. /\ cache[id] # None /\ Submit(k, id, u, TRUE)
      /\ cache' = [cache EXCEPT ![id] = Applied(cache[id], u, {})]
      /\ DOMAIN cache = Id
  BY DEF ItemCommand, Typed, CacheOK
<1>2. Applied(cache[id], u, {}).aid = cache[id].aid
      /\ Applied(cache[id], u, {}).mp = (cache[id].mp + 0) % Word
  BY DEF Applied, Change
<1>3. cache[id].mp \in 0 .. Word - 1 /\ Word \in Nat \ {0}
  BY <1>1, BalanceTypes, BoundsAssumption
<1>4. (cache[id].mp + 0) % Word = cache[id].mp
  <2>1. cache[id].mp + 0 = cache[id].mp
    BY <1>3
  <2> QED
    BY <1>3, <2>1, ModulusSmall
<1> HIDE DEF u
<1>5. \A j \in Id : /\ cache[j] = None => cache'[j] = None
                    /\ cache[j] # None => cache'[j].aid = cache[j].aid
                                          /\ cache'[j].mp = cache[j].mp
  BY <1>1, <1>2, <1>4
<1> QED
  BY <1>1, <1>5, SubmitBalanced

LEMMA RefuseBalanced ==
    ASSUME Typed, IsFiniteSet(Slot), Balanced, NEW k \in Slot, Refuse(k)
    PROVE  Balanced'
<1> SUFFICES ASSUME NEW j \in Id, Current(j)' PROVE Balance(j)'
  BY DEF Balanced
<1>1. /\ task[k].state = "queued" /\ task' = [task EXCEPT ![k] = None]
      /\ UNCHANGED <<store, cache, behind>> /\ DOMAIN task = Slot
  BY DEF Refuse, Typed, TaskOK
<1>2. Balance(j)
  BY <1>1 DEF Current, Balanced
<1>3. Pending(j)' = Pending(j) /\ \A i \in Pending(j) : task'[i].update = task[i].update
  BY <1>1 DEF Pending
<1> QED
  BY <1>1, <1>2, <1>3, BalanceKept

\* A transaction that MariaDB accepts moves the database's balance by what it
\* makes pending.
LEMMA CommitBalanced ==
    ASSUME NoneIsNothing, Checked, Typed, Traced, IsFiniteSet(Slot), Balanced, Typed',
           NEW k \in Slot, Commit(k)
    PROVE  Balanced'
<1> SUFFICES ASSUME NEW j \in Id, Current(j)' PROVE Balance(j)'
  BY DEF Balanced
<1> DEFINE t == task[k]
           a == t.aid
           u == t.update
<1>1. /\ t # None /\ t.state = "queued" /\ Accepts(store[a], u)
      /\ store' = [store EXCEPT ![a] = Written(store[a], u)]
      /\ UNCHANGED cache /\ DOMAIN task = Slot /\ DOMAIN store = Aid
      /\ IsTask(t) /\ a \in Aid
  BY DEF Commit, Typed, TaskOK, StoreOK, IsTask
<1>2. behind' = behind \cup {id \in Id : t.orphan /\ cache[id] # None /\ cache[id].aid = a}
  BY DEF Commit
<1>3. \A i \in Slot : i # k => task'[i] = task[i]
  BY <1>1 DEF Commit
<1>4. IF t.early THEN task'[k] = None
      ELSE /\ IsTask(task'[k]) /\ task'[k].state = "committed"
           /\ task'[k].sid = t.sid /\ task'[k].orphan = t.orphan /\ task'[k].update = u
  <2>1. task'[k] = IF t.early THEN None ELSE [t EXCEPT !.state = "committed"]
    BY <1>1 DEF Commit
  <2>2. [t EXCEPT !.state = "committed"]
          = [aid |-> t.aid, sid |-> t.sid, update |-> t.update, early |-> t.early,
             state |-> "committed", orphan |-> t.orphan]
    BY <1>1 DEF IsTask
  <2> QED
    BY <1>1, <2>1, <2>2 DEF IsTask
<1>5. Current(j) /\ Balance(j) /\ ~(t.orphan /\ cache[j].aid = a)
  BY <1>1, <1>2 DEF Current, Balanced
<1>6. store[a].mp \in Nat /\ u.delta \in Int /\ store'[a].mp = store[a].mp + u.delta
  BY <1>1 DEF Accepts, Written, Typed, StoreOK, IsAccount, IsTask, IsUpdate
<1>7. k \notin Pending(j)
  BY <1>1 DEF Pending
<1>8. Pending(j)' \ {k} = Pending(j) /\ \A i \in Pending(j) : task'[i].update = task[i].update
  <2>1. \A i \in Slot : i # k => (i \in Pending(j)' <=> i \in Pending(j))
    BY <1>3 DEF Pending
  <2>2. Pending(j) \subseteq Slot /\ Pending(j)' \subseteq Slot
    BY DEF Pending
  <2> QED
    BY <1>3, <1>7, <2>1, <2>2
<1> HIDE DEF a, u
<1>9. CASE t.orphan \/ t.sid # j
  <2>1. cache[j].aid # a
    BY <1>1, <1>5, <1>9, OwnAccount DEF Current, a
  <2>2. Pending(j)' = Pending(j)
    BY <1>4, <1>8, <1>9 DEF Pending
  <2>3. store'[cache[j].aid] = store[cache[j].aid]
    BY <1>1, <2>1
  <2> QED
    BY <1>1, <1>5, <1>8, <2>2, <2>3, BalanceKept
<1>10. CASE ~t.orphan /\ t.sid = j
  <2>1. cache[j].aid = a
    BY <1>1, <1>5, <1>10, OwnAccount DEF Current, a
  <2>2. CASE t.early
    <3>1. u.delta = 0
      BY <1>1, <2>2 DEF Traced, Gifts, u
    <3>2. Pending(j)' = Pending(j)
      BY <1>4, <1>8, <2>2 DEF Pending
    <3>3. store'[a].mp = store[a].mp
      BY <1>6, <3>1
    <3> QED
      BY <1>1, <1>5, <1>8, <2>1, <3>2, <3>3, BalanceKept
  <2>3. CASE ~t.early
    <3>1. k \in Pending(j)'
      BY <1>4, <1>10, <2>3 DEF Pending, NoneIsNothing
    <3>2. /\ IsFiniteSet(Pending(j)) /\ Total(task, Pending(j)) \in Int
          /\ \A i \in Pending(j) : task[i].update.delta \in Int
      BY BalanceTypes
    <3>3. IsFiniteSet(Pending(j)') /\ \A i \in Pending(j)' : task'[i].update.delta \in Int
      <4>1. Pending(j)' \subseteq Slot
        BY DEF Pending
      <4>2. IsFiniteSet(Pending(j)')
        BY <4>1, FS_Subset
      <4>3. \A i \in Pending(j)' : i # k => i \in Pending(j)
        BY <1>8
      <4> QED
        BY <1>4, <1>6, <1>8, <2>3, <3>2, <4>2, <4>3
    <3>4. Total(task', Pending(j)') = task'[k].update.delta + Total(task', Pending(j)' \ {k})
      BY <3>1, <3>3, TotalWith
    <3>5. Total(task', Pending(j)) = Total(task, Pending(j))
      BY <1>8, <3>2, TotalSame
    <3>6. Total(task', Pending(j)') = u.delta + Total(task, Pending(j))
      BY <1>4, <1>8, <2>3, <3>4, <3>5
    <3>7. store'[a].mp - Total(task', Pending(j)') = store[a].mp - Total(task, Pending(j))
      BY <1>6, <3>2, <3>6
    <3> QED
      BY <1>1, <1>5, <2>1, <3>7 DEF Balance
  <2> QED
    BY <2>2, <2>3
<1> QED
  BY <1>9, <1>10

\* The second step takes it out of what is pending, and may wrap around.
LEMMA ApplyBalanced ==
    ASSUME NoneIsNothing, Typed, Traced, IsFiniteSet(Slot), Balanced, NEW k \in Slot, Apply(k)
    PROVE  Balanced'
<1> SUFFICES ASSUME NEW j \in Id, Current(j)' PROVE Balance(j)'
  BY DEF Balanced
<1> DEFINE t == task[k]
           id == t.sid
           u == t.update
<1>1. /\ t # None /\ t.state = "committed" /\ task' = [task EXCEPT ![k] = None]
      /\ UNCHANGED store /\ DOMAIN task = Slot /\ DOMAIN cache = Id /\ id \in Id
      /\ IsUpdate(u)
  BY AllSerials DEF Apply, Typed, TaskOK, CacheOK, IsTask
<1>2. \/ cache[id] = None /\ UNCHANGED <<cache, behind>>
      \/ /\ cache[id] # None
         /\ \E S : cache' = [cache EXCEPT ![id] = Applied(cache[id], u, S)]
         /\ behind' = IF t.orphan THEN behind \cup {id} ELSE behind
  BY DEF Apply
<1>3. \A i \in Pending(j) \ {k} : task'[i].update = task[i].update
  BY <1>1 DEF Pending
<1>4. Pending(j)' = Pending(j) \ {k}
  BY <1>1 DEF Pending
<1>5. CASE j # id
  <2>1. cache'[j] = cache[j] /\ (j \in behind' <=> j \in behind)
    BY <1>1, <1>2, <1>5
  <2>2. Balance(j)
    BY <2>1 DEF Current, Balanced
  <2>3. k \notin Pending(j)
    BY <1>5 DEF Pending
  <2> QED
    BY <1>1, <1>3, <1>4, <2>1, <2>2, <2>3, BalanceKept
<1>6. CASE j = id
  <2>1. cache[j] # None
    BY <1>2, <1>6 DEF Current
  <2>2. ~t.orphan /\ behind' = behind
    BY <1>1, <1>2, <1>6, <2>1 DEF Current
  <2>3. Balance(j)
    BY <2>1, <2>2 DEF Current, Balanced
  <2>4. PICK S : cache' = [cache EXCEPT ![id] = Applied(cache[id], u, S)]
    BY <1>2, <1>6, <2>1
  <2>5. cache'[j].aid = cache[j].aid /\ cache'[j].mp = (cache[j].mp + u.delta) % Word
    <3>1. cache'[j] = Applied(cache[j], u, S)
      BY <1>1, <1>6, <2>4
    <3> QED
      BY <3>1 DEF Applied
  <2>6. k \in Pending(j)
    BY <1>1, <1>6, <2>2 DEF Pending
  <2>7. /\ IsFiniteSet(Pending(j)) /\ Total(task, Pending(j)) \in Int
        /\ \A i \in Pending(j) : task[i].update.delta \in Int
        /\ store[cache[j].aid].mp \in Nat /\ u.delta \in Int
    BY <2>1, <2>6, BalanceTypes
  <2> DEFINE R == Pending(j) \ {k}
             m == store[cache[j].aid].mp
             owed == Total(task, Pending(j))
             rest == Total(task, R)
  <2>8. owed = u.delta + rest
    BY <2>6, <2>7, TotalWith
  <2>9. IsFiniteSet(R) /\ \A i \in R : task[i].update.delta \in Int
    BY <2>7, FS_RemoveElement
  <2>10. Total(task', R) = rest
    BY <1>3, <2>9, TotalSame
  <2>11. rest \in Int
    BY <2>9, TotalType
  <2>12. cache'[j].mp = (((m - owed) % Word) + u.delta) % Word
    BY <2>3, <2>5 DEF Balance
  <2>13. store'[cache'[j].aid].mp = m
    BY <1>1, <2>5
  <2> HIDE DEF m, owed, rest, R
  <2>14. m - owed \in Int /\ (m - owed) + u.delta = m - rest
    BY <2>7, <2>8, <2>11 DEF m, owed
  <2>15. Word \in Nat \ {0}
    BY BoundsAssumption
  <2>16. cache'[j].mp = (m - rest) % Word
    BY <2>7, <2>12, <2>14, <2>15, ModulusAdds
  <2>17. Total(task', Pending(j)') = rest
    BY <1>4, <2>10 DEF R
  <2> QED
    BY <2>13, <2>16, <2>17 DEF Balance
<1> QED
  BY <1>5, <1>6
\* A login caches the database's balance, and no task of its session is there.
LEMMA LoginBalanced ==
    ASSUME Typed, Traced, IsFiniteSet(Slot), Balanced, NEW a \in Aid, NEW id \in Id, Login(a, id)
    PROVE  Balanced'
<1> SUFFICES ASSUME NEW j \in Id, Current(j)' PROVE Balance(j)'
  BY DEF Balanced
<1> DEFINE c == [aid |-> a, mp |-> store[a].mp, items |-> store[a].items]
<1>1. /\ cache[id] = None /\ cache' = [cache EXCEPT ![id] = c]
      /\ behind' = behind \ {id} /\ store[a].mp < Word
      /\ UNCHANGED <<store, task>> /\ DOMAIN cache = Id
  BY DEF Login, Typed, CacheOK
<1>2. c.aid = a /\ c.mp = store[a].mp
  OBVIOUS
<1> HIDE DEF c
<1>3. CASE j = id
  <2>1. Pending(j)' = {}
    BY <1>1, <1>3 DEF Traced, Attached, Pending
  <2>2. Total(task', Pending(j)') = 0
    BY <2>1, TotalEmpty
  <2>3. store[a].mp \in 0 .. Word - 1 /\ Word \in Nat \ {0}
    BY <1>1, BoundsAssumption DEF Typed, StoreOK, IsAccount
  <2>4. store[a].mp - 0 = store[a].mp /\ store[a].mp % Word = store[a].mp
    BY <2>3, ModulusSmall
  <2>5. cache'[j].mp = store[a].mp /\ store'[cache'[j].aid].mp = store[a].mp
    BY <1>1, <1>2, <1>3
  <2> QED
    BY <2>2, <2>4, <2>5 DEF Balance
<1>4. CASE j # id
  <2>1. cache'[j] = cache[j] /\ Current(j)
    BY <1>1, <1>4 DEF Current
  <2>2. Balance(j)
    BY <2>1 DEF Balanced
  <2>3. Pending(j)' = Pending(j) /\ \A k \in Pending(j) : task'[k].update = task[k].update
    BY <1>1 DEF Pending
  <2> QED
    BY <1>1, <2>1, <2>2, <2>3, BalanceKept
<1> QED
  BY <1>3, <1>4

\* A logout leaves the other sessions' tasks as they are.
LEMMA LogoutBalanced ==
    ASSUME Typed, IsFiniteSet(Slot), Balanced, NEW id \in Id, Logout(id)
    PROVE  Balanced'
<1> SUFFICES ASSUME NEW j \in Id, Current(j)' PROVE Balance(j)'
  BY DEF Balanced
<1>1. /\ cache' = [cache EXCEPT ![id] = None] /\ behind' = behind \ {id}
      /\ UNCHANGED store /\ DOMAIN cache = Id
  BY DEF Logout, Typed, CacheOK
<1>2. j # id
  BY <1>1 DEF Current
<1>3. cache'[j] = cache[j] /\ Current(j)
  BY <1>1, <1>2 DEF Current
<1>4. Balance(j)
  BY <1>3 DEF Balanced
<1>5. ASSUME NEW k \in Slot
      PROVE  \/ task'[k] = task[k]
             \/ /\ task[k].sid = id
                /\ task'[k].sid = id
  <2>1. CASE task[k] # None /\ task[k].sid = id
    <3>1. task'[k] = [task[k] EXCEPT !.orphan = TRUE] /\ IsTask(task[k])
      BY <2>1 DEF Logout, Typed, TaskOK
    <3> QED
      BY <2>1, <3>1 DEF IsTask
  <2>2. CASE ~(task[k] # None /\ task[k].sid = id)
    BY <2>2 DEF Logout
  <2> QED
    BY <2>1, <2>2
<1>6. Pending(j)' = Pending(j)
  BY <1>2, <1>5 DEF Pending
<1>7. \A k \in Pending(j) : task'[k].update = task[k].update
  BY <1>2, <1>5 DEF Pending
<1> QED
  BY <1>1, <1>3, <1>4, <1>6, <1>7, BalanceKept

LEMMA BalancedInit == Init => Balanced
BY DEF Init, Balanced, Current

\* Together: Balanced is inductive beside Typed and Traced.
LEMMA BalancedStep ==
    ASSUME NoneIsNothing, Checked, IsFiniteSet(Slot)
    PROVE  Typed /\ Traced /\ Balanced /\ Typed' /\ [Next]_vars => Balanced'
<1> SUFFICES ASSUME Typed, Traced, Balanced, Typed', [Next]_vars PROVE Balanced'
  OBVIOUS
<1>1. ASSUME NEW k \in Slot, NEW id \in Id, NEW g \in Good, NEW n \in 1 .. Batch,
             ShopNormal(k, id, g, n) \/ ItemCommand(k, id, g, n)
      PROVE  Balanced'
  BY <1>1, RequestBalanced, ItemCommandBalanced
<1>2. ASSUME NEW k \in Slot, NEW id \in Id, NEW s \in Shown(id), ItemSell(k, id, s)
      PROVE  Balanced'
  BY <1>2, RequestBalanced
<1>3. ASSUME NEW k \in Slot, NEW id \in Id, NEW S \in SUBSET Shown(id),
             ItemDelete(k, id, S) \/ ItemRepair(k, id, S)
      PROVE  Balanced'
  BY <1>3, RequestBalanced
<1>4. ASSUME NEW k \in Slot, Commit(k) \/ Refuse(k) \/ Apply(k) PROVE Balanced'
  BY <1>4, CommitBalanced, RefuseBalanced, ApplyBalanced
<1>5. ASSUME NEW id \in Id, Logout(id) \/ \E a \in Aid : Login(a, id) PROVE Balanced'
  BY <1>5, LoginBalanced, LogoutBalanced
<1>6. CASE UNCHANGED vars
  <2>1. UNCHANGED <<store, cache, task, behind>>
    BY <1>6 DEF vars
  <2> QED
    BY <2>1 DEF Balanced, Balance, Current, Pending
<1> QED
  BY <1>1, <1>2, <1>3, <1>4, <1>5, <1>6 DEF Next

\* On MariaDB the cached balance, which wraps around at Word, is the database's
\* but for what the session's tasks have yet to tell it: for any number of
\* accounts and sessions and any finite pool of tasks, in whatever order they
\* run and whichever are refused, no amount is lost or counted twice.
THEOREM BalanceAgreesHolds ==
    ASSUME NoneIsNothing, InitialIsOld, Checked, IsFiniteSet(Slot)
    PROVE  Spec => []BalanceAgrees
<1>1. Init => Typed /\ Traced /\ Balanced
  BY TypeInit, TracedInit, BalancedInit
<1>2. Typed /\ Traced /\ Balanced /\ [Next]_vars => Typed' /\ Traced' /\ Balanced'
  BY TypeStep, TracedStep, BalancedStep
<1>3. Balanced => BalanceAgrees
  BY BalancedAgrees
<1> QED
  BY <1>1, <1>2, <1>3, PTL DEF Spec
=============================================================================
