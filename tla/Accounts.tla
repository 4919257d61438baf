------------------------------ MODULE Accounts ------------------------------
(***************************************************************************)
(* What an account of the game owns, as far as the shop and the inventory  *)
(* go: a balance of micro points and items.  An item is filed under its    *)
(* serial: a number, the second it was made in and where it came from.     *)
(***************************************************************************)
EXTENDS Integers, FiniteSets

CONSTANTS
    Aid,            \* account ids
    Good,           \* ids of the items the shop sells
    Price,          \* Good -> micro points
    SellPrice,      \* Good -> micro points a player gets for one
    RepairPrice,    \* micro points to repair a worn item
    Initial         \* the accounts the database may hold at the start

ASSUME PricesAssumption ==
    /\ Price \in [Good -> Nat]
    /\ SellPrice \in [Good -> Nat]
    /\ RepairPrice \in Nat

Serial == [id : Nat, time : Nat, origin : {"game", "gm"}]
Item == [good : Good, worn : BOOLEAN]
IsInventory(items) ==
    /\ items = [s \in DOMAIN items |-> items[s]] /\ IsFiniteSet(DOMAIN items)
    /\ \A s \in DOMAIN items : s \in Serial /\ items[s] \in Item
IsAccount(acc) ==
    /\ acc = [mp |-> acc.mp, items |-> acc.items]
    /\ acc.mp \in Nat /\ IsInventory(acc.items)

ASSUME InitialAssumption == \A acc \in Initial : IsAccount(acc)

Owned(acc) == DOMAIN acc.items

\* Inventories with some items dropped, added, or repaired.
Without(items, S) == [s \in DOMAIN items \ S |-> items[s]]
With(items, more) ==
    [s \in DOMAIN items \cup DOMAIN more |->
        IF s \in DOMAIN more THEN more[s] ELSE items[s]]
Repaired(items, S) ==
    [s \in DOMAIN items |->
        IF s \in S THEN [items[s] EXCEPT !.worn = FALSE] ELSE items[s]]
=============================================================================
