---------------------------- MODULE AccountBook -----------------------------
(***************************************************************************)
(* What the database layer promises: the accounts change by whole updates, *)
(* one account at a time.  Goods are paid in full or not delivered, an     *)
(* item that is sold is gone, and nobody spends what is not there.         *)
(***************************************************************************)
EXTENDS Accounts

VARIABLE book       \* Aid -> the account

Init == book \in [Aid -> Initial]

New(a) == DOMAIN book'[a].items \ Owned(book[a])
Goods(S, g) == [s \in S |-> [good |-> g, worn |-> FALSE]]

Buy(a) ==
    \E g \in Good :
        LET cost == Cardinality(New(a)) * Price[g]
        IN  /\ New(a) # {} /\ cost <= book[a].mp
            /\ book' = [book EXCEPT ![a] =
                           [mp |-> @.mp - cost, items |-> With(@.items, Goods(New(a), g))]]

\* The price is that of the item the player was shown under the serial.
Sell(a) ==
    \E s \in Owned(book[a]), g \in Good :
        book' = [book EXCEPT ![a] =
                    [mp |-> @.mp + SellPrice[g], items |-> Without(@.items, {s})]]

Delete(a) ==
    \E S \in SUBSET Owned(book[a]) :
        S # {} /\ book' = [book EXCEPT ![a].items = Without(@, S)]

\* The price is that of what was worn when the repair was asked for.
Repair(a) ==
    \E S \in SUBSET Owned(book[a]), cost \in 0 .. book[a].mp :
        /\ S # {}
        /\ book' = [book EXCEPT ![a] =
                       [mp |-> @.mp - cost, items |-> Repaired(@.items, S)]]

\* The staff's commands make items for nothing.
Grant(a) ==
    /\ New(a) # {} /\ \A s \in New(a) : s.origin = "gm"
    /\ \E g \in Good :
          book' = [book EXCEPT ![a].items = With(@, Goods(New(a), g))]

Next == \E a \in Aid : Buy(a) \/ Sell(a) \/ Delete(a) \/ Repair(a) \/ Grant(a)

Spec == Init /\ [][Next]_book
=============================================================================
