-------------------------- MODULE MCAccountUpdates --------------------------
(***************************************************************************)
(* Accounts with few points and items, for TLC.                            *)
(***************************************************************************)
EXTENDS AccountUpdates, TLC

CONSTANTS g, h

MCGood == {g, h}
MCPrice == [x \in Good |-> 2]
MCSellPrice == [x \in Good |-> IF x = g THEN 1 ELSE 2]

Old(id) == [id |-> id, time |-> 0, origin |-> "game"]

\* A worn item, and points for one purchase and a repair.
MCInitial ==
    {[mp |-> 3, items |-> [s \in {Old(0)} |-> [good |-> g, worn |-> TRUE]]]}

Symmetry == Permutations(Slot)
=============================================================================
