------------------------------ MODULE MCMatch ------------------------------
(***************************************************************************)
(* Match on a small instance: three players for what takes a majority, the *)
(* votes and the rewards; hits and rounds while at most two are around.    *)
(***************************************************************************)
EXTENDS Match, TLC

Symmetry == Permutations(Sid)

HitsBetweenTwo ==
    Cardinality(present) > 2 => kills = NoKills /\ rounds = 0 /\ fight = "open"
=============================================================================
