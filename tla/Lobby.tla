------------------------------- MODULE Lobby --------------------------------
(***************************************************************************)
(* What the Main server's rooms promise: every player is in at most one    *)
(* room; a room is there exactly as long as somebody is in it; and it has  *)
(* a leader among the players in it, who stays leader until leaving or     *)
(* handing over.  RoomMembership implements this specification.            *)
(***************************************************************************)
CONSTANTS Player, RoomId, None

VARIABLES
    where,      \* Player -> the room the player is in, or None
    leader      \* RoomId -> the leader, None for a room that is not there

Occupants(r) == {p \in Player : where[p] = r}

Init ==
    /\ where = [p \in Player |-> None]
    /\ leader = [r \in RoomId |-> None]

Open(p, r) ==
    /\ where[p] = None /\ leader[r] = None
    /\ where' = [where EXCEPT ![p] = r]
    /\ leader' = [leader EXCEPT ![r] = p]

Enter(p, r) ==
    /\ where[p] = None /\ leader[r] # None
    /\ where' = [where EXCEPT ![p] = r]
    /\ UNCHANGED leader

\* The players S go; a remaining player takes over from a leader that goes.
Quit(S, r) ==
    /\ S # {} /\ S \subseteq Occupants(r)
    /\ where' = [p \in Player |-> IF p \in S THEN None ELSE where[p]]
    /\ \E heir \in Occupants(r) \cup {None} :
          /\ IF S = Occupants(r) THEN heir = None ELSE heir \in Occupants(r) \ S
          /\ leader[r] \notin S => heir = leader[r]
          /\ leader' = [leader EXCEPT ![r] = heir]

HandOver(r, q) ==
    /\ leader[r] # None /\ q \in Occupants(r)
    /\ leader' = [leader EXCEPT ![r] = q]
    /\ UNCHANGED where

Next ==
    \E r \in RoomId :
        \/ \E p \in Player : Open(p, r) \/ Enter(p, r) \/ HandOver(r, p)
        \/ \E S \in SUBSET Occupants(r) : Quit(S, r)

Spec == Init /\ [][Next]_<<where, leader>>
=============================================================================
