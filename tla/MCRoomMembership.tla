-------------------------- MODULE MCRoomMembership --------------------------
(* RoomMembership on a small instance. *)
EXTENDS RoomMembership, TLC

Symmetry == Permutations(Player \ Staff) \cup Permutations(RoomId)

Around == {p \in Player : session[p] # "offline"}
Used == issued \cup {r \in RoomId : rules[r] # None}

\* Those who have disconnected and not been purged, and those barred from a room.
Closing == {p \in Player : session[p] = "closing"}
Barred == UNION {kicked[r] : r \in live}
HasOddLimit(r) == rules[r].max % 2 = 1

\* At most two players are disconnected, barred or in a party, and at most one where
\* the limit is odd; in a match players disconnect where none is barred or in a party.
FewTroubles ==
    /\ Cardinality(Closing) + Cardinality(Barred) + Cardinality(inParty)
         <= IF \E r \in live : HasOddLimit(r) THEN 1 ELSE 2
    /\ (\E r \in live : started[r]) /\ Closing # {} => Barred \cup inParty = {}

\* One room, which anybody may enter.  The tester is not barred from it and is in no
\* party.  Where it has an odd limit or is a party's it is a team room that nobody
\* is barred from; with the odd limit no match is played, and the room of a party
\* has a host who is in one and no seats for observers.
OneRoom ==
    /\ Cardinality(Used) <= 1 /\ (Barred \cup inParty) \cap Staff = {}
    /\ \A p \in Player : joining[p] = None
    /\ \A r \in live :
          /\ HasOddLimit(r) \/ inParty # {} => rules[r].teamBased /\ Barred = {}
          /\ HasOddLimit(r) => \A p \in Player : ~playing[p]
          /\ inParty # {} => host[r] \in inParty /\ ~rules[r].observers
    /\ Cardinality(Barred) <= 1 /\ FewTroubles

\* Two rooms of the lowest limit, with one player and one of the staff who go from
\* one to the other; the player may be barred.
TwoPlayers ==
    /\ Cardinality(Around \ Staff) <= 1 /\ inParty = {}
    /\ Barred \subseteq Around \ Staff
    /\ \A r \in live, q \in Limits : rules[r].max <= q

OneRoomOrTwoPlayers == OneRoom \/ TwoPlayers
=============================================================================
