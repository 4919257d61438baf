----------------------- MODULE RoomMembershipProofs -------------------------
(***************************************************************************)
(* Proofs about RoomMembership, for any set of players and rooms.          *)
(***************************************************************************)
EXTENDS RoomMembership, FiniteSetTheorems, TLAPS

(***************************************************************************)
(* Type correctness.  The one delicate clause is that a live room's id has *)
(* been issued and not given back.                                         *)
(***************************************************************************)

\* A room's settings are not the value that stands for a missing room.
LEMMA RulesAreNotNone == \A rl \in Rules : rl # None
BY ConstantsAssumption

\* Placement answers a list or None.
LEMMA PlacementType ==
    ASSUME NEW r \in RoomId, NEW way \in Way PROVE Placement(r, way) \in Team \cup {None}
BY DEF Placement, Team, PlayTeam

\* p enters room r, seen by everyone or not.
Joins(p, r) == JoinInvisible(p, r) \/ \E way \in Way : Join(p, r, way)

\* Whoever enters a room is put where Placement says, or with the observers.
LEMMA JoinPlaces ==
    ASSUME NEW p \in Player, NEW r \in RoomId, Joins(p, r)
    PROVE  /\ Entering(p, r) /\ r \in live
           /\ \E t \in Team \cup {None} :
                 /\ Admit(p, r, t)
                 /\ t = "observer" \/ \E way \in Way : t = Placement(r, way)
<1>1. CASE JoinInvisible(p, r)
  BY <1>1 DEF JoinInvisible, Team
<1>2. ASSUME NEW way \in Way, Join(p, r, way)
      PROVE  Entering(p, r) /\ r \in live /\ Admit(p, r, Placement(r, way))
  BY <1>2 DEF Join
<1>3. QED
  BY <1>1, <1>2, PlacementType DEF Joins

\* Where players go and come, only the party handlers, MatchLeave and the purge
\* change who is in a party.
LEMMA PartyType == ASSUME TypeOK, [Next]_vars PROVE inParty' \subseteq Player
<1>1. CASE UNCHANGED vars
  BY <1>1 DEF vars, TypeOK
<1>2. ASSUME NEW p \in Player, Step(p)
      PROVE  \/ inParty' = inParty \/ inParty' = inParty \cup {p} \/ inParty' = inParty \ {p}
  <2>1. CASE \/ Login(p) \/ Disconnect(p) \/ Leave(p) \/ GmKick(p) \/ JoinRefused(p)
            \/ MatchStart(p)
            \/ \E q \in Player : HostKick(p, q) \/ HostChange(p, q) \/ CombatStats(p, q)
            \/ \E t \in Team : TeamChange(p, t)
    BY <2>1 DEF Login, Disconnect, Leave, GmKick, JoinRefused, MatchStart, HostKick, HostChange,
                CombatStats, TeamChange
  <2>2. CASE CreateParty(p) \/ JoinParty(p) \/ LeaveParty(p)
    BY <2>2 DEF CreateParty, JoinParty, LeaveParty
  <2>3. CASE \E v \in BOOLEAN : Purge(p, v) \/ MatchLeave(p, v)
    BY <2>3 DEF Purge, MatchLeave
  <2>4. CASE \E r \in RoomId : CreateWithoutOptions(p, r) \/ SwitchRoom(p, r)
    BY <2>4 DEF CreateWithoutOptions, SwitchRoom
  <2>5. CASE \E r \in RoomId, rl \in Rules : CreateRoom(p, r, rl)
    BY <2>5 DEF CreateRoom
  <2>6. CASE \E r \in RoomId : JoinInvisible(p, r) \/ \E way \in Way : Join(p, r, way)
    BY <2>6 DEF JoinInvisible, Join, Admit
  <2>7. CASE \E S \in SUBSET Player :
                \/ \E rl \in Rules : ChangeRules(p, rl, S)
                \/ \E allow \in BOOLEAN : AllowObservers(p, allow, S)
                \/ MatchEnd(p, S) \/ MatchEndBrokenOff(p, S)
    BY <2>7 DEF ChangeRules, AllowObservers, MatchEnd, MatchEndBrokenOff
  <2>8. QED
    BY <1>2, <2>1, <2>2, <2>3, <2>4, <2>5, <2>6, <2>7 DEF Step
<1>3. QED
  BY <1>1, <1>2 DEF Next, TypeOK

\* A departure keeps the types, whoever inherits the room.
LEMMA DepartType ==
    ASSUME TypeOK, NEW r \in live, NEW S \in SUBSET Player, NEW B \in SUBSET Player,
           NEW heir \in Player \cup {None}, Depart(r, S, B, heir)
    PROVE  /\ room' \in [Player -> RoomId \cup {None}]
           /\ team' \in [Player -> Team]
           /\ playing' \in [Player -> BOOLEAN]
           /\ live' \subseteq issued' /\ issued' \subseteq RoomId
           /\ members' \in [RoomId -> [Team -> SUBSET Player]]
           /\ host' \in [RoomId -> Player \cup {None}]
           /\ kicked' \in [RoomId -> SUBSET Player]
           /\ rules' \in [RoomId -> Rules \cup {None}]
           /\ \A q \in live' : rules'[q] # None
<1> USE DEF TypeOK, Depart
<1>1. r \in RoomId
  OBVIOUS
<1>2. room' \in [Player -> RoomId \cup {None}] /\ playing' \in [Player -> BOOLEAN]
  OBVIOUS
<1>3. live' \subseteq issued' /\ issued' \subseteq RoomId
  BY DEF Freed
<1>4. Remaining(r, S) \in [Team -> SUBSET Player] /\ Vacant \in [Team -> SUBSET Player]
  BY <1>1 DEF Remaining, Vacant
<1>5. members' \in [RoomId -> [Team -> SUBSET Player]]
  BY <1>4
<1>6. host' \in [RoomId -> Player \cup {None}] /\ kicked' \in [RoomId -> SUBSET Player]
  OBVIOUS
<1>7. rules' \in [RoomId -> Rules \cup {None}] /\ \A q \in live' : rules'[q] # None
  BY <1>1
<1>8. QED
  BY <1>2, <1>3, <1>5, <1>6, <1>7

LEMMA FightersArePlayers ==
    ASSUME TypeOK, NEW r \in RoomId PROVE Fighters(r) \subseteq Player
BY DEF Fighters, TypeOK, Team, PlayTeam

\* The heirs are players, or the host the room already has.
LEMMA HeirsType ==
    ASSUME TypeOK, NEW r \in RoomId, NEW p \in Player
    PROVE  Heirs(r, p) \subseteq Player \cup {None}
BY FightersArePlayers DEF Heirs, Seated, TypeOK

LEMMA RemoveType ==
    ASSUME TypeOK, NEW p \in Player, room[p] \in live, NEW B \in SUBSET Player,
           Remove(p, B), UNCHANGED joining, inParty' \subseteq Player,
           session' \in [Player -> {"offline", "online", "closing"}]
    PROVE  TypeOK'
<1> DEFINE r == room[p]
<1>1. r \in RoomId /\ r \in live
  BY DEF TypeOK
<1>2. PICK heir \in Heirs(r, p) : Depart(r, {p}, B, heir)
  BY DEF Remove
<1>3. heir \in Player \cup {None}
  BY <1>1, HeirsType
<1>4. started' \in [RoomId -> BOOLEAN]
  BY DEF Remove, TypeOK
<1>5. joining' \in [Player -> RoomId \cup {None}]
  BY DEF TypeOK
<1>6. QED
  BY <1>1, <1>2, <1>3, <1>4, <1>5, DepartType DEF TypeOK

LEMMA TypeStep == ASSUME TypeOK, [Next]_vars PROVE TypeOK'
<1> USE DEF Ready, InRoom, Hosting, rooms, accounts
<1>1. CASE UNCHANGED vars
  BY <1>1 DEF vars, TypeOK
<1>p. inParty' \subseteq Player
  BY PartyType
<1> SUFFICES ASSUME NEW p \in Player, Step(p) PROVE TypeOK'
  BY <1>1 DEF Next
<1> USE <1>p
<1>2. CASE Login(p)
  BY <1>2 DEF Login, TypeOK, Team, PlayTeam
<1>3. CASE Disconnect(p)
  BY <1>3 DEF Disconnect, TypeOK
<1>4. CASE Leave(p)
  BY <1>4, RemoveType DEF Leave, TypeOK
<1>5. CASE GmKick(p)
  BY <1>5, RemoveType DEF GmKick, TypeOK
<1>6. CASE JoinRefused(p)
  BY <1>6 DEF JoinRefused, TypeOK
<1>7. CASE MatchStart(p)
  BY <1>7 DEF MatchStart, TypeOK
<1>8. ASSUME NEW v \in BOOLEAN, Purge(p, v) PROVE TypeOK'
  <2>1. session' \in [Player -> {"offline", "online", "closing"}] /\ UNCHANGED joining
    BY <1>8 DEF Purge, TypeOK
  <2>2. CASE room[p] \in live
    BY <1>8, <2>1, <2>2, RemoveType DEF Purge
  <2>3. CASE room[p] \notin live
    BY <1>8, <2>1, <2>3 DEF Purge, TypeOK, rooms
  <2>4. QED
    BY <2>2, <2>3
<1>9. ASSUME NEW v \in BOOLEAN, MatchLeave(p, v) PROVE TypeOK'
  <2> DEFINE r == room[p]
             busy == {q \in Everyone(r) \ {p} : playing[q]}
             B == IF v THEN {p} ELSE {}
  <2>1. r \in live /\ r \in RoomId /\ B \in SUBSET Player
    BY <1>9 DEF MatchLeave, TypeOK
  <2>2. CASE busy # {} /\ (host[r] = p \/ v \/ p \in inParty)
    <3>1. PICK heir \in Heirs(r, p) : Depart(r, {p}, B, heir)
      BY <1>9, <2>2 DEF MatchLeave
    <3>2. heir \in Player \cup {None}
      BY <2>1, HeirsType
    <3>3. started' \in [RoomId -> BOOLEAN]
      <4>1. \E b \in BOOLEAN : started' = [started EXCEPT ![r] = b]
        BY <1>9, <2>1, <2>2 DEF MatchLeave, TypeOK
      <4>2. QED
        BY <4>1 DEF TypeOK
    <3>4. QED
      BY <1>9, <2>1, <3>1, <3>2, <3>3, DepartType DEF TypeOK, MatchLeave
  <2>3. CASE ~(busy # {} /\ (host[r] = p \/ v \/ p \in inParty))
    <3>1. /\ \E b \in BOOLEAN : started' = [started EXCEPT ![r] = b]
          /\ \E f \in [Player -> BOOLEAN] : playing' = f
          /\ kicked' = [kicked EXCEPT ![r] = @ \cup B]
          /\ UNCHANGED <<session, joining, room, team, live, issued, members, host, rules>>
      BY <1>9, <2>1, <2>3 DEF MatchLeave, TypeOK
    <3>2. QED
      BY <2>1, <3>1 DEF TypeOK
  <2>4. QED
    BY <2>2, <2>3
<1>10. ASSUME NEW r \in RoomId, CreateWithoutOptions(p, r) PROVE TypeOK'
  BY <1>10 DEF CreateWithoutOptions, TypeOK
<1>11. ASSUME NEW r \in RoomId, SwitchRoom(p, r) PROVE TypeOK'
  <2> DEFINE a == room[p]
  <2>1. a \in live /\ a \in RoomId
    BY <1>11 DEF SwitchRoom, TypeOK
  <2>2. PICK heir \in Heirs(a, p) : Depart(a, {p}, {}, heir)
    BY <1>11 DEF SwitchRoom, Remove
  <2>3. heir \in Player \cup {None}
    BY <2>1, HeirsType
  <2>4. /\ session' \in [Player -> {"offline", "online", "closing"}]
        /\ joining' \in [Player -> RoomId \cup {None}]
        /\ started' \in [RoomId -> BOOLEAN]
    BY <1>11 DEF SwitchRoom, Remove, TypeOK
  <2>5. QED
    BY <2>1, <2>2, <2>3, <2>4, DepartType DEF TypeOK
<1>12. ASSUME NEW r \in RoomId, NEW rl \in Rules, CreateRoom(p, r, rl) PROVE TypeOK'
  <2>1. PICK t \in Team : /\ members' = [members EXCEPT ![r] = [Vacant EXCEPT ![t] = {p}]]
                          /\ team' = [team EXCEPT ![p] = t]
    BY <1>12 DEF CreateRoom, Team, PlayTeam
  <2>2. [Vacant EXCEPT ![t] = {p}] \in [Team -> SUBSET Player]
    BY DEF Vacant
  <2>3. rl # None
    BY <1>12, RulesAreNotNone
  <2>4. QED
    BY <1>12, <2>1, <2>2, <2>3 DEF CreateRoom, TypeOK
<1>13. ASSUME NEW r \in RoomId, Joins(p, r) PROVE TypeOK'
  <2>1. PICK t \in Team \cup {None} : Admit(p, r, t)
    BY <1>13, JoinPlaces
  <2>2. QED
    BY <2>1 DEF Admit, TypeOK
<1>14. ASSUME NEW q \in Player, HostKick(p, q) PROVE TypeOK'
  BY <1>14, RemoveType DEF HostKick, TypeOK
<1>15. ASSUME NEW q \in Player, HostChange(p, q) PROVE TypeOK'
  BY <1>15 DEF HostChange, TypeOK
<1>16. ASSUME NEW t \in Team, TeamChange(p, t) PROVE TypeOK'
  <2>1. PICK u \in Team : Move(p, u)
    BY <1>16 DEF TeamChange, Team, PlayTeam
  <2>2. UNCHANGED <<session, joining, room, playing, live, issued, host, started, kicked, rules>>
    BY <1>16 DEF TeamChange
  <2>3. room[p] \in RoomId
    BY <1>16 DEF TeamChange, TypeOK
  <2>4. [w \in Team |-> IF w = u THEN members[room[p]][w] \cup {p}
                        ELSE IF w = team[p] THEN members[room[p]][w] \ {p}
                        ELSE members[room[p]][w]] \in [Team -> SUBSET Player]
    BY <2>3 DEF TypeOK
  <2>5. QED
    BY <2>1, <2>2, <2>3, <2>4 DEF Move, TypeOK
<1>17. ASSUME NEW S \in SUBSET Player, NEW rl \in Rules, ChangeRules(p, rl, S) PROVE TypeOK'
  <2>1. room[p] \in RoomId /\ rl # None
    BY <1>17, RulesAreNotNone DEF ChangeRules, TypeOK
  <2>2. PICK f \in [Team -> SUBSET Player] : members' = [members EXCEPT ![room[p]] = f]
    <3> DEFINE lists == members[room[p]]
               both == Seated(lists["red"] \cup lists["blue"], room[p])
    <3>1. lists \in [Team -> SUBSET Player] /\ both \subseteq Player
      BY <2>1 DEF TypeOK, Seated, Team, PlayTeam
    <3>2. \/ members' = [members EXCEPT ![room[p]] = lists]
          \/ members' = [members EXCEPT ![room[p]] =
                [lists EXCEPT !["blue"] = S, !["red"] = lists["neutral"] \ S, !["neutral"] = {}]]
          \/ members' = [members EXCEPT ![room[p]] =
                [lists EXCEPT !["neutral"] = both, !["red"] = {}, !["blue"] = {}]]
      BY <1>17, <2>1 DEF ChangeRules, TypeOK
    <3>3. /\ [lists EXCEPT !["blue"] = S, !["red"] = lists["neutral"] \ S, !["neutral"] = {}]
                \in [Team -> SUBSET Player]
          /\ [lists EXCEPT !["neutral"] = both, !["red"] = {}, !["blue"] = {}]
                \in [Team -> SUBSET Player]
      BY <3>1 DEF Team, PlayTeam
    <3>4. QED
      BY <3>1, <3>2, <3>3
  <2>3. team' \in [Player -> Team]
    BY <1>17 DEF ChangeRules, TypeOK, Team, PlayTeam
  <2>4. rules' = [rules EXCEPT ![room[p]] = rl]
    BY <1>17 DEF ChangeRules
  <2>5. UNCHANGED <<session, joining, room, playing, live, issued, host, started, kicked>>
    BY <1>17 DEF ChangeRules
  <2>6. QED
    BY <2>1, <2>2, <2>3, <2>4, <2>5 DEF TypeOK
<1>18. ASSUME NEW S \in SUBSET Player, NEW a \in BOOLEAN, AllowObservers(p, a, S) PROVE TypeOK'
  <2>1. room[p] \in live /\ room[p] \in RoomId
    BY <1>18 DEF AllowObservers, TypeOK
  <2>2. rules[room[p]] \in Rules
    BY <2>1 DEF TypeOK
  <2>3. [rules[room[p]] EXCEPT !.observers = a] \in Rules
    BY <2>2 DEF Rules
  <2>4. /\ room' \in [Player -> RoomId \cup {None}]
        /\ playing' \in [Player -> BOOLEAN]
        /\ rules' = [rules EXCEPT ![room[p]] = [rules[room[p]] EXCEPT !.observers = a]]
        /\ UNCHANGED <<session, joining, team, live, issued, host, started, kicked>>
    BY <1>18, <2>1 DEF AllowObservers, TypeOK
  <2>5. members' \in [RoomId -> [Team -> SUBSET Player]]
    <3>1. members[room[p]] \in [Team -> SUBSET Player] /\ "observer" \in Team
      BY <2>1 DEF TypeOK, Team
    <3>2. \/ members' = members
          \/ \E O : members' = [members EXCEPT ![room[p]]["observer"] = @ \ O]
      BY <1>18 DEF AllowObservers
    <3>3. ASSUME NEW O, members' = [members EXCEPT ![room[p]]["observer"] = @ \ O]
          PROVE  members' \in [RoomId -> [Team -> SUBSET Player]]
      <4>1. [members[room[p]] EXCEPT !["observer"] = @ \ O] \in [Team -> SUBSET Player]
        BY <3>1
      <4>2. members' = [members EXCEPT ![room[p]] = [members[room[p]] EXCEPT !["observer"] = @ \ O]]
        BY <3>3
      <4>3. members \in [RoomId -> [Team -> SUBSET Player]]
        BY DEF TypeOK
      <4>4. QED
        BY <2>1, <4>1, <4>2, <4>3
    <3>4. QED
      BY <3>2, <3>3 DEF TypeOK
  <2>6. QED
    BY <2>1, <2>3, <2>4, <2>5, RulesAreNotNone DEF TypeOK
<1>19. ASSUME NEW S \in SUBSET Player, MatchEnd(p, S) PROVE TypeOK'
  <2>1. room[p] \in RoomId
    BY <1>19 DEF MatchEnd, TypeOK
  <2>2. /\ \E f \in [Player -> BOOLEAN] : playing' = f
        /\ started' = [started EXCEPT ![room[p]] = FALSE]
        /\ kicked' = [kicked EXCEPT ![room[p]] = {}]
        /\ UNCHANGED <<session, joining, room, team, live, issued, members, host, rules>>
    BY <1>19, <2>1 DEF MatchEnd, TypeOK
  <2>3. QED
    BY <2>1, <2>2 DEF TypeOK
<1>20. ASSUME NEW q \in Player, CombatStats(p, q) PROVE TypeOK'
  BY <1>20 DEF CombatStats, accounts, TypeOK
<1>21. CASE CreateParty(p)
  BY <1>21, RemoveType DEF CreateParty, TypeOK
<1>22. CASE JoinParty(p) \/ LeaveParty(p)
  BY <1>22 DEF JoinParty, LeaveParty, TypeOK
<1>23. ASSUME NEW S \in SUBSET Player, MatchEndBrokenOff(p, S) PROVE TypeOK'
  <2>1. /\ \E f \in [Player -> BOOLEAN] : playing' = f
        /\ UNCHANGED <<session, joining, room, team, rooms>>
    BY <1>23 DEF MatchEndBrokenOff, TypeOK
  <2>2. QED
    BY <2>1 DEF TypeOK
<1>24. QED
  BY <1>2, <1>3, <1>4, <1>5, <1>6, <1>7, <1>8, <1>9, <1>10, <1>11, <1>12, <1>13, <1>14,
     <1>15, <1>16, <1>17, <1>18, <1>19, <1>20, <1>21, <1>22, <1>23 DEF Step, Joins

THEOREM TypeCorrect == Spec => []TypeOK
<1>1. Init => TypeOK
  BY ConstantsAssumption DEF Init, TypeOK, Vacant, Team, PlayTeam
<1>2. TypeOK /\ [Next]_vars => TypeOK'
  BY TypeStep
<1>3. QED
  BY <1>1, <1>2, PTL DEF Spec

-----------------------------------------------------------------------------
(***************************************************************************)
(* The lists, the accounts and the host agree.  HostPresent and            *)
(* ListedAreSeated are not inductive alone: a login or a placement would   *)
(* break them for an account that is offline or between rooms and yet      *)
(* listed, which NoStrays excludes, and finding the heir relies on the     *)
(* lists fitting the mode.                                                 *)
(***************************************************************************)

\* HostPresent without the session, which NoStrays provides.
HostSeated == \A r \in live : host[r] \in Fighters(r) /\ room[host[r]] = r

Agreement == TypeOK /\ ListedAreSeated /\ HostSeated /\ ListsFitMode /\ NoStrays

LEMMA AgreementGivesHost ==
    ASSUME TypeOK, HostSeated, NoStrays PROVE HostPresent
<1> SUFFICES ASSUME NEW r \in live PROVE session[host[r]] # "offline"
  BY DEF HostPresent, HostSeated
<1>1. r \in RoomId /\ room[host[r]] = r /\ host[r] \in Player
  BY FightersArePlayers DEF HostSeated, TypeOK
<1>2. QED
  BY <1>1, ConstantsAssumption DEF NoStrays

\* What one departure leaves behind.
LEMMA DepartKeeps ==
    ASSUME TypeOK, ListedAreSeated, HostSeated, ListsFitMode,
           NEW p \in Player, NEW r \in live, room[p] = r, NEW B \in SUBSET Player,
           NEW heir \in Heirs(r, p), Depart(r, {p}, B, heir)
    PROVE  /\ ListedAreSeated' /\ HostSeated' /\ ListsFitMode'
           /\ room'[p] = None
           /\ \A q \in Player : room'[q] \in {None, room[q]}
<1> DEFINE gone  == Gone(r, {p})
           close == Closes(r, {p})
<1>1. r \in RoomId /\ p \in gone
  BY DEF TypeOK, Gone
<1>2. gone \subseteq {q \in Player : room[q] = r}
  BY <1>1 DEF Gone, Seated, Remaining, TypeOK, Team
<1>3. room' = [q \in Player |-> IF q \in gone THEN None ELSE room[q]]
  BY DEF Depart
<1>4. room'[p] = None /\ \A q \in Player : room'[q] \in {None, room[q]}
  BY <1>1, <1>3
<1>5. \A t \in Team : Remaining(r, {p})[t] = members[r][t] \ {p}
  BY <1>1 DEF Remaining, ListedAreSeated
<1>6. ASSUME NEW q \in RoomId, q # r
      PROVE  /\ members'[q] = members[q] /\ host'[q] = host[q] /\ rules'[q] = rules[q]
             /\ q \in live' <=> q \in live
  BY <1>1, <1>6 DEF Depart, TypeOK
<1>7. /\ team' = team
      /\ members'[r] = IF close THEN Vacant ELSE Remaining(r, {p})
      /\ ~close => rules'[r] = rules[r] /\ host'[r] = heir /\ gone = {p}
      /\ r \in live' <=> ~close
  BY <1>1 DEF Depart, TypeOK, Gone
<1>8. ListedAreSeated'
  <2> SUFFICES ASSUME NEW q \in RoomId, NEW t \in Team, NEW m \in members'[q][t]
               PROVE  q \in live' /\ room'[m] = q /\ team'[m] = t
    BY DEF ListedAreSeated
  <2>1. CASE q = r
    <3>1. ~close /\ m \in members[r][t] \ {p}
      BY <2>1, <1>5, <1>7 DEF Vacant
    <3>2. m \in Player /\ room[m] = r /\ team[m] = t
      BY <3>1, <1>1 DEF ListedAreSeated, TypeOK
    <3>3. m \notin gone
      BY <3>1, <1>7
    <3>4. QED
      BY <2>1, <3>1, <3>2, <3>3, <1>3, <1>7
  <2>2. CASE q # r
    <3>1. m \in members[q][t] /\ m \in Player
      BY <2>2, <1>6 DEF TypeOK
    <3>2. q \in live /\ room[m] = q /\ team[m] = t
      BY <3>1 DEF ListedAreSeated
    <3>3. m \notin gone
      BY <2>2, <3>2, <1>2
    <3>4. QED
      BY <2>2, <3>1, <3>2, <3>3, <1>3, <1>6, <1>7
  <2>3. QED
    BY <2>1, <2>2
<1>9. ASSUME NEW q \in live', q # r
      PROVE  /\ Fighters(q)' = Fighters(q) /\ q \in live /\ q \in RoomId
             /\ host'[q] = host[q] /\ rules'[q] = rules[q] /\ members'[q] = members[q]
  <2>1. q \in RoomId
    BY DEF Depart, TypeOK
  <2>2. QED
    BY <2>1, <1>6, <1>9 DEF Fighters
<1>10. ASSUME ~close PROVE Fighters(r)' = Fighters(r) \ {p}
  <2>1. members'[r] = Remaining(r, {p}) /\ rules'[r] = rules[r]
    BY <1>10, <1>7
  <2>2. \A t \in Team : members'[r][t] = members[r][t] \ {p}
    BY <2>1, <1>5
  <2>3. QED
    BY <2>1, <2>2 DEF Fighters, Team, PlayTeam
<1>11. ListsFitMode'
  <2> SUFFICES ASSUME NEW q \in live'
               PROVE  IF rules'[q].teamBased THEN members'[q]["neutral"] = {}
                      ELSE members'[q]["red"] = {} /\ members'[q]["blue"] = {}
    BY DEF ListsFitMode
  <2>1. CASE q = r
    BY <2>1, <1>1, <1>5, <1>7 DEF ListsFitMode, Team, PlayTeam
  <2>2. CASE q # r
    BY <2>2, <1>9 DEF ListsFitMode
  <2>3. QED
    BY <2>1, <2>2
<1>12. ASSUME ~close PROVE heir \in Fighters(r) \ {p}
  <2>1. host[r] \in Fighters(r)
    BY DEF HostSeated
  <2>2. CASE host[r] # p
    BY <2>1, <2>2 DEF Heirs
  <2>3. CASE host[r] = p
    <3>1. team[p] # "observer"
      BY <2>1, <2>3, <1>1 DEF Fighters, ListedAreSeated, Team, PlayTeam
    <3>2. Seated(Fighters(r), r) = Fighters(r)
      BY <1>1 DEF Seated, Fighters, ListedAreSeated, Team, PlayTeam
    <3>3. Fighters(r) \ {p} # {}
      <4> SUFFICES ASSUME Fighters(r) \subseteq {p} PROVE FALSE
        OBVIOUS
      <4>1. \A t \in PlayTeam : members[r][t] \ {p} = {}
        BY DEF Fighters, ListsFitMode, PlayTeam
      <4>2. close
        BY <4>1, <1>5 DEF Closes, Team
      <4>3. QED
        BY <4>2, <1>12
    <3>4. QED
      BY <2>3, <3>1, <3>2, <3>3 DEF Heirs
  <2>4. QED
    BY <2>2, <2>3
<1>13. HostSeated'
  <2> SUFFICES ASSUME NEW q \in live' PROVE host'[q] \in Fighters(q)' /\ room'[host'[q]] = q
    BY DEF HostSeated
  <2>1. CASE q = r
    <3>1. ~close /\ host'[q] = heir /\ gone = {p}
      BY <2>1, <1>7
    <3>2. heir \in Fighters(r) /\ heir # p /\ heir \in Player /\ room[heir] = r
      BY <3>1, <1>1, <1>12 DEF Fighters, ListedAreSeated, TypeOK, Team, PlayTeam
    <3>3. QED
      BY <2>1, <3>1, <3>2, <1>3, <1>10
  <2>2. CASE q # r
    <3>0. q \in live /\ q \in RoomId
      BY <2>2, <1>9
    <3>1. host[q] \in Fighters(q) /\ room[host[q]] = q /\ host[q] \in Player
      BY <3>0, FightersArePlayers DEF HostSeated
    <3>2. host[q] \notin gone
      BY <2>2, <3>1, <1>2
    <3>3. QED
      BY <2>2, <3>1, <3>2, <1>3, <1>9
  <2>3. QED
    BY <2>1, <2>2
<1>14. QED
  BY <1>4, <1>8, <1>11, <1>13

LEMMA RemoveKeeps ==
    ASSUME Agreement, NEW p \in Player, room[p] \in live, NEW B \in SUBSET Player,
           Remove(p, B)
    PROVE  /\ ListedAreSeated' /\ HostSeated' /\ ListsFitMode'
           /\ room'[p] = None
           /\ \A q \in Player : room'[q] \in {None, room[q]}
<1>1. PICK heir \in Heirs(room[p], p) : Depart(room[p], {p}, B, heir)
  BY DEF Remove
<1>2. QED
  BY <1>1, DepartKeeps DEF Agreement

\* A step that keeps lists, hosts, live rooms, rules and who sits where on
\* which team keeps the agreement.
LEMMA SeatingUnchanged ==
    ASSUME Agreement, UNCHANGED <<room, team, live, members, host, rules>>
    PROVE  ListedAreSeated' /\ HostSeated' /\ ListsFitMode'
<1>1. ListedAreSeated'
  BY DEF Agreement, ListedAreSeated
<1>2. HostSeated'
  BY DEF Agreement, HostSeated, Fighters
<1>3. ListsFitMode'
  BY DEF Agreement, ListsFitMode
<1>4. QED
  BY <1>1, <1>2, <1>3

LEMMA CreateKeeps ==
    ASSUME Agreement, NEW p \in Player, NEW r \in RoomId, NEW rl \in Rules, CreateRoom(p, r, rl)
    PROVE  ListedAreSeated' /\ HostSeated' /\ ListsFitMode'
<1> DEFINE t == IF rl.teamBased THEN "blue" ELSE "neutral"
<1> USE DEF Agreement
<1>1. /\ members' = [members EXCEPT ![r] = [Vacant EXCEPT ![t] = {p}]]
      /\ team' = [team EXCEPT ![p] = t]
      /\ room' = [room EXCEPT ![p] = r]
      /\ live' = live \cup {r}
      /\ host' = [host EXCEPT ![r] = p]
      /\ rules' = [rules EXCEPT ![r] = rl]
      /\ room[p] = None /\ r \notin live /\ t \in Team
  BY DEF CreateRoom, TypeOK, Team, PlayTeam
<1>2. \A q \in RoomId : \A u \in Team : p \notin members[q][u]
  BY <1>1, ConstantsAssumption DEF ListedAreSeated
<1>3. /\ \A u \in Team : members'[r][u] = IF u = t THEN {p} ELSE {}
      /\ rules'[r] = rl /\ host'[r] = p /\ room'[p] = r /\ team'[p] = t
  BY <1>1 DEF TypeOK, Vacant
<1>4. ASSUME NEW q \in RoomId, q # r
      PROVE  members'[q] = members[q] /\ host'[q] = host[q] /\ rules'[q] = rules[q]
             /\ (q \in live' <=> q \in live)
  BY <1>1, <1>4 DEF TypeOK
<1>5. \A m \in Player : m # p => room'[m] = room[m] /\ team'[m] = team[m]
  BY <1>1 DEF TypeOK
<1>6. ListedAreSeated'
  <2> SUFFICES ASSUME NEW q \in RoomId, NEW u \in Team, NEW m \in members'[q][u]
               PROVE  q \in live' /\ room'[m] = q /\ team'[m] = u
    BY DEF ListedAreSeated
  <2>1. CASE q = r
    BY <2>1, <1>1, <1>3
  <2>2. CASE q # r
    <3>1. m \in members[q][u] /\ m \in Player
      BY <2>2, <1>4 DEF TypeOK
    <3>2. m # p
      BY <3>1, <1>2
    <3>3. QED
      BY <3>1, <3>2, <2>2, <1>4, <1>5 DEF ListedAreSeated
  <2>3. QED
    BY <2>1, <2>2
<1>7. live' \subseteq RoomId
  BY <1>1 DEF TypeOK
<1>8. HostSeated'
  <2> SUFFICES ASSUME NEW q \in live' PROVE host'[q] \in Fighters(q)' /\ room'[host'[q]] = q
    BY DEF HostSeated
  <2>1. CASE q = r
    BY <2>1, <1>3 DEF Fighters, Team, PlayTeam
  <2>2. CASE q # r
    <3>1. q \in live /\ q \in RoomId /\ Fighters(q)' = Fighters(q) /\ host'[q] = host[q]
      BY <2>2, <1>4, <1>7 DEF Fighters
    <3>2. host[q] \in Fighters(q) /\ room[host[q]] = q /\ host[q] \in Player
      BY <3>1, FightersArePlayers DEF HostSeated
    <3>3. host[q] # p
      BY <3>1, <3>2, <1>1, ConstantsAssumption
    <3>4. QED
      BY <3>1, <3>2, <3>3, <1>5
  <2>3. QED
    BY <2>1, <2>2
<1>9. ListsFitMode'
  <2> SUFFICES ASSUME NEW q \in live'
               PROVE  IF rules'[q].teamBased THEN members'[q]["neutral"] = {}
                      ELSE members'[q]["red"] = {} /\ members'[q]["blue"] = {}
    BY DEF ListsFitMode
  <2>1. CASE q = r
    BY <2>1, <1>3 DEF Team, PlayTeam
  <2>2. CASE q # r
    BY <2>2, <1>4, <1>7 DEF ListsFitMode
  <2>3. QED
    BY <2>1, <2>2
<1>10. QED
  BY <1>6, <1>8, <1>9

\* A step that only re-seats room r, taking players from nowhere or from r,
\* keeps the agreement if the new lists of r agree with the new accounts.
LEMMA ReseatKeeps ==
    ASSUME Agreement, NEW r \in live, live' = live,
           \A q \in RoomId : q # r => members'[q] = members[q] /\ host'[q] = host[q]
                                        /\ rules'[q] = rules[q],
           \A m \in Player : room[m] \notin {None, r} => room'[m] = room[m] /\ team'[m] = team[m],
           \A t \in Team : \A m \in members'[r][t] : room'[m] = r /\ team'[m] = t,
           host'[r] \in Fighters(r)',
           IF rules'[r].teamBased THEN members'[r]["neutral"] = {}
           ELSE members'[r]["red"] = {} /\ members'[r]["blue"] = {}
    PROVE  ListedAreSeated' /\ HostSeated' /\ ListsFitMode'
<1> USE DEF Agreement
<1>1. r \in RoomId /\ live \subseteq RoomId
  BY DEF TypeOK
<1>2. ListedAreSeated'
  <2> SUFFICES ASSUME NEW q \in RoomId, NEW u \in Team, NEW m \in members'[q][u]
               PROVE  q \in live' /\ room'[m] = q /\ team'[m] = u
    BY DEF ListedAreSeated
  <2>1. CASE q = r
    BY <2>1
  <2>2. CASE q # r
    <3>1. m \in members[q][u] /\ m \in Player
      BY <2>2 DEF TypeOK
    <3>2. q \in live /\ room[m] = q /\ team[m] = u
      BY <3>1 DEF ListedAreSeated
    <3>3. room[m] \notin {None, r}
      BY <3>2, <2>2, ConstantsAssumption
    <3>4. QED
      BY <3>1, <3>2, <3>3
  <2>3. QED
    BY <2>1, <2>2
<1>3. HostSeated'
  <2> SUFFICES ASSUME NEW q \in live PROVE host'[q] \in Fighters(q)' /\ room'[host'[q]] = q
    BY DEF HostSeated
  <2>1. CASE q = r
    BY <2>1 DEF Fighters, Team, PlayTeam
  <2>2. CASE q # r
    <3>1. q \in RoomId /\ Fighters(q)' = Fighters(q) /\ host'[q] = host[q]
      BY <1>1, <2>2 DEF Fighters
    <3>2. host[q] \in Fighters(q) /\ room[host[q]] = q /\ host[q] \in Player
      BY <3>1, FightersArePlayers DEF HostSeated
    <3>3. room[host[q]] \notin {None, r}
      BY <3>1, <3>2, <2>2, ConstantsAssumption
    <3>4. QED
      BY <3>1, <3>2, <3>3
  <2>3. QED
    BY <2>1, <2>2
<1>4. ListsFitMode'
  <2> SUFFICES ASSUME NEW q \in live
               PROVE  IF rules'[q].teamBased THEN members'[q]["neutral"] = {}
                      ELSE members'[q]["red"] = {} /\ members'[q]["blue"] = {}
    BY DEF ListsFitMode
  <2>1. CASE q = r
    BY <2>1
  <2>2. CASE q # r
    BY <1>1, <2>2 DEF ListsFitMode
  <2>3. QED
    BY <2>1, <2>2
<1>5. QED
  BY <1>2, <1>3, <1>4

\* Placement uses a list of the room's kind of mode, or the observers.
LEMMA PlacementFitsMode ==
    ASSUME NEW r \in RoomId, NEW way \in Way
    PROVE  IF rules[r].teamBased THEN Placement(r, way) # "neutral"
           ELSE Placement(r, way) \notin {"red", "blue"}
BY ConstantsAssumption DEF Placement, Team, PlayTeam

LEMMA JoinKeeps ==
    ASSUME Agreement, NEW p \in Player, NEW r \in RoomId, Joins(p, r)
    PROVE  ListedAreSeated' /\ HostSeated' /\ ListsFitMode'
<1> USE DEF Agreement
<1>1. PICK t \in Team \cup {None} :
          /\ Admit(p, r, t)
          /\ IF rules[r].teamBased THEN t # "neutral" ELSE t \notin {"red", "blue"}
  BY JoinPlaces, PlacementFitsMode, ConstantsAssumption DEF Team, PlayTeam
<1>2. r \in live /\ room[p] = None
  BY JoinPlaces DEF Entering
<1>3. /\ room' = [room EXCEPT ![p] = r]
      /\ UNCHANGED <<live, host, rules>>
      /\ \A q \in RoomId : q # r => members'[q] = members[q]
      /\ \A u \in Team : members'[r][u] = IF u = t THEN members[r][u] \cup {p} ELSE members[r][u]
      /\ \A m \in Player : team'[m] = IF m = p /\ t # None THEN t ELSE team[m]
  <2>1. CASE t = None
    BY <1>1, <2>1, ConstantsAssumption DEF Admit, TypeOK
  <2>2. CASE t # None
    BY <1>1, <2>2 DEF Admit, TypeOK
  <2>3. QED
    BY <2>1, <2>2
<1>4. \A u \in Team : p \notin members[r][u]
  BY <1>2, ConstantsAssumption DEF ListedAreSeated
<1>5. \A u \in Team : \A m \in members'[r][u] : room'[m] = r /\ team'[m] = u
  <2> SUFFICES ASSUME NEW u \in Team, NEW m \in members'[r][u] PROVE room'[m] = r /\ team'[m] = u
    OBVIOUS
  <2>1. CASE m = p
    <3>1. u = t /\ t # None
      BY <2>1, <1>3, <1>4, ConstantsAssumption
    <3>2. QED
      BY <2>1, <3>1, <1>3 DEF TypeOK
  <2>2. CASE m # p
    <3>1. m \in members[r][u]
      <4>1. m \in IF u = t THEN members[r][u] \cup {p} ELSE members[r][u]
        BY <1>3
      <4>2. QED
        BY <4>1, <2>2
    <3>2. m \in Player /\ room[m] = r /\ team[m] = u
      BY <3>1 DEF ListedAreSeated, TypeOK
    <3>3. QED
      BY <2>2, <3>2, <1>3 DEF TypeOK
  <2>3. QED
    BY <2>1, <2>2
<1>6. host'[r] \in Fighters(r)'
  <2>1. host[r] \in Fighters(r) /\ host'[r] = host[r] /\ rules'[r] = rules[r]
    BY <1>2, <1>3 DEF HostSeated
  <2>2. \A u \in Team : members[r][u] \subseteq members'[r][u]
    BY <1>3
  <2>3. {"neutral", "red", "blue"} \subseteq Team
    BY DEF Team, PlayTeam
  <2>4. Fighters(r) \subseteq Fighters(r)'
    BY <2>1, <2>2, <2>3 DEF Fighters
  <2>5. QED
    BY <2>1, <2>4
<1>7. IF rules'[r].teamBased THEN members'[r]["neutral"] = {}
      ELSE members'[r]["red"] = {} /\ members'[r]["blue"] = {}
  BY <1>1, <1>2, <1>3 DEF ListsFitMode, Team, PlayTeam
<1>8. \A m \in Player : room[m] \notin {None, r} => room'[m] = room[m] /\ team'[m] = team[m]
  BY <1>2, <1>3 DEF TypeOK
<1>9. QED
  BY <1>2, <1>3, <1>5, <1>6, <1>7, <1>8, ReseatKeeps

LEMMA TeamChangeKeeps ==
    ASSUME Agreement, NEW p \in Player, NEW r \in RoomId, r = room[p], NEW asked \in Team,
           TeamChange(p, asked)
    PROVE  ListedAreSeated' /\ HostSeated' /\ ListsFitMode'
<1> USE DEF Agreement
<1>1. r \in live /\ r \in RoomId
  BY DEF TeamChange, InRoom, TypeOK
<1>2. PICK t \in Team : /\ Move(p, t)
                        /\ t = "observer" => host[r] # p
                        /\ IF rules[r].teamBased THEN t # "neutral" ELSE t \notin {"red", "blue"}
  BY DEF TeamChange, Team, PlayTeam
<1>3. /\ UNCHANGED <<room, live, host, rules>>
      /\ \A q \in RoomId : q # r => members'[q] = members[q]
      /\ \A m \in Player : team'[m] = IF m = p THEN t ELSE team[m]
  BY <1>1, <1>2 DEF TeamChange, Move, TypeOK
<1>4. \A u \in Team : members'[r][u] = IF u = t THEN members[r][u] \cup {p}
                                        ELSE members[r][u] \ {p}
  <2> SUFFICES ASSUME NEW u \in Team
               PROVE  members'[r][u] = IF u = t THEN members[r][u] \cup {p} ELSE members[r][u] \ {p}
    OBVIOUS
  <2>1. members'[r][u] = IF u = t THEN members[r][u] \cup {p}
                         ELSE IF u = team[p] THEN members[r][u] \ {p} ELSE members[r][u]
    BY <1>1, <1>2 DEF Move, TypeOK
  <2>2. u # team[p] => p \notin members[r][u]
    BY <1>1 DEF ListedAreSeated
  <2>3. QED
    BY <2>1, <2>2
<1>5. \A u \in Team : \A m \in members'[r][u] : room'[m] = r /\ team'[m] = u
  <2> SUFFICES ASSUME NEW u \in Team, NEW m \in members'[r][u] PROVE room'[m] = r /\ team'[m] = u
    OBVIOUS
  <2>1. CASE m = p
    BY <2>1, <1>3, <1>4
  <2>2. CASE m # p
    <3>1. m \in members[r][u]
      <4>1. m \in IF u = t THEN members[r][u] \cup {p} ELSE members[r][u] \ {p}
        BY <1>4
      <4>2. QED
        BY <4>1, <2>2
    <3>2. m \in Player /\ room[m] = r /\ team[m] = u
      BY <3>1, <1>1 DEF ListedAreSeated, TypeOK
    <3>3. QED
      BY <2>2, <3>2, <1>3
  <2>3. QED
    BY <2>1, <2>2
<1>6. host'[r] \in Fighters(r)'
  <2>1. host[r] \in Fighters(r)
    BY <1>1 DEF HostSeated
  <2>2. CASE host[r] # p
    BY <2>1, <2>2, <1>3, <1>4 DEF Fighters, Team, PlayTeam
  <2>3. CASE host[r] = p
    BY <2>3, <1>2, <1>3, <1>4 DEF Fighters, Team, PlayTeam
  <2>4. QED
    BY <2>2, <2>3
<1>7. IF rules'[r].teamBased THEN members'[r]["neutral"] = {}
      ELSE members'[r]["red"] = {} /\ members'[r]["blue"] = {}
  BY <1>1, <1>2, <1>3, <1>4 DEF ListsFitMode, Team, PlayTeam
<1>8. \A m \in Player : room[m] \notin {None, r} => room'[m] = room[m] /\ team'[m] = team[m]
  BY <1>3
<1>9. QED
  BY <1>1, <1>3, <1>5, <1>6, <1>7, <1>8, ReseatKeeps

LEMMA HostChangeKeeps ==
    ASSUME Agreement, NEW p \in Player, NEW r \in RoomId, r = room[p], NEW q \in Player,
           HostChange(p, q)
    PROVE  ListedAreSeated' /\ HostSeated' /\ ListsFitMode'
<1> USE DEF Agreement
<1>1. r \in live /\ r \in RoomId
  BY DEF HostChange, Hosting, InRoom, TypeOK
<1>2. UNCHANGED <<room, team, live, members, rules>> /\ host' = [host EXCEPT ![r] = q]
  BY DEF HostChange, accounts
<1>3. q \in Fighters(r) /\ host'[r] = q
  BY <1>1, <1>2 DEF HostChange, Seated, TypeOK
<1>4. host'[r] \in Fighters(r)'
  BY <1>2, <1>3 DEF Fighters
<1>5. \A s \in RoomId : s # r => host'[s] = host[s]
  BY <1>2 DEF TypeOK
<1>6. \A t \in Team : \A m \in members'[r][t] : room'[m] = r /\ team'[m] = t
  BY <1>1, <1>2 DEF ListedAreSeated
<1>7. IF rules'[r].teamBased THEN members'[r]["neutral"] = {}
      ELSE members'[r]["red"] = {} /\ members'[r]["blue"] = {}
  BY <1>1, <1>2 DEF ListsFitMode
<1>8. QED
  BY <1>1, <1>2, <1>4, <1>5, <1>6, <1>7, ReseatKeeps

LEMMA AllowObserversKeeps ==
    ASSUME Agreement, NEW p \in Player, NEW r \in RoomId, r = room[p], NEW a \in BOOLEAN,
           NEW O \in SUBSET Player,
           AllowObservers(p, a, O)
    PROVE  /\ ListedAreSeated' /\ HostSeated' /\ ListsFitMode'
           /\ \A m \in Player : room'[m] \in {None, room[m]}
<1> USE DEF Agreement
<1>1. r \in live /\ r \in RoomId
  BY DEF AllowObservers, Hosting, InRoom, TypeOK
<1>2. /\ UNCHANGED <<team, live, host>>
      /\ O \subseteq Seated(members[r]["observer"], r)
      /\ room' = [m \in Player |-> IF m \in O THEN None ELSE room[m]]
  BY DEF AllowObservers
<1>3. \A s \in RoomId : s # r => members'[s] = members[s] /\ rules'[s] = rules[s]
  BY <1>1 DEF AllowObservers, TypeOK
<1>4. \A t \in Team : members'[r][t] = IF t = "observer" THEN members[r][t] \ O ELSE members[r][t]
  BY <1>1 DEF AllowObservers, TypeOK
<1>5. rules'[r].teamBased = rules[r].teamBased
  <2>1. rules[r] \in Rules
    BY <1>1 DEF TypeOK
  <2>2. rules'[r] = [rules[r] EXCEPT !.observers = a]
    BY <1>1 DEF AllowObservers, TypeOK
  <2>3. QED
    BY <2>1, <2>2 DEF Rules
<1>6. \A t \in Team : \A m \in members'[r][t] : room'[m] = r /\ team'[m] = t
  <2> SUFFICES ASSUME NEW t \in Team, NEW m \in members'[r][t] PROVE room'[m] = r /\ team'[m] = t
    OBVIOUS
  <2>1. m \in members[r][t] /\ (t = "observer" => m \notin O)
    BY <1>4
  <2>2. m \in Player /\ room[m] = r /\ team[m] = t
    BY <2>1, <1>1 DEF ListedAreSeated, TypeOK
  <2>3. m \notin O
    BY <2>1, <2>2, <1>1, <1>2 DEF Seated, ListedAreSeated, Team, PlayTeam
  <2>4. QED
    BY <2>2, <2>3, <1>2
<1>7. host'[r] \in Fighters(r)'
  <2>1. \A t \in PlayTeam : members'[r][t] = members[r][t]
    BY <1>4 DEF Team, PlayTeam
  <2>2. Fighters(r)' = Fighters(r)
    <3>1. CASE rules[r].teamBased
      BY <3>1, <2>1, <1>5 DEF Fighters, PlayTeam
    <3>2. CASE ~rules[r].teamBased
      BY <3>2, <2>1, <1>5 DEF Fighters, PlayTeam
    <3>3. QED
      BY <3>1, <3>2
  <2>3. QED
    BY <2>2, <1>1, <1>2 DEF HostSeated
<1>8. IF rules'[r].teamBased THEN members'[r]["neutral"] = {}
      ELSE members'[r]["red"] = {} /\ members'[r]["blue"] = {}
  BY <1>1, <1>4, <1>5 DEF ListsFitMode, Team, PlayTeam
<1>9. \A m \in Player : room[m] \notin {None, r} => room'[m] = room[m] /\ team'[m] = team[m]
  BY <1>2 DEF Seated
<1>10. \A m \in Player : room'[m] \in {None, room[m]}
  BY <1>2
<1>11. ListedAreSeated' /\ HostSeated' /\ ListsFitMode'
  <2>1. /\ live' = live
        /\ \A q \in RoomId : q # r => members'[q] = members[q] /\ host'[q] = host[q]
                                     /\ rules'[q] = rules[q]
    BY <1>2, <1>3
  <2>2. QED
    BY <2>1, <1>1, <1>6, <1>7, <1>8, <1>9, ReseatKeeps
<1>12. QED
  BY <1>10, <1>11

LEMMA ChangeRulesKeeps ==
    ASSUME Agreement, NEW p \in Player, NEW r \in RoomId, r = room[p], NEW rl \in Rules,
           NEW B \in SUBSET Player,
           ChangeRules(p, rl, B)
    PROVE  ListedAreSeated' /\ HostSeated' /\ ListsFitMode'
<1> DEFINE n    == members[r]["neutral"]
           both == Seated(members[r]["red"] \cup members[r]["blue"], r)
<1> USE DEF Agreement
<1>1. r \in live /\ r \in RoomId /\ members[r] \in [Team -> SUBSET Player]
  BY DEF ChangeRules, Hosting, InRoom, TypeOK
<1>2. UNCHANGED <<room, live, host>> /\ rules' = [rules EXCEPT ![r] = rl]
  BY DEF ChangeRules
<1>3. rules'[r] = rl /\ \A q \in RoomId : q # r => rules'[q] = rules[q]
  BY <1>1, <1>2 DEF TypeOK
<1>4. both = members[r]["red"] \cup members[r]["blue"]
  BY <1>1 DEF Seated, ListedAreSeated, Team, PlayTeam
<1>5. host[r] \in Fighters(r)
  BY <1>1 DEF HostSeated
<1>6. CASE rl.teamBased = rules[r].teamBased
  <2>1. UNCHANGED <<members, team>>
    BY <1>6 DEF ChangeRules
  <2>2. \A t \in Team : \A m \in members'[r][t] : room'[m] = r /\ team'[m] = t
    BY <2>1, <1>1, <1>2 DEF ListedAreSeated
  <2>3. Fighters(r)' = Fighters(r)
    <3>1. CASE rules[r].teamBased
      BY <3>1, <2>1, <1>3, <1>6 DEF Fighters
    <3>2. CASE ~rules[r].teamBased
      BY <3>2, <2>1, <1>3, <1>6 DEF Fighters
    <3>3. QED
      BY <3>1, <3>2
  <2>4. IF rules'[r].teamBased THEN members'[r]["neutral"] = {}
        ELSE members'[r]["red"] = {} /\ members'[r]["blue"] = {}
    BY <2>1, <1>1, <1>3, <1>6 DEF ListsFitMode
  <2>5. QED
    BY <2>1, <2>2, <2>3, <2>4, <1>1, <1>2, <1>3, <1>5, ReseatKeeps
<1>7. CASE rl.teamBased /\ ~rules[r].teamBased
  <2>1. /\ B \subseteq n
        /\ members' = [members EXCEPT ![r] =
              [members[r] EXCEPT !["blue"] = B, !["red"] = n \ B, !["neutral"] = {}]]
        /\ team' = [q \in Player |-> IF q \in B THEN "blue" ELSE IF q \in n THEN "red" ELSE team[q]]
    BY <1>1, <1>7 DEF ChangeRules, TypeOK
  <2>2. /\ \A q \in RoomId : q # r => members'[q] = members[q]
        /\ members'[r]["blue"] = B /\ members'[r]["red"] = n \ B /\ members'[r]["neutral"] = {}
        /\ members'[r]["observer"] = members[r]["observer"]
    BY <2>1, <1>1 DEF TypeOK, Team, PlayTeam
  <2>3. \A m \in n : m \in Player /\ room[m] = r /\ team[m] = "neutral"
    BY <1>1 DEF ListedAreSeated, Team, PlayTeam
  <2>4. \A m \in members[r]["observer"] : m \in Player /\ room[m] = r /\ team[m] = "observer"
    BY <1>1 DEF ListedAreSeated, Team, PlayTeam
  <2>5. \A t \in Team : \A m \in members'[r][t] : room'[m] = r /\ team'[m] = t
    <3> SUFFICES ASSUME NEW t \in Team, NEW m \in members'[r][t]
                 PROVE  room'[m] = r /\ team'[m] = t
      OBVIOUS
    <3>1. CASE t \in {"blue", "red", "neutral"}
      <4>1. m \in n /\ (t = "blue" => m \in B) /\ (t = "red" => m \notin B) /\ t # "neutral"
        BY <3>1, <2>1, <2>2
      <4>2. QED
        BY <3>1, <4>1, <2>1, <2>3, <1>2
    <3>2. CASE t = "observer"
      <4>1. m \in Player /\ room[m] = r /\ team[m] = "observer"
        BY <3>2, <2>2, <2>4
      <4>2. m \notin n /\ m \notin B
        BY <4>1, <2>1, <2>3
      <4>3. QED
        BY <3>2, <4>1, <4>2, <2>1, <1>2
    <3>3. QED
      BY <3>1, <3>2 DEF Team, PlayTeam
  <2>6. host'[r] \in Fighters(r)'
    <3>1. host[r] \in n
      BY <1>5, <1>7 DEF Fighters
    <3>2. QED
      BY <3>1, <2>2, <1>2, <1>3, <1>7 DEF Fighters
  <2>7. \A m \in Player : room[m] \notin {None, r} => room'[m] = room[m] /\ team'[m] = team[m]
    BY <2>1, <2>3, <1>2
  <2>8. QED
    BY <2>2, <2>5, <2>6, <2>7, <1>1, <1>2, <1>3, <1>7, ReseatKeeps
<1>8. CASE ~rl.teamBased /\ rules[r].teamBased
  <2>1. /\ members' = [members EXCEPT ![r] =
              [members[r] EXCEPT !["neutral"] = both, !["red"] = {}, !["blue"] = {}]]
        /\ team' = [q \in Player |-> IF q \in both THEN "neutral" ELSE team[q]]
    BY <1>1, <1>8 DEF ChangeRules, TypeOK
  <2>2. /\ \A q \in RoomId : q # r => members'[q] = members[q]
        /\ members'[r]["blue"] = {} /\ members'[r]["red"] = {} /\ members'[r]["neutral"] = both
        /\ members'[r]["observer"] = members[r]["observer"]
    BY <2>1, <1>1 DEF TypeOK, Team, PlayTeam
  <2>3. \A m \in both : m \in Player /\ room[m] = r /\ team[m] \in {"red", "blue"}
    BY <1>1, <1>4 DEF ListedAreSeated, Team, PlayTeam
  <2>4. \A m \in members[r]["observer"] : m \in Player /\ room[m] = r /\ team[m] = "observer"
    BY <1>1 DEF ListedAreSeated, Team, PlayTeam
  <2>5. \A t \in Team : \A m \in members'[r][t] : room'[m] = r /\ team'[m] = t
    <3> SUFFICES ASSUME NEW t \in Team, NEW m \in members'[r][t]
                 PROVE  room'[m] = r /\ team'[m] = t
      OBVIOUS
    <3>1. CASE t \in {"blue", "red", "neutral"}
      <4>1. m \in both /\ t = "neutral"
        BY <3>1, <2>2
      <4>2. QED
        BY <4>1, <2>1, <2>3, <1>2
    <3>2. CASE t = "observer"
      <4>1. m \in Player /\ room[m] = r /\ team[m] = "observer"
        BY <3>2, <2>2, <2>4
      <4>2. m \notin both
        BY <4>1, <2>3
      <4>3. QED
        BY <3>2, <4>1, <4>2, <2>1, <1>2
    <3>3. QED
      BY <3>1, <3>2 DEF Team, PlayTeam
  <2>6. host'[r] \in Fighters(r)'
    <3>1. host[r] \in both
      BY <1>4, <1>5, <1>8 DEF Fighters
    <3>2. QED
      BY <3>1, <2>2, <1>2, <1>3, <1>8 DEF Fighters
  <2>7. \A m \in Player : room[m] \notin {None, r} => room'[m] = room[m] /\ team'[m] = team[m]
    BY <2>1, <2>3, <1>2
  <2>8. QED
    BY <2>2, <2>5, <2>6, <2>7, <1>1, <1>2, <1>3, <1>8, ReseatKeeps
<1>9. rl.teamBased \in BOOLEAN /\ rules[r].teamBased \in BOOLEAN
  BY <1>1 DEF TypeOK, Rules
<1>10. QED
  BY <1>6, <1>7, <1>8, <1>9

\* One step, action by action.  NoStrays needs more than the room: an account
\* is dropped only after it has left, and a RoomJoin is between rooms only
\* while its session is online.
LEMMA AgreementStep ==
    ASSUME Agreement, [Next]_vars PROVE Agreement'
<1> DEFINE Kept == ListedAreSeated' /\ HostSeated' /\ ListsFitMode'
<1>1. TypeOK'
  BY TypeStep DEF Agreement
<1> SUFFICES Kept /\ NoStrays'
  BY <1>1 DEF Agreement
<1> USE DEF Agreement
<1>2. CASE UNCHANGED vars
  BY <1>2, SeatingUnchanged DEF vars, accounts, rooms, NoStrays
<1>3. ASSUME Next PROVE Kept /\ NoStrays'
  <2> SUFFICES ASSUME NEW p \in Player, Step(p) PROVE Kept /\ NoStrays'
    BY <1>3 DEF Next
  <2>a. ASSUME \A q \in Player : room'[q] \in {None, room[q]}, UNCHANGED <<session, joining>>
        PROVE  NoStrays'
    BY <2>a DEF NoStrays
  <2>b. ASSUME UNCHANGED <<room, team, live, members, host, rules>> PROVE Kept
    BY <2>b, SeatingUnchanged
  <2>1. CASE Login(p)
    <3>1. room[p] = None
      BY <2>1 DEF Login, NoStrays
    <3>2. \A r \in RoomId, t \in Team : p \notin members[r][t]
      BY <3>1, ConstantsAssumption DEF ListedAreSeated
    <3>3. UNCHANGED <<room, joining, live, members, host, rules>>
      BY <2>1 DEF Login, rooms
    <3>4. \A q \in Player : q # p => team'[q] = team[q] /\ session'[q] = session[q]
      BY <2>1 DEF Login, TypeOK
    <3>5. ListedAreSeated'
      <4> SUFFICES ASSUME NEW r \in RoomId, NEW t \in Team, NEW m \in members[r][t]
                   PROVE  r \in live /\ room[m] = r /\ team'[m] = t
        BY <3>3 DEF ListedAreSeated
      <4>1. m \in Player /\ m # p
        BY <3>2 DEF TypeOK
      <4>2. QED
        BY <4>1, <3>4 DEF ListedAreSeated
    <3>6. HostSeated' /\ ListsFitMode'
      BY <3>3 DEF HostSeated, Fighters, ListsFitMode
    <3>7. NoStrays'
      <4>1. session'[p] = "online"
        BY <2>1 DEF Login, TypeOK
      <4>2. QED
        BY <3>1, <3>3, <3>4, <4>1 DEF NoStrays
    <3>8. QED
      BY <3>5, <3>6, <3>7
  <2>2. CASE Disconnect(p)
    <3>1. Kept
      BY <2>2, <2>b DEF Disconnect, accounts, rooms
    <3>2. NoStrays'
      BY <2>2 DEF Disconnect, Ready, NoStrays, accounts, TypeOK
    <3>3. QED
      BY <3>1, <3>2
  <2>3. ASSUME NEW v \in BOOLEAN, Purge(p, v) PROVE Kept /\ NoStrays'
    <3>1. CASE room[p] \in live
      <4>1. PICK B \in SUBSET Player : Remove(p, B)
        BY <2>3, <3>1 DEF Purge
      <4>2. Kept /\ room'[p] = None /\ \A q \in Player : room'[q] \in {None, room[q]}
        BY <3>1, <4>1, RemoveKeeps
      <4>3. NoStrays'
        BY <2>3, <4>2 DEF Purge, NoStrays, TypeOK
      <4>4. QED
        BY <4>2, <4>3
    <3>2. CASE room[p] \notin live
      <4>1. /\ room' = [room EXCEPT ![p] = None]
            /\ UNCHANGED <<joining, team, live, members, host, rules>>
            /\ session' = [session EXCEPT ![p] = "offline"]
            /\ session[p] = "closing"
        BY <2>3, <3>2 DEF Purge, rooms
      <4>2. \A r \in RoomId, t \in Team : p \notin members[r][t]
        BY <3>2 DEF ListedAreSeated
      <4>3. ListedAreSeated'
        <5> SUFFICES ASSUME NEW r \in RoomId, NEW t \in Team, NEW m \in members[r][t]
                     PROVE  r \in live /\ room'[m] = r /\ team[m] = t
          BY <4>1 DEF ListedAreSeated
        <5>1. m \in Player /\ m # p
          BY <4>2 DEF TypeOK
        <5>2. QED
          BY <5>1, <4>1 DEF ListedAreSeated, TypeOK
      <4>4. HostSeated'
        <5> SUFFICES ASSUME NEW r \in live PROVE host[r] \in Fighters(r)' /\ room'[host[r]] = r
          BY <4>1 DEF HostSeated
        <5>1. /\ r \in RoomId /\ host[r] \in Fighters(r) /\ room[host[r]] = r
              /\ host[r] \in Player
          BY FightersArePlayers DEF HostSeated, TypeOK
        <5>2. host[r] # p
          BY <5>1, <3>2
        <5>3. QED
          BY <5>1, <5>2, <4>1 DEF Fighters, TypeOK
      <4>5. ListsFitMode'
        BY <4>1 DEF ListsFitMode
      <4>6. NoStrays'
        BY <4>1 DEF NoStrays, TypeOK
      <4>7. QED
        BY <4>3, <4>4, <4>5, <4>6
    <3>3. QED
      BY <3>1, <3>2
  <2>4. ASSUME NEW r \in RoomId, NEW rl \in Rules, CreateRoom(p, r, rl)
        PROVE  Kept /\ NoStrays'
    <3>1. Kept
      BY <2>4, CreateKeeps
    <3>2. NoStrays'
      BY <2>4 DEF CreateRoom, Ready, NoStrays, TypeOK
    <3>3. QED
      BY <3>1, <3>2
  <2>5. ASSUME NEW r \in RoomId, CreateWithoutOptions(p, r) PROVE Kept /\ NoStrays'
    BY <2>5, <2>a, <2>b DEF CreateWithoutOptions, accounts
  <2>6. ASSUME NEW r \in RoomId, SwitchRoom(p, r) PROVE Kept /\ NoStrays'
    <3>1. /\ Remove(p, {}) /\ room[p] \in live /\ session[p] = "online" /\ session' = session
          /\ joining' = [joining EXCEPT ![p] = r]
      BY <2>6 DEF SwitchRoom, InRoom, Ready
    <3>2. Kept /\ room'[p] = None /\ \A q \in Player : room'[q] \in {None, room[q]}
      BY <3>1, RemoveKeeps
    <3>3. NoStrays'
      BY <3>1, <3>2 DEF NoStrays, TypeOK
    <3>4. QED
      BY <3>2, <3>3
  <2>7. ASSUME NEW r \in RoomId, Joins(p, r) PROVE Kept /\ NoStrays'
    <3>1. Kept
      BY <2>7, JoinKeeps
    <3>2. /\ session[p] = "online" /\ session' = session
          /\ joining' = [joining EXCEPT ![p] = None]
          /\ room' = [room EXCEPT ![p] = r]
      BY <2>7, JoinPlaces DEF Entering, Admit
    <3>3. NoStrays'
      BY <3>2 DEF NoStrays, TypeOK
    <3>4. QED
      BY <3>1, <3>3
  <2>8. CASE JoinRefused(p)
    <3>1. Kept
      BY <2>8, <2>b DEF JoinRefused, accounts, rooms
    <3>2. NoStrays'
      BY <2>8 DEF JoinRefused, accounts, NoStrays, TypeOK
    <3>3. QED
      BY <3>1, <3>2
  <2>9. CASE Leave(p)
    <3>1. Remove(p, {}) /\ room[p] \in live /\ UNCHANGED <<session, joining>>
      BY <2>9 DEF Leave, InRoom
    <3>2. QED
      BY <3>1, <2>a, RemoveKeeps
  <2>10. ASSUME NEW q \in Player, HostKick(p, q) PROVE Kept /\ NoStrays'
    <3>1. Remove(q, {q}) /\ room[q] \in live /\ UNCHANGED <<session, joining>>
      BY <2>10 DEF HostKick, Hosting, InRoom
    <3>2. QED
      BY <3>1, <2>a, RemoveKeeps
  <2>11. CASE GmKick(p)
    <3>1. Remove(p, {p}) /\ room[p] \in live /\ UNCHANGED <<session, joining>>
      BY <2>11 DEF GmKick
    <3>2. QED
      BY <3>1, <2>a, RemoveKeeps
  <2>12. ASSUME NEW t \in Team, TeamChange(p, t) PROVE Kept /\ NoStrays'
    <3>1. room[p] \in RoomId /\ UNCHANGED <<session, joining, room>>
      BY <2>12 DEF TeamChange, InRoom, TypeOK
    <3>2. QED
      BY <2>12, <3>1, <2>a, TeamChangeKeeps
  <2>13. ASSUME NEW q \in Player, HostChange(p, q) PROVE Kept /\ NoStrays'
    <3>1. room[p] \in RoomId /\ UNCHANGED <<session, joining, room>>
      BY <2>13 DEF HostChange, Hosting, InRoom, TypeOK, accounts
    <3>2. QED
      BY <2>13, <3>1, <2>a, HostChangeKeeps
  <2>14. ASSUME NEW rl \in Rules, NEW S \in SUBSET Player, ChangeRules(p, rl, S)
         PROVE  Kept /\ NoStrays'
    <3>1. room[p] \in RoomId /\ UNCHANGED <<session, joining, room>>
      BY <2>14 DEF ChangeRules, Hosting, InRoom, TypeOK
    <3>2. QED
      BY <2>14, <3>1, <2>a, ChangeRulesKeeps
  <2>15. ASSUME NEW a \in BOOLEAN, NEW S \in SUBSET Player, AllowObservers(p, a, S)
         PROVE  Kept /\ NoStrays'
    <3>1. room[p] \in RoomId /\ UNCHANGED <<session, joining>>
      BY <2>15 DEF AllowObservers, Hosting, InRoom, TypeOK
    <3>2. QED
      BY <2>15, <3>1, <2>a, AllowObserversKeeps
  <2>16. CASE MatchStart(p)
    BY <2>16, <2>a, <2>b DEF MatchStart
  <2>17. ASSUME NEW v \in BOOLEAN, MatchLeave(p, v) PROVE Kept /\ NoStrays'
    <3>1. room[p] \in live /\ UNCHANGED <<session, joining>>
      BY <2>17 DEF MatchLeave, InRoom
    <3>2. \/ \E B \in SUBSET Player : \E heir \in Heirs(room[p], p) :
                 Depart(room[p], {p}, B, heir)
          \/ UNCHANGED <<room, team, live, members, host, rules>>
      BY <2>17 DEF MatchLeave
    <3>3. CASE UNCHANGED <<room, team, live, members, host, rules>>
      BY <3>1, <3>3, <2>a, <2>b
    <3>4. CASE \E B \in SUBSET Player : \E heir \in Heirs(room[p], p) :
                  Depart(room[p], {p}, B, heir)
      BY <3>1, <3>4, <2>a, DepartKeeps
    <3>5. QED
      BY <3>2, <3>3, <3>4
  <2>18. ASSUME NEW S \in SUBSET Player, MatchEnd(p, S) PROVE Kept /\ NoStrays'
    BY <2>18, <2>a, <2>b DEF MatchEnd
  <2>19. ASSUME NEW q \in Player, CombatStats(p, q) PROVE Kept /\ NoStrays'
    BY <2>19, <2>a, <2>b DEF CombatStats, accounts
  <2>20. CASE CreateParty(p)
    <3>1. CASE room[p] = None
      BY <2>20, <3>1, <2>a, <2>b DEF CreateParty, accounts, rooms
    <3>2. CASE room[p] # None
      <4>1. Remove(p, {}) /\ room[p] \in live /\ UNCHANGED <<session, joining>>
        BY <2>20, <3>2 DEF CreateParty
      <4>2. QED
        BY <4>1, <2>a, RemoveKeeps
    <3>3. QED
      BY <3>1, <3>2
  <2>21. CASE JoinParty(p) \/ LeaveParty(p)
    BY <2>21, <2>a, <2>b DEF JoinParty, LeaveParty, accounts, rooms
  <2>22. ASSUME NEW S \in SUBSET Player, MatchEndBrokenOff(p, S) PROVE Kept /\ NoStrays'
    BY <2>22, <2>a, <2>b DEF MatchEndBrokenOff, rooms
  <2>23. QED
    BY <2>1, <2>2, <2>3, <2>4, <2>5, <2>6, <2>7, <2>8, <2>9, <2>10, <2>11, <2>12, <2>13,
       <2>14, <2>15, <2>16, <2>17, <2>18, <2>19, <2>20, <2>21, <2>22 DEF Step, Joins
<1>4. QED
  BY <1>2, <1>3

\* The agreement holds in every state.
LEMMA AgreementHolds == Spec => []Agreement
<1>1. Init => Agreement
  BY ConstantsAssumption
  DEF Init, Agreement, TypeOK, ListedAreSeated, HostSeated, ListsFitMode, NoStrays, Vacant,
      Team, PlayTeam
<1>2. Agreement /\ [Next]_vars => Agreement'
  BY AgreementStep
<1>3. QED
  BY <1>1, <1>2, PTL DEF Spec

\* Whoever a room's list names is in the room, on that list's team: no handler
\* leaves a player on a list of a room it has left, or on two lists.
THEOREM ListedAreSeatedHolds == Spec => []ListedAreSeated
BY AgreementHolds, PTL DEF Agreement

\* Only the lists of the room's kind of mode are ever used.
THEOREM ListsFitModeHolds == Spec => []ListsFitMode
BY AgreementHolds, PTL DEF Agreement

\* An account that is gone or between two rooms is in no room.
THEOREM NoStraysHolds == Spec => []NoStrays
BY AgreementHolds, PTL DEF Agreement

\* Every live room has a host, seated on a team in it, whose account exists:
\* no way of leaving orphans a room.
THEOREM HostPresentHolds == Spec => []HostPresent
<1>1. Agreement => HostPresent
  BY AgreementGivesHost DEF Agreement
<1>2. QED
  BY <1>1, AgreementHolds, PTL
-----------------------------------------------------------------------------
(***************************************************************************)
(* What a step does to who is where: it is a departure, one of the         *)
(* handlers that seat players or hand over, or it leaves the seats alone.  *)
(***************************************************************************)

\* q leaves its room, whatever the handler.
Departs(q) ==
    /\ room[q] \in live
    /\ \E B \in SUBSET Player : \E heir \in Heirs(room[q], q) : Depart(room[q], {q}, B, heir)

\* The account p is dropped; it was in no live room.
Dropped(p) ==
    /\ room[p] \notin live
    /\ room' = [room EXCEPT ![p] = None] /\ playing' = [playing EXCEPT ![p] = FALSE]
    /\ UNCHANGED <<team, rooms>>

SeatsSame == UNCHANGED <<room, team, live, members, host, rules>>

LEMMA StepShape ==
    ASSUME TypeOK, NEW p \in Player, Step(p)
    PROVE  \/ \E q \in Player : Departs(q)
           \/ Dropped(p)
           \/ \E r \in RoomId, rl \in Rules : CreateRoom(p, r, rl)
           \/ \E r \in RoomId : Joins(p, r)
           \/ \E t \in Team : TeamChange(p, t)
           \/ \E q \in Player : HostChange(p, q)
           \/ \E S \in SUBSET Player, rl \in Rules : ChangeRules(p, rl, S)
           \/ \E S \in SUBSET Player, a \in BOOLEAN : AllowObservers(p, a, S)
           \/ Login(p)
           \/ SeatsSame
<1> USE DEF Departs, Dropped, SeatsSame
<1>1. CASE Login(p) \/ Disconnect(p) \/ JoinRefused(p) \/ MatchStart(p)
  BY <1>1 DEF Disconnect, JoinRefused, MatchStart, accounts, rooms
<1>2. CASE Leave(p)
  BY <1>2 DEF Leave, InRoom, Remove
<1>3. CASE GmKick(p)
  BY <1>3 DEF GmKick, Remove
<1>4. ASSUME NEW v \in BOOLEAN, Purge(p, v)
      PROVE  Departs(p) \/ Dropped(p)
  <2>1. CASE room[p] \in live
    <3>1. PICK B \in SUBSET Player : Remove(p, B)
      BY <1>4, <2>1 DEF Purge
    <3>2. QED
      BY <2>1, <3>1 DEF Remove
  <2>2. CASE room[p] \notin live
    BY <1>4, <2>2 DEF Purge
  <2>3. QED
    BY <2>1, <2>2
<1>5. ASSUME NEW v \in BOOLEAN, MatchLeave(p, v) PROVE Departs(p) \/ SeatsSame
  BY <1>5 DEF MatchLeave, InRoom
<1>6. ASSUME NEW r \in RoomId, CreateWithoutOptions(p, r) \/ SwitchRoom(p, r)
      PROVE  Departs(p) \/ SeatsSame
  BY <1>6 DEF CreateWithoutOptions, SwitchRoom, InRoom, Remove, accounts
<1>7. ASSUME NEW q \in Player, HostKick(p, q) PROVE Departs(q)
  BY <1>7 DEF HostKick, Hosting, InRoom, Remove
<1>8. ASSUME NEW q \in Player, CombatStats(p, q) PROVE SeatsSame
  BY <1>8 DEF CombatStats, accounts
<1>9. ASSUME NEW S \in SUBSET Player, MatchEnd(p, S) \/ MatchEndBrokenOff(p, S) PROVE SeatsSame
  BY <1>9 DEF MatchEnd, MatchEndBrokenOff, rooms
<1>10. CASE CreateParty(p) \/ JoinParty(p) \/ LeaveParty(p)
  BY <1>10 DEF CreateParty, JoinParty, LeaveParty, Remove, accounts, rooms
<1>11. QED
  BY <1>1, <1>2, <1>3, <1>4, <1>5, <1>6, <1>7, <1>8, <1>9, <1>10 DEF Step, Joins

\* A departure of p from r in detail: who goes, and what is left in the lists.
Parted(r, p, heir) ==
    /\ r \in RoomId
    /\ p \in Gone(r, {p}) /\ \A q \in Gone(r, {p}) : q \in Player /\ room[q] = r
    /\ \A q \in Player : room'[q] = IF q \in Gone(r, {p}) THEN None ELSE room[q]
    /\ \A q \in Player : playing'[q] = IF q \in Gone(r, {p}) THEN FALSE ELSE playing[q]
    /\ \A q \in RoomId : q # r => /\ members'[q] = members[q] /\ host'[q] = host[q]
                                 /\ rules'[q] = rules[q] /\ kicked'[q] = kicked[q]
                                 /\ (q \in live' <=> q \in live)
    /\ Closes(r, {p}) =>
          /\ r \notin live' /\ host'[r] = None /\ kicked'[r] = {}
          /\ \A t \in Team : members'[r][t] = {}
    /\ ~Closes(r, {p}) =>
          /\ r \in live' /\ host'[r] = heir /\ rules'[r] = rules[r]
          /\ Gone(r, {p}) = {p}
          /\ \A t \in Team : members'[r][t] = members[r][t] \ {p}
    /\ \A t \in Team : Remaining(r, {p})[t] = members[r][t] \ {p}

LEMMA DepartParts ==
    ASSUME TypeOK, ListedAreSeated, NEW p \in Player, NEW r \in live, room[p] = r,
           NEW B \in SUBSET Player, NEW heir, Depart(r, {p}, B, heir)
    PROVE  Parted(r, p, heir)
<1>1. r \in RoomId /\ p \in Gone(r, {p})
  BY DEF TypeOK, Gone
<1>2. \A q \in Gone(r, {p}) : q \in Player /\ room[q] = r
  BY <1>1 DEF Gone, Seated, Remaining, TypeOK, Team
<1>3. \A t \in Team : Remaining(r, {p})[t] = members[r][t] \ {p}
  BY <1>1 DEF Remaining, ListedAreSeated
<1>4. /\ \A q \in Player : room'[q] = IF q \in Gone(r, {p}) THEN None ELSE room[q]
      /\ \A q \in Player : playing'[q] = IF q \in Gone(r, {p}) THEN FALSE ELSE playing[q]
  BY DEF Depart
<1>5. \A q \in RoomId : q # r => /\ members'[q] = members[q] /\ host'[q] = host[q]
                                /\ rules'[q] = rules[q] /\ kicked'[q] = kicked[q]
                                /\ (q \in live' <=> q \in live)
  BY <1>1 DEF Depart, TypeOK
<1>6. ASSUME Closes(r, {p})
      PROVE  /\ r \notin live' /\ host'[r] = None /\ kicked'[r] = {}
             /\ \A t \in Team : members'[r][t] = {}
  BY <1>1, <1>6 DEF Depart, TypeOK, Vacant
<1>7. ASSUME ~Closes(r, {p})
      PROVE  /\ r \in live' /\ host'[r] = heir /\ rules'[r] = rules[r]
             /\ Gone(r, {p}) = {p}
             /\ \A t \in Team : members'[r][t] = members[r][t] \ {p}
  BY <1>1, <1>3, <1>7 DEF Depart, TypeOK, Gone
<1>8. QED
  BY <1>1, <1>2, <1>3, <1>4, <1>5, <1>6, <1>7 DEF Parted

-----------------------------------------------------------------------------
(***************************************************************************)
(* A room that is not there has no host and bars nobody: Join and          *)
(* CreateRoom take ids from the generator that were used before.           *)
(***************************************************************************)
Vacated == \A r \in RoomId \ live : host[r] = None /\ kicked[r] = {}

\* Who is barred from a room that is not there does not change.
LEMMA KickedKept ==
    ASSUME TypeOK, NEW p \in Player, Step(p), NEW r \in RoomId, r \notin live
    PROVE  kicked'[r] = kicked[r]
<1>1. ASSUME NEW q \in Player, Departs(q) PROVE kicked'[r] = kicked[r]
  BY <1>1 DEF Departs, Depart, TypeOK
<1>2. CASE Login(p) \/ Disconnect(p) \/ JoinRefused(p) \/ MatchStart(p) \/ Dropped(p)
  BY <1>2 DEF Login, Disconnect, JoinRefused, MatchStart, Dropped, rooms
<1>3. CASE Leave(p) \/ GmKick(p) \/ (\E q \in Player : HostKick(p, q))
  BY <1>1, <1>3 DEF Leave, GmKick, HostKick, Hosting, InRoom, Remove, Departs
<1>4. ASSUME NEW v \in BOOLEAN, Purge(p, v) PROVE kicked'[r] = kicked[r]
  <2>1. CASE room[p] \in live
    <3>1. PICK B \in SUBSET Player : Remove(p, B)
      BY <1>4, <2>1 DEF Purge
    <3>2. QED
      BY <1>1, <2>1, <3>1 DEF Remove, Departs
  <2>2. CASE room[p] \notin live
    BY <1>4, <2>2 DEF Purge, rooms
  <2>3. QED
    BY <2>1, <2>2
<1>5. ASSUME NEW v \in BOOLEAN, MatchLeave(p, v) PROVE kicked'[r] = kicked[r]
  <2> DEFINE B == IF v THEN {p} ELSE {}
  <2>1. room[p] \in live /\ room[p] \in RoomId /\ B \in SUBSET Player
    BY <1>5 DEF MatchLeave, InRoom, TypeOK
  <2>2. \/ \E heir \in Heirs(room[p], p) : Depart(room[p], {p}, B, heir)
        \/ kicked' = [kicked EXCEPT ![room[p]] = @ \cup B]
    BY <1>5 DEF MatchLeave
  <2>3. QED
    BY <1>1, <2>1, <2>2 DEF Departs, TypeOK
<1>6. CASE \E s \in RoomId : CreateWithoutOptions(p, s) \/ SwitchRoom(p, s)
  BY <1>1, <1>6 DEF CreateWithoutOptions, SwitchRoom, InRoom, Remove, Departs
<1>7. CASE \E s \in RoomId : (\E rl \in Rules : CreateRoom(p, s, rl)) \/ Joins(p, s)
  BY <1>7, JoinPlaces DEF CreateRoom, Admit
<1>8. CASE \E q \in Player : HostChange(p, q) \/ CombatStats(p, q)
  BY <1>8 DEF HostChange, CombatStats
<1>9. CASE \E t \in Team : TeamChange(p, t)
  BY <1>9 DEF TeamChange
<1>10. CASE \E S \in SUBSET Player : \/ \E rl \in Rules : ChangeRules(p, rl, S)
                                     \/ \E a \in BOOLEAN : AllowObservers(p, a, S)
  BY <1>10 DEF ChangeRules, AllowObservers
<1>11. CASE \E S \in SUBSET Player : MatchEnd(p, S) \/ MatchEndBrokenOff(p, S)
  BY <1>11 DEF MatchEnd, MatchEndBrokenOff, InRoom, TypeOK, rooms
<1>12. CASE CreateParty(p) \/ JoinParty(p) \/ LeaveParty(p)
  <2>1. \/ kicked' = kicked
        \/ Remove(p, {}) /\ room[p] \in live
    BY <1>12 DEF CreateParty, JoinParty, LeaveParty, rooms
  <2>2. QED
    BY <1>1, <2>1 DEF Remove, Departs
<1>13. QED
  BY <1>2, <1>3, <1>4, <1>5, <1>6, <1>7, <1>8, <1>9, <1>10, <1>11, <1>12 DEF Step, Joins

LEMMA VacatedStep ==
    ASSUME Agreement, Vacated, NEW p \in Player, Step(p) PROVE Vacated'
<1> USE DEF Agreement
<1> SUFFICES ASSUME NEW r \in RoomId, r \notin live' PROVE host'[r] = None /\ kicked'[r] = {}
  BY DEF Vacated
<1>1. ASSUME r \notin live PROVE kicked'[r] = {}
  BY <1>1, KickedKept DEF Vacated
<1>2. ASSUME r \notin live, host'[r] = host[r] PROVE host'[r] = None /\ kicked'[r] = {}
  BY <1>1, <1>2 DEF Vacated
<1>3. ASSUME NEW q \in Player, Departs(q) PROVE host'[r] = None /\ kicked'[r] = {}
  <2>1. PICK B \in SUBSET Player, heir \in Heirs(room[q], q) : Depart(room[q], {q}, B, heir)
    BY <1>3 DEF Departs
  <2>2. room[q] \in live
    BY <1>3 DEF Departs
  <2>3. Parted(room[q], q, heir)
    BY <2>1, <2>2, DepartParts
  <2>4. QED
    BY <1>2, <2>2, <2>3 DEF Parted
<1>4. ASSUME NEW s \in RoomId, NEW rl \in Rules, CreateRoom(p, s, rl)
      PROVE  host'[r] = None /\ kicked'[r] = {}
  BY <1>2, <1>4 DEF CreateRoom, TypeOK
<1>5. ASSUME NEW s \in RoomId, Joins(p, s)
      PROVE  host'[r] = None /\ kicked'[r] = {}
  BY <1>2, <1>5, JoinPlaces DEF Admit
<1>6. ASSUME NEW q \in Player, HostChange(p, q) PROVE host'[r] = None /\ kicked'[r] = {}
  BY <1>2, <1>6 DEF HostChange, Hosting, InRoom, TypeOK
<1>7. ASSUME live' = live, host' = host PROVE host'[r] = None /\ kicked'[r] = {}
  BY <1>2, <1>7
<1>8. QED
  BY <1>3, <1>4, <1>5, <1>6, <1>7, StepShape
  DEF Dropped, TeamChange, ChangeRules, AllowObservers, Login, SeatsSame, rooms

\* Who can be in a room after a step that was not there before: the creator,
\* or one who joined.
LEMMA EntersByJoining ==
    ASSUME TypeOK, NEW p \in Player, Step(p), NEW q \in Player, NEW r \in RoomId,
           room[q] # r, room'[q] = r
    PROVE  /\ q = p
           /\ \/ \E rl \in Rules : CreateRoom(p, r, rl)
              \/ Joins(p, r)
<1>1. r # None
  BY ConstantsAssumption
<1>2. ASSUME NEW s \in Player, Departs(s) PROVE FALSE
  BY <1>1, <1>2 DEF Departs, Depart
<1>3. ASSUME NEW s \in RoomId, NEW rl \in Rules, CreateRoom(p, s, rl) PROVE q = p /\ s = r
  BY <1>3 DEF CreateRoom, TypeOK
<1>4. ASSUME NEW s \in RoomId, Joins(p, s) PROVE q = p /\ s = r
  BY <1>4, JoinPlaces DEF Admit, TypeOK
<1>5. CASE Dropped(p) \/ (\E S \in SUBSET Player, a \in BOOLEAN : AllowObservers(p, a, S))
  BY <1>1, <1>5 DEF Dropped, AllowObservers, TypeOK
<1>6. CASE room' = room
  BY <1>6
<1>7. QED
  BY <1>2, <1>3, <1>4, <1>5, <1>6, StepShape
  DEF TeamChange, HostChange, ChangeRules, Login, SeatsSame, accounts

\* No barred player gets in, save invisible staff: a new room has an id that
\* nobody is barred from, and a join looks at the bars when it enters.
LEMMA KickedStayOutStep ==
    ASSUME Agreement, Vacated, [Next]_vars
    PROVE  \A r \in RoomId : \A p \in kicked[r] \ Staff : room[p] # r => room'[p] # r
<1> SUFFICES ASSUME NEW r \in RoomId, NEW q \in kicked[r] \ Staff, room[q] # r, room'[q] = r
             PROVE  FALSE
  OBVIOUS
<1>1. q \in Player /\ TypeOK
  BY DEF Agreement, TypeOK
<1>2. PICK p \in Player : Step(p)
  BY DEF Next, vars, accounts
<1>3. q = p /\ ((\E rl \in Rules : CreateRoom(p, r, rl)) \/ Joins(p, r))
  BY <1>1, <1>2, EntersByJoining
<1>4. r \in live
  BY DEF Vacated
<1>5. QED
  BY <1>1, <1>3, <1>4 DEF CreateRoom, Joins, JoinInvisible, Join, TurnedAway, TypeOK

LEMMA VacatedHolds == Spec => [](Agreement /\ Vacated)
<1>1. Init => Vacated
  BY DEF Init, Vacated
<1>2. Agreement /\ Vacated /\ [Next]_vars => Vacated'
  <2> SUFFICES ASSUME Agreement, Vacated, [Next]_vars PROVE Vacated'
    OBVIOUS
  <2>1. CASE UNCHANGED vars
    BY <2>1 DEF vars, rooms, Vacated
  <2>2. CASE Next
    BY <2>2, VacatedStep DEF Next
  <2>3. QED
    BY <2>1, <2>2
<1>3. QED
  BY <1>1, <1>2, AgreementHolds, PTL DEF Spec

\* Whoever is barred from a room stays out of it, unless invisible staff.
THEOREM KickedStayOutHolds == Spec => KickedStayOut
<1>1. Agreement /\ Vacated /\ [Next]_vars =>
          [\A r \in RoomId : \A p \in kicked[r] \ Staff : room[p] # r => room'[p] # r]_vars
  BY KickedStayOutStep
<1>2. QED
  BY <1>1, VacatedHolds, PTL DEF Spec, KickedStayOut

-----------------------------------------------------------------------------
(***************************************************************************)
(* Who is on a list of which room, before and after each kind of step.     *)
(* With the agreement, being on a list of a room is having a seat there.   *)
(* The delicate step is a join into a room that is not full: only an odd   *)
(* limit can leave it without a seat.                                      *)
(***************************************************************************)
LEMMA SeatIsListing ==
    ASSUME Agreement, NEW m \in Player
    PROVE  /\ HasSeat(m) <=> room[m] # None /\ Listed(m, room[m])
           /\ \A s \in RoomId : Listed(m, s) => HasSeat(m) /\ room[m] = s
<1> USE DEF Agreement
<1>1. \A s \in RoomId, t \in Team : m \in members[s][t] => room[m] = s /\ team[m] = t
  BY DEF ListedAreSeated
<1>2. room[m] \in RoomId \cup {None} /\ team[m] \in Team /\ \A s \in RoomId : s # None
  BY ConstantsAssumption DEF TypeOK
<1>3. QED
  BY <1>1, <1>2 DEF HasSeat, Listed

LEMMA HalvesOfALimit ==
    \A n \in Nat : /\ n \div 2 \in Nat
                   /\ n % 2 = 0 => n = 2 * (n \div 2)
                   /\ n % 2 # 0 => n % 2 = 1 /\ n = 2 * (n \div 2) + 1
OBVIOUS

LEMMA SizesAreNumbers ==
    ASSUME TypeOK, NEW r \in RoomId, NEW t \in Team
    PROVE  IsFiniteSet(members[r][t]) /\ Size(r, t) \in Nat
<1>1. members[r][t] \subseteq Player
  BY DEF TypeOK
<1>2. QED
  BY <1>1, FS_Subset, FS_CardinalityType, ConstantsAssumption DEF Size

\* In a room that is not full there is a seat, if its limit is not odd.
LEMMA SeatLeft ==
    ASSUME TypeOK, NEW r \in live, NEW way \in Way, ~Full(r), ~OddSeatOnly(r)
    PROVE  Placement(r, way) \in Team
<1> DEFINE half == rules[r].max \div 2
           rest == rules[r].max % 2
           b == Size(r, "blue")
           d == Size(r, "red")
           n == Size(r, "neutral")
           o == Size(r, "observer")
<1>1. r \in RoomId /\ {"blue", "red", "neutral", "observer"} = Team
  BY DEF TypeOK, Team, PlayTeam
<1>2. b \in Nat /\ d \in Nat /\ n \in Nat /\ o \in Nat
  BY <1>1, SizesAreNumbers
<1>3. rules[r] \in Rules
  BY <1>1 DEF TypeOK
<1>4. /\ rules[r].max \in Nat /\ half \in Nat
      /\ rest = 0 => rules[r].max = 2 * half
      /\ rest # 0 => rest = 1 /\ rules[r].max = 2 * half + 1
      /\ rules[r].teamBased \in BOOLEAN /\ rules[r].observers \in BOOLEAN
  BY <1>3, HalvesOfALimit, ConstantsAssumption DEF Rules
<1>5. MaxObservers \in Nat
  BY ConstantsAssumption
<1>o. ~(rules[r].teamBased /\ rest = 1 /\ b = half /\ d = half
          /\ (rules[r].observers => o >= MaxObservers))
  BY DEF OddSeatOnly
<1> HIDE DEF half, rest, b, d, n, o
<1>6. CASE rules[r].teamBased /\ way = "alone"
  <2>1. IF rules[r].observers THEN b + d + o < rules[r].max + MaxObservers
        ELSE b + d < rules[r].max
    BY <1>2, <1>4, <1>5, <1>6 DEF Full, b, d, o
  <2>2. CASE b <= d /\ b < half
    BY <2>2, <1>1, <1>6 DEF Placement, b, d, half
  <2>3. CASE ~(b <= d /\ b < half) /\ d < b /\ d < half
    BY <2>3, <1>1, <1>6 DEF Placement, b, d, half
  <2>4. CASE ~(b <= d /\ b < half) /\ ~(d < b /\ d < half)
    <3>1. b >= half /\ d >= half
      BY <2>4, <1>2, <1>4
    <3>2. rules[r].observers /\ o < MaxObservers
      <4> SUFFICES ASSUME rules[r].observers => o >= MaxObservers PROVE FALSE
        BY <1>2, <1>4, <1>5
      <4>1. b + d < rules[r].max
        BY <2>1, <1>2, <1>4, <1>5
      <4>2. rest = 1 /\ b = half /\ d = half
        BY <4>1, <3>1, <1>2, <1>4
      <4>3. QED
        BY <4>2, <1>6, <1>o
    <3>3. Placement(r, way) = "observer"
      BY <3>2, <2>4, <1>6 DEF Placement, b, d, o, half
    <3>4. QED
      BY <3>3, <1>1
  <2>5. QED
    BY <2>2, <2>3, <2>4
<1>7. CASE ~rules[r].teamBased
  <2>1. IF rules[r].observers THEN n + o < rules[r].max + MaxObservers ELSE n < rules[r].max
    BY <1>2, <1>4, <1>5, <1>7 DEF Full, n, o
  <2>2. n < rules[r].max \/ (rules[r].observers /\ o < MaxObservers)
    BY <2>1, <1>2, <1>4, <1>5
  <2>3. QED
    BY <2>2, <1>1, <1>7 DEF Placement, n, o
<1>8. CASE rules[r].teamBased /\ way # "alone"
  BY <1>8, <1>1 DEF Placement, Way
<1>9. QED
  BY <1>4, <1>6, <1>7, <1>8

\* A departure takes off the lists exactly those who go.
LEMMA DepartureLists ==
    ASSUME Agreement, NEW p \in Player, NEW r \in RoomId, NEW heir, Parted(r, p, heir),
           NEW m \in Player, NEW s \in RoomId
    PROVE  Listed(m, s)' <=> Listed(m, s) /\ m \notin Gone(r, {p})
<1> USE DEF Agreement
<1>1. Listed(m, s) => room[m] = s
  BY DEF Listed, ListedAreSeated
<1>2. CASE s # r
  <2>1. members'[s] = members[s]
    BY <1>2 DEF Parted
  <2>2. Listed(m, s) => m \notin Gone(r, {p})
    BY <1>1, <1>2 DEF Parted
  <2>3. QED
    BY <2>1, <2>2 DEF Listed
<1>3. CASE s = r /\ ~Closes(r, {p})
  BY <1>3 DEF Parted, Listed
<1>4. CASE s = r /\ Closes(r, {p})
  <2>1. ~Listed(m, s)'
    BY <1>4 DEF Parted, Listed
  <2>2. ASSUME Listed(m, s), m # p PROVE m \in Gone(r, {p})
    <3>1. PICK t \in Team : m \in members[r][t]
      BY <2>2, <1>4 DEF Listed
    <3>2. Remaining(r, {p})[t] = members[r][t] \ {p}
      BY DEF Parted
    <3>3. m \in Remaining(r, {p})[t]
      BY <2>2, <3>1, <3>2
    <3>4. t = "observer"
      BY <3>3, <1>4 DEF Closes, Team
    <3>5. QED
      BY <3>3, <3>4, <1>1, <1>4, <2>2 DEF Gone, Seated
  <2>3. p \in Gone(r, {p})
    BY DEF Parted
  <2>4. QED
    BY <2>1, <2>2, <2>3
<1>5. QED
  BY <1>2, <1>3, <1>4

LEMMA CreateLists ==
    ASSUME Agreement, NEW p \in Player, NEW r \in RoomId, NEW rl \in Rules, CreateRoom(p, r, rl),
           NEW m \in Player, NEW s \in RoomId
    PROVE  Listed(m, s)' <=> IF s = r THEN m = p ELSE Listed(m, s)
<1> USE DEF Agreement
<1>1. PICK t \in Team : members' = [members EXCEPT ![r] = [Vacant EXCEPT ![t] = {p}]]
  BY DEF CreateRoom, Team, PlayTeam
<1>2. QED
  BY <1>1 DEF Vacant, Listed, TypeOK

\* A join puts its player on a list of the room, or the room's limit is odd.
LEMMA JoinLists ==
    ASSUME Agreement, NEW p \in Player, NEW r \in RoomId, Joins(p, r)
    PROVE  /\ Listed(p, r)' \/ OddSeatOnly(r)
           /\ \A m \in Player, s \in RoomId :
                 Listed(m, s)' <=> (Listed(m, s) \/ (m = p /\ s = r /\ Listed(p, r)'))
<1> USE DEF Agreement
<1>1. PICK t \in Team \cup {None} :
          /\ Admit(p, r, t)
          /\ t = None => OddSeatOnly(r)
  <2>1. CASE JoinInvisible(p, r)
    BY <2>1, ConstantsAssumption DEF JoinInvisible, Team
  <2>2. ASSUME NEW way \in Way, Join(p, r, way)
        PROVE  \E t \in Team \cup {None} : Admit(p, r, t) /\ (t = None => OddSeatOnly(r))
    <3>1. Admit(p, r, Placement(r, way)) /\ ~Full(r) /\ r \in live
      BY <2>2 DEF Join, TurnedAway
    <3>2. Placement(r, way) \in Team \cup {None}
      BY PlacementType
    <3>3. OddSeatOnly(r) \/ Placement(r, way) \in Team
      BY <3>1, SeatLeft
    <3>4. QED
      BY <3>1, <3>2, <3>3, ConstantsAssumption
  <2>3. QED
    BY <2>1, <2>2 DEF Joins
<1>2. CASE t = None
  BY <1>1, <1>2 DEF Admit, Listed
<1>3. CASE t # None
  <2>1. /\ t \in Team /\ p \in members'[r][t]
        /\ \A s \in RoomId, u \in Team :
              members'[s][u] = IF s = r /\ u = t THEN members[s][u] \cup {p} ELSE members[s][u]
    BY <1>1, <1>3 DEF Admit, TypeOK
  <2>2. Listed(p, r)'
    BY <2>1 DEF Listed
  <2>3. ASSUME NEW m \in Player, NEW s \in RoomId
        PROVE  Listed(m, s)' <=> (Listed(m, s) \/ (m = p /\ s = r))
    <3>1. CASE m = p /\ s = r
      BY <2>2, <3>1
    <3>2. CASE ~(m = p /\ s = r)
      <4>1. \A u \in Team : m \in members'[s][u] <=> m \in members[s][u]
        BY <2>1, <3>2
      <4>2. QED
        BY <3>2, <4>1 DEF Listed
    <3>3. QED
      BY <3>1, <3>2
  <2>4. QED
    BY <2>2, <2>3
<1>4. QED
  BY <1>2, <1>3

\* A change of team seats its player, and moves nobody else.
LEMMA TeamChangeLists ==
    ASSUME Agreement, NEW p \in Player, NEW asked \in Team, TeamChange(p, asked)
    PROVE  /\ room[p] \in live /\ room[p] \in RoomId /\ room' = room
           /\ \A m \in Player, s \in RoomId :
                 Listed(m, s)' <=> (Listed(m, s) \/ (m = p /\ s = room[p]))
<1> USE DEF Agreement
<1> DEFINE r == room[p]
<1>1. r \in live /\ r \in RoomId /\ room' = room
  BY DEF TeamChange, InRoom, TypeOK
<1>2. PICK t \in Team : Move(p, t)
  BY DEF TeamChange, Team, PlayTeam
<1>3. members' = [members EXCEPT ![r] =
                     [u \in Team |-> IF u = t THEN members[r][u] \cup {p}
                                     ELSE IF u = team[p] THEN members[r][u] \ {p}
                                     ELSE members[r][u]]]
  BY <1>1, <1>2 DEF Move, TypeOK
<1>4. \A s \in RoomId, u \in Team :
          members'[s][u] = IF s # r THEN members[s][u]
                           ELSE IF u = t THEN members[s][u] \cup {p}
                           ELSE IF u = team[p] THEN members[s][u] \ {p}
                           ELSE members[s][u]
  BY <1>1, <1>3 DEF TypeOK
<1> SUFFICES ASSUME NEW m \in Player, NEW s \in RoomId
             PROVE  Listed(m, s)' <=> (Listed(m, s) \/ (m = p /\ s = r))
  BY <1>1
<1>5. CASE m = p /\ s = r
  BY <1>2, <1>4, <1>5 DEF Listed
<1>6. CASE m # p
  <2>1. ASSUME NEW u \in Team PROVE m \in members'[s][u] <=> m \in members[s][u]
    <3>1. \/ members'[s][u] = members[s][u]
          \/ members'[s][u] = members[s][u] \cup {p}
          \/ members'[s][u] = members[s][u] \ {p}
      BY <1>4
    <3>2. QED
      BY <3>1, <1>6
  <2>2. QED
    BY <2>1, <1>6 DEF Listed
<1>7. CASE s # r
  <2>1. \A u \in Team : members'[s][u] = members[s][u]
    BY <1>4, <1>7
  <2>2. QED
    BY <2>1, <1>7 DEF Listed
<1>8. QED
  BY <1>5, <1>6, <1>7

\* A change of mode moves everybody from list to list, and nobody off them.
LEMMA ChangeRulesLists ==
    ASSUME Agreement, NEW p \in Player, NEW rl \in Rules, NEW B \in SUBSET Player,
           ChangeRules(p, rl, B), NEW m \in Player, NEW s \in RoomId
    PROVE  Listed(m, s)' <=> Listed(m, s)
<1> USE DEF Agreement
<1> DEFINE r == room[p]
           n == members[r]["neutral"]
           both == Seated(members[r]["red"] \cup members[r]["blue"], r)
<1>1. r \in live /\ r \in RoomId /\ members[r] \in [Team -> SUBSET Player]
  BY DEF ChangeRules, Hosting, InRoom, TypeOK
<1>2. both = members[r]["red"] \cup members[r]["blue"]
  BY <1>1 DEF ListedAreSeated, Seated, Team, PlayTeam
<1>3. IF rules[r].teamBased THEN n = {}
      ELSE members[r]["red"] = {} /\ members[r]["blue"] = {}
  BY <1>1 DEF ListsFitMode
<1>l. \A q \in RoomId : Listed(m, q) <=> \/ m \in members[q]["neutral"] \/ m \in members[q]["red"]
                                         \/ m \in members[q]["blue"] \/ m \in members[q]["observer"]
  BY DEF Listed, Team, PlayTeam
<1>m. Listed(m, s)' <=> \/ m \in members'[s]["neutral"] \/ m \in members'[s]["red"]
                        \/ m \in members'[s]["blue"] \/ m \in members'[s]["observer"]
  BY DEF Listed, Team, PlayTeam
<1>4. CASE s # r
  <2>1. members'[s] = members[s]
    BY <1>1, <1>4 DEF ChangeRules, TypeOK
  <2>2. QED
    BY <2>1 DEF Listed
<1>5. CASE s = r /\ rl.teamBased = rules[r].teamBased
  BY <1>5 DEF ChangeRules, Listed
<1>6. CASE s = r /\ rl.teamBased /\ ~rules[r].teamBased
  <2>1. /\ B \subseteq n
        /\ members' = [members EXCEPT ![r] =
              [members[r] EXCEPT !["blue"] = B, !["red"] = n \ B, !["neutral"] = {}]]
    BY <1>1, <1>6 DEF ChangeRules, TypeOK
  <2>2. /\ members'[r]["blue"] = B /\ members'[r]["red"] = n \ B /\ members'[r]["neutral"] = {}
        /\ members'[r]["observer"] = members[r]["observer"]
    BY <2>1, <1>1 DEF TypeOK, Team, PlayTeam
  <2>3. QED
    BY <2>1, <2>2, <1>1, <1>3, <1>6, <1>l, <1>m
<1>7. CASE s = r /\ ~rl.teamBased /\ rules[r].teamBased
  <2>1. members' = [members EXCEPT ![r] =
            [members[r] EXCEPT !["neutral"] = both, !["red"] = {}, !["blue"] = {}]]
    BY <1>1, <1>7 DEF ChangeRules, TypeOK
  <2>2. /\ members'[r]["blue"] = {} /\ members'[r]["red"] = {} /\ members'[r]["neutral"] = both
        /\ members'[r]["observer"] = members[r]["observer"]
    BY <2>1, <1>1 DEF TypeOK, Team, PlayTeam
  <2>3. QED
    BY <2>2, <1>1, <1>2, <1>3, <1>7, <1>l, <1>m
<1>8. rl.teamBased \in BOOLEAN /\ rules[r].teamBased \in BOOLEAN
  BY <1>1 DEF TypeOK, Rules
<1>9. QED
  BY <1>4, <1>5, <1>6, <1>7, <1>8

LEMMA AllowObserversLists ==
    ASSUME Agreement, NEW p \in Player, NEW a \in BOOLEAN, NEW O \in SUBSET Player,
           AllowObservers(p, a, O), NEW m \in Player, NEW s \in RoomId
    PROVE  Listed(m, s)' <=> Listed(m, s) /\ m \notin O
<1> USE DEF Agreement
<1> DEFINE r == room[p]
<1>1. r \in RoomId /\ \A q \in O : q \in members[r]["observer"] /\ room[q] = r
  BY DEF AllowObservers, Hosting, InRoom, TypeOK, Seated
<1>2. \A t \in Team : members'[s][t] = IF s = r /\ t = "observer" THEN members[s][t] \ O
                                       ELSE members[s][t]
  BY <1>1 DEF AllowObservers, TypeOK, Team
<1>3. \A t \in Team : m \in members[s][t] /\ m \in O => s = r /\ t = "observer"
  BY <1>1 DEF ListedAreSeated, Team
<1>4. QED
  BY <1>2, <1>3 DEF Listed

\* Nobody loses a seat and stays, and only the odd seat is missing.
LEMMA SeatedAreListedStep ==
    ASSUME Agreement, Agreement', [Next]_vars, NEW m \in Player,
           NEW r \in RoomId, room'[m] = r, ~HasSeat(m)'
    PROVE  \/ room[m] = r /\ ~HasSeat(m)
           \/ room[m] = None /\ OddSeatOnly(r)
<1>2. ~Listed(m, r)'
  BY ConstantsAssumption DEF Agreement, TypeOK, HasSeat, Listed, ListedAreSeated
<1>3. TypeOK
  BY DEF Agreement
<1>4. CASE UNCHANGED vars
  BY <1>4 DEF vars, accounts, rooms, HasSeat
<1> SUFFICES ASSUME NEW p \in Player, Step(p)
             PROVE  \/ room[m] = r /\ ~HasSeat(m)
                    \/ room[m] = None /\ OddSeatOnly(r)
  BY <1>4 DEF Next
<1>5. CASE room[m] # r
  <2>1. m = p /\ ((\E rl \in Rules : CreateRoom(p, r, rl)) \/ Joins(p, r))
    BY <1>3, <1>5, EntersByJoining
  <2>2. ~\E rl \in Rules : CreateRoom(p, r, rl)
    BY <1>2, <2>1, CreateLists
  <2>3. room[m] = None
    BY <2>1, <2>2, JoinPlaces DEF Entering
  <2>4. OddSeatOnly(r)
    BY <1>2, <2>1, <2>2, JoinLists
  <2>5. QED
    BY <2>3, <2>4
<1>6. CASE room[m] = r
  <2> SUFFICES ~Listed(m, r)
    BY <1>6, SeatIsListing
  <2>1. ASSUME NEW q \in Player, Departs(q) PROVE ~Listed(m, r)
    <3>1. PICK B \in SUBSET Player, heir \in Heirs(room[q], q) : Depart(room[q], {q}, B, heir)
      BY <2>1 DEF Departs
    <3>2. room[q] \in live /\ room[q] \in RoomId /\ ListedAreSeated
      BY <2>1 DEF Departs, Agreement, TypeOK
    <3>3. Parted(room[q], q, heir)
      BY <1>3, <3>1, <3>2, DepartParts
    <3>4. m \notin Gone(room[q], {q})
      BY <3>3, ConstantsAssumption DEF Parted
    <3>5. QED
      BY <3>2, <3>3, <3>4, <1>2, DepartureLists
  <2>2. ASSUME NEW s \in RoomId, NEW rl \in Rules, CreateRoom(p, s, rl) PROVE ~Listed(m, r)
    <3>1. s \notin live
      BY <2>2, <1>3 DEF CreateRoom, TypeOK
    <3>2. Listed(m, r) => r \in live
      BY DEF Listed, Agreement, ListedAreSeated
    <3>3. r = s \/ ~Listed(m, r)
      BY <2>2, <1>2, CreateLists
    <3>4. QED
      BY <3>1, <3>2, <3>3
  <2>3. ASSUME NEW s \in RoomId, Joins(p, s) PROVE ~Listed(m, r)
    BY <2>3, <1>2, JoinLists
  <2>4. ASSUME NEW t \in Team, TeamChange(p, t) PROVE ~Listed(m, r)
    BY <2>4, <1>2, TeamChangeLists
  <2>5. ASSUME NEW S \in SUBSET Player, NEW rl \in Rules, ChangeRules(p, rl, S)
        PROVE  ~Listed(m, r)
    BY <2>5, <1>2, ChangeRulesLists
  <2>6. ASSUME NEW S \in SUBSET Player, NEW a \in BOOLEAN, AllowObservers(p, a, S)
        PROVE  ~Listed(m, r)
    <3>1. m \notin S
      BY <2>6, ConstantsAssumption DEF AllowObservers
    <3>2. QED
      BY <3>1, <2>6, <1>2, AllowObserversLists
  <2>7. ASSUME members' = members PROVE ~Listed(m, r)
    BY <2>7, <1>2 DEF Listed
  <2>8. QED
    BY <2>1, <2>2, <2>3, <2>4, <2>5, <2>6, <2>7, <1>3, StepShape
    DEF Dropped, HostChange, Login, SeatsSame, rooms
<1>7. QED
  BY <1>5, <1>6

\* Nobody is in a room without a seat, except who was let in past an odd limit.
THEOREM SeatedAreListedHolds == Spec => SeatedAreListed
<1>1. Agreement /\ [Next]_vars =>
          [\A p \in Player : (room'[p] # None /\ ~HasSeat(p)') =>
              \/ room'[p] = room[p] /\ ~HasSeat(p)
              \/ room[p] = None /\ OddSeatOnly(room'[p])]_vars
  <2> SUFFICES ASSUME Agreement, [Next]_vars, NEW p \in Player, room'[p] # None, ~HasSeat(p)'
               PROVE  \/ room'[p] = room[p] /\ ~HasSeat(p)
                      \/ room[p] = None /\ OddSeatOnly(room'[p])
    OBVIOUS
  <2>1. Agreement'
    BY AgreementStep
  <2>2. room'[p] \in RoomId
    BY <2>1 DEF Agreement, TypeOK
  <2>3. PICK r \in RoomId : room'[p] = r
    BY <2>2
  <2>4. \/ room[p] = r /\ ~HasSeat(p)
        \/ room[p] = None /\ OddSeatOnly(r)
    BY <2>1, <2>3, SeatedAreListedStep
  <2>5. QED
    BY <2>3, <2>4
<1>2. QED
  BY <1>1, AgreementHolds, PTL DEF Spec, SeatedAreListed

-----------------------------------------------------------------------------
(***************************************************************************)
(* RoomMembership implements Lobby: every step opens, enters, quits or     *)
(* hands over, or changes neither who has a seat where nor who leads.      *)
(***************************************************************************)
promised == <<seat, host>>

\* Who has a seat in a room is on a list of it.
LEMMA SeatLists ==
    ASSUME Agreement
    PROVE  /\ seat \in [Player -> RoomId \cup {None}]
           /\ \A m \in Player, s \in RoomId : seat[m] = s <=> Listed(m, s)
           /\ \A s \in RoomId : Promise!Occupants(s) = {m \in Player : Listed(m, s)}
<1>1. seat \in [Player -> RoomId \cup {None}]
  BY DEF Agreement, TypeOK, seat
<1>2. ASSUME NEW m \in Player, NEW s \in RoomId PROVE seat[m] = s <=> Listed(m, s)
  BY SeatIsListing, ConstantsAssumption DEF seat
<1>3. QED
  BY <1>1, <1>2 DEF Promise!Occupants

\* The seats after a step, from the lists after it.
LEMMA SeatsNext ==
    ASSUME Agreement', NEW f \in [Player -> RoomId \cup {None}],
           \A m \in Player, s \in RoomId : Listed(m, s)' <=> f[m] = s
    PROVE  seat' = f
<1>1. ASSUME NEW m \in Player PROVE seat'[m] = f[m]
  <2>1. \A s \in RoomId : seat'[m] = s <=> Listed(m, s)'
    BY ConstantsAssumption DEF seat, HasSeat, Listed, Agreement, ListedAreSeated, TypeOK
  <2>2. seat'[m] \in RoomId \cup {None} /\ f[m] \in RoomId \cup {None}
    BY DEF seat, Agreement, TypeOK
  <2>3. QED
    BY <2>1, <2>2
<1>2. seat' = [m \in Player |-> seat'[m]] /\ f = [m \in Player |-> f[m]]
  BY DEF seat
<1>3. QED
  BY <1>1, <1>2

\* With the same lists before and after, the same seats.
LEMMA SameSeats ==
    ASSUME Agreement, Agreement',
           \A m \in Player, s \in RoomId : Listed(m, s)' <=> Listed(m, s)
    PROVE  seat' = seat
BY SeatLists, SeatsNext

\* The players O, off the lists of their room, leave the others' seats alone.
LEMMA SeatsWithout ==
    ASSUME Agreement, Agreement', NEW O \in SUBSET Player,
           \A m \in Player, s \in RoomId : Listed(m, s)' <=> Listed(m, s) /\ m \notin O
    PROVE  seat' = [q \in Player |-> IF q \in O THEN None ELSE seat[q]]
<1> DEFINE f == [q \in Player |-> IF q \in O THEN None ELSE seat[q]]
<1>1. f \in [Player -> RoomId \cup {None}]
  BY SeatLists
<1>2. \A m \in Player, s \in RoomId : Listed(m, s)' <=> f[m] = s
  BY SeatLists, ConstantsAssumption
<1> HIDE DEF f
<1>3. seat' = f
  BY <1>1, <1>2, SeatsNext
<1>4. QED
  BY <1>3 DEF f

\* p gets a seat in r, where it had none, or only its side changes.
LEMMA SeatsWith ==
    ASSUME Agreement, Agreement', NEW p \in Player, NEW r \in RoomId, seat[p] \in {r, None},
           \A m \in Player, s \in RoomId : Listed(m, s)' <=> (Listed(m, s) \/ (m = p /\ s = r))
    PROVE  seat' = [seat EXCEPT ![p] = r]
<1> DEFINE f == [seat EXCEPT ![p] = r]
<1>1. f \in [Player -> RoomId \cup {None}]
  BY SeatLists
<1>2. \A m \in Player, s \in RoomId : Listed(m, s)' <=> f[m] = s
  BY SeatLists, ConstantsAssumption
<1> HIDE DEF f
<1>3. seat' = f
  BY <1>1, <1>2, SeatsNext
<1>4. QED
  BY <1>3 DEF f

\* A departure quits the room: its player goes, or all its players go; one who
\* had no seat is not missed.
LEMMA DepartureQuits ==
    ASSUME Agreement, Agreement', NEW p \in Player, Departs(p), NEW r \in RoomId, room[p] = r
    PROVE  Promise!Next \/ UNCHANGED promised
<1> USE DEF Agreement
<1> DEFINE gone == Gone(r, {p})
<1>1. PICK B \in SUBSET Player, heir \in Heirs(r, p) : Depart(r, {p}, B, heir)
  BY DEF Departs
<1>2. r \in live /\ r \in RoomId
  BY DEF Departs
<1>3. Parted(r, p, heir)
  BY <1>1, <1>2, DepartParts
<1>4. \A m \in Player, s \in RoomId : Listed(m, s)' <=> Listed(m, s) /\ m \notin gone
  BY <1>2, <1>3, DepartureLists
<1>5. gone \in SUBSET Player /\ p \in gone
  BY <1>3 DEF Parted
<1>6. seat' = [q \in Player |-> IF q \in gone THEN None ELSE seat[q]]
  BY <1>4, <1>5, SeatsWithout
<1>7. host' = [host EXCEPT ![r] = IF Closes(r, {p}) THEN None ELSE heir]
  BY <1>1 DEF Depart
<1>8. host[r] \in Fighters(r) /\ host[r] \in Player /\ Listed(host[r], r)
  BY <1>2, FightersArePlayers DEF HostSeated, Fighters, Listed, Team, PlayTeam
<1>9. Promise!Occupants(r) = {m \in Player : Listed(m, r)}
  BY <1>2, SeatLists
<1>10. CASE Closes(r, {p})
  <2>1. \A m \in Player : Listed(m, r) => m \in gone
    BY <1>2, <1>3, <1>4, <1>10 DEF Parted, Listed
  <2>2. ASSUME NEW m \in gone PROVE m \in Player /\ Listed(m, r)
    <3>1. CASE m = p
      <4>1. \A t \in PlayTeam : members[r][t] \ {p} = {}
        BY <1>3, <1>10 DEF Parted, Closes, Team
      <4>2. \E t \in PlayTeam : host[r] \in members[r][t]
        BY <1>8 DEF Fighters, PlayTeam
      <4>3. host[r] = p
        BY <4>1, <4>2
      <4>4. QED
        BY <3>1, <4>3, <1>8
    <3>2. CASE m # p
      BY <3>2, <1>2, <1>5, <1>10 DEF Gone, Seated, Remaining, Listed, Team
    <3>3. QED
      BY <3>1, <3>2
  <2>3. gone = Promise!Occupants(r) /\ host[r] \in gone
    BY <2>1, <2>2, <1>8, <1>9
  <2>4. host' = [host EXCEPT ![r] = None]
    BY <1>7, <1>10
  <2>5. Promise!Quit(gone, r)
    BY <2>3, <2>4, <1>5, <1>6 DEF Promise!Quit
  <2>6. QED
    BY <2>3, <2>5, <1>2 DEF Promise!Next
<1>11. CASE ~Closes(r, {p}) /\ Listed(p, r)
  <2>1. gone = {p} /\ host' = [host EXCEPT ![r] = heir]
    BY <1>3, <1>7, <1>11 DEF Parted
  <2>2. r \in live' /\ host'[r] = heir
    BY <1>3, <1>11 DEF Parted
  <2>3. heir \in Player
    <3>1. Fighters(r) \subseteq Player
      BY <1>2, FightersArePlayers
    <3>2. QED
      BY <3>1, <1>8 DEF Heirs, Seated
  <2>4. Listed(heir, r)'
    <3>1. heir \in Fighters(r)'
      BY <2>2 DEF HostSeated
    <3>2. QED
      BY <3>1 DEF Fighters, Listed, Team, PlayTeam
  <2>5. heir \in Promise!Occupants(r) \ {p} /\ p \in Promise!Occupants(r)
    BY <2>1, <2>3, <2>4, <1>2, <1>4, <1>9, <1>11
  <2>6. host[r] # p => heir = host[r]
    BY DEF Heirs
  <2>7. Promise!Quit({p}, r)
    BY <2>1, <2>5, <2>6, <1>6 DEF Promise!Quit
  <2>8. QED
    BY <2>5, <2>7, <1>2 DEF Promise!Next
<1>12. CASE ~Listed(p, r)
  <2>1. host[r] # p
    BY <1>8, <1>12
  <2>2. ~Closes(r, {p})
    <3>1. PICK t \in PlayTeam : host[r] \in members[r][t]
      BY <1>8 DEF Fighters, PlayTeam
    <3>2. Remaining(r, {p})[t] = members[r][t] \ {p}
      BY <1>3 DEF Parted, Team
    <3>3. QED
      BY <2>1, <3>1, <3>2 DEF Closes
  <2>3. heir = host[r] /\ host' = host
    BY <2>1, <2>2, <1>7 DEF Heirs, TypeOK
  <2>4. gone = {p}
    BY <2>2, <1>3 DEF Parted
  <2>5. \A s \in RoomId : ~Listed(p, s)
    BY <1>12 DEF Listed, ListedAreSeated
  <2>6. seat' = seat
    BY <2>4, <2>5, <1>4, SameSeats
  <2>7. QED
    BY <2>3, <2>6 DEF promised
<1>13. QED
  BY <1>10, <1>11, <1>12

\* Observers who are sent away quit a room whose leader stays.
LEMMA ObserversQuit ==
    ASSUME Agreement, Agreement', NEW p \in Player, NEW a \in BOOLEAN, NEW O \in SUBSET Player,
           AllowObservers(p, a, O)
    PROVE  Promise!Next \/ UNCHANGED promised
<1> USE DEF Agreement
<1> DEFINE r == room[p]
<1>1. r \in live /\ r \in RoomId /\ host' = host /\ O \subseteq members[r]["observer"]
  BY DEF AllowObservers, Hosting, InRoom, TypeOK, Seated
<1>2. seat' = [q \in Player |-> IF q \in O THEN None ELSE seat[q]]
  BY AllowObserversLists, SeatsWithout
<1>3. CASE O = {}
  BY <1>1, <1>2, <1>3, SeatLists DEF promised
<1>4. CASE O # {}
  <2>1. Promise!Occupants(r) = {m \in Player : Listed(m, r)}
    BY <1>1, SeatLists
  <2>2. O \subseteq Promise!Occupants(r)
    BY <2>1, <1>1 DEF Listed, Team
  <2>3. host[r] \in Fighters(r) /\ host[r] \in Promise!Occupants(r)
    BY <2>1, <1>1, FightersArePlayers DEF HostSeated, Fighters, Listed, Team, PlayTeam
  <2>4. host[r] \notin O
    BY <2>3, <1>1 DEF Fighters, ListedAreSeated, Team, PlayTeam
  <2>5. host' = [host EXCEPT ![r] = host[r]]
    BY <1>1 DEF TypeOK
  <2>6. Promise!Quit(O, r)
    BY <2>2, <2>3, <2>4, <2>5, <1>2, <1>4 DEF Promise!Quit
  <2>7. QED
    BY <2>2, <2>6, <1>1 DEF Promise!Next
<1>5. QED
  BY <1>3, <1>4

\* A join enters the room, unless the odd limit left no seat; who got none may get
\* one by a change of team.
LEMMA SeatTaken ==
    ASSUME Agreement, Agreement', NEW p \in Player, NEW r \in RoomId, r \in live, host' = host,
           seat[p] \in {r, None},
           \A m \in Player, s \in RoomId : Listed(m, s)' <=> (Listed(m, s) \/ (m = p /\ s = r))
    PROVE  Promise!Next \/ UNCHANGED promised
<1>1. seat' = [seat EXCEPT ![p] = r]
  BY SeatsWith
<1>2. CASE seat[p] = r
  BY <1>1, <1>2, SeatLists DEF promised
<1>3. CASE seat[p] = None
  <2>1. host[r] # None
    BY FightersArePlayers, ConstantsAssumption DEF Agreement, HostSeated
  <2>2. Promise!Enter(p, r)
    BY <2>1, <1>1, <1>3 DEF Promise!Enter
  <2>3. QED
    BY <2>2 DEF Promise!Next
<1>4. QED
  BY <1>2, <1>3

LEMMA PromiseStep ==
    ASSUME Agreement, Agreement', Vacated, [Next]_vars
    PROVE  Promise!Next \/ UNCHANGED promised
<1> USE DEF Agreement
<1>0. ASSUME UNCHANGED <<members, host>> PROVE UNCHANGED promised
  BY <1>0, SameSeats DEF promised, Listed
<1>1. CASE UNCHANGED vars
  BY <1>0, <1>1 DEF vars, rooms
<1> SUFFICES ASSUME NEW p \in Player, Step(p) PROVE Promise!Next \/ UNCHANGED promised
  BY <1>1 DEF Next
<1>2. ASSUME NEW q \in Player, Departs(q) PROVE Promise!Next \/ UNCHANGED promised
  <2>1. room[q] \in RoomId
    BY <1>2 DEF Departs, TypeOK
  <2>2. QED
    BY <1>2, <2>1, DepartureQuits
<1>3. CASE Dropped(p) \/ Login(p) \/ SeatsSame
  BY <1>0, <1>3 DEF Dropped, Login, SeatsSame, rooms
<1>4. ASSUME NEW r \in RoomId, NEW rl \in Rules, CreateRoom(p, r, rl) PROVE Promise!Next
  <2>1. host[r] = None /\ room[p] = None /\ host' = [host EXCEPT ![r] = p] /\ r \notin live
    BY <1>4 DEF CreateRoom, TypeOK, Vacated
  <2>2. seat[p] = None
    BY <2>1 DEF seat, HasSeat
  <2>3. \A m \in Player, s \in RoomId : Listed(m, s)' <=> (Listed(m, s) \/ (m = p /\ s = r))
    <3>1. \A m \in Player : ~Listed(m, r)
      BY <2>1 DEF Listed, ListedAreSeated
    <3>2. QED
      <4> SUFFICES ASSUME NEW m \in Player, NEW s \in RoomId
                   PROVE  Listed(m, s)' <=> (Listed(m, s) \/ (m = p /\ s = r))
        OBVIOUS
      <4>1. Listed(m, s)' <=> IF s = r THEN m = p ELSE Listed(m, s)
        BY <1>4, CreateLists
      <4>2. QED
        BY <3>1, <4>1
  <2>4. seat' = [seat EXCEPT ![p] = r]
    BY <2>2, <2>3, SeatsWith
  <2>5. Promise!Open(p, r)
    BY <2>1, <2>2, <2>4 DEF Promise!Open
  <2>6. QED
    BY <2>5 DEF Promise!Next
<1>5. ASSUME NEW r \in RoomId, Joins(p, r) PROVE Promise!Next \/ UNCHANGED promised
  <2>1. room[p] = None /\ r \in live /\ host' = host
    BY <1>5, JoinPlaces DEF Entering, Admit
  <2>2. seat[p] = None
    BY <2>1 DEF seat, HasSeat
  <2>3. \A m \in Player, s \in RoomId :
            Listed(m, s)' <=> (Listed(m, s) \/ (m = p /\ s = r /\ Listed(p, r)'))
    BY <1>5, JoinLists
  <2>4. CASE Listed(p, r)'
    BY <2>1, <2>2, <2>3, <2>4, SeatTaken
  <2>5. CASE ~Listed(p, r)'
    BY <2>1, <2>3, <2>5, SameSeats DEF promised
  <2>6. QED
    BY <2>4, <2>5
<1>6. ASSUME NEW t \in Team, TeamChange(p, t) PROVE Promise!Next \/ UNCHANGED promised
  <2>1. /\ room[p] \in live /\ room[p] \in RoomId
        /\ \A m \in Player, s \in RoomId :
              Listed(m, s)' <=> (Listed(m, s) \/ (m = p /\ s = room[p]))
    BY <1>6, TeamChangeLists
  <2>2. host' = host /\ seat[p] \in {room[p], None}
    BY <1>6 DEF TeamChange, seat
  <2>3. QED
    BY <2>1, <2>2, SeatTaken
<1>7. ASSUME NEW q \in Player, HostChange(p, q) PROVE Promise!Next
  <2>1. /\ room[p] \in RoomId /\ host[room[p]] = p /\ members' = members
        /\ q \in Fighters(room[p]) /\ host' = [host EXCEPT ![room[p]] = q]
    BY <1>7 DEF HostChange, Hosting, InRoom, Seated, TypeOK
  <2>2. q \in Promise!Occupants(room[p])
    BY <2>1, SeatLists DEF Fighters, Listed, Team, PlayTeam
  <2>3. seat' = seat
    BY <2>1, SameSeats DEF Listed
  <2>4. Promise!HandOver(room[p], q)
    BY <2>1, <2>2, <2>3, ConstantsAssumption DEF Promise!HandOver
  <2>5. QED
    BY <2>1, <2>4 DEF Promise!Next
<1>8. ASSUME NEW S \in SUBSET Player, NEW rl \in Rules, ChangeRules(p, rl, S)
      PROVE  UNCHANGED promised
  <2>1. \A m \in Player, s \in RoomId : Listed(m, s)' <=> Listed(m, s)
    BY <1>8, ChangeRulesLists
  <2>2. QED
    BY <2>1, <1>8, SameSeats DEF ChangeRules, promised
<1>9. ASSUME NEW S \in SUBSET Player, NEW a \in BOOLEAN, AllowObservers(p, a, S)
      PROVE  Promise!Next \/ UNCHANGED promised
  BY <1>9, ObserversQuit
<1>10. QED
  BY <1>2, <1>3, <1>4, <1>5, <1>6, <1>7, <1>8, <1>9, StepShape

\* The rooms keep what Lobby promises of the players who have a seat.
THEOREM ImplementsLobby == Spec => KeepsPromise
<1>1. Init => Promise!Init
  BY DEF Init, Promise!Init, seat, HasSeat
<1>2. Agreement /\ Vacated /\ [Next]_vars => [Promise!Next]_promised
  BY AgreementStep, PromiseStep
<1>3. QED
  BY <1>1, <1>2, VacatedHolds, PTL DEF Spec, KeepsPromise, Promise!Spec, promised

-----------------------------------------------------------------------------
(***************************************************************************)
(* The sizes of the teams.                                                 *)
(***************************************************************************)

\* A list that takes in one player grows by at most one.
LEMMA OneMore ==
    ASSUME TypeOK, NEW r \in RoomId, NEW t \in Team, NEW p
    PROVE  Cardinality(members[r][t] \cup {p}) \in {Size(r, t), Size(r, t) + 1}
<1>1. IsFiniteSet(members[r][t])
  BY SizesAreNumbers
<1>2. QED
  BY <1>1, FS_AddElement DEF Size

LEMMA NoneMore ==
    ASSUME TypeOK, NEW r \in RoomId, NEW t \in Team, NEW T \in SUBSET members[r][t]
    PROVE  Cardinality(T) \in Nat /\ Cardinality(T) <= Size(r, t)
<1>1. IsFiniteSet(members[r][t])
  BY SizesAreNumbers
<1>2. QED
  BY <1>1, FS_Subset, FS_CardinalityType DEF Size

\* Only the members of parties are seated without a look at the limit of the side.
LEMMA PlacementHasSeat ==
    ASSUME TypeOK, NEW r \in RoomId, NEW t \in PlayTeam, NEW way \in Way,
           Placement(r, way) = t, way = "alone" \/ ~rules[r].teamBased
    PROVE  Size(r, t) < IF t = "neutral" THEN rules[r].max ELSE rules[r].max \div 2
<1>1. t \in {"neutral", "red", "blue"} /\ None \notin {"neutral", "red", "blue", "observer"}
  BY ConstantsAssumption DEF PlayTeam, Team
<1>2. QED
  BY <1>1 DEF Placement

\* A joiner into a room that is not full finds the room within what it takes.
LEMMA JoinFillsRoom ==
    ASSUME TypeOK, TypeOK', NEW p \in Player, NEW r \in live, NEW t \in {"red", "blue"},
           Admit(p, r, t), rules[r].teamBased, ~Full(r)
    PROVE  Crowd(r)' <= rules[r].max + (IF rules[r].observers THEN MaxObservers ELSE 0)
<1> DEFINE b == Size(r, "blue")
           d == Size(r, "red")
           o == Size(r, "observer")
           bb == Cardinality(members'[r]["blue"])
           dd == Cardinality(members'[r]["red"])
<1>1. r \in RoomId /\ {"blue", "red", "observer"} \subseteq Team /\ t # None
  BY ConstantsAssumption DEF TypeOK, Team, PlayTeam
<1>2. b \in Nat /\ d \in Nat /\ o \in Nat
  BY <1>1, SizesAreNumbers
<1>3. rules[r] \in Rules /\ rules' = rules
  BY <1>1 DEF TypeOK, Admit
<1>4. rules[r].max \in Nat /\ MaxObservers \in Nat /\ rules[r].observers \in BOOLEAN
  BY <1>3, ConstantsAssumption DEF Rules
<1>5. /\ members'[r][t] = members[r][t] \cup {p}
      /\ \A u \in Team \ {t} : members'[r][u] = members[r][u]
  BY <1>1 DEF Admit, TypeOK
<1>6. bb \in Nat /\ dd \in Nat /\ bb + dd <= b + d + 1
  <2>1. Cardinality(members[r][t] \cup {p}) \in {Size(r, t), Size(r, t) + 1}
    BY <1>1, OneMore
  <2>2. CASE t = "blue"
    BY <2>1, <2>2, <1>1, <1>2, <1>5 DEF Size
  <2>3. CASE t = "red"
    BY <2>1, <2>3, <1>1, <1>2, <1>5 DEF Size
  <2>4. QED
    BY <2>2, <2>3
<1>7. Crowd(r)' = bb + dd + (IF rules[r].observers THEN o ELSE 0)
  BY <1>1, <1>3, <1>5, <1>2, <1>6 DEF Crowd, Size
<1>8. IF rules[r].observers THEN b + d + o < rules[r].max + MaxObservers
      ELSE b + d < rules[r].max
  BY <1>2, <1>4 DEF Full
<1> HIDE DEF b, d, o, bb, dd
<1>9. QED
  BY <1>2, <1>4, <1>6, <1>7, <1>8

\* A list of players grows in a room whose rules stay only where there is a
\* seat, or by a member of a party, who may take the side past its half.
LEMMA TeamsWithinLimitsStep ==
    ASSUME Agreement, Agreement', [Next]_vars, NEW r \in live \cap live', NEW t \in PlayTeam,
           rules'[r] = rules[r], Cardinality(members'[r][t]) > Size(r, t)
    PROVE  IF PartyEnters(r, t)
           THEN Crowd(r)' <= rules[r].max + (IF rules[r].observers THEN MaxObservers ELSE 0)
           ELSE Cardinality(members'[r][t]) <=
                   (IF t = "neutral" THEN rules[r].max ELSE rules[r].max \div 2)
<1> DEFINE limit == IF t = "neutral" THEN rules[r].max ELSE rules[r].max \div 2
           Within == Crowd(r)' <= rules[r].max + (IF rules[r].observers THEN MaxObservers ELSE 0)
           Kept == IF PartyEnters(r, t) THEN Within ELSE Cardinality(members'[r][t]) <= limit
<1> USE DEF Agreement
<1>1. r \in RoomId /\ t \in Team /\ t # None /\ t # "observer"
  BY ConstantsAssumption DEF TypeOK, Team, PlayTeam
<1>2. Size(r, t) \in Nat
  BY <1>1, SizesAreNumbers
<1>3. limit \in Nat /\ rules[r].max \in Nat
  <2>1. rules[r] \in Rules
    BY <1>1 DEF TypeOK
  <2>2. rules[r].max \in Nat
    BY <2>1, ConstantsAssumption DEF Rules
  <2>3. QED
    BY <2>2
<1>4. ~(members'[r][t] \subseteq members[r][t])
  BY <1>1, <1>2, NoneMore
<1>5. ASSUME NEW p, members'[r][t] = members[r][t] \cup {p}, Size(r, t) < limit
      PROVE  Cardinality(members'[r][t]) <= limit
  <2>1. Cardinality(members'[r][t]) \in {Size(r, t), Size(r, t) + 1}
    BY <1>1, <1>5, OneMore
  <2> HIDE DEF limit
  <2>2. QED
    BY <2>1, <1>2, <1>3, <1>5
<1>6. PICK p \in Player : Step(p)
  BY <1>4 DEF Next, vars, rooms
<1>7. ASSUME NEW q \in Player, Departs(q) PROVE FALSE
  <2>1. PICK B \in SUBSET Player, heir \in Heirs(room[q], q) : Depart(room[q], {q}, B, heir)
    BY <1>7 DEF Departs
  <2>2. room[q] \in live
    BY <1>7 DEF Departs
  <2>3. Parted(room[q], q, heir)
    BY <2>1, <2>2, DepartParts
  <2>4. QED
    BY <2>3, <1>1, <1>4 DEF Parted
<1>8. ASSUME NEW s \in RoomId, NEW rl \in Rules, CreateRoom(p, s, rl) PROVE FALSE
  BY <1>1, <1>4, <1>8 DEF CreateRoom, TypeOK
<1>9. ASSUME NEW s \in RoomId, Joins(p, s) PROVE Kept
  <2>1. PICK u \in Team \cup {None} :
            /\ Admit(p, s, u)
            /\ u = "observer" \/ \E way \in Way : Join(p, s, way) /\ u = Placement(s, way)
    <3>1. CASE JoinInvisible(p, s)
      BY <3>1 DEF JoinInvisible, Team
    <3>2. ASSUME NEW way \in Way, Join(p, s, way)
          PROVE  Admit(p, s, Placement(s, way)) /\ Placement(s, way) \in Team \cup {None}
      BY <3>2, PlacementType DEF Join
    <3>3. QED
      BY <1>9, <3>1, <3>2 DEF Joins
  <2>2. u = t /\ s = r /\ members'[r][t] = members[r][t] \cup {p}
    BY <2>1, <1>1, <1>4 DEF Admit, TypeOK
  <2>3. PICK way \in Way : Join(p, r, way) /\ Placement(r, way) = t
    BY <2>1, <2>2, <1>1
  <2>4. CASE rules[r].teamBased /\ p \in inParty
    <3>1. PartyEnters(r, t)
      BY <2>1, <2>2, <2>3, <2>4, <1>1, ConstantsAssumption
      DEF Admit, Join, Entering, PartyEnters, TypeOK
    <3>2. t \in {"red", "blue"} /\ ~Full(r)
      BY <2>3, <2>4, <1>1 DEF Join, TurnedAway, Placement, Way
    <3>3. Within
      BY <2>1, <2>2, <2>4, <3>2, JoinFillsRoom
    <3>4. QED
      BY <3>1, <3>3
  <2>5. CASE ~(rules[r].teamBased /\ p \in inParty)
    <3>1. ~PartyEnters(r, t)
      BY <2>1, <2>2, <2>5 DEF Admit, PartyEnters, TypeOK
    <3>2. way = "alone" \/ ~rules[r].teamBased
      BY <2>3, <2>5 DEF Join
    <3>3. Size(r, t) < limit
      BY <2>3, <3>2, <1>1, PlacementHasSeat
    <3>4. QED
      BY <2>2, <3>1, <3>3, <1>5
  <2>6. QED
    BY <2>4, <2>5
<1>10. ASSUME NEW asked \in Team, TeamChange(p, asked) PROVE Kept
  <2>1. room[p] \in RoomId
    BY <1>10 DEF TeamChange, InRoom, TypeOK
  <2>2. PICK u \in Team :
            /\ Move(p, u)
            /\ u # "observer" =>
                  Size(room[p], u) < IF u = "neutral" THEN rules[room[p]].max
                                     ELSE rules[room[p]].max \div 2
    BY <1>10 DEF TeamChange, Team, PlayTeam
  <2>3. u = t /\ room[p] = r /\ members'[r][t] = members[r][t] \cup {p}
    BY <2>1, <2>2, <1>1, <1>4 DEF Move, TypeOK
  <2>4. Size(r, t) < limit
    BY <2>2, <2>3, <1>1
  <2>5. ~PartyEnters(r, t)
    BY <1>10 DEF TeamChange, PartyEnters
  <2>6. QED
    BY <2>3, <2>4, <2>5, <1>5
<1>11. ASSUME NEW S \in SUBSET Player, NEW rl \in Rules, ChangeRules(p, rl, S) PROVE FALSE
  <2>1. room[p] \in RoomId /\ rules' = [rules EXCEPT ![room[p]] = rl]
    BY <1>11 DEF ChangeRules, Hosting, InRoom, TypeOK
  <2>2. CASE room[p] = r
    <3>1. rl = rules[r]
      BY <2>1, <2>2 DEF TypeOK
    <3>2. members' = members
      BY <3>1, <2>2, <1>11 DEF ChangeRules
    <3>3. QED
      BY <3>2, <1>4
  <2>3. CASE room[p] # r
    <3>1. members'[r] = members[r]
      BY <2>1, <2>3, <1>1, <1>11 DEF ChangeRules, TypeOK
    <3>2. QED
      BY <3>1, <1>4
  <2>4. QED
    BY <2>2, <2>3
<1>12. ASSUME NEW S \in SUBSET Player, NEW a \in BOOLEAN, AllowObservers(p, a, S) PROVE FALSE
  BY <1>1, <1>4, <1>12 DEF AllowObservers, Hosting, InRoom, TypeOK
<1>13. ASSUME members' = members PROVE FALSE
  BY <1>4, <1>13
<1>14. QED
  BY <1>6, <1>7, <1>8, <1>9, <1>10, <1>11, <1>12, <1>13, StepShape
  DEF Dropped, HostChange, Login, SeatsSame, rooms

\* No team grows beyond its limit, except by parties, and those not beyond the
\* room's.
THEOREM TeamsWithinLimitsHolds == Spec => TeamsWithinLimits
<1>1. Agreement /\ [Next]_vars =>
        [\A r \in live \cap live', t \in PlayTeam :
          (rules'[r] = rules[r] /\ Cardinality(members'[r][t]) > Size(r, t))
          => IF PartyEnters(r, t)
             THEN Crowd(r)' <= rules[r].max + (IF rules[r].observers THEN MaxObservers ELSE 0)
             ELSE Cardinality(members'[r][t]) <=
                     (IF t = "neutral" THEN rules[r].max ELSE rules[r].max \div 2)]_vars
  BY AgreementStep, TeamsWithinLimitsStep
<1>2. QED
  BY <1>1, AgreementHolds, PTL DEF Spec, TeamsWithinLimits

\* Somebody enters a room that was there by joining, and a join by one who is in
\* no party prefers the smaller team.
LEMMA JoinsKeepTeamsEvenStep ==
    ASSUME Agreement, [Next]_vars, NEW q \in Player \ inParty, NEW r \in live \cap live',
           room[q] # r, room'[q] = r, rules[r].teamBased, Size(r, "blue") # Size(r, "red")
    PROVE  LET b == Cardinality(members'[r]["blue"])
               d == Cardinality(members'[r]["red"])
           IN  IF Size(r, "blue") > Size(r, "red") THEN b - d <= Size(r, "blue") - Size(r, "red")
               ELSE d - b <= Size(r, "red") - Size(r, "blue")
<1> DEFINE b0 == Size(r, "blue")
           d0 == Size(r, "red")
           b  == Cardinality(members'[r]["blue"])
           d  == Cardinality(members'[r]["red"])
<1> USE DEF Agreement
<1>1. r \in RoomId /\ {"red", "blue"} \subseteq Team /\ None \notin {"red", "blue"}
  BY ConstantsAssumption DEF TypeOK, Team, PlayTeam
<1>2. b0 \in Nat /\ d0 \in Nat
  BY <1>1, SizesAreNumbers
<1>3. PICK p \in Player : Step(p)
  BY DEF Next, vars, accounts
<1>4. Joins(q, r)
  <2>1. q = p /\ ((\E rl \in Rules : CreateRoom(p, r, rl)) \/ Joins(p, r))
    BY <1>1, <1>3, EntersByJoining
  <2>2. QED
    BY <2>1 DEF CreateRoom, TypeOK
<1>5. PICK t \in Team \cup {None} : Admit(q, r, t) /\ t \in {Placement(r, "alone"), "observer"}
  <2>1. CASE JoinInvisible(q, r)
    BY <2>1 DEF JoinInvisible, Team
  <2>2. ASSUME NEW way \in Way, Join(q, r, way)
        PROVE  /\ Admit(q, r, Placement(r, "alone"))
               /\ Placement(r, "alone") \in Team \cup {None}
    <3>1. way = "alone"
      BY <2>2 DEF Join
    <3>2. QED
      BY <2>2, <3>1, <1>1, PlacementType DEF Join
  <2>3. QED
    BY <1>4, <2>1, <2>2 DEF Joins
<1>6. (t = "blue" => b0 <= d0) /\ (t = "red" => d0 < b0)
  BY <1>5, <1>1 DEF Placement
<1>7. /\ members'[r]["blue"] = members[r]["blue"] \cup (IF t = "blue" THEN {q} ELSE {})
      /\ members'[r]["red"] = members[r]["red"] \cup (IF t = "red" THEN {q} ELSE {})
  <2>1. CASE t = None
    BY <2>1, <1>1, <1>5 DEF Admit
  <2>2. CASE t # None
    BY <2>2, <1>1, <1>5 DEF Admit, TypeOK
  <2>3. QED
    BY <2>1, <2>2
<1>8. /\ IF t = "blue" THEN b \in {b0, b0 + 1} ELSE b = b0
      /\ IF t = "red" THEN d \in {d0, d0 + 1} ELSE d = d0
  <2>1. CASE t = "blue"
    BY <2>1, <1>1, <1>7, OneMore DEF Size
  <2>2. CASE t = "red"
    BY <2>2, <1>1, <1>7, OneMore DEF Size
  <2>3. CASE t \notin {"blue", "red"}
    BY <2>3, <1>7 DEF Size
  <2>4. QED
    BY <2>1, <2>2, <2>3
<1> HIDE DEF b0, d0, b, d
<1>9. IF b0 > d0 THEN b - d <= b0 - d0 ELSE d - b <= d0 - b0
  BY <1>2, <1>6, <1>8 DEF b0, d0
<1>10. QED
  BY <1>9 DEF b0, d0, b, d

\* No join by one who is in no party makes the teams more uneven.
THEOREM JoinsKeepTeamsEvenHolds == Spec => JoinsKeepTeamsEven
<1>1. Agreement /\ [Next]_vars =>
        [\A p \in Player \ inParty, r \in live \cap live' :
          (room[p] # r /\ room'[p] = r /\ rules[r].teamBased /\ Size(r, "blue") # Size(r, "red"))
          => LET b == Cardinality(members'[r]["blue"])
                 d == Cardinality(members'[r]["red"])
             IN  IF Size(r, "blue") > Size(r, "red") THEN b - d <= Size(r, "blue") - Size(r, "red")
                 ELSE d - b <= Size(r, "red") - Size(r, "blue")]_vars
  BY JoinsKeepTeamsEvenStep
<1>2. QED
  BY <1>1, AgreementHolds, PTL DEF Spec, JoinsKeepTeamsEven

-----------------------------------------------------------------------------
(***************************************************************************)
(* The host of a match.  A step that changes the host of a room in a match *)
(* is the departure of the host, whose heir is in the match if anybody     *)
(* who stays is.                                                           *)
(***************************************************************************)
LEMMA DepartureKeepsMatchHost ==
    ASSUME Agreement, NEW q \in Player, Departs(q), NEW r \in live \cap live',
           host'[r] # host[r], \E m \in Fighters(r)' : playing'[m]
    PROVE  playing'[host'[r]]
<1> USE DEF Agreement
<1>1. PICK B \in SUBSET Player, heir \in Heirs(room[q], q) : Depart(room[q], {q}, B, heir)
  BY DEF Departs
<1>2. room[q] \in live
  BY DEF Departs
<1>3. Parted(room[q], q, heir)
  BY <1>1, <1>2, DepartParts
<1>4. r \in RoomId /\ host[r] \in Player /\ room[host[r]] = r
  BY FightersArePlayers DEF HostSeated, TypeOK
<1>5. room[q] = r
  BY <1>3, <1>4 DEF Parted
<1>6. /\ Gone(r, {q}) = {q} /\ host'[r] = heir /\ rules'[r] = rules[r]
      /\ \A t \in Team : members'[r][t] = members[r][t] \ {q}
  BY <1>3, <1>5 DEF Parted
<1>7. \A m \in Player : m # q => playing'[m] = playing[m]
  BY <1>3, <1>5, <1>6 DEF Parted
<1>8. host[r] = q
  BY <1>6, <1>1, <1>5 DEF Heirs
<1>9. team[q] # "observer"
  <2>1. q \in Fighters(r)
    BY <1>8 DEF HostSeated
  <2>2. QED
    BY <2>1, <1>4 DEF Fighters, ListedAreSeated, Team, PlayTeam
<1>10. Seated(Fighters(r), r) = Fighters(r) /\ Fighters(r) \subseteq Player
  BY <1>4 DEF Seated, Fighters, ListedAreSeated, TypeOK, Team, PlayTeam
<1>11. Fighters(r)' = Fighters(r) \ {q}
  BY <1>6 DEF Fighters, Team, PlayTeam
<1>12. PICK m \in Fighters(r) \ {q} : playing'[m]
  BY <1>11
<1>13. m \in Player /\ playing[m]
  BY <1>7, <1>10, <1>12
<1>14. heir \in {s \in Fighters(r) \ {q} : playing[s]}
  BY <1>1, <1>5, <1>8, <1>9, <1>10, <1>12, <1>13 DEF Heirs
<1>15. QED
  BY <1>6, <1>7, <1>10, <1>14

LEMMA MatchKeepsItsHostStep ==
    ASSUME Agreement, [Next]_vars, NEW r \in live \cap live', started[r],
           host'[r] # host[r], \E m \in Fighters(r)' : playing'[m]
    PROVE  playing'[host'[r]]
<1> USE DEF Agreement
<1>1. r \in RoomId /\ host[r] \in Player
  BY FightersArePlayers DEF HostSeated, TypeOK
<1>2. PICK p \in Player : Step(p)
  BY DEF Next, vars, rooms
<1>3. ASSUME NEW s \in RoomId, NEW rl \in Rules, CreateRoom(p, s, rl) PROVE FALSE
  BY <1>1, <1>3 DEF CreateRoom, TypeOK
<1>4. ASSUME NEW s \in RoomId, Joins(p, s) PROVE FALSE
  BY <1>4, JoinPlaces DEF Admit
<1>5. ASSUME NEW q \in Player, HostChange(p, q) PROVE FALSE
  BY <1>1, <1>5 DEF HostChange, Hosting, InRoom, TypeOK
<1>6. ASSUME host' = host PROVE FALSE
  BY <1>6
<1>7. PICK q \in Player : Departs(q)
  BY <1>2, <1>3, <1>4, <1>5, <1>6, StepShape
  DEF Dropped, TeamChange, ChangeRules, AllowObservers, Login, SeatsSame, rooms
<1>8. QED
  BY <1>7, DepartureKeepsMatchHost

\* A host who goes from a running match is followed by one who is in it, as long
\* as somebody on a team is.
THEOREM MatchKeepsItsHostHolds == Spec => MatchKeepsItsHost
<1>1. Agreement /\ [Next]_vars =>
        [\A r \in live \cap live' :
          (started[r] /\ host'[r] # host[r] /\ \E q \in Fighters(r)' : playing'[q])
          => playing'[host'[r]]]_vars
  BY MatchKeepsItsHostStep
<1>2. QED
  BY <1>1, AgreementHolds, PTL DEF Spec, MatchKeepsItsHost
=============================================================================
