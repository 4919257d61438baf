---------------------------- MODULE MatchProofs ----------------------------
(***************************************************************************)
(* Proofs about Match for every set of players and every bound.            *)
(***************************************************************************)
EXTENDS Match, SequenceTheorems, TLAPS

\* The steps that only touch what their UNCHANGED leaves out are one group.
USE DEF match, stash, vote

-----------------------------------------------------------------------------
\* What the helpers keep.

LEMMA RemovedTypes ==
    ASSUME TypeOK, NEW s \in present, Removed(s)
    PROVE  /\ present' = present \ {s}
           /\ host' \in present' \cup {None}
           /\ playing' \subseteq present' /\ owed' \subseteq Sid /\ overpaid' = overpaid
<1>1. playing \ {s} \subseteq present \ {s} BY DEF TypeOK
<1>2. host' \in (present \ {s}) \cup {None}
  <2>1. CASE host # s BY <2>1 DEF Removed, TypeOK
  <2>2. CASE host = s /\ present = {s} BY <2>2 DEF Removed
  <2>3. CASE host = s /\ present # {s} BY <2>3, <1>1 DEF Removed
  <2> QED BY <2>1, <2>2, <2>3
<1> QED BY <1>1, <1>2 DEF Removed, PlayingWithout, TypeOK

LEMMA EmptyStash == NoKills \in [Sid -> Nat] /\ <<>> \in Seq(Nat)
BY DEF NoKills

LEMMA DeletedTypes ==
    ASSUME TypeOK, Deleted
    PROVE  /\ running' = FALSE /\ fight' = "open" /\ ending' \in BOOLEAN /\ voting' = FALSE
           /\ kills' \in [Sid -> Nat] /\ killed' \in [Sid -> Nat] /\ rounds' \in Nat
           /\ ended' \in Seq(Nat)
           /\ target' = None /\ voters' = {} /\ kickers' = {} /\ barred' = {}
           /\ asked' \subseteq Sid \X Sid
<1>1. /\ kills' \in [Sid -> Nat] /\ killed' \in [Sid -> Nat] /\ rounds' \in Nat
      /\ ended' \in Seq(Nat)
  BY EmptyStash DEF Deleted
<1> QED BY <1>1 DEF Deleted, TypeOK

LEMMA SettleTypes ==
    ASSUME TypeOK, NEW S \in SUBSET playing, Settle(S)
    PROVE  playing' \subseteq present /\ owed' \subseteq Sid /\ overpaid' \subseteq Sid
BY DEF Settle, EndedFor, TypeOK

-----------------------------------------------------------------------------
LEMMA TypeInit == Init => TypeOK
<1> SUFFICES ASSUME Init PROVE TypeOK
  OBVIOUS
<1>1. /\ kills \in [Sid -> Nat] /\ killed \in [Sid -> Nat] /\ rounds \in Nat
      /\ ended \in Seq(Nat)
  BY EmptyStash DEF Init
<1> QED BY <1>1 DEF Init, TypeOK

LEMMA TypeStep ==
    ASSUME TypeOK, VoteHasTarget, [Next]_vars
    PROVE  TypeOK'
<1>1. CASE UNCHANGED vars BY <1>1 DEF vars, TypeOK
<1>2. CASE RoundEndCount
  <2>1. rounds' \in Nat /\ ended' \in Seq(Nat)
    <3>1. CASE present = {} BY <1>2, <3>1 DEF RoundEndCount, TypeOK
    <3>2. CASE present # {}
      <4>1. rounds' = rounds + 1 /\ ended' = Append(ended, rounds + 1)
        BY <1>2, <3>2 DEF RoundEndCount
      <4>2. rounds + 1 \in Nat /\ ended \in Seq(Nat) BY DEF TypeOK
      <4> QED BY <4>1, <4>2, AppendProperties
    <3> QED BY <3>1, <3>2
  <2>2. fight' \in {"open", "grace", "closed"} BY <1>2 DEF RoundEndCount, TypeOK
  <2> QED BY <1>2, <2>1, <2>2 DEF RoundEndCount, TypeOK
<1>3. CASE GraceEnds BY <1>3 DEF GraceEnds, TypeOK
<1>4. ASSUME NEW S \in SUBSET playing, MatchEnd(S) PROVE TypeOK'
  <2>1. playing' \subseteq present /\ owed' \subseteq Sid /\ overpaid' \subseteq Sid
    BY <1>4, SettleTypes DEF MatchEnd
  <2> QED BY <1>4, <2>1, EmptyStash DEF MatchEnd, TypeOK
<1>5. ASSUME NEW S \in SUBSET playing, MatchEndInterrupted(S) PROVE TypeOK'
  <2>1. playing' \subseteq present /\ owed' \subseteq Sid /\ overpaid' \subseteq Sid
    BY <1>5, SettleTypes DEF MatchEndInterrupted
  <2> QED BY <1>5, <2>1 DEF MatchEndInterrupted, TypeOK
<1>6. ASSUME NEW q \in asked, BeginVote(q) PROVE TypeOK'
  <2>1. q[1] \in Sid /\ q[2] \in Sid BY DEF TypeOK
  <2> QED BY <1>6, <2>1 DEF BeginVote, TypeOK
<1>7. ASSUME NEW q \in asked, DropVote(q) PROVE TypeOK'
  BY <1>7 DEF DropVote, TypeOK
<1>8. ASSUME NEW s \in Sid, Enter(s) PROVE TypeOK'
  BY <1>8 DEF Enter, TypeOK
<1>9. ASSUME NEW s \in Sid, MatchStart(s) PROVE TypeOK'
  BY <1>9, EmptyStash DEF MatchStart, StashEmptied, TypeOK
<1>10. ASSUME NEW s \in Sid, MatchLeave(s) PROVE TypeOK'
  <2>1. /\ present' \subseteq Sid /\ host' \in present' \cup {None}
        /\ playing' \subseteq present' /\ owed' \subseteq Sid /\ overpaid' \subseteq Sid
    <3>1. CASE playing \ {s} # {} /\ (host = s \/ target = s)
      <4>1. s \in present /\ Removed(s) BY <1>10, <3>1 DEF MatchLeave
      <4> QED BY <4>1, RemovedTypes DEF TypeOK
    <3>2. CASE ~ (playing \ {s} # {} /\ (host = s \/ target = s))
      BY <1>10, <3>2 DEF MatchLeave, TypeOK
    <3> QED BY <3>1, <3>2
  <2>2. running' \in BOOLEAN /\ barred' \subseteq Sid BY <1>10 DEF MatchLeave, TypeOK
  <2>3. /\ voting' \in BOOLEAN /\ target' \in Sid \cup {None}
        /\ voters' \subseteq Sid /\ kickers' \subseteq Sid
    BY <1>10 DEF MatchLeave, TypeOK
  <2> QED BY <1>10, <2>1, <2>2, <2>3 DEF MatchLeave, TypeOK
<1>11. ASSUME NEW s \in Sid, RoundEnd(s) PROVE TypeOK'
  BY <1>11 DEF RoundEnd, TypeOK
<1>12. ASSUME NEW s \in Sid, RoundStart(s) PROVE TypeOK'
  BY <1>12 DEF RoundStart, TypeOK
<1>13. ASSUME NEW s \in Sid, Agree(s) PROVE TypeOK'
  BY <1>13 DEF Agree, TypeOK
<1>14. ASSUME NEW s \in Sid, Verify(s) PROVE TypeOK'
  <2>1. CASE Carried /\ TargetInRoom
    <3>1. target \in present /\ Removed(target) BY <1>14, <2>1 DEF Verify, TargetInRoom
    <3>2. /\ present' \subseteq Sid /\ host' \in present' \cup {None}
          /\ playing' \subseteq present' /\ owed' \subseteq Sid /\ overpaid' \subseteq Sid
      BY <3>1, RemovedTypes DEF TypeOK
    <3>3. CASE present = {target}
      <4>1. Deleted BY <1>14, <2>1, <3>3 DEF Verify
      <4> QED BY <3>2, <4>1, DeletedTypes DEF TypeOK
    <3>4. CASE present # {target}
      <4>1. VoteClosed /\ barred' = barred \cup {target}
            /\ UNCHANGED <<running, stash, fight, ending, asked>>
        BY <1>14, <2>1, <3>4 DEF Verify
      <4>2. barred' \subseteq Sid BY <3>1, <4>1 DEF TypeOK
      <4> QED BY <3>2, <4>1, <4>2 DEF VoteClosed, TypeOK
    <3> QED BY <3>3, <3>4
  <2>2. CASE ~ (Carried /\ TargetInRoom)
    <3>1. /\ VoteClosed /\ UNCHANGED <<present, host, match, stash, fight, ending, asked>>
          /\ barred' = IF Carried THEN barred \cup {target} ELSE barred
      BY <1>14, <2>2 DEF Verify
    <3>2. barred' \subseteq Sid
      <4>1. target \in Sid BY <1>14 DEF Verify, VoteHasTarget, TypeOK
      <4> QED BY <3>1, <4>1 DEF TypeOK
    <3> QED BY <3>1, <3>2 DEF VoteClosed, TypeOK
  <2> QED BY <2>1, <2>2
<1>15. ASSUME NEW s \in Sid, NEW how, Exit(s, how) PROVE TypeOK'
  <2>1. /\ present' \subseteq Sid /\ host' \in present' \cup {None}
        /\ playing' \subseteq present' /\ owed' \subseteq Sid /\ overpaid' \subseteq Sid
    BY <1>15, RemovedTypes DEF Exit, TypeOK
  <2>2. CASE present = {s}
    BY <1>15, <2>1, <2>2, DeletedTypes DEF Exit, TypeOK
  <2>3. CASE present # {s}
    BY <1>15, <2>1, <2>3 DEF Exit, TypeOK
  <2> QED BY <2>2, <2>3
<1>16. ASSUME NEW s \in Sid, NEW t \in Sid, AskVote(s, t) PROVE TypeOK'
  BY <1>16 DEF AskVote, TypeOK
<1>17. ASSUME NEW s \in Sid, NEW v \in Sid, NEW kill \in BOOLEAN, Hit(s, v, kill) PROVE TypeOK'
  <2>1. kills' \in [Sid -> Nat] /\ killed' \in [Sid -> Nat]
    <3>1. CASE kill
      <4>1. /\ kills' = [kills EXCEPT ![s] = @ + 1]
            /\ killed' = [killed EXCEPT ![s] = @ + 1]
        BY <1>17, <3>1 DEF Hit
      <4> QED BY <4>1 DEF TypeOK
    <3>2. CASE ~ kill BY <1>17, <3>2 DEF Hit, TypeOK
    <3> QED BY <3>1, <3>2
  <2> QED BY <1>17, <2>1 DEF Hit, TypeOK
<1> QED BY <1>1, <1>2, <1>3, <1>4, <1>5, <1>6, <1>7, <1>8, <1>9, <1>10, <1>11, <1>12, <1>13,
           <1>14, <1>15, <1>16, <1>17 DEF Next, Step

-----------------------------------------------------------------------------
\* A vote that runs has a target and voices: the type of the barred players
\* rests on it, as a vote that carries bars its target without looking.

LEMMA VoteStep ==
    ASSUME TypeOK, VoteHasTarget, [Next]_vars
    PROVE  VoteHasTarget'
<1>1. CASE UNCHANGED vars BY <1>1 DEF vars, VoteHasTarget
<1>2. CASE RoundEndCount BY <1>2 DEF RoundEndCount, VoteHasTarget
<1>3. CASE GraceEnds BY <1>3 DEF GraceEnds, VoteHasTarget
<1>4. ASSUME NEW S \in SUBSET playing, MatchEnd(S) PROVE VoteHasTarget'
  BY <1>4 DEF MatchEnd, VoteHasTarget
<1>5. ASSUME NEW S \in SUBSET playing, MatchEndInterrupted(S) PROVE VoteHasTarget'
  BY <1>5 DEF MatchEndInterrupted, VoteHasTarget
<1>6. ASSUME NEW q \in asked, BeginVote(q) PROVE VoteHasTarget'
  <2>1. q[2] # None BY ConstantsAssumption DEF TypeOK
  <2> QED BY <1>6, <2>1 DEF BeginVote, VoteHasTarget
<1>7. ASSUME NEW q \in asked, DropVote(q) PROVE VoteHasTarget'
  BY <1>7 DEF DropVote, VoteHasTarget
<1>8. ASSUME NEW s \in Sid, MatchLeave(s) PROVE VoteHasTarget'
  BY <1>8 DEF MatchLeave, VoteHasTarget
<1>9. ASSUME NEW s \in Sid, Enter(s) \/ MatchStart(s) \/ RoundEnd(s) \/ RoundStart(s) \/ Agree(s)
      PROVE  VoteHasTarget'
  BY <1>9 DEF Enter, MatchStart, RoundEnd, RoundStart, Agree, VoteHasTarget
<1>10. ASSUME NEW s \in Sid, Verify(s) PROVE VoteHasTarget'
  BY <1>10 DEF Verify, VoteClosed, Deleted, VoteHasTarget
<1>11. ASSUME NEW s \in Sid, NEW how, Exit(s, how) PROVE VoteHasTarget'
  BY <1>11 DEF Exit, Deleted, VoteHasTarget
<1>12. ASSUME NEW s \in Sid, NEW t \in Sid, AskVote(s, t) PROVE VoteHasTarget'
  BY <1>12 DEF AskVote, VoteHasTarget
<1>13. ASSUME NEW s \in Sid, NEW v \in Sid, NEW kill \in BOOLEAN, Hit(s, v, kill) PROVE VoteHasTarget'
  BY <1>13 DEF Hit, VoteHasTarget
<1> QED BY <1>1, <1>2, <1>3, <1>4, <1>5, <1>6, <1>7, <1>8, <1>9, <1>10, <1>11, <1>12, <1>13
        DEF Next, Step

LEMMA Invariants == Spec => [](TypeOK /\ VoteHasTarget)
<1>1. Init => VoteHasTarget BY DEF Init, VoteHasTarget
<1>2. TypeOK /\ VoteHasTarget /\ [Next]_vars => (TypeOK /\ VoteHasTarget)' BY TypeStep, VoteStep
<1> QED BY TypeInit, <1>1, <1>2, PTL DEF Spec

\* Type correctness: whoever plays is in the room, whatever handlers, tasks and
\* reports of Cast do in whatever order, and the host is in the room.
THEOREM TypeCorrect == Spec => []TypeOK
BY Invariants, PTL

\* A vote that runs has a target and at least the voice of the player who
\* began it, wherever its task meets the end of a match or of another vote.
THEOREM VoteHasTargetHolds == Spec => []VoteHasTarget
BY Invariants, PTL

-----------------------------------------------------------------------------
\* Rewards: only players who owe a match are still in it.

PlayersOwe == playing \subseteq owed /\ overpaid = {}

LEMMA OweStep ==
    ASSUME TypeOK, PlayersOwe, [Next]_vars
    PROVE  PlayersOwe'
<1>1. CASE UNCHANGED vars BY <1>1 DEF vars, PlayersOwe
<1>2. CASE RoundEndCount BY <1>2 DEF RoundEndCount, PlayersOwe
<1>3. CASE GraceEnds BY <1>3 DEF GraceEnds, PlayersOwe
<1>4. ASSUME NEW S \in SUBSET playing, MatchEnd(S) \/ MatchEndInterrupted(S) PROVE PlayersOwe'
  BY <1>4 DEF MatchEnd, MatchEndInterrupted, Settle, EndedFor, PlayersOwe
<1>5. ASSUME NEW q \in asked, BeginVote(q) \/ DropVote(q) PROVE PlayersOwe'
  BY <1>5 DEF BeginVote, DropVote, PlayersOwe
<1>6. ASSUME NEW s \in Sid, Removed(s) PROVE PlayersOwe'
  BY <1>6 DEF Removed, PlayingWithout, PlayersOwe
<1>7. ASSUME NEW s \in Sid, MatchLeave(s) PROVE PlayersOwe'
  BY <1>6, <1>7 DEF MatchLeave, PlayersOwe
<1>8. ASSUME NEW s \in Sid, Enter(s) \/ RoundEnd(s) \/ RoundStart(s) \/ Agree(s) PROVE PlayersOwe'
  BY <1>8 DEF Enter, RoundEnd, RoundStart, Agree, PlayersOwe
<1>9. ASSUME NEW s \in Sid, MatchStart(s) PROVE PlayersOwe'
  BY <1>9 DEF MatchStart, PlayersOwe
<1>10. ASSUME NEW s \in Sid, Verify(s) PROVE PlayersOwe'
  <2>1. target \in present => target \in Sid BY DEF TypeOK
  <2> QED BY <1>6, <1>10, <2>1 DEF Verify, TargetInRoom, PlayersOwe
<1>11. ASSUME NEW s \in Sid, NEW how, Exit(s, how) PROVE PlayersOwe'
  BY <1>6, <1>11 DEF Exit
<1>12. ASSUME NEW s \in Sid, NEW t \in Sid, AskVote(s, t) PROVE PlayersOwe'
  BY <1>12 DEF AskVote, PlayersOwe
<1>13. ASSUME NEW s \in Sid, NEW v \in Sid, NEW kill \in BOOLEAN, Hit(s, v, kill) PROVE PlayersOwe'
  BY <1>13 DEF Hit, PlayersOwe
<1> QED BY <1>1, <1>2, <1>3, <1>4, <1>5, <1>7, <1>8, <1>9, <1>10, <1>11, <1>12, <1>13 DEF Next, Step

\* Nobody is rewarded twice for entering a match once, although a match that
\* was ended can be made to run again and be ended again.
THEOREM NobodyOverpaidHolds == Spec => []NobodyOverpaid
<1>1. Init => PlayersOwe BY DEF Init, PlayersOwe
<1>2. TypeOK /\ PlayersOwe /\ [Next]_vars => PlayersOwe' BY OweStep
<1>3. PlayersOwe => NobodyOverpaid BY DEF PlayersOwe, NobodyOverpaid
<1> QED BY TypeCorrect, <1>1, <1>2, <1>3, PTL DEF Spec

-----------------------------------------------------------------------------
\* The timeline and the statistics, which one operator empties together.

LEMMA TimelineStep ==
    ASSUME TypeOK, RoundsNumbered /\ StatsMatchLog, [Next]_vars
    PROVE  (RoundsNumbered /\ StatsMatchLog)'
<1> USE DEF RoundsNumbered, StatsMatchLog
<1>0. ASSUME ended' = <<>>, kills' = killed' PROVE (RoundsNumbered /\ StatsMatchLog)'
  BY <1>0
<1>1. ASSUME UNCHANGED stash PROVE (RoundsNumbered /\ StatsMatchLog)'
  BY <1>1
<1>2. CASE UNCHANGED vars BY <1>1, <1>2 DEF vars
<1>3. CASE RoundEndCount
  <2>1. CASE present = {} BY <1>1, <1>3, <2>1 DEF RoundEndCount
  <2>2. CASE present # {}
    <3>1. /\ rounds' = rounds + 1 /\ ended' = Append(ended, rounds + 1)
          /\ UNCHANGED <<kills, killed>>
      BY <1>3, <2>2 DEF RoundEndCount
    <3>2. rounds \in Nat /\ ended \in Seq(Nat) BY DEF TypeOK
    <3>3. /\ Len(ended') = Len(ended) + 1 /\ ended'[Len(ended) + 1] = rounds + 1
          /\ \A i \in 1 .. Len(ended) : ended'[i] = ended[i]
      BY <3>1, <3>2, AppendProperties
    <3>4. Len(ended) \in Nat BY <3>2, LenProperties
    <3>5. \A i \in 1 .. Len(ended') : ended'[i] \in 1 .. rounds'
      <4> SUFFICES ASSUME NEW i \in 1 .. Len(ended') PROVE ended'[i] \in 1 .. rounds'
        OBVIOUS
      <4>1. CASE i = Len(ended) + 1 BY <3>1, <3>2, <3>3, <4>1
      <4>2. CASE i \in 1 .. Len(ended)
        <5>1. ended[i] \in 1 .. rounds /\ ended'[i] = ended[i] BY <3>3, <4>2
        <5> QED BY <3>1, <3>2, <5>1
      <4> QED BY <3>3, <3>4, <4>1, <4>2
    <3>6. ASSUME NEW i \in 1 .. Len(ended'), NEW j \in 1 .. Len(ended'), i < j
          PROVE  ended'[i] < ended'[j]
      <4>1. i \in 1 .. Len(ended) /\ ended'[i] = ended[i] /\ ended[i] \in 1 .. rounds
        BY <3>3, <3>4, <3>6
      <4>2. CASE j = Len(ended) + 1 BY <3>2, <3>3, <4>1, <4>2
      <4>3. CASE j \in 1 .. Len(ended) BY <3>3, <3>6, <4>1, <4>3
      <4> QED BY <3>3, <3>4, <4>2, <4>3
    <3> QED BY <3>1, <3>5, <3>6
  <2> QED BY <2>1, <2>2
<1>4. CASE GraceEnds BY <1>1, <1>4 DEF GraceEnds
<1>5. ASSUME NEW S \in SUBSET playing, MatchEnd(S) PROVE (RoundsNumbered /\ StatsMatchLog)'
  BY <1>0, <1>5 DEF MatchEnd
<1>6. ASSUME NEW S \in SUBSET playing, MatchEndInterrupted(S)
      PROVE  (RoundsNumbered /\ StatsMatchLog)'
  BY <1>1, <1>6 DEF MatchEndInterrupted
<1>7. ASSUME NEW q \in asked, BeginVote(q) \/ DropVote(q) PROVE (RoundsNumbered /\ StatsMatchLog)'
  BY <1>1, <1>7 DEF BeginVote, DropVote
<1>8. ASSUME NEW s \in Sid, MatchStart(s) PROVE (RoundsNumbered /\ StatsMatchLog)'
  BY <1>0, <1>8 DEF MatchStart, StashEmptied
<1>9. ASSUME NEW s \in Sid,
             Enter(s) \/ RoundEnd(s) \/ RoundStart(s) \/ Agree(s) \/ MatchLeave(s)
      PROVE  (RoundsNumbered /\ StatsMatchLog)'
  BY <1>1, <1>9 DEF Enter, RoundEnd, RoundStart, Agree, MatchLeave
<1>10. ASSUME NEW s \in Sid, Verify(s) PROVE (RoundsNumbered /\ StatsMatchLog)'
  BY <1>0, <1>1, <1>10 DEF Verify, Deleted
<1>11. ASSUME NEW s \in Sid, NEW how, Exit(s, how) PROVE (RoundsNumbered /\ StatsMatchLog)'
  BY <1>0, <1>1, <1>11 DEF Exit, Deleted
<1>12. ASSUME NEW s \in Sid, NEW t \in Sid, AskVote(s, t) PROVE (RoundsNumbered /\ StatsMatchLog)'
  BY <1>1, <1>12 DEF AskVote
<1>13. ASSUME NEW s \in Sid, NEW v \in Sid, NEW kill \in BOOLEAN, Hit(s, v, kill)
       PROVE (RoundsNumbered /\ StatsMatchLog)'
  BY <1>13 DEF Hit
<1> QED BY <1>2, <1>3, <1>4, <1>5, <1>6, <1>7, <1>8, <1>9, <1>10, <1>11, <1>12, <1>13
        DEF Next, Step

LEMMA Timeline == Spec => [](RoundsNumbered /\ StatsMatchLog)
<1>1. Init => RoundsNumbered /\ StatsMatchLog BY DEF Init, RoundsNumbered, StatsMatchLog
<1>2. TypeOK /\ (RoundsNumbered /\ StatsMatchLog) /\ [Next]_vars
      => (RoundsNumbered /\ StatsMatchLog)'
  BY TimelineStep
<1> QED BY TypeCorrect, <1>1, <1>2, PTL DEF Spec

\* The rounds of a match's timeline are numbered upwards without a repetition.
THEOREM RoundsNumberedHolds == Spec => []RoundsNumbered
BY Timeline, PTL

\* The statistics of a match are those of its log of hits.
THEOREM StatsMatchLogHolds == Spec => []StatsMatchLog
BY Timeline, PTL

-----------------------------------------------------------------------------
\* Whoever is newly barred leaves the room in the same step, unless nobody is
\* left in the match.
THEOREM VotedOutIsOutHolds == Spec => VotedOutIsOut
<1>1. ASSUME TypeOK, [Next]_vars, NEW p \in barred' \ barred, p \in present'
      PROVE  playing' = {}
  <2>1. ASSUME barred' \subseteq barred \/ barred' = {} PROVE FALSE
    BY <1>1, <2>1
  <2>2. ASSUME NEW s, Removed(s), barred' = barred \cup {s} PROVE FALSE
    BY <1>1, <2>2 DEF Removed
  <2>3. CASE UNCHANGED vars BY <2>1, <2>3 DEF vars
  <2>4. CASE RoundEndCount BY <2>1, <2>4 DEF RoundEndCount
  <2>5. CASE GraceEnds BY <2>1, <2>5 DEF GraceEnds
  <2>6. ASSUME NEW S \in SUBSET playing, MatchEnd(S) \/ MatchEndInterrupted(S) PROVE FALSE
    BY <2>1, <2>6 DEF MatchEnd, MatchEndInterrupted
  <2>7. ASSUME NEW q \in asked, BeginVote(q) \/ DropVote(q) PROVE FALSE
    BY <2>1, <2>7 DEF BeginVote, DropVote
  <2>8. ASSUME NEW s \in Sid,
               Enter(s) \/ MatchStart(s) \/ RoundEnd(s) \/ RoundStart(s) \/ Agree(s)
        PROVE  FALSE
    BY <2>1, <2>8 DEF Enter, MatchStart, RoundEnd, RoundStart, Agree
  <2>9. ASSUME NEW s \in Sid, MatchLeave(s) PROVE playing' = {}
    <3>1. CASE target # s BY <2>1, <2>9, <3>1 DEF MatchLeave
    <3>2. CASE target = s /\ playing \ {s} # {}
      <4>1. Removed(s) /\ barred' = barred \cup {s} BY <2>9, <3>2 DEF MatchLeave
      <4> QED BY <2>2, <4>1
    <3>3. CASE target = s /\ playing \ {s} = {} BY <2>9, <3>3 DEF MatchLeave
    <3> QED BY <3>1, <3>2, <3>3
  <2>10. ASSUME NEW s \in Sid, Verify(s) PROVE FALSE
    <3>1. CASE Carried /\ TargetInRoom
      <4>1. Removed(target) BY <2>10, <3>1 DEF Verify
      <4>2. CASE present = {target} BY <2>1, <2>10, <3>1, <4>2 DEF Verify, Deleted
      <4>3. CASE present # {target}
        <5>1. barred' = barred \cup {target} BY <2>10, <3>1, <4>3 DEF Verify
        <5> QED BY <2>2, <4>1, <5>1
      <4> QED BY <4>2, <4>3
    <3>2. CASE Carried /\ ~ TargetInRoom
      <4>1. barred' = barred \cup {target} /\ present' = present BY <2>10, <3>2 DEF Verify
      <4>2. p = target BY <1>1, <4>1
      <4> QED BY <1>1, <3>2, <4>1, <4>2 DEF TargetInRoom
    <3>3. CASE ~ Carried BY <2>1, <2>10, <3>3 DEF Verify
    <3> QED BY <3>1, <3>2, <3>3
  <2>11. ASSUME NEW s \in Sid, NEW how, Exit(s, how) PROVE FALSE
    <3>1. Removed(s) BY <2>11 DEF Exit
    <3>2. CASE present = {s} BY <2>1, <2>11, <3>2 DEF Exit, Deleted
    <3>3. CASE present # {s}
      <4>1. barred' = barred \cup {s} \/ barred' = barred BY <2>11, <3>3 DEF Exit
      <4> QED BY <2>1, <2>2, <3>1, <4>1
    <3> QED BY <3>2, <3>3
  <2>12. ASSUME NEW s \in Sid, NEW t \in Sid, AskVote(s, t) PROVE FALSE
    BY <2>1, <2>12 DEF AskVote
  <2>13. ASSUME NEW s \in Sid, NEW v \in Sid, NEW kill \in BOOLEAN, Hit(s, v, kill) PROVE FALSE
    BY <2>1, <2>13 DEF Hit
  <2> QED BY <1>1, <2>3, <2>4, <2>5, <2>6, <2>7, <2>8, <2>9, <2>10, <2>11, <2>12, <2>13
          DEF Next, Step
<1>2. TypeOK /\ [Next]_vars
      => [\A s \in barred' \ barred : s \in present' => playing' = {}]_vars
  BY <1>1
<1> QED BY TypeCorrect, <1>2, PTL DEF Spec, VotedOutIsOut
=============================================================================
