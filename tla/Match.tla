------------------------------- MODULE Match -------------------------------
(***************************************************************************)
(* One room's matches on the Main server: what the room keeps about a      *)
(* match (CRoom: is_playing, match_combat_stats, combat_events,            *)
(* match_events, round_seq, combat_open, the kick vote) under the packets  *)
(* of the clients, the combat reports of Cast and the tasks of the         *)
(* database, which all arrive in any order.                                *)
(*                                                                         *)
(* Every handler holds the room's element lock while it changes the room,  *)
(* so each is one step; MatchRoundsEnd lets the lock go between looking at *)
(* the host and counting the round (RoundEnd, RoundEndCount), and a kick   *)
(* vote is checked on the strand and begun by a task (AskVote, BeginVote). *)
(*                                                                         *)
(* Abstractions: a player is its session id; who is in the room changes    *)
(* freely here (RoomMembership models how); observers, who take part in    *)
(* nothing below, are left out; of a hit only matters whether it kills, of *)
(* the timeline only the ends of rounds, of the clock only whether the     *)
(* grace after the end of a round has passed.  The mode is round-based.    *)
(***************************************************************************)
EXTENDS Integers, Sequences, FiniteSets, FiniteSetsExt

CONSTANTS
    Sid,            \* session ids of players
    None,           \* no session
    MaxKills,       \* kills in the stash
    MaxRounds,      \* ends of rounds in one match
    MaxAsked        \* votes whose task is to run

ASSUME ConstantsAssumption ==
    /\ IsFiniteSet(Sid) /\ None \notin Sid
    /\ MaxKills \in Nat /\ MaxRounds \in Nat /\ MaxAsked \in Nat

VARIABLES
    present,    \* the sessions seated in the room
    host,       \* host_session_id
    running,    \* is_playing
    playing,    \* the sessions whose account is playing
    owed,       \* history: the sessions that started and neither left nor had their match ended
    overpaid,   \* history: the sessions that had a match ended for them that they did not owe
    fight,      \* combat_open, or whether kCombatCloseGraceMs have passed since it closed
    kills,      \* match_combat_stats: Sid -> packet_kills
    killed,     \* combat_events: Sid -> the kills in the stash
    rounds,     \* round_seq
    ended,      \* match_events: the numbers of the ended rounds in the stash
    ending,     \* a MatchRoundsEnd is between its two looks at the room
    target,     \* vote_kick_target_session_id
    voting,     \* is_kick_vote_running
    voters,     \* voters
    kickers,    \* voteKickers
    barred,     \* kicked
    asked       \* checked kick votes, <<starter, target>>, whose task is to run

match == <<running, playing, owed, overpaid>>
stash == <<kills, killed, rounds, ended>>
vote  == <<target, voting, voters, kickers>>
vars  == <<present, host, match, stash, fight, ending, vote, barred, asked>>

NoKills == [s \in Sid |-> 0]

TypeOK ==
    /\ present \subseteq Sid /\ host \in present \cup {None}
    /\ running \in BOOLEAN /\ fight \in {"open", "grace", "closed"}
    /\ ending \in BOOLEAN /\ voting \in BOOLEAN
    /\ playing \subseteq present /\ owed \subseteq Sid /\ overpaid \subseteq Sid
    /\ kills \in [Sid -> Nat] /\ killed \in [Sid -> Nat]
    /\ rounds \in Nat /\ ended \in Seq(Nat)
    /\ target \in Sid \cup {None}
    /\ voters \subseteq Sid /\ kickers \subseteq Sid /\ barred \subseteq Sid
    /\ asked \subseteq Sid \X Sid

Init ==
    /\ present = {} /\ host = None
    /\ running = FALSE /\ playing = {} /\ owed = {} /\ overpaid = {}
    /\ fight = "open"
    /\ kills = NoKills /\ killed = NoKills /\ rounds = 0 /\ ended = <<>>
    /\ ending = FALSE
    /\ target = None /\ voting = FALSE /\ voters = {} /\ kickers = {}
    /\ barred = {} /\ asked = {}

-----------------------------------------------------------------------------
\* Who is in the room.

Enter(s) ==
    /\ s \notin present /\ s \notin barred
    /\ present' = present \cup {s}
    /\ host' = IF host = None THEN s ELSE host
    /\ UNCHANGED <<match, stash, fight, ending, vote, barred, asked>>

\* The room is deleted with its last player.  The next room starts from
\* nothing; it may have the id that what is under way still names, or not.
Deleted ==
    /\ \/ UNCHANGED <<ending, asked>>
       \/ ending' = FALSE /\ asked' = {}
    /\ running' = FALSE
    /\ kills' = NoKills /\ killed' = NoKills /\ rounds' = 0 /\ ended' = <<>>
    /\ fight' = "open"
    /\ target' = None /\ voting' = FALSE /\ voters' = {} /\ kickers' = {}
    /\ barred' = {}

PlayingWithout(s) == playing \ {s}

\* NewRemoveRoomPlayer.
Removed(s) ==
    /\ present' = present \ {s} /\ playing' = PlayingWithout(s)
    /\ owed' = owed \ {s} /\ UNCHANGED overpaid
    /\ IF host # s THEN UNCHANGED host
       ELSE IF present = {s} THEN host' = None
       ELSE host' \in IF playing \ {s} # {} THEN playing \ {s} ELSE present \ {s}

\* A player leaves, is thrown out by the host or a game master, or loses its
\* connection, which the target of a vote must not do.
Exit(s, how) ==
    /\ s \in present
    /\ Removed(s)
    /\ IF present = {s} THEN Deleted
       ELSE /\ barred' = IF how = "thrown out" \/ (how = "dropped" /\ target = s)
                         THEN barred \cup {s} ELSE barred
            /\ UNCHANGED <<running, stash, fight, ending, vote, asked>>

-----------------------------------------------------------------------------
\* The life of a match.

\* Defects: the timeline is kept over the start of the next match, and so are
\* the statistics, but not the log of the hits.
StashEmptiedExceptTimeline ==
    kills' = NoKills /\ killed' = NoKills /\ rounds' = 0 /\ ended' = ended
StashEmptiedExceptStats ==
    kills' = kills /\ killed' = NoKills /\ rounds' = 0 /\ ended' = <<>>

StashEmptied ==
    kills' = NoKills /\ killed' = NoKills /\ rounds' = 0 /\ ended' = <<>>

\* Result Started: every client sends it as it enters, also into a match that
\* runs, whose statistics so far are dropped.
MatchStart(s) ==
    /\ s \in present
    /\ running' = TRUE /\ playing' = playing \cup {s} /\ owed' = owed \cup {s}
    /\ StashEmptied
    /\ fight' = "open"
    /\ UNCHANGED <<present, host, overpaid, ending, vote, barred, asked>>

\* MatchLeave; the target of the vote is barred, and it and the host leave the
\* room as well when others are in the match.
MatchLeave(s) ==
    /\ s \in present
    /\ LET busy   == playing \ {s}
           marked == target = s
           goes   == busy # {} /\ (host = s \/ marked)
       IN  /\ IF goes THEN Removed(s)
              ELSE playing' = busy /\ owed' = owed \ {s} /\ UNCHANGED <<present, host, overpaid>>
           /\ running' = (running /\ busy # {})
           /\ barred' = IF marked THEN barred \cup {s} ELSE barred
           /\ IF marked
              THEN target' = None /\ voting' = FALSE /\ voters' = {} /\ UNCHANGED kickers
              ELSE UNCHANGED vote
    /\ UNCHANGED <<stash, fight, ending, asked>>

\* Defect: a rewarded player is still in the match.
EndedForNobody(S) == playing

\* The players that stop playing when the rewards for S are made up.
EndedFor(S) == playing \ S

\* The match is ended for S, with the rewards and the record that go with it.
Settle(S) ==
    /\ playing' = EndedFor(S)
    /\ overpaid' = overpaid \cup (S \ owed)
    /\ owed' = owed \ S

\* MatchEnd (MpGameModes), from any member: for those of the players S on the
\* client's scoreboard, which need not list everybody.
MatchEnd(S) ==
    /\ present # {} /\ running
    /\ Settle(S)
    /\ running' = FALSE
    /\ kills' = NoKills /\ killed' = NoKills /\ ended' = <<>> /\ UNCHANGED rounds
    /\ voting' = FALSE /\ voters' = {} /\ kickers' = {} /\ barred' = {}
    /\ UNCHANGED <<present, host, fight, ending, target, asked>>

\* The item for the level that somebody reaches cannot be made: the handler
\* returns from the loop, with the match as it was but for the players S before.
MatchEndInterrupted(S) ==
    /\ running /\ S # playing
    /\ Settle(S)
    /\ UNCHANGED <<present, host, running, stash, fight, ending, vote, barred, asked>>

-----------------------------------------------------------------------------
\* Rounds and hits.

\* MatchRoundsEnd of the host; the room is let go of before it is changed.
RoundEnd(s) ==
    /\ s = host /\ s \in present /\ ~ending
    /\ ending' = TRUE
    /\ UNCHANGED <<present, host, match, stash, fight, vote, barred, asked>>

RoundEndCount ==
    /\ ending /\ ending' = FALSE
    /\ IF present = {} THEN UNCHANGED <<rounds, ended, fight>>
       ELSE /\ rounds < MaxRounds
            /\ rounds' = rounds + 1 /\ ended' = Append(ended, rounds + 1)
            /\ fight' = "grace"
    /\ UNCHANGED <<present, host, match, kills, killed, vote, barred, asked>>

GraceEnds ==
    /\ fight = "grace" /\ fight' = "closed"
    /\ UNCHANGED <<present, host, match, stash, ending, vote, barred, asked>>

RoundStart(s) ==
    /\ s = host /\ s \in present /\ running
    /\ fight' = "open"
    /\ UNCHANGED <<present, host, match, stash, ending, vote, barred, asked>>

\* The kills in the stash.
Logged == MapThenSumSet(LAMBDA q : killed[q], Sid)

\* A combat report of Cast.  Between rounds only the kill that decided the last
\* one counts.  A report about players who still play makes a match that was
\* marked as over run again.
Hit(s, v, kill) ==
    /\ s # v /\ {s, v} \subseteq present
    /\ fight = "open" \/ (kill /\ fight = "grace")
    /\ running \/ {s, v} \cap playing # {}
    /\ running' = TRUE
    /\ IF kill
       THEN /\ Logged < MaxKills
            /\ kills' = [kills EXCEPT ![s] = @ + 1]
            /\ killed' = [killed EXCEPT ![s] = @ + 1]
       ELSE UNCHANGED <<kills, killed>>
    /\ UNCHANGED <<present, host, playing, owed, overpaid, rounds, ended, fight, ending, vote,
                   barred, asked>>

-----------------------------------------------------------------------------
\* The kick vote.

\* VotekickStart on the strand: what the task relies on is checked here.  It
\* is not asked whether a vote runs.
AskVote(s, t) ==
    /\ s \in present /\ running /\ s \notin kickers
    /\ t # s /\ t \in playing
    /\ Cardinality(asked) < MaxAsked
    /\ asked' = asked \cup {<<s, t>>}
    /\ UNCHANGED <<present, host, match, stash, fight, ending, vote, barred>>

\* Its task, once the charge for the vote is in the database: nothing is
\* checked again, not even that a match runs.
BeginVote(q) ==
    /\ q \in asked /\ asked' = asked \ {q}
    /\ IF present = {} THEN UNCHANGED vote
       ELSE /\ voting' = TRUE /\ target' = q[2]
            /\ voters' = voters \cup {q[1]} /\ kickers' = kickers \cup {q[1]}
    /\ UNCHANGED <<present, host, match, stash, fight, ending, barred>>

\* The task could not charge the account.
DropVote(q) ==
    /\ q \in asked /\ asked' = asked \ {q}
    /\ UNCHANGED <<present, host, match, stash, fight, ending, vote, barred>>

\* VotekickAgree: also of players that only sit in the room, and also when no
\* vote runs.
Agree(s) ==
    /\ s \in present /\ running /\ s \notin voters
    /\ voters' = voters \cup {s}
    /\ UNCHANGED <<present, host, match, stash, fight, ending, target, voting, kickers, barred,
                   asked>>

\* 2^64, the range of the difference of two sizes: large enough here.
Word == 1000

\* Everybody in the match who has not voted, and one more.
Against == (Cardinality(playing) - Cardinality(voters) + 1) % Word

Carried == Cardinality(voters) > Against \/ target \notin playing

\* Defect: only a target in the match is looked for.
TargetInMatch == target \in playing

VoteClosed == voting' = FALSE /\ target' = None /\ voters' = {} /\ UNCHANGED kickers

TargetInRoom == target \in present

\* VotekickVerify, from any member.
Verify(s) ==
    /\ s \in present /\ running /\ voting
    /\ IF Carried /\ TargetInRoom
       THEN /\ Removed(target)
            /\ IF present = {target} THEN Deleted
               ELSE /\ VoteClosed /\ barred' = barred \cup {target}
                    /\ UNCHANGED <<running, stash, fight, ending, asked>>
       ELSE /\ barred' = IF Carried THEN barred \cup {target} ELSE barred
            /\ VoteClosed
            /\ UNCHANGED <<present, host, match, stash, fight, ending, asked>>

-----------------------------------------------------------------------------
Step(s) ==
    \/ Enter(s) \/ MatchStart(s) \/ MatchLeave(s) \/ RoundEnd(s) \/ RoundStart(s)
    \/ Agree(s) \/ Verify(s)
    \/ \E how \in {"left", "thrown out", "dropped"} : Exit(s, how)
    \/ \E v \in Sid : \/ AskVote(s, v)
                     \/ \E kill \in BOOLEAN : Hit(s, v, kill)

Next ==
    \/ RoundEndCount \/ GraceEnds
    \/ \E S \in SUBSET playing : MatchEnd(S) \/ MatchEndInterrupted(S)
    \/ \E q \in asked : BeginVote(q) \/ DropVote(q)
    \/ \E s \in Sid : Step(s)

Spec == Init /\ [][Next]_vars
-----------------------------------------------------------------------------
\* Nobody is rewarded twice for entering a match once: not when a late report
\* of a hit makes the match run again after its end and it is ended again, not
\* when the end was broken off by an item that could not be made, and not by
\* leaving the room and coming back.
NobodyOverpaid == overpaid = {}

\* The statistics from which a player's streak is taken and which its own
\* report is held against are those of the log of hits: kills are counted and
\* dropped in both or in neither.
StatsMatchLog == kills = killed

\* The rounds of a match's timeline are numbered upwards without a repetition,
\* also after a match that was ended and made to run again.
RoundsNumbered ==
    /\ \A i \in 1 .. Len(ended) : ended[i] \in 1 .. rounds
    /\ \A i, j \in 1 .. Len(ended) : i < j => ended[i] < ended[j]

\* A vote that runs has a target and at least the voice of the player who
\* began it, wherever its task met the end of a match or of another vote.
VoteHasTarget == voting => target # None /\ voters # {} /\ kickers # {}

\* Nobody in the room is barred from it, but for those who left the match as
\* the target of a vote with nobody else in it.
VotedOutIsOut ==
    [][\A s \in barred' \ barred : s \in present' => playing' = {}]_vars
=============================================================================
