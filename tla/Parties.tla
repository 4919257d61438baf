------------------------------ MODULE Parties ------------------------------
(***************************************************************************)
(* The parties of the Main server: CParty, the party that each account     *)
(* says it is in, and the generator of their ids, under the handlers of    *)
(* Party/ and the end of a session.                                        *)
(*                                                                         *)
(* A handler holds the locks of its account and of the party while it      *)
(* changes them, so it is one step; a party that has lost its last member  *)
(* is let go of before it is erased and its id is given back after that,   *)
(* so that these are steps of their own, with other handlers between.      *)
(*                                                                         *)
(* Neither Create nor Join asks whether the player is in a party, and a    *)
(* kick leaves the player in the list of the members, so that a list may   *)
(* name players that are elsewhere, or gone.  Looking at the account of    *)
(* such a player throws where the handler then releases its lock           *)
(* (CLocker), and so does looking at one's own account a second time.      *)
(*                                                                         *)
(* Abstractions: names, clans, maps, passwords; registering for a battle   *)
(* and the room that two parties are put into.                             *)
(***************************************************************************)
EXTENDS Naturals, Sequences, SequencesExt, FiniteSets, Lists

CONSTANTS
    Sid,        \* session ids of players
    Party,      \* ids of parties
    None,       \* no player, no party
    MaxMembers  \* the largest max_members

VARIABLES
    online,     \* the sessions with an account in CAccount
    partyOf,    \* party_id of their accounts (None when not in_party)
    alive,      \* the keys of CParty
    members,    \* Party -> members
    leader,     \* Party -> party_host_session_id
    barred,     \* Party -> kicked_members
    limit,      \* Party -> max_members
    emptied,    \* parties without members that are about to be erased
    erased,     \* erased ones whose id is about to be given back
    free        \* ids that the generator may return

parties == <<alive, members, leader, barred, limit>>
vars    == <<online, partyOf, parties, emptied, erased, free>>

TypeOK ==
    /\ online \subseteq Sid
    /\ partyOf \in [Sid -> Party \cup {None}]
    /\ alive \subseteq Party
    /\ members \in [Party -> Seq(Sid)]
    /\ leader \in [Party -> Sid \cup {None}]
    /\ barred \in [Party -> SUBSET Sid]
    /\ limit \in [Party -> Nat]
    /\ emptied \subseteq Party /\ erased \subseteq Party /\ free \subseteq Party

Init ==
    /\ online = {} /\ partyOf = [s \in Sid |-> None]
    /\ alive = {} /\ members = [p \in Party |-> <<>>]
    /\ leader = [p \in Party |-> None] /\ barred = [p \in Party |-> {}]
    /\ limit = [p \in Party |-> MaxMembers]
    /\ emptied = {} /\ erased = {} /\ free = Party

Listed(p) == ToSet(members[p])

-----------------------------------------------------------------------------
\* A session is given an account, which starts outside of any party.
Login(s) ==
    /\ s \notin online /\ online' = online \cup {s}
    /\ partyOf' = [partyOf EXCEPT ![s] = None]
    /\ UNCHANGED <<parties, emptied, erased, free>>

\* PartyCreate; a full pool of ids is only logged.
Create(s, p) ==
    /\ s \in online /\ p \in free
    /\ free' = free \ {p} /\ alive' = alive \cup {p}
    /\ members' = [members EXCEPT ![p] = <<s>>] /\ leader' = [leader EXCEPT ![p] = s]
    /\ barred' = [barred EXCEPT ![p] = {}] /\ limit' = [limit EXCEPT ![p] = MaxMembers]
    /\ partyOf' = [partyOf EXCEPT ![s] = p]
    /\ UNCHANGED <<online, emptied, erased>>

\* Defect: the account of the leader need not be there.
AnyLeader(p) == TRUE

\* The lock of the leader's account is released, which throws if there is none.
LeaderSeen(p) == leader[p] \in online

\* PartyJoin.
Join(s, p) ==
    /\ s \in online /\ p \in alive
    /\ s \notin barred[p] /\ s \notin Listed(p)
    /\ Len(members[p]) < limit[p]
    /\ LeaderSeen(p)
    /\ members' = [members EXCEPT ![p] = Append(@, s)]
    /\ partyOf' = [partyOf EXCEPT ![s] = p]
    /\ UNCHANGED <<online, alive, leader, barred, limit, emptied, erased, free>>

\* Defect: whoever is first in the list.
FirstMember(p, s) == Head(members[p])

\* The first of the others in the list, or nobody.
NextLeader(p, s) ==
    LET others == Without(members[p], s)
    IN  IF others = <<>> THEN None ELSE Head(others)

\* s is taken out of party p.
Removed(s, p) ==
    /\ members' = [members EXCEPT ![p] = Without(@, s)]
    /\ leader' = IF leader[p] = s THEN [leader EXCEPT ![p] = NextLeader(p, s)] ELSE leader
    /\ emptied' = IF Listed(p) \subseteq {s} THEN emptied \cup {p} ELSE emptied

\* PartyLeave, also as part of PartyClanLeave and of MatchLeave.
Leave(s) ==
    /\ s \in online /\ partyOf[s] \in alive
    /\ Removed(s, partyOf[s])
    /\ partyOf' = [partyOf EXCEPT ![s] = None]
    /\ UNCHANGED <<online, alive, barred, limit, erased, free>>

\* The task of ServerDisconnect.
Disconnect(s) ==
    /\ s \in online /\ online' = online \ {s}
    /\ IF partyOf[s] \in alive THEN Removed(s, partyOf[s]) ELSE UNCHANGED <<members, leader, emptied>>
    /\ partyOf' = [partyOf EXCEPT ![s] = None]
    /\ UNCHANGED <<alive, barred, limit, erased, free>>

\* The rest of both, once the party is let go of.
Erase(p) ==
    /\ p \in emptied /\ emptied' = emptied \ {p}
    /\ alive' = alive \ {p} /\ erased' = erased \cup {p}
    /\ barred' = [barred EXCEPT ![p] = {}] /\ limit' = [limit EXCEPT ![p] = MaxMembers]
    /\ UNCHANGED <<online, partyOf, members, leader, free>>

GiveBack(p) ==
    /\ p \in erased /\ erased' = erased \ {p} /\ free' = free \cup {p}
    /\ UNCHANGED <<online, partyOf, parties, emptied>>

\* PartyKick: the target is told, and barred, and stays in the list.
Kick(s, t) ==
    /\ {s, t} \subseteq online /\ s # t
    /\ partyOf[s] = partyOf[t] /\ partyOf[s] \in alive /\ leader[partyOf[s]] = s
    /\ barred' = [barred EXCEPT ![partyOf[s]] = @ \cup {t}]
    /\ partyOf' = [partyOf EXCEPT ![t] = None]
    /\ UNCHANGED <<online, alive, members, leader, limit, emptied, erased, free>>

\* PartyHostChange, to a place in the list.
HostChange(s, i) ==
    /\ s \in online /\ partyOf[s] \in alive /\ leader[partyOf[s]] = s
    /\ i \in 1 .. Len(members[partyOf[s]])
    /\ leader' = [leader EXCEPT ![partyOf[s]] = members[partyOf[s]][i]]
    /\ UNCHANGED <<online, partyOf, alive, members, barred, limit, emptied, erased, free>>

\* PartyPlayersRule, whatever the number of members.
PlayersRule(s, n) ==
    /\ s \in online /\ partyOf[s] \in alive /\ leader[partyOf[s]] = s
    /\ limit' = [limit EXCEPT ![partyOf[s]] = n]
    /\ UNCHANGED <<online, partyOf, alive, members, leader, barred, emptied, erased, free>>

Next ==
    \/ \E s \in Sid :
        \/ Login(s) \/ Leave(s) \/ Disconnect(s)
        \/ \E p \in Party : Create(s, p) \/ Join(s, p)
        \/ \E t \in Sid : Kick(s, t)
        \/ \E n \in 1 .. MaxMembers : HostChange(s, n) \/ PlayersRule(s, n)
    \/ \E p \in Party : Erase(p) \/ GiveBack(p)

Spec == Init /\ [][Next]_vars
-----------------------------------------------------------------------------
\* A party that has members is led by one of them, through kicks that leave the
\* list as it is, leaders that have gone to another party and lists that have
\* names of players who are gone; one without members is on its way out.
LeaderIsListed ==
    \A p \in alive : IF members[p] = <<>> THEN p \in emptied /\ leader[p] = None
                     ELSE leader[p] \in Listed(p) /\ p \notin emptied

\* The party that an account names exists and lists the player: nobody gets
\* into a party in the moment in which it is given up, and no id is given to
\* the next party while an account still names it.
OwnPartyListsMe ==
    \A s \in Sid : partyOf[s] # None => partyOf[s] \in alive \ free /\ s \in Listed(partyOf[s])
=============================================================================
