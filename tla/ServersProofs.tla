---------------------------- MODULE ServersProofs ----------------------------
(***************************************************************************)
(* Proofs about the components that MCServers runs: parties, Main's        *)
(* plazas, friends, mails, Cast's copy of the rooms and logins on Front,   *)
(* for any players, rooms and limits.  Each has an inductive invariant of  *)
(* its own, and a step of another component leaves it as it is.            *)
(***************************************************************************)
EXTENDS MCServers, MainSessionsProofs, Lists, SequenceTheorems, FiniteSetTheorems,
        WellFoundedInduction, TLAPS

\* Every set of naturals that has an element has a least one.
LEMMA LeastNatural ==
    ASSUME NEW T \in SUBSET Nat, T # {}
    PROVE  \E n \in T : \A m \in T : n <= m
<1> DEFINE Less == {p \in Nat \X Nat : p[1] < p[2]}
<1>1. IsWellFoundedOn(Less, Nat)
  BY NatLessThanWellFounded DEF OpToRel
<1>2. \A m, n \in Nat : m < n => <<m, n>> \in Less
  OBVIOUS
<1> HIDE DEF Less
<1>3. PICK n \in T : \A m \in T : <<m, n>> \notin Less
  BY <1>1, WFMin
<1>4. \A m \in T : n <= m
  <2> TAKE m \in T
  <2>1. m \in Nat /\ n \in Nat /\ ~(m < n)
    BY <1>2, <1>3
  <2> QED
    BY <2>1
<1> QED
  BY <1>4

Elements(seq) == {seq[i] : i \in DOMAIN seq}

\* The elements of a list to which one is added.
LEMMA ElementsAppend ==
    ASSUME NEW S, NEW seq \in Seq(S), NEW m \in S
    PROVE  /\ Append(seq, m) \in Seq(S)
           /\ Elements(Append(seq, m)) = Elements(seq) \cup {m}
<1> DEFINE more == Append(seq, m)
<1>1. /\ more \in Seq(S) /\ Len(more) = Len(seq) + 1 /\ more[Len(more)] = m
      /\ \A i \in 1 .. Len(seq) : more[i] = seq[i]
  BY AppendProperties
<1>2. DOMAIN more = 1 .. Len(seq) + 1 /\ DOMAIN seq = 1 .. Len(seq) /\ Len(seq) \in Nat
  BY <1>1, LenProperties
<1> HIDE DEF more
<1> QED BY <1>1, <1>2 DEF Elements, more

\* An empty list is one without elements; the head of another is one of its elements.
LEMMA ElementsNone ==
    ASSUME NEW S, NEW seq \in Seq(S)
    PROVE  /\ Elements(seq) \subseteq S
           /\ seq = <<>> <=> Elements(seq) = {}
           /\ seq # <<>> => Head(seq) \in Elements(seq)
<1>1. DOMAIN seq = 1 .. Len(seq) /\ Len(seq) \in Nat /\ \A i \in 1 .. Len(seq) : seq[i] \in S
  BY LenProperties, ElementOfSeq
<1>2. seq = <<>> <=> Len(seq) = 0
  BY EmptySeq
<1>3. Head(seq) = seq[1]
  OBVIOUS
<1>4. seq # <<>> => 1 \in DOMAIN seq
  BY <1>1, <1>2
<1>5. Elements(seq) = {seq[i] : i \in 1 .. Len(seq)}
  BY <1>1 DEF Elements
<1>6. seq # <<>> => seq[1] \in Elements(seq)
  BY <1>4 DEF Elements
<1>7. seq = <<>> => Elements(seq) = {}
  BY <1>1, <1>2, <1>5
<1> QED
  BY <1>1, <1>3, <1>5, <1>6, <1>7

\* One step of Without, from what is kept of the elements before i.
Kept(seq, s, f, i) ==
    IF i = 0 THEN <<>> ELSE IF seq[i] = s THEN f[i - 1] ELSE Append(f[i - 1], seq[i])

LEMMA KeptExists ==
    ASSUME NEW S, NEW seq \in Seq(S), NEW s, NEW n \in 0 .. Len(seq)
    PROVE  \E f : f = [i \in 0 .. n |-> Kept(seq, s, f, i)]
<1> DEFINE Is(f, k) == f = [i \in 0 .. k |-> Kept(seq, s, f, i)]
           Bad == {k \in 0 .. Len(seq) : ~ \E f : Is(f, k)}
<1>1. SUFFICES ASSUME Bad # {} PROVE FALSE
  <2> DEFINE good == \E f : Is(f, n)
  <2>1. Bad = {} => good
    OBVIOUS
  <2> QED BY <2>1
<1>2. PICK k \in Bad : \A j \in Bad : k <= j
  <2>1. Bad \in SUBSET Nat
    OBVIOUS
  <2> HIDE DEF Bad
  <2> QED BY <1>1, <2>1, LeastNatural
<1>3. k \in 0 .. Len(seq) /\ Len(seq) \in Nat /\ ~ \E f : Is(f, k)
  BY <1>2
<1>4. CASE k = 0
  <2> DEFINE g == [i \in 0 .. 0 |-> <<>>]
  <2>1. g = [i \in 0 .. 0 |-> Kept(seq, s, g, i)]
    BY DEF Kept
  <2> QED BY <1>3, <1>4, <2>1
<1>5. CASE k # 0
  <2>1. k - 1 \in 0 .. Len(seq) /\ ~(k <= k - 1)
    BY <1>3, <1>5
  <2>2. PICK f : Is(f, k - 1)
    BY <1>2, <2>1
  <2> DEFINE g == [i \in 0 .. k |-> IF i < k THEN f[i] ELSE Kept(seq, s, f, k)]
  <2>3. \A i \in 0 .. k - 1 : f[i] = Kept(seq, s, f, i)
    BY <2>2
  <2>4. \A i \in 0 .. k - 1 : g[i] = f[i]
    BY <1>3
  <2>5. g[k] = Kept(seq, s, f, k)
    BY <1>3
  <2>6. \A i \in 0 .. k : Kept(seq, s, g, i) = Kept(seq, s, f, i)
    <3> HIDE DEF g
    <3> TAKE i \in 0 .. k
    <3>1. i # 0 => i - 1 \in 0 .. k - 1
      BY <1>3
    <3> QED BY <2>4, <3>1 DEF Kept
  <2>7. \A i \in 0 .. k : g[i] = Kept(seq, s, g, i)
    <3> HIDE DEF g
    <3> TAKE i \in 0 .. k
    <3>1. CASE i = k
      BY <2>5, <2>6, <3>1
    <3>2. CASE i # k
      <4>1. i \in 0 .. k - 1
        BY <1>3, <3>2
      <4> QED BY <2>3, <2>4, <2>6, <4>1
    <3> QED BY <3>1, <3>2
  <2>8. Is(g, k)
    BY <2>7
  <2> QED BY <1>3, <2>8
<1> QED BY <1>4, <1>5

LEMMA WithoutElements ==
    ASSUME NEW S, NEW seq \in Seq(S), NEW s
    PROVE  /\ Without(seq, s) \in Seq(S)
           /\ Elements(Without(seq, s)) = Elements(seq) \ {s}
<1> DEFINE n == Len(seq)
           kept == CHOOSE f : f = [i \in 0 .. n |-> Kept(seq, s, f, i)]
           Right(i) == /\ kept[i] \in Seq(S)
                       /\ Elements(kept[i]) = {seq[j] : j \in 1 .. i} \ {s}
           Bad == {i \in 0 .. n : ~Right(i)}
<1>1. n \in Nat /\ DOMAIN seq = 1 .. n /\ \A i \in 1 .. n : seq[i] \in S
  BY LenProperties, ElementOfSeq
<1>2. kept = [i \in 0 .. n |-> Kept(seq, s, kept, i)]
  <2>1. n \in 0 .. n
    BY <1>1
  <2> QED BY <2>1, KeptExists
<1>3. Without(seq, s) = kept[n]
  BY DEF Without, Kept
<1>4. \A i \in 0 .. n : kept[i] = Kept(seq, s, kept, i)
  <2> HIDE DEF kept
  <2> QED BY <1>2
<1> HIDE DEF n, kept
<1>5. Bad = {}
  <2> SUFFICES ASSUME Bad # {} PROVE FALSE
    OBVIOUS
  <2>1. PICK i \in Bad : \A j \in Bad : i <= j
    <3>1. Bad \in SUBSET Nat
      BY <1>1
    <3> HIDE DEF Bad
    <3> QED BY <3>1, LeastNatural
  <2>2. i \in 0 .. n /\ ~Right(i) /\ \A j \in 0 .. n : j < i => Right(j)
    <3> HIDE DEF Right
    <3>1. \A j \in 0 .. n : ~Right(j) => i <= j
      BY <2>1
    <3>2. \A j \in 0 .. n : j < i => ~(i <= j)
      BY <1>1, <2>1
    <3> QED BY <2>1, <3>1, <3>2
  <2>3. CASE i = 0
    <3>1. kept[i] = <<>>
      BY <1>4, <2>2, <2>3 DEF Kept
    <3>2. <<>> \in Seq(S) /\ Elements(<<>>) = {}
      BY DEF Elements
    <3>3. {seq[j] : j \in 1 .. 0} = {}
      OBVIOUS
    <3> QED BY <2>2, <2>3, <3>1, <3>2, <3>3
  <2>4. CASE i # 0
    <3>1. i - 1 \in 0 .. n /\ i - 1 < i /\ i \in 1 .. n
      BY <1>1, <2>2, <2>4
    <3>2. Right(i - 1)
      BY <2>2, <3>1
    <3>3. {seq[j] : j \in 1 .. i} = {seq[j] : j \in 1 .. i - 1} \cup {seq[i]}
      BY <3>1, <1>1
    <3>4. CASE seq[i] = s
      <4>1. kept[i] = kept[i - 1]
        BY <1>4, <2>2, <2>4, <3>4 DEF Kept
      <4> QED BY <2>2, <3>2, <3>3, <3>4, <4>1
    <3>5. CASE seq[i] # s
      <4>1. kept[i] = Append(kept[i - 1], seq[i])
        BY <1>4, <2>2, <2>4, <3>5 DEF Kept
      <4>2. /\ kept[i] \in Seq(S)
            /\ Elements(kept[i]) = Elements(kept[i - 1]) \cup {seq[i]}
        BY <1>1, <3>1, <3>2, <4>1, ElementsAppend
      <4> QED BY <2>2, <3>2, <3>3, <3>5, <4>2
    <3> QED BY <3>4, <3>5
  <2> QED BY <2>3, <2>4
<1>6. Right(n)
  <2> HIDE DEF Right
  <2>1. n \in 0 .. n
    BY <1>1
  <2> QED BY <1>5, <2>1
<1>7. Elements(seq) = {seq[j] : j \in 1 .. n}
  BY <1>1 DEF Elements
<1> QED BY <1>3, <1>6, <1>7

\* The instances' Without, ToSet are these.
LEMMA SameWithout ==
    ASSUME NEW seq, NEW s
    PROVE  Parties!Without(seq, s) = Without(seq, s) /\ Plazas!Without(seq, s) = Without(seq, s)
BY DEF Parties!Without, Plazas!Without, Without

LEMMA SameSet ==
    ASSUME NEW seq
    PROVE  Parties!ToSet(seq) = Elements(seq) /\ Plazas!ToSet(seq) = Elements(seq)
BY DEF Parties!ToSet, Plazas!ToSet, Elements

-----------------------------------------------------------------------------
(***************************************************************************)
(* Parties.                                                                *)
(***************************************************************************)

\* An id is free, or of a party that is there, or about to be given back; and a
\* party that is about to be erased is still there.
PartyIds ==
    /\ freeParties \cap alive = {} /\ freeParties \cap erased = {} /\ alive \cap erased = {}
    /\ emptied \subseteq alive

PartyInv ==
    /\ Parties!TypeOK /\ PartyIds
    /\ Parties!LeaderIsListed /\ Parties!OwnPartyListsMe

\* What the lists of the members are made of.
LEMMA Listing ==
    ASSUME Parties!TypeOK, NEW p \in Party
    PROVE  /\ Parties!Listed(p) = Elements(members[p]) /\ members[p] \in Seq(PartyMember)
           /\ Parties!Listed(p) \subseteq PartyMember
           /\ members[p] = <<>> <=> Parties!Listed(p) = {}
<1>1. members[p] \in Seq(PartyMember)
  BY DEF Parties!TypeOK
<1> QED
  BY <1>1, ElementsNone, SameSet DEF Parties!Listed

\* What is left of a party, and who leads it, when a member goes.
LEMMA RemovedKeeps ==
    ASSUME Parties!TypeOK, PartyIds, Parties!LeaderIsListed, NEW s \in PartyMember, NEW p \in alive,
           s \in Parties!Listed(p), Parties!Removed(s, p), UNCHANGED <<alive, erased, freeParties>>
    PROVE  /\ members' \in [Party -> Seq(PartyMember)] /\ leader' \in [Party -> PartyMember \cup {None}]
           /\ emptied' \subseteq alive /\ PartyIds'
           /\ Parties!LeaderIsListed'
           /\ \A q \in Party : \A t \in Parties!Listed(q) \ {s} : t \in Parties!Listed(q)'
           /\ \A q \in Party : q # p => members'[q] = members[q]
<1> DEFINE rest == Without(members[p], s)
<1>1. p \in Party /\ alive \subseteq Party
  BY DEF Parties!TypeOK
<1>2. rest \in Seq(PartyMember) /\ Elements(rest) = Parties!Listed(p) \ {s}
  BY <1>1, Listing, WithoutElements
<1>3. /\ members' = [members EXCEPT ![p] = rest]
      /\ leader' = IF leader[p] = s THEN [leader EXCEPT ![p] = Parties!NextLeader(p, s)] ELSE leader
      /\ emptied' = IF Parties!Listed(p) \subseteq {s} THEN emptied \cup {p} ELSE emptied
  BY SameWithout DEF Parties!Removed
<1>4. Parties!NextLeader(p, s) = IF rest = <<>> THEN None ELSE Head(rest)
  BY SameWithout DEF Parties!NextLeader
<1>5. /\ rest = <<>> <=> Parties!Listed(p) \subseteq {s}
      /\ rest # <<>> => Head(rest) \in Elements(rest) /\ Head(rest) \in PartyMember
  BY <1>1, <1>2, ElementsNone, Listing
<1> HIDE DEF rest
<1>6. /\ members'[p] = rest /\ \A q \in Party : q # p => members'[q] = members[q]
      /\ members' \in [Party -> Seq(PartyMember)]
  BY <1>1, <1>2, <1>3 DEF Parties!TypeOK
<1>7. /\ leader' \in [Party -> PartyMember \cup {None}]
      /\ \A q \in Party : q # p => leader'[q] = leader[q]
      /\ leader'[p] = IF leader[p] = s THEN Parties!NextLeader(p, s) ELSE leader[p]
  BY <1>1, <1>3, <1>4, <1>5 DEF Parties!TypeOK
<1>8. \A q \in Party : Parties!Listed(q)' = IF q = p THEN Parties!Listed(p) \ {s} ELSE Parties!Listed(q)
  <2> TAKE q \in Party
  <2>1. Parties!Listed(q)' = Elements(members'[q])
    BY DEF Parties!Listed, Parties!ToSet, Elements
  <2>2. Parties!Listed(q) = Elements(members[q])
    BY Listing
  <2> QED
    BY <1>2, <1>6, <2>1, <2>2
<1>9. leader[p] \in Parties!Listed(p) /\ p \notin emptied
  <2>1. members[p] # <<>>
    BY <1>1, Listing
  <2> QED
    BY <2>1 DEF Parties!LeaderIsListed
<1>10. Parties!LeaderIsListed'
  <2> SUFFICES ASSUME NEW q \in alive
               PROVE  IF members'[q] = <<>> THEN q \in emptied' /\ leader'[q] = None
                      ELSE leader'[q] \in Parties!Listed(q)' /\ q \notin emptied'
    BY DEF Parties!LeaderIsListed
  <2>1. CASE q = p
    BY <1>1, <1>2, <1>3, <1>4, <1>5, <1>6, <1>7, <1>8, <1>9, <2>1
  <2>2. CASE q # p
    BY <1>1, <1>3, <1>6, <1>7, <1>8, <2>2 DEF Parties!LeaderIsListed
  <2> QED
    BY <2>1, <2>2
<1>11. PartyIds' /\ emptied' \subseteq alive
  BY <1>3 DEF PartyIds
<1> QED
  BY <1>6, <1>7, <1>8, <1>10, <1>11

LEMMA PartiesInit == Parties!Init => PartyInv
<1> SUFFICES ASSUME Parties!Init PROVE PartyInv
  OBVIOUS
<1>1. Parties!TypeOK
  BY PartiesAssumption DEF Parties!Init, Parties!TypeOK
<1> QED
  BY <1>1
  DEF Parties!Init, PartyInv, PartyIds, Parties!LeaderIsListed, Parties!OwnPartyListsMe

LEMMA PartiesStep == PartyInv /\ [Parties!Next]_parties => PartyInv'
<1> SUFFICES ASSUME PartyInv, [Parties!Next]_parties PROVE PartyInv'
  OBVIOUS
<1> USE PartiesAssumption DEF PartyInv
<1>1. ASSUME NEW s \in PartyMember, Parties!Login(s) PROVE PartyInv'
  BY <1>1
  DEF Parties!Login, Parties!parties, Parties!TypeOK, PartyIds, Parties!LeaderIsListed,
      Parties!OwnPartyListsMe, Parties!Listed
<1>2. ASSUME NEW s \in PartyMember, NEW p \in Party, Parties!Create(s, p) PROVE PartyInv'
  <2>1. /\ members' = [members EXCEPT ![p] = <<s>>] /\ leader' = [leader EXCEPT ![p] = s]
        /\ alive' = alive \cup {p} /\ freeParties' = freeParties \ {p} /\ p \in freeParties
        /\ UNCHANGED <<emptied, erased>>
    BY <1>2 DEF Parties!Create
  <2>2. <<s>> \in Seq(PartyMember) /\ <<s>> # <<>> /\ Elements(<<s>>) = {s}
    BY DEF Elements
  <2>3. Parties!TypeOK'
    BY <1>2, <2>2 DEF Parties!Create, Parties!TypeOK
  <2>4. Parties!Listed(p)' = {s} /\ members'[p] # <<>> /\ leader'[p] = s
    BY <2>1, <2>2 DEF Parties!TypeOK, Parties!Listed, Parties!ToSet, Elements
  <2>5. \A q \in Party : q # p =>
           members'[q] = members[q] /\ leader'[q] = leader[q] /\ Parties!Listed(q)' = Parties!Listed(q)
    BY <2>1 DEF Parties!TypeOK, Parties!Listed
  <2>6. PartyIds' /\ p \notin emptied' /\ p \notin alive
    BY <2>1 DEF PartyIds
  <2>7. Parties!LeaderIsListed'
    BY <2>1, <2>4, <2>5, <2>6 DEF Parties!LeaderIsListed, Parties!TypeOK
  <2>8. Parties!OwnPartyListsMe'
    BY <1>2, <2>1, <2>4, <2>5 DEF Parties!Create, Parties!OwnPartyListsMe, Parties!TypeOK
  <2> QED
    BY <2>3, <2>6, <2>7, <2>8
<1>3. ASSUME NEW s \in PartyMember, NEW p \in Party, Parties!Join(s, p) PROVE PartyInv'
  <2>1. /\ members' = [members EXCEPT ![p] = Append(members[p], s)] /\ p \in alive
        /\ leader[p] \in online /\ partyOf' = [partyOf EXCEPT ![s] = p]
        /\ UNCHANGED <<online, alive, leader, barred, limit, emptied, erased, freeParties>>
    BY <1>3 DEF Parties!Join, Parties!LeaderSeen
  <2>2. /\ Append(members[p], s) \in Seq(PartyMember) /\ Append(members[p], s) # <<>>
        /\ Elements(Append(members[p], s)) = Parties!Listed(p) \cup {s}
    BY Listing, ElementsAppend, ElementsNone
  <2>3. Parties!TypeOK'
    BY <2>1, <2>2 DEF Parties!TypeOK
  <2>4. Parties!Listed(p)' = Parties!Listed(p) \cup {s} /\ members'[p] # <<>>
    <3>1. members'[p] = Append(members[p], s)
      BY <2>1 DEF Parties!TypeOK
    <3>2. Parties!Listed(p)' = Elements(members'[p])
      BY DEF Parties!Listed, Parties!ToSet, Elements
    <3> QED
      BY <2>2, <3>1, <3>2
  <2>5. \A q \in Party : q # p => members'[q] = members[q] /\ Parties!Listed(q)' = Parties!Listed(q)
    BY <2>1 DEF Parties!TypeOK, Parties!Listed
  <2>6. leader[p] \in Parties!Listed(p) /\ p \notin emptied
    <3>1. leader[p] # None
      BY <2>1 DEF Parties!TypeOK
    <3> QED
      BY <2>1, <3>1 DEF Parties!LeaderIsListed
  <2>7. Parties!LeaderIsListed'
    BY <2>1, <2>4, <2>5, <2>6 DEF Parties!LeaderIsListed, Parties!TypeOK
  <2>8. Parties!OwnPartyListsMe'
    BY <2>1, <2>4, <2>5 DEF Parties!OwnPartyListsMe, Parties!TypeOK, PartyIds
  <2> QED
    BY <2>1, <2>3, <2>7, <2>8 DEF PartyIds
<1>4. ASSUME NEW s \in PartyMember, Parties!Leave(s) PROVE PartyInv'
  <2> DEFINE p == partyOf[s]
  <2>1. /\ p \in alive /\ p \in Party /\ p # None /\ Parties!Removed(s, p)
        /\ partyOf' = [partyOf EXCEPT ![s] = None]
        /\ UNCHANGED <<online, alive, barred, limit, erased, freeParties>>
    BY <1>4 DEF Parties!Leave, Parties!TypeOK
  <2>2. s \in Parties!Listed(p)
    BY <2>1 DEF Parties!OwnPartyListsMe
  <2>3. /\ members' \in [Party -> Seq(PartyMember)] /\ leader' \in [Party -> PartyMember \cup {None}]
        /\ emptied' \subseteq alive /\ PartyIds' /\ Parties!LeaderIsListed'
        /\ \A q \in Party : \A t \in Parties!Listed(q) \ {s} : t \in Parties!Listed(q)'
    BY <2>1, <2>2, RemovedKeeps
  <2>4. Parties!TypeOK'
    BY <2>1, <2>3 DEF Parties!TypeOK
  <2>5. Parties!OwnPartyListsMe'
    BY <2>1, <2>3 DEF Parties!OwnPartyListsMe, Parties!TypeOK
  <2> QED
    BY <2>3, <2>4, <2>5
<1>5. ASSUME NEW s \in PartyMember, Parties!Disconnect(s) PROVE PartyInv'
  <2> DEFINE p == partyOf[s]
  <2>1. /\ online' = online \ {s} /\ partyOf' = [partyOf EXCEPT ![s] = None]
        /\ UNCHANGED <<alive, barred, limit, erased, freeParties>>
    BY <1>5 DEF Parties!Disconnect
  <2>2. CASE p \in alive
    <3>1. p \in Party /\ p # None /\ Parties!Removed(s, p)
      BY <1>5, <2>2 DEF Parties!Disconnect, Parties!TypeOK
    <3>2. s \in Parties!Listed(p)
      BY <3>1 DEF Parties!OwnPartyListsMe
    <3>3. /\ members' \in [Party -> Seq(PartyMember)] /\ leader' \in [Party -> PartyMember \cup {None}]
          /\ emptied' \subseteq alive /\ PartyIds' /\ Parties!LeaderIsListed'
          /\ \A q \in Party : \A t \in Parties!Listed(q) \ {s} : t \in Parties!Listed(q)'
      BY <2>1, <2>2, <3>1, <3>2, RemovedKeeps
    <3>4. Parties!TypeOK'
      BY <2>1, <3>3 DEF Parties!TypeOK
    <3>5. Parties!OwnPartyListsMe'
      BY <2>1, <3>3 DEF Parties!OwnPartyListsMe, Parties!TypeOK
    <3> QED
      BY <3>3, <3>4, <3>5
  <2>3. CASE p \notin alive
    BY <1>5, <2>1, <2>3
    DEF Parties!Disconnect, Parties!TypeOK, PartyIds, Parties!LeaderIsListed,
        Parties!OwnPartyListsMe, Parties!Listed
  <2> QED
    BY <2>2, <2>3
<1>6. ASSUME NEW p \in Party, Parties!Erase(p) PROVE PartyInv'
  <2>1. /\ p \in emptied /\ p \in alive /\ emptied' = emptied \ {p} /\ alive' = alive \ {p}
        /\ erased' = erased \cup {p} /\ UNCHANGED <<online, partyOf, members, leader, freeParties>>
    BY <1>6 DEF Parties!Erase, PartyIds
  <2>2. Parties!TypeOK'
    BY <1>6 DEF Parties!Erase, Parties!TypeOK
  <2>3. PartyIds' /\ Parties!LeaderIsListed'
    BY <2>1 DEF PartyIds, Parties!LeaderIsListed, Parties!Listed
  <2>4. Parties!Listed(p) = {}
    BY <2>1, Listing DEF Parties!LeaderIsListed
  <2>5. Parties!OwnPartyListsMe'
    <3>1. \A s \in PartyMember : partyOf[s] # p
      BY <2>4 DEF Parties!OwnPartyListsMe
    <3> QED
      BY <2>1, <3>1 DEF Parties!OwnPartyListsMe, Parties!Listed
  <2> QED
    BY <2>2, <2>3, <2>5
<1>7. ASSUME NEW p \in Party, Parties!GiveBack(p) PROVE PartyInv'
  BY <1>7
  DEF Parties!GiveBack, Parties!parties, Parties!TypeOK, PartyIds, Parties!LeaderIsListed,
      Parties!OwnPartyListsMe, Parties!Listed
<1>8. ASSUME NEW s \in PartyMember, NEW t \in PartyMember, Parties!Kick(s, t) PROVE PartyInv'
  BY <1>8
  DEF Parties!Kick, Parties!TypeOK, PartyIds, Parties!LeaderIsListed,
      Parties!OwnPartyListsMe, Parties!Listed
<1>9. ASSUME NEW s \in PartyMember, NEW n \in 1 .. MaxMembers, Parties!HostChange(s, n)
      PROVE  PartyInv'
  <2> DEFINE p == partyOf[s]
  <2>1. /\ p \in alive /\ p \in Party /\ n \in DOMAIN members[p]
        /\ leader' = [leader EXCEPT ![p] = members[p][n]]
        /\ UNCHANGED <<online, partyOf, alive, members, barred, limit, emptied, erased, freeParties>>
    BY <1>9 DEF Parties!HostChange, Parties!TypeOK
  <2>2. members[p][n] \in Parties!Listed(p)
    BY <2>1 DEF Parties!Listed, Parties!ToSet
  <2>3. members[p] # <<>> /\ members[p][n] \in PartyMember
    BY <2>1, <2>2, Listing
  <2>4. Parties!TypeOK'
    BY <2>1, <2>3 DEF Parties!TypeOK
  <2>5. Parties!LeaderIsListed'
    BY <2>1, <2>2, <2>3 DEF Parties!LeaderIsListed, Parties!Listed, Parties!TypeOK
  <2> QED
    BY <2>1, <2>4, <2>5 DEF PartyIds, Parties!OwnPartyListsMe, Parties!Listed
<1>10. ASSUME NEW s \in PartyMember, NEW n \in 1 .. MaxMembers, Parties!PlayersRule(s, n)
       PROVE  PartyInv'
  BY <1>10
  DEF Parties!PlayersRule, Parties!TypeOK, PartyIds, Parties!LeaderIsListed,
      Parties!OwnPartyListsMe, Parties!Listed
<1>11. CASE UNCHANGED parties
  BY <1>11
  DEF parties, Parties!TypeOK, PartyIds, Parties!LeaderIsListed, Parties!OwnPartyListsMe, Parties!Listed
<1> QED
  BY <1>1, <1>2, <1>3, <1>4, <1>5, <1>6, <1>7, <1>8, <1>9, <1>10, <1>11 DEF Parties!Next

\* Party ids are none, used or to be erased, leaders are listed, and so are those who
\* name a party.
THEOREM PartiesInvariance == MCSpec => []PartyInv
<1>1. MCInit => PartyInv
  BY PartiesInit DEF MCInit
<1>2. [MCNext]_<<part, arriving, together, outside>> => [Parties!Next]_parties
  BY DEF MCNext, SessionsNext, FrontNext, PartiesNext, MirrorNext, PlazasNext, SocialsNext, MailsNext,
         together
<1> QED
  BY <1>1, <1>2, PartiesStep, PTL DEF MCSpec

\* A party that has members is led by one of them, through kicks that leave the list
\* as it is and leaders that have gone elsewhere; one without members will be erased.
THEOREM LeaderIsListedHolds == MCSpec => []LeaderIsListed
<1>1. PartyInv => LeaderIsListed
  BY DEF PartyInv, LeaderIsListed
<1> QED
  BY <1>1, PartiesInvariance, PTL

\* The party that an account names exists, lists the player, and its id is not one
\* that the next party may get.
THEOREM OwnPartyListsMeHolds == MCSpec => []OwnPartyListsMe
<1>1. PartyInv => OwnPartyListsMe
  BY DEF PartyInv, OwnPartyListsMe
<1> QED
  BY <1>1, PartiesInvariance, PTL

-----------------------------------------------------------------------------
(***************************************************************************)
(* Plazas.                                                                 *)
(***************************************************************************)

PlazaInv == Plazas!TypeOK /\ Plazas!InPlazaIsListed

\* Lists are lists of players, in every plaza.
LEMMA PlazaListing ==
    ASSUME Plazas!TypeOK, NEW q \in Plazas!Plaza
    PROVE  Plazas!Listed(q) = Elements(players[q]) /\ players[q] \in Seq(PlazaSid)
BY SameSet DEF Plazas!TypeOK, Plazas!Listed

\* A player who is taken out of one list, or is not, is all that others' lists lose.
LEMMA TakenOut ==
    ASSUME Plazas!TypeOK, NEW s \in PlazaSid, NEW q \in Plazas!Plaza,
           players' = [players EXCEPT ![q] = Without(players[q], s)]
    PROVE  /\ players' \in [Plazas!Plaza -> Seq(PlazaSid)]
           /\ \A p \in Plazas!Plaza : \A o \in Plazas!Listed(p) \ {s} : o \in Plazas!Listed(p)'
<1>1. /\ Without(players[q], s) \in Seq(PlazaSid)
      /\ Elements(Without(players[q], s)) = Plazas!Listed(q) \ {s}
  BY PlazaListing, WithoutElements
<1>2. \A p \in Plazas!Plaza : Plazas!Listed(p)' = Elements(players'[p])
  BY SameSet DEF Plazas!Listed
<1> QED
  BY <1>1, <1>2, PlazaListing DEF Plazas!TypeOK

LEMMA PlazasInit == Plazas!Init => PlazaInv
<1> SUFFICES ASSUME Plazas!Init PROVE PlazaInv
  OBVIOUS
<1>1. 0 \in Plazas!Plaza /\ <<>> \in Seq(PlazaSid)
  BY PlazasAssumption DEF Plazas!Plaza
<1> QED
  BY <1>1 DEF Plazas!Init, PlazaInv, Plazas!TypeOK, Plazas!InPlazaIsListed

\* Leaving a plaza, wherever to.
LEMMA OutOfKeeps ==
    ASSUME PlazaInv, NEW s \in PlazaSid, Plazas!OutOf(s) PROVE PlazaInv'
<1>1. /\ plazaId[s] \in Plazas!Plaza /\ 0 \in Plazas!Plaza
      /\ players' = [players EXCEPT ![plazaId[s]] = Without(players[plazaId[s]], s)]
      /\ plazaId' = [plazaId EXCEPT ![s] = 0] /\ inPlaza' = inPlaza \ {s}
      /\ UNCHANGED <<plazaCounter, plazaKeys, plazaOnline, making, bound, closing, left>>
  <2>1. 0 \in Plazas!Plaza
    BY PlazasAssumption DEF Plazas!Plaza
  <2> QED
    BY <2>1, SameWithout DEF Plazas!OutOf, PlazaInv, Plazas!TypeOK
<1>2. /\ players' \in [Plazas!Plaza -> Seq(PlazaSid)]
      /\ \A p \in Plazas!Plaza : \A o \in Plazas!Listed(p) \ {s} : o \in Plazas!Listed(p)'
  BY <1>1, TakenOut DEF PlazaInv
<1>3. Plazas!TypeOK'
  BY <1>1, <1>2 DEF PlazaInv, Plazas!TypeOK
<1>4. Plazas!InPlazaIsListed'
  BY <1>1, <1>2 DEF PlazaInv, Plazas!TypeOK, Plazas!InPlazaIsListed
<1> QED
  BY <1>3, <1>4 DEF PlazaInv

LEMMA PlazasStep == PlazaInv /\ [Plazas!Next]_plazas => PlazaInv'
<1> SUFFICES ASSUME PlazaInv, [Plazas!Next]_plazas PROVE PlazaInv'
  OBVIOUS
<1> USE DEF PlazaInv
<1>0. 0 \in Plazas!Plaza /\ Plazas!Plaza \subseteq Nat
  BY PlazasAssumption DEF Plazas!Plaza
<1>1. ASSUME NEW s \in PlazaSid, Plazas!Login(s) PROVE PlazaInv'
  BY <1>0, <1>1 DEF Plazas!Login, Plazas!TypeOK, Plazas!InPlazaIsListed, Plazas!Listed
<1>2. ASSUME NEW s \in PlazaSid, Plazas!Make(s) PROVE PlazaInv'
  <2> DEFINE q == IF making[s] = 0 THEN Plazas!NextPlaza ELSE making[s]
  <2>1. /\ plazaCounter' = IF making[s] = 0 /\ plazaCounter < MaxPlaza THEN plazaCounter + 1
                           ELSE plazaCounter
        /\ plazaKeys' = plazaKeys \cup {q} /\ players' = players /\ making[s] # NoPlaza
        /\ making' = [making EXCEPT ![s] = NoPlaza] /\ bound' = [bound EXCEPT ![s] = q]
        /\ UNCHANGED <<plazaOnline, plazaId, inPlaza, closing, left>>
    BY <1>2 DEF Plazas!Make, Plazas!Made, Plazas!account
  <2>2. q \in Plazas!Plaza /\ plazaCounter' \in Plazas!Plaza
    BY <2>1, PlazasAssumption DEF Plazas!TypeOK, Plazas!NextPlaza, Plazas!Plaza
  <2> HIDE DEF q
  <2> QED
    BY <2>1, <2>2 DEF Plazas!TypeOK, Plazas!InPlazaIsListed, Plazas!Listed
<1>3. ASSUME NEW s \in PlazaSid, Plazas!Enter(s) PROVE PlazaInv'
  <2> DEFINE t == bound[s]
             old == plazaId[s]
             kept == IF t # old /\ old \in plazaKeys
                     THEN [players EXCEPT ![old] = Plazas!Removed(players[old], s)] ELSE players
  <2>1. /\ s \in plazaOnline /\ t # NoPlaza
        /\ players' = IF t = Nowhere THEN kept ELSE [kept EXCEPT ![t] = Append(kept[t], s)]
        /\ plazaId' = [plazaId EXCEPT ![s] = t] /\ inPlaza' = inPlaza \cup {s}
        /\ bound' = [bound EXCEPT ![s] = NoPlaza]
        /\ UNCHANGED <<plazaCounter, plazaKeys, plazaOnline, making, closing, left>>
    BY <1>3 DEF Plazas!Enter
  <2>2. t \in Plazas!Plaza \cup {Nowhere} /\ Nowhere \notin Plazas!Plaza
    BY <1>0, <2>1, PlazasAssumption DEF Plazas!TypeOK
  <2>3. /\ kept \in [Plazas!Plaza -> Seq(PlazaSid)]
        /\ \A p \in Plazas!Plaza : \A o \in Plazas!Listed(p) \ {s} : o \in Elements(kept[p])
    <3>1. CASE t # old /\ old \in plazaKeys /\ s \notin Elements(players[old])
      <4>1. old \in Plazas!Plaza
        BY <3>1 DEF Plazas!TypeOK
      <4>2. kept = [players EXCEPT ![old] = Without(players[old], s)]
        BY <3>1, SameWithout, SameSet DEF Plazas!Removed
      <4>3. /\ Without(players[old], s) \in Seq(PlazaSid)
            /\ Elements(Without(players[old], s)) = Plazas!Listed(old) \ {s}
        BY <4>1, PlazaListing, WithoutElements
      <4> QED
        BY <4>1, <4>2, <4>3, PlazaListing DEF Plazas!TypeOK
    <3>2. CASE ~(t # old /\ old \in plazaKeys /\ s \notin Elements(players[old]))
      <4>1. kept = players
        <5>1. CASE t # old /\ old \in plazaKeys /\ s \in Elements(players[old])
          BY <5>1, SameSet DEF Plazas!Removed, Plazas!TypeOK
        <5> QED
          BY <3>2, <5>1
      <4> QED
        BY <4>1, PlazaListing DEF Plazas!TypeOK
    <3> QED
      BY <3>1, <3>2
  <2> HIDE DEF kept
  <2>4. \A p \in Plazas!Plaza : Plazas!Listed(p)' = Elements(players'[p])
    BY SameSet DEF Plazas!Listed
  <2>5. CASE t = Nowhere
    BY <2>1, <2>2, <2>3, <2>4, <2>5 DEF Plazas!TypeOK, Plazas!InPlazaIsListed
  <2>6. CASE t # Nowhere
    <3>1. /\ t \in Plazas!Plaza /\ Append(kept[t], s) \in Seq(PlazaSid)
          /\ Elements(Append(kept[t], s)) = Elements(kept[t]) \cup {s}
      BY <2>2, <2>3, <2>6, ElementsAppend
    <3>2. Plazas!TypeOK'
      BY <2>1, <2>2, <2>3, <2>6, <3>1 DEF Plazas!TypeOK
    <3>3. /\ s \in Elements(players'[t])
          /\ \A p \in Plazas!Plaza : \A o \in Plazas!Listed(p) \ {s} : o \in Elements(players'[p])
      BY <2>1, <2>3, <2>6, <3>1
    <3> QED
      BY <2>1, <2>4, <3>1, <3>2, <3>3 DEF Plazas!TypeOK, Plazas!InPlazaIsListed
  <2> QED
    BY <2>5, <2>6
<1>4. ASSUME NEW s \in PlazaSid, Plazas!Leave(s) \/ Plazas!LeaveForRoom(s) PROVE PlazaInv'
  BY <1>4, OutOfKeeps DEF Plazas!Leave, Plazas!LeaveForRoom
<1>5. ASSUME NEW s \in PlazaSid, NEW q \in Plazas!Plaza, Plazas!AskNew(s, q) PROVE PlazaInv'
  BY <1>5 DEF Plazas!AskNew, Plazas!account, Plazas!TypeOK, Plazas!InPlazaIsListed, Plazas!Listed
<1>6. ASSUME NEW s \in PlazaSid, NEW q \in Plazas!Plaza, Plazas!JoinOld(s, q) PROVE PlazaInv'
  <2>1. Plazas!Place(q) \subseteq Plazas!Plaza \cup {Nowhere}
    BY DEF Plazas!Place, Plazas!FirstNonFull, Plazas!TypeOK
  <2>2. /\ closing' = closing \cup {s} \/ closing' = closing
        /\ bound' = bound \/ \E t \in Plazas!Place(q) : bound' = [bound EXCEPT ![s] = t]
        /\ UNCHANGED <<plazaCounter, plazaKeys, players, plazaOnline, plazaId, inPlaza, making, left>>
    BY <1>6 DEF Plazas!JoinOld, Plazas!account
  <2> QED
    BY <2>1, <2>2 DEF Plazas!TypeOK, Plazas!InPlazaIsListed, Plazas!Listed
<1>7. ASSUME NEW s \in PlazaSid, Plazas!Close(s) PROVE PlazaInv'
  BY <1>7 DEF Plazas!Close, Plazas!account, Plazas!TypeOK, Plazas!InPlazaIsListed, Plazas!Listed
<1>8. ASSUME NEW s \in PlazaSid, Plazas!Purge(s) PROVE PlazaInv'
  <2>1. /\ s \in closing /\ left' = left \cup {s}
        /\ players' = IF plazaId[s] \in plazaKeys
                      THEN [players EXCEPT ![plazaId[s]] = Without(players[plazaId[s]], s)] ELSE players
        /\ UNCHANGED <<plazaCounter, plazaKeys, plazaOnline, plazaId, inPlaza, making, bound, closing>>
    BY <1>8, SameWithout DEF Plazas!Purge, Plazas!account
  <2>2. /\ players' \in [Plazas!Plaza -> Seq(PlazaSid)]
        /\ \A p \in Plazas!Plaza : \A o \in Plazas!Listed(p) \ {s} : o \in Plazas!Listed(p)'
    <3>1. CASE plazaId[s] \in plazaKeys
      BY <2>1, <3>1, TakenOut DEF Plazas!TypeOK
    <3>2. CASE plazaId[s] \notin plazaKeys
      BY <2>1, <3>2 DEF Plazas!TypeOK, Plazas!Listed
    <3> QED
      BY <3>1, <3>2
  <2> QED
    BY <2>1, <2>2 DEF Plazas!TypeOK, Plazas!InPlazaIsListed
<1>9. ASSUME NEW s \in PlazaSid, Plazas!EraseAccount(s) PROVE PlazaInv'
  BY <1>9 DEF Plazas!EraseAccount, Plazas!TypeOK, Plazas!InPlazaIsListed, Plazas!Listed
<1>10. CASE UNCHANGED plazas
  BY <1>10 DEF plazas, Plazas!TypeOK, Plazas!InPlazaIsListed, Plazas!Listed
<1> QED
  BY <1>1, <1>2, <1>3, <1>4, <1>5, <1>6, <1>7, <1>8, <1>9, <1>10 DEF Plazas!Next

\* Plaza ids and lists stay within bounds, and whoever is in a plaza is in its list.
THEOREM PlazasInvariance == MCSpec => []PlazaInv
<1>1. MCInit => PlazaInv
  BY PlazasInit DEF MCInit
<1>2. [MCNext]_<<part, arriving, together, outside>> => [Plazas!Next]_plazas
  BY DEF MCNext, SessionsNext, FrontNext, PartiesNext, MirrorNext, PlazasNext, SocialsNext, MailsNext,
         outside
<1> QED
  BY <1>1, <1>2, PlazasStep, PTL DEF MCSpec

\* Whoever is in a plaza by its account is in that plaza's list, although several
\* make a plaza at once and an entry leaves the old plaza and joins the new.
THEOREM InPlazaIsListedHolds == MCSpec => []InPlazaIsListed
<1>1. PlazaInv => InPlazaIsListed
  BY DEF PlazaInv, InPlazaIsListed
<1> QED
  BY <1>1, PlazasInvariance, PTL

-----------------------------------------------------------------------------
(***************************************************************************)
(* Friends and blocked players.                                            *)
(***************************************************************************)

\* Nobody asks, blocks or befriends himself: the handlers refuse it.
TasksOfTwo == \A t \in tasks : t.by # t.of

SocialInv == Socials!TypeOK /\ IsFiniteSet(tasks) /\ TasksOfTwo /\ Socials!OneSidedBlock

\* The instance's Cardinality is this.
LEMMA SameCardinality == ASSUME NEW S PROVE Socials!Cardinality(S) = Cardinality(S)
BY DEF Socials!Cardinality, Cardinality

\* What a task becomes when it is done, or its session ends, is no more tasks.
LEMMA FewerTasks ==
    ASSUME IsFiniteSet(tasks), Cardinality(tasks) <= MaxTasks,
           NEW f, NEW S, S = {f[t] : t \in tasks}, f = [t \in tasks |-> f[t]]
    PROVE  IsFiniteSet(S) /\ Cardinality(S) <= MaxTasks
<1>1. f \in Surjection(tasks, S)
  BY DEF Surjection
<1>2. IsFiniteSet(S) /\ Cardinality(S) <= Cardinality(tasks)
  BY <1>1, FS_Surjection
<1>3. Cardinality(S) \in Nat /\ Cardinality(tasks) \in Nat
  BY <1>2, FS_CardinalityType
<1> QED
  BY <1>2, <1>3, SocialsAssumption

LEMMA OneTaskLess ==
    ASSUME IsFiniteSet(tasks), Cardinality(tasks) <= MaxTasks, NEW t \in tasks
    PROVE  /\ IsFiniteSet(tasks \ {t}) /\ Cardinality(tasks \ {t}) <= MaxTasks
           /\ \A u : IsFiniteSet((tasks \ {t}) \cup {u}) /\ Cardinality((tasks \ {t}) \cup {u}) <= MaxTasks
<1>1. Cardinality(tasks) \in Nat /\ Cardinality(tasks) <= MaxTasks
  BY FS_CardinalityType
<1>2. IsFiniteSet(tasks \ {t}) /\ Cardinality(tasks \ {t}) = Cardinality(tasks) - 1
  BY FS_RemoveElement
<1>3. Cardinality(tasks \ {t}) \in Nat
  BY <1>2, FS_CardinalityType
<1>4. \A u : /\ IsFiniteSet((tasks \ {t}) \cup {u})
             /\ \/ Cardinality((tasks \ {t}) \cup {u}) = Cardinality(tasks \ {t})
                \/ Cardinality((tasks \ {t}) \cup {u}) = Cardinality(tasks \ {t}) + 1
  BY <1>2, FS_AddElement
<1>5. Cardinality(tasks \ {t}) <= MaxTasks /\ Cardinality(tasks \ {t}) + 1 <= MaxTasks
  BY <1>1, <1>2, <1>3, SocialsAssumption
<1>6. \A u : IsFiniteSet((tasks \ {t}) \cup {u}) /\ Cardinality((tasks \ {t}) \cup {u}) <= MaxTasks
  <2> TAKE u
  <2>1. \/ Cardinality((tasks \ {t}) \cup {u}) = Cardinality(tasks \ {t})
        \/ Cardinality((tasks \ {t}) \cup {u}) = Cardinality(tasks \ {t}) + 1
    BY <1>4
  <2>2. Cardinality((tasks \ {t}) \cup {u}) <= MaxTasks
    BY <1>5, <2>1
  <2> QED
    BY <1>4, <2>2
<1> QED
  BY <1>2, <1>5, <1>6

\* A handler leaves a task for another account than its own.
LEMMA SubmitKeeps ==
    ASSUME SocialInv, NEW a \in Aid, NEW b \in Aid \ {a},
           NEW op \in {"request", "accept", "remove", "block", "unblock"}, Socials!Submit(op, a, b)
    PROVE  SocialInv'
<1> DEFINE t == [op |-> op, by |-> a, of |-> b, here |-> TRUE, seen |-> b \in present]
<1>1. /\ Cardinality(tasks) < MaxTasks /\ tasks' = tasks \cup {t}
      /\ UNCHANGED <<row, loaded, loading, present, list, shown>>
  BY SameCardinality DEF Socials!Submit
<1>2. t \in Socials!Task /\ t.by # t.of
  BY DEF Socials!Task
<1> HIDE DEF t
<1>3. /\ IsFiniteSet(tasks') /\ Cardinality(tasks) \in Nat
      /\ Cardinality(tasks') = Cardinality(tasks) \/ Cardinality(tasks') = Cardinality(tasks) + 1
  BY <1>1, FS_AddElement, FS_CardinalityType DEF SocialInv
<1>4. Cardinality(tasks') <= MaxTasks
  BY <1>1, <1>3, SocialsAssumption
<1> QED
  BY <1>1, <1>2, <1>3, <1>4, SameCardinality DEF SocialInv, Socials!TypeOK, TasksOfTwo, Socials!OneSidedBlock

LEMMA SocialsInit == Socials!Init => SocialInv
<1> SUFFICES ASSUME Socials!Init PROVE SocialInv
  OBVIOUS
<1>1. IsFiniteSet(tasks) /\ Cardinality(tasks) <= MaxTasks
  BY FS_EmptySet, SocialsAssumption, SameCardinality DEF Socials!Init
<1> QED
  BY <1>1, SameCardinality DEF Socials!Init, SocialInv, Socials!TypeOK, Socials!Nobody, Socials!State, TasksOfTwo,
              Socials!OneSidedBlock

LEMMA SocialsStep == SocialInv /\ [Socials!Next]_socials => SocialInv'
<1> SUFFICES ASSUME SocialInv, [Socials!Next]_socials PROVE SocialInv'
  OBVIOUS
<1> USE DEF SocialInv
<1>0. Socials!Nobody \in [Aid -> Socials!State]
  BY DEF Socials!Nobody, Socials!State
<1>1. ASSUME NEW a \in Aid, Socials!Load(a) PROVE SocialInv'
  BY <1>1 DEF Socials!Load, Socials!TypeOK, TasksOfTwo, Socials!OneSidedBlock
<1>2. ASSUME NEW a \in Aid, Socials!Login(a) PROVE SocialInv'
  BY <1>0, <1>2 DEF Socials!Login, Socials!TypeOK, TasksOfTwo, Socials!OneSidedBlock
<1>3. ASSUME NEW a \in Aid, Socials!Logoff(a) PROVE SocialInv'
  <2> DEFINE f == [t \in tasks |-> [t EXCEPT !.here = @ /\ t.by # a, !.seen = @ /\ t.of # a]]
  <2>1. tasks' = {f[t] : t \in tasks}
    BY <1>3 DEF Socials!Logoff
  <2>2. f = [t \in tasks |-> f[t]]
    OBVIOUS
  <2>3. \A t \in tasks : f[t] \in Socials!Task /\ f[t].by # f[t].of
    <3> TAKE t \in tasks
    <3>1. t \in Socials!Task /\ t.by # t.of
      BY DEF Socials!TypeOK, TasksOfTwo
    <3>2. PICK h \in BOOLEAN : h = (t.here /\ t.by # a)
      OBVIOUS
    <3>3. PICK n \in BOOLEAN : n = (t.seen /\ t.of # a)
      OBVIOUS
    <3>4. f[t] = [t EXCEPT !.here = h, !.seen = n]
      BY <3>2, <3>3, Zenon
    <3> HIDE DEF f
    <3> QED
      BY <3>1, <3>4 DEF Socials!Task
  <2> HIDE DEF f
  <2>4. IsFiniteSet(tasks') /\ Cardinality(tasks') <= MaxTasks
    BY <2>1, <2>2, FewerTasks, SameCardinality DEF Socials!TypeOK
  <2>5. Socials!TypeOK'
    BY <1>0, <1>3, <2>1, <2>3, <2>4, SameCardinality DEF Socials!Logoff, Socials!TypeOK
  <2> QED
    BY <1>3, <2>1, <2>3, <2>4, <2>5 DEF Socials!Logoff, TasksOfTwo, Socials!OneSidedBlock
<1>4. CASE Socials!Handlers
  <2>0. PICK a \in Aid : \E b \in Aid \ {a} :
           \/ Socials!FriendsRequest(a, b) \/ Socials!FriendsAccept(a, b) \/ Socials!FriendsRemove(a, b)
           \/ Socials!BlockedsAdd(a, b) \/ Socials!BlockedsRemove(a, b)
    BY <1>4 DEF Socials!Handlers
  <2>1. PICK b \in Aid \ {a} :
         \/ Socials!FriendsRequest(a, b) \/ Socials!FriendsAccept(a, b) \/ Socials!FriendsRemove(a, b)
         \/ Socials!BlockedsAdd(a, b) \/ Socials!BlockedsRemove(a, b)
    BY <2>0
  <2>2. \E op \in {"request", "accept", "remove", "block", "unblock"} : Socials!Submit(op, a, b)
    BY <2>1 DEF Socials!FriendsRequest, Socials!FriendsAccept, Socials!FriendsRemove,
           Socials!BlockedsAdd, Socials!BlockedsRemove
  <2> QED
    BY <2>2, SubmitKeeps
<1>5. ASSUME NEW t \in tasks, Socials!Perform(t) PROVE SocialInv'
  <2> DEFINE a == t.by
             b == t.of
             now == Socials!Becomes(t.op)
             back == IF t.op = "request" THEN row[b][a] ELSE IF t.op = "accept" THEN "accepted" ELSE "none"
  <2>1. t \in Socials!Task /\ a \in Aid /\ b \in Aid /\ a # b
    BY DEF Socials!TypeOK, Socials!Task, TasksOfTwo
  <2>2. /\ now \in Socials!State /\ back \in Socials!State
        /\ now = "blocked" => back = "none"
        /\ back = "blocked" => now = "pending"
    BY <1>5, <2>1 DEF Socials!Becomes, Socials!State, Socials!TypeOK, Socials!Task
  <2>3. row' = [row EXCEPT ![a][b] = now, ![b][a] = back]
    BY <1>5 DEF Socials!Perform, Socials!Rows
  <2>4. /\ UNCHANGED <<loaded, loading, present>>
        /\ list' = IF t.here THEN [list EXCEPT ![a][b] = now] ELSE list
        /\ shown' = IF t.op = "request" /\ t.seen THEN [shown EXCEPT ![b] = @ \cup {a}] ELSE shown
        /\ tasks' = (tasks \ {t}) \cup IF t.op = "remove" THEN {[t EXCEPT !.op = "forget"]} ELSE {}
    BY <1>5 DEF Socials!Perform
  <2> HIDE DEF now, back
  <2>5. /\ row' \in [Aid -> [Aid -> Socials!State]]
        /\ row'[a][b] = now /\ row'[b][a] = back
        /\ \A c, d \in Aid : <<c, d>> # <<a, b>> /\ <<c, d>> # <<b, a>> => row'[c][d] = row[c][d]
    BY <2>1, <2>2, <2>3 DEF Socials!TypeOK
  <2>6. Socials!OneSidedBlock'
    BY <2>1, <2>2, <2>5 DEF Socials!OneSidedBlock
  <2>7. /\ tasks' \subseteq Socials!Task /\ TasksOfTwo'
        /\ IsFiniteSet(tasks') /\ Cardinality(tasks') <= MaxTasks
    <3>1. CASE t.op = "remove"
      <4> DEFINE u == [t EXCEPT !.op = "forget"]
      <4>1. u \in Socials!Task /\ u.by # u.of /\ tasks' = (tasks \ {t}) \cup {u}
        BY <2>1, <2>4, <3>1 DEF Socials!Task
      <4> HIDE DEF u
      <4> QED
        BY <4>1, OneTaskLess, SameCardinality DEF Socials!TypeOK, TasksOfTwo
    <3>2. CASE t.op # "remove"
      <4>1. tasks' = tasks \ {t}
        BY <2>4, <3>2
      <4> QED
        BY <4>1, OneTaskLess, SameCardinality DEF Socials!TypeOK, TasksOfTwo
    <3> QED
      BY <3>1, <3>2
  <2>8. /\ list' \in [Aid -> [Aid -> Socials!State]] /\ shown' \in [Aid -> SUBSET Aid]
    BY <2>1, <2>2, <2>4 DEF Socials!TypeOK
  <2> QED
    BY <2>4, <2>5, <2>6, <2>7, <2>8, SameCardinality DEF Socials!TypeOK
<1>6. ASSUME NEW t \in tasks, Socials!Forget(t) PROVE SocialInv'
  <2>1. t.by \in Aid /\ t.of \in Aid /\ "none" \in Socials!State
    BY DEF Socials!TypeOK, Socials!Task, Socials!State
  <2>2. IsFiniteSet(tasks') /\ Cardinality(tasks') <= MaxTasks
    BY <1>6, OneTaskLess, SameCardinality DEF Socials!Forget, Socials!TypeOK
  <2> QED
    BY <1>6, <2>1, <2>2, SameCardinality DEF Socials!Forget, Socials!TypeOK, TasksOfTwo, Socials!OneSidedBlock
<1>7. ASSUME NEW t \in tasks, Socials!Fail(t) PROVE SocialInv'
  <2>1. IsFiniteSet(tasks') /\ Cardinality(tasks') <= MaxTasks
    BY <1>7, OneTaskLess, SameCardinality DEF Socials!Fail, Socials!TypeOK
  <2> QED
    BY <1>7, <2>1, SameCardinality DEF Socials!Fail, Socials!TypeOK, TasksOfTwo, Socials!OneSidedBlock
<1>8. CASE UNCHANGED socials
  BY <1>8 DEF socials, Socials!TypeOK, TasksOfTwo, Socials!OneSidedBlock
<1> QED
  BY <1>1, <1>2, <1>3, <1>4, <1>5, <1>6, <1>7, <1>8 DEF Socials!Next

\* A task is about two players, and of two one at most has blocked the other.
THEOREM SocialsInvariance == MCSpec => []SocialInv
<1>1. MCInit => SocialInv
  BY SocialsInit DEF MCInit
<1>2. [MCNext]_<<part, arriving, together, outside>> => [Socials!Next]_socials
  BY DEF MCNext, SessionsNext, FrontNext, PartiesNext, MirrorNext, PlazasNext, SocialsNext, MailsNext,
         outside
<1> QED
  BY <1>1, <1>2, SocialsStep, PTL DEF MCSpec

\* Of two players one at most has blocked the other, and then they are no friends,
\* whichever requests, answers and blocks of the two cross.
THEOREM OneSidedBlockHolds == MCSpec => []OneSidedBlock
<1>1. SocialInv => OneSidedBlock
  BY DEF SocialInv, OneSidedBlock
<1> QED
  BY <1>1, SocialsInvariance, PTL

-----------------------------------------------------------------------------
(***************************************************************************)
(* Mails.                                                                  *)
(***************************************************************************)

\* Nothing is known of a mail that has not been sent.
UnsentUnknown ==
    \A m \in Mail!Mail : m > last =>
        mailRow[m] = None /\ data[m] = None /\ \A a \in Aid : mailLoaded[a][m] = None

\* A task that sends has a mail once the row is there; one that deletes has one that
\* was there, and knows its account for the receiver.
TasksAbout ==
    \A t \in mailTasks :
        /\ t.op = "send" /\ t.at = "database" => t.mail = 0
        /\ t.op = "send" /\ t.at = "cache" => t.mail \in 1 .. last
        /\ t.op = "delete" => t.mail \in 1 .. last
        /\ t.op = "delete" /\ mailRow[t.mail] # None /\ t.by = mailRow[t.mail].to => t.side = "receiver"

\* Whoever knows of a mail that is there knows to whom it is, and the task that sends it
\* whether it has a text.
SameReceiver ==
    \A m \in Mail!Mail : mailRow[m] # None =>
        /\ data[m] # None => data[m].to = mailRow[m].to
        /\ \A a \in Aid : mailLoaded[a][m] # None => mailLoaded[a][m].to = mailRow[m].to
        /\ \A t \in mailTasks : t.op = "send" /\ t.mail = m =>
              t.to = mailRow[m].to /\ t.text = mailRow[m].text

\* A mail that is there and that its receiver has not deleted.
ToBeSeen(m) == mailRow[m] # None /\ "receiver" \notin mailRow[m].deletedFrom

\* Such a mail is not taken for deleted anywhere.
NotDeleted ==
    \A m \in Mail!Mail : ToBeSeen(m) =>
        /\ data[m] # None => "receiver" \notin data[m].deletedFrom
        /\ \A a \in Aid : mailLoaded[a][m] # None => "receiver" \notin mailLoaded[a][m].deletedFrom
        /\ \A t \in mailTasks : t.op = "delete" /\ t.at = "cache" /\ t.mail = m => t.side = "sender"

\* And it is seen, or will be by the task that sends it, or by its receiver's login, or it
\* has no text and is not cached.
InCache(m) == recv[mailRow[m].to][m] > 0 /\ data[m] # None
BeingSent(m) == \E t \in mailTasks : t.op = "send" /\ t.mail = m
AtLogin(m) ==
    /\ mailRow[m].to \notin here
    /\ mailRow[m].to \in mailLoading => mailLoaded[mailRow[m].to][m] # None
Held(m) == ~mailRow[m].text /\ data[m] = None
Seen == \A m \in Mail!Mail : ToBeSeen(m) => InCache(m) \/ BeingSent(m) \/ AtLogin(m) \/ Held(m)

\* What is cached is in its receiver's list.
CachedIsListed == \A m \in Mail!Mail : ToBeSeen(m) /\ data[m] # None => InCache(m)

MailInv ==
    /\ Mail!TypeOK /\ UnsentUnknown /\ TasksAbout
    /\ SameReceiver /\ NotDeleted /\ Seen /\ CachedIsListed

LEMMA MailNumbers ==
    /\ Mail!Mail \subseteq Nat \ {0}
    /\ \A n \in 0 .. MaxMail : \A m \in 1 .. n : m \in Mail!Mail
BY MailAssumption DEF Mail!Mail

\* A mail record is one, and is not None.
LEMMA MailRecord ==
    ASSUME NEW r \in Mail!MailRow
    PROVE  /\ r # None /\ r.from \in Aid \cup {NoAccount} /\ r.to \in Aid
           /\ r.deletedFrom \subseteq {"sender", "receiver"}
BY MailAssumption DEF Mail!MailRow, Mail!Owner

LEMMA TableEntry ==
    ASSUME NEW T \in Mail!Table, NEW m \in Mail!Mail
    PROVE  /\ T[m] = None \/ T[m] \in Mail!MailRow
           /\ T[m] # None => T[m] \in Mail!MailRow /\ T[m].to \in Aid
BY MailRecord DEF Mail!Table

LEMMA MailsInit == Mail!Init => MailInv
<1> SUFFICES ASSUME Mail!Init PROVE MailInv
  OBVIOUS
<1> USE MailAssumption
<1>1. mailRow \in Mail!Table /\ \A m \in Mail!Mail : m > last => mailRow[m] = None
  BY DEF Mail!Init, Mail!Table, Mail!Stored
<1>2. Mail!Empty \in Mail!Table /\ \A m \in Mail!Mail : Mail!Empty[m] = None
  BY DEF Mail!Empty, Mail!Table
<1>3. Mail!NoMail \in [Mail!Mail -> Nat]
  BY DEF Mail!NoMail
<1>4. Mail!TypeOK
  BY <1>1, <1>2, <1>3 DEF Mail!Init, Mail!TypeOK
<1>5. UnsentUnknown /\ SameReceiver /\ NotDeleted
  BY <1>1, <1>2 DEF Mail!Init, UnsentUnknown, SameReceiver, NotDeleted
<1>6. Seen /\ CachedIsListed
  BY <1>2, <1>4 DEF Mail!Init, Seen, AtLogin, CachedIsListed
<1> QED
  BY <1>4, <1>5, <1>6 DEF MailInv, TasksAbout, Mail!Init

-----------------------------------------------------------------------------
\* Sessions.

LEMMA MailLoadKeeps ==
    ASSUME MailInv, NEW a \in Aid, Mail!Load(a) PROVE MailInv'
<1> USE DEF MailInv
<1> DEFINE mine == [m \in Mail!Mail |->
                       IF m \in Mail!There(mailRow) /\ a \in {mailRow[m].from, mailRow[m].to}
                       THEN mailRow[m] ELSE None]
<1>1. /\ mailLogins' = mailLogins + 1 /\ mailLogins < MaxMailLogins /\ a \notin here
      /\ mailLoading' = mailLoading \cup {a} /\ mailLoaded' = [mailLoaded EXCEPT ![a] = mine]
      /\ UNCHANGED <<mailRow, last, data, sent, recv, here, mailTasks>>
  BY DEF Mail!Load, Mail!cache
<1>2. mine \in Mail!Table
  BY TableEntry DEF Mail!TypeOK, Mail!Table
<1>3. /\ \A m \in Mail!Mail : mine[m] # None => mine[m] = mailRow[m]
      /\ \A m \in Mail!Mail : mailRow[m] # None /\ mailRow[m].to = a => mine[m] = mailRow[m]
  BY DEF Mail!There
<1> HIDE DEF mine
<1>4. \A b \in Aid : mailLoaded'[b] = IF b = a THEN mine ELSE mailLoaded[b]
  BY <1>1 DEF Mail!TypeOK
<1>5. Mail!TypeOK'
  BY <1>1, <1>2, MailAssumption DEF Mail!TypeOK
<1>6. UnsentUnknown' /\ TasksAbout'
  BY <1>1, <1>3, <1>4 DEF UnsentUnknown, TasksAbout
<1>7. SameReceiver'
  BY <1>1, <1>3, <1>4 DEF SameReceiver
<1>8. NotDeleted' /\ CachedIsListed'
  BY <1>1, <1>3, <1>4 DEF NotDeleted, CachedIsListed, InCache, ToBeSeen
<1>9. Seen'
  <2> SUFFICES ASSUME NEW m \in Mail!Mail, ToBeSeen(m) PROVE (InCache(m) \/ BeingSent(m) \/ AtLogin(m) \/ Held(m))'
    BY <1>1 DEF Seen, ToBeSeen
  <2>1. InCache(m) \/ BeingSent(m) \/ AtLogin(m) \/ Held(m)
    BY DEF Seen
  <2>2. mailRow[m].to \in Aid
    BY TableEntry DEF Mail!TypeOK, ToBeSeen
  <2> QED
    BY <1>1, <1>3, <1>4, <2>1, <2>2 DEF InCache, BeingSent, AtLogin, Held, ToBeSeen
<1> QED
  BY <1>5, <1>6, <1>7, <1>8, <1>9

\* A mail that is cached stays cached, in lists that only get longer.
LEMMA AddedIsMore ==
    ASSUME NEW counts \in [Mail!Mail -> Nat], NEW more
    PROVE  /\ Mail!Added(counts, more) \in [Mail!Mail -> Nat]
           /\ \A m \in Mail!Mail : Mail!Added(counts, more)[m] >= counts[m]
           /\ \A m \in Mail!Mail : m \in more => Mail!Added(counts, more)[m] > 0
BY DEF Mail!Added

LEMMA CachedIsMore ==
    ASSUME NEW T \in Mail!Table, data \in Mail!Table
    PROVE  /\ Mail!Cached(T) \in Mail!Table
           /\ \A m \in Mail!Mail : Mail!Cached(T)[m] = IF data[m] = None THEN T[m] ELSE data[m]
BY DEF Mail!Cached, Mail!Table

LEMMA MailLoginKeeps ==
    ASSUME MailInv, NEW a \in Aid, Mail!Login(a) PROVE MailInv'
<1> USE DEF MailInv
<1> DEFINE kept(side) == {m \in Mail!There(mailLoaded[a]) : side \notin mailLoaded[a][m].deletedFrom}
           of(b, side) == {m \in kept(side) : b = IF side = "sender" THEN mailLoaded[a][m].from
                                                  ELSE mailLoaded[a][m].to}
<1>1. /\ a \in mailLoading /\ mailLoading' = mailLoading \ {a} /\ here' = here \cup {a}
      /\ data' = Mail!Cached(mailLoaded[a])
      /\ sent' = [b \in Mail!Owner |-> Mail!Added(sent[b], of(b, "sender"))]
      /\ recv' = [b \in Aid |-> Mail!Added(recv[b], of(b, "receiver"))]
      /\ mailLoaded' = [mailLoaded EXCEPT ![a] = Mail!Empty]
      /\ UNCHANGED <<mailRow, last, mailLogins, mailTasks>>
  BY DEF Mail!Login
<1>2. \A m \in Mail!Mail : /\ mailLoaded[a][m] # None
                           /\ "receiver" \notin mailLoaded[a][m].deletedFrom
                           => m \in of(mailLoaded[a][m].to, "receiver")
  BY DEF Mail!There
<1> HIDE DEF of
<1>3. mailLoaded[a] \in Mail!Table /\ data \in Mail!Table /\ mailRow \in Mail!Table
  BY DEF Mail!TypeOK
<1>4. /\ data' \in Mail!Table
      /\ \A m \in Mail!Mail : data'[m] = IF data[m] = None THEN mailLoaded[a][m] ELSE data[m]
  BY <1>1, <1>3, CachedIsMore
<1>5. sent' \in [Mail!Owner -> [Mail!Mail -> Nat]]
  BY <1>1, AddedIsMore DEF Mail!TypeOK
<1>6. /\ recv' \in [Aid -> [Mail!Mail -> Nat]]
      /\ \A b \in Aid, m \in Mail!Mail : recv'[b][m] >= recv[b][m]
      /\ \A b \in Aid, m \in Mail!Mail : m \in of(b, "receiver") => recv'[b][m] > 0
  BY <1>1, AddedIsMore DEF Mail!TypeOK
<1>7. /\ Mail!Empty \in Mail!Table
      /\ \A b \in Aid : b # a => mailLoaded'[b] = mailLoaded[b]
      /\ \A m \in Mail!Mail : mailLoaded'[a][m] = None
  BY <1>1 DEF Mail!Empty, Mail!Table, Mail!TypeOK
<1>8. Mail!TypeOK'
  BY <1>1, <1>4, <1>5, <1>6, <1>7 DEF Mail!TypeOK
<1>9. UnsentUnknown' /\ TasksAbout'
  BY <1>1, <1>4, <1>7 DEF UnsentUnknown, TasksAbout
<1>10. SameReceiver'
  BY <1>1, <1>4, <1>7 DEF SameReceiver
<1>11. NotDeleted'
  BY <1>1, <1>4, <1>7 DEF NotDeleted, ToBeSeen
<1>12. Seen'
  <2> SUFFICES ASSUME NEW m \in Mail!Mail, ToBeSeen(m) PROVE (InCache(m) \/ BeingSent(m) \/ AtLogin(m) \/ Held(m))'
    BY <1>1 DEF Seen, ToBeSeen
  <2> DEFINE b == mailRow[m].to
  <2>1. b \in Aid /\ recv[b][m] \in Nat /\ recv'[b][m] \in Nat
    BY <1>3, <1>6, TableEntry DEF ToBeSeen, Mail!TypeOK
  <2>2. CASE InCache(m)
    BY <1>1, <1>4, <1>6, <2>1, <2>2 DEF InCache
  <2>3. CASE BeingSent(m)
    BY <1>1, <2>3 DEF BeingSent
  <2>4. CASE AtLogin(m) /\ b = a
    <3>1. mailLoaded[a][m] # None
      BY <1>1, <2>4 DEF AtLogin
    <3>2. "receiver" \notin mailLoaded[a][m].deletedFrom /\ mailLoaded[a][m].to = b
      BY <3>1 DEF NotDeleted, SameReceiver, ToBeSeen
    <3>3. recv'[b][m] > 0 /\ data'[m] # None
      BY <1>2, <1>4, <1>6, <2>1, <3>1, <3>2
    <3> QED
      BY <1>1, <3>3 DEF InCache
  <2>5. CASE AtLogin(m) /\ b # a
    BY <1>1, <1>7, <2>1, <2>5 DEF AtLogin
  <2>6. CASE Held(m)
    <3>1. CASE mailLoaded[a][m] = None
      BY <1>1, <1>4, <2>6, <3>1 DEF Held
    <3>2. CASE mailLoaded[a][m] # None
      <4>1. "receiver" \notin mailLoaded[a][m].deletedFrom /\ mailLoaded[a][m].to = b
        BY <3>2 DEF NotDeleted, SameReceiver, ToBeSeen
      <4>2. recv'[b][m] > 0 /\ data'[m] # None
        BY <1>2, <1>4, <1>6, <2>1, <3>2, <4>1
      <4> QED
        BY <1>1, <4>2 DEF InCache
    <3> QED
      BY <3>1, <3>2
  <2> QED
    BY <2>2, <2>3, <2>4, <2>5, <2>6 DEF Seen
<1>13. CachedIsListed'
  <2> SUFFICES ASSUME NEW m \in Mail!Mail, ToBeSeen(m), data'[m] # None PROVE InCache(m)'
    BY <1>1 DEF CachedIsListed, ToBeSeen
  <2> DEFINE b == mailRow[m].to
  <2>1. b \in Aid /\ recv[b][m] \in Nat /\ recv'[b][m] \in Nat
    BY <1>3, <1>6, TableEntry DEF ToBeSeen, Mail!TypeOK
  <2>2. recv[b][m] > 0 => recv'[b][m] > 0
    <3>1. recv'[b][m] >= recv[b][m]
      BY <1>6, <2>1
    <3> QED
      BY <2>1, <3>1
  <2>3. CASE data[m] # None
    BY <1>1, <2>2, <2>3 DEF CachedIsListed, InCache
  <2>4. CASE data[m] = None
    <3>1. mailLoaded[a][m] # None
      BY <1>4, <2>4
    <3>2. "receiver" \notin mailLoaded[a][m].deletedFrom /\ mailLoaded[a][m].to = b
      BY <3>1 DEF NotDeleted, SameReceiver, ToBeSeen
    <3>3. recv'[b][m] > 0
      BY <1>2, <1>6, <2>1, <3>1, <3>2
    <3> QED
      BY <1>1, <3>3 DEF InCache
  <2> QED
    BY <2>3, <2>4
<1> QED
  BY <1>8, <1>9, <1>10, <1>11, <1>12, <1>13

LEMMA MailLogoffKeeps ==
    ASSUME MailInv, NEW a \in Aid, Mail!Logoff(a) PROVE MailInv'
<1> USE DEF MailInv
<1> DEFINE f == [t \in mailTasks |-> [t EXCEPT !.here = @ /\ t.by # a]]
<1>1. /\ here' = here \ {a} /\ mailTasks' = {f[t] : t \in mailTasks}
      /\ UNCHANGED <<mailRow, last, data, sent, recv, mailLoaded, mailLoading, mailLogins>>
  BY DEF Mail!Logoff, Mail!cache
<1>2. \A t \in mailTasks :
         /\ f[t] \in Mail!Task
         /\ f[t].op = t.op /\ f[t].by = t.by /\ f[t].to = t.to /\ f[t].text = t.text /\ f[t].mail = t.mail
         /\ f[t].side = t.side /\ f[t].at = t.at
  <2> TAKE t \in mailTasks
  <2>1. t \in Mail!Task
    BY DEF Mail!TypeOK
  <2>2. PICK h \in BOOLEAN : h = (t.here /\ t.by # a)
    OBVIOUS
  <2>3. f[t] = [t EXCEPT !.here = h]
    BY <2>2, Zenon
  <2> HIDE DEF f
  <2> QED
    BY <2>1, <2>3 DEF Mail!Task
<1> HIDE DEF f
<1>3. Mail!TypeOK'
  BY <1>1, <1>2 DEF Mail!TypeOK
<1>4. UnsentUnknown' /\ SameReceiver'
  BY <1>1, <1>2 DEF UnsentUnknown, SameReceiver
<1>5. TasksAbout'
  BY <1>1, <1>2 DEF TasksAbout
<1>6. NotDeleted' /\ CachedIsListed'
  BY <1>1, <1>2 DEF NotDeleted, CachedIsListed, InCache, ToBeSeen
<1>7. Seen'
  BY <1>1, <1>2 DEF Seen, ToBeSeen, InCache, BeingSent, AtLogin, Held
<1> QED
  BY <1>3, <1>4, <1>5, <1>6, <1>7

-----------------------------------------------------------------------------
\* Handlers and tasks.

LEMMA MailSendKeeps ==
    ASSUME MailInv, NEW a \in Aid, NEW b \in Aid, NEW text \in BOOLEAN, Mail!MailSend(a, b, text)
    PROVE  MailInv'
<1> USE DEF MailInv
<1> DEFINE t == [op |-> "send", by |-> a, to |-> b, text |-> text, mail |-> 0, side |-> "sender",
                 at |-> "database", here |-> TRUE]
<1>1. mailTasks' = mailTasks \cup {t} /\ UNCHANGED <<mailRow, last, data, sent, recv, here, mailLoaded, mailLoading, mailLogins>>
  BY DEF Mail!MailSend, Mail!Submit, Mail!cache, Mail!login
<1>2. t \in Mail!Task /\ t.op = "send" /\ t.at = "database" /\ t.mail = 0
  BY DEF Mail!Task
<1> HIDE DEF t
<1>3. Mail!TypeOK'
  BY <1>1, <1>2 DEF Mail!TypeOK
<1>4. UnsentUnknown' /\ TasksAbout'
  BY <1>1, <1>2 DEF UnsentUnknown, TasksAbout
<1>5. SameReceiver'
  BY <1>1, <1>2, MailNumbers DEF SameReceiver
<1>6. NotDeleted' /\ Seen' /\ CachedIsListed'
  BY <1>1, <1>2 DEF NotDeleted, Seen, CachedIsListed, ToBeSeen, InCache, BeingSent, AtLogin, Held
<1> QED
  BY <1>3, <1>4, <1>5, <1>6

LEMMA MailDeleteKeeps ==
    ASSUME MailInv, NEW a \in Aid, NEW m \in Mail!Mail, Mail!MailDelete(a, m) PROVE MailInv'
<1> USE DEF MailInv
<1> DEFINE t == [op |-> "delete", by |-> a, to |-> data[m].to, text |-> FALSE, mail |-> m,
                 side |-> IF data[m].to = a THEN "receiver" ELSE "sender",
                 at |-> "database", here |-> TRUE]
<1>1. /\ data[m] # None /\ mailTasks' = mailTasks \cup {t}
      /\ UNCHANGED <<mailRow, last, data, sent, recv, here, mailLoaded, mailLoading, mailLogins>>
  BY DEF Mail!MailDelete, Mail!Submit, Mail!cache, Mail!login
<1>2. data[m].to \in Aid
  BY <1>1, TableEntry DEF Mail!TypeOK
<1>3. /\ t \in Mail!Task /\ t.op = "delete" /\ t.at = "database" /\ t.mail = m /\ t.by = a
      /\ data[m].to = a => t.side = "receiver"
  BY <1>2 DEF Mail!Task
<1> HIDE DEF t
<1>4. m \in 1 .. last
  <2>1. ~(m > last) /\ m \in Nat \ {0} /\ last \in Nat
    BY <1>1, MailNumbers, MailAssumption DEF UnsentUnknown, Mail!TypeOK
  <2> QED
    BY <2>1
<1>5. Mail!TypeOK'
  BY <1>1, <1>3 DEF Mail!TypeOK
<1>6. UnsentUnknown'
  BY <1>1 DEF UnsentUnknown
<1>7. TasksAbout'
  BY <1>1, <1>3, <1>4 DEF TasksAbout, SameReceiver
<1>8. SameReceiver'
  BY <1>1, <1>3 DEF SameReceiver
<1>9. NotDeleted' /\ Seen' /\ CachedIsListed'
  BY <1>1, <1>3 DEF NotDeleted, Seen, CachedIsListed, ToBeSeen, InCache, BeingSent, AtLogin, Held
<1> QED
  BY <1>5, <1>6, <1>7, <1>8, <1>9

\* A new mail is the sender's task's to deliver.
LEMMA InsertRowKeeps ==
    ASSUME MailInv, NEW t \in mailTasks, Mail!InsertRow(t) PROVE MailInv'
<1> USE DEF MailInv
<1> DEFINE n == last + 1
           new == [from |-> t.by, to |-> t.to, text |-> t.text, deletedFrom |-> {}]
           u == [t EXCEPT !.mail = n, !.at = "cache"]
<1>1. /\ t.op = "send" /\ t.at = "database" /\ last < MaxMail /\ last' = n
      /\ mailRow' = [mailRow EXCEPT ![n] = new] /\ mailTasks' = (mailTasks \ {t}) \cup {u}
      /\ UNCHANGED <<data, sent, recv, here, mailLoaded, mailLoading, mailLogins>>
  BY DEF Mail!InsertRow, Mail!Moves, Mail!cache, Mail!login
<1>2. n \in Mail!Mail /\ last \in Nat /\ n > last /\ n <= MaxMail
  BY <1>1, MailAssumption DEF Mail!TypeOK, Mail!Mail
<1>3. t \in Mail!Task /\ t.mail = 0
  BY <1>1 DEF Mail!TypeOK, TasksAbout
<1>4. /\ new \in Mail!MailRow /\ new # None /\ new.to = t.to /\ "receiver" \notin new.deletedFrom
      /\ new.text = t.text /\ u.text = t.text
      /\ u \in Mail!Task /\ u.op = "send" /\ u.at = "cache" /\ u.mail = n /\ u.to = t.to
  <2>1. t.by \in Aid /\ t.to \in Aid /\ t.text \in BOOLEAN
    BY <1>3 DEF Mail!Task
  <2>2. new \in Mail!MailRow
    BY <2>1 DEF Mail!MailRow, Mail!Owner
  <2>3. new # None
    BY <2>2, MailAssumption
  <2>4. n \in Mail!Mail \cup {0}
    BY <1>2
  <2>5. /\ u \in Mail!Task /\ u.op = "send" /\ u.at = "cache" /\ u.mail = n /\ u.to = t.to
        /\ u.text = t.text
    <3> HIDE DEF n
    <3> QED
      BY <1>1, <1>3, <2>4 DEF Mail!Task
  <2> QED
    BY <2>2, <2>3, <2>5
<1> HIDE DEF new, u
<1>5. /\ mailRow'[n] = new /\ \A m \in Mail!Mail : m # n => mailRow'[m] = mailRow[m]
      /\ mailRow' \in Mail!Table
  BY <1>1, <1>2, <1>4 DEF Mail!TypeOK, Mail!Table
<1>6. data[n] = None /\ \A a \in Aid : mailLoaded[a][n] = None
  BY <1>2 DEF UnsentUnknown
<1>7. \A v \in mailTasks : v.mail # n
  <2> TAKE v \in mailTasks
  <2>1. v.mail = 0 \/ v.mail \in 1 .. last
    BY DEF TasksAbout, Mail!TypeOK, Mail!Task
  <2> QED
    BY <1>2, <2>1
<1>8. \A m \in Mail!Mail : m # n => (m > last' <=> m > last)
  BY <1>1, <1>2, MailNumbers
<1>9. Mail!TypeOK'
  BY <1>1, <1>2, <1>4, <1>5 DEF Mail!TypeOK
<1>10. UnsentUnknown'
  BY <1>1, <1>2, <1>5, <1>8 DEF UnsentUnknown
<1>11. TasksAbout'
  <2> SUFFICES ASSUME NEW v \in mailTasks'
               PROVE  /\ v.op = "send" /\ v.at = "database" => v.mail = 0
                      /\ v.op = "send" /\ v.at = "cache" => v.mail \in 1 .. last'
                      /\ v.op = "delete" => v.mail \in 1 .. last'
                      /\ v.op = "delete" /\ mailRow'[v.mail] # None /\ v.by = mailRow'[v.mail].to
                            => v.side = "receiver"
    BY DEF TasksAbout
  <2>1. CASE v = u
    BY <1>1, <1>2, <1>4, <2>1
  <2>2. CASE v \in mailTasks
    <3>1. v.op = "delete" => v.mail \in Mail!Mail /\ mailRow'[v.mail] = mailRow[v.mail]
      BY <1>2, <1>5, <1>7, <2>2, MailNumbers DEF TasksAbout, Mail!TypeOK
    <3>2. 1 .. last \subseteq 1 .. last'
      BY <1>1, <1>2
    <3> QED
      BY <2>2, <3>1, <3>2 DEF TasksAbout
  <2> QED
    BY <1>1, <2>1, <2>2
<1>12. SameReceiver'
  BY <1>1, <1>3, <1>4, <1>5, <1>6, <1>7 DEF SameReceiver
<1>13. NotDeleted' /\ CachedIsListed'
  BY <1>1, <1>4, <1>5, <1>6, <1>7 DEF NotDeleted, CachedIsListed, InCache, ToBeSeen
<1>14. Seen'
  <2> SUFFICES ASSUME NEW m \in Mail!Mail, ToBeSeen(m)' PROVE (InCache(m) \/ BeingSent(m) \/ AtLogin(m) \/ Held(m))'
    BY DEF Seen
  <2>1. CASE m = n
    BY <1>1, <1>4, <2>1 DEF BeingSent
  <2>2. CASE m # n
    <3>1. mailRow'[m] = mailRow[m] /\ ToBeSeen(m)
      BY <1>5, <2>2 DEF ToBeSeen
    <3>2. BeingSent(m) => BeingSent(m)'
      BY <1>1, <1>3, MailNumbers DEF BeingSent
    <3> QED
      BY <1>1, <3>1, <3>2 DEF Seen, InCache, AtLogin, Held
  <2> QED
    BY <2>1, <2>2
<1> QED
  BY <1>9, <1>10, <1>11, <1>12, <1>13, <1>14

\* A mail that is deleted in the database was so by its receiver if the task says so.
LEMMA DeleteRowKeeps ==
    ASSUME MailInv, NEW t \in mailTasks, Mail!DeleteRow(t) PROVE MailInv'
<1> USE DEF MailInv
<1> DEFINE n == t.mail
           new == IF mailRow[n] = None \/ mailRow[n].deletedFrom \ {t.side} # {} THEN None
                  ELSE [mailRow[n] EXCEPT !.deletedFrom = {t.side}]
           u == [t EXCEPT !.at = "cache"]
<1>1. /\ t.op = "delete" /\ t.at = "database"
      /\ mailRow' = [mailRow EXCEPT ![n] = new] /\ mailTasks' = (mailTasks \ {t}) \cup {u}
      /\ UNCHANGED <<last, data, sent, recv, here, mailLoaded, mailLoading, mailLogins>>
  BY DEF Mail!DeleteRow, Mail!Moves, Mail!cache, Mail!login
<1>2. t \in Mail!Task /\ n \in 1 .. last /\ n \in Mail!Mail /\ last \in 0 .. MaxMail
  BY <1>1, MailNumbers DEF Mail!TypeOK, TasksAbout
<1>3. mailRow[n] # None => mailRow[n] \in Mail!MailRow
  BY <1>2, TableEntry DEF Mail!TypeOK
<1>4. /\ new \in Mail!MailRow \cup {None}
      /\ new # None => /\ mailRow[n] # None /\ new.to = mailRow[n].to /\ new.text = mailRow[n].text
                       /\ new.deletedFrom = {t.side}
                       /\ mailRow[n].deletedFrom \subseteq {t.side}
  BY <1>2, <1>3 DEF Mail!MailRow, Mail!Task
<1>5. /\ u \in Mail!Task /\ u.op = "delete" /\ u.at = "cache" /\ u.mail = n /\ u.by = t.by
      /\ u.side = t.side
  BY <1>1, <1>2 DEF Mail!Task
<1> HIDE DEF new, u
<1>6. /\ mailRow'[n] = new /\ \A m \in Mail!Mail : m # n => mailRow'[m] = mailRow[m]
      /\ mailRow' \in Mail!Table
  BY <1>1, <1>2, <1>4 DEF Mail!TypeOK, Mail!Table
<1>7. \A m \in Mail!Mail :
         /\ mailRow'[m] # None => /\ mailRow[m] # None /\ mailRow'[m].to = mailRow[m].to
                                  /\ mailRow'[m].text = mailRow[m].text
         /\ ToBeSeen(m)' => ToBeSeen(m) /\ (m = n => t.side = "sender")
  BY <1>2, <1>4, <1>6 DEF ToBeSeen, Mail!Task
<1>8. Mail!TypeOK'
  BY <1>1, <1>5, <1>6 DEF Mail!TypeOK
<1>9. UnsentUnknown'
  BY <1>1, <1>7 DEF UnsentUnknown
<1>10. TasksAbout'
  <2> SUFFICES ASSUME NEW v \in mailTasks'
               PROVE  /\ v.op = "send" /\ v.at = "database" => v.mail = 0
                      /\ v.op = "send" /\ v.at = "cache" => v.mail \in 1 .. last
                      /\ v.op = "delete" => v.mail \in 1 .. last
                      /\ v.op = "delete" /\ mailRow'[v.mail] # None /\ v.by = mailRow'[v.mail].to
                            => v.side = "receiver"
    BY <1>1 DEF TasksAbout
  <2>1. v.op = "delete" => v.mail \in Mail!Mail
    BY <1>1, <1>2, <1>5, MailNumbers DEF TasksAbout
  <2> QED
    BY <1>1, <1>2, <1>5, <1>7, <2>1 DEF TasksAbout
<1>11. SameReceiver'
  BY <1>1, <1>5, <1>7 DEF SameReceiver
<1>12. NotDeleted' /\ CachedIsListed'
  <2>1. \A m \in Mail!Mail : ToBeSeen(m)' => mailRow'[m] # None
    BY DEF ToBeSeen
  <2> QED
    BY <1>1, <1>5, <1>7, <2>1 DEF NotDeleted, CachedIsListed, InCache
<1>13. Seen'
  <2> SUFFICES ASSUME NEW m \in Mail!Mail, ToBeSeen(m)' PROVE (InCache(m) \/ BeingSent(m) \/ AtLogin(m) \/ Held(m))'
    BY DEF Seen
  <2>1. ToBeSeen(m) /\ mailRow'[m].to = mailRow[m].to /\ mailRow'[m].text = mailRow[m].text
    BY <1>7 DEF ToBeSeen
  <2> QED
    BY <1>1, <2>1 DEF Seen, InCache, BeingSent, AtLogin, Held
<1> QED
  BY <1>8, <1>9, <1>10, <1>11, <1>12, <1>13

LEMMA MailFailKeeps ==
    ASSUME MailInv, NEW t \in mailTasks, Mail!Fail(t) PROVE MailInv'
<1> USE DEF MailInv
<1>1. /\ t.at = "database" /\ mailTasks' = mailTasks \ {t}
      /\ UNCHANGED <<mailRow, last, data, sent, recv, here, mailLoaded, mailLoading, mailLogins>>
  BY DEF Mail!Fail, Mail!cache, Mail!login
<1>2. /\ Mail!TypeOK' /\ UnsentUnknown' /\ TasksAbout'
      /\ SameReceiver' /\ NotDeleted' /\ CachedIsListed'
  BY <1>1
  DEF Mail!TypeOK, UnsentUnknown, TasksAbout, SameReceiver, NotDeleted, CachedIsListed, InCache, ToBeSeen
<1>3. \A m \in Mail!Mail : BeingSent(m) => BeingSent(m)'
  BY <1>1, MailNumbers DEF BeingSent, TasksAbout
<1> QED
  BY <1>1, <1>2, <1>3 DEF Seen, ToBeSeen, InCache, AtLogin, Held

LEMMA FreshIsRow ==
    ASSUME NEW t \in Mail!Task
    PROVE  /\ Mail!Fresh(t) \in Mail!MailRow /\ Mail!Fresh(t) # None
           /\ Mail!Fresh(t).to = t.to /\ Mail!Fresh(t).deletedFrom = {}
<1>1. t.by \in Aid /\ t.to \in Aid /\ t.text \in BOOLEAN /\ Mail!Actor(t) \in Mail!Owner
  BY DEF Mail!Task, Mail!Actor, Mail!Owner
<1>2. Mail!Fresh(t) \in Mail!MailRow
  BY <1>1 DEF Mail!Fresh, Mail!MailRow
<1> QED
  BY <1>2, MailAssumption DEF Mail!Fresh

\* A mail with a text is cached, ...
LEMMA ApplyTextKeeps ==
    ASSUME MailInv, NEW t \in mailTasks, Mail!ApplySend(t), t.text PROVE MailInv'
<1> USE DEF MailInv
<1> DEFINE fresh == Mail!Fresh(t)
           T == [m \in Mail!Mail |-> IF m = t.mail THEN fresh ELSE None]
<1>1. /\ t.op = "send" /\ t.at = "cache"
      /\ sent' = [sent EXCEPT ![Mail!Actor(t)] = Mail!Added(sent[Mail!Actor(t)], {t.mail})]
      /\ recv' = [recv EXCEPT ![t.to] = Mail!Added(recv[t.to], {t.mail})]
      /\ data' = Mail!Cached(T) /\ mailTasks' = mailTasks \ {t}
      /\ UNCHANGED <<mailRow, last, here, mailLoaded, mailLoading, mailLogins>>
  BY DEF Mail!ApplySend, Mail!Delivered, Mail!login
<1>2. /\ t \in Mail!Task /\ t.to \in Aid /\ t.mail \in 1 .. last /\ t.mail \in Mail!Mail
      /\ Mail!Actor(t) \in Mail!Owner
  BY <1>1, MailNumbers DEF Mail!TypeOK, TasksAbout, Mail!Task, Mail!Actor, Mail!Owner
<1>3. fresh \in Mail!MailRow /\ fresh # None /\ fresh.to = t.to /\ fresh.deletedFrom = {}
  BY <1>2, FreshIsRow
<1> HIDE DEF fresh
<1>4. T \in Mail!Table /\ data \in Mail!Table /\ mailRow \in Mail!Table
  BY <1>3 DEF Mail!Table, Mail!TypeOK
<1>5. /\ data' \in Mail!Table
      /\ \A m \in Mail!Mail : data'[m] = IF data[m] = None THEN IF m = t.mail THEN fresh ELSE None
                                         ELSE data[m]
  <2>1. data' \in Mail!Table
        /\ \A m \in Mail!Mail : data'[m] = IF data[m] = None THEN T[m] ELSE data[m]
    <3> HIDE DEF T
    <3> QED
      BY <1>1, <1>4, CachedIsMore
  <2> QED
    BY <2>1
<1> HIDE DEF T
<1>6. /\ recv' \in [Aid -> [Mail!Mail -> Nat]] /\ sent' \in [Mail!Owner -> [Mail!Mail -> Nat]]
      /\ \A b \in Aid, m \in Mail!Mail : recv'[b][m] >= recv[b][m]
      /\ recv'[t.to][t.mail] > 0
  <2>1. /\ recv[t.to] \in [Mail!Mail -> Nat] /\ sent[Mail!Actor(t)] \in [Mail!Mail -> Nat]
        /\ \A b \in Aid, m \in Mail!Mail : recv[b][m] \in Nat
    BY <1>2 DEF Mail!TypeOK
  <2>2. /\ Mail!Added(recv[t.to], {t.mail}) \in [Mail!Mail -> Nat]
        /\ Mail!Added(sent[Mail!Actor(t)], {t.mail}) \in [Mail!Mail -> Nat]
        /\ \A m \in Mail!Mail : Mail!Added(recv[t.to], {t.mail})[m] >= recv[t.to][m]
        /\ Mail!Added(recv[t.to], {t.mail})[t.mail] > 0
    BY <1>2, <2>1, AddedIsMore
  <2> DEFINE longer == Mail!Added(recv[t.to], {t.mail})
             other == Mail!Added(sent[Mail!Actor(t)], {t.mail})
  <2>3. /\ recv' = [recv EXCEPT ![t.to] = longer] /\ sent' = [sent EXCEPT ![Mail!Actor(t)] = other]
        /\ longer \in [Mail!Mail -> Nat] /\ other \in [Mail!Mail -> Nat]
        /\ \A m \in Mail!Mail : longer[m] >= recv[t.to][m]
        /\ longer[t.mail] > 0
    BY <1>1, <2>2
  <2> HIDE DEF longer, other
  <2>4. \A b \in Aid : recv'[b] = IF b = t.to THEN longer ELSE recv[b]
    BY <2>3 DEF Mail!TypeOK
  <2>5. \A b \in Aid, m \in Mail!Mail : recv[b][m] >= recv[b][m]
    BY <2>1
  <2>6. recv' \in [Aid -> [Mail!Mail -> Nat]] /\ sent' \in [Mail!Owner -> [Mail!Mail -> Nat]]
    BY <1>2, <2>3 DEF Mail!TypeOK
  <2> QED
    BY <1>2, <2>3, <2>4, <2>5, <2>6
<1>7. Mail!TypeOK'
  BY <1>1, <1>5, <1>6 DEF Mail!TypeOK
<1>8. UnsentUnknown'
  <2>1. last \in Nat /\ ~(t.mail > last)
    BY <1>2, MailAssumption DEF Mail!TypeOK
  <2> QED
    BY <1>1, <1>5, <2>1 DEF UnsentUnknown
<1>9. TasksAbout'
  BY <1>1 DEF TasksAbout
<1>10. SameReceiver'
  BY <1>1, <1>3, <1>5 DEF SameReceiver
<1>11. NotDeleted'
  BY <1>1, <1>3, <1>5 DEF NotDeleted, ToBeSeen
<1>12. Seen'
  <2> SUFFICES ASSUME NEW m \in Mail!Mail, ToBeSeen(m) PROVE (InCache(m) \/ BeingSent(m) \/ AtLogin(m) \/ Held(m))'
    BY <1>1 DEF Seen, ToBeSeen
  <2> DEFINE b == mailRow[m].to
  <2>1. b \in Aid /\ recv[b][m] \in Nat /\ recv'[b][m] \in Nat
    BY <1>4, <1>6, TableEntry DEF ToBeSeen, Mail!TypeOK
  <2>2. CASE m = t.mail
    <3>1. t.to = b
      BY <1>1, <2>2 DEF SameReceiver, ToBeSeen
    <3> QED
      BY <1>1, <1>3, <1>5, <1>6, <2>2, <3>1 DEF InCache
  <2>3. CASE m # t.mail /\ InCache(m)
    <3>1. recv[b][m] > 0 /\ recv'[b][m] >= recv[b][m]
      BY <1>6, <2>1, <2>3 DEF InCache
    <3>2. recv'[b][m] > 0
      BY <2>1, <3>1
    <3>3. data'[m] # None
      BY <1>5, <2>3 DEF InCache
    <3> QED
      BY <1>1, <3>2, <3>3 DEF InCache
  <2>4. CASE m # t.mail /\ BeingSent(m)
    BY <1>1, <2>4 DEF BeingSent
  <2>5. CASE AtLogin(m)
    BY <1>1, <2>5 DEF AtLogin
  <2>6. CASE m # t.mail /\ Held(m)
    BY <1>1, <1>5, <2>6 DEF Held
  <2> QED
    BY <2>2, <2>3, <2>4, <2>5, <2>6 DEF Seen
<1>13. CachedIsListed'
  <2> SUFFICES ASSUME NEW m \in Mail!Mail, ToBeSeen(m), data'[m] # None PROVE InCache(m)'
    BY <1>1 DEF CachedIsListed, ToBeSeen
  <2> DEFINE b == mailRow[m].to
  <2>1. b \in Aid /\ recv[b][m] \in Nat /\ recv'[b][m] \in Nat
    BY <1>4, <1>6, TableEntry DEF ToBeSeen, Mail!TypeOK
  <2>2. recv[b][m] > 0 => recv'[b][m] > 0
    <3>1. recv'[b][m] >= recv[b][m]
      BY <1>6, <2>1
    <3> QED
      BY <2>1, <3>1
  <2>3. CASE data[m] # None
    BY <1>1, <2>2, <2>3 DEF CachedIsListed, InCache
  <2>4. CASE data[m] = None
    <3>1. m = t.mail
      BY <1>5, <2>4
    <3>2. t.to = b
      BY <1>1, <3>1 DEF SameReceiver, ToBeSeen
    <3> QED
      BY <1>1, <1>6, <3>1, <3>2 DEF InCache
  <2> QED
    BY <2>3, <2>4
<1> QED
  BY <1>7, <1>8, <1>9, <1>10, <1>11, <1>12, <1>13

\* ... and one without is held, unless a login was first.
LEMMA ApplyTextlessKeeps ==
    ASSUME MailInv, NEW t \in mailTasks, Mail!ApplySend(t), ~t.text PROVE MailInv'
<1> USE DEF MailInv
<1>1. /\ t.op = "send" /\ t.at = "cache" /\ mailTasks' = mailTasks \ {t}
      /\ UNCHANGED <<mailRow, last, data, sent, recv, here, mailLoaded, mailLoading, mailLogins>>
  BY DEF Mail!ApplySend, Mail!cache, Mail!login
<1>2. /\ Mail!TypeOK' /\ UnsentUnknown' /\ TasksAbout'
      /\ SameReceiver' /\ NotDeleted' /\ CachedIsListed'
  BY <1>1
  DEF Mail!TypeOK, UnsentUnknown, TasksAbout, SameReceiver, NotDeleted, CachedIsListed, InCache, ToBeSeen
<1>3. Seen'
  <2> SUFFICES ASSUME NEW m \in Mail!Mail, ToBeSeen(m)
               PROVE (InCache(m) \/ BeingSent(m) \/ AtLogin(m) \/ Held(m))'
    BY <1>1 DEF Seen, ToBeSeen
  <2>1. CASE m = t.mail
    <3>1. t.text = mailRow[m].text
      BY <1>1, <2>1 DEF SameReceiver, ToBeSeen
    <3>2. ~mailRow[m].text
      BY <3>1, Zenon
    <3> QED
      BY <1>1, <3>2 DEF CachedIsListed, InCache, Held
  <2>2. CASE m # t.mail
    BY <1>1, <2>2 DEF Seen, InCache, BeingSent, AtLogin, Held
  <2> QED
    BY <2>1, <2>2
<1> QED
  BY <1>2, <1>3

LEMMA ApplyDeleteKeeps ==
    ASSUME MailInv, NEW t \in mailTasks, Mail!ApplyDelete(t) PROVE MailInv'
<1> USE DEF MailInv
<1> DEFINE n == t.mail
           who == Mail!Actor(t)
           side == IF data[n].to = who THEN "receiver" ELSE "sender"
           gone == data[n].deletedFrom \cup {side}
<1>1. /\ t.op = "delete" /\ t.at = "cache" /\ mailTasks' = mailTasks \ {t}
      /\ UNCHANGED <<mailRow, last, here, mailLoaded, mailLoading, mailLogins>>
  BY DEF Mail!ApplyDelete, Mail!login
<1>2. t \in Mail!Task /\ n \in 1 .. last /\ n \in Mail!Mail
  BY <1>1, MailNumbers DEF Mail!TypeOK, TasksAbout
<1>3. \A m \in Mail!Mail : BeingSent(m) => BeingSent(m)'
  BY <1>1 DEF BeingSent
<1>4. TasksAbout'
  BY <1>1 DEF TasksAbout
<1>5. CASE data[n] # None /\ who \in {data[n].to, data[n].from}
  <2> DEFINE new == IF gone = {"sender", "receiver"} THEN None
                    ELSE [data[n] EXCEPT !.deletedFrom = gone]
  <2>1. /\ data' = [data EXCEPT ![n] = new]
        /\ IF side = "receiver" THEN recv' = [recv EXCEPT ![who][n] = 0] /\ sent' = sent
           ELSE sent' = [sent EXCEPT ![who][n] = 0] /\ recv' = recv
    BY <1>5 DEF Mail!ApplyDelete
  <2>2. data[n] \in Mail!MailRow /\ data[n].to \in Aid /\ data[n].deletedFrom \subseteq {"sender", "receiver"}
    BY <1>2, <1>5, TableEntry, MailRecord DEF Mail!TypeOK
  <2>3. /\ who \in Mail!Owner /\ (who \in Aid => who = t.by)
        /\ side \in {"sender", "receiver"} /\ (side = "receiver" => who \in Aid /\ who = data[n].to)
    BY <1>2, <2>2, MailAssumption DEF Mail!Actor, Mail!Task, Mail!Owner
  <2>4. /\ new \in Mail!MailRow \cup {None}
        /\ new # None => new.to = data[n].to /\ new.deletedFrom = gone
    BY <2>2, <2>3 DEF Mail!MailRow
  <2>5. ToBeSeen(n) => side = "sender" /\ new # None /\ "receiver" \notin gone
    <3> SUFFICES ASSUME ToBeSeen(n) PROVE side = "sender" /\ new # None /\ "receiver" \notin gone
      OBVIOUS
    <3>1. t.side = "sender" /\ "receiver" \notin data[n].deletedFrom /\ data[n].to = mailRow[n].to
      BY <1>1, <1>2, <1>5 DEF NotDeleted, SameReceiver, ToBeSeen
    <3>2. t.by # mailRow[n].to
      BY <1>1, <3>1 DEF TasksAbout, ToBeSeen
    <3>3. side = "sender"
      BY <2>2, <2>3, <3>1, <3>2
    <3>4. "receiver" \notin gone
      BY <3>1, <3>3
    <3>5. [data[n] EXCEPT !.deletedFrom = gone] \in Mail!MailRow
      BY <2>2, <2>3 DEF Mail!MailRow
    <3> QED
      BY <3>3, <3>4, <3>5, MailAssumption
  <2> HIDE DEF who, side, gone, new
  <2>6. /\ data'[n] = new /\ \A m \in Mail!Mail : m # n => data'[m] = data[m]
        /\ data' \in Mail!Table
    BY <1>2, <2>1, <2>4 DEF Mail!TypeOK, Mail!Table
  <2>7. recv' \in [Aid -> [Mail!Mail -> Nat]] /\ sent' \in [Mail!Owner -> [Mail!Mail -> Nat]]
    <3>1. ASSUME NEW S, NEW f \in [S -> [Mail!Mail -> Nat]], NEW a \in S
          PROVE  [f EXCEPT ![a][n] = 0] \in [S -> [Mail!Mail -> Nat]]
      <4>1. [f[a] EXCEPT ![n] = 0] \in [Mail!Mail -> Nat]
        OBVIOUS
      <4> QED
        BY <4>1
    <3>2. recv \in [Aid -> [Mail!Mail -> Nat]] /\ sent \in [Mail!Owner -> [Mail!Mail -> Nat]]
      BY DEF Mail!TypeOK
    <3>3. CASE side = "receiver"
      <4>1. [recv EXCEPT ![who][n] = 0] \in [Aid -> [Mail!Mail -> Nat]]
        BY <2>3, <3>1, <3>2, <3>3, Zenon
      <4> QED
        BY <2>1, <3>2, <3>3, <4>1
    <3>4. CASE side # "receiver"
      <4>1. [sent EXCEPT ![who][n] = 0] \in [Mail!Owner -> [Mail!Mail -> Nat]]
        BY <2>3, <3>1, <3>2, Zenon
      <4> QED
        BY <2>1, <3>2, <3>4, <4>1
    <3> QED
      BY <3>3, <3>4
  <2>8. Mail!TypeOK'
    BY <1>1, <2>6, <2>7 DEF Mail!TypeOK
  <2>9. UnsentUnknown'
    BY <1>1, <1>5, <2>6 DEF UnsentUnknown
  <2>10. SameReceiver'
    BY <1>1, <1>2, <1>5, <2>4, <2>6 DEF SameReceiver
  <2>11. NotDeleted'
    BY <1>1, <2>4, <2>5, <2>6 DEF NotDeleted, ToBeSeen
  <2>12. Seen' /\ CachedIsListed'
    <3> SUFFICES ASSUME NEW m \in Mail!Mail, ToBeSeen(m)
                 PROVE  /\ (InCache(m) \/ BeingSent(m) \/ AtLogin(m) \/ Held(m))'
                        /\ data'[m] # None => InCache(m)'
      BY <1>1 DEF Seen, CachedIsListed, ToBeSeen
    <3>1. mailRow[m].to \in Aid
      BY TableEntry DEF Mail!TypeOK, ToBeSeen
    <3>2. recv'[mailRow[m].to][m] = recv[mailRow[m].to][m]
      <4>1. CASE side = "receiver"
        <5>1. m # n
          BY <2>5, <4>1
        <5> QED
          BY <1>2, <2>1, <2>3, <3>1, <4>1, <5>1 DEF Mail!TypeOK
      <4>2. CASE side # "receiver"
        BY <2>1, <4>2
      <4> QED
        BY <4>1, <4>2
    <3>3. data[m] # None => data'[m] # None
      BY <2>5, <2>6
    <3>4. data[m] = None => data'[m] = None
      BY <1>5, <2>6
    <3> QED
      BY <1>1, <1>3, <3>2, <3>3, <3>4 DEF Seen, CachedIsListed, InCache, AtLogin, Held
  <2> QED
    BY <1>4, <2>8, <2>9, <2>10, <2>11, <2>12
<1>6. CASE ~(data[n] # None /\ who \in {data[n].to, data[n].from})
  <2>1. UNCHANGED <<data, sent, recv>>
    BY <1>6 DEF Mail!ApplyDelete, Mail!cache
  <2> QED
    BY <1>1, <1>3, <1>4, <2>1
    DEF Mail!TypeOK, UnsentUnknown, SameReceiver, NotDeleted, Seen, CachedIsListed,
        ToBeSeen, InCache, AtLogin, Held
<1> QED
  BY <1>5, <1>6

LEMMA MailsStep == MailInv /\ [Mail!Next]_mails => MailInv'
<1> SUFFICES ASSUME MailInv, [Mail!Next]_mails PROVE MailInv'
  OBVIOUS
<1>1. CASE UNCHANGED mails
  BY <1>1
  DEF mails, MailInv, Mail!TypeOK, UnsentUnknown, TasksAbout, SameReceiver, NotDeleted, Seen, CachedIsListed, ToBeSeen,
      InCache, BeingSent, AtLogin, Held
<1> QED
  BY <1>1, MailLoadKeeps, MailLoginKeeps, MailLogoffKeeps, MailSendKeeps, MailDeleteKeeps,
     InsertRowKeeps, DeleteRowKeeps, MailFailKeeps, ApplyTextKeeps, ApplyTextlessKeeps, ApplyDeleteKeeps
  DEF Mail!Next

\* Ids that were not given yet are unknown, tasks are about mails as their rows are, and
\* what a player is to see is in its cache or on its way there.
THEOREM MailsInvariance == MCSpec => []MailInv
<1>1. MCInit => MailInv
  BY MailsInit DEF MCInit
<1>2. [MCNext]_<<part, arriving, together, outside>> => [Mail!Next]_mails
  BY DEF MCNext, SessionsNext, FrontNext, PartiesNext, MirrorNext, PlazasNext, SocialsNext, MailsNext,
         outside
<1> QED
  BY <1>1, <1>2, MailsStep, PTL DEF MCSpec

\* A player who is online can see every mail it has received and not deleted, also one
\* that was sent while its login was under way or that another's login has cached; one
\* without a text from the first login of its sender or its receiver on.
THEOREM NoMailMissingHolds == MCSpec => []NoMailMissing
<1>1. MailInv => NoMailMissing
  BY DEF MailInv, NoMailMissing, Mail!NoMailMissing, Mail!There, Seen, ToBeSeen, InCache, BeingSent,
         AtLogin, Held
<1> QED
  BY <1>1, MailsInvariance, PTL

-----------------------------------------------------------------------------
(***************************************************************************)
(* Cast's copy of the rooms.  What Cast will know of a room follows from   *)
(* what it knows and from the messages L on their way, of which the last   *)
(* that decides a question counts.                                         *)
(***************************************************************************)

\* Message i is about the room, and of one of these kinds.
Says(L, i, r, kinds) == L[i].room = r /\ L[i].kind \in kinds

\* No message after the i-th is about the room and of one of the kinds.
Silent(L, i, r, kinds) == \A j \in 1 .. Len(L) : j > i => ~Says(L, j, r, kinds)

\* The room will exist on Cast, where the rooms of "there" are now.
WillExist(L, there, r) ==
    \/ \E i \in 1 .. Len(L) : Says(L, i, r, {"Join", "MatchState"}) /\ Silent(L, i, r, {"Remove"})
    \/ r \in there /\ Silent(L, 0, r, {"Remove"})

\* No message after the i-th takes the player out of the room.
Stays(L, i, r, p) ==
    \A j \in 1 .. Len(L) : j > i =>
        ~Says(L, j, r, {"Remove"}) /\ (Says(L, j, r, {"Leave"}) => L[j].sid # p)

\* The player will be in the room on Cast, where "those" are now.
WillList(L, those, r, p) ==
    \/ \E i \in 1 .. Len(L) : Says(L, i, r, {"Join"}) /\ L[i].sid = p /\ Stays(L, i, r, p)
    \/ p \in those /\ Stays(L, 0, r, p)

Syncs == {"Join", "Leave", "MatchState"}
Decides == Syncs \cup {"Remove"}

\* The match that the last message about the room tells of, with nobody else appointed
\* since, is one that goes on under the host h.
WillPlay(L, r, on, h) ==
    \A i \in 1 .. Len(L) :
        Says(L, i, r, Syncs) /\ Silent(L, i, r, Decides) /\ L[i].playing =>
            on /\ L[i].host = h /\ Silent(L, i, r, {"HostChange"})

\* The same of the match that Cast knows of, if no message decides.
StillPlays(L, r, knows, knownHost, on, h) ==
    Silent(L, 0, r, Decides) /\ knows => on /\ knownHost = h /\ Silent(L, 0, r, {"HostChange"})

\* Cast will have the room if it is one of "where", with those in it.
Follows(L, r, where, those) ==
    /\ WillExist(L, castRooms, r) <=> r \in where
    /\ \A p \in PartyMember : WillList(L, castMembers[r], r, p) <=> p \in those

\* What Cast will know of a match agrees with what Main has.
Plays(L, r, on, h) == WillPlay(L, r, on, h) /\ StillPlays(L, r, castPlaying[r], castHost[r], on, h)

Told(r) == Follows(link, r, live, listed[r]) /\ Plays(link, r, playing[r], host[r])

Erased(r) == \E b \in Breaker : erasedRoom[b] = r
ToldOfRooms == \A r \in Room \ twice : ~Erased(r) => Told(r)

\* Rooms that are not twice broken are broken by one at a time.
Breaks(b, r) == breaking[b] = r \/ erasedRoom[b] = r
BreakersApart ==
    /\ \A b \in Breaker : breaking[b] = None \/ erasedRoom[b] = None
    /\ \A r \in Room \ twice : \A b, c \in Breaker : Breaks(b, r) /\ Breaks(c, r) => b = c

\* A room that is being broken stays until it is erased: somebody whose account is
\* not in it any more is listed.  Its id is not another's before Cast is told.
BreakOwnsRoom ==
    \A r \in Room \ twice : \A b \in Breaker :
        /\ breaking[b] = r => r \in live /\ \E m \in listed[r] \ Watcher : inRoom[m] # r
        /\ erasedRoom[b] = r => r \notin live /\ r \notin freeRooms

RoomsWhole ==
    \A r \in Room \ twice :
        /\ r \in live => r \notin freeRooms /\ ~(listed[r] \subseteq Watcher)
        /\ r \notin live => listed[r] = {}

HostsNamed == \A r \in live : host[r] \in PartyMember

CastWhole == \A r \in Room : r \notin castRooms => castMembers[r] = {} /\ ~castPlaying[r]

Messages == UNION {Mirror!About(r) : r \in Room}

MirrorInv ==
    /\ Mirror!TypeOK /\ link \in Seq(Messages)
    /\ BreakersApart /\ BreakOwnsRoom /\ RoomsWhole /\ HostsNamed /\ CastWhole /\ ToldOfRooms

-----------------------------------------------------------------------------
\* Messages.

LEMMA MessageFields ==
    ASSUME NEW m \in Messages
    PROVE  /\ m.room \in Room /\ m.kind \in {"Join", "Leave", "MatchState", "HostChange", "Remove"}
           /\ m.kind \in {"Join", "Leave"} => m.sid \in PartyMember
           /\ m.kind \in Syncs => m.host \in PartyMember /\ m.playing \in BOOLEAN
           /\ m.kind = "HostChange" => m.host \in PartyMember
BY DEF Messages, Mirror!About, Syncs

LEMMA AppendLink ==
    ASSUME NEW L \in Seq(Messages), NEW m \in Messages
    PROVE  /\ L \o <<m>> \in Seq(Messages) /\ Len(L) \in Nat /\ Len(L \o <<m>>) = Len(L) + 1
           /\ \A i \in 1 .. Len(L) : (L \o <<m>>)[i] = L[i]
           /\ (L \o <<m>>)[Len(L) + 1] = m
OBVIOUS

LEMMA AppendSilent ==
    ASSUME NEW L \in Seq(Messages), NEW m \in Messages, NEW r, NEW kinds, NEW p, NEW i \in 0 .. Len(L)
    PROVE  /\ Silent(L \o <<m>>, i, r, kinds) <=> Silent(L, i, r, kinds) /\ ~(m.room = r /\ m.kind \in kinds)
           /\ Stays(L \o <<m>>, i, r, p) <=>
                 /\ Stays(L, i, r, p)
                 /\ m.room = r => m.kind # "Remove" /\ (m.kind = "Leave" => m.sid # p)
<1> DEFINE M == L \o <<m>>
<1>1. /\ Len(L) \in Nat /\ Len(M) = Len(L) + 1 /\ \A j \in 1 .. Len(L) : M[j] = L[j]
      /\ M[Len(L) + 1] = m
  BY AppendLink
<1> HIDE DEF M
<1>2. \A j \in 1 .. Len(M) : j \in 1 .. Len(L) \/ j = Len(L) + 1
  BY <1>1
<1>3. \A j \in 1 .. Len(L) : j \in 1 .. Len(M)
  BY <1>1
<1>4. Len(L) + 1 \in 1 .. Len(M) /\ Len(L) + 1 > i
  BY <1>1
<1>5. Silent(M, i, r, kinds) <=> Silent(L, i, r, kinds) /\ ~(m.room = r /\ m.kind \in kinds)
  BY <1>1, <1>2, <1>3, <1>4 DEF Silent, Says
<1>6. Stays(M, i, r, p) <=>
         Stays(L, i, r, p) /\ (m.room = r => m.kind # "Remove" /\ (m.kind = "Leave" => m.sid # p))
  BY <1>1, <1>2, <1>3, <1>4 DEF Stays, Says
<1> QED
  BY <1>5, <1>6 DEF M

\* Nothing follows the last message.
LEMMA LastSilent ==
    ASSUME NEW L \in Seq(Messages), NEW r, NEW kinds, NEW p
    PROVE  Silent(L, Len(L), r, kinds) /\ Stays(L, Len(L), r, p)
BY DEF Silent, Stays

\* What one more message does to what Cast will know.
LEMMA AppendExist ==
    ASSUME NEW L \in Seq(Messages), NEW m \in Messages, NEW there, NEW r
    PROVE  WillExist(L \o <<m>>, there, r) <=>
              \/ m.room = r /\ m.kind \in {"Join", "MatchState"}
              \/ WillExist(L, there, r) /\ ~(m.room = r /\ m.kind = "Remove")
<1> DEFINE M == L \o <<m>>
<1>1. /\ M \in Seq(Messages) /\ Len(L) \in Nat /\ Len(M) = Len(L) + 1
      /\ \A j \in 1 .. Len(L) : M[j] = L[j] /\ j \in 1 .. Len(M)
      /\ M[Len(M)] = m /\ Len(M) \in 1 .. Len(M)
  BY AppendLink
<1>2. \A j \in 1 .. Len(M) : j \in 1 .. Len(L) \/ j = Len(M)
  BY <1>1
<1>3. \A i \in 0 .. Len(L) :
         Silent(M, i, r, {"Remove"}) <=> Silent(L, i, r, {"Remove"}) /\ ~(m.room = r /\ m.kind = "Remove")
  BY AppendSilent
<1>4. Silent(M, Len(M), r, {"Remove"})
  BY <1>1, LastSilent
<1> HIDE DEF M
<1>5. 0 \in 0 .. Len(L) /\ \A j \in 1 .. Len(L) : j \in 0 .. Len(L)
  BY <1>1
<1>6. WillExist(M, there, r) <=>
              \/ m.room = r /\ m.kind \in {"Join", "MatchState"}
              \/ WillExist(L, there, r) /\ ~(m.room = r /\ m.kind = "Remove")
  BY <1>1, <1>2, <1>3, <1>4, <1>5 DEF WillExist, Says
<1> QED
  BY <1>6 DEF M

LEMMA AppendList ==
    ASSUME NEW L \in Seq(Messages), NEW m \in Messages, NEW those, NEW r, NEW p
    PROVE  WillList(L \o <<m>>, those, r, p) <=>
              \/ m.room = r /\ m.kind = "Join" /\ m.sid = p
              \/ /\ WillList(L, those, r, p)
                 /\ m.room = r => m.kind # "Remove" /\ (m.kind = "Leave" => m.sid # p)
<1> DEFINE M == L \o <<m>>
<1>1. /\ M \in Seq(Messages) /\ Len(L) \in Nat /\ Len(M) = Len(L) + 1
      /\ \A j \in 1 .. Len(L) : M[j] = L[j] /\ j \in 1 .. Len(M)
      /\ M[Len(M)] = m /\ Len(M) \in 1 .. Len(M)
  BY AppendLink
<1>2. \A j \in 1 .. Len(M) : j \in 1 .. Len(L) \/ j = Len(M)
  BY <1>1
<1>3. \A i \in 0 .. Len(L) :
         Stays(M, i, r, p) <=>
            Stays(L, i, r, p) /\ (m.room = r => m.kind # "Remove" /\ (m.kind = "Leave" => m.sid # p))
  BY AppendSilent
<1>4. Stays(M, Len(M), r, p)
  BY <1>1, LastSilent
<1> HIDE DEF M
<1>5. 0 \in 0 .. Len(L) /\ \A j \in 1 .. Len(L) : j \in 0 .. Len(L)
  BY <1>1
<1>6. WillList(M, those, r, p) <=>
              \/ m.room = r /\ m.kind = "Join" /\ m.sid = p
              \/ /\ WillList(L, those, r, p)
                 /\ m.room = r => m.kind # "Remove" /\ (m.kind = "Leave" => m.sid # p)
  BY <1>1, <1>2, <1>3, <1>4, <1>5 DEF WillList, Says
<1> QED
  BY <1>6 DEF M

\* After a message that decides, its match counts; another host is appointed only while
\* Cast will know of no match.
LEMMA AppendPlay ==
    ASSUME NEW L \in Seq(Messages), NEW m \in Messages, NEW r, NEW on, NEW h
    PROVE  /\ m.room # r => (WillPlay(L \o <<m>>, r, on, h) <=> WillPlay(L, r, on, h))
           /\ m.room = r /\ m.kind \in Syncs /\ (m.playing => on /\ m.host = h) =>
                 WillPlay(L \o <<m>>, r, on, h)
           /\ m.room = r /\ m.kind = "Remove" => WillPlay(L \o <<m>>, r, on, h)
           /\ m.kind = "HostChange" /\ (\A g : WillPlay(L, r, FALSE, g)) => WillPlay(L \o <<m>>, r, on, h)
<1> DEFINE M == L \o <<m>>
<1>1. /\ M \in Seq(Messages) /\ Len(L) \in Nat /\ Len(M) = Len(L) + 1
      /\ \A j \in 1 .. Len(L) : M[j] = L[j] /\ j \in 1 .. Len(M)
      /\ M[Len(M)] = m /\ Len(M) \in 1 .. Len(M)
  BY AppendLink
<1>2. \A j \in 1 .. Len(M) : j \in 1 .. Len(L) \/ j = Len(M)
  BY <1>1
<1>3. \A i \in 0 .. Len(L) :
         /\ Silent(M, i, r, Decides) <=> Silent(L, i, r, Decides) /\ ~(m.room = r /\ m.kind \in Decides)
         /\ Silent(M, i, r, {"HostChange"}) <=>
               Silent(L, i, r, {"HostChange"}) /\ ~(m.room = r /\ m.kind = "HostChange")
  BY AppendSilent
<1>4. Silent(M, Len(M), r, {"HostChange"})
  BY <1>1, LastSilent
<1> HIDE DEF M
<1>5. \A j \in 1 .. Len(L) : j \in 0 .. Len(L)
  BY <1>1
<1>6. m.room # r => (WillPlay(M, r, on, h) <=> WillPlay(L, r, on, h))
  BY <1>1, <1>2, <1>3, <1>4, <1>5 DEF WillPlay, Says
<1>7. m.room = r /\ m.kind \in Syncs /\ (m.playing => on /\ m.host = h) => WillPlay(M, r, on, h)
  BY <1>1, <1>2, <1>3, <1>4, <1>5 DEF WillPlay, Says, Decides
<1>8. m.room = r /\ m.kind = "Remove" => WillPlay(M, r, on, h)
  BY <1>1, <1>2, <1>3, <1>4, <1>5 DEF WillPlay, Says, Decides, Syncs
<1>9. m.kind = "HostChange" /\ (\A g : WillPlay(L, r, FALSE, g)) => WillPlay(M, r, on, h)
  BY <1>1, <1>2, <1>3, <1>4, <1>5 DEF WillPlay, Says, Syncs
<1> QED
  BY <1>6, <1>7, <1>8, <1>9 DEF M

LEMMA AppendStill ==
    ASSUME NEW L \in Seq(Messages), NEW m \in Messages, NEW r, NEW knows, NEW kh, NEW on, NEW h
    PROVE  /\ m.room # r => (StillPlays(L \o <<m>>, r, knows, kh, on, h) <=> StillPlays(L, r, knows, kh, on, h))
           /\ m.room = r /\ m.kind \in Decides => StillPlays(L \o <<m>>, r, knows, kh, on, h)
           /\ m.kind = "HostChange" /\ (\A g : StillPlays(L, r, knows, kh, FALSE, g)) =>
                 StillPlays(L \o <<m>>, r, knows, kh, on, h)
<1>1. 0 \in 0 .. Len(L)
  BY AppendLink
<1> QED
  BY <1>1, AppendSilent DEF StillPlays
LEMMA TellOther ==
    ASSUME NEW L \in Seq(Messages), NEW m \in Messages, NEW r, m.room # r, NEW where, NEW those, NEW on, NEW h
    PROVE  /\ Follows(L \o <<m>>, r, where, those) <=> Follows(L, r, where, those)
           /\ Plays(L \o <<m>>, r, on, h) <=> Plays(L, r, on, h)
BY AppendExist, AppendList, AppendPlay, AppendStill DEF Follows, Plays

LEMMA TellSync ==
    ASSUME NEW L \in Seq(Messages), NEW m \in Messages, NEW r, m.room = r, NEW on, NEW h,
           m.kind \in Syncs, m.playing => on /\ m.host = h
    PROVE  Plays(L \o <<m>>, r, on, h)
BY AppendPlay, AppendStill DEF Plays, Decides

LEMMA TellRooms ==
    ASSUME NEW L \in Seq(Messages), NEW m \in Messages, NEW r, m.room = r, NEW where, NEW those,
           Follows(L, r, where, those)
    PROVE  /\ \A w : m.kind = "Join" /\ r \in w => Follows(L \o <<m>>, r, w, those \cup {m.sid})
           /\ m.kind = "MatchState" /\ r \in where => Follows(L \o <<m>>, r, where, those)
           /\ m.kind = "Leave" => Follows(L \o <<m>>, r, where, those \ {m.sid})
           /\ m.kind = "HostChange" => Follows(L \o <<m>>, r, where, those)
<1>1. /\ WillExist(L \o <<m>>, castRooms, r) <=>
            m.kind \in {"Join", "MatchState"} \/ (r \in where /\ m.kind # "Remove")
      /\ \A p \in PartyMember :
            WillList(L \o <<m>>, castMembers[r], r, p) <=>
               \/ m.kind = "Join" /\ m.sid = p
               \/ p \in those /\ m.kind # "Remove" /\ (m.kind = "Leave" => m.sid # p)
  BY AppendExist, AppendList DEF Follows
<1>2. \A w : m.kind = "Join" /\ r \in w => Follows(L \o <<m>>, r, w, those \cup {m.sid})
  BY <1>1 DEF Follows
<1>3. m.kind = "MatchState" /\ r \in where => Follows(L \o <<m>>, r, where, those)
  BY <1>1 DEF Follows
<1>4. m.kind = "Leave" => Follows(L \o <<m>>, r, where, those \ {m.sid})
  BY <1>1 DEF Follows
<1>5. m.kind = "HostChange" => Follows(L \o <<m>>, r, where, those)
  BY <1>1 DEF Follows
<1> QED
  BY <1>2, <1>3, <1>4, <1>5

LEMMA TellRemove ==
    ASSUME NEW L \in Seq(Messages), NEW m \in Messages, NEW r, m.room = r, NEW where, NEW on, NEW h,
           m.kind = "Remove", r \notin where
    PROVE  Follows(L \o <<m>>, r, where, {}) /\ Plays(L \o <<m>>, r, on, h)
<1>1. ~WillExist(L \o <<m>>, castRooms, r)
  BY AppendExist
<1>2. \A p \in PartyMember : ~WillList(L \o <<m>>, castMembers[r], r, p)
  BY AppendList
<1>3. Plays(L \o <<m>>, r, on, h)
  BY AppendPlay, AppendStill DEF Plays, Decides
<1> QED
  BY <1>1, <1>2, <1>3 DEF Follows

\* Whoever is told of no match need not be told who is host.
LEMMA NoMatch ==
    ASSUME NEW L, NEW r, NEW h, NEW g, NEW on, NEW off \in BOOLEAN, ~off, Plays(L, r, off, h)
    PROVE  Plays(L, r, on, g)
BY DEF Plays, WillPlay, StillPlays

LEMMA TellHost ==
    ASSUME NEW L \in Seq(Messages), NEW m \in Messages, NEW r, NEW h, NEW g, NEW off \in BOOLEAN, ~off,
           m.kind = "HostChange", Plays(L, r, off, h)
    PROVE  Plays(L \o <<m>>, r, off, g)
<1>1. \A k : Plays(L, r, FALSE, k)
  BY NoMatch
<1> QED
  BY <1>1, AppendPlay, AppendStill DEF Plays

-----------------------------------------------------------------------------
\* Main's handlers.  A step that concerns one room leaves the others as they are.

LEMMA TypedLink ==
    ASSUME NEW L \in Seq(Messages)
    PROVE  \A i \in 1 .. Len(L) : \E r \in Room : L[i] \in Mirror!About(r)
<1> SUFFICES ASSUME NEW i \in 1 .. Len(L) PROVE \E r \in Room : L[i] \in Mirror!About(r)
  OBVIOUS
<1>1. L[i] \in Messages
  OBVIOUS
<1> QED
  BY <1>1 DEF Messages

\* The messages that Main sends.
LEMMA MessageTypes ==
    ASSUME NEW r \in Room, NEW p \in PartyMember, NEW h \in PartyMember, NEW play \in BOOLEAN
    PROVE  /\ Mirror!JoinSync(r, p, h, play) \in Messages
           /\ [kind |-> "Leave", room |-> r, sid |-> p, host |-> h, playing |-> play] \in Messages
           /\ [kind |-> "MatchState", room |-> r, host |-> h, playing |-> play] \in Messages
           /\ Mirror!HostMessage(r, h) \in Messages /\ Mirror!RemoveSync(r) \in Messages
<1>1. /\ Mirror!JoinSync(r, p, h, play) \in Mirror!About(r)
      /\ [kind |-> "Leave", room |-> r, sid |-> p, host |-> h, playing |-> play] \in Mirror!About(r)
      /\ [kind |-> "MatchState", room |-> r, host |-> h, playing |-> play] \in Mirror!About(r)
      /\ Mirror!HostMessage(r, h) \in Mirror!About(r) /\ Mirror!RemoveSync(r) \in Mirror!About(r)
  BY DEF Mirror!About, Mirror!JoinSync, Mirror!HostMessage, Mirror!RemoveSync
<1> QED
  BY <1>1 DEF Messages
-----------------------------------------------------------------------------
\* Cast's handler of a message.

LEMMA TailLink ==
    ASSUME NEW L \in Seq(Messages), L # <<>>
    PROVE  /\ Tail(L) \in Seq(Messages) /\ Head(L) \in Messages /\ L[1] = Head(L)
           /\ Len(L) \in Nat \ {0} /\ Len(Tail(L)) = Len(L) - 1
           /\ \A i \in 1 .. Len(Tail(L)) : Tail(L)[i] = L[i + 1]
OBVIOUS

LEMMA TailSilent ==
    ASSUME NEW L \in Seq(Messages), L # <<>>, NEW r, NEW kinds, NEW p
    PROVE  /\ \A i \in 0 .. Len(Tail(L)) :
                 /\ Silent(L, i + 1, r, kinds) <=> Silent(Tail(L), i, r, kinds)
                 /\ Stays(L, i + 1, r, p) <=> Stays(Tail(L), i, r, p)
           /\ Silent(L, 0, r, kinds) <=>
                 ~(Head(L).room = r /\ Head(L).kind \in kinds) /\ Silent(Tail(L), 0, r, kinds)
           /\ Stays(L, 0, r, p) <=>
                 /\ Head(L).room = r => Head(L).kind # "Remove" /\ (Head(L).kind = "Leave" => Head(L).sid # p)
                 /\ Stays(Tail(L), 0, r, p)
<1> DEFINE T == Tail(L)
           m == Head(L)
<1>1. /\ Len(L) \in Nat /\ Len(T) = Len(L) - 1 /\ Len(L) > 0 /\ L[1] = m
      /\ \A i \in 1 .. Len(T) : T[i] = L[i + 1]
  BY TailLink
<1> HIDE DEF T, m
<1>2. \A j \in 1 .. Len(L) : j = 1 \/ (j - 1 \in 1 .. Len(T) /\ T[j - 1] = L[j])
  <2> TAKE j \in 1 .. Len(L)
  <2>1. j = 1 \/ j - 1 \in 1 .. Len(T)
    BY <1>1
  <2> QED
    BY <1>1, <2>1
<1>3. \A j \in 1 .. Len(T) : j + 1 \in 1 .. Len(L) /\ T[j] = L[j + 1]
  BY <1>1
<1>4. 1 \in 1 .. Len(L)
  BY <1>1
<1>5. ASSUME NEW i \in 0 .. Len(T)
      PROVE  /\ Silent(L, i + 1, r, kinds) <=> Silent(T, i, r, kinds)
             /\ Stays(L, i + 1, r, p) <=> Stays(T, i, r, p)
  <2>1. ASSUME Silent(T, i, r, kinds), NEW j \in 1 .. Len(L), j > i + 1 PROVE ~Says(L, j, r, kinds)
    <3>1. j # 1
      BY <2>1
    <3>2. j - 1 \in 1 .. Len(T) /\ T[j - 1] = L[j] /\ j - 1 > i
      BY <1>1, <1>2, <2>1, <3>1
    <3> QED
      BY <2>1, <3>2 DEF Silent, Says
  <2>2. ASSUME Silent(L, i + 1, r, kinds), NEW j \in 1 .. Len(T), j > i PROVE ~Says(T, j, r, kinds)
    <3>1. j + 1 \in 1 .. Len(L) /\ T[j] = L[j + 1] /\ j + 1 > i + 1
      BY <1>3, <2>2
    <3> QED
      BY <2>2, <3>1 DEF Silent, Says
  <2>3. ASSUME Stays(T, i, r, p), NEW j \in 1 .. Len(L), j > i + 1
        PROVE  ~Says(L, j, r, {"Remove"}) /\ (Says(L, j, r, {"Leave"}) => L[j].sid # p)
    <3>1. j # 1
      BY <2>3
    <3>2. j - 1 \in 1 .. Len(T) /\ T[j - 1] = L[j] /\ j - 1 > i
      BY <1>1, <1>2, <2>3, <3>1
    <3> QED
      BY <2>3, <3>2 DEF Stays, Says
  <2>4. ASSUME Stays(L, i + 1, r, p), NEW j \in 1 .. Len(T), j > i
        PROVE  ~Says(T, j, r, {"Remove"}) /\ (Says(T, j, r, {"Leave"}) => T[j].sid # p)
    <3>1. j + 1 \in 1 .. Len(L) /\ T[j] = L[j + 1] /\ j + 1 > i + 1
      BY <1>3, <2>4
    <3> QED
      BY <2>4, <3>1 DEF Stays, Says
  <2>5. Silent(L, i + 1, r, kinds) <=> Silent(T, i, r, kinds)
    BY <2>1, <2>2 DEF Silent
  <2>6. Stays(L, i + 1, r, p) <=> Stays(T, i, r, p)
    BY <2>3, <2>4 DEF Stays
  <2> QED
    BY <2>5, <2>6
<1>6. /\ Silent(L, 1, r, kinds) <=> Silent(T, 0, r, kinds)
      /\ Stays(L, 1, r, p) <=> Stays(T, 0, r, p)
  <2>1. 0 \in 0 .. Len(T) /\ 0 + 1 = 1
    BY <1>1
  <2> QED
    BY <1>5, <2>1
<1>7. \A j \in 1 .. Len(L) : j > 0 /\ (j = 1 \/ j > 1)
  OBVIOUS
<1>8. Silent(L, 0, r, kinds) <=> ~(m.room = r /\ m.kind \in kinds) /\ Silent(T, 0, r, kinds)
  BY <1>1, <1>4, <1>6, <1>7 DEF Silent, Says
<1>9. Stays(L, 0, r, p) <=>
         /\ m.room = r => m.kind # "Remove" /\ (m.kind = "Leave" => m.sid # p)
         /\ Stays(T, 0, r, p)
  BY <1>1, <1>4, <1>6, <1>7 DEF Stays, Says
<1> QED
  BY <1>5, <1>8, <1>9 DEF T, m

LEMMA TailExist ==
    ASSUME NEW L \in Seq(Messages), L # <<>>, NEW r, NEW before, NEW after,
           r \in after <=>
              \/ Head(L).room = r /\ Head(L).kind \in {"Join", "MatchState"}
              \/ r \in before /\ ~(Head(L).room = r /\ Head(L).kind = "Remove")
    PROVE  WillExist(Tail(L), after, r) <=> WillExist(L, before, r)
<1> DEFINE T == Tail(L)
           m == Head(L)
<1>1. /\ Len(L) \in Nat \ {0} /\ Len(T) = Len(L) - 1 /\ L[1] = m
      /\ \A i \in 1 .. Len(T) : T[i] = L[i + 1]
  BY TailLink
<1>2. /\ \A i \in 0 .. Len(T) : Silent(L, i + 1, r, {"Remove"}) <=> Silent(T, i, r, {"Remove"})
      /\ Silent(L, 0, r, {"Remove"}) <=> ~(m.room = r /\ m.kind = "Remove") /\ Silent(T, 0, r, {"Remove"})
  BY TailSilent
<1>3. r \in after <=>
         \/ m.room = r /\ m.kind \in {"Join", "MatchState"}
         \/ r \in before /\ ~(m.room = r /\ m.kind = "Remove")
  OBVIOUS
<1> HIDE DEF T, m
<1>4. /\ 1 \in 1 .. Len(L) /\ 0 \in 0 .. Len(T) /\ 0 + 1 = 1
      /\ \A j \in 1 .. Len(L) : j = 1 \/ (j - 1 \in 1 .. Len(T) /\ j - 1 \in 0 .. Len(T) /\ j - 1 + 1 = j)
      /\ \A j \in 1 .. Len(T) : j \in 0 .. Len(T) /\ j + 1 \in 1 .. Len(L)
  BY <1>1
<1>5. WillExist(T, after, r) => WillExist(L, before, r)
  BY <1>1, <1>2, <1>3, <1>4 DEF WillExist, Says
<1>6. WillExist(L, before, r) => WillExist(T, after, r)
  <2>1. ASSUME NEW j \in 1 .. Len(L), Says(L, j, r, {"Join", "MatchState"}), Silent(L, j, r, {"Remove"})
        PROVE  WillExist(T, after, r)
    <3>1. CASE j = 1
      BY <1>1, <1>2, <1>3, <1>4, <2>1, <3>1 DEF WillExist, Says
    <3>2. CASE j # 1
      <4>1. j - 1 \in 1 .. Len(T) /\ j - 1 \in 0 .. Len(T) /\ j - 1 + 1 = j
        BY <1>4, <3>2
      <4>2. Says(T, j - 1, r, {"Join", "MatchState"}) /\ Silent(T, j - 1, r, {"Remove"})
        BY <1>1, <1>2, <2>1, <4>1 DEF Says
      <4> QED
        BY <4>1, <4>2 DEF WillExist
    <3> QED
      BY <3>1, <3>2
  <2>2. ASSUME r \in before, Silent(L, 0, r, {"Remove"}) PROVE WillExist(T, after, r)
    BY <1>2, <1>3, <2>2 DEF WillExist
  <2> QED
    BY <2>1, <2>2 DEF WillExist
<1> QED
  BY <1>5, <1>6 DEF T

LEMMA TailList ==
    ASSUME NEW L \in Seq(Messages), L # <<>>, NEW r, NEW p, NEW before, NEW after,
           p \in after <=>
              \/ Head(L).room = r /\ Head(L).kind = "Join" /\ Head(L).sid = p
              \/ /\ p \in before
                 /\ Head(L).room = r => Head(L).kind # "Remove" /\ (Head(L).kind = "Leave" => Head(L).sid # p)
    PROVE  WillList(Tail(L), after, r, p) <=> WillList(L, before, r, p)
<1> DEFINE T == Tail(L)
           m == Head(L)
           keeps == m.room = r => m.kind # "Remove" /\ (m.kind = "Leave" => m.sid # p)
<1>1. /\ Len(L) \in Nat \ {0} /\ Len(T) = Len(L) - 1 /\ L[1] = m
      /\ \A i \in 1 .. Len(T) : T[i] = L[i + 1]
  BY TailLink
<1>2. /\ \A i \in 0 .. Len(T) : Stays(L, i + 1, r, p) <=> Stays(T, i, r, p)
      /\ Stays(L, 0, r, p) <=> keeps /\ Stays(T, 0, r, p)
  BY TailSilent
<1>3. p \in after <=> (m.room = r /\ m.kind = "Join" /\ m.sid = p) \/ (p \in before /\ keeps)
  OBVIOUS
<1> HIDE DEF T, m, keeps
<1>4. /\ 1 \in 1 .. Len(L) /\ 0 \in 0 .. Len(T) /\ 0 + 1 = 1
      /\ \A j \in 1 .. Len(L) : j = 1 \/ (j - 1 \in 1 .. Len(T) /\ j - 1 \in 0 .. Len(T) /\ j - 1 + 1 = j)
      /\ \A j \in 1 .. Len(T) : j \in 0 .. Len(T) /\ j + 1 \in 1 .. Len(L)
  BY <1>1
<1>5. WillList(T, after, r, p) => WillList(L, before, r, p)
  BY <1>1, <1>2, <1>3, <1>4 DEF WillList, Says
<1>6. WillList(L, before, r, p) => WillList(T, after, r, p)
  <2>1. ASSUME NEW j \in 1 .. Len(L), Says(L, j, r, {"Join"}), L[j].sid = p, Stays(L, j, r, p)
        PROVE  WillList(T, after, r, p)
    <3>1. CASE j = 1
      BY <1>1, <1>2, <1>3, <1>4, <2>1, <3>1 DEF WillList, Says
    <3>2. CASE j # 1
      <4>1. j - 1 \in 1 .. Len(T) /\ j - 1 \in 0 .. Len(T) /\ j - 1 + 1 = j
        BY <1>4, <3>2
      <4>2. Says(T, j - 1, r, {"Join"}) /\ T[j - 1].sid = p /\ Stays(T, j - 1, r, p)
        BY <1>1, <1>2, <2>1, <4>1 DEF Says
      <4> QED
        BY <4>1, <4>2 DEF WillList
    <3> QED
      BY <3>1, <3>2
  <2>2. ASSUME p \in before, Stays(L, 0, r, p) PROVE WillList(T, after, r, p)
    BY <1>2, <1>3, <2>2 DEF WillList
  <2> QED
    BY <2>1, <2>2 DEF WillList
<1> QED
  BY <1>5, <1>6 DEF T

LEMMA TailPlay ==
    ASSUME NEW L \in Seq(Messages), L # <<>>, NEW r, NEW on, NEW h, NEW knows, NEW kh, NEW knows2, NEW kh2,
           WillPlay(L, r, on, h), StillPlays(L, r, knows, kh, on, h),
           Head(L).room = r /\ Head(L).kind \in Syncs /\ knows2 => Head(L).playing /\ kh2 = Head(L).host,
           Head(L).room = r /\ Head(L).kind = "Remove" => ~knows2,
           Head(L).room = r /\ Head(L).kind = "HostChange" /\ knows2 => knows,
           Head(L).room # r /\ knows2 => knows /\ kh2 = kh
    PROVE  WillPlay(Tail(L), r, on, h) /\ StillPlays(Tail(L), r, knows2, kh2, on, h)
<1> DEFINE T == Tail(L)
           m == Head(L)
<1>1. /\ Len(L) \in Nat \ {0} /\ Len(T) = Len(L) - 1 /\ L[1] = m
      /\ \A i \in 1 .. Len(T) : T[i] = L[i + 1]
      /\ m.kind \in {"Join", "Leave", "MatchState", "HostChange", "Remove"}
  BY TailLink, MessageFields
<1>2. \A kinds :
      /\ \A i \in 0 .. Len(T) : Silent(L, i + 1, r, kinds) <=> Silent(T, i, r, kinds)
      /\ Silent(L, 0, r, kinds) <=> ~(m.room = r /\ m.kind \in kinds) /\ Silent(T, 0, r, kinds)
  BY TailSilent
<1>3. /\ m.room = r /\ m.kind \in Syncs /\ knows2 => m.playing /\ kh2 = m.host
      /\ m.room = r /\ m.kind = "Remove" => ~knows2
      /\ m.room = r /\ m.kind = "HostChange" /\ knows2 => knows
      /\ m.room # r /\ knows2 => knows /\ kh2 = kh
  OBVIOUS
<1> HIDE DEF T, m
<1>4. /\ 1 \in 1 .. Len(L) /\ 0 \in 0 .. Len(T) /\ 0 + 1 = 1
      /\ \A j \in 1 .. Len(T) : j \in 0 .. Len(T) /\ j + 1 \in 1 .. Len(L)
  BY <1>1
<1>5. WillPlay(T, r, on, h)
  <2> SUFFICES ASSUME NEW i \in 1 .. Len(T),
                      Says(T, i, r, Syncs), Silent(T, i, r, Decides), T[i].playing
               PROVE  on /\ T[i].host = h /\ Silent(T, i, r, {"HostChange"})
    BY DEF WillPlay
  <2>1. Says(L, i + 1, r, Syncs) /\ Silent(L, i + 1, r, Decides) /\ L[i + 1].playing
    BY <1>1, <1>2, <1>4 DEF Says
  <2>2. on /\ L[i + 1].host = h /\ Silent(L, i + 1, r, {"HostChange"})
    BY <1>4, <2>1 DEF WillPlay
  <2> QED
    BY <1>1, <1>2, <1>4, <2>2
<1>6. StillPlays(T, r, knows2, kh2, on, h)
  <2> SUFFICES ASSUME Silent(T, 0, r, Decides), knows2
               PROVE  on /\ kh2 = h /\ Silent(T, 0, r, {"HostChange"})
    BY DEF StillPlays
  <2>1. CASE m.room = r /\ m.kind \in Syncs
    <3>1. Says(L, 1, r, Syncs) /\ Silent(L, 1, r, Decides) /\ L[1].playing
      BY <1>1, <1>2, <1>3, <1>4, <2>1 DEF Says
    <3>2. on /\ L[1].host = h /\ Silent(L, 1, r, {"HostChange"})
      BY <1>4, <3>1 DEF WillPlay
    <3> QED
      BY <1>1, <1>2, <1>3, <1>4, <2>1, <3>2
  <2>2. CASE m.room = r /\ m.kind = "HostChange"
    <3>1. Silent(L, 0, r, Decides) /\ knows
      BY <1>2, <1>3, <2>2 DEF Decides, Syncs
    <3> QED
      BY <1>2, <2>2, <3>1 DEF StillPlays
  <2>3. CASE m.room # r
    BY <1>2, <1>3, <2>3 DEF StillPlays
  <2> QED
    BY <1>1, <1>3, <2>1, <2>2, <2>3 DEF Syncs
<1> QED
  BY <1>5, <1>6 DEF T
LEMMA ToldNext ==
    ASSUME UNCHANGED <<castRooms, castMembers, castHost, castPlaying>>, NEW r
    PROVE  Told(r)' <=> /\ Follows(link', r, live', listed'[r])
                        /\ Plays(link', r, playing'[r], host'[r])
BY DEF Told, Follows, Plays

\* A message about one room, sent by a handler that changes no other.
LEMMA TellOthers ==
    ASSUME ToldOfRooms, link \in Seq(Messages), NEW m \in Messages, link' = link \o <<m>>,
           UNCHANGED <<castRooms, castMembers, castHost, castPlaying, erasedRoom, twice>>,
           \A r \in Room \ {m.room} :
              /\ r \in live' <=> r \in live
              /\ listed'[r] = listed[r] /\ host'[r] = host[r] /\ playing'[r] = playing[r],
           ~Erased(m.room) /\ m.room \notin twice => Told(m.room)'
    PROVE  ToldOfRooms'
<1> SUFFICES ASSUME NEW r \in Room \ twice, ~Erased(r), r # m.room PROVE Told(r)'
  BY DEF ToldOfRooms, Erased
<1>1. Follows(link, r, live, listed[r]) /\ Plays(link, r, playing[r], host[r])
  BY DEF ToldOfRooms, Told
<1>2. Follows(link', r, live, listed[r]) /\ Plays(link', r, playing[r], host[r])
  BY <1>1, TellOther
<1>3. Follows(link', r, live', listed[r])
  BY <1>2 DEF Follows
<1> QED
  BY <1>2, <1>3, ToldNext

LEMMA MirrorJoinKeeps ==
    ASSUME MirrorInv, NEW p \in PartyMember, NEW r \in Room, Mirror!Join(p, r) PROVE MirrorInv'
<1> USE DEF MirrorInv
<1> DEFINE m == Mirror!JoinSync(r, p, host[r], playing[r])
<1>1. /\ inRoom[p] = None /\ r \in live /\ p \notin listed[r]
      /\ inRoom' = [inRoom EXCEPT ![p] = r]
      /\ listed' = [listed EXCEPT ![r] = listed[r] \cup {p}]
      /\ link' = link \o <<m>>
      /\ UNCHANGED <<live, freeRooms, host, playing, breaking, erasedRoom, twice>>
      /\ UNCHANGED <<castRooms, castMembers, castHost, castPlaying>>
  BY DEF Mirror!Join, Mirror!Say, Mirror!cast
<1>2. /\ m \in Messages /\ m.room = r /\ m.kind = "Join" /\ m.sid = p
      /\ m.host = host[r] /\ m.playing = playing[r]
  BY <1>1, MessageTypes DEF HostsNamed, Mirror!TypeOK, Mirror!JoinSync
<1> HIDE DEF m
<1>3. /\ \A q \in Room : listed'[q] = IF q = r THEN listed[r] \cup {p} ELSE listed[q]
      /\ \A s \in PartyMember : inRoom'[s] = IF s = p THEN r ELSE inRoom[s]
      /\ listed' \in [Room -> SUBSET PartyMember] /\ inRoom' \in [PartyMember -> Room \cup {None}]
      /\ link' \in Seq(Messages)
  BY <1>1, <1>2, AppendLink DEF Mirror!TypeOK
<1>4. Mirror!TypeOK'
  <2>1. \A i \in 1 .. Len(link') : \E q \in Room : link'[i] \in Mirror!About(q)
    BY <1>3, TypedLink
  <2> QED
    BY <1>1, <1>3, <2>1 DEF Mirror!TypeOK
<1>5. BreakersApart' /\ HostsNamed' /\ CastWhole'
  BY <1>1 DEF BreakersApart, Breaks, HostsNamed, CastWhole
<1>6. BreakOwnsRoom'
  BY <1>1, <1>3 DEF BreakOwnsRoom, Mirror!TypeOK
<1>7. RoomsWhole'
  BY <1>1, <1>3 DEF RoomsWhole
<1>8. ASSUME ~Erased(r), r \notin twice PROVE Told(r)'
  <2>1. Follows(link, r, live, listed[r])
    BY <1>8 DEF ToldOfRooms, Told
  <2>2. Follows(link', r, live', listed'[r])
    BY <1>1, <1>2, <1>3, <2>1, TellRooms
  <2>3. Plays(link', r, playing'[r], host'[r])
    <3>1. m.playing => playing'[r] /\ m.host = host'[r]
      BY <1>1, <1>2, <1>3
    <3>2. m.kind \in Syncs
      BY <1>2 DEF Syncs
    <3>3. Plays(link \o <<m>>, r, playing'[r], host'[r])
      BY <1>2, <3>1, <3>2, TellSync, Zenon
    <3> QED
      BY <1>1, <3>3
  <2> QED
    BY <1>1, <2>2, <2>3, ToldNext
<1>9. ToldOfRooms'
  BY <1>1, <1>2, <1>3, <1>8, TellOthers
<1> QED
  BY <1>3, <1>4, <1>5, <1>6, <1>7, <1>9

LEMMA MirrorCreateKeeps ==
    ASSUME MirrorInv, NEW p \in PartyMember, NEW r \in Room, Mirror!Create(p, r) PROVE MirrorInv'
<1> USE DEF MirrorInv
<1> DEFINE m == Mirror!JoinSync(r, p, p, FALSE)
<1>1. /\ inRoom[p] = None /\ p \notin Watcher /\ r \in freeRooms
      /\ freeRooms' = freeRooms \ {r} /\ live' = live \cup {r}
      /\ inRoom' = [inRoom EXCEPT ![p] = r]
      /\ listed' = [listed EXCEPT ![r] = {p}]
      /\ host' = [host EXCEPT ![r] = p] /\ playing' = [playing EXCEPT ![r] = FALSE]
      /\ link' = link \o <<m>>
      /\ UNCHANGED <<breaking, erasedRoom, twice>>
      /\ UNCHANGED <<castRooms, castMembers, castHost, castPlaying>>
  BY DEF Mirror!Create, Mirror!Say, Mirror!cast
<1>2. /\ m \in Messages /\ m.room = r /\ m.kind = "Join" /\ m.sid = p
      /\ m.host = p /\ m.playing = FALSE
  BY MessageTypes DEF Mirror!JoinSync
<1> HIDE DEF m
<1>3. /\ \A q \in Room : /\ listed'[q] = IF q = r THEN {p} ELSE listed[q]
                         /\ host'[q] = IF q = r THEN p ELSE host[q]
                         /\ q # r => playing'[q] = playing[q]
      /\ playing'[r] = FALSE
      /\ \A s \in PartyMember : inRoom'[s] = IF s = p THEN r ELSE inRoom[s]
      /\ listed' \in [Room -> SUBSET PartyMember] /\ inRoom' \in [PartyMember -> Room \cup {None}]
      /\ host' \in [Room -> PartyMember \cup {None}] /\ playing' \in [Room -> BOOLEAN]
      /\ link' \in Seq(Messages)
  <2>1. link' \in Seq(Messages)
    BY <1>1, <1>2, AppendLink
  <2> QED
    BY <1>1, <2>1 DEF Mirror!TypeOK
<1>4. Mirror!TypeOK'
  <2>1. \A i \in 1 .. Len(link') : \E q \in Room : link'[i] \in Mirror!About(q)
    BY <1>3, TypedLink
  <2> QED
    BY <1>1, <1>3, <2>1 DEF Mirror!TypeOK
<1>5. BreakersApart' /\ HostsNamed' /\ CastWhole'
  BY <1>1, <1>3 DEF BreakersApart, Breaks, HostsNamed, CastWhole, Mirror!TypeOK
<1>6. r \notin twice => r \notin live /\ listed[r] = {}
  BY <1>1 DEF RoomsWhole
<1>7. BreakOwnsRoom'
  BY <1>1, <1>3, <1>6 DEF BreakOwnsRoom, Mirror!TypeOK
<1>8. RoomsWhole'
  BY <1>1, <1>3 DEF RoomsWhole
<1>9. ASSUME ~Erased(r), r \notin twice PROVE Told(r)'
  <2>1. Follows(link, r, live, {})
    BY <1>6, <1>9 DEF ToldOfRooms, Told
  <2>2. Follows(link', r, live', {} \cup {p})
    BY <1>1, <1>2, <2>1, TellRooms
  <2>3. Plays(link', r, playing'[r], host'[r])
    <3>1. m.playing => playing'[r] /\ m.host = host'[r]
      BY <1>1, <1>2, <1>3
    <3>2. m.kind \in Syncs
      BY <1>2 DEF Syncs
    <3>3. Plays(link \o <<m>>, r, playing'[r], host'[r])
      BY <1>2, <3>1, <3>2, TellSync, Zenon
    <3> QED
      BY <1>1, <3>3
  <2> QED
    <3>1. listed'[r] = {} \cup {p}
      BY <1>3
    <3> QED
      BY <1>1, <2>2, <2>3, <3>1, ToldNext
<1>10. ToldOfRooms'
  BY <1>1, <1>2, <1>3, <1>9, TellOthers
<1> QED
  BY <1>3, <1>4, <1>5, <1>7, <1>8, <1>10
LEMMA MirrorHostChangeKeeps ==
    ASSUME MirrorInv, NEW p \in PartyMember, NEW q \in PartyMember, Mirror!HostChange(p, q) PROVE MirrorInv'
<1> USE MirrorAssumption DEF MirrorInv
<1>0. inRoom[p] \in Room
  BY DEF Mirror!HostChange, Mirror!InRoom, Mirror!TypeOK
<1> PICK r \in Room : r = inRoom[p]
  BY <1>0
<1> DEFINE m == Mirror!HostMessage(r, q)
<1>1. /\ r \in live /\ ~playing[r]
      /\ host' = [host EXCEPT ![r] = q]
      /\ link' = link \o <<m>>
      /\ UNCHANGED <<inRoom, live, freeRooms, listed, playing, breaking, erasedRoom, twice>>
      /\ UNCHANGED <<castRooms, castMembers, castHost, castPlaying>>
  BY DEF Mirror!HostChange, Mirror!InRoom, Mirror!Say, Mirror!cast
<1>3. m \in Messages /\ m.room = r /\ m.kind = "HostChange"
  BY MessageTypes DEF Mirror!HostMessage
<1> HIDE DEF m
<1>4. /\ \A s \in Room : host'[s] = IF s = r THEN q ELSE host[s]
      /\ host' \in [Room -> PartyMember \cup {None}]
      /\ link' \in Seq(Messages)
  BY <1>1, <1>3, AppendLink DEF Mirror!TypeOK
<1>5. Mirror!TypeOK'
  <2>1. \A i \in 1 .. Len(link') : \E s \in Room : link'[i] \in Mirror!About(s)
    BY <1>4, TypedLink
  <2> QED
    BY <1>1, <1>4, <2>1 DEF Mirror!TypeOK
<1>6. BreakersApart' /\ CastWhole' /\ BreakOwnsRoom' /\ RoomsWhole'
  BY <1>1 DEF BreakersApart, Breaks, CastWhole, BreakOwnsRoom, RoomsWhole
<1>7. HostsNamed'
  BY <1>1, <1>4 DEF HostsNamed, Mirror!TypeOK
<1>8. ASSUME ~Erased(r), r \notin twice PROVE Told(r)'
  <2>1. Follows(link, r, live, listed[r]) /\ Plays(link, r, playing[r], host[r])
    BY <1>8 DEF ToldOfRooms, Told
  <2>2. Follows(link', r, live', listed'[r])
    BY <1>1, <1>3, <2>1, TellRooms
  <2>3. playing[r] \in BOOLEAN
    BY DEF Mirror!TypeOK
  <2>4. Plays(link', r, playing'[r], host'[r])
    BY <1>1, <1>3, <2>1, <2>3, TellHost
  <2> QED
    BY <1>1, <2>2, <2>4, ToldNext
<1>9. ToldOfRooms'
  BY <1>1, <1>3, <1>4, <1>8, TellOthers
<1> QED
  BY <1>4, <1>5, <1>6, <1>7, <1>9

LEMMA MirrorMatchStateKeeps ==
    ASSUME MirrorInv, NEW p \in PartyMember, NEW play \in BOOLEAN, Mirror!MatchState(p, play) PROVE MirrorInv'
<1> USE MirrorAssumption DEF MirrorInv
<1>0. inRoom[p] \in Room
  BY DEF Mirror!MatchState, Mirror!InRoom, Mirror!TypeOK
<1> PICK r \in Room : r = inRoom[p]
  BY <1>0
<1> DEFINE m == Mirror!MatchSync(r, play)
<1>1. /\ r \in live
      /\ playing' = [playing EXCEPT ![r] = play]
      /\ link' = link \o <<m>>
      /\ UNCHANGED <<inRoom, live, freeRooms, listed, host, breaking, erasedRoom, twice>>
      /\ UNCHANGED <<castRooms, castMembers, castHost, castPlaying>>
  BY DEF Mirror!MatchState, Mirror!InRoom, Mirror!Say, Mirror!cast
<1>3. /\ m \in Messages /\ m.room = r /\ m.kind = "MatchState"
      /\ m.host = host[r] /\ m.playing = play
  BY <1>1, MessageTypes DEF HostsNamed, Mirror!MatchSync
<1> HIDE DEF m
<1>4. /\ playing'[r] = play /\ \A s \in Room \ {r} : playing'[s] = playing[s]
      /\ playing' \in [Room -> BOOLEAN]
      /\ link' \in Seq(Messages)
  BY <1>1, <1>3, AppendLink DEF Mirror!TypeOK
<1>5. Mirror!TypeOK'
  <2>1. \A i \in 1 .. Len(link') : \E s \in Room : link'[i] \in Mirror!About(s)
    BY <1>4, TypedLink
  <2> QED
    BY <1>1, <1>4, <2>1 DEF Mirror!TypeOK
<1>6. BreakersApart' /\ CastWhole' /\ BreakOwnsRoom' /\ RoomsWhole' /\ HostsNamed'
  BY <1>1 DEF BreakersApart, Breaks, CastWhole, BreakOwnsRoom, RoomsWhole, HostsNamed
<1>7. ASSUME ~Erased(r), r \notin twice PROVE Told(r)'
  <2>1. Follows(link, r, live, listed[r])
    BY <1>7 DEF ToldOfRooms, Told
  <2>2. Follows(link', r, live', listed'[r])
    BY <1>1, <1>3, <2>1, TellRooms
  <2>3. Plays(link', r, playing'[r], host'[r])
    <3>1. m.playing => playing'[r] /\ m.host = host'[r]
      BY <1>1, <1>3, <1>4
    <3>2. m.kind \in Syncs
      BY <1>3 DEF Syncs
    <3>3. Plays(link \o <<m>>, r, playing'[r], host'[r])
      BY <1>3, <3>1, <3>2, TellSync, Zenon
    <3> QED
      BY <1>1, <3>3
  <2> QED
    BY <1>1, <2>2, <2>3, ToldNext
<1>8. ToldOfRooms'
  BY <1>1, <1>3, <1>4, <1>7, TellOthers
<1> QED
  BY <1>4, <1>5, <1>6, <1>8

\* Nobody is told; a match that goes on after all may be one that Cast knows of.
LEMMA MirrorReopenedKeeps ==
    ASSUME MirrorInv, NEW p \in PartyMember, Mirror!Reopened(p) PROVE MirrorInv'
<1> USE MirrorAssumption DEF MirrorInv
<1>0. inRoom[p] \in Room
  BY DEF Mirror!Reopened, Mirror!InRoom, Mirror!TypeOK
<1> PICK r \in Room : r = inRoom[p]
  BY <1>0
<1>1. /\ r \in live
      /\ playing' = [playing EXCEPT ![r] = TRUE]
      /\ UNCHANGED <<inRoom, live, freeRooms, listed, host, breaking, erasedRoom, twice, link>>
      /\ UNCHANGED <<castRooms, castMembers, castHost, castPlaying>>
  BY DEF Mirror!Reopened, Mirror!InRoom, Mirror!cast
<1>3. /\ playing'[r] = TRUE /\ \A s \in Room \ {r} : playing'[s] = playing[s]
      /\ playing' \in [Room -> BOOLEAN]
  BY <1>1 DEF Mirror!TypeOK
<1>4. Mirror!TypeOK'
  BY <1>1, <1>3 DEF Mirror!TypeOK
<1>5. BreakersApart' /\ CastWhole' /\ BreakOwnsRoom' /\ RoomsWhole' /\ HostsNamed'
  BY <1>1 DEF BreakersApart, Breaks, CastWhole, BreakOwnsRoom, RoomsWhole, HostsNamed
<1>6. ToldOfRooms'
  <2> SUFFICES ASSUME NEW s \in Room \ twice, ~Erased(s) PROVE Told(s)'
    BY <1>1 DEF ToldOfRooms, Erased
  <2>1. Follows(link, s, live, listed[s]) /\ Plays(link, s, playing[s], host[s])
    BY DEF ToldOfRooms, Told
  <2>2. Plays(link, s, playing'[s], host[s])
    <3>1. CASE s = r
      <4>1. Plays(link, s, TRUE, host[s])
        BY <2>1 DEF Plays, WillPlay, StillPlays
      <4> QED
        BY <1>3, <3>1, <4>1
    <3>2. CASE s # r
      BY <1>3, <2>1, <3>2
    <3> QED
      BY <3>1, <3>2
  <2> QED
    BY <1>1, <2>1, <2>2, ToldNext
<1> QED
  BY <1>1, <1>4, <1>5, <1>6

-----------------------------------------------------------------------------
\* Whoever breaks a room.

LEMMA BreakClearKeeps ==
    ASSUME MirrorInv, NEW b \in Breaker, NEW r \in Room, Mirror!BreakClear(b, r) PROVE MirrorInv'
<1> USE MirrorAssumption DEF MirrorInv
<1>1. /\ breaking[b] = None /\ erasedRoom[b] = None /\ r \in live
      /\ breaking' = [breaking EXCEPT ![b] = r]
      /\ twice' = IF \E c \in Breaker : breaking[c] = r THEN twice \cup {r} ELSE twice
      /\ inRoom' = [p \in PartyMember |-> IF p \in listed[r] /\ inRoom[p] = r THEN None ELSE inRoom[p]]
      /\ UNCHANGED <<live, freeRooms, listed, host, playing, erasedRoom, link>>
      /\ UNCHANGED <<castRooms, castMembers, castHost, castPlaying>>
  BY DEF Mirror!BreakClear, Mirror!cast
<1>2. /\ breaking' \in [Breaker -> Room \cup {None}] /\ twice' \subseteq Room
      /\ inRoom' \in [PartyMember -> Room \cup {None}]
      /\ \A c \in Breaker : breaking'[c] = IF c = b THEN r ELSE breaking[c]
      /\ \A p \in PartyMember : inRoom'[p] = IF p \in listed[r] /\ inRoom[p] = r THEN None ELSE inRoom[p]
  BY <1>1 DEF Mirror!TypeOK
<1>3. Mirror!TypeOK'
  BY <1>1, <1>2 DEF Mirror!TypeOK
<1>4. CastWhole' /\ HostsNamed'
  BY <1>1 DEF CastWhole, HostsNamed
<1>5. Room \ twice' \subseteq Room \ twice
  BY <1>1
<1>6. RoomsWhole'
  BY <1>1, <1>5 DEF RoomsWhole
<1>7. ToldOfRooms'
  BY <1>1, <1>5, ToldNext DEF ToldOfRooms, Told, Erased
<1>8. r \notin twice' => \A c \in Breaker : ~Breaks(c, r)
  BY <1>1 DEF Breaks, BreakOwnsRoom
<1>10. BreakersApart'
  <2>1. \A c \in Breaker : breaking'[c] = None \/ erasedRoom'[c] = None
    BY <1>1, <1>2 DEF BreakersApart
  <2>2. ASSUME NEW s \in Room \ twice', NEW c \in Breaker, NEW d \in Breaker, Breaks(c, s)', Breaks(d, s)'
        PROVE  c = d
    <3>1. CASE s = r
      BY <1>1, <1>2, <1>8, <2>2, <3>1 DEF Breaks
    <3>2. CASE s # r
      BY <1>1, <1>2, <1>5, <2>2, <3>2 DEF Breaks, BreakersApart
    <3> QED
      BY <3>1, <3>2
  <2> QED
    BY <2>1, <2>2 DEF BreakersApart
<1>11. BreakOwnsRoom'
  <2> SUFFICES ASSUME NEW s \in Room \ twice', NEW c \in Breaker
               PROVE  /\ breaking'[c] = s => s \in live /\ \E m \in listed[s] \ Watcher : inRoom'[m] # s
                      /\ erasedRoom[c] = s => s \notin live /\ s \notin freeRooms
    BY <1>1 DEF BreakOwnsRoom
  <2>1. CASE s = r
    BY <1>1, <1>2, <1>5, <2>1 DEF BreakOwnsRoom, RoomsWhole, Mirror!TypeOK
  <2>2. CASE s # r
    <3>1. ASSUME breaking[c] = s PROVE \E m \in listed[s] \ Watcher : inRoom'[m] # s
      BY <1>2, <1>5, <2>2, <3>1 DEF BreakOwnsRoom, Mirror!TypeOK
    <3> QED
      BY <1>2, <1>5, <2>2, <3>1 DEF BreakOwnsRoom
  <2> QED
    BY <2>1, <2>2
<1> QED
  BY <1>1, <1>3, <1>4, <1>6, <1>7, <1>10, <1>11

LEMMA BreakEraseKeeps ==
    ASSUME MirrorInv, NEW b \in Breaker, Mirror!BreakErase(b) PROVE MirrorInv'
<1> USE MirrorAssumption DEF MirrorInv
<1>0. breaking[b] \in Room
  BY DEF Mirror!BreakErase, Mirror!TypeOK
<1> PICK r \in Room : r = breaking[b]
  BY <1>0
<1>1. /\ r # None
      /\ breaking' = [breaking EXCEPT ![b] = None] /\ erasedRoom' = [erasedRoom EXCEPT ![b] = r]
      /\ live' = live \ {r} /\ listed' = [listed EXCEPT ![r] = {}]
      /\ host' = [host EXCEPT ![r] = None] /\ playing' = [playing EXCEPT ![r] = FALSE]
      /\ UNCHANGED <<freeRooms, inRoom, twice, link>>
      /\ UNCHANGED <<castRooms, castMembers, castHost, castPlaying>>
  BY DEF Mirror!BreakErase, Mirror!FreeLater, Mirror!cast
<1>3. /\ breaking' \in [Breaker -> Room \cup {None}] /\ erasedRoom' \in [Breaker -> Room \cup {None}]
      /\ listed' \in [Room -> SUBSET PartyMember] /\ host' \in [Room -> PartyMember \cup {None}]
      /\ playing' \in [Room -> BOOLEAN]
      /\ \A c \in Breaker : /\ breaking'[c] = IF c = b THEN None ELSE breaking[c]
                            /\ erasedRoom'[c] = IF c = b THEN r ELSE erasedRoom[c]
      /\ listed'[r] = {}
      /\ \A s \in Room \ {r} : listed'[s] = listed[s] /\ host'[s] = host[s] /\ playing'[s] = playing[s]
  BY <1>1 DEF Mirror!TypeOK
<1>4. Mirror!TypeOK'
  BY <1>1, <1>3 DEF Mirror!TypeOK
<1>5. CastWhole' /\ HostsNamed'
  BY <1>1, <1>3 DEF CastWhole, HostsNamed, Mirror!TypeOK
<1>6. breaking[b] = r /\ Breaks(b, r)
  BY DEF Breaks
<1>7. r \notin twice => r \in live /\ r \notin freeRooms /\ \A c \in Breaker : Breaks(c, r) => c = b
  BY <1>6 DEF BreakOwnsRoom, RoomsWhole, BreakersApart
<1>8. BreakersApart'
  BY <1>1, <1>3, <1>6 DEF BreakersApart, Breaks
<1>9. BreakOwnsRoom'
  <2> SUFFICES ASSUME NEW s \in Room \ twice, NEW c \in Breaker
               PROVE  /\ breaking'[c] = s => s \in live' /\ \E m \in listed'[s] \ Watcher : inRoom[m] # s
                      /\ erasedRoom'[c] = s => s \notin live' /\ s \notin freeRooms
    BY <1>1 DEF BreakOwnsRoom
  <2>1. CASE s = r
    BY <1>1, <1>3, <1>6, <1>7, <2>1 DEF Breaks, Mirror!TypeOK
  <2>2. CASE s # r
    BY <1>1, <1>3, <2>2 DEF BreakOwnsRoom
  <2> QED
    BY <2>1, <2>2
<1>10. RoomsWhole'
  BY <1>1, <1>3 DEF RoomsWhole
<1>11. ToldOfRooms'
  <2> SUFFICES ASSUME NEW s \in Room \ twice, ~Erased(s)' PROVE Told(s)'
    BY <1>1 DEF ToldOfRooms
  <2>1. s # r /\ ~Erased(s)
    BY <1>3, <1>6 DEF Erased, Breaks, BreakersApart
  <2>2. Follows(link, s, live, listed[s]) /\ Plays(link, s, playing[s], host[s])
    BY <2>1 DEF ToldOfRooms, Told
  <2>3. Follows(link, s, live', listed[s])
    BY <1>1, <2>1, <2>2 DEF Follows
  <2> QED
    BY <1>1, <1>3, <2>1, <2>2, <2>3, ToldNext
<1> QED
  BY <1>1, <1>4, <1>5, <1>8, <1>9, <1>10, <1>11

LEMMA BreakTellKeeps ==
    ASSUME MirrorInv, NEW b \in Breaker, Mirror!BreakTell(b) PROVE MirrorInv'
<1> USE MirrorAssumption DEF MirrorInv
<1>0. erasedRoom[b] \in Room
  BY DEF Mirror!BreakTell, Mirror!TypeOK
<1> PICK r \in Room : r = erasedRoom[b]
  BY <1>0
<1> DEFINE m == Mirror!RemoveSync(r)
<1>1. /\ r # None /\ erasedRoom' = [erasedRoom EXCEPT ![b] = None]
      /\ freeRooms' = freeRooms \cup {r} /\ link' = link \o <<m>>
      /\ UNCHANGED <<inRoom, live, listed, host, playing, breaking, twice>>
      /\ UNCHANGED <<castRooms, castMembers, castHost, castPlaying>>
  BY DEF Mirror!BreakTell, Mirror!Say, Mirror!cast
<1>3. m \in Messages /\ m.room = r /\ m.kind = "Remove"
  <2>1. m \in Mirror!About(r)
    BY DEF Mirror!About, Mirror!RemoveSync
  <2> QED
    BY <2>1 DEF Messages, Mirror!RemoveSync
<1> HIDE DEF m
<1>4. /\ erasedRoom' \in [Breaker -> Room \cup {None}]
      /\ \A c \in Breaker : erasedRoom'[c] = IF c = b THEN None ELSE erasedRoom[c]
      /\ link' \in Seq(Messages)
  BY <1>1, <1>3, AppendLink DEF Mirror!TypeOK
<1>5. Mirror!TypeOK'
  <2>1. \A i \in 1 .. Len(link') : \E s \in Room : link'[i] \in Mirror!About(s)
    BY <1>4, TypedLink
  <2> QED
    BY <1>1, <1>4, <2>1 DEF Mirror!TypeOK
<1>6. CastWhole' /\ HostsNamed'
  BY <1>1 DEF CastWhole, HostsNamed
<1>7. r \notin twice => r \notin live /\ \A c \in Breaker : Breaks(c, r) => c = b
  BY DEF BreakOwnsRoom, BreakersApart, Breaks
<1>8. breaking[b] = None
  BY <1>1 DEF BreakersApart
<1>9. BreakersApart'
  BY <1>1, <1>4 DEF BreakersApart, Breaks
<1>10. BreakOwnsRoom'
  <2> SUFFICES ASSUME NEW s \in Room \ twice, NEW c \in Breaker
               PROVE  /\ breaking[c] = s => s \in live /\ \E k \in listed[s] \ Watcher : inRoom[k] # s
                      /\ erasedRoom'[c] = s => s \notin live /\ s \notin freeRooms'
    BY <1>1 DEF BreakOwnsRoom
  <2>1. breaking[c] = s => s \in live /\ \E k \in listed[s] \ Watcher : inRoom[k] # s
    BY DEF BreakOwnsRoom
  <2>2. ASSUME erasedRoom'[c] = s PROVE s \notin live /\ s \notin freeRooms'
    <3>1. CASE c = b
      BY <1>4, <2>2, <3>1 DEF Mirror!TypeOK
    <3>2. CASE c # b
      BY <1>1, <1>4, <1>7, <2>2, <3>2 DEF BreakOwnsRoom, Breaks
    <3> QED
      BY <3>1, <3>2
  <2> QED
    BY <2>1, <2>2
<1>11. RoomsWhole'
  BY <1>1, <1>7 DEF RoomsWhole
<1>12. ToldOfRooms'
  <2> SUFFICES ASSUME NEW s \in Room \ twice, ~Erased(s)' PROVE Told(s)'
    BY <1>1 DEF ToldOfRooms
  <2>1. CASE s = r
    <3>1. r \notin live /\ listed[r] = {}
      BY <1>7, <2>1 DEF RoomsWhole
    <3>2. Follows(link \o <<m>>, r, live, {}) /\ Plays(link \o <<m>>, r, playing[r], host[r])
      BY <1>3, <3>1, TellRemove
    <3> QED
      BY <1>1, <2>1, <3>1, <3>2, ToldNext
  <2>2. CASE s # r
    <3>1. ~Erased(s)
      BY <1>4, <2>2 DEF Erased
    <3>2. Follows(link, s, live, listed[s]) /\ Plays(link, s, playing[s], host[s])
      BY <3>1 DEF ToldOfRooms, Told
    <3>3. Follows(link', s, live, listed[s]) /\ Plays(link', s, playing[s], host[s])
      BY <1>1, <1>3, <2>2, <3>2, TellOther
    <3> QED
      BY <1>1, <3>3, ToldNext
  <2> QED
    BY <2>1, <2>2
<1> QED
  BY <1>4, <1>5, <1>6, <1>9, <1>10, <1>11, <1>12
LEMMA TwoMessages ==
    ASSUME NEW S, NEW a \in S, NEW b \in S
    PROVE  <<a, b>> = <<a>> \o <<b>>
<1> DEFINE s == <<a, b>>
           t == <<a>> \o <<b>>
<1>1. s \in Seq(S) /\ Len(s) = 2 /\ s[1] = a /\ s[2] = b
  OBVIOUS
<1>2. t \in Seq(S) /\ Len(t) = 2 /\ t[1] = a /\ t[2] = b
  OBVIOUS
<1> HIDE DEF s, t
<1>3. \A i \in 1 .. Len(s) : i = 1 \/ i = 2
  BY <1>1
<1>4. s = t
  BY <1>1, <1>2, <1>3, SeqEqual
<1> QED
  BY <1>4 DEF s, t

\* A player leaves: the host that it makes another, its leaving, and the end of a room
\* in which nobody is left who does not only watch.
LEMMA MirrorLeaveKeeps ==
    ASSUME MirrorInv, NEW p \in PartyMember, NEW h \in PartyMember, Mirror!Leave(p, h) PROVE MirrorInv'
<1> USE MirrorAssumption DEF MirrorInv
<1>1. inRoom[p] \in Room
  BY DEF Mirror!Leave, Mirror!InRoom, Mirror!TypeOK
<1> PICK r \in Room : r = inRoom[p]
  BY <1>1
<1> DEFINE hm == Mirror!HostMessage(r, h)
           lm == Mirror!LeaveSync(r, p, h)
           rm == Mirror!RemoveSync(r)
           K == link \o Mirror!Inherited(r, h)
<1> PICK rest \in SUBSET PartyMember : rest = listed[r] \ {p}
  BY DEF Mirror!TypeOK
<1>2. /\ r \in live /\ UNCHANGED <<breaking, erasedRoom, twice>>
      /\ UNCHANGED <<castRooms, castMembers, castHost, castPlaying>>
  BY DEF Mirror!Leave, Mirror!InRoom, Mirror!cast
<1>3. playing[r] \in BOOLEAN
  BY DEF Mirror!TypeOK
<1>4. /\ hm \in Messages /\ hm.room = r /\ hm.kind = "HostChange"
      /\ lm \in Messages /\ lm.room = r /\ lm.kind = "Leave" /\ lm.sid = p
      /\ lm.host = h /\ lm.playing = playing[r]
      /\ rm \in Messages /\ rm.room = r /\ rm.kind = "Remove"
  BY <1>3, MessageTypes DEF Mirror!HostMessage, Mirror!LeaveSync, Mirror!RemoveSync
<1>5. K = link \/ K = link \o <<hm>>
  BY DEF Mirror!Inherited
<1>6. K \in Seq(Messages) /\ K \o <<lm>> \in Seq(Messages) /\ (K \o <<lm>>) \o <<rm>> \in Seq(Messages)
  <2>1. K \in Seq(Messages)
    BY <1>4, <1>5, AppendLink
  <2> HIDE DEF K, lm, rm
  <2> QED
    BY <1>4, <2>1, AppendLink
<1>7. link \o (Mirror!Inherited(r, h) \o <<lm>>) = K \o <<lm>>
  <2>1. Mirror!Inherited(r, h) \in Seq(Messages)
    BY <1>4 DEF Mirror!Inherited
  <2> HIDE DEF lm
  <2> QED
    BY <1>4, <2>1
<1>8. link \o (Mirror!Inherited(r, h) \o <<lm, rm>>) = (K \o <<lm>>) \o <<rm>>
  <2>1. Mirror!Inherited(r, h) \in Seq(Messages)
    BY <1>4 DEF Mirror!Inherited
  <2> HIDE DEF lm, rm
  <2>2. <<lm>> \in Seq(Messages) /\ <<rm>> \in Seq(Messages) /\ <<lm, rm>> = <<lm>> \o <<rm>>
    BY <1>4, TwoMessages
  <2>3. Mirror!Inherited(r, h) \o <<lm, rm>> = (Mirror!Inherited(r, h) \o <<lm>>) \o <<rm>>
    BY <2>1, <2>2, ConcatAssociative
  <2>4. Mirror!Inherited(r, h) \o <<lm>> \in Seq(Messages)
    BY <1>4, <2>1
  <2> QED
    BY <1>7, <2>2, <2>3, <2>4, ConcatAssociative
<1>9. \A s \in Room \ {r} : \A where, those, on, host0 :
         /\ Follows(link, s, where, those) => /\ Follows(K \o <<lm>>, s, where, those)
                                              /\ Follows((K \o <<lm>>) \o <<rm>>, s, where, those)
         /\ Plays(link, s, on, host0) => /\ Plays(K \o <<lm>>, s, on, host0)
                                         /\ Plays((K \o <<lm>>) \o <<rm>>, s, on, host0)
  <2> TAKE s \in Room \ {r}
  <2> TAKE where, those, on, host0
  <2> HIDE DEF hm, lm, rm
  <2>1. /\ Follows(link, s, where, those) => Follows(K, s, where, those)
        /\ Plays(link, s, on, host0) => Plays(K, s, on, host0)
    BY <1>4, <1>5, TellOther
  <2> HIDE DEF K
  <2>2. /\ Follows(K, s, where, those) => Follows(K \o <<lm>>, s, where, those)
        /\ Plays(K, s, on, host0) => Plays(K \o <<lm>>, s, on, host0)
    BY <1>4, <1>6, TellOther
  <2>3. /\ Follows(K \o <<lm>>, s, where, those) => Follows((K \o <<lm>>) \o <<rm>>, s, where, those)
        /\ Plays(K \o <<lm>>, s, on, host0) => Plays((K \o <<lm>>) \o <<rm>>, s, on, host0)
    BY <1>4, <1>6, TellOther
  <2> QED
    BY <2>1, <2>2, <2>3
<1>10. r \notin twice => Follows(K, r, live, listed[r])
  <2> SUFFICES ASSUME r \notin twice PROVE Follows(K, r, live, listed[r])
    OBVIOUS
  <2>1. ~Erased(r)
    BY <1>2 DEF Erased, BreakOwnsRoom
  <2>2. Follows(link, r, live, listed[r])
    BY <2>1 DEF ToldOfRooms, Told
  <2> HIDE DEF hm
  <2> QED
    BY <1>4, <1>5, <2>2, TellRooms
<1>11. CASE rest \subseteq Watcher
  <2>1. /\ live' = live \ {r} /\ freeRooms' = freeRooms \cup {r}
        /\ inRoom' = [q \in PartyMember |->
               IF q = p \/ (q \in rest /\ inRoom[q] = r) THEN None ELSE inRoom[q]]
        /\ listed' = [listed EXCEPT ![r] = {}] /\ host' = [host EXCEPT ![r] = None]
        /\ playing' = [playing EXCEPT ![r] = FALSE]
        /\ link' = (K \o <<lm>>) \o <<rm>>
    BY <1>8, <1>11 DEF Mirror!Leave, Mirror!Say
  <2> HIDE DEF hm, lm, rm, K
  <2>2. /\ listed' \in [Room -> SUBSET PartyMember] /\ host' \in [Room -> PartyMember \cup {None}]
        /\ playing' \in [Room -> BOOLEAN] /\ inRoom' \in [PartyMember -> Room \cup {None}]
        /\ listed'[r] = {}
        /\ \A s \in Room \ {r} : listed'[s] = listed[s] /\ host'[s] = host[s] /\ playing'[s] = playing[s]
        /\ \A q \in PartyMember : inRoom'[q] \in {None, inRoom[q]}
    BY <2>1 DEF Mirror!TypeOK
  <2>3. Mirror!TypeOK'
    <3>1. \A i \in 1 .. Len(link') : \E s \in Room : link'[i] \in Mirror!About(s)
      BY <1>6, <2>1, TypedLink
    <3> QED
      BY <1>2, <2>1, <2>2, <3>1 DEF Mirror!TypeOK
  <2>4. BreakersApart' /\ HostsNamed' /\ CastWhole'
    BY <1>2, <2>1, <2>2 DEF BreakersApart, Breaks, HostsNamed, CastWhole
  <2>5. RoomsWhole'
    BY <1>2, <2>1, <2>2 DEF RoomsWhole
  <2>6. BreakOwnsRoom'
    <3> SUFFICES ASSUME NEW s \in Room \ twice, NEW c \in Breaker
                 PROVE  /\ breaking[c] = s => s \in live' /\ \E k \in listed'[s] \ Watcher : inRoom'[k] # s
                        /\ erasedRoom[c] = s => s \notin live' /\ s \notin freeRooms'
      BY <1>2 DEF BreakOwnsRoom
    <3>1. CASE s = r
      BY <1>2, <1>11, <3>1 DEF BreakOwnsRoom
    <3>2. CASE s # r
      <4>1. ASSUME breaking[c] = s PROVE \E k \in listed[s] \ Watcher : inRoom'[k] # s
        <5> PICK k \in listed[s] \ Watcher : inRoom[k] # s
          BY <4>1 DEF BreakOwnsRoom
        <5>1. k \in PartyMember
          BY DEF Mirror!TypeOK
        <5> QED
          BY <2>2, <5>1
      <4> QED
        BY <2>1, <2>2, <3>2, <4>1 DEF BreakOwnsRoom
    <3> QED
      BY <3>1, <3>2
  <2>7. ToldOfRooms'
    <3> SUFFICES ASSUME NEW s \in Room \ twice, ~Erased(s) PROVE Told(s)'
      BY <1>2 DEF ToldOfRooms, Erased
    <3>1. CASE s = r
      <4>1. r \notin live'
        BY <2>1
      <4>2. Follows(link', r, live', {}) /\ Plays(link', r, playing'[r], host'[r])
        BY <1>4, <1>6, <2>1, <4>1, TellRemove
      <4> QED
        BY <1>2, <2>2, <3>1, <4>2, ToldNext
    <3>2. CASE s # r
      <4>1. Follows(link, s, live, listed[s]) /\ Plays(link, s, playing[s], host[s])
        BY DEF ToldOfRooms, Told
      <4>2. Follows(link', s, live, listed[s]) /\ Plays(link', s, playing[s], host[s])
        BY <1>9, <2>1, <3>2, <4>1
      <4>3. Follows(link', s, live', listed[s])
        BY <2>1, <3>2, <4>2 DEF Follows
      <4> QED
        BY <1>2, <2>2, <3>2, <4>2, <4>3, ToldNext
    <3> QED
      BY <3>1, <3>2
  <2> QED
    BY <1>6, <2>1, <2>3, <2>4, <2>5, <2>6, <2>7
<1>12. CASE ~(rest \subseteq Watcher)
  <2>1. /\ inRoom' = [inRoom EXCEPT ![p] = None]
        /\ listed' = [listed EXCEPT ![r] = rest] /\ host' = [host EXCEPT ![r] = h]
        /\ link' = K \o <<lm>>
        /\ UNCHANGED <<live, freeRooms, playing>>
    BY <1>7, <1>12 DEF Mirror!Leave, Mirror!Say
  <2> HIDE DEF hm, lm, rm, K
  <2>2. /\ listed' \in [Room -> SUBSET PartyMember] /\ host' \in [Room -> PartyMember \cup {None}]
        /\ inRoom' \in [PartyMember -> Room \cup {None}]
        /\ listed'[r] = rest /\ host'[r] = h
        /\ \A s \in Room \ {r} : listed'[s] = listed[s] /\ host'[s] = host[s]
        /\ \A q \in PartyMember : inRoom'[q] \in {None, inRoom[q]}
    BY <2>1 DEF Mirror!TypeOK
  <2>3. Mirror!TypeOK'
    <3>1. \A i \in 1 .. Len(link') : \E s \in Room : link'[i] \in Mirror!About(s)
      BY <1>6, <2>1, TypedLink
    <3> QED
      BY <1>2, <2>1, <2>2, <3>1 DEF Mirror!TypeOK
  <2>4. BreakersApart' /\ CastWhole'
    BY <1>2, <2>1, <2>2 DEF BreakersApart, Breaks, CastWhole
  <2>5. HostsNamed'
    BY <1>2, <2>1, <2>2 DEF HostsNamed, Mirror!TypeOK
  <2>6. RoomsWhole'
    BY <1>2, <1>12, <2>1, <2>2 DEF RoomsWhole
  <2>7. BreakOwnsRoom'
    <3> SUFFICES ASSUME NEW s \in Room \ twice, NEW c \in Breaker, breaking[c] = s
                 PROVE  \E k \in listed'[s] \ Watcher : inRoom'[k] # s
      BY <1>2, <2>1 DEF BreakOwnsRoom
    <3> PICK k \in listed[s] \ Watcher : inRoom[k] # s
      BY DEF BreakOwnsRoom
    <3>1. k \in PartyMember /\ inRoom'[k] # s
      BY <2>2 DEF Mirror!TypeOK
    <3>2. s = r => k \in rest
      OBVIOUS
    <3> QED
      BY <2>2, <3>1, <3>2
  <2>8. ToldOfRooms'
    <3> SUFFICES ASSUME NEW s \in Room \ twice, ~Erased(s) PROVE Told(s)'
      BY <1>2 DEF ToldOfRooms, Erased
    <3>1. CASE s = r
      <4>1. Follows(link', r, live, listed[r] \ {p})
        BY <1>4, <1>6, <1>10, <2>1, <3>1, TellRooms
      <4>2. lm.kind \in Syncs
        BY <1>4 DEF Syncs
      <4>3. lm.playing => playing[r] /\ lm.host = h
        BY <1>4
      <4>4. Plays(K \o <<lm>>, r, playing[r], h)
        BY <1>4, <1>6, <4>2, <4>3, TellSync, Zenon
      <4> QED
        BY <1>2, <2>1, <2>2, <3>1, <4>1, <4>4, ToldNext
    <3>2. CASE s # r
      <4>1. Follows(link, s, live, listed[s]) /\ Plays(link, s, playing[s], host[s])
        BY DEF ToldOfRooms, Told
      <4>2. Follows(link', s, live, listed[s]) /\ Plays(link', s, playing[s], host[s])
        BY <1>9, <2>1, <3>2, <4>1
      <4> QED
        BY <1>2, <2>1, <2>2, <3>2, <4>2, ToldNext
    <3> QED
      BY <3>1, <3>2
  <2> QED
    BY <1>6, <2>1, <2>3, <2>4, <2>5, <2>6, <2>7, <2>8
<1> QED
  BY <1>11, <1>12
-----------------------------------------------------------------------------
\* What Cast knows, and so what it will know, once it has handled a message: of the room
\* that the message is about, and of the others.
Handles(m) ==
    /\ castRooms' \subseteq Room /\ castMembers' \in [Room -> SUBSET PartyMember]
    /\ castHost' \in [Room -> PartyMember \cup {None}] /\ castPlaying' \in [Room -> BOOLEAN]
    /\ \A r \in Room \ {m.room} :
          /\ r \in castRooms' <=> r \in castRooms
          /\ castMembers'[r] = castMembers[r] /\ castHost'[r] = castHost[r] /\ castPlaying'[r] = castPlaying[r]
    /\ m.room \in castRooms' <=>
          m.kind \in {"Join", "MatchState"} \/ (m.room \in castRooms /\ m.kind # "Remove")
    /\ \A p \in PartyMember : p \in castMembers'[m.room] <=>
          \/ m.kind = "Join" /\ p = m.sid
          \/ p \in castMembers[m.room] /\ m.kind # "Remove" /\ (m.kind = "Leave" => p # m.sid)
    /\ m.kind \in Syncs /\ castPlaying'[m.room] => m.playing /\ castHost'[m.room] = m.host
    /\ m.kind = "Remove" => ~castPlaying'[m.room]
    /\ m.kind = "HostChange" /\ castPlaying'[m.room] => castPlaying[m.room]
    /\ m.room \notin castRooms' => castMembers'[m.room] = {} /\ ~castPlaying'[m.room]

LEMMA SyncedTo ==
    ASSUME Mirror!TypeOK, NEW m \in Messages, m.kind \in Syncs, NEW who \in SUBSET PartyMember,
           Mirror!Synced(m, who)
    PROVE  /\ castRooms' = castRooms \cup {m.room}
           /\ castRooms' \subseteq Room /\ castMembers' \in [Room -> SUBSET PartyMember]
           /\ castHost' \in [Room -> PartyMember \cup {None}] /\ castPlaying' \in [Room -> BOOLEAN]
           /\ \A r \in Room \ {m.room} :
                 castMembers'[r] = castMembers[r] /\ castHost'[r] = castHost[r] /\ castPlaying'[r] = castPlaying[r]
           /\ castMembers'[m.room] = who /\ castHost'[m.room] = m.host
           /\ castPlaying'[m.room] <=> m.playing
<1>1. m.room \in Room /\ m.host \in PartyMember /\ m.playing \in BOOLEAN
  BY MessageFields
<1> PICK r \in Room : r = m.room
  BY <1>1
<1> PICK g \in PartyMember : g = m.host
  BY <1>1
<1> PICK play \in BOOLEAN : play = m.playing
  BY <1>1
<1>2. /\ castRooms' = castRooms \cup {r}
      /\ castMembers' = [castMembers EXCEPT ![r] = who]
      /\ castHost' = [castHost EXCEPT ![r] = g]
      /\ castPlaying' = [castPlaying EXCEPT ![r] = play]
  BY DEF Mirror!Synced
<1>3. /\ castRooms' \subseteq Room /\ castMembers' \in [Room -> SUBSET PartyMember]
      /\ castHost' \in [Room -> PartyMember \cup {None}]
      /\ castMembers'[r] = who /\ castHost'[r] = g
      /\ \A s \in Room \ {r} : castMembers'[s] = castMembers[s] /\ castHost'[s] = castHost[s]
  BY <1>2 DEF Mirror!TypeOK
<1>4. /\ castPlaying' \in [Room -> BOOLEAN] /\ castPlaying'[r] = play
      /\ \A s \in Room \ {r} : castPlaying'[s] = castPlaying[s]
  BY <1>2, Zenon DEF Mirror!TypeOK
<1>5. castPlaying'[r] <=> m.playing
  BY <1>4, Zenon
<1> QED
  BY <1>2, <1>3, <1>4, <1>5

LEMMA HandledDoes ==
    ASSUME Mirror!TypeOK, CastWhole, NEW m \in Messages, Mirror!Handled(m) PROVE Handles(m)
<1>1. /\ m.room \in Room /\ m.kind \in {"Join", "Leave", "MatchState", "HostChange", "Remove"}
      /\ m.kind \in {"Join", "Leave"} => m.sid \in PartyMember
      /\ m.kind = "HostChange" => m.host \in PartyMember
  BY MessageFields
<1>2. castMembers[m.room] \in SUBSET PartyMember
  BY <1>1 DEF Mirror!TypeOK
<1>3. CASE m.kind = "Join"
  <2>1. Mirror!Synced(m, castMembers[m.room] \cup {m.sid}) /\ m.kind \in Syncs
    BY <1>3 DEF Mirror!Handled, Syncs
  <2>2. castMembers[m.room] \cup {m.sid} \in SUBSET PartyMember
    BY <1>1, <1>2, <1>3
  <2> PICK who \in SUBSET PartyMember : who = castMembers[m.room] \cup {m.sid}
    BY <2>2
  <2> QED
    BY <1>1, <1>3, <2>1, SyncedTo DEF Handles
<1>4. CASE m.kind = "MatchState"
  <2>1. Mirror!Synced(m, castMembers[m.room]) /\ m.kind \in Syncs
    BY <1>4 DEF Mirror!Handled, Syncs
  <2> QED
    BY <1>1, <1>2, <1>4, <2>1, SyncedTo DEF Handles
<1>5. CASE m.kind = "Leave" /\ m.room \in castRooms
  <2>1. Mirror!Synced(m, castMembers[m.room] \ {m.sid}) /\ m.kind \in Syncs
    BY <1>5 DEF Mirror!Handled, Syncs
  <2>2. castMembers[m.room] \ {m.sid} \in SUBSET PartyMember
    BY <1>2
  <2> PICK who \in SUBSET PartyMember : who = castMembers[m.room] \ {m.sid}
    BY <2>2
  <2> QED
    BY <1>1, <1>5, <2>1, SyncedTo DEF Handles
<1>6. CASE m.kind = "Leave" /\ m.room \notin castRooms
  <2>1. UNCHANGED <<castRooms, castMembers, castHost, castPlaying>>
    BY <1>6 DEF Mirror!Handled, Mirror!cast
  <2> QED
    BY <1>1, <1>6, <2>1 DEF Handles, CastWhole, Mirror!TypeOK, Syncs
<1>7. CASE m.kind = "HostChange"
  <2>1. /\ UNCHANGED <<castRooms, castMembers, castPlaying>>
        /\ castHost' = castHost \/ castHost' = [castHost EXCEPT ![m.room] = m.host]
    BY <1>7 DEF Mirror!Handled
  <2> QED
    BY <1>1, <1>7, <2>1 DEF Handles, CastWhole, Mirror!TypeOK, Syncs
<1>8. CASE m.kind = "Remove"
  <2>1. /\ castRooms' = castRooms \ {m.room}
        /\ castMembers' = [castMembers EXCEPT ![m.room] = {}]
        /\ castHost' = [castHost EXCEPT ![m.room] = None]
        /\ castPlaying' = [castPlaying EXCEPT ![m.room] = FALSE]
    BY <1>8 DEF Mirror!Handled
  <2> QED
    BY <1>1, <1>8, <2>1 DEF Handles, Mirror!TypeOK, Syncs
<1> QED
  BY <1>1, <1>3, <1>4, <1>5, <1>6, <1>7, <1>8

LEMMA ReceiveKeeps ==
    ASSUME MirrorInv, Mirror!Receive PROVE MirrorInv'
<1> USE DEF MirrorInv
<1>1. /\ link # <<>> /\ link' = Tail(link) /\ Mirror!Handled(Head(link))
      /\ UNCHANGED <<inRoom, live, freeRooms, listed, host, playing, breaking, erasedRoom, twice>>
  BY DEF Mirror!Receive, Mirror!main
<1>2. link' \in Seq(Messages) /\ Head(link) \in Messages
  BY <1>1, TailLink
<1> PICK m \in Messages : m = Head(link)
  BY <1>2
<1>3. Handles(m)
  BY <1>1, HandledDoes
<1>4. m.room \in Room /\ m.kind \in {"Join", "Leave", "MatchState", "HostChange", "Remove"}
  BY MessageFields
<1>5. Mirror!TypeOK'
  <2>1. \A i \in 1 .. Len(link') : \E s \in Room : link'[i] \in Mirror!About(s)
    BY <1>2, TypedLink
  <2> QED
    BY <1>1, <1>3, <2>1 DEF Mirror!TypeOK, Handles
<1>6. BreakersApart' /\ BreakOwnsRoom' /\ RoomsWhole' /\ HostsNamed'
  BY <1>1 DEF BreakersApart, Breaks, BreakOwnsRoom, RoomsWhole, HostsNamed
<1>7. CastWhole'
  BY <1>3 DEF CastWhole, Handles
<1>8. ToldOfRooms'
  <2> SUFFICES ASSUME NEW r \in Room \ twice, ~Erased(r) PROVE Told(r)'
    BY <1>1 DEF ToldOfRooms, Erased
  <2>1. Follows(link, r, live, listed[r]) /\ Plays(link, r, playing[r], host[r])
    BY DEF ToldOfRooms, Told
  <2>2. WillExist(link', castRooms', r) <=> r \in live
    <3>1. r \in castRooms' <=>
              \/ m.room = r /\ m.kind \in {"Join", "MatchState"}
              \/ r \in castRooms /\ ~(m.room = r /\ m.kind = "Remove")
      BY <1>3 DEF Handles
    <3> QED
      BY <1>1, <2>1, <3>1, TailExist DEF Follows
  <2>3. ASSUME NEW p \in PartyMember PROVE WillList(link', castMembers'[r], r, p) <=> p \in listed[r]
    <3>1. p \in castMembers'[r] <=>
              \/ m.room = r /\ m.kind = "Join" /\ m.sid = p
              \/ /\ p \in castMembers[r]
                 /\ m.room = r => m.kind # "Remove" /\ (m.kind = "Leave" => m.sid # p)
      BY <1>3 DEF Handles
    <3> QED
      BY <1>1, <2>1, <3>1, TailList DEF Follows
  <2>4. /\ WillPlay(link', r, playing[r], host[r])
        /\ StillPlays(link', r, castPlaying'[r], castHost'[r], playing[r], host[r])
    <3>1. /\ m.room = r /\ m.kind \in Syncs /\ castPlaying'[r] => m.playing /\ castHost'[r] = m.host
          /\ m.room = r /\ m.kind = "Remove" => ~castPlaying'[r]
          /\ m.room = r /\ m.kind = "HostChange" /\ castPlaying'[r] => castPlaying[r]
          /\ m.room # r /\ castPlaying'[r] => castPlaying[r] /\ castHost'[r] = castHost[r]
      BY <1>3 DEF Handles
    <3>2. /\ WillPlay(link, r, playing[r], host[r])
          /\ StillPlays(link, r, castPlaying[r], castHost[r], playing[r], host[r])
      BY <2>1 DEF Plays
    <3>3. /\ WillPlay(Tail(link), r, playing[r], host[r])
          /\ StillPlays(Tail(link), r, castPlaying'[r], castHost'[r], playing[r], host[r])
      BY <1>1, <3>1, <3>2, TailPlay, Zenon
    <3> QED
      BY <1>1, <3>3
  <2> QED
    BY <1>1, <2>2, <2>3, <2>4 DEF Told, Follows, Plays
<1> QED
  BY <1>2, <1>5, <1>6, <1>7, <1>8

LEMMA MirrorStays == MirrorInv /\ UNCHANGED mirror => MirrorInv'
<1> SUFFICES ASSUME MirrorInv, UNCHANGED mirror PROVE MirrorInv'
  OBVIOUS
<1>1. /\ UNCHANGED <<inRoom, live, freeRooms, listed, host, playing, breaking, erasedRoom, twice, link>>
      /\ UNCHANGED <<castRooms, castMembers, castHost, castPlaying>>
  BY DEF mirror
<1> QED
  BY <1>1 DEF MirrorInv, Mirror!TypeOK, BreakersApart, Breaks, BreakOwnsRoom, RoomsWhole, HostsNamed,
              CastWhole, ToldOfRooms, Erased, Told, Follows, Plays

LEMMA MirrorStep == MirrorInv /\ [Mirror!Next]_mirror => MirrorInv'
BY MirrorStays, MirrorJoinKeeps, MirrorCreateKeeps, MirrorHostChangeKeeps, MirrorMatchStateKeeps,
   MirrorReopenedKeeps, BreakClearKeeps, BreakEraseKeeps, BreakTellKeeps, MirrorLeaveKeeps, ReceiveKeeps
DEF Mirror!Next

LEMMA MirrorInit == Mirror!Init => MirrorInv
<1> SUFFICES ASSUME Mirror!Init PROVE MirrorInv
  OBVIOUS
<1> USE MirrorAssumption DEF Mirror!Init, Mirror!Nobody, Mirror!NoHost, Mirror!NoPlay
<1>1. link \in Seq(Messages) /\ Len(link) = 0 /\ \A i \in 1 .. Len(link) : FALSE
  OBVIOUS
<1>2. Mirror!TypeOK
  BY <1>1 DEF Mirror!TypeOK
<1>3. BreakersApart /\ BreakOwnsRoom /\ RoomsWhole /\ HostsNamed /\ CastWhole
  BY DEF BreakersApart, Breaks, BreakOwnsRoom, RoomsWhole, HostsNamed, CastWhole
<1>4. ToldOfRooms
  <2> SUFFICES ASSUME NEW r \in Room PROVE Told(r)
    BY DEF ToldOfRooms
  <2>1. Follows(link, r, live, listed[r])
    BY <1>1 DEF Follows, WillExist, WillList
  <2>2. Plays(link, r, playing[r], host[r])
    BY <1>1 DEF Plays, WillPlay, StillPlays
  <2> QED
    BY <2>1, <2>2 DEF Told
<1> QED
  BY <1>1, <1>2, <1>3, <1>4 DEF MirrorInv

\* What Main has of a room is what Cast will have of it after the messages on their way.
THEOREM MirrorInvariance == MCSpec => []MirrorInv
<1>1. MCInit => MirrorInv
  BY MirrorInit DEF MCInit
<1>2. [MCNext]_<<part, arriving, together, outside>> => [Mirror!Next]_mirror
  BY DEF MCNext, SessionsNext, FrontNext, PartiesNext, MirrorNext, PlazasNext, SocialsNext, MailsNext,
         together
<1> QED
  BY <1>1, <1>2, MirrorStep, PTL DEF MCSpec

\* Cast has the rooms that Main has, with those in them, once it has been told all there
\* is to tell of them, unless two break a room at once.
THEOREM RoomsMirroredHolds == MCSpec => []RoomsMirrored
<1>1. MirrorInv => RoomsMirrored
  <2> SUFFICES ASSUME MirrorInv, NEW r \in Room \ twice, Mirror!Settled(r)
               PROVE  /\ r \in castRooms <=> r \in live
                      /\ castMembers[r] = listed[r]
                      /\ castPlaying[r] => playing[r] /\ castHost[r] = host[r]
    BY DEF RoomsMirrored, Mirror!RoomsMirrored
  <2>1. /\ \A i \in 1 .. Len(link) : link[i].room # r
        /\ ~Erased(r)
    BY DEF Mirror!Settled, Erased
  <2>2. Follows(link, r, live, listed[r]) /\ Plays(link, r, playing[r], host[r])
    BY <2>1 DEF MirrorInv, ToldOfRooms, Told
  <2>3. r \in castRooms <=> r \in live
    BY <2>1, <2>2 DEF Follows, WillExist, Silent, Says
  <2>4. castMembers[r] = listed[r]
    <3>1. castMembers[r] \subseteq PartyMember /\ listed[r] \subseteq PartyMember
      BY DEF MirrorInv, Mirror!TypeOK
    <3>2. \A p \in PartyMember : p \in castMembers[r] <=> p \in listed[r]
      BY <2>1, <2>2 DEF Follows, WillList, Stays, Says
    <3> QED
      BY <3>1, <3>2
  <2>5. castPlaying[r] => playing[r] /\ castHost[r] = host[r]
    BY <2>1, <2>2 DEF Plays, StillPlays, Silent, Says
  <2> QED
    BY <2>3, <2>4, <2>5
<1> QED
  BY <1>1, MirrorInvariance, PTL
-----------------------------------------------------------------------------
(***************************************************************************)
(* Logins on Front.                                                        *)
(***************************************************************************)

\* A task that is under way is of an account.
TasksNamed ==
    \A i \in FrontId : task[i].at # "idle" => task[i].of # "nothing" /\ task[i].aid \in Account

\* A connection to Main that is being purged has closed, after its login.
PurgedClosed ==
    \A m \in Player : purge[m] # "no" =>
        connected[m] = "closed" /\ loginTask[m] = "done" /\ aid[m] \in Account

\* An account is there from a login until the purge.
CachedFrom ==
    \A m \in Player :
        /\ m \in cached =>
              loginTask[m] = "done" /\ connected[m] # "out" /\ purge[m] # "dropped" /\ aid[m] \in Account
        /\ frontSid[m] # None => m \in cached
        /\ loginTask[m] = "queued" => connected[m] # "out" /\ aid[m] \in Account

\* Whoever is online is so with its own account, which is there or being purged.
OnlineOwn ==
    \A a \in Account, m \in Player : isOnline[a] = m =>
        /\ aid[m] = a /\ connected[m] # "out" /\ loginTask[m] = "done"
        /\ m \in cached \/ purge[m] = "dropped"

\* Something is coming for every login that waits, also for one whose session is gone.
WillEnd == \A a \in Account : entry[a] # None /\ state[a] = "asked" => Front!Coming(a)

FrontInv == Front!TypeOK /\ TasksNamed /\ PurgedClosed /\ CachedFrom /\ OnlineOwn /\ WillEnd
LEMMA FrontInit == Front!Init => FrontInv
BY FrontAssumption
DEF Front!Init, FrontInv, Front!TypeOK, Front!Staying, Front!Idle, TasksNamed, PurgedClosed, CachedFrom,
    OnlineOwn, WillEnd

\* What happens on Front's sessions and in the tasks before a login is entered: no login
\* waits that did not, and what is coming for them stays.
LEMMA OnlyForgets ==
    ASSUME FrontInv,
           \A a \in Account : entry'[a] \in {entry[a], None},
           UNCHANGED <<state, dropping, toMain, toFront>>,
           UNCHANGED <<connected, aid, loginTask, cached, isOnline, frontSid, reported, purge>>
    PROVE  PurgedClosed' /\ CachedFrom' /\ OnlineOwn' /\ WillEnd'
<1> USE FrontAssumption DEF FrontInv
<1>1. PurgedClosed' /\ CachedFrom' /\ OnlineOwn'
  BY DEF PurgedClosed, CachedFrom, OnlineOwn
<1>2. ASSUME NEW a \in Account, entry'[a] # None, state[a] = "asked" PROVE Front!Coming(a)'
  <2>1. entry'[a] = entry[a]
    BY <1>2
  <2>2. Front!Coming(a)
    BY <1>2, <2>1 DEF WillEnd
  <2> QED
    BY <2>1, <2>2 DEF Front!Coming
<1> QED
  BY <1>1, <1>2 DEF WillEnd

\* Where the state of a task may go.
LEMMA TaskGoes ==
    ASSUME FrontInv, NEW i \in FrontId, task[i].at # "idle",
           NEW at \in {"idle", "forget", "look", "evict", "insert"}, Front!GoesTo(i, at)
    PROVE  /\ task' \in [FrontId -> [of : {"nothing", "Authorize", "Reconnect"}, aid : Account \cup {None},
                                     at : {"idle", "key", "forget", "look", "evict", "insert"}]]
           /\ TasksNamed'
<1> USE FrontAssumption DEF FrontInv
<1>1. task' = [task EXCEPT ![i] = IF at = "idle" THEN Front!Idle ELSE [task[i] EXCEPT !.at = at]]
  BY DEF Front!GoesTo
<1>2. /\ task[i] \in [of : {"nothing", "Authorize", "Reconnect"}, aid : Account \cup {None},
                      at : {"idle", "key", "forget", "look", "evict", "insert"}]
      /\ task[i].of # "nothing" /\ task[i].aid \in Account
  BY DEF Front!TypeOK, TasksNamed
<1> DEFINE next == IF at = "idle" THEN Front!Idle ELSE [task[i] EXCEPT !.at = at]
<1>3. /\ next \in [of : {"nothing", "Authorize", "Reconnect"}, aid : Account \cup {None},
                   at : {"idle", "key", "forget", "look", "evict", "insert"}]
      /\ next.at # "idle" => next.of # "nothing" /\ next.aid \in Account
  BY <1>2 DEF Front!Idle
<1> HIDE DEF next
<1>4. task' = [task EXCEPT ![i] = next]
  BY <1>1 DEF next
<1> QED
  BY <1>3, <1>4 DEF Front!TypeOK, TasksNamed

LEMMA FrontSessionsKeep ==
    ASSUME FrontInv, NEW i \in FrontId,
           Front!Connect(i) \/ Front!Disconnect(i) \/ Front!EraseKey(i) \/ Front!RemoveSession(i)
    PROVE  FrontInv'
<1> USE FrontAssumption DEF FrontInv
<1>1. /\ UNCHANGED <<has2fa, logins, task, state, dropping, toMain, toFront>>
      /\ UNCHANGED <<connected, aid, loginTask, cached, isOnline, frontSid, reported, purge>>
  BY DEF Front!Connect, Front!Disconnect, Front!EraseKey, Front!RemoveSession, Front!main
<1>2. TasksNamed'
  BY <1>1 DEF TasksNamed
<1>3. /\ open' \subseteq FrontId /\ known' \subseteq Account /\ entry' \in [Account -> FrontId \cup {None}]
      /\ \A a \in Account : entry'[a] \in {entry[a], None}
      /\ disconnecting' \in [FrontId -> [at : {"no", "key", "session"}, aid : Account \cup {None}]]
  <2>1. CASE Front!Connect(i)
    BY <2>1 DEF Front!Connect, Front!TypeOK
  <2>2. CASE Front!Disconnect(i)
    <3>1. UNCHANGED <<open, known>>
      BY <2>2 DEF Front!Disconnect
    <3>2. CASE disconnecting' = [disconnecting EXCEPT ![i].at = "session"] /\ UNCHANGED entry
      BY <3>1, <3>2 DEF Front!TypeOK
    <3>3. CASE \E a \in Account :
                 /\ entry' = [entry EXCEPT ![a] = None]
                 /\ disconnecting' = [disconnecting EXCEPT ![i] = [at |-> "key", aid |-> a]]
      <4> PICK a \in Account :
             /\ entry' = [entry EXCEPT ![a] = None]
             /\ disconnecting' = [disconnecting EXCEPT ![i] = [at |-> "key", aid |-> a]]
        BY <3>3
      <4> QED
        BY <3>1 DEF Front!TypeOK
    <3>4. \/ disconnecting' = [disconnecting EXCEPT ![i].at = "session"] /\ UNCHANGED entry
          \/ \E a \in Account :
                 /\ entry' = [entry EXCEPT ![a] = None]
                 /\ disconnecting' = [disconnecting EXCEPT ![i] = [at |-> "key", aid |-> a]]
      BY <2>2 DEF Front!Disconnect
    <3> QED
      BY <3>2, <3>3, <3>4
  <2>3. CASE Front!EraseKey(i)
    BY <2>3 DEF Front!EraseKey, Front!TypeOK
  <2>4. CASE Front!RemoveSession(i)
    BY <2>4 DEF Front!RemoveSession, Front!Staying, Front!TypeOK
  <2> QED
    BY <2>1, <2>2, <2>3, <2>4
<1>4. Front!TypeOK'
  BY <1>1, <1>3 DEF Front!TypeOK
<1> QED
  BY <1>1, <1>2, <1>3, <1>4, OnlyForgets

LEMMA FrontSubmitKeeps ==
    ASSUME FrontInv, NEW i \in FrontId, NEW a \in Account, Front!Authorize(i, a) \/ Front!Reconnect(i, a)
    PROVE  FrontInv'
<1> USE FrontAssumption DEF FrontInv
<1> PICK of \in {"Authorize", "Reconnect"}, at \in {"key", "look"} : Front!Submit(i, of, a, at)
  BY DEF Front!Authorize, Front!Reconnect
<1>1. /\ logins < MaxLogins /\ logins' = logins + 1
      /\ task' = [task EXCEPT ![i] = [of |-> of, aid |-> a, at |-> at]]
      /\ UNCHANGED <<has2fa, open, disconnecting, entry, state, known, dropping, toMain, toFront>>
      /\ UNCHANGED <<connected, aid, loginTask, cached, isOnline, frontSid, reported, purge>>
  BY DEF Front!Submit, Front!main
<1>2. TasksNamed'
  BY <1>1 DEF TasksNamed, Front!TypeOK
<1>3. Front!TypeOK'
  BY <1>1 DEF Front!TypeOK
<1> QED
  BY <1>1, <1>2, <1>3, OnlyForgets

LEMMA FrontTasksKeep ==
    ASSUME FrontInv, NEW i \in FrontId,
           \/ Front!CheckKey(i) \/ Front!Forget(i) \/ Front!Look(i) \/ Front!Evict(i) \/ Front!Refuse(i)
    PROVE  FrontInv'
<1> USE FrontAssumption DEF FrontInv
<1>1. /\ UNCHANGED <<has2fa, open, disconnecting, logins, state, dropping, toMain, toFront>>
      /\ UNCHANGED <<connected, aid, loginTask, cached, isOnline, frontSid, reported, purge>>
  BY DEF Front!CheckKey, Front!Forget, Front!Look, Front!Evict, Front!Refuse, Front!main
<1>2. /\ task[i].at # "idle" /\ known' \subseteq Account /\ entry' \in [Account -> FrontId \cup {None}]
      /\ \A a \in Account : entry'[a] \in {entry[a], None}
      /\ \E at \in {"idle", "forget", "look", "evict", "insert"} : Front!GoesTo(i, at)
  <2>1. CASE Front!CheckKey(i)
    BY <2>1 DEF Front!CheckKey, Front!TypeOK
  <2>2. CASE Front!Forget(i)
    BY <2>2 DEF Front!Forget, Front!TypeOK
  <2>3. CASE Front!Look(i)
    BY <2>3 DEF Front!Look, Front!TypeOK
  <2>4. CASE Front!Evict(i)
    BY <2>4 DEF Front!Evict, Front!TypeOK
  <2>5. CASE Front!Refuse(i)
    BY <2>5 DEF Front!Refuse, Front!TypeOK
  <2> QED
    BY <2>1, <2>2, <2>3, <2>4, <2>5
<1>3. task' \in [FrontId -> [of : {"nothing", "Authorize", "Reconnect"}, aid : Account \cup {None},
                             at : {"idle", "key", "forget", "look", "evict", "insert"}]] /\ TasksNamed'
  BY <1>2, TaskGoes
<1>4. Front!TypeOK'
  BY <1>1, <1>2, <1>3 DEF Front!TypeOK
<1> QED
  BY <1>1, <1>2, <1>3, <1>4, OnlyForgets

\* A login is entered, and Main is asked.
LEMMA FrontInsertKeeps ==
    ASSUME FrontInv, NEW i \in FrontId, Front!Insert(i) PROVE FrontInv'
<1> USE FrontAssumption DEF FrontInv
<1>1. /\ task[i].at = "insert" /\ Front!GoesTo(i, "idle")
      /\ UNCHANGED <<has2fa, open, disconnecting, logins, dropping, toFront>>
      /\ UNCHANGED <<connected, aid, loginTask, cached, isOnline, frontSid, reported, purge>>
  BY DEF Front!Insert, Front!main
<1>2. task[i].aid \in Account
  BY <1>1 DEF TasksNamed
<1> PICK a \in Account : a = task[i].aid
  BY <1>2
<1>3. task' \in [FrontId -> [of : {"nothing", "Authorize", "Reconnect"}, aid : Account \cup {None},
                             at : {"idle", "key", "forget", "look", "evict", "insert"}]] /\ TasksNamed'
  BY <1>1, TaskGoes
<1>4. CASE entry[a] # None
  <2>1. known' = known \ {a} /\ UNCHANGED <<entry, state, toMain>>
    BY <1>4 DEF Front!Insert
  <2>2. Front!TypeOK'
    BY <1>1, <1>3, <2>1 DEF Front!TypeOK
  <2> QED
    BY <1>1, <1>3, <2>1, <2>2, OnlyForgets
<1>5. CASE entry[a] = None
  <2> PICK kind \in {"TryLoginPlayer", "DisconnectPlayer"} :
         toMain' = toMain \cup {Front!Message(kind, i, a)}
    BY <1>5 DEF Front!Insert
  <2> DEFINE msg == Front!Message(kind, i, a)
  <2>1. /\ entry' = [entry EXCEPT ![a] = i] /\ state' = [state EXCEPT ![a] = "asked"]
        /\ known' = known \cup {a} /\ toMain' = toMain \cup {msg}
    BY <1>5 DEF Front!Insert
  <2>2. msg \in Front!Messages({"TryLoginPlayer", "DisconnectPlayer"}) /\ msg.sid = i /\ msg.aid = a
    BY DEF Front!Message, Front!Messages
  <2> HIDE DEF msg
  <2>3. Front!TypeOK'
    BY <1>1, <1>3, <2>1, <2>2 DEF Front!TypeOK
  <2>4. PurgedClosed' /\ CachedFrom' /\ OnlineOwn'
    BY <1>1 DEF PurgedClosed, CachedFrom, OnlineOwn
  <2>5. ASSUME NEW b \in Account, entry'[b] # None, state'[b] = "asked" PROVE Front!Coming(b)'
    <3>1. CASE b = a
      <4>1. entry'[a] = i
        BY <2>1 DEF Front!TypeOK
      <4> QED
        BY <2>1, <2>2, <3>1, <4>1 DEF Front!Coming
    <3>2. CASE b # a
      <4>1. entry'[b] = entry[b] /\ state'[b] = state[b]
        BY <2>1, <3>2 DEF Front!TypeOK
      <4>2. Front!Coming(b)
        BY <2>5, <4>1 DEF WillEnd
      <4> QED
        BY <1>1, <2>1, <4>1, <4>2 DEF Front!Coming
    <3> QED
      BY <3>1, <3>2
  <2> QED
    BY <1>3, <2>3, <2>4, <2>5 DEF WillEnd
<1> QED
  BY <1>4, <1>5
-----------------------------------------------------------------------------
\* Messages between Front and Main.  Each is answered by another, or by a mark that the
\* disconnect of whoever is online will read.

\* What the answers are.
LEMMA Answers ==
    ASSUME NEW kinds, NEW kinds2, NEW msg \in Front!Messages(kinds), NEW kind \in kinds2
    PROVE  /\ msg.sid \in FrontId /\ msg.aid \in Account /\ msg.kind \in kinds
           /\ [msg EXCEPT !.kind = kind] \in Front!Messages(kinds2)
           /\ [msg EXCEPT !.kind = kind].sid = msg.sid /\ [msg EXCEPT !.kind = kind].aid = msg.aid
           /\ [msg EXCEPT !.kind = kind].kind = kind
BY DEF Front!Messages

LEMMA TryLoginKeeps ==
    ASSUME FrontInv, NEW msg \in toMain, Front!TryLoginPlayer(msg) PROVE FrontInv'
<1> USE FrontAssumption DEF FrontInv
<1> DEFINE kind == IF isOnline[msg.aid] # None THEN "AidOnline" ELSE "AidOffline"
           answer == [msg EXCEPT !.kind = kind]
<1>1. /\ toMain' = toMain \ {msg} /\ toFront' = toFront \cup {answer}
      /\ UNCHANGED <<has2fa, open, disconnecting, task, entry, state, known, dropping, logins>>
      /\ UNCHANGED <<connected, aid, loginTask, cached, isOnline, frontSid, reported, purge>>
  BY DEF Front!TryLoginPlayer, Front!front, Front!main
<1>2. /\ msg.sid \in FrontId /\ msg.aid \in Account
      /\ answer \in Front!Messages({"AidOnline", "AidOffline", "AidDisconnected"})
      /\ answer.sid = msg.sid /\ answer.aid = msg.aid
  <2>1. msg \in Front!Messages({"TryLoginPlayer", "DisconnectPlayer"})
    BY DEF Front!TypeOK
  <2>2. kind \in {"AidOnline", "AidOffline", "AidDisconnected"}
    OBVIOUS
  <2> HIDE DEF kind
  <2> QED
    BY <2>1, <2>2, Answers
<1> HIDE DEF answer
<1>3. Front!TypeOK'
  BY <1>1, <1>2 DEF Front!TypeOK
<1>4. TasksNamed' /\ PurgedClosed' /\ CachedFrom' /\ OnlineOwn'
  BY <1>1 DEF TasksNamed, PurgedClosed, CachedFrom, OnlineOwn
<1>5. ASSUME NEW a \in Account, entry[a] # None, state[a] = "asked" PROVE Front!Coming(a)'
  <2>1. Front!Coming(a)
    BY <1>5 DEF WillEnd
  <2> QED
    BY <1>1, <1>2, <2>1 DEF Front!Coming
<1> QED
  BY <1>1, <1>3, <1>4, <1>5 DEF WillEnd

LEMMA DisconnectPlayerKeeps ==
    ASSUME FrontInv, NEW msg \in toMain, Front!DisconnectPlayer(msg) PROVE FrontInv'
<1> USE FrontAssumption DEF FrontInv
<1>1. /\ toMain' = toMain \ {msg}
      /\ UNCHANGED <<has2fa, open, disconnecting, task, entry, known, dropping, logins>>
      /\ UNCHANGED <<connected, aid, loginTask, cached, isOnline, reported, purge>>
  BY DEF Front!DisconnectPlayer
<1>2. msg \in Front!Messages({"TryLoginPlayer", "DisconnectPlayer"})
  BY DEF Front!TypeOK
<1>3. msg.sid \in FrontId /\ msg.aid \in Account
  BY <1>2 DEF Front!Messages
<1>4. CASE isOnline[msg.aid] = None
  <2> DEFINE answer == [msg EXCEPT !.kind = "AidDisconnected"]
  <2>1. toFront' = toFront \cup {answer} /\ UNCHANGED <<frontSid, state>>
    BY <1>4 DEF Front!DisconnectPlayer
  <2>2. /\ answer \in Front!Messages({"AidOnline", "AidOffline", "AidDisconnected"})
        /\ answer.sid = msg.sid /\ answer.aid = msg.aid
    BY <1>2, Answers
  <2> HIDE DEF answer
  <2>3. Front!TypeOK'
    BY <1>1, <2>1, <2>2 DEF Front!TypeOK
  <2>4. TasksNamed' /\ PurgedClosed' /\ CachedFrom' /\ OnlineOwn'
    BY <1>1, <2>1 DEF TasksNamed, PurgedClosed, CachedFrom, OnlineOwn
  <2>5. ASSUME NEW a \in Account, entry[a] # None, state[a] = "asked" PROVE Front!Coming(a)'
    <3>1. Front!Coming(a)
      BY <2>5 DEF WillEnd
    <3> QED
      BY <1>1, <2>1, <2>2, <3>1 DEF Front!Coming
  <2> QED
    BY <1>1, <2>1, <2>3, <2>4, <2>5 DEF WillEnd
<1>5. CASE isOnline[msg.aid] # None
  <2> PICK m \in Player : m = isOnline[msg.aid]
    BY <1>3, <1>5 DEF Front!TypeOK
  <2>1. /\ frontSid' = IF m \in cached THEN [frontSid EXCEPT ![m] = msg.sid] ELSE frontSid
        /\ state' = IF connected[m] = "closed" /\ entry[msg.aid] = msg.sid
                    THEN [state EXCEPT ![msg.aid] = "lost"] ELSE state
        /\ UNCHANGED toFront
    BY <1>5 DEF Front!DisconnectPlayer
  <2>2. /\ frontSid' \in [Player -> FrontId \cup {None}]
        /\ \A n \in Player : frontSid'[n] = IF n = m /\ m \in cached THEN msg.sid ELSE frontSid[n]
        /\ state' \in [Account -> {"asked", "told", "lost"}]
        /\ \A a \in Account : state'[a] = "asked" =>
              state[a] = "asked" /\ ~(a = msg.aid /\ connected[m] = "closed" /\ entry[a] = msg.sid)
    BY <1>3, <2>1 DEF Front!TypeOK
  <2>3. /\ aid[m] = msg.aid /\ connected[m] # "out" /\ (m \in cached \/ purge[m] = "dropped")
        /\ connected[m] \in {"out", "open", "closed"}
    BY <1>3 DEF OnlineOwn, Front!TypeOK
  <2>4. Front!TypeOK'
    BY <1>1, <2>1, <2>2 DEF Front!TypeOK
  <2>5. TasksNamed' /\ PurgedClosed' /\ CachedFrom' /\ OnlineOwn'
    BY <1>1, <2>2 DEF TasksNamed, PurgedClosed, CachedFrom, OnlineOwn
  <2>6. ASSUME NEW a \in Account, entry[a] # None, state'[a] = "asked" PROVE Front!Coming(a)'
    <3>1. Front!Coming(a)
      BY <2>2, <2>6 DEF WillEnd
    <3>2. CASE a = msg.aid /\ entry[a] = msg.sid
      <4>1. connected[m] = "open" /\ m \in cached
        BY <2>2, <2>3, <2>6, <3>2 DEF PurgedClosed
      <4>2. frontSid'[m] # None
        BY <1>3, <2>2, <4>1
      <4> QED
        BY <1>1, <2>3, <3>2, <4>1, <4>2 DEF Front!Coming
    <3>3. CASE ~(a = msg.aid /\ entry[a] = msg.sid)
      <4>1. \A n \in Player : frontSid[n] # None => frontSid'[n] # None
        BY <1>3, <2>2
      <4> QED
        BY <1>1, <2>1, <3>1, <3>3, <4>1 DEF Front!Coming
    <3> QED
      BY <3>2, <3>3
  <2> QED
    BY <1>1, <2>4, <2>5, <2>6 DEF WillEnd
<1> QED
  BY <1>4, <1>5

LEMMA AidOnlineKeeps ==
    ASSUME FrontInv, NEW msg \in toFront, Front!AidOnline(msg) PROVE FrontInv'
<1> USE FrontAssumption DEF FrontInv
<1>1. /\ msg.kind \in {"AidOnline", "AidOffline"} /\ toFront' = toFront \ {msg}
      /\ UNCHANGED <<has2fa, open, disconnecting, task, entry, logins>>
      /\ UNCHANGED <<connected, aid, loginTask, cached, isOnline, frontSid, reported, purge>>
  BY DEF Front!AidOnline, Front!main
<1>2. msg.sid \in FrontId /\ msg.aid \in Account
  BY DEF Front!TypeOK, Front!Messages
<1> PICK b \in Account : b = msg.aid
  BY <1>2
<1> DEFINE ask == Front!Message("DisconnectPlayer", msg.sid, b)
<1>3. /\ toMain' = IF msg.sid \in open /\ msg.kind = "AidOnline" /\ ~(b \in has2fa /\ entry[b] # None)
                   THEN toMain \cup {ask} ELSE toMain
      /\ state' = IF entry[b] = msg.sid /\ (msg.sid \in open => msg.kind = "AidOffline" /\ b \notin has2fa)
                  THEN [state EXCEPT ![b] = "told"] ELSE state
      /\ IF msg.sid \in open /\ b \in has2fa /\ entry[b] # None
         THEN known' = known \ {b} /\ dropping' = dropping \cup {b}
         ELSE UNCHANGED <<known, dropping>>
  BY DEF Front!AidOnline
<1>4. /\ ask \in Front!Messages({"TryLoginPlayer", "DisconnectPlayer"})
      /\ ask.sid = msg.sid /\ ask.aid = b
  BY <1>2 DEF Front!Message, Front!Messages
<1> HIDE DEF ask
<1>5. /\ state' \in [Account -> {"asked", "told", "lost"}]
      /\ \A a \in Account : state'[a] = "asked" =>
            /\ state[a] = "asked"
            /\ a = b /\ entry[b] = msg.sid => msg.sid \in open /\ (msg.kind = "AidOffline" => b \in has2fa)
  BY <1>3 DEF Front!TypeOK
<1>6. /\ toMain \subseteq toMain' /\ toMain' \subseteq toMain \cup {ask}
      /\ dropping \subseteq dropping' /\ dropping' \subseteq Account /\ known' \subseteq Account
  BY <1>3 DEF Front!TypeOK
<1>7. Front!TypeOK'
  BY <1>1, <1>4, <1>5, <1>6 DEF Front!TypeOK
<1>8. TasksNamed' /\ PurgedClosed' /\ CachedFrom' /\ OnlineOwn'
  BY <1>1 DEF TasksNamed, PurgedClosed, CachedFrom, OnlineOwn
<1>9. ASSUME NEW a \in Account, entry[a] # None, state'[a] = "asked" PROVE Front!Coming(a)'
  <2>1. Front!Coming(a)
    BY <1>5, <1>9 DEF WillEnd
  <2>2. CASE a = b /\ entry[b] = msg.sid
    <3>1. msg.sid \in open /\ (msg.kind = "AidOnline" \/ b \in has2fa)
      BY <1>1, <1>5, <1>9, <2>2
    <3>2. b \in dropping' \/ ask \in toMain'
      BY <1>3, <1>9, <2>2, <3>1
    <3> QED
      BY <1>1, <1>4, <2>2, <3>2 DEF Front!Coming
  <2>3. CASE ~(a = b /\ entry[b] = msg.sid)
    BY <1>1, <1>6, <2>1, <2>3 DEF Front!Coming
  <2> QED
    BY <2>2, <2>3
<1> QED
  BY <1>1, <1>7, <1>8, <1>9 DEF WillEnd

LEMMA AidDisconnectedKeeps ==
    ASSUME FrontInv, NEW msg \in toFront, Front!AidDisconnected(msg) PROVE FrontInv'
<1> USE FrontAssumption DEF FrontInv
<1>1. /\ toFront' = toFront \ {msg}
      /\ UNCHANGED <<has2fa, open, disconnecting, task, entry, state, toMain, logins>>
      /\ UNCHANGED <<connected, aid, loginTask, cached, isOnline, frontSid, reported, purge>>
  BY DEF Front!AidDisconnected, Front!main
<1>2. msg.aid \in Account
  BY DEF Front!TypeOK, Front!Messages
<1>3. /\ dropping \subseteq dropping' /\ dropping' \subseteq Account /\ known' \subseteq Account
      /\ entry[msg.aid] # None => msg.aid \in dropping'
  BY <1>2 DEF Front!AidDisconnected, Front!TypeOK
<1>4. Front!TypeOK'
  BY <1>1, <1>3 DEF Front!TypeOK
<1>5. TasksNamed' /\ PurgedClosed' /\ CachedFrom' /\ OnlineOwn'
  BY <1>1 DEF TasksNamed, PurgedClosed, CachedFrom, OnlineOwn
<1>6. ASSUME NEW a \in Account, entry[a] # None, state[a] = "asked" PROVE Front!Coming(a)'
  <2>1. Front!Coming(a)
    BY <1>6 DEF WillEnd
  <2>2. CASE a = msg.aid
    BY <1>3, <1>6, <2>2 DEF Front!Coming
  <2>3. CASE a # msg.aid
    BY <1>1, <1>3, <2>1, <2>3 DEF Front!Coming
  <2> QED
    BY <2>2, <2>3
<1> QED
  BY <1>1, <1>4, <1>5, <1>6 DEF WillEnd

LEMMA FrontDropKeeps ==
    ASSUME FrontInv, NEW b \in Account, Front!Drop(b) PROVE FrontInv'
<1> USE FrontAssumption DEF FrontInv
<1>1. /\ dropping' = dropping \ {b} /\ entry' = [entry EXCEPT ![b] = None]
      /\ UNCHANGED <<has2fa, open, disconnecting, task, state, known, logins, toMain, toFront>>
      /\ UNCHANGED <<connected, aid, loginTask, cached, isOnline, frontSid, reported, purge>>
  BY DEF Front!Drop, Front!main
<1>2. /\ entry' \in [Account -> FrontId \cup {None}]
      /\ \A a \in Account : entry'[a] = IF a = b THEN None ELSE entry[a]
  BY <1>1 DEF Front!TypeOK
<1>3. Front!TypeOK'
  BY <1>1, <1>2 DEF Front!TypeOK
<1>4. TasksNamed' /\ PurgedClosed' /\ CachedFrom' /\ OnlineOwn'
  BY <1>1 DEF TasksNamed, PurgedClosed, CachedFrom, OnlineOwn
<1>5. ASSUME NEW a \in Account, entry'[a] # None, state[a] = "asked" PROVE Front!Coming(a)'
  <2>1. a # b /\ entry'[a] = entry[a]
    BY <1>2, <1>5
  <2>2. Front!Coming(a)
    BY <1>5, <2>1 DEF WillEnd
  <2> QED
    BY <1>1, <2>1, <2>2 DEF Front!Coming
<1> QED
  BY <1>1, <1>3, <1>4, <1>5 DEF WillEnd

-----------------------------------------------------------------------------
\* Connections of Main.

LEMMA FrontArriveKeeps ==
    ASSUME FrontInv, NEW m \in Player, NEW b \in Account, Front!Arrive(m, b) PROVE FrontInv'
<1> USE FrontAssumption DEF FrontInv
<1>1. /\ connected[m] = "out" /\ connected' = [connected EXCEPT ![m] = "open"]
      /\ aid' = [aid EXCEPT ![m] = b] /\ loginTask' = [loginTask EXCEPT ![m] = "queued"]
      /\ UNCHANGED <<has2fa, open, disconnecting, task, entry, state, known, dropping, logins>>
      /\ UNCHANGED <<toMain, toFront, cached, isOnline, frontSid, reported, purge>>
  BY DEF Front!Arrive, Front!front
<1>2. /\ connected' \in [Player -> {"out", "open", "closed"}] /\ aid' \in [Player -> Account \cup {None}]
      /\ loginTask' \in [Player -> {"none", "queued", "done"}]
      /\ connected'[m] = "open" /\ aid'[m] = b /\ loginTask'[m] = "queued"
      /\ \A n \in Player \ {m} :
            connected'[n] = connected[n] /\ aid'[n] = aid[n] /\ loginTask'[n] = loginTask[n]
  BY <1>1 DEF Front!TypeOK
<1>3. /\ purge[m] = "no" /\ m \notin cached /\ \A a \in Account : isOnline[a] # m
  BY <1>1 DEF PurgedClosed, CachedFrom, OnlineOwn
<1>4. Front!TypeOK'
  BY <1>1, <1>2 DEF Front!TypeOK
<1>5. TasksNamed'
  BY <1>1 DEF TasksNamed
<1>6. PurgedClosed'
  BY <1>1, <1>2, <1>3 DEF PurgedClosed
<1>7. CachedFrom'
  BY <1>1, <1>2, <1>3 DEF CachedFrom
<1>8. OnlineOwn'
  BY <1>1, <1>2, <1>3 DEF OnlineOwn
<1>9. ASSUME NEW a \in Account, entry[a] # None, state[a] = "asked" PROVE Front!Coming(a)'
  <2>1. Front!Coming(a)
    BY <1>9 DEF WillEnd
  <2> QED
    BY <1>1, <1>2, <1>3, <2>1 DEF Front!Coming
<1> QED
  BY <1>1, <1>4, <1>5, <1>6, <1>7, <1>8, <1>9 DEF WillEnd

LEMMA FrontLoginKeeps ==
    ASSUME FrontInv, NEW m \in Player, Front!Login(m) PROVE FrontInv'
<1> USE FrontAssumption DEF FrontInv
<1>1. /\ loginTask[m] = "queued" /\ loginTask' = [loginTask EXCEPT ![m] = "done"]
      /\ cached' = cached \cup {m}
      /\ isOnline' = IF isOnline[aid[m]] = None THEN [isOnline EXCEPT ![aid[m]] = m] ELSE isOnline
      /\ UNCHANGED <<has2fa, open, disconnecting, task, entry, state, known, dropping, logins>>
      /\ UNCHANGED <<toMain, toFront, connected, aid, frontSid, reported, purge>>
  BY DEF Front!Login, Front!front
<1>2. aid[m] \in Account /\ connected[m] # "out" /\ purge[m] = "no"
  BY <1>1 DEF CachedFrom, PurgedClosed
<1>3. /\ loginTask' \in [Player -> {"none", "queued", "done"}] /\ isOnline' \in [Account -> Player \cup {None}]
      /\ loginTask'[m] = "done" /\ \A n \in Player \ {m} : loginTask'[n] = loginTask[n]
      /\ \A a \in Account : isOnline'[a] = isOnline[a] \/ (a = aid[m] /\ isOnline'[a] = m)
  BY <1>1, <1>2 DEF Front!TypeOK
<1>4. Front!TypeOK'
  BY <1>1, <1>3 DEF Front!TypeOK
<1>5. TasksNamed'
  BY <1>1 DEF TasksNamed
<1>6. PurgedClosed'
  BY <1>1, <1>3 DEF PurgedClosed
<1>7. CachedFrom'
  BY <1>1, <1>2, <1>3 DEF CachedFrom
<1>8. OnlineOwn'
  BY <1>1, <1>2, <1>3 DEF OnlineOwn
<1>9. ASSUME NEW a \in Account, entry[a] # None, state[a] = "asked" PROVE Front!Coming(a)'
  <2>1. Front!Coming(a)
    BY <1>9 DEF WillEnd
  <2> QED
    BY <1>1, <2>1 DEF Front!Coming
<1> QED
  BY <1>1, <1>4, <1>5, <1>6, <1>7, <1>8, <1>9 DEF WillEnd

\* The mark is read by the disconnect before it is taken back.
LEMMA FrontDisconnectKeeps ==
    ASSUME FrontInv, NEW m \in Player, Front!MainDisconnect(m) PROVE FrontInv'
<1> USE FrontAssumption DEF FrontInv
<1>1. /\ connected[m] = "open" /\ connected' = [connected EXCEPT ![m] = "closed"]
      /\ IF m \in cached
         THEN /\ reported' = [reported EXCEPT ![m] = frontSid[m]] /\ frontSid' = [frontSid EXCEPT ![m] = None]
              /\ purge' = [purge EXCEPT ![m] = "queued"]
         ELSE UNCHANGED <<reported, frontSid, purge>>
      /\ UNCHANGED <<has2fa, open, disconnecting, task, entry, state, known, dropping, logins>>
      /\ UNCHANGED <<toMain, toFront, aid, loginTask, cached, isOnline>>
  BY DEF Front!MainDisconnect, Front!ReportsTo, Front!front
<1>2. /\ connected' \in [Player -> {"out", "open", "closed"}] /\ connected'[m] = "closed"
      /\ \A n \in Player \ {m} : connected'[n] = connected[n]
  BY <1>1 DEF Front!TypeOK
<1>3. /\ reported' \in [Player -> FrontId \cup {None}] /\ frontSid' \in [Player -> FrontId \cup {None}]
      /\ purge' \in [Player -> {"no", "queued", "dropped"}]
      /\ m \in cached => reported'[m] = frontSid[m] /\ purge'[m] = "queued" /\ frontSid'[m] = None
      /\ m \notin cached => purge'[m] = purge[m] /\ frontSid'[m] = frontSid[m]
      /\ \A n \in Player \ {m} :
            reported'[n] = reported[n] /\ frontSid'[n] = frontSid[n] /\ purge'[n] = purge[n]
  BY <1>1 DEF Front!TypeOK
<1>4. purge[m] = "no" /\ (m \in cached => loginTask[m] = "done")
  BY <1>1 DEF PurgedClosed, CachedFrom
<1>5. Front!TypeOK'
  BY <1>1, <1>2, <1>3 DEF Front!TypeOK
<1>6. TasksNamed'
  BY <1>1 DEF TasksNamed
<1>7. m \in cached => aid[m] \in Account
  BY DEF CachedFrom
<1>8. PurgedClosed'
  BY <1>1, <1>2, <1>3, <1>4, <1>7 DEF PurgedClosed
<1>9. CachedFrom'
  BY <1>1, <1>2, <1>3, <1>4 DEF CachedFrom
<1>10. OnlineOwn'
  BY <1>1, <1>2, <1>3, <1>4 DEF OnlineOwn
<1>11. ASSUME NEW a \in Account, entry[a] # None, state[a] = "asked" PROVE Front!Coming(a)'
  <2>1. Front!Coming(a)
    BY <1>11 DEF WillEnd
  <2>2. CASE aid[m] = a /\ frontSid[m] # None
    <3>1. m \in cached
      BY <2>2 DEF CachedFrom
    <3> QED
      BY <1>1, <1>3, <2>2, <3>1 DEF Front!Coming
  <2>3. CASE ~(aid[m] = a /\ frontSid[m] # None)
    BY <1>1, <1>2, <1>3, <1>4, <2>1, <2>3 DEF Front!Coming
  <2> QED
    BY <2>2, <2>3
<1> QED
  BY <1>1, <1>5, <1>6, <1>8, <1>9, <1>10, <1>11 DEF WillEnd

LEMMA FrontDropAccountKeeps ==
    ASSUME FrontInv, NEW m \in Player, Front!DropAccount(m) PROVE FrontInv'
<1> USE FrontAssumption DEF FrontInv
<1>1. /\ purge[m] = "queued" /\ purge' = [purge EXCEPT ![m] = "dropped"]
      /\ cached' = cached \ {m} /\ frontSid' = [frontSid EXCEPT ![m] = None]
      /\ UNCHANGED <<has2fa, open, disconnecting, task, entry, state, known, dropping, logins>>
      /\ UNCHANGED <<toMain, toFront, connected, aid, loginTask, isOnline, reported>>
  BY DEF Front!DropAccount, Front!front
<1>2. /\ purge' \in [Player -> {"no", "queued", "dropped"}] /\ frontSid' \in [Player -> FrontId \cup {None}]
      /\ purge'[m] = "dropped" /\ frontSid'[m] = None
      /\ \A n \in Player \ {m} : frontSid'[n] = frontSid[n] /\ purge'[n] = purge[n]
  BY <1>1 DEF Front!TypeOK
<1>3. connected[m] = "closed"
  BY <1>1 DEF PurgedClosed
<1>4. Front!TypeOK'
  BY <1>1, <1>2 DEF Front!TypeOK
<1>5. TasksNamed' /\ PurgedClosed' /\ CachedFrom' /\ OnlineOwn'
  BY <1>1, <1>2 DEF TasksNamed, PurgedClosed, CachedFrom, OnlineOwn
<1>6. ASSUME NEW a \in Account, entry[a] # None, state[a] = "asked" PROVE Front!Coming(a)'
  <2>1. Front!Coming(a)
    BY <1>6 DEF WillEnd
  <2> QED
    BY <1>1, <1>2, <1>3, <2>1 DEF Front!Coming
<1> QED
  BY <1>1, <1>4, <1>5, <1>6 DEF WillEnd

LEMMA FrontDropAidKeeps ==
    ASSUME FrontInv, NEW m \in Player, Front!DropAid(m) PROVE FrontInv'
<1> USE FrontAssumption DEF FrontInv
<1>1. purge[m] = "dropped"
  BY DEF Front!DropAid
<1>2. connected[m] = "closed" /\ loginTask[m] = "done" /\ aid[m] \in Account /\ m \notin cached
  BY <1>1 DEF PurgedClosed, CachedFrom
<1> PICK b \in Account : b = aid[m]
  BY <1>2
<1> DEFINE report == Front!Message("AidDisconnected", reported[m], b)
<1>3. /\ purge' = [purge EXCEPT ![m] = "no"] /\ isOnline' = [isOnline EXCEPT ![b] = None]
      /\ toFront' = IF reported[m] = None THEN toFront ELSE toFront \cup {report}
      /\ reported' = [reported EXCEPT ![m] = None]
      /\ connected' = [connected EXCEPT ![m] = "out"]
      /\ UNCHANGED <<has2fa, open, disconnecting, task, entry, state, known, dropping, logins>>
      /\ UNCHANGED <<toMain, aid, loginTask, cached, frontSid>>
  BY <1>2 DEF Front!DropAid, Front!front
<1>4. /\ reported[m] # None => report \in Front!Messages({"AidOnline", "AidOffline", "AidDisconnected"})
      /\ report.kind = "AidDisconnected" /\ report.aid = b
  BY DEF Front!Message, Front!Messages, Front!TypeOK
<1> HIDE DEF report
<1>5. /\ connected' \in [Player -> {"out", "open", "closed"}]
      /\ purge' \in [Player -> {"no", "queued", "dropped"}] /\ isOnline' \in [Account -> Player \cup {None}]
      /\ reported' \in [Player -> FrontId \cup {None}]
      /\ purge'[m] = "no" /\ connected'[m] = "out"
      /\ \A n \in Player \ {m} :
            connected'[n] = connected[n] /\ purge'[n] = purge[n] /\ reported'[n] = reported[n]
      /\ \A a \in Account : isOnline'[a] = IF a = b THEN None ELSE isOnline[a]
  BY <1>3 DEF Front!TypeOK
<1>6. Front!TypeOK'
  BY <1>3, <1>4, <1>5 DEF Front!TypeOK
<1>7. TasksNamed' /\ PurgedClosed' /\ CachedFrom'
  BY <1>2, <1>3, <1>5 DEF TasksNamed, PurgedClosed, CachedFrom
<1>8. OnlineOwn'
  BY <1>2, <1>3, <1>5 DEF OnlineOwn
<1>9. ASSUME NEW a \in Account, entry[a] # None, state[a] = "asked" PROVE Front!Coming(a)'
  <2>1. Front!Coming(a)
    BY <1>9 DEF WillEnd
  <2>2. CASE a = b /\ reported[m] # None
    BY <1>3, <1>4, <2>2 DEF Front!Coming
  <2>3. CASE ~(a = b /\ reported[m] # None)
    BY <1>2, <1>3, <1>5, <2>1, <2>3 DEF Front!Coming
  <2> QED
    BY <2>2, <2>3
<1> QED
  BY <1>3, <1>6, <1>7, <1>8, <1>9 DEF WillEnd

LEMMA FrontStays == FrontInv /\ UNCHANGED front => FrontInv'
<1> SUFFICES ASSUME FrontInv, UNCHANGED front PROVE FrontInv'
  OBVIOUS
<1>1. /\ UNCHANGED <<has2fa, open, disconnecting, task, entry, state, known, dropping, logins>>
      /\ UNCHANGED <<toMain, toFront, connected, aid, loginTask, cached, isOnline, frontSid, reported, purge>>
  BY DEF front
<1> QED
  BY <1>1 DEF FrontInv, Front!TypeOK, TasksNamed, PurgedClosed, CachedFrom, OnlineOwn, WillEnd, Front!Coming

LEMMA FrontStep == FrontInv /\ [Front!Next]_front => FrontInv'
BY FrontStays, FrontSessionsKeep, FrontSubmitKeeps, FrontTasksKeep, FrontInsertKeeps, TryLoginKeeps,
   DisconnectPlayerKeeps, AidOnlineKeeps, AidDisconnectedKeeps, FrontDropKeeps, FrontArriveKeeps,
   FrontLoginKeeps, FrontDisconnectKeeps, FrontDropAccountKeeps, FrontDropAidKeeps
DEF Front!Next

\* Accounts are cached and online by sessions that have logged in and are not purged yet,
\* and something is coming for every login that waits.
THEOREM FrontInvariance == MCSpec => []FrontInv
<1>1. MCInit => FrontInv
  BY FrontInit DEF MCInit
<1>2. [MCNext]_<<part, arriving, together, outside>> => [Front!Next]_front
  BY DEF MCNext, SessionsNext, FrontNext, PartiesNext, MirrorNext, PlazasNext, SocialsNext, MailsNext,
         arriving
<1> QED
  BY <1>1, <1>2, FrontStep, PTL DEF MCSpec

\* A login that keeps others of its account out is answered or will be, unless Main was
\* asked to disconnect a session that had closed already.
THEOREM NobodyBlocksHolds == MCSpec => []NobodyBlocks
<1>1. FrontInv => NobodyBlocks
  BY FrontAssumption DEF FrontInv, WillEnd, NobodyBlocks, Front!NobodyBlocks, Front!TypeOK
<1> QED
  BY <1>1, FrontInvariance, PTL

-----------------------------------------------------------------------------
(***************************************************************************)
(* Main's sessions, which this module extends, and the types of all.       *)
(***************************************************************************)

\* Main's sessions keep their invariant beside the other components.
THEOREM SessionsInvariance == MCSpec => []IInv
<1>1. MCInit => IInv
  BY InvInit DEF MCInit
<1>2. [MCNext]_<<part, arriving, together, outside>> => [Next]_vars
  BY DEF MCNext, SessionsNext, FrontNext, PartiesNext, MirrorNext, PlazasNext, SocialsNext, MailsNext,
         arriving, sessions
<1> QED
  BY <1>1, <1>2, InvStep, PTL DEF MCSpec

Parts == {"sessions", "front", "parties", "mirror", "plazas", "socials", "mails"}

\* What runs is chosen once.
LEMMA PartStays == MCSpec => [](part \in Parts)
<1>1. MCInit => part \in Parts
  BY DEF MCInit, Parts
<1>2. part \in Parts /\ [MCNext]_<<part, arriving, together, outside>> => (part \in Parts)'
  BY DEF MCNext, SessionsNext, FrontNext, PartiesNext, MirrorNext, PlazasNext, SocialsNext, MailsNext
<1> QED
  BY <1>1, <1>2, PTL DEF MCSpec

\* Type correctness of whichever component runs: ids, lists, links, tasks and rows stay
\* in their ranges, and within the limits that the code sets them.
THEOREM TypesOKHolds == MCSpec => []TypesOK
<1>1. /\ part \in Parts /\ IInv /\ FrontInv /\ PartyInv
      /\ MirrorInv /\ PlazaInv /\ SocialInv /\ MailInv
      => TypesOK
  BY DEF Parts, TypesOK, IInv, FrontInv, PartyInv, MirrorInv, PlazaInv, SocialInv, MailInv
<1> QED
  BY <1>1, PartStays, SessionsInvariance, FrontInvariance, PartiesInvariance, MirrorInvariance,
     PlazasInvariance, SocialsInvariance, MailsInvariance, PTL
=============================================================================
