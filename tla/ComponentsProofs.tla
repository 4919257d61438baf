-------------------------- MODULE ComponentsProofs --------------------------
(***************************************************************************)
(* What the session's sender, the connection between two servers, the      *)
(* movement batcher, the heartbeat and the locks of the handlers promise,  *)
(* proved of the instance that TLC runs, for any messages, players,        *)
(* threads, ticks, lengths and numbers.  Liveness stays with TLC; of       *)
(* Reconnects, KeepsChallenging and SilentIsDropped the safety part is     *)
(* here: what is waited for has something under way that will bring it     *)
(* about; and of EveryoneReturns, that no handlers wait in a circle.       *)
(***************************************************************************)
EXTENDS MCComponents, SequenceTheorems, FiniteSetTheorems, WellFoundedInduction, TLAPS

-----------------------------------------------------------------------------
\* The movement batcher.

\* The tick sent last is never ahead of what the room, or the flush under way,
\* takes for the greatest.
TicksOrdered ==
    /\ ~flushing => front <= lastTick /\ batch = Nothing
    /\ flushing => front <= lastEmitted /\ lastTick <= lastEmitted

\* A player's samples are shown, sent and collected in the order of their numbers.
NumbersOrdered ==
    \A s \in Sid :
        /\ shown[s] <= submitted[s]
        /\ batch[s] # NoEntry =>
               shown[s] <= batch[s].number /\ batch[s].number <= submitted[s]
        /\ entries[s] # NoEntry =>
               /\ shown[s] <= entries[s].number /\ entries[s].number <= submitted[s]
               /\ batch[s] # NoEntry => batch[s].number <= entries[s].number

BInv == TypeOK /\ TicksOrdered /\ NumbersOrdered

\* What a step does to the order that players see.
Forward == front' >= front /\ \A s \in Sid : shown'[s] >= shown[s]

-----------------------------------------------------------------------------
\* Samples and their parts are of the types that the module says.
LEMMA SampleParts ==
    ASSUME NEW e \in Sample
    PROVE  e.tick \in Tick /\ e.number \in 0 .. MaxSamples /\ (e # NoEntry => e.len \in EntryLen)
BY ConstantsAssumption DEF Sample, NoEntry, Tick

\* It holds at first.
LEMMA BInvInit == ASSUME Init PROVE BInv
<1>1. Nothing \in [Sid -> Sample]
  BY DEF Nothing, Sample
<1>2. 0 \in Tick /\ 0 \in 0 .. MaxSamples
  BY ConstantsAssumption DEF Tick
<1>3. TypeOK
  BY <1>1, <1>2 DEF Init, TypeOK
<1>4. TicksOrdered
  BY DEF Init, TicksOrdered
<1>5. NumbersOrdered
  BY DEF Init, NumbersOrdered, Nothing
<1> QED BY <1>3, <1>4, <1>5 DEF BInv

\* Every step keeps it and shows nothing that is older.
LEMMA BInvNext == ASSUME BInv, [Next]_vars PROVE BInv' /\ Forward
<1> USE ConstantsAssumption DEF BInv
<1>1. ASSUME NEW s \in Sid, NEW tick \in Tick, NEW len \in EntryLen, Submit(s, tick, len)
      PROVE  BInv' /\ Forward
  <2> DEFINE e == [tick |-> tick, len |-> len, number |-> submitted[s] + 1]
  <2>1. submitted[s] + 1 \in 1 .. MaxSamples
    BY <1>1 DEF Submit, TypeOK
  <2>2. e \in Sample /\ e.number = submitted[s] + 1
    BY <2>1 DEF Sample
  <2>3. /\ submitted' = [submitted EXCEPT ![s] = @ + 1] /\ entries' = [entries EXCEPT ![s] = e]
        /\ UNCHANGED <<lastTick, flushing, batch, lastEmitted, shown, front>>
    BY <1>1 DEF Submit, LatestWins
  <2> HIDE DEF e
  <2>4. TypeOK'
    BY <2>1, <2>2, <2>3 DEF TypeOK
  <2>5. TicksOrdered'
    BY <2>3 DEF TicksOrdered
  <2>6. NumbersOrdered'
    <3> SUFFICES ASSUME NEW q \in Sid
                 PROVE /\ shown[q] <= submitted'[q]
                       /\ batch[q] # NoEntry =>
                              shown[q] <= batch[q].number /\ batch[q].number <= submitted'[q]
                       /\ entries'[q] # NoEntry =>
                              /\ shown[q] <= entries'[q].number /\ entries'[q].number <= submitted'[q]
                              /\ batch[q] # NoEntry => batch[q].number <= entries'[q].number
      BY <2>3 DEF NumbersOrdered
    <3>1. batch[q].number \in Nat /\ shown[q] \in Nat /\ submitted[q] \in Nat
      BY SampleParts DEF TypeOK
    <3>2. CASE q = s
      <4>1. entries'[q].number = submitted[q] + 1 /\ submitted'[q] = submitted[q] + 1
        BY <2>2, <2>3, <3>2 DEF TypeOK
      <4> QED BY <3>1, <4>1 DEF NumbersOrdered
    <3>3. CASE q # s
      <4>1. entries'[q] = entries[q] /\ submitted'[q] = submitted[q]
        BY <2>3, <3>3 DEF TypeOK
      <4> QED BY <4>1 DEF NumbersOrdered
    <3> QED BY <3>2, <3>3
  <2>7. Forward
    BY <2>3 DEF Forward, TypeOK, Tick
  <2> QED BY <2>4, <2>5, <2>6, <2>7
<1>2. CASE Drain
  <2>1. /\ ~flushing /\ batch = Nothing /\ flushing' = TRUE /\ batch' = entries /\ entries' = Nothing
        /\ lastEmitted' = lastTick /\ UNCHANGED <<lastTick, submitted, shown, front>>
    BY <1>2 DEF Drain, TicksOrdered
  <2>2. Nothing \in [Sid -> Sample]
    BY DEF Nothing, Sample
  <2>3. TypeOK'
    BY <2>1, <2>2 DEF TypeOK
  <2>4. TicksOrdered'
    BY <2>1 DEF TicksOrdered, TypeOK, Tick
  <2>5. NumbersOrdered'
    BY <2>1 DEF NumbersOrdered, Nothing
  <2>6. Forward
    BY <2>1 DEF Forward, TypeOK, Tick
  <2> QED BY <2>3, <2>4, <2>5, <2>6
<1>3. ASSUME NEW S \in SUBSET Sid, NEW tick \in Tick, Emit(S, tick) PROVE BInv' /\ Forward
  <2>1. /\ flushing /\ lastEmitted <= tick /\ front' = tick /\ lastEmitted' = tick
        /\ shown' = [s \in Sid |-> IF s \in S THEN batch[s].number ELSE shown[s]]
        /\ batch' = [s \in Sid |-> IF s \in S THEN NoEntry ELSE batch[s]]
        /\ UNCHANGED <<entries, lastTick, flushing, submitted>>
    BY <1>3 DEF Emit, Front
  <2>2. \A s \in S : batch[s] # NoEntry
    BY <1>3 DEF Emit, Packet, Unsent
  <2>3. \A s \in Sid : batch[s].number \in 0 .. MaxSamples
    BY SampleParts DEF TypeOK
  <2>4. TypeOK'
    BY <2>1, <2>3 DEF TypeOK, Sample
  <2>5. TicksOrdered'
    BY <2>1 DEF TicksOrdered, TypeOK, Tick
  <2>6. NumbersOrdered'
    BY <2>1, <2>2 DEF NumbersOrdered
  <2>7. front' >= front
    BY <2>1 DEF TicksOrdered, TypeOK, Tick
  <2>8. \A s \in Sid : shown'[s] >= shown[s]
    BY <2>1, <2>2, <2>3 DEF NumbersOrdered, TypeOK
  <2> QED BY <2>4, <2>5, <2>6, <2>7, <2>8 DEF Forward
<1>4. CASE Store
  <2>1. /\ flushing /\ flushing' = FALSE
        /\ lastTick' = IF lastEmitted > lastTick THEN lastEmitted ELSE lastTick
        /\ UNCHANGED <<entries, batch, lastEmitted, submitted, shown, front>>
    BY <1>4 DEF Store
  <2>2. batch = Nothing
    BY <1>4 DEF Store, Unsent, TypeOK, Nothing
  <2>3. TypeOK'
    BY <2>1 DEF TypeOK
  <2>4. TicksOrdered'
    BY <2>1, <2>2 DEF TicksOrdered, TypeOK, Tick
  <2>5. NumbersOrdered'
    BY <2>1 DEF NumbersOrdered
  <2>6. Forward
    BY <2>1 DEF Forward, TypeOK, Tick
  <2> QED BY <2>3, <2>4, <2>5, <2>6
<1>5. CASE UNCHANGED vars
  BY <1>5 DEF vars, TypeOK, TicksOrdered, NumbersOrdered, Forward, Tick
<1> QED BY <1>1, <1>2, <1>3, <1>4, <1>5 DEF Next, Flush

-----------------------------------------------------------------------------
\* Whatever part of the instance runs, the batcher steps as it does alone.
LEMMA BatcherSteps ==
    [MCNext]_<<part, locks, sending, link, batcher, heartbeat>> => [Next]_vars
BY DEF MCNext, LocksNext, SendingNext, LinkNext, BatcherNext, HeartbeatNext, batcher

\* Samples, ticks and numbers are within their bounds.
THEOREM BatcherTypes == MCSpec => []TypeOK
<1>1. BInv => TypeOK
  BY DEF BInv
<1>2. BInv /\ [Next]_vars => BInv'
  BY BInvNext
<1>3. MCInit => BInv
  BY BInvInit DEF MCInit
<1> QED
  BY <1>1, <1>2, <1>3, BatcherSteps, PTL DEF MCSpec

\* The ticks sent to a room never go back and no player is seen to step back to
\* an older sample, in whatever packets the samples are and whatever comes in
\* between.
THEOREM NeverBackwardsHolds == MCSpec => NeverBackwards
<1>1. BInv /\ [Next]_vars => BInv' /\ [Forward]_vars
  BY BInvNext
<1>2. BInv /\ [Forward]_vars =>
          [front' >= front /\ \A s \in Sid : shown'[s] >= shown[s]]_vars
  BY DEF Forward
<1>3. MCInit => BInv
  BY BInvInit DEF MCInit
<1> QED
  BY <1>1, <1>2, <1>3, BatcherSteps, PTL DEF MCSpec, NeverBackwards

-----------------------------------------------------------------------------
\* What a session sends.

\* A sequence is a beginning of what it is continued to.
LEMMA PrefixOfConcat ==
    ASSUME NEW s \in Seq(Message), NEW t \in Seq(Message)
    PROVE  Sending!IsPrefix(s, s \o t)
BY DEF Sending!IsPrefix

\* A beginning stays one when the whole is continued.
LEMMA PrefixOfAppend ==
    ASSUME NEW s \in Seq(Message), NEW t \in Seq(Message), NEW m \in Message, Sending!IsPrefix(s, t)
    PROVE  Sending!IsPrefix(s, Append(t, m))
BY DEF Sending!IsPrefix

\* Moving the first message of one sequence to the end of another leaves their
\* concatenation as it is.
LEMMA MoveHead ==
    ASSUME NEW s \in Seq(Message), NEW t \in Seq(Message), t # <<>>
    PROVE  Append(s, Head(t)) \o Tail(t) = s \o t
OBVIOUS

\* A message put at the end of the second is at the end of both.
LEMMA ConcatAppend ==
    ASSUME NEW s \in Seq(Message), NEW t \in Seq(Message), NEW m \in Message
    PROVE  Append(s \o t, m) = s \o Append(t, m)
OBVIOUS

-----------------------------------------------------------------------------
\* At most one write is under way, of the queue's first message, and none is
\* missing while the queue of an open session holds a message.
WriteOfHead ==
    /\ writes # <<>> => queue # <<>> /\ writes = <<Head(queue)>>
    /\ socket = "open" /\ queue # <<>> => writes # <<>>

\* As long as a write is under way, or the socket is open, nothing was given up.
NothingLost == socket = "open" \/ writes # <<>> => accepted = wire \o queue

SInv == Sending!TypeOK /\ WriteOfHead /\ NothingLost /\ Sending!IsPrefix(wire, accepted)

\* It holds at first.
LEMMA SInvInit == ASSUME Sending!Init PROVE SInv
BY DEF Sending!Init, SInv, Sending!TypeOK, WriteOfHead, NothingLost, Sending!IsPrefix

\* Whatever the strand, the socket or a sender does, it is kept.
LEMMA SInvNext == ASSUME SInv, [Sending!Next]_sending PROVE SInv'
<1> USE DEF SInv
<1>1. ASSUME NEW m \in Message, Sending!Send(m) PROVE SInv'
  <2>1. Sending!TypeOK'
    BY <1>1 DEF Sending!Send, Sending!TypeOK
  <2> QED BY <1>1, <2>1 DEF Sending!Send, WriteOfHead, NothingLost
<1>2. CASE Sending!Queue
  <2> DEFINE m == Head(posted)
  <2>1. m \in Message /\ posted' \in Seq(Message)
    BY <1>2, HeadTailProperties DEF Sending!Queue, Sending!TypeOK
  <2>2. CASE socket = "open"
    <3>1. /\ accepted' = Append(accepted, m) /\ queue' = Append(queue, m)
          /\ writes' = IF queue = <<>> THEN Append(writes, Head(queue')) ELSE writes
          /\ UNCHANGED <<socket, wire, told>>
      BY <1>2, <2>2 DEF Sending!Queue, Sending!Idle
    <3>2. writes' = <<Head(queue')>> /\ queue' # <<>> /\ Head(queue') \in Message
      <4>1. CASE queue = <<>>
        <5>1. writes = <<>>
          BY <4>1 DEF WriteOfHead
        <5>2. Head(queue') = m /\ queue' # <<>>
          BY <2>1, <3>1, <4>1, HeadTailAppend, AppendProperties DEF Sending!TypeOK
        <5> QED BY <2>1, <3>1, <4>1, <5>1, <5>2
      <4>2. CASE queue # <<>>
        <5>1. writes = <<Head(queue)>>
          BY <2>2, <4>2 DEF WriteOfHead
        <5>2. Head(queue') = Head(queue) /\ queue' # <<>> /\ Head(queue) \in Message
          BY <2>1, <3>1, <4>2, HeadTailAppend, AppendProperties, HeadTailProperties DEF Sending!TypeOK
        <5> QED BY <3>1, <4>2, <5>1, <5>2
      <4> QED BY <4>1, <4>2
    <3>3. Sending!TypeOK'
      BY <1>2, <2>1, <3>1, <3>2, AppendProperties DEF Sending!TypeOK
    <3>4. accepted' = wire' \o queue'
      <4>1. accepted = wire \o queue
        BY <2>2 DEF NothingLost
      <4>2. Append(wire \o queue, m) = wire \o Append(queue, m)
        BY <2>1, ConcatAppend DEF Sending!TypeOK
      <4> QED BY <3>1, <4>1, <4>2
    <3>5. Sending!IsPrefix(wire, accepted)'
      BY <2>1, <3>1, PrefixOfAppend DEF Sending!TypeOK
    <3> QED BY <3>2, <3>3, <3>4, <3>5 DEF WriteOfHead, NothingLost
  <2>3. CASE socket # "open"
    <3>1. UNCHANGED <<accepted, queue, writes, socket, wire, told>>
      BY <1>2, <2>3 DEF Sending!Queue
    <3>2. Sending!TypeOK'
      BY <2>1, <3>1 DEF Sending!TypeOK
    <3> QED BY <3>1, <3>2 DEF WriteOfHead, NothingLost
  <2> QED BY <2>2, <2>3
<1>3. CASE Sending!Written
  <2>1. queue # <<>> /\ writes = <<Head(queue)>> /\ accepted = wire \o queue
    BY <1>3 DEF Sending!Written, WriteOfHead, NothingLost
  <2>2. Head(queue) \in Message /\ Tail(queue) \in Seq(Message)
    BY <2>1, HeadTailProperties DEF Sending!TypeOK
  <2>3. wire' = Append(wire, Head(queue)) /\ wire' \in Seq(Message)
    BY <1>3, <2>1, <2>2, AppendProperties DEF Sending!Written, Sending!TypeOK
  <2>4. accepted' = accepted /\ accepted = wire' \o Tail(queue)
    BY <1>3, <2>1, <2>3, MoveHead DEF Sending!Written, Sending!TypeOK
  <2>5. Sending!IsPrefix(wire, accepted)'
    BY <2>2, <2>3, <2>4, PrefixOfConcat
  <2>6. CASE socket = "open"
    <3>1. queue' = Tail(queue) /\ writes' = Sending!Chain(Tail(queue))
      <4>1. Sending!Popped = Tail(queue)
        BY <2>1 DEF Sending!Popped
      <4>2. queue' = Sending!Popped /\ writes' = Tail(writes) \o Sending!Chain(Sending!Popped)
        BY <1>3, <2>6 DEF Sending!Written
      <4>3. Sending!Chain(Tail(queue)) \in Seq(Message)
        <5>1. CASE Tail(queue) = <<>>
          BY <5>1 DEF Sending!Chain
        <5>2. CASE Tail(queue) # <<>>
          <6>1. Head(Tail(queue)) \in Message
            BY <2>2, <5>2, HeadTailProperties
          <6> QED BY <5>2, <6>1 DEF Sending!Chain
        <5> QED BY <5>1, <5>2
      <4>4. Tail(<<Head(queue)>>) = <<>>
        OBVIOUS
      <4>5. <<>> \o Sending!Chain(Tail(queue)) = Sending!Chain(Tail(queue))
        BY <4>3, ConcatEmptySeq
      <4> QED BY <2>1, <4>1, <4>2, <4>4, <4>5
    <3>2. writes' = IF queue' = <<>> THEN <<>> ELSE <<Head(queue')>>
      BY <3>1 DEF Sending!Chain
    <3>3. queue' \in Seq(Message) /\ writes' \in Seq(Message)
      <4>1. queue' \in Seq(Message)
        BY <2>2, <3>1
      <4>2. CASE queue' = <<>>
        BY <3>2, <4>1, <4>2
      <4>3. CASE queue' # <<>>
        <5>1. Head(queue') \in Message
          BY <4>1, <4>3, HeadTailProperties
        <5>2. writes' = <<Head(queue')>>
          BY <3>2, <4>3
        <5> QED BY <4>1, <5>1, <5>2
      <4> QED BY <4>2, <4>3
    <3>4. Sending!TypeOK'
      BY <1>3, <2>3, <3>3 DEF Sending!Written, Sending!TypeOK
    <3> QED BY <1>3, <2>4, <2>5, <3>1, <3>2, <3>4 DEF Sending!Written, WriteOfHead, NothingLost
  <2>7. CASE socket # "open"
    <3>1. queue' = <<>> /\ writes' = <<>> /\ socket' = socket
      BY <1>3, <2>1, <2>7 DEF Sending!Written
    <3>2. Sending!TypeOK'
      BY <1>3, <2>3, <3>1 DEF Sending!Written, Sending!TypeOK
    <3> QED BY <2>5, <2>7, <3>1, <3>2 DEF WriteOfHead, NothingLost
  <2> QED BY <2>6, <2>7
<1>4. CASE Sending!WriteFails
  <2>1. writes' = <<>> /\ queue' = <<>> /\ socket' = "closed" /\ UNCHANGED <<posted, accepted, wire>>
    <3>1. writes = <<Head(queue)>> /\ writes' = Tail(writes)
      BY <1>4 DEF Sending!WriteFails, WriteOfHead
    <3>2. Tail(<<Head(queue)>>) = <<>>
      OBVIOUS
    <3> QED BY <1>4, <3>1, <3>2 DEF Sending!WriteFails, Sending!Closed
  <2>2. Sending!TypeOK'
    BY <1>4, <2>1 DEF Sending!WriteFails, Sending!Closed, Sending!TypeOK
  <2> QED BY <2>1, <2>2 DEF WriteOfHead, NothingLost
<1>5. CASE Sending!Disconnect
  <2>1. Sending!TypeOK'
    BY <1>5 DEF Sending!Disconnect, Sending!Closed, Sending!TypeOK
  <2> QED BY <1>5, <2>1 DEF Sending!Disconnect, Sending!Closed, WriteOfHead, NothingLost
<1>6. CASE UNCHANGED sending
  BY <1>6 DEF sending, Sending!TypeOK, WriteOfHead, NothingLost
<1> QED BY <1>1, <1>2, <1>3, <1>4, <1>5, <1>6 DEF Sending!Next

\* And it says what is promised.
LEMMA SInvSays == ASSUME SInv PROVE Sending!SentInOrder
<1>1. writes # <<>> => writes = <<Head(queue)>> /\ queue # <<>>
  BY DEF SInv, WriteOfHead
<1>2. Sending!OneWrite
  <2>1. CASE writes = <<>>
    BY <2>1 DEF Sending!OneWrite
  <2>2. CASE writes # <<>>
    <3> DEFINE h == Head(queue)
    <3>1. Len(<<h>>) = 1 /\ Head(<<h>>) = h
      OBVIOUS
    <3>2. writes = <<h>>
      BY <1>1, <2>2
    <3> HIDE DEF h
    <3>3. Len(writes) = 1 /\ Head(writes) = h
      BY <3>1, <3>2
    <3> QED BY <1>1, <2>2, <3>3 DEF Sending!OneWrite, h
  <2> QED BY <2>1, <2>2
<1> QED BY <1>2 DEF SInv, NothingLost, Sending!SentInOrder

-----------------------------------------------------------------------------
\* Whatever part of the instance runs, the sender steps as it does alone.
LEMMA SendingSteps ==
    [MCNext]_<<part, locks, sending, link, batcher, heartbeat>> => [Sending!Next]_sending
BY DEF MCNext, LocksNext, SendingNext, LinkNext, BatcherNext, HeartbeatNext, sending

\* What is queued, written and sent are messages; the socket is open or closed.
THEOREM SendingTypes == MCSpec => []Sending!TypeOK
<1>1. SInv => Sending!TypeOK
  BY DEF SInv
<1>2. MCInit => Sending!Init
  BY DEF MCInit
<1> QED
  BY <1>1, <1>2, SendingSteps, SInvInit, SInvNext, PTL DEF MCSpec

\* One write at a time takes the messages to the peer in the order in which they
\* were accepted, without gap or repetition, however the socket is closed.
THEOREM SentInOrderHolds == MCSpec => []SentInOrder
<1>1. SInv => SentInOrder
  BY SInvSays DEF SentInOrder
<1>2. MCInit => Sending!Init
  BY DEF MCInit
<1> QED
  BY <1>1, <1>2, SendingSteps, SInvInit, SInvNext, PTL DEF MCSpec

-----------------------------------------------------------------------------
\* The connection between two servers.

\* Who is marked as connecting is: the marks of attempts are not left behind.
Marked == connecting => attempts > 0

\* Connections are numbered as they are made, and the link has one whose socket is open
\* or whose callback is to come, or none.
Numbered ==
    /\ open \cap closing = {} /\ \A s \in open \cup closing : s > 0 /\ s <= made
    /\ session = Link!None \/ session \in open \cup closing

\* Without one something is under way.
Trying == session = Link!None => Link!Pending > 0

LinkInv == Link!TypeOK /\ Marked /\ Numbered /\ Trying

\* Something is under way if anything is.
LEMMA PositiveSum ==
    ASSUME NEW p \in Nat, NEW q \in Nat, NEW r \in Nat, NEW s \in Nat, NEW t \in Nat, p > 0
    PROVE  p + q + r + s + t > 0
OBVIOUS

\* It holds at first.
LEMMA LinkInit == Link!Init => LinkInv
<1> SUFFICES ASSUME Link!Init PROVE LinkInv
  OBVIOUS
<1>1. Link!TypeOK
  BY LinkAssumption DEF Link!Init, Link!TypeOK, Link!None
<1> QED
  BY <1>1 DEF Link!Init, LinkInv, Marked, Numbered, Trying, Link!Pending, Link!None

\* The types are kept, of what a step changes.
LEMMA LinkTypes == Link!TypeOK /\ [Link!Next]_link => Link!TypeOK'
<1> SUFFICES ASSUME Link!TypeOK, [Link!Next]_link PROVE Link!TypeOK'
  OBVIOUS
<1> DEFINE Others == /\ session \in 0 .. MaxSessions /\ made \in 0 .. MaxSessions
                     /\ open \subseteq Link!Session /\ closing \subseteq Link!Session
                     /\ attempts \in Nat /\ retrying \in Nat /\ arming \in Nat
                     /\ waits \in Nat /\ fired \in Nat
<1>1. Others
  BY DEF Link!TypeOK
<1>2. ASSUME Others', up' \in {up, ~up}, connecting' \in {connecting, TRUE, FALSE} PROVE Link!TypeOK'
  <2>1. up' \in BOOLEAN /\ connecting' \in BOOLEAN
    BY <1>2 DEF Link!TypeOK
  <2> QED
    BY <1>2, <2>1 DEF Link!TypeOK
<1>3. ASSUME Link!Ensure, UNCHANGED <<up, session, made, open, closing, retrying, arming>>, fired' \in Nat
      PROVE  Link!TypeOK'
  <2>1. /\ connecting' \in {connecting, TRUE, FALSE}
        /\ \/ attempts' = attempts /\ waits' = waits
           \/ attempts' = attempts + 1 /\ waits' = 0
    BY <1>3 DEF Link!Ensure
  <2>2. Others'
    BY <1>1, <1>3, <2>1
  <2> QED
    BY <1>2, <1>3, <2>1, <2>2
<1>4. CASE Link!SendUnconnected
  <2>1. Link!Ensure /\ UNCHANGED <<up, session, made, open, closing, retrying, arming>> /\ fired' = fired
    BY <1>4 DEF Link!SendUnconnected
  <2> QED
    BY <1>1, <1>3, <2>1
<1>5. CASE Link!Connects
  <2>1. /\ attempts > 0 /\ made < MaxSessions
        /\ attempts' = attempts - 1 /\ made' = made + 1
        /\ open' = open \cup {made + 1} /\ session' = made + 1
        /\ connecting' = FALSE /\ waits' = 0 /\ UNCHANGED <<up, closing, retrying, arming, fired>>
    BY <1>5 DEF Link!Connects
  <2>2. Others'
    BY <1>1, <2>1, LinkAssumption DEF Link!Session
  <2> QED
    BY <1>2, <2>1, <2>2
<1>6. CASE Link!Fails
  <2>1. /\ attempts > 0 /\ attempts' = attempts - 1 /\ connecting' = FALSE /\ retrying' = retrying + 1
        /\ UNCHANGED <<up, session, made, open, closing, arming, waits, fired>>
    BY <1>6 DEF Link!Fails, Link!AttemptOver
  <2>2. Others'
    BY <1>1, <2>1
  <2> QED
    BY <1>2, <2>1, <2>2
<1>7. ASSUME NEW s \in Link!Session, Link!Break(s) PROVE Link!TypeOK'
  BY <1>1, <1>2, <1>7 DEF Link!Break, Link!timer
<1>8. ASSUME NEW s \in Link!Session, Link!OnDisconnect(s) PROVE Link!TypeOK'
  <2>1. /\ closing' = closing \ {s} /\ session' \in {session, 0} /\ connecting' = FALSE
        /\ retrying' = retrying + 1 /\ UNCHANGED <<up, made, open, attempts, arming, waits, fired>>
    BY <1>8 DEF Link!OnDisconnect, Link!None
  <2>2. Others'
    BY <1>1, <2>1, LinkAssumption
  <2> QED
    BY <1>2, <2>1, <2>2
<1>9. CASE Link!SetTimer \/ Link!Wait \/ Link!Expire
  <2>1. Others' /\ UNCHANGED <<up, connecting>>
    BY <1>1, <1>9 DEF Link!SetTimer, Link!Wait, Link!Expire
  <2> QED
    BY <1>2, <2>1
<1>10. CASE Link!Retry
  <2>1. /\ fired > 0 /\ fired' = fired - 1
        /\ Link!Ensure /\ UNCHANGED <<up, session, made, open, closing, retrying, arming>>
    BY <1>10 DEF Link!Retry
  <2>2. fired' \in Nat
    BY <1>1, <2>1
  <2> QED
    BY <1>3, <2>1, <2>2
<1>11. CASE Link!PeerChanges \/ UNCHANGED link
  <2>1. /\ up' \in {up, ~up}
        /\ UNCHANGED <<connecting, session, made, open, closing, attempts, retrying, arming, waits, fired>>
    BY <1>11 DEF Link!PeerChanges, Link!timer, link
  <2> QED
    BY <1>1, <1>2, <2>1
<1> QED
  BY <1>4, <1>5, <1>6, <1>7, <1>8, <1>9, <1>10, <1>11 DEF Link!Next

\* Every step keeps it.
LEMMA LinkStep == LinkInv /\ [Link!Next]_link => LinkInv'
<1> SUFFICES ASSUME LinkInv, [Link!Next]_link PROVE (Marked /\ Numbered /\ Trying)'
  BY LinkTypes DEF LinkInv
<1> USE DEF LinkInv
<1>1. /\ attempts \in Nat /\ retrying \in Nat /\ arming \in Nat /\ waits \in Nat /\ fired \in Nat
      /\ session \in Nat /\ made \in Nat /\ open \cup closing \subseteq Nat
  BY LinkAssumption DEF Link!TypeOK, Link!Session
<1>2. ASSUME Link!Ensure, UNCHANGED <<session, made, open, closing, retrying, arming>>, fired' \in Nat
      PROVE  (Marked /\ Numbered /\ Trying)'
  <2>1. Numbered'
    BY <1>2 DEF Numbered
  <2>4. retrying' \in Nat /\ arming' \in Nat /\ fired' \in Nat /\ session' = session
    BY <1>1, <1>2
  <2>2. CASE Link!Connected \/ connecting
    <3>1. connecting' = connecting /\ attempts' = attempts /\ waits' = waits
      BY <1>2, <2>2 DEF Link!Ensure
    <3>2. Marked'
      BY <3>1 DEF Marked
    <3>3. session = Link!None => attempts > 0
      BY <2>2 DEF Numbered, Marked, Link!Connected, Link!None
    <3>4. Trying'
      <4>1. attempts' \in Nat /\ waits' \in Nat
        BY <1>1, <3>1
      <4>2. SUFFICES ASSUME session' = Link!None PROVE Link!Pending' > 0
        BY DEF Trying, Link!None
      <4>3. attempts' > 0
        BY <2>4, <3>1, <3>3, <4>2
      <4> QED
        BY <2>4, <4>1, <4>3, PositiveSum DEF Link!Pending
    <3> QED
      BY <2>1, <3>2, <3>4
  <2>3. CASE ~(Link!Connected \/ connecting)
    <3>1. attempts' = attempts + 1 /\ waits' = 0
      BY <1>2, <2>3 DEF Link!Ensure
    <3>2. attempts' \in Nat /\ attempts' > 0
      BY <1>1, <3>1
    <3>3. Link!Pending' > 0
      BY <2>4, <3>1, <3>2 DEF Link!Pending
    <3> QED
      BY <2>1, <3>2, <3>3 DEF Marked, Trying
  <2> QED
    BY <2>2, <2>3
<1>3. CASE Link!SendUnconnected
  BY <1>1, <1>2, <1>3 DEF Link!SendUnconnected
<1>4. CASE Link!Connects
  <2>1. Numbered'
    BY <1>1, <1>4 DEF Link!Connects, Numbered
  <2> QED
    BY <1>1, <1>4, <2>1 DEF Link!Connects, Marked, Trying, Link!None
<1>5. CASE Link!Fails
  BY <1>1, <1>5 DEF Link!Fails, Link!AttemptOver, Marked, Numbered, Trying, Link!Pending
<1>6. ASSUME NEW s \in Link!Session, Link!Break(s) PROVE (Marked /\ Numbered /\ Trying)'
  <2>1. Marked' /\ Trying'
    BY <1>6 DEF Link!Break, Link!timer, Marked, Trying, Link!Pending
  <2> QED
    BY <1>6, <2>1 DEF Link!Break, Numbered
<1>7. ASSUME NEW s \in Link!Session, Link!OnDisconnect(s) PROVE (Marked /\ Numbered /\ Trying)'
  <2>1. Marked' /\ Trying'
    BY <1>1, <1>7 DEF Link!OnDisconnect, Marked, Trying, Link!Pending
  <2> QED
    BY <1>7, <2>1 DEF Link!OnDisconnect, Numbered
<1>8. CASE Link!SetTimer \/ Link!Wait \/ Link!Expire
  <2>1. Numbered' /\ Marked'
    BY <1>8 DEF Link!SetTimer, Link!Wait, Link!Expire, Numbered, Marked
  <2>2. Link!Pending' > 0 /\ session' = session
    BY <1>1, <1>8 DEF Link!SetTimer, Link!Wait, Link!Expire, Link!Pending
  <2> QED
    BY <2>1, <2>2 DEF Trying
<1>9. CASE Link!Retry
  BY <1>1, <1>2, <1>9 DEF Link!Retry
<1>10. CASE Link!PeerChanges \/ UNCHANGED link
  BY <1>10 DEF Link!PeerChanges, Link!timer, link, Marked, Numbered, Trying, Link!Pending
<1> QED
  BY <1>3, <1>4, <1>5, <1>6, <1>7, <1>8, <1>9, <1>10 DEF Link!Next

\* A link that is not connected is not given up: an attempt, a timer or a handler that
\* sets one is under way, or the callback of the connection that has closed is to come.
LinkNotGivenUp == ~Link!Connected => Link!Pending > 0 \/ session \in closing

\* It is never given up, although late callbacks clear the mark of the next attempt and
\* every timer set cancels the waits of others.
THEOREM LinkNotGivenUpHolds == MCSpec => []LinkNotGivenUp
<1>1. MCInit => LinkInv
  BY LinkInit DEF MCInit
<1>2. [MCNext]_<<part, locks, sending, link, batcher, heartbeat>> => [Link!Next]_link
  BY DEF MCNext, LocksNext, SendingNext, LinkNext, BatcherNext, HeartbeatNext, link
<1>3. LinkInv => LinkNotGivenUp
  BY DEF LinkInv, Numbered, Trying, LinkNotGivenUp, Link!Connected
<1> QED
  BY <1>1, <1>2, <1>3, LinkStep, PTL DEF MCSpec

-----------------------------------------------------------------------------
\* The heartbeat of a session.

\* A call that will set a timer for this, or a timer set for it, state.timer's or not.
Due(p) == calls[p] > 0 \/ current = p \/ others[p] > 0

\* A session that has nothing to answer will be sent a challenge, and one whose answer
\* is awaited has a timeout to come.
ChallengeDue == life = "on" /\ pending = 0 => Due("challenge")
TimeoutDue   == life = "on" /\ awaiting => Due("timeout")

\* A session is given up before it has all retries, and stopped with all that it had.
Retried ==
    /\ life = "on" => retries < MaxRetries
    /\ life # "on" => pending = 0 /\ retries = 0 /\ ~awaiting

\* The types of the numbers, and of the timers and calls.
NumbersOK ==
    /\ pending \in 0 .. MaxChallenges /\ unanswered \in 0 .. MaxChallenges + 1
    /\ pending <= unanswered /\ retries \in 0 .. MaxRetries
TimersOK ==
    /\ current \in {"timeout", "challenge", "none"} /\ others \in [{"timeout", "challenge"} -> Nat]
    /\ calls \in [{"timeout", "challenge", "sendChallenge"} -> Nat]
SwitchesOK == life \in {"new", "on", "over"} /\ answering \in BOOLEAN /\ awaiting \in BOOLEAN

BeatInv == NumbersOK /\ TimersOK /\ SwitchesOK /\ ChallengeDue /\ TimeoutDue /\ Retried

\* The module's types are these.
LEMMA BeatTypes == Heartbeats!TypeOK <=> NumbersOK /\ TimersOK /\ SwitchesOK
<1>1. /\ Heartbeats!Purpose = {"timeout", "challenge"}
      /\ Heartbeats!Purpose \cup {Heartbeats!None} = {"timeout", "challenge", "none"}
      /\ Heartbeats!Call = {"timeout", "challenge", "sendChallenge"}
  BY DEF Heartbeats!Purpose, Heartbeats!None, Heartbeats!Call
<1> QED
  BY <1>1, Zenon DEF Heartbeats!TypeOK, NumbersOK, TimersOK, SwitchesOK

\* It holds at first.
LEMMA BeatInit == Heartbeats!Init => BeatInv
<1> SUFFICES ASSUME Heartbeats!Init PROVE BeatInv
  OBVIOUS
<1>1. NumbersOK /\ TimersOK
  BY HeartbeatAssumption
  DEF Heartbeats!Init, NumbersOK, TimersOK, Heartbeats!None, Heartbeats!Purpose, Heartbeats!Call
<1> QED
  BY <1>1 DEF Heartbeats!Init, BeatInv, SwitchesOK, ChallengeDue, TimeoutDue, Retried

\* A call more, or one less, is one of the kind that it is of.
LEMMA CallAdded ==
    ASSUME TimersOK, NEW f \in [{"timeout", "challenge", "sendChallenge"} -> Nat],
           NEW p \in {"timeout", "challenge", "sendChallenge"}
    PROVE  /\ Heartbeats!Add(f, p) \in [{"timeout", "challenge", "sendChallenge"} -> Nat]
           /\ Heartbeats!Add(f, p)[p] > 0
           /\ \A q \in {"timeout", "challenge", "sendChallenge"} : q # p => Heartbeats!Add(f, p)[q] = f[q]
BY DEF Heartbeats!Add

LEMMA CallTaken ==
    ASSUME TimersOK, NEW p \in {"timeout", "challenge", "sendChallenge"}, calls[p] > 0
    PROVE  /\ Heartbeats!Take(calls, p) \in [{"timeout", "challenge", "sendChallenge"} -> Nat]
           /\ \A q \in {"timeout", "challenge", "sendChallenge"} :
                  q # p => Heartbeats!Take(calls, p)[q] = calls[q]
BY DEF Heartbeats!Take, TimersOK

\* A timer that state.timer lets go of stays set.
LEMMA LetGoKeeps ==
    ASSUME TimersOK
    PROVE  /\ Heartbeats!LetGo \in [{"timeout", "challenge"} -> Nat]
           /\ \A p \in {"timeout", "challenge"} :
                  current = p \/ others[p] > 0 => Heartbeats!LetGo[p] > 0
BY DEF Heartbeats!LetGo, Heartbeats!Add, Heartbeats!None, TimersOK

\* A timer that fires is one of its kind.
LEMMA FiresKeeps ==
    ASSUME TimersOK, NEW p \in {"timeout", "challenge"}, Heartbeats!Fires(p)
    PROVE  /\ current' \in {"timeout", "challenge", "none"} /\ others' \in [{"timeout", "challenge"} -> Nat]
           /\ \A q \in {"timeout", "challenge"} :
                  q # p /\ (current = q \/ others[q] > 0) => current' = q \/ others'[q] > 0
BY DEF Heartbeats!Fires, Heartbeats!Take, Heartbeats!None, TimersOK

\* A cancelled timer, or one that could not be, leaves the types.
LEMMA CancelKeeps ==
    ASSUME TimersOK, Heartbeats!Cancel
    PROVE  current' \in {"timeout", "challenge", "none"} /\ others' \in [{"timeout", "challenge"} -> Nat]
<1>1. Heartbeats!LetGo \in [{"timeout", "challenge"} -> Nat] /\ others \in [{"timeout", "challenge"} -> Nat]
  BY LetGoKeeps DEF TimersOK
<1> QED
  BY <1>1 DEF Heartbeats!Cancel, Heartbeats!None

\* A session that is over owes nothing.
LEMMA StopKeeps ==
    ASSUME Heartbeats!StopSession, TimersOK', answering' \in BOOLEAN PROVE BeatInv'
<1>1. /\ life' = "over" /\ awaiting' = FALSE
      /\ pending' = 0 /\ unanswered' = 0 /\ retries' = 0
  BY DEF Heartbeats!StopSession
<1>2. NumbersOK'
  BY <1>1, HeartbeatAssumption DEF NumbersOK
<1> QED
  BY <1>1, <1>2 DEF BeatInv, SwitchesOK, ChallengeDue, TimeoutDue, Retried

\* A challenge that is sent is pending, and its timeout is due.
LEMMA SendKeeps ==
    ASSUME BeatInv, NEW left \in [{"timeout", "challenge", "sendChallenge"} -> Nat],
           Heartbeats!SendChallenge(left), UNCHANGED <<life, answering>>,
           current' \in {"timeout", "challenge", "none"}, others' \in [{"timeout", "challenge"} -> Nat]
    PROVE  BeatInv'
<1>1. NumbersOK /\ TimersOK /\ SwitchesOK
  BY DEF BeatInv
<1>2. CASE life # "on"
  <2>1. calls' = left /\ UNCHANGED <<pending, unanswered, retries, awaiting>>
    BY <1>2 DEF Heartbeats!SendChallenge, Heartbeats!state
  <2>2. NumbersOK' /\ TimersOK'
    BY <1>1, <2>1 DEF NumbersOK, TimersOK
  <2>3. Retried'
    BY <1>2, <2>1 DEF BeatInv, Retried
  <2>8. ChallengeDue' /\ TimeoutDue'
    BY <1>2 DEF ChallengeDue, TimeoutDue
  <2>9. SwitchesOK'
    BY <1>1, <2>1 DEF SwitchesOK
  <2> QED
    BY <1>2, <2>2, <2>3, <2>8, <2>9 DEF BeatInv
<1>3. CASE life = "on"
  <2>1. /\ pending' = IF pending < MaxChallenges THEN pending + 1 ELSE pending
        /\ unanswered' = IF unanswered <= MaxChallenges THEN unanswered + 1 ELSE unanswered
        /\ retries' = retries /\ calls' = Heartbeats!Add(left, "timeout")
    BY <1>3 DEF Heartbeats!SendChallenge, Heartbeats!Counted
  <2>2. awaiting' = TRUE
    BY <1>3 DEF Heartbeats!SendChallenge
  <2>3. NumbersOK' /\ pending' > 0
    BY <1>1, <2>1, HeartbeatAssumption DEF NumbersOK
  <2>4. TimersOK' /\ calls'["timeout"] > 0
    BY <1>1, <2>1, CallAdded DEF TimersOK
  <2>5. ChallengeDue' /\ TimeoutDue'
    BY <2>3, <2>4 DEF ChallengeDue, TimeoutDue, Due, NumbersOK
  <2>6. Retried'
    BY <1>3, <2>1 DEF BeatInv, Retried
  <2>9. SwitchesOK'
    BY <1>1, <2>2 DEF SwitchesOK
  <2> QED
    BY <2>3, <2>4, <2>5, <2>6, <2>9 DEF BeatInv
<1> QED
  BY <1>2, <1>3

\* A timeout finds nothing awaited, gives the session up, or has the challenge sent again.
LEMMA TimeoutKeeps == ASSUME BeatInv, Heartbeats!Timeout PROVE BeatInv'
<1>1. NumbersOK /\ TimersOK /\ SwitchesOK
  BY DEF BeatInv
<1>2. /\ current' \in {"timeout", "challenge", "none"} /\ others' \in [{"timeout", "challenge"} -> Nat]
      /\ current = "challenge" \/ others["challenge"] > 0 => current' = "challenge" \/ others'["challenge"] > 0
  BY <1>1, FiresKeeps DEF Heartbeats!Timeout
<1>3. answering' = answering
  BY DEF Heartbeats!Timeout
<1>4. ASSUME life # "on" \/ ~awaiting, UNCHANGED <<life, pending, unanswered, retries, awaiting, calls>>
      PROVE  BeatInv'
  <2>1. NumbersOK' /\ TimersOK'
    BY <1>1, <1>2, <1>4 DEF NumbersOK, TimersOK
  <2>2. ChallengeDue'
    BY <1>2, <1>4 DEF BeatInv, ChallengeDue, Due
  <2>3. TimeoutDue' /\ Retried'
    BY <1>4 DEF BeatInv, TimeoutDue, Retried
  <2>9. SwitchesOK'
    BY <1>1, <1>3, <1>4 DEF SwitchesOK
  <2> QED
    BY <2>1, <2>2, <2>3, <2>9 DEF BeatInv
<1>5. ASSUME Heartbeats!StopSession, UNCHANGED calls PROVE BeatInv'
  <2>1. TimersOK'
    BY <1>1, <1>2, <1>5 DEF TimersOK
  <2>2. answering' \in BOOLEAN
    BY <1>1, <1>3 DEF SwitchesOK
  <2> QED
    BY <1>5, <2>1, <2>2, StopKeeps
<1>6. ASSUME life = "on", retries + 1 < MaxRetries, retries' = retries + 1, awaiting' = FALSE,
             calls' = Heartbeats!Add(calls, "sendChallenge"), UNCHANGED <<life, pending, unanswered>>
      PROVE  BeatInv'
  <2>1. NumbersOK'
    BY <1>1, <1>6, HeartbeatAssumption DEF NumbersOK
  <2>2. TimersOK' /\ calls'["challenge"] = calls["challenge"]
    BY <1>1, <1>2, <1>6, CallAdded DEF TimersOK
  <2>3. ChallengeDue'
    BY <1>2, <1>6, <2>2 DEF BeatInv, ChallengeDue, Due
  <2>4. TimeoutDue'
    BY <1>6 DEF TimeoutDue
  <2>5. Retried'
    BY <1>1, <1>6 DEF Retried
  <2>9. SwitchesOK'
    BY <1>1, <1>3, <1>6 DEF SwitchesOK
  <2> QED
    BY <2>1, <2>2, <2>3, <2>4, <2>5, <2>9 DEF BeatInv
<1> QED
  BY <1>4, <1>5, <1>6, Zenon DEF Heartbeats!Timeout, Heartbeats!state

\* An answer ends what was awaited; if nothing is left to answer, the next challenge is due.
LEMMA AnswerKeeps == ASSUME BeatInv, Heartbeats!Answer PROVE BeatInv'
<1>1. NumbersOK /\ TimersOK /\ SwitchesOK
  BY DEF BeatInv
<1>2. life = "on" /\ unanswered > 0 /\ answering' = answering
  BY DEF Heartbeats!Answer
<1>3. ASSUME Heartbeats!StopSession, Heartbeats!Cancel, UNCHANGED calls PROVE BeatInv'
  <2>1. current' \in {"timeout", "challenge", "none"} /\ others' \in [{"timeout", "challenge"} -> Nat]
    BY <1>1, <1>3, CancelKeeps
  <2>2. TimersOK'
    BY <1>1, <1>3, <2>1 DEF TimersOK
  <2>3. answering' \in BOOLEAN
    BY <1>1, <1>2 DEF SwitchesOK
  <2> QED
    BY <1>3, <2>2, <2>3, StopKeeps
<1>4. ASSUME unanswered = pending, pending' = pending - 1, unanswered' = unanswered - 1, awaiting' = FALSE,
             IF awaiting THEN retries' = 0 /\ Heartbeats!Cancel ELSE UNCHANGED <<retries, current, others>>,
             calls' = IF Heartbeats!GoesOn THEN Heartbeats!Add(calls, "challenge") ELSE calls,
             UNCHANGED life
      PROVE  BeatInv'
  <2>1. /\ retries' \in {retries, 0}
        /\ current' \in {"timeout", "challenge", "none"} /\ others' \in [{"timeout", "challenge"} -> Nat]
    BY <1>1, <1>4, CancelKeeps DEF TimersOK
  <2>2. NumbersOK'
    BY <1>1, <1>2, <1>4, <2>1, HeartbeatAssumption DEF NumbersOK
  <2>3. /\ calls' \in [{"timeout", "challenge", "sendChallenge"} -> Nat]
        /\ pending = 1 => calls'["challenge"] > 0
    BY <1>1, <1>4, CallAdded DEF Heartbeats!GoesOn, TimersOK
  <2>4. TimersOK'
    BY <2>1, <2>3 DEF TimersOK
  <2>5. ChallengeDue'
    BY <1>1, <1>2, <1>4, <2>3 DEF ChallengeDue, Due, NumbersOK
  <2>6. TimeoutDue'
    BY <1>4 DEF TimeoutDue
  <2>7. Retried'
    BY <1>2, <1>4, <2>1, HeartbeatAssumption DEF BeatInv, Retried
  <2>9. SwitchesOK'
    BY <1>1, <1>2, <1>4 DEF SwitchesOK
  <2> QED
    BY <2>2, <2>4, <2>5, <2>6, <2>7, <2>9 DEF BeatInv
<1> QED
  BY <1>3, <1>4, Zenon DEF Heartbeats!Answer

\* Every step keeps it.
LEMMA BeatStep == BeatInv /\ [Heartbeats!Next]_heartbeat => BeatInv'
<1> SUFFICES ASSUME BeatInv, [Heartbeats!Next]_heartbeat PROVE BeatInv'
  OBVIOUS
<1>1. NumbersOK /\ TimersOK /\ SwitchesOK
  BY DEF BeatInv
<1>2. ASSUME life' = "on" \/ life' = life, answering' \in BOOLEAN, TimersOK', ChallengeDue', TimeoutDue',
             UNCHANGED <<pending, unanswered, retries, awaiting>>
      PROVE  BeatInv'
  <2>1. NumbersOK'
    BY <1>1, <1>2 DEF NumbersOK
  <2>2. Retried'
    BY <1>2, HeartbeatAssumption DEF BeatInv, Retried
  <2>9. SwitchesOK'
    BY <1>1, <1>2 DEF SwitchesOK
  <2> QED
    BY <1>2, <2>1, <2>2, <2>9 DEF BeatInv
<1>3. CASE Heartbeats!StartSession
  <2>1. /\ life = "new" /\ life' = "on" /\ calls' = Heartbeats!Add(calls, "challenge")
        /\ UNCHANGED <<answering, pending, unanswered, retries, awaiting, current, others>>
    BY <1>3 DEF Heartbeats!StartSession, Heartbeats!state
  <2>2. TimersOK' /\ calls'["challenge"] > 0
    BY <1>1, <2>1, CallAdded DEF TimersOK
  <2>3. ChallengeDue'
    BY <2>2 DEF ChallengeDue, Due
  <2>4. TimeoutDue'
    BY <2>1 DEF BeatInv, Retried, TimeoutDue
  <2>5. answering' \in BOOLEAN
    BY <1>1, <2>1 DEF SwitchesOK
  <2> QED
    BY <1>2, <2>1, <2>2, <2>3, <2>4, <2>5
<1>4. CASE Heartbeats!Disconnect
  <2>1. Heartbeats!StopSession /\ Heartbeats!Cancel /\ calls' = calls /\ answering' = answering
    BY <1>4 DEF Heartbeats!Disconnect
  <2>2. current' \in {"timeout", "challenge", "none"} /\ others' \in [{"timeout", "challenge"} -> Nat]
    BY <1>1, <2>1, CancelKeeps
  <2>3. TimersOK'
    BY <1>1, <2>1, <2>2 DEF TimersOK
  <2>4. answering' \in BOOLEAN
    BY <1>1, <2>1 DEF SwitchesOK
  <2> QED
    BY <2>1, <2>3, <2>4, StopKeeps
<1>5. ASSUME NEW p \in Heartbeats!Purpose, Heartbeats!Schedule(p) PROVE BeatInv'
  <2>1. p \in {"timeout", "challenge"}
    BY DEF Heartbeats!Purpose
  <2>2. /\ calls[p] > 0 /\ calls' = Heartbeats!Take(calls, p)
        /\ UNCHANGED <<life, answering, pending, unanswered, retries, awaiting>>
    BY <1>5 DEF Heartbeats!Schedule, Heartbeats!state
  <2>3. /\ calls' \in [{"timeout", "challenge", "sendChallenge"} -> Nat]
        /\ \A q \in {"timeout", "challenge"} : q # p => calls'[q] = calls[q]
    BY <1>1, <2>1, <2>2, CallTaken
  <2>6. answering' \in BOOLEAN
    BY <1>1, <2>2 DEF SwitchesOK
  <2>4. CASE life # "on"
    <3>1. UNCHANGED <<current, others>>
      BY <1>5, <2>4 DEF Heartbeats!Schedule
    <3>2. TimersOK'
      BY <1>1, <2>3, <3>1 DEF TimersOK
    <3>3. ChallengeDue' /\ TimeoutDue'
      BY <2>2, <2>4 DEF ChallengeDue, TimeoutDue
    <3> QED
      BY <1>2, <2>2, <2>6, <3>2, <3>3
  <2>5. CASE life = "on"
    <3>1. current' = p /\ others' = Heartbeats!LetGo
      BY <1>5, <2>5 DEF Heartbeats!Schedule
    <3>2. TimersOK'
      BY <1>1, <2>1, <2>3, <3>1, LetGoKeeps DEF TimersOK
    <3>3. \A q \in {"timeout", "challenge"} : Due(q) => Due(q)'
      BY <1>1, <2>1, <2>3, <3>1, LetGoKeeps DEF Due
    <3>4. ChallengeDue' /\ TimeoutDue'
      BY <2>2, <3>3 DEF BeatInv, ChallengeDue, TimeoutDue
    <3> QED
      BY <1>2, <2>2, <2>6, <3>2, <3>4
  <2> QED
    BY <2>4, <2>5
<1>6. CASE Heartbeats!NextChallenge
  <2>1. calls \in [{"timeout", "challenge", "sendChallenge"} -> Nat]
    BY <1>1 DEF TimersOK
  <2>2. Heartbeats!Fires("challenge") /\ Heartbeats!SendChallenge(calls) /\ UNCHANGED <<life, answering>>
    BY <1>6 DEF Heartbeats!NextChallenge
  <2> QED
    BY <1>1, <2>1, <2>2, FiresKeeps, SendKeeps
<1>7. CASE Heartbeats!SendAgain
  <2>1. /\ calls["sendChallenge"] > 0
        /\ Heartbeats!SendChallenge(Heartbeats!Take(calls, "sendChallenge"))
        /\ UNCHANGED <<life, answering, current, others>>
    BY <1>7 DEF Heartbeats!SendAgain
  <2>2. Heartbeats!Take(calls, "sendChallenge") \in [{"timeout", "challenge", "sendChallenge"} -> Nat]
    BY <1>1, <2>1, CallTaken
  <2>3. current' \in {"timeout", "challenge", "none"} /\ others' \in [{"timeout", "challenge"} -> Nat]
    BY <1>1, <2>1 DEF TimersOK
  <2> QED
    BY <2>1, <2>2, <2>3, SendKeeps
<1>8. CASE Heartbeats!FallSilent
  <2>1. answering' = FALSE /\ UNCHANGED <<life, pending, unanswered, retries, awaiting, current, others, calls>>
    BY <1>8 DEF Heartbeats!FallSilent, Heartbeats!state
  <2>2. TimersOK'
    BY <1>1, <2>1 DEF TimersOK
  <2>3. ChallengeDue' /\ TimeoutDue'
    BY <2>1 DEF BeatInv, ChallengeDue, TimeoutDue, Due
  <2> QED
    BY <1>2, <2>1, <2>2, <2>3
<1>9. CASE UNCHANGED heartbeat
  <2>1. UNCHANGED <<life, answering, pending, unanswered, retries, awaiting, current, others, calls>>
    BY <1>9 DEF heartbeat
  <2>2. TimersOK'
    BY <1>1, <2>1 DEF TimersOK
  <2>3. ChallengeDue' /\ TimeoutDue'
    BY <2>1 DEF BeatInv, ChallengeDue, TimeoutDue, Due
  <2>4. answering' \in BOOLEAN
    BY <1>1, <2>1 DEF SwitchesOK
  <2> QED
    BY <1>2, <2>1, <2>2, <2>3, <2>4
<1> QED
  BY <1>3, <1>4, <1>5, <1>6, <1>7, <1>8, <1>9, TimeoutKeeps, AnswerKeeps DEF Heartbeats!Next

\* Whatever part of the instance runs, the heartbeat steps as it does alone.
LEMMA BeatSteps == MCSpec => []BeatInv
<1>1. MCInit => BeatInv
  BY BeatInit DEF MCInit
<1>2. [MCNext]_<<part, locks, sending, link, batcher, heartbeat>> => [Heartbeats!Next]_heartbeat
  BY DEF MCNext, LocksNext, SendingNext, LinkNext, BatcherNext, HeartbeatNext, heartbeat
<1> QED
  BY <1>1, <1>2, BeatStep, PTL DEF MCSpec

\* A session without challenges to answer will be sent one: a late answer, a timeout that
\* finds nothing awaited or a timer that is replaced does not break the chain.
THEOREM ChallengeDueHolds == MCSpec => []ChallengeDue
<1>1. BeatInv => ChallengeDue
  BY DEF BeatInv
<1> QED
  BY <1>1, BeatSteps, PTL

\* While an answer is awaited its timeout is to come, so that a client that falls silent
\* is dropped; and a session has been given up before it has had all its retries.
THEOREM TimeoutDueHolds == MCSpec => [](TimeoutDue /\ Retried)
<1>1. BeatInv => TimeoutDue /\ Retried
  BY DEF BeatInv
<1> QED
  BY <1>1, BeatSteps, PTL

-----------------------------------------------------------------------------
\* Lists, as handlers are lists of what they lock and release.

\* Every set of naturals that has an element has a least one.
LEMMA LeastNatural ==
    ASSUME NEW T \in SUBSET Nat, T # {}
    PROVE  \E n \in T : \A m \in T : n <= m
<1> DEFINE Less == {p \in Nat \X Nat : p[1] < p[2]}
<1>1. IsWellFoundedOn(Less, Nat)
  BY NatLessThanWellFounded DEF OpToRel
<1>2. \A m, n \in Nat : m < n => <<m, n>> \in Less
  OBVIOUS
<1> HIDE DEF Less
<1>3. PICK n \in T : \A m \in T : <<m, n>> \notin Less
  BY <1>1, WFMin
<1>4. \A m \in T : n <= m
  <2> TAKE m \in T
  <2>1. m \in Nat /\ n \in Nat /\ ~(m < n)
    BY <1>2, <1>3
  <2> QED
    BY <2>1
<1> QED
  BY <1>4

\* What two handlers one after the other are, from the places of what they are.
LEMMA ConcatIs ==
    ASSUME NEW S, NEW s \in Seq(S), NEW r \in Seq(S), NEW q \in Seq(S), Len(q) = Len(s) + Len(r),
           \A i \in 1 .. Len(s) : q[i] = s[i], \A i \in 1 .. Len(r) : q[Len(s) + i] = r[i]
    PROVE  s \o r = q
<1> DEFINE c == s \o r
<1>1. Len(s) \in Nat /\ Len(r) \in Nat
  BY LenProperties
<1>2. c \in Seq(S) /\ Len(c) = Len(s) + Len(r)
  BY ConcatProperties
<1>3. \A i \in 1 .. Len(s) + Len(r) : c[i] = IF i <= Len(s) THEN s[i] ELSE r[i - Len(s)]
  BY ConcatProperties
<1> HIDE DEF c
<1>4. ASSUME NEW i \in 1 .. Len(c) PROVE c[i] = q[i]
  <2>1. CASE i <= Len(s)
    BY <1>1, <1>2, <1>3, <2>1
  <2>2. CASE i > Len(s)
    <3>1. i - Len(s) \in 1 .. Len(r) /\ Len(s) + (i - Len(s)) = i /\ i \in 1 .. Len(s) + Len(r) /\ ~(i <= Len(s))
      BY <1>1, <1>2, <2>2
    <3> QED
      BY <1>3, <3>1
  <2> QED
    BY <1>1, <1>2, <2>1, <2>2
<1>5. c = q
  BY <1>2, <1>4, SeqEqual
<1> QED
  BY <1>5 DEF c

\* Lists of steps one after the other, in full.
LEMMA ThreeAndOne ==
    ASSUME NEW x1, NEW x2, NEW x3, NEW x4
    PROVE  <<x1, x2, x3>> \o <<x4>> = <<x1, x2, x3, x4>>
<1> DEFINE S == {x1, x2, x3, x4}
           s == <<x1, x2, x3>>
           r == <<x4>>
           q == <<x1, x2, x3, x4>>
<1>1. s \in Seq(S) /\ r \in Seq(S) /\ q \in Seq(S) /\ Len(s) = 3 /\ Len(r) = 1 /\ Len(q) = 4
  OBVIOUS
<1>2. (\A i \in 1 .. 3 : q[i] = s[i]) /\ \A i \in 1 .. 1 : q[3 + i] = r[i]
  OBVIOUS
<1> HIDE DEF s, r, q, S
<1>3. Len(q) = Len(s) + Len(r)
  BY <1>1
<1>4. (\A i \in 1 .. Len(s) : q[i] = s[i]) /\ \A i \in 1 .. Len(r) : q[Len(s) + i] = r[i]
  BY <1>1, <1>2
<1>5. s \o r = q
  BY <1>1, <1>3, <1>4, ConcatIs
<1> QED
  BY <1>5 DEF s, r, q

LEMMA ThreeAndTwo ==
    ASSUME NEW x1, NEW x2, NEW x3, NEW x4, NEW x5
    PROVE  <<x1, x2, x3>> \o <<x4, x5>>
               = <<x1, x2, x3, x4, x5>>
<1> DEFINE S == {x1, x2, x3, x4, x5}
           s == <<x1, x2, x3>>
           r == <<x4, x5>>
           q == <<x1, x2, x3, x4, x5>>
<1>1. s \in Seq(S) /\ r \in Seq(S) /\ q \in Seq(S) /\ Len(s) = 3 /\ Len(r) = 2 /\ Len(q) = 5
  OBVIOUS
<1>2. (\A i \in 1 .. 3 : q[i] = s[i]) /\ \A i \in 1 .. 2 : q[3 + i] = r[i]
  OBVIOUS
<1> HIDE DEF s, r, q, S
<1>3. Len(q) = Len(s) + Len(r)
  BY <1>1
<1>4. (\A i \in 1 .. Len(s) : q[i] = s[i]) /\ \A i \in 1 .. Len(r) : q[Len(s) + i] = r[i]
  BY <1>1, <1>2
<1>5. s \o r = q
  BY <1>1, <1>3, <1>4, ConcatIs
<1> QED
  BY <1>5 DEF s, r, q

LEMMA FiveAndOne ==
    ASSUME NEW x1, NEW x2, NEW x3, NEW x4, NEW x5, NEW x6
    PROVE  <<x1, x2, x3, x4, x5>> \o <<x6>>
               = <<x1, x2, x3, x4, x5, x6>>
<1> DEFINE S == {x1, x2, x3, x4, x5, x6}
           s == <<x1, x2, x3, x4, x5>>
           r == <<x6>>
           q == <<x1, x2, x3, x4, x5, x6>>
<1>1. s \in Seq(S) /\ r \in Seq(S) /\ q \in Seq(S) /\ Len(s) = 5 /\ Len(r) = 1 /\ Len(q) = 6
  OBVIOUS
<1>2. (\A i \in 1 .. 5 : q[i] = s[i]) /\ \A i \in 1 .. 1 : q[5 + i] = r[i]
  OBVIOUS
<1> HIDE DEF s, r, q, S
<1>3. Len(q) = Len(s) + Len(r)
  BY <1>1
<1>4. (\A i \in 1 .. Len(s) : q[i] = s[i]) /\ \A i \in 1 .. Len(r) : q[Len(s) + i] = r[i]
  BY <1>1, <1>2
<1>5. s \o r = q
  BY <1>1, <1>3, <1>4, ConcatIs
<1> QED
  BY <1>5 DEF s, r, q

LEMMA FiveAndThree ==
    ASSUME NEW x1, NEW x2, NEW x3, NEW x4, NEW x5, NEW x6, NEW x7, NEW x8
    PROVE  <<x1, x2, x3, x4, x5>> \o <<x6, x7, x8>>
               = <<x1, x2, x3, x4, x5, x6, x7, x8>>
<1> DEFINE S == {x1, x2, x3, x4, x5, x6, x7, x8}
           s == <<x1, x2, x3, x4, x5>>
           r == <<x6, x7, x8>>
           q == <<x1, x2, x3, x4, x5, x6, x7, x8>>
<1>1. s \in Seq(S) /\ r \in Seq(S) /\ q \in Seq(S) /\ Len(s) = 5 /\ Len(r) = 3 /\ Len(q) = 8
  OBVIOUS
<1>2. (\A i \in 1 .. 5 : q[i] = s[i]) /\ \A i \in 1 .. 3 : q[5 + i] = r[i]
  OBVIOUS
<1> HIDE DEF s, r, q, S
<1>3. Len(q) = Len(s) + Len(r)
  BY <1>1
<1>4. (\A i \in 1 .. Len(s) : q[i] = s[i]) /\ \A i \in 1 .. Len(r) : q[Len(s) + i] = r[i]
  BY <1>1, <1>2
<1>5. s \o r = q
  BY <1>1, <1>3, <1>4, ConcatIs
<1> QED
  BY <1>5 DEF s, r, q

LEMMA EightAndOne ==
    ASSUME NEW x1, NEW x2, NEW x3, NEW x4, NEW x5, NEW x6, NEW x7, NEW x8, NEW x9
    PROVE  <<x1, x2, x3, x4, x5, x6, x7, x8>> \o <<x9>>
               = <<x1, x2, x3, x4, x5, x6, x7, x8, x9>>
<1> DEFINE S == {x1, x2, x3, x4, x5, x6, x7, x8, x9}
           s == <<x1, x2, x3, x4, x5, x6, x7, x8>>
           r == <<x9>>
           q == <<x1, x2, x3, x4, x5, x6, x7, x8, x9>>
<1>1. s \in Seq(S) /\ r \in Seq(S) /\ q \in Seq(S) /\ Len(s) = 8 /\ Len(r) = 1 /\ Len(q) = 9
  OBVIOUS
<1>2. (\A i \in 1 .. 8 : q[i] = s[i]) /\ \A i \in 1 .. 1 : q[8 + i] = r[i]
  OBVIOUS
<1> HIDE DEF s, r, q, S
<1>3. Len(q) = Len(s) + Len(r)
  BY <1>1
<1>4. (\A i \in 1 .. Len(s) : q[i] = s[i]) /\ \A i \in 1 .. Len(r) : q[Len(s) + i] = r[i]
  BY <1>1, <1>2
<1>5. s \o r = q
  BY <1>1, <1>3, <1>4, ConcatIs
<1> QED
  BY <1>5 DEF s, r, q

LEMMA NineAndOne ==
    ASSUME NEW x1, NEW x2, NEW x3, NEW x4, NEW x5, NEW x6, NEW x7, NEW x8, NEW x9, NEW x10
    PROVE  <<x1, x2, x3, x4, x5, x6, x7, x8, x9>> \o <<x10>>
               = <<x1, x2, x3, x4, x5, x6, x7, x8, x9, x10>>
<1> DEFINE S == {x1, x2, x3, x4, x5, x6, x7, x8, x9, x10}
           s == <<x1, x2, x3, x4, x5, x6, x7, x8, x9>>
           r == <<x10>>
           q == <<x1, x2, x3, x4, x5, x6, x7, x8, x9, x10>>
<1>1. s \in Seq(S) /\ r \in Seq(S) /\ q \in Seq(S) /\ Len(s) = 9 /\ Len(r) = 1 /\ Len(q) = 10
  OBVIOUS
<1>2. (\A i \in 1 .. 9 : q[i] = s[i]) /\ \A i \in 1 .. 1 : q[9 + i] = r[i]
  OBVIOUS
<1> HIDE DEF s, r, q, S
<1>3. Len(q) = Len(s) + Len(r)
  BY <1>1
<1>4. (\A i \in 1 .. Len(s) : q[i] = s[i]) /\ \A i \in 1 .. Len(r) : q[Len(s) + i] = r[i]
  BY <1>1, <1>2
<1>5. s \o r = q
  BY <1>1, <1>3, <1>4, ConcatIs
<1> QED
  BY <1>5 DEF s, r, q

LEMMA EightAndTwo ==
    ASSUME NEW x1, NEW x2, NEW x3, NEW x4, NEW x5, NEW x6, NEW x7, NEW x8, NEW x9, NEW x10
    PROVE  <<x1, x2, x3, x4, x5, x6, x7, x8>> \o <<x9, x10>>
               = <<x1, x2, x3, x4, x5, x6, x7, x8, x9, x10>>
<1> DEFINE S == {x1, x2, x3, x4, x5, x6, x7, x8, x9, x10}
           s == <<x1, x2, x3, x4, x5, x6, x7, x8>>
           r == <<x9, x10>>
           q == <<x1, x2, x3, x4, x5, x6, x7, x8, x9, x10>>
<1>1. s \in Seq(S) /\ r \in Seq(S) /\ q \in Seq(S) /\ Len(s) = 8 /\ Len(r) = 2 /\ Len(q) = 10
  OBVIOUS
<1>2. (\A i \in 1 .. 8 : q[i] = s[i]) /\ \A i \in 1 .. 2 : q[8 + i] = r[i]
  OBVIOUS
<1> HIDE DEF s, r, q, S
<1>3. Len(q) = Len(s) + Len(r)
  BY <1>1
<1>4. (\A i \in 1 .. Len(s) : q[i] = s[i]) /\ \A i \in 1 .. Len(r) : q[Len(s) + i] = r[i]
  BY <1>1, <1>2
<1>5. s \o r = q
  BY <1>1, <1>3, <1>4, ConcatIs
<1> QED
  BY <1>5 DEF s, r, q

LEMMA FourLists ==
    ASSUME NEW x1, NEW x2, NEW x3, NEW x4, NEW x5, NEW x6, NEW x7, NEW x8, NEW x9, NEW x10
    PROVE  <<x1, x2, x3>> \o <<x4, x5>> \o <<x6, x7, x8>> \o <<x9, x10>>
               = <<x1, x2, x3, x4, x5, x6, x7, x8, x9, x10>>
<1>1. <<x1, x2, x3>> \o <<x4, x5>> = <<x1, x2, x3, x4, x5>>
  BY ThreeAndTwo
<1>2. <<x1, x2, x3, x4, x5>> \o <<x6, x7, x8>> = <<x1, x2, x3, x4, x5, x6, x7, x8>>
  BY FiveAndThree
<1>3. <<x1, x2, x3, x4, x5, x6, x7, x8>> \o <<x9, x10>> = <<x1, x2, x3, x4, x5, x6, x7, x8, x9, x10>>
  BY EightAndTwo
<1> QED
  BY <1>1, <1>2, <1>3, Zenon

LEMMA ThreeLists ==
    ASSUME NEW x1, NEW x2, NEW x3, NEW x4, NEW x5, NEW x6
    PROVE  <<x1, x2, x3>> \o <<x4, x5>> \o <<x6>> = <<x1, x2, x3, x4, x5, x6>>
<1>1. <<x1, x2, x3>> \o <<x4, x5>> = <<x1, x2, x3, x4, x5>>
  BY ThreeAndTwo
<1>2. <<x1, x2, x3, x4, x5>> \o <<x6>> = <<x1, x2, x3, x4, x5, x6>>
  BY FiveAndOne
<1> QED
  BY <1>1, <1>2, Zenon

LEMMA FiveLists ==
    ASSUME NEW x1, NEW x2, NEW x3, NEW x4, NEW x5, NEW x6, NEW x7, NEW x8, NEW x9, NEW x10
    PROVE  <<x1, x2, x3>> \o <<x4, x5>> \o <<x6, x7, x8>> \o <<x9>> \o <<x10>>
               = <<x1, x2, x3, x4, x5, x6, x7, x8, x9, x10>>
<1>1. <<x1, x2, x3>> \o <<x4, x5>> = <<x1, x2, x3, x4, x5>>
  BY ThreeAndTwo
<1>2. <<x1, x2, x3, x4, x5>> \o <<x6, x7, x8>> = <<x1, x2, x3, x4, x5, x6, x7, x8>>
  BY FiveAndThree
<1>3. <<x1, x2, x3, x4, x5, x6, x7, x8>> \o <<x9>> = <<x1, x2, x3, x4, x5, x6, x7, x8, x9>>
  BY EightAndOne
<1>4. <<x1, x2, x3, x4, x5, x6, x7, x8, x9>> \o <<x10>> = <<x1, x2, x3, x4, x5, x6, x7, x8, x9, x10>>
  BY NineAndOne
<1> QED
  BY <1>1, <1>2, <1>3, <1>4, Zenon

-----------------------------------------------------------------------------
\* The locks of the handlers that take at most one account, and first.
AccountsFirst == {"MatchStart", "RoundsStart", "Command", "PlazaLeave", "AccountChanged"}

\* Every lock there is, and what a handler does with it.
Maps     == {Locks!Accounts, Locks!Rooms, Locks!Plazas}
LockSet  == {Locks!Account(p) : p \in Player} \cup {Locks!Room, Locks!Plaza, Locks!RoomIds} \cup Maps
LockStep == [op : {"lock", "unlock"}, lock : LockSet, mode : {"shared", "unique", "none"}]
Held     == [lock : LockSet, mode : {"shared", "unique", "none"}]

\* The order in which locks may be waited for.  To write a map comes first, to read it
\* after the accounts: who holds an account may look a map up, and who has a map for
\* reading may wait for an account, since readers let each other in.
WaitRank(x) ==
    IF x.lock \in Maps THEN IF x.mode = "unique" THEN 0 ELSE 2
    ELSE IF x.lock \in {Locks!Room, Locks!Plaza} THEN 3 ELSE 1

\* Who holds x may wait for what ranks higher.
HeldRank(x) ==
    IF x.lock \in Maps THEN IF x.mode = "unique" THEN 3 ELSE 0
    ELSE IF x.lock \in {Locks!Room, Locks!Plaza} THEN 3 ELSE 1

\* The steps from a to before b of the handler s release l.
Released(l, s, a, b) == \E k \in a .. b - 1 : s[k].op = "unlock" /\ s[k].lock = l

\* Whoever holds H and has s before it waits in the order of the ranks, and has nothing
\* in the end.
InOrder(H, s) ==
    \A j \in 1 .. Len(s) : s[j].op = "lock" =>
        /\ \A h \in H : Released(h.lock, s, 1, j) \/ HeldRank(h) < WaitRank(s[j])
        /\ \A i \in 1 .. j - 1 : s[i].op = "lock" =>
               Released(s[i].lock, s, i + 1, j) \/ HeldRank(s[i]) < WaitRank(s[j])
LeavesNothing(H, s) ==
    /\ \A h \in H : Released(h.lock, s, 1, Len(s) + 1)
    /\ \A i \in 1 .. Len(s) : s[i].op = "lock" => Released(s[i].lock, s, i + 1, Len(s) + 1)
Fits(H, s) == InOrder(H, s) /\ LeavesNothing(H, s)

LockInv ==
    /\ script \in [Locks!Thread -> Seq(LockStep)]
    /\ holds \in [Locks!Thread -> SUBSET Held]
    /\ \A t \in Locks!Thread : Fits(holds[t], script[t])

\* A lock that keeps another from being granted allows no more than the other's rank.
LEMMA ConflictRanks ==
    ASSUME NEW w \in LockStep, NEW h \in Held, w.op = "lock", w.lock = h.lock,
           "unique" \in {h.mode, w.mode}
    PROVE  WaitRank(w) <= HeldRank(h)
BY DEF LockStep, Held, WaitRank, HeldRank

LEMMA RanksBounded ==
    ASSUME NEW w \in LockStep
    PROVE  WaitRank(w) \in 0 .. 3
BY DEF WaitRank

\* What is taken is the rest of the handler.
LEMMA TailOf ==
    ASSUME NEW s \in Seq(LockStep), s # <<>>
    PROVE  /\ Tail(s) \in Seq(LockStep) /\ Head(s) = s[1] /\ Head(s) \in LockStep
           /\ Len(s) \in Nat \ {0} /\ Len(Tail(s)) = Len(s) - 1
           /\ \A i \in 1 .. Len(Tail(s)) : Tail(s)[i] = s[i + 1]
<1>1. Len(s) \in Nat \ {0}
  BY EmptySeq, LenProperties
<1> QED
  BY <1>1, HeadTailProperties

\* What is released after the first step is released in the rest.
LEMMA ReleasedLater ==
    ASSUME NEW s \in Seq(LockStep), s # <<>>, NEW l, NEW a \in Nat, a > 1, NEW b \in 0 .. Len(s) + 1,
           Released(l, s, a, b)
    PROVE  Released(l, Tail(s), a - 1, b - 1)
<1>1. PICK k \in a .. b - 1 : s[k].op = "unlock" /\ s[k].lock = l
  BY DEF Released
<1>2. Len(s) \in Nat \ {0} /\ Len(Tail(s)) = Len(s) - 1
  BY TailOf
<1>3. k \in Nat /\ a <= k /\ k <= b - 1 /\ k - 1 \in 1 .. Len(Tail(s)) /\ k - 1 \in (a - 1) .. (b - 1) - 1
  BY <1>1, <1>2
<1>4. Tail(s)[k - 1] = s[k]
  BY <1>3, TailOf
<1> QED
  BY <1>1, <1>3, <1>4 DEF Released

\* A handler that fits fits again when its first step is done, with what is held then.
LEMMA StepKeepsFit ==
    ASSUME NEW H, NEW K, NEW s \in Seq(LockStep), s # <<>>, Fits(H, s),
           \A h \in K :
               \/ h \in H /\ (s[1].op # "unlock" \/ s[1].lock # h.lock)
               \/ s[1].op = "lock" /\ h.lock = s[1].lock /\ HeldRank(h) = HeldRank(s[1])
    PROVE  Fits(K, Tail(s))
<1> DEFINE r == Tail(s)
<1>1. /\ Len(s) \in Nat \ {0} /\ Len(r) = Len(s) - 1
      /\ \A i \in 1 .. Len(r) : r[i] = s[i + 1]
  BY TailOf
<1>2. ASSUME NEW l, NEW b \in 1 .. Len(s) + 1, Released(l, s, 1, b), s[1].op # "unlock" \/ s[1].lock # l
      PROVE  Released(l, s, 2, b)
  BY <1>2 DEF Released
<1>3. 2 \in Nat /\ 2 > 1 /\ 2 - 1 = 1 /\ 1 + 1 = 2
  OBVIOUS
<1>4. ASSUME NEW l, NEW a \in Nat, a > 1, NEW j \in 1 .. Len(s), Released(l, s, a, j + 1)
      PROVE  Released(l, r, a - 1, j)
  <2>1. j + 1 \in 0 .. Len(s) + 1 /\ (j + 1) - 1 = j
    BY <1>1
  <2> QED
    BY <1>4, <2>1, ReleasedLater
<1> HIDE DEF r
<1>5. InOrder(K, r)
  <2> SUFFICES ASSUME NEW j \in 1 .. Len(r), r[j].op = "lock"
               PROVE  /\ \A h \in K : Released(h.lock, r, 1, j) \/ HeldRank(h) < WaitRank(r[j])
                      /\ \A i \in 1 .. j - 1 : r[i].op = "lock" =>
                             Released(r[i].lock, r, i + 1, j) \/ HeldRank(r[i]) < WaitRank(r[j])
    BY DEF InOrder
  <2>1. j + 1 \in 1 .. Len(s) /\ s[j + 1] = r[j] /\ j \in 1 .. Len(s) /\ 1 \in 1 .. (j + 1) - 1
    BY <1>1
  <2>2. ASSUME NEW h \in K PROVE Released(h.lock, r, 1, j) \/ HeldRank(h) < WaitRank(r[j])
    <3>1. h \in H => Released(h.lock, s, 1, j + 1) \/ HeldRank(h) < WaitRank(r[j])
      BY <2>1 DEF Fits, InOrder
    <3>2. s[1].op = "lock" => Released(s[1].lock, s, 2, j + 1) \/ HeldRank(s[1]) < WaitRank(r[j])
      BY <1>3, <2>1 DEF Fits, InOrder
    <3> DEFINE early == h \in H /\ (s[1].op # "unlock" \/ s[1].lock # h.lock)
               lastly == s[1].op = "lock" /\ h.lock = s[1].lock /\ HeldRank(h) = HeldRank(s[1])
    <3>3. j + 1 \in 1 .. Len(s) + 1
      BY <1>1
    <3>4. CASE early
      <4>1. CASE Released(h.lock, s, 1, j + 1)
        <5>1. Released(h.lock, s, 2, j + 1)
          BY <1>2, <3>3, <3>4, <4>1
        <5> QED
          BY <1>3, <1>4, <2>1, <5>1
      <4> QED
        BY <3>1, <3>4, <4>1
    <3>5. CASE lastly
      <4>1. CASE Released(s[1].lock, s, 2, j + 1)
        BY <1>3, <1>4, <2>1, <3>5, <4>1
      <4> QED
        BY <3>2, <3>5, <4>1
    <3> QED
      BY <3>4, <3>5
  <2>3. ASSUME NEW i \in 1 .. j - 1, r[i].op = "lock"
        PROVE  Released(r[i].lock, r, i + 1, j) \/ HeldRank(r[i]) < WaitRank(r[j])
    <3>1. /\ i + 1 \in 1 .. (j + 1) - 1 /\ i \in 1 .. Len(r)
          /\ i + 2 \in Nat /\ i + 2 > 1 /\ (i + 2) - 1 = i + 1 /\ (i + 1) + 1 = i + 2
      BY <1>1, <2>1
    <3>2. s[i + 1] = r[i]
      BY <1>1, <3>1
    <3>3. Released(r[i].lock, s, i + 2, j + 1) \/ HeldRank(r[i]) < WaitRank(r[j])
      BY <2>1, <2>3, <3>1, <3>2 DEF Fits, InOrder
    <3>4. ASSUME Released(r[i].lock, s, i + 2, j + 1) PROVE Released(r[i].lock, r, (i + 2) - 1, j)
      BY <1>4, <2>1, <3>1, <3>4
    <3> QED
      BY <3>1, <3>3, <3>4
  <2> QED
    BY <2>2, <2>3
<1>6. LeavesNothing(K, r)
  <2>1. Len(r) + 1 = Len(s) /\ Len(s) \in 1 .. Len(s) /\ 1 \in 1 .. Len(s)
    BY <1>1
  <2>2. ASSUME NEW h \in K PROVE Released(h.lock, r, 1, Len(s))
    <3>1. h \in H => Released(h.lock, s, 1, Len(s) + 1)
      BY DEF Fits, LeavesNothing
    <3>2. s[1].op = "lock" => Released(s[1].lock, s, 2, Len(s) + 1)
      BY <1>3, <2>1 DEF Fits, LeavesNothing
    <3>3. \/ h \in H /\ (s[1].op # "unlock" \/ s[1].lock # h.lock)
          \/ s[1].op = "lock" /\ h.lock = s[1].lock
      OBVIOUS
    <3>4. Len(s) + 1 \in 1 .. Len(s) + 1
      BY <1>1
    <3>5. Released(h.lock, s, 2, Len(s) + 1)
      BY <1>2, <3>1, <3>2, <3>3, <3>4
    <3> QED
      BY <1>3, <1>4, <2>1, <3>5
  <2>3. ASSUME NEW i \in 1 .. Len(r), r[i].op = "lock" PROVE Released(r[i].lock, r, i + 1, Len(s))
    <3>1. i + 1 \in 1 .. Len(s) /\ s[i + 1] = r[i] /\ i + 2 \in Nat /\ i + 2 > 1
          /\ (i + 2) - 1 = i + 1 /\ (i + 1) + 1 = i + 2
      BY <1>1
    <3>2. Released(r[i].lock, s, i + 2, Len(s) + 1)
      BY <2>3, <3>1 DEF Fits, LeavesNothing
    <3>3. Released(r[i].lock, r, (i + 2) - 1, Len(s))
      BY <1>4, <2>1, <3>1, <3>2
    <3> QED
      BY <3>1, <3>3
  <2> QED
    BY <2>1, <2>2, <2>3 DEF LeavesNothing
<1> QED
  BY <1>5, <1>6 DEF Fits, r

\* Two handlers that fit alone fit one after the other.
LEMMA ConcatFits ==
    ASSUME NEW s \in Seq(LockStep), NEW r \in Seq(LockStep), Fits({}, s), Fits({}, r)
    PROVE  s \o r \in Seq(LockStep) /\ Fits({}, s \o r)
<1> DEFINE m == Len(s)
           n == Len(r)
           q == s \o r
<1>1. /\ q \in Seq(LockStep) /\ m \in Nat /\ n \in Nat /\ Len(q) = m + n
      /\ \A i \in 1 .. m : q[i] = s[i]
      /\ \A i \in 1 .. n : q[m + i] = r[i]
  <2>1. m \in Nat /\ n \in Nat
    BY LenProperties
  <2>2. q \in Seq(LockStep) /\ Len(q) = m + n
    BY ConcatProperties
  <2>3. \A i \in 1 .. m + n : q[i] = IF i <= m THEN s[i] ELSE r[i - m]
    BY ConcatProperties
  <2>4. \A i \in 1 .. m : i \in 1 .. m + n /\ i <= m
    BY <2>1
  <2>5. \A i \in 1 .. n : m + i \in 1 .. m + n /\ ~(m + i <= m) /\ (m + i) - m = i
    BY <2>1
  <2> HIDE DEF q, m, n
  <2> QED
    BY <2>1, <2>2, <2>3, <2>4, <2>5
<1> HIDE DEF m, n, q
<1>2. ASSUME NEW l, NEW a \in 1 .. m + 1, NEW b \in 1 .. m + 1, Released(l, s, a, b) PROVE Released(l, q, a, b)
  <2>1. PICK k \in a .. b - 1 : s[k].op = "unlock" /\ s[k].lock = l
    BY <1>2 DEF Released
  <2>2. k \in 1 .. m
    BY <1>1
  <2> QED
    BY <1>1, <2>1, <2>2 DEF Released
<1>3. ASSUME NEW l, NEW a \in 1 .. n + 1, NEW b \in 1 .. n + 1, Released(l, r, a, b)
      PROVE  Released(l, q, m + a, m + b)
  <2>1. PICK k \in a .. b - 1 : r[k].op = "unlock" /\ r[k].lock = l
    BY <1>3 DEF Released
  <2>2. k \in 1 .. n /\ m + k \in m + a .. (m + b) - 1
    BY <1>1
  <2> QED
    BY <1>1, <2>1, <2>2 DEF Released
<1>4. ASSUME NEW l, NEW a \in 1 .. m + n + 1, NEW b \in 1 .. m + n + 1, NEW c \in 1 .. m + n + 1, b <= c,
             Released(l, q, a, b)
      PROVE  Released(l, q, a, c)
  <2>1. PICK k \in a .. b - 1 : q[k].op = "unlock" /\ q[k].lock = l
    BY <1>4 DEF Released
  <2>2. k \in a .. c - 1
    BY <1>1, <1>4
  <2> QED
    BY <2>1, <2>2 DEF Released
<1>5. ASSUME NEW i \in 1 .. m, q[i].op = "lock", NEW c \in 1 .. m + n + 1, c > m
      PROVE  Released(q[i].lock, q, i + 1, c)
  <2>1. i + 1 \in 1 .. m + 1 /\ m + 1 \in 1 .. m + 1
    BY <1>1
  <2>2. Released(q[i].lock, q, i + 1, m + 1)
    BY <1>1, <1>2, <1>5, <2>1 DEF Fits, LeavesNothing, m
  <2>3. i + 1 \in 1 .. m + n + 1 /\ m + 1 \in 1 .. m + n + 1 /\ m + 1 <= c
    BY <1>1, <1>5
  <2> QED
    BY <1>4, <2>2, <2>3
<1>6. InOrder({}, q)
  <2> SUFFICES ASSUME NEW j \in 1 .. m + n, q[j].op = "lock", NEW i \in 1 .. j - 1, q[i].op = "lock"
               PROVE  Released(q[i].lock, q, i + 1, j) \/ HeldRank(q[i]) < WaitRank(q[j])
    BY <1>1 DEF InOrder
  <2>1. CASE j <= m
    <3>1. i \in 1 .. m /\ j \in 1 .. m /\ i + 1 \in 1 .. m + 1 /\ j \in 1 .. m + 1
      BY <1>1, <2>1
    <3>2. Released(s[i].lock, s, i + 1, j) \/ HeldRank(s[i]) < WaitRank(s[j])
      BY <1>1, <3>1 DEF Fits, InOrder, m
    <3> QED
      BY <1>1, <1>2, <3>1, <3>2
  <2>2. CASE j > m /\ i <= m
    <3>1. i \in 1 .. m /\ j \in 1 .. m + n + 1
      BY <1>1, <2>2
    <3> QED
      BY <1>5, <2>2, <3>1
  <2>3. CASE j > m /\ i > m
    <3>1. /\ j - m \in 1 .. n /\ i - m \in 1 .. (j - m) - 1 /\ i - m \in 1 .. n
          /\ m + (j - m) = j /\ m + (i - m) = i /\ m + ((i - m) + 1) = i + 1
          /\ (i - m) + 1 \in 1 .. n + 1 /\ j - m \in 1 .. n + 1
      BY <1>1, <2>3
    <3>2. q[j] = r[j - m] /\ q[i] = r[i - m]
      BY <1>1, <3>1
    <3>3. Released(r[i - m].lock, r, (i - m) + 1, j - m) \/ HeldRank(r[i - m]) < WaitRank(r[j - m])
      BY <3>1, <3>2 DEF Fits, InOrder, n
    <3>4. ASSUME Released(r[i - m].lock, r, (i - m) + 1, j - m)
          PROVE  Released(r[i - m].lock, q, m + ((i - m) + 1), m + (j - m))
      BY <1>3, <3>1, <3>4
    <3> QED
      BY <3>1, <3>2, <3>3, <3>4
  <2> QED
    BY <1>1, <2>1, <2>2, <2>3
<1>7. LeavesNothing({}, q)
  <2> SUFFICES ASSUME NEW i \in 1 .. m + n, q[i].op = "lock"
               PROVE  Released(q[i].lock, q, i + 1, m + n + 1)
    BY <1>1 DEF LeavesNothing
  <2>1. CASE i <= m
    <3>1. i \in 1 .. m /\ m + n + 1 \in 1 .. m + n + 1 /\ m + n + 1 > m
      BY <1>1, <2>1
    <3> QED
      BY <1>5, <3>1
  <2>2. CASE i > m
    <3>1. /\ i - m \in 1 .. n /\ m + (i - m) = i /\ m + ((i - m) + 1) = i + 1 /\ m + (n + 1) = m + n + 1
          /\ (i - m) + 1 \in 1 .. n + 1 /\ n + 1 \in 1 .. n + 1
      BY <1>1, <2>2
    <3>2. q[i] = r[i - m]
      BY <1>1, <3>1
    <3>3. Released(r[i - m].lock, r, (i - m) + 1, n + 1)
      BY <3>1, <3>2 DEF Fits, LeavesNothing, n
    <3>4. Released(r[i - m].lock, q, m + ((i - m) + 1), m + (n + 1))
      BY <1>3, <3>1, <3>3
    <3> QED
      BY <3>1, <3>2, <3>4
  <2> QED
    BY <1>1, <2>1, <2>2
<1> QED
  BY <1>1, <1>6, <1>7 DEF Fits, q

\* Nothing fits.
LEMMA NothingFits == <<>> \in Seq(LockStep) /\ Fits({}, <<>>)
BY DEF Fits, InOrder, LeavesNothing, Released

\* The account, then a map twice, then the room or plaza in it; let go of in either order.
TwoLocks(a, map, l, y, z) ==
    << Locks!Lock(Locks!Accounts, "shared"), Locks!Lock(a, "unique"), Locks!Unlock(Locks!Accounts),
       Locks!Lock(map, "shared"), Locks!Unlock(map),
       Locks!Lock(map, "shared"), Locks!Lock(l, "unique"), Locks!Unlock(map),
       Locks!Unlock(y), Locks!Unlock(z) >>

LEMMA LocksDiffer ==
    ASSUME NEW p \in Player
    PROVE  /\ Locks!Account(p) \notin Maps \cup {Locks!Room, Locks!Plaza} /\ Locks!Room \notin Maps
           /\ Locks!Plaza \notin Maps /\ Locks!MapOf(Locks!Account(p)) = Locks!Accounts
           /\ Locks!MapOf(Locks!Room) = Locks!Rooms /\ Locks!MapOf(Locks!Plaza) = Locks!Plazas
           /\ {Locks!Account(p), Locks!Room, Locks!Plaza, Locks!RoomIds} \cup Maps \subseteq LockSet
<1>1. /\ Locks!Account(p).of = "account" /\ Locks!Room.of = "room" /\ Locks!Plaza.of = "plaza"
      /\ Locks!Accounts.of = "map of accounts" /\ Locks!Rooms.of = "map of rooms" /\ Locks!Plazas.of = "map of plazas"
  BY DEF Locks!Account, Locks!Room, Locks!Plaza, Locks!Accounts, Locks!Rooms, Locks!Plazas
<1>2. /\ Locks!Account(p) # Locks!Room /\ Locks!Account(p) # Locks!Plaza /\ Locks!Room # Locks!Plaza
  BY <1>1
<1>3. /\ Locks!MapOf(Locks!Account(p)) = Locks!Accounts
      /\ Locks!MapOf(Locks!Room) = Locks!Rooms /\ Locks!MapOf(Locks!Plaza) = Locks!Plazas
  BY <1>2 DEF Locks!MapOf
<1> QED
  BY <1>1, <1>3 DEF Maps, LockSet

LEMMA TwoLocksFit ==
    ASSUME NEW p \in Player, NEW map \in Maps, NEW l \in {Locks!Room, Locks!Plaza}, NEW y, NEW z,
           {y, z} = {Locks!Account(p), l}
    PROVE  TwoLocks(Locks!Account(p), map, l, y, z) \in Seq(LockStep)
           /\ Fits({}, TwoLocks(Locks!Account(p), map, l, y, z))
<1> DEFINE a == Locks!Account(p)
           s == TwoLocks(a, map, l, y, z)
<1>1. Locks!Accounts \in Maps /\ a \in LockSet /\ l \in LockSet /\ Maps \subseteq LockSet
      /\ a \notin Maps \cup {Locks!Room, Locks!Plaza} /\ l \notin Maps
  BY LocksDiffer DEF Maps
<1>2. /\ \A x \in LockSet, m \in {"shared", "unique"} :
             Locks!Lock(x, m) \in LockStep /\ Locks!Lock(x, m).op = "lock"
             /\ Locks!Lock(x, m).lock = x /\ Locks!Lock(x, m).mode = m
      /\ \A x \in LockSet : Locks!Unlock(x) \in LockStep /\ Locks!Unlock(x).op = "unlock"
             /\ Locks!Unlock(x).lock = x
  BY DEF Locks!Lock, Locks!Unlock, LockStep
<1>3. y \in LockSet /\ z \in LockSet
  BY <1>1
<1>4. s \in Seq(LockStep) /\ Len(s) = 10
  BY <1>1, <1>2, <1>3 DEF TwoLocks
<1>5. /\ s[1] = Locks!Lock(Locks!Accounts, "shared") /\ s[2] = Locks!Lock(a, "unique")
      /\ s[3] = Locks!Unlock(Locks!Accounts) /\ s[4] = Locks!Lock(map, "shared")
      /\ s[5] = Locks!Unlock(map) /\ s[6] = Locks!Lock(map, "shared") /\ s[7] = Locks!Lock(l, "unique")
      /\ s[8] = Locks!Unlock(map) /\ s[9] = Locks!Unlock(y) /\ s[10] = Locks!Unlock(z)
  BY DEF TwoLocks
<1> HIDE DEF a, s
<1>6. /\ s[1].op = "lock" /\ s[2].op = "lock" /\ s[4].op = "lock" /\ s[6].op = "lock" /\ s[7].op = "lock"
      /\ s[3].op = "unlock" /\ s[5].op = "unlock" /\ s[8].op = "unlock" /\ s[9].op = "unlock"
      /\ s[10].op = "unlock"
  BY <1>1, <1>2, <1>3, <1>5
<1>7. /\ s[1].lock = Locks!Accounts /\ s[2].lock = a /\ s[3].lock = Locks!Accounts /\ s[4].lock = map
      /\ s[5].lock = map /\ s[6].lock = map /\ s[7].lock = l /\ s[8].lock = map
      /\ s[9].lock = y /\ s[10].lock = z
  BY <1>1, <1>2, <1>3, <1>5
<1>8. s[1].mode = "shared" /\ s[4].mode = "shared" /\ s[6].mode = "shared"
  BY <1>1, <1>2, <1>5
<1>9. /\ HeldRank(s[1]) = 0 /\ HeldRank(s[2]) = 1 /\ HeldRank(s[6]) = 0
      /\ WaitRank(s[2]) = 1 /\ WaitRank(s[4]) = 2 /\ WaitRank(s[6]) = 2 /\ WaitRank(s[7]) = 3
  BY <1>1, <1>7, <1>8 DEF HeldRank, WaitRank
<1>10. /\ \A b \in 4 .. 11 : Released(s[1].lock, s, 2, b)
       /\ \A b \in 6 .. 11 : Released(s[4].lock, s, 5, b)
       /\ Released(s[6].lock, s, 7, 11)
  BY <1>6, <1>7 DEF Released
<1>11. (y = a \/ z = a) /\ (y = l \/ z = l)
  BY DEF a
<1>12. Released(s[2].lock, s, 3, 11) /\ Released(s[7].lock, s, 8, 11)
  BY <1>6, <1>7, <1>11 DEF Released
<1>13. \A j \in 1 .. 10 : s[j].op = "lock" => j \in {1, 2, 4, 6, 7}
  BY <1>6
<1>14. InOrder({}, s)
  <2> SUFFICES ASSUME NEW j \in 1 .. 10, s[j].op = "lock", NEW i \in 1 .. j - 1, s[i].op = "lock"
               PROVE  Released(s[i].lock, s, i + 1, j) \/ HeldRank(s[i]) < WaitRank(s[j])
    BY <1>4 DEF InOrder
  <2>1. j \in {1, 2, 4, 6, 7} /\ i \in {1, 2, 4, 6, 7} /\ i < j
    BY <1>13
  <2>2. CASE i = 1
    BY <1>9, <1>10, <2>1, <2>2
  <2>3. CASE i = 2
    BY <1>9, <2>1, <2>3
  <2>4. CASE i = 4
    BY <1>10, <2>1, <2>4
  <2>5. CASE i = 6
    BY <1>9, <2>1, <2>5
  <2> QED
    BY <2>1, <2>2, <2>3, <2>4, <2>5
<1>15. LeavesNothing({}, s)
  <2> SUFFICES ASSUME NEW i \in 1 .. 10, s[i].op = "lock" PROVE Released(s[i].lock, s, i + 1, 11)
    BY <1>4 DEF LeavesNothing
  <2>1. i \in {1, 2, 4, 6, 7}
    BY <1>13
  <2> QED
    BY <1>10, <1>12, <2>1
<1> QED
  BY <1>4, <1>14, <1>15 DEF Fits, a, s

\* What the handlers of a room and a plaza begin with is of this kind.
LEMMA TwoLocksOf ==
    ASSUME NEW p \in Player
    PROVE  /\ Locks!MatchStart(p)
                  = TwoLocks(Locks!Account(p), Locks!Rooms, Locks!Room, Locks!Account(p), Locks!Room)
           /\ Locks!PlazaLeave(p)
                  = TwoLocks(Locks!Account(p), Locks!Plazas, Locks!Plaza, Locks!Plaza, Locks!Account(p))
<1>1. ASSUME NEW l \in LockSet
      PROVE  Locks!Get(l, "unique")
                 = <<Locks!Lock(Locks!MapOf(l), "shared"), Locks!Lock(l, "unique"), Locks!Unlock(Locks!MapOf(l))>>
  BY DEF Locks!Get
<1>2. \A map : Locks!Looked(map) = <<Locks!Lock(map, "shared"), Locks!Unlock(map)>>
  BY DEF Locks!Looked
<1>3. /\ Locks!Get(Locks!Account(p), "unique")
             = <<Locks!Lock(Locks!Accounts, "shared"), Locks!Lock(Locks!Account(p), "unique"),
                 Locks!Unlock(Locks!Accounts)>>
      /\ Locks!Get(Locks!Room, "unique")
             = <<Locks!Lock(Locks!Rooms, "shared"), Locks!Lock(Locks!Room, "unique"), Locks!Unlock(Locks!Rooms)>>
      /\ Locks!Get(Locks!Plaza, "unique")
             = <<Locks!Lock(Locks!Plazas, "shared"), Locks!Lock(Locks!Plaza, "unique"), Locks!Unlock(Locks!Plazas)>>
  <2>1. Locks!Account(p) \in LockSet /\ Locks!Room \in LockSet /\ Locks!Plaza \in LockSet
    BY LocksDiffer
  <2>2. /\ Locks!MapOf(Locks!Account(p)) = Locks!Accounts
        /\ Locks!MapOf(Locks!Room) = Locks!Rooms /\ Locks!MapOf(Locks!Plaza) = Locks!Plazas
    BY LocksDiffer
  <2> QED
    BY <1>1, <2>1, <2>2, Zenon
<1>4. Locks!MatchStart(p)
          = TwoLocks(Locks!Account(p), Locks!Rooms, Locks!Room, Locks!Account(p), Locks!Room)
  <2>1. <<Locks!Lock(Locks!Accounts, "shared"), Locks!Lock(Locks!Account(p), "unique"),
          Locks!Unlock(Locks!Accounts)>>
          \o <<Locks!Lock(Locks!Rooms, "shared"), Locks!Unlock(Locks!Rooms)>>
          \o <<Locks!Lock(Locks!Rooms, "shared"), Locks!Lock(Locks!Room, "unique"), Locks!Unlock(Locks!Rooms)>>
          \o <<Locks!Unlock(Locks!Account(p)), Locks!Unlock(Locks!Room)>>
          = TwoLocks(Locks!Account(p), Locks!Rooms, Locks!Room, Locks!Account(p), Locks!Room)
    BY FourLists DEF TwoLocks
  <2>2. Locks!Looked(Locks!Rooms) = <<Locks!Lock(Locks!Rooms, "shared"), Locks!Unlock(Locks!Rooms)>>
    BY <1>2
  <2> QED
    BY <1>3, <2>1, <2>2, Zenon DEF Locks!MatchStart
<1>5. Locks!PlazaLeave(p)
          = TwoLocks(Locks!Account(p), Locks!Plazas, Locks!Plaza, Locks!Plaza, Locks!Account(p))
  <2>1. <<Locks!Lock(Locks!Accounts, "shared"), Locks!Lock(Locks!Account(p), "unique"),
          Locks!Unlock(Locks!Accounts)>>
          \o <<Locks!Lock(Locks!Plazas, "shared"), Locks!Unlock(Locks!Plazas)>>
          \o <<Locks!Lock(Locks!Plazas, "shared"), Locks!Lock(Locks!Plaza, "unique"), Locks!Unlock(Locks!Plazas)>>
          \o <<Locks!Unlock(Locks!Plaza), Locks!Unlock(Locks!Account(p))>>
          = TwoLocks(Locks!Account(p), Locks!Plazas, Locks!Plaza, Locks!Plaza, Locks!Account(p))
    BY FourLists DEF TwoLocks
  <2>2. Locks!Looked(Locks!Plazas) = <<Locks!Lock(Locks!Plazas, "shared"), Locks!Unlock(Locks!Plazas)>>
    BY <1>2
  <2> QED
    BY <1>3, <2>1, <2>2, Zenon DEF Locks!PlazaLeave
<1> QED
  BY <1>4, <1>5

\* A visit takes an account and nothing else.
LEMMA VisitFits ==
    ASSUME NEW p \in Player
    PROVE  /\ Locks!Visit(Locks!Account(p), "unique") \in Seq(LockStep)
           /\ Fits({}, Locks!Visit(Locks!Account(p), "unique"))
<1> DEFINE a == Locks!Account(p)
           s == <<Locks!Lock(Locks!Accounts, "shared"), Locks!Lock(a, "unique"), Locks!Unlock(Locks!Accounts),
                  Locks!Unlock(a)>>
<1>1. /\ Locks!MapOf(a) = Locks!Accounts /\ Locks!Accounts \in LockSet /\ a \in LockSet
      /\ Locks!Accounts \in Maps /\ a \notin Maps \cup {Locks!Room, Locks!Plaza}
  BY LocksDiffer DEF Maps
<1>2. Locks!Visit(a, "unique") = s
  BY <1>1, ThreeAndOne, Zenon DEF Locks!Visit, Locks!Get
<1>3. /\ s \in Seq(LockStep) /\ Len(s) = 4
      /\ s[1].op = "lock" /\ s[2].op = "lock" /\ s[3].op = "unlock" /\ s[4].op = "unlock"
      /\ s[1].lock = Locks!Accounts /\ s[2].lock = a /\ s[3].lock = Locks!Accounts /\ s[4].lock = a
      /\ s[1].mode = "shared"
  BY <1>1 DEF Locks!Lock, Locks!Unlock, LockStep
<1> HIDE DEF a, s
<1>4. HeldRank(s[1]) = 0 /\ WaitRank(s[2]) = 1
  BY <1>1, <1>3 DEF HeldRank, WaitRank
<1>5. Released(s[1].lock, s, 2, 5) /\ Released(s[2].lock, s, 3, 5)
  BY <1>3 DEF Released
<1>6. InOrder({}, s)
  BY <1>3, <1>4 DEF InOrder
<1>7. LeavesNothing({}, s)
  BY <1>3, <1>5 DEF LeavesNothing
<1> QED
  BY <1>2, <1>3, <1>6, <1>7 DEF Fits, a

\* A command looks at the accounts while it holds one.
LEMMA CommandFits ==
    ASSUME NEW p \in Player
    PROVE  Locks!Command(p) \in Seq(LockStep) /\ Fits({}, Locks!Command(p))
<1> DEFINE a == Locks!Account(p)
           s == <<Locks!Lock(Locks!Accounts, "shared"), Locks!Lock(a, "unique"), Locks!Unlock(Locks!Accounts),
                  Locks!Lock(Locks!Accounts, "shared"), Locks!Unlock(Locks!Accounts), Locks!Unlock(a)>>
<1>1. /\ Locks!MapOf(a) = Locks!Accounts /\ Locks!Accounts \in LockSet /\ a \in LockSet
      /\ Locks!Accounts \in Maps /\ a \notin Maps \cup {Locks!Room, Locks!Plaza}
  BY LocksDiffer DEF Maps
<1>2. Locks!Command(p) = s
  <2>1. <<Locks!Lock(Locks!Accounts, "shared"), Locks!Lock(a, "unique"), Locks!Unlock(Locks!Accounts)>>
          \o <<Locks!Lock(Locks!Accounts, "shared"), Locks!Unlock(Locks!Accounts)>> \o <<Locks!Unlock(a)>> = s
    BY ThreeLists
  <2> QED
    BY <1>1, <2>1, Zenon DEF Locks!Command, Locks!Get, Locks!Looked
<1>3. /\ s \in Seq(LockStep) /\ Len(s) = 6
      /\ s[1].op = "lock" /\ s[2].op = "lock" /\ s[3].op = "unlock"
      /\ s[4].op = "lock" /\ s[5].op = "unlock" /\ s[6].op = "unlock"
      /\ s[1].lock = Locks!Accounts /\ s[2].lock = a /\ s[3].lock = Locks!Accounts
      /\ s[4].lock = Locks!Accounts /\ s[5].lock = Locks!Accounts /\ s[6].lock = a
      /\ s[1].mode = "shared" /\ s[4].mode = "shared"
  BY <1>1 DEF Locks!Lock, Locks!Unlock, LockStep
<1> HIDE DEF a, s
<1>4. HeldRank(s[1]) = 0 /\ WaitRank(s[2]) = 1 /\ HeldRank(s[2]) = 1 /\ WaitRank(s[4]) = 2
  BY <1>1, <1>3 DEF HeldRank, WaitRank
<1>5. /\ Released(s[1].lock, s, 2, 4) /\ Released(s[1].lock, s, 2, 7)
      /\ Released(s[2].lock, s, 3, 7) /\ Released(s[4].lock, s, 5, 7)
  BY <1>3 DEF Released
<1>6. \A j \in 1 .. 6 : s[j].op = "lock" => j \in {1, 2, 4}
  BY <1>3
<1>7. InOrder({}, s)
  <2> SUFFICES ASSUME NEW j \in 1 .. 6, s[j].op = "lock", NEW i \in 1 .. j - 1, s[i].op = "lock"
               PROVE  Released(s[i].lock, s, i + 1, j) \/ HeldRank(s[i]) < WaitRank(s[j])
    BY <1>3 DEF InOrder
  <2>1. (i = 1 /\ j = 2) \/ (i = 1 /\ j = 4) \/ (i = 2 /\ j = 4)
    BY <1>6
  <2> QED
    BY <1>4, <1>5, <2>1
<1>8. LeavesNothing({}, s)
  BY <1>3, <1>5, <1>6 DEF LeavesNothing
<1> QED
  BY <1>2, <1>3, <1>7, <1>8 DEF Fits

\* The map alone, to put an account in or take it out.
LEMMA AccountChangedFits ==
    ASSUME NEW p \in Player
    PROVE  Locks!AccountChanged(p) \in Seq(LockStep) /\ Fits({}, Locks!AccountChanged(p))
<1> DEFINE s == <<Locks!Lock(Locks!Accounts, "unique"), Locks!Unlock(Locks!Accounts)>>
<1>1. Locks!Accounts \in LockSet
  BY LocksDiffer DEF Maps
<1>2. Locks!AccountChanged(p) = s
  BY DEF Locks!AccountChanged, Locks!Changed
<1>3. /\ s \in Seq(LockStep) /\ Len(s) = 2 /\ s[1].op = "lock" /\ s[2].op = "unlock"
      /\ s[1].lock = Locks!Accounts /\ s[2].lock = Locks!Accounts
  BY <1>1 DEF Locks!Lock, Locks!Unlock, LockStep
<1> HIDE DEF s
<1>4. InOrder({}, s)
  BY <1>3 DEF InOrder
<1>5. LeavesNothing({}, s)
  BY <1>3 DEF LeavesNothing, Released
<1> QED
  BY <1>2, <1>3, <1>4, <1>5 DEF Fits

\* One step of FlattenSeq, from what the lists before i make.
Flat(f, g, i) == IF i = 1 THEN f[i] ELSE g[i - 1] \o f[i]

LEMMA FlatExists ==
    ASSUME NEW f, NEW n \in Nat
    PROVE  \E g : g = [i \in 1 .. n |-> Flat(f, g, i)]
<1> DEFINE Is(g, k) == g = [i \in 1 .. k |-> Flat(f, g, i)]
           Bad == {k \in Nat : ~ \E g : Is(g, k)}
<1>1. SUFFICES ASSUME Bad # {} PROVE FALSE
  <2> DEFINE good == \E g : Is(g, n)
  <2>1. Bad = {} => good
    OBVIOUS
  <2> QED
    BY <2>1
<1>2. PICK k \in Bad : \A j \in Bad : k <= j
  <2>1. Bad \in SUBSET Nat
    OBVIOUS
  <2> HIDE DEF Bad
  <2> QED
    BY <1>1, <2>1, LeastNatural
<1>3. k \in Nat /\ ~ \E g : Is(g, k)
  BY <1>2
<1>4. CASE k = 0
  <2> DEFINE g == [i \in 1 .. 0 |-> <<>>]
  <2>1. g = [i \in 1 .. 0 |-> Flat(f, g, i)]
    OBVIOUS
  <2> QED
    BY <1>3, <1>4, <2>1
<1>5. CASE k # 0
  <2>1. k - 1 \in Nat /\ ~(k <= k - 1)
    BY <1>3, <1>5
  <2>2. PICK h : Is(h, k - 1)
    BY <1>2, <2>1
  <2> DEFINE g == [i \in 1 .. k |-> IF i < k THEN h[i] ELSE Flat(f, h, k)]
  <2>3. \A i \in 1 .. k - 1 : h[i] = Flat(f, h, i)
    BY <2>2
  <2>4. \A i \in 1 .. k - 1 : g[i] = h[i]
    BY <1>3
  <2>5. g[k] = Flat(f, h, k)
    BY <1>3, <1>5
  <2>6. \A i \in 1 .. k : Flat(f, g, i) = Flat(f, h, i)
    <3> HIDE DEF g
    <3> TAKE i \in 1 .. k
    <3>1. i # 1 => i - 1 \in 1 .. k - 1
      BY <1>3
    <3> QED
      BY <2>4, <3>1 DEF Flat
  <2>7. \A i \in 1 .. k : g[i] = Flat(f, g, i)
    <3> HIDE DEF g
    <3> TAKE i \in 1 .. k
    <3>1. CASE i = k
      BY <2>5, <2>6, <3>1
    <3>2. CASE i # k
      <4>1. i \in 1 .. k - 1
        BY <1>3, <3>2
      <4> QED
        BY <2>3, <2>4, <2>6, <4>1
    <3> QED
      BY <3>1, <3>2
  <2>8. Is(g, k)
    BY <2>7
  <2> QED
    BY <1>3, <2>8
<1> QED
  BY <1>4, <1>5

\* Any number of handlers that fit alone fit one after the other.
LEMMA FlattenFits ==
    ASSUME NEW f, Len(f) \in Nat \ {0},
           \A i \in 1 .. Len(f) : f[i] \in Seq(LockStep) /\ Fits({}, f[i])
    PROVE  Locks!FlattenSeq(f) \in Seq(LockStep) /\ Fits({}, Locks!FlattenSeq(f))
<1> DEFINE n == Len(f)
           g == CHOOSE h : h = [i \in 1 .. n |-> Flat(f, h, i)]
           Right(i) == g[i] \in Seq(LockStep) /\ Fits({}, g[i])
           Bad == {i \in 1 .. n : ~Right(i)}
<1>1. n \in Nat \ {0} /\ \A i \in 1 .. n : f[i] \in Seq(LockStep) /\ Fits({}, f[i])
  OBVIOUS
<1>2. g = [i \in 1 .. n |-> Flat(f, g, i)]
  BY <1>1, FlatExists
<1>3. Locks!FlattenSeq(f) = g[n]
  BY DEF Locks!FlattenSeq, Flat
<1>4. \A i \in 1 .. n : g[i] = Flat(f, g, i)
  <2> HIDE DEF g
  <2> QED
    BY <1>2
<1> HIDE DEF n, g
<1>5. Bad = {}
  <2> SUFFICES ASSUME Bad # {} PROVE FALSE
    OBVIOUS
  <2>1. PICK i \in Bad : \A j \in Bad : i <= j
    <3>1. Bad \in SUBSET Nat
      BY <1>1
    <3> HIDE DEF Bad
    <3> QED
      BY <3>1, LeastNatural
  <2>2. i \in 1 .. n /\ ~Right(i) /\ \A j \in 1 .. n : j < i => Right(j)
    <3> HIDE DEF Right
    <3>1. \A j \in 1 .. n : ~Right(j) => i <= j
      BY <2>1
    <3>2. \A j \in 1 .. n : j < i => ~(i <= j)
      BY <1>1, <2>1
    <3> QED
      BY <2>1, <3>1, <3>2
  <2>3. CASE i = 1
    <3>1. g[i] = f[i]
      BY <1>4, <2>2, <2>3 DEF Flat
    <3> QED
      BY <1>1, <2>2, <3>1
  <2>4. CASE i # 1
    <3>1. i - 1 \in 1 .. n /\ i - 1 < i
      BY <1>1, <2>2, <2>4
    <3>2. Right(i - 1)
      BY <2>2, <3>1
    <3>3. g[i] = g[i - 1] \o f[i]
      BY <1>4, <2>2, <2>4 DEF Flat
    <3>4. f[i] \in Seq(LockStep) /\ Fits({}, f[i])
      BY <1>1, <2>2
    <3>5. g[i - 1] \o f[i] \in Seq(LockStep) /\ Fits({}, g[i - 1] \o f[i])
      BY <3>2, <3>4, ConcatFits
    <3> QED
      BY <2>2, <3>3, <3>5
  <2> QED
    BY <2>3, <2>4
<1>6. Right(n)
  <2> HIDE DEF Right
  <2>1. n \in 1 .. n
    BY <1>1
  <2> QED
    BY <1>5, <2>1
<1> QED
  BY <1>3, <1>6

\* The players in the order of a list.
LEMMA PlayersListed ==
    /\ Cardinality(Player) \in Nat /\ Locks!Cardinality(Player) = Cardinality(Player)
    /\ \A i \in 1 .. Cardinality(Player) : Locks!SetToSeq(Player)[i] \in Player
<1>1. Cardinality(Player) \in Nat /\ ExistsBijection(1 .. Cardinality(Player), Player)
  BY PlayersAssumption, FS_CardinalityType
<1>2. Locks!Cardinality(Player) = Cardinality(Player)
  BY DEF Locks!Cardinality, Cardinality
<1> DEFINE n == Cardinality(Player)
           Listing(f) == f \in [1 .. n -> Player] /\ Locks!IsInjective(f)
<1>3. PICK f : Listing(f)
  BY <1>1 DEF ExistsBijection, Bijection, Injection, IsInjective, Locks!IsInjective
<1>4. Locks!SetToSeq(Player) = CHOOSE h \in [1 .. n -> Player] : Locks!IsInjective(h)
  BY <1>2 DEF Locks!SetToSeq
<1>5. Locks!SetToSeq(Player) \in [1 .. n -> Player]
  BY <1>3, <1>4
<1> QED
  BY <1>1, <1>2, <1>5

\* So do the visits to all players.
LEMMA VisitAllFits == Locks!VisitAll \in Seq(LockStep) /\ Fits({}, Locks!VisitAll)
<1> DEFINE n == Cardinality(Player)
           f == [i \in 1 .. n |-> Locks!Visit(Locks!Account(Locks!SetToSeq(Player)[i]), "unique")]
<1>1. Locks!VisitAll = Locks!FlattenSeq(f)
  <2>1. Locks!VisitAll = Locks!FlattenSeq([i \in 1 .. Locks!Cardinality(Player) |->
                             Locks!Visit(Locks!Account(Locks!SetToSeq(Player)[i]), "unique")])
    BY DEF Locks!VisitAll, Locks!ForEach
  <2> QED
    BY <2>1, PlayersListed
<1>2. n \in Nat /\ \A i \in 1 .. n : f[i] \in Seq(LockStep) /\ Fits({}, f[i])
  BY PlayersListed, VisitFits
<1>3. Len(f) = n
  BY <1>2
<1> HIDE DEF n, f
<1>4. CASE n = 0
  <2>1. f = <<>>
    BY <1>2, <1>4 DEF f
  <2>2. Locks!FlattenSeq(f) = f
    BY <1>3, <1>4 DEF Locks!FlattenSeq
  <2> QED
    BY <1>1, <2>1, <2>2, NothingFits
<1>5. CASE n # 0
  BY <1>1, <1>2, <1>3, <1>5, FlattenFits
<1> QED
  BY <1>4, <1>5

\* A round that starts: the room, and then all the players.
LEMMA RoundsStartFits ==
    ASSUME NEW p \in Player
    PROVE  Locks!RoundsStart(p) \in Seq(LockStep) /\ Fits({}, Locks!RoundsStart(p))
<1> DEFINE start == TwoLocks(Locks!Account(p), Locks!Rooms, Locks!Room, Locks!Account(p), Locks!Room)
<1>1. /\ Locks!MapOf(Locks!Account(p)) = Locks!Accounts /\ Locks!MapOf(Locks!Room) = Locks!Rooms
      /\ Locks!Rooms \in Maps
  BY LocksDiffer DEF Maps
<1>2. Locks!RoundsStart(p) = start \o Locks!VisitAll
  <2>1. <<Locks!Lock(Locks!Accounts, "shared"), Locks!Lock(Locks!Account(p), "unique"),
          Locks!Unlock(Locks!Accounts)>>
          \o <<Locks!Lock(Locks!Rooms, "shared"), Locks!Unlock(Locks!Rooms)>>
          \o <<Locks!Lock(Locks!Rooms, "shared"), Locks!Lock(Locks!Room, "unique"), Locks!Unlock(Locks!Rooms)>>
          \o <<Locks!Unlock(Locks!Account(p))>> \o <<Locks!Unlock(Locks!Room)>> = start
    BY FiveLists DEF TwoLocks
  <2>2. /\ Locks!Get(Locks!Account(p), "unique")
               = <<Locks!Lock(Locks!Accounts, "shared"), Locks!Lock(Locks!Account(p), "unique"),
                   Locks!Unlock(Locks!Accounts)>>
        /\ Locks!Get(Locks!Room, "unique")
               = <<Locks!Lock(Locks!Rooms, "shared"), Locks!Lock(Locks!Room, "unique"), Locks!Unlock(Locks!Rooms)>>
        /\ Locks!Looked(Locks!Rooms) = <<Locks!Lock(Locks!Rooms, "shared"), Locks!Unlock(Locks!Rooms)>>
    BY <1>1, Zenon DEF Locks!Get, Locks!Looked
  <2> HIDE DEF start
  <2> QED
    BY <2>1, <2>2, Zenon DEF Locks!RoundsStart
<1>3. start \in Seq(LockStep) /\ Fits({}, start)
  BY <1>1, TwoLocksFit
<1> HIDE DEF start
<1> QED
  BY <1>2, <1>3, VisitAllFits, ConcatFits

\* Whatever handler is begun fits.
LEMMA ScriptFits ==
    ASSUME NEW kind \in AccountsFirst, NEW p \in Player, NEW q \in Player
    PROVE  Locks!Script(kind, p, q) \in Seq(LockStep) /\ Fits({}, Locks!Script(kind, p, q))
<1>1. CASE kind = "MatchStart"
  <2>1. Locks!Script(kind, p, q) = Locks!MatchStart(p)
    BY <1>1 DEF Locks!Script
  <2> QED
    BY <2>1, TwoLocksOf, TwoLocksFit DEF Maps
<1>2. CASE kind = "PlazaLeave"
  <2>1. Locks!Script(kind, p, q) = Locks!PlazaLeave(p)
    BY <1>2 DEF Locks!Script
  <2> QED
    BY <2>1, TwoLocksOf, TwoLocksFit DEF Maps
<1>3. CASE kind = "RoundsStart"
  BY <1>3, RoundsStartFits DEF Locks!Script
<1>4. CASE kind = "Command"
  BY <1>4, CommandFits DEF Locks!Script
<1>5. CASE kind = "AccountChanged"
  BY <1>5, AccountChangedFits DEF Locks!Script
<1> QED
  BY <1>1, <1>2, <1>3, <1>4, <1>5 DEF AccountsFirst

LEMMA LocksInit == Locks!Init => LockInv
<1> SUFFICES ASSUME Locks!Init PROVE LockInv
  OBVIOUS
<1>1. script = [t \in Locks!Thread |-> <<>>] /\ holds = [t \in Locks!Thread |-> {}]
  BY DEF Locks!Init
<1> QED
  BY <1>1, NothingFits DEF LockInv

LEMMA LocksStep ==
    ASSUME Kinds \subseteq AccountsFirst, LockInv, [Locks!Next]_locks
    PROVE  LockInv'
<1>1. ASSUME NEW t \in Locks!Thread, NEW s \in Seq(LockStep), NEW H \in SUBSET Held, Fits(H, s),
             script' = [script EXCEPT ![t] = s], holds' = [holds EXCEPT ![t] = H]
      PROVE  LockInv'
  <2>1. script' \in [Locks!Thread -> Seq(LockStep)] /\ holds' \in [Locks!Thread -> SUBSET Held]
    BY <1>1 DEF LockInv
  <2>2. script'[t] = s /\ holds'[t] = H
    BY <1>1 DEF LockInv
  <2>3. \A u \in Locks!Thread : u # t => script'[u] = script[u] /\ holds'[u] = holds[u]
    BY <1>1 DEF LockInv
  <2>4. ASSUME NEW u \in Locks!Thread PROVE Fits(holds'[u], script'[u])
    BY <1>1, <2>2, <2>3 DEF LockInv
  <2> QED
    BY <2>1, <2>4 DEF LockInv
<1>2. ASSUME NEW t \in Locks!Thread
      PROVE  script[t] \in Seq(LockStep) /\ holds[t] \in SUBSET Held /\ Fits(holds[t], script[t])
  BY DEF LockInv
<1>3. ASSUME NEW t \in Locks!Thread, Locks!Acquire(t) PROVE LockInv'
  <2> DEFINE h == [lock |-> Head(script[t]).lock, mode |-> Head(script[t]).mode]
             H == holds[t] \cup {h}
  <2>1. /\ script[t] # <<>> /\ Head(script[t]).op = "lock"
        /\ holds' = [holds EXCEPT ![t] = H] /\ script' = [script EXCEPT ![t] = Tail(script[t])]
    BY <1>3 DEF Locks!Acquire, Locks!Wants
  <2>2. Tail(script[t]) \in Seq(LockStep) /\ Head(script[t]) = script[t][1] /\ Head(script[t]) \in LockStep
    BY <1>2, <2>1, TailOf
  <2>3. h \in Held
    BY <2>2 DEF LockStep, Held
  <2>4. h.lock = script[t][1].lock /\ HeldRank(h) = HeldRank(script[t][1]) /\ script[t][1].op = "lock"
    BY <2>1, <2>2 DEF HeldRank
  <2> HIDE DEF h
  <2>5. Fits(H, Tail(script[t]))
    BY <1>2, <2>1, <2>4, StepKeepsFit
  <2>6. H \in SUBSET Held
    BY <1>2, <2>3
  <2> HIDE DEF H
  <2> QED
    BY <1>1, <2>1, <2>2, <2>5, <2>6
<1>4. ASSUME NEW t \in Locks!Thread, Locks!Release(t) PROVE LockInv'
  <2> DEFINE H == {h \in holds[t] : h.lock # Head(script[t]).lock}
  <2>1. /\ script[t] # <<>> /\ Head(script[t]).op = "unlock"
        /\ holds' = [holds EXCEPT ![t] = H] /\ script' = [script EXCEPT ![t] = Tail(script[t])]
    BY <1>4 DEF Locks!Release, Locks!Wants
  <2>2. Tail(script[t]) \in Seq(LockStep) /\ Head(script[t]) = script[t][1]
    BY <1>2, <2>1, TailOf
  <2>3. \A h \in H : h \in holds[t] /\ script[t][1].lock # h.lock
    BY <2>2
  <2>4. H \in SUBSET Held
    BY <1>2
  <2> HIDE DEF H
  <2>5. Fits(H, Tail(script[t]))
    BY <1>2, <2>1, <2>3, StepKeepsFit
  <2> QED
    BY <1>1, <2>1, <2>2, <2>4, <2>5
<1>5. ASSUME NEW t \in Locks!Thread, NEW kind \in Kinds, NEW p \in Player, NEW q \in Player,
             Locks!Begin(t, kind, p, q)
      PROVE  LockInv'
  <2> DEFINE s == Locks!Script(kind, p, q)
  <2>1. script[t] = <<>> /\ script' = [script EXCEPT ![t] = s] /\ holds' = holds
    BY <1>5 DEF Locks!Begin
  <2>2. s \in Seq(LockStep) /\ Fits({}, s)
    BY ScriptFits
  <2> HIDE DEF s
  <2>3. holds[t] = {}
    BY <1>2, <2>1 DEF Fits, LeavesNothing, Released
  <2>4. holds' = [holds EXCEPT ![t] = {}]
    BY <2>1, <2>3 DEF LockInv
  <2> QED
    BY <1>1, <2>1, <2>2, <2>4
<1>6. CASE UNCHANGED locks
  BY <1>6 DEF locks, LockInv
<1> QED
  BY <1>3, <1>4, <1>5, <1>6 DEF Locks!Next, Locks!Run

\* Of threads that wait, one that waits for what ranks highest waits for none of them.
LEMMA RanksEndWaiting == LockInv => Locks!NobodyStuck
<1> SUFFICES ASSUME LockInv, NEW T \in (SUBSET Locks!Thread) \ {{}},
                    \A t \in T : Locks!Blockers(t) \cap T # {}
             PROVE  FALSE
  BY DEF Locks!NobodyStuck
<1> DEFINE Rank(t) == WaitRank(Head(script[t]))
<1>1. ASSUME NEW t \in T
      PROVE  /\ script[t] \in Seq(LockStep) /\ script[t] # <<>> /\ Fits(holds[t], script[t])
             /\ holds[t] \in SUBSET Held
             /\ Head(script[t]) = script[t][1] /\ Head(script[t]) \in LockStep
             /\ Head(script[t]).op = "lock" /\ Len(script[t]) \in Nat \ {0}
  <2>1. script[t] \in Seq(LockStep) /\ Fits(holds[t], script[t]) /\ holds[t] \in SUBSET Held
    BY DEF LockInv
  <2>2. (script[t] # <<>> /\ Head(script[t]).op = "lock") \/ Locks!Blockers(t) = {}
    <3>1. CASE script[t] = <<>> \/ Locks!Wants(t).op # "lock"
      BY <3>1 DEF Locks!Blockers
    <3>2. CASE ~(script[t] = <<>> \/ Locks!Wants(t).op # "lock")
      BY <2>1, <3>2, TailOf DEF Locks!Wants, LockStep
    <3> QED
      BY <3>1, <3>2
  <2>3. script[t] # <<>> /\ Head(script[t]).op = "lock"
    BY <2>2
  <2> QED
    BY <2>1, <2>3, TailOf
<1>2. ASSUME NEW t \in T PROVE Rank(t) \in 0 .. 3
  BY <1>1, RanksBounded
<1>3. ASSUME NEW t \in T PROVE \E u \in T : Rank(t) < Rank(u)
  <2>1. PICK u \in T : u \in Locks!Blockers(t)
    OBVIOUS
  <2>2. PICK h \in holds[u] : h.lock = Head(script[t]).lock /\ "unique" \in {h.mode, Head(script[t]).mode}
    BY <1>1, <2>1 DEF Locks!Blockers, Locks!Wants
  <2>3. h \in Held
    BY <1>1, <2>2
  <2>4. WaitRank(Head(script[t])) <= HeldRank(h)
    BY <1>1, <2>2, <2>3, ConflictRanks
  <2>5. HeldRank(h) < WaitRank(Head(script[u]))
    <3>1. 1 \in 1 .. Len(script[u]) /\ script[u][1].op = "lock"
      BY <1>1
    <3>2. Released(h.lock, script[u], 1, 1) \/ HeldRank(h) < WaitRank(script[u][1])
      BY <1>1, <2>2, <3>1 DEF Fits, InOrder
    <3>3. ~Released(h.lock, script[u], 1, 1)
      BY DEF Released
    <3> QED
      BY <1>1, <3>2, <3>3
  <2>6. HeldRank(h) \in 0 .. 3
    BY DEF HeldRank
  <2> QED
    BY <1>2, <2>4, <2>5, <2>6
<1> HIDE DEF Rank
<1>4. \A t \in T : Rank(t) # 3
  BY <1>2, <1>3
<1>5. \A t \in T : Rank(t) # 2
  BY <1>2, <1>3, <1>4
<1>6. \A t \in T : Rank(t) # 1
  BY <1>2, <1>3, <1>4, <1>5
<1>7. \A t \in T : Rank(t) # 0
  BY <1>2, <1>3, <1>4, <1>5, <1>6
<1> QED
  BY <1>2, <1>4, <1>5, <1>6, <1>7

\* Handlers that take their accounts before the room or the plaza, and one at a time, never
\* wait for each other in a circle, however many players and threads there are and however
\* many handlers run; looking a map up from under an account does no harm either.
THEOREM NobodyStuckHolds == Kinds \subseteq AccountsFirst => (MCSpec => []Locks!NobodyStuck)
<1> SUFFICES ASSUME Kinds \subseteq AccountsFirst PROVE MCSpec => []Locks!NobodyStuck
  OBVIOUS
<1>1. MCInit => LockInv
  BY LocksInit DEF MCInit
<1>2. [MCNext]_<<part, locks, sending, link, batcher, heartbeat>> => [Locks!Next]_locks
  BY DEF MCNext, LocksNext, SendingNext, LinkNext, BatcherNext, HeartbeatNext, locks
<1>3. LockInv /\ [Locks!Next]_locks => LockInv'
  BY LocksStep
<1>4. LockInv => Locks!NobodyStuck
  BY RanksEndWaiting
<1> QED
  BY <1>1, <1>2, <1>3, <1>4, PTL DEF MCSpec
=============================================================================
