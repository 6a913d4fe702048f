---------------------------- MODULE KafkaProducerProofs ----------------------------
(***************************************************************************)
(* Theorems about KafkaReplication, for every set of replicas, every topic *)
(* configuration and every lag bound; from "The producer" on, about        *)
(* KafkaProducer, for every producer configuration, every batch size, any  *)
(* number of records and of replicas: a record is in one place at a time,  *)
(* an idempotent log is the order of the sends, and an acknowledgement is  *)
(* never about a record that is not stored; and, at the end, about         *)
(* KafkaLog, for every log: what transactions and compaction let a         *)
(* consumer see.                                                           *)
(***************************************************************************)
EXTENDS KafkaProducer, SequenceTheorems, WellFoundedInduction, TLAPS

-----------------------------------------------------------------------------
(* The high watermark is the least log end of the ISR. *)

\* A nonempty set of naturals has a least element, and Least returns it.
LEMMA LeastExists ==
  ASSUME NEW S \in SUBSET Nat, S # {}
  PROVE  Least(S) \in S /\ \A m \in S : Least(S) <= m
<1> DEFINE R == {ss \in Nat \X Nat : ss[1] < ss[2]}
<1>1. PICK n \in S : \A m \in S : <<m, n>> \notin R
  <2>1. IsWellFoundedOn(R, Nat)
    BY NatLessThanWellFounded DEF OpToRel
  <2> QED BY <2>1, WFMin
<1>2. ASSUME NEW m \in S PROVE n <= m
  <2> DEFINE pair == <<m, n>>
  <2>1. pair \in Nat \X Nat /\ pair[1] = m /\ pair[2] = n
    OBVIOUS
  <2> HIDE DEF pair
  <2>2. ~(pair[1] < pair[2])
    BY <1>1, <2>1 DEF pair
  <2> QED BY <2>1, <2>2
<1> QED BY <1>2 DEF Least

\* recomputeHighWatermark changes nothing but the high watermark, which
\* becomes the log end of some member of the ISR and exceeds none of them.
LEMMA Recomputed ==
  ASSUME NEW p \in Partition, p.isr # {}
  PROVE  \E r \in p.isr :
           /\ RecomputeHighWatermark(p) = [p EXCEPT !.highWatermark = p.replicaLeo[r]]
           /\ \A s \in p.isr : p.replicaLeo[r] <= p.replicaLeo[s]
<1> DEFINE S == {p.replicaLeo[r] : r \in p.isr}
<1>1. S \in SUBSET Nat /\ S # {}
  BY DEF Partition
<1>2. Least(S) \in S /\ \A m \in S : Least(S) <= m
  BY <1>1, LeastExists
<1>3. PICK r \in p.isr : p.replicaLeo[r] = Least(S)
  BY <1>2
<1>4. RecomputeHighWatermark(p) = [p EXCEPT !.highWatermark = p.replicaLeo[r]]
  BY <1>3 DEF RecomputeHighWatermark
<1>5. \A s \in p.isr : p.replicaLeo[r] <= p.replicaLeo[s]
  BY <1>2, <1>3
<1> QED BY <1>4, <1>5

LEMMA RecomputedType ==
  ASSUME NEW p \in Partition, p.isr # {}
  PROVE  RecomputeHighWatermark(p) \in Partition
<1>1. PICK r \in p.isr :
         RecomputeHighWatermark(p) = [p EXCEPT !.highWatermark = p.replicaLeo[r]]
  BY Recomputed
<1>2. p.replicaLeo[r] \in Nat
  BY DEF Partition
<1> QED BY <1>1, <1>2 DEF Partition

-----------------------------------------------------------------------------
(* Every function of KafkaPartition yields a PartitionState whose leader is *)
(* in the ISR when it was given one.                                       *)

Led(p) == p \in Partition /\ p.leader \in p.isr

LEMMA RecomputedLed ==
  ASSUME NEW p, Led(p)
  PROVE  Led(RecomputeHighWatermark(p))
<1>1. p.isr # {} /\ p \in Partition
  BY DEF Led
<1>2. PICK r \in p.isr :
         RecomputeHighWatermark(p) = [p EXCEPT !.highWatermark = p.replicaLeo[r]]
  BY <1>1, Recomputed
<1> QED BY <1>1, <1>2, RecomputedType DEF Led, Partition

LEMMA AppendedLed ==
  ASSUME NEW p, Led(p), NEW record \in Nat
  PROVE  Led(AppendRecord(p, record))
<1> DEFINE q == [p EXCEPT !.log = @ \cup {[offset |-> p.leo, record |-> record]},
                          !.leo = @ + 1,
                          !.replicaLeo[p.leader] = p.leo + 1,
                          !.idle[p.leader] = 0]
<1>1. Led(q)
  <2> DEFINE entry == [offset |-> p.leo, record |-> record]
  <2>1. p \in Partition /\ p.leader \in p.isr /\ p.leader \in Replicas
    BY DEF Led, Partition
  <2>2. p.log \cup {entry} \in SUBSET Entry /\ p.leo + 1 \in Nat
    BY <2>1 DEF Partition, Entry
  <2>3. [p.replicaLeo EXCEPT ![p.leader] = p.leo + 1] \in [Replicas -> Nat]
    BY <2>1, <2>2 DEF Partition
  <2>4. [p.idle EXCEPT ![p.leader] = 0] \in [Replicas -> 0 .. LagMax + 1]
    BY <2>1, LagMaxAssumption DEF Partition
  <2> QED BY <2>1, <2>2, <2>3, <2>4 DEF Led, Partition
<1> QED BY <1>1, RecomputedLed DEF AppendRecord

LEMMA FetchedLed ==
  ASSUME NEW p, Led(p), NEW b \in Replicas
  PROVE  Led(Fetched(p, b))
<1>1. Led([p EXCEPT !.replicaLeo[b] = p.leo, !.idle[b] = 0])
  <2>1. [p.replicaLeo EXCEPT ![b] = p.leo] \in [Replicas -> Nat]
    BY DEF Led, Partition
  <2>2. [p.idle EXCEPT ![b] = 0] \in [Replicas -> 0 .. LagMax + 1]
    BY LagMaxAssumption DEF Led, Partition
  <2> QED BY <2>1, <2>2 DEF Led, Partition
<1> QED BY <1>1, RecomputedLed DEF Fetched

LEMMA ShrunkLed ==
  ASSUME NEW p, Led(p)
  PROVE  Led(ShrinkIsr(p))
<1>1. Led([p EXCEPT !.isr = Kept(p)])
  BY DEF Led, Partition, Kept
<1> QED BY <1>1, RecomputedLed DEF ShrinkIsr

LEMMA ExpandedLed ==
  ASSUME NEW p, Led(p)
  PROVE  Led(ExpandIsr(p, online))
<1>1. Led([p EXCEPT !.isr = @ \cup Rejoining(p, online)])
  BY DEF Led, Partition, Rejoining
<1> QED BY <1>1, RecomputedLed DEF ExpandIsr

LEMMA WithoutFollowerLed ==
  ASSUME NEW p, Led(p), NEW b
  PROVE  Led(WithoutFollower(p, b))
<1>1. CASE b = p.leader \/ b \notin p.isr
  BY <1>1 DEF WithoutFollower
<1>2. CASE b # p.leader /\ b \in p.isr
  <2>1. Led([p EXCEPT !.isr = @ \ {b}])
    BY <1>2 DEF Led, Partition
  <2> QED BY <1>2, <2>1, RecomputedLed DEF WithoutFollower
<1> QED BY <1>1, <1>2

LEMMA ElectedCleanLed ==
  ASSUME NEW p, Led(p), NEW r \in CleanCandidates(p, online)
  PROVE  Led(ElectClean(p, r, online))
<1>1. p \in Partition /\ r \in Replicas /\ r \in p.isr \cap online
  BY DEF Led, Partition, CleanCandidates
<1>2. p.isr \cap online \in SUBSET Replicas /\ p.leaderEpoch + 1 \in Nat
  BY <1>1 DEF Partition
<1> QED BY <1>1, <1>2 DEF Led, Partition, ElectClean

LEMMA ElectedUncleanLed ==
  ASSUME NEW p, Led(p), NEW r \in Replicas
  PROVE  Led(ElectUnclean(p, r))
<1> DEFINE kept == {e \in p.log : e.offset < p.replicaLeo[r]}
<1>1. p \in Partition /\ p.replicaLeo[r] \in Nat /\ p.leaderEpoch + 1 \in Nat
  BY DEF Led, Partition
<1>2. kept \in SUBSET Entry /\ p.pendingAcks \ Stranded(p, r) \in SUBSET Pending
  BY <1>1 DEF Partition
<1>3. [p.idle EXCEPT ![r] = 0] \in [Replicas -> 0 .. LagMax + 1]
  BY <1>1, LagMaxAssumption DEF Partition
<1> QED BY <1>1, <1>2, <1>3 DEF Led, Partition, ElectUnclean

LEMMA SettledLed ==
  ASSUME NEW p, Led(p)
  PROVE  Led(Settled(p))
BY DEF Led, Partition, Settled

LEMMA ParkedLed ==
  ASSUME NEW p, Led(p), NEW offset \in Nat, NEW record \in Nat
  PROVE  Led(Park(p, offset, record))
BY DEF Led, Partition, Park, Pending

-----------------------------------------------------------------------------
(* Types and the leader's membership, under either election policy.        *)

LedOK == TypeOK /\ LeaderInIsr

LEMMA RecordsType ==
  ASSUME NEW requests \in SUBSET Pending
  PROVE  RecordsOf(requests) \in SUBSET Nat
BY DEF RecordsOf, Pending

\* A reducer that ends with resolveAllPendingAcks keeps the types and the
\* leader's membership when what it did to the partition does.
LEMMA ResolveLed ==
  ASSUME LedOK, NEW p, Led(p), Resolve(p)
  PROVE  Led(part)' /\ acked' \in SUBSET Nat /\ refused' \in SUBSET Nat
<1>1. p.pendingAcks \in SUBSET Pending
  BY DEF Led, Partition
<1>2. Satisfied(p) \in SUBSET Pending /\ Unsatisfiable(p) \in SUBSET Pending
  BY <1>1 DEF Satisfied, Unsatisfiable
<1>3. Led(part)'
  BY SettledLed DEF Resolve, Led
<1> QED BY <1>2, <1>3, RecordsType DEF Resolve, LedOK, TypeOK

LEMMA LedPart ==
  ASSUME LedOK
  PROVE  Led(part)
BY DEF LedOK, TypeOK, LeaderInIsr, Led

LEMMA LedStep ==
  ASSUME LedOK, [Next]_vars
  PROVE  LedOK'
<1> USE LedPart
<1>1. CASE \E acks \in AcksModes : Produce(acks)
  <2>1. PICK acks \in AcksModes : Produce(acks)
    BY <1>1
  <2>2. produced' = produced + 1 /\ produced' \in 0 .. MaxRecords
    BY <2>1, BoundsAssumption DEF Produce, LedOK, TypeOK
  <2>3. CASE Refuse(acks)
    BY <2>1, <2>2, <2>3 DEF Refuse, Produce, LedOK, TypeOK, LeaderInIsr
  <2>4. CASE Accept(acks)
    <3> DEFINE p == AppendRecord(part, produced + 1)
    <3>1. Led(p) /\ produced + 1 \in Nat /\ part.leo \in Nat
      BY <2>2, BoundsAssumption, AppendedLed DEF LedOK, TypeOK, Partition
    <3>2. Led(part)'
      <4>1. CASE part' = Park(p, part.leo, produced + 1)
        BY <3>1, <4>1, ParkedLed DEF Led
      <4>2. CASE part' = p
        BY <3>1, <4>2 DEF Led
      <4> QED BY <2>4, <4>1, <4>2 DEF Accept
    <3>3. acked' \in SUBSET Nat /\ refused' \in SUBSET Nat
      BY <2>4, <3>1 DEF Accept, LedOK, TypeOK
    <3>4. copies' \in [Replicas -> SUBSET Entry]
      BY <2>4, <3>1 DEF Accept, Led, Partition, LedOK, TypeOK
    <3> QED BY <2>1, <2>2, <3>2, <3>3, <3>4
            DEF Produce, LedOK, TypeOK, LeaderInIsr, Led
  <2> QED BY <2>1, <2>3, <2>4 DEF Produce
<1>2. CASE \E b \in Replicas : BrokerDown(b)
  <2>1. PICK b \in Replicas : BrokerDown(b)
    BY <1>2
  <2>2. Led(part)' /\ acked' \in SUBSET Nat /\ refused' \in SUBSET Nat
    BY <2>1, WithoutFollowerLed, ResolveLed DEF BrokerDown
  <2>3. elections' \in Nat /\ faults' \in 0 .. MaxFaults /\ online' \in SUBSET Replicas
    BY <2>1, BoundsAssumption DEF BrokerDown, LedOK, TypeOK
  <2> QED BY <2>1, <2>2, <2>3 DEF BrokerDown, LedOK, TypeOK, LeaderInIsr, Led
<1>3. CASE \E b \in Replicas : BrokerUp(b)
  BY <1>3 DEF BrokerUp, LedOK, TypeOK, LeaderInIsr
<1>4. CASE \E b \in Replicas, lag \in 0 .. LagMax + 1 : ReplicaLag(b, lag)
  <2>1. PICK b \in Replicas, lag \in 0 .. LagMax + 1 : ReplicaLag(b, lag)
    BY <1>4
  <2>2. Led([part EXCEPT !.idle[b] = lag])
    <3>1. [part.idle EXCEPT ![b] = lag] \in [Replicas -> 0 .. LagMax + 1]
      BY <2>1 DEF Led, Partition
    <3> QED BY <3>1 DEF Led, Partition
  <2>3. Led(part)' /\ acked' \in SUBSET Nat /\ refused' \in SUBSET Nat
    BY <2>1, <2>2, ShrunkLed, ResolveLed DEF ReplicaLag
  <2>4. faults' \in 0 .. MaxFaults
    BY <2>1, BoundsAssumption DEF ReplicaLag, LedOK, TypeOK
  <2> QED BY <2>1, <2>3, <2>4 DEF ReplicaLag, LedOK, TypeOK, LeaderInIsr, Led
<1>5. CASE \E b \in Replicas : ReplicaFetch(b)
  <2>1. PICK b \in Replicas : ReplicaFetch(b)
    BY <1>5
  <2>2. Led(part)' /\ acked' \in SUBSET Nat /\ refused' \in SUBSET Nat
    BY <2>1, FetchedLed, ResolveLed DEF ReplicaFetch
  <2>3. copies' \in [Replicas -> SUBSET Entry]
    BY <2>1 DEF ReplicaFetch, Led, Partition, LedOK, TypeOK
  <2> QED BY <2>1, <2>2, <2>3 DEF ReplicaFetch, LedOK, TypeOK, LeaderInIsr, Led
<1>6. CASE IsrShrink
  <2>1. Led(part)' /\ acked' \in SUBSET Nat /\ refused' \in SUBSET Nat
    BY <1>6, ShrunkLed, ResolveLed DEF IsrShrink
  <2> QED BY <1>6, <2>1 DEF IsrShrink, LedOK, TypeOK, LeaderInIsr, Led
<1>7. CASE IsrExpand
  <2>1. Led(part)' /\ acked' \in SUBSET Nat /\ refused' \in SUBSET Nat
    BY <1>7, ExpandedLed, ResolveLed DEF IsrExpand
  <2> QED BY <1>7, <2>1 DEF IsrExpand, LedOK, TypeOK, LeaderInIsr, Led
<1>8. CASE LeaderElection
  <2>1. Led(part)' /\ acked' \in SUBSET Nat /\ refused' \in SUBSET Nat
         /\ copies' \in [Replicas -> SUBSET Entry]
    <3>1. CASE ElectInSync
      <4>1. PICK r \in Replicas : /\ r \in CleanCandidates(part, online)
                                  /\ Resolve(ElectClean(part, r, online))
                                  /\ copies' = [copies EXCEPT ![r] = part.log]
        BY <3>1 DEF ElectInSync, IsFirst
      <4> QED BY <4>1, ElectedCleanLed, ResolveLed DEF LedOK, TypeOK, Led, Partition
    <3>2. CASE ElectNobody
      BY <3>2, ResolveLed DEF ElectNobody, LedOK, TypeOK
    <3>3. CASE ElectOutOfSync
      <4>1. PICK r \in Replicas :
              /\ Resolve(ElectUnclean(part, r)) \/
                 refused' = refused \cup RecordsOf(Unsatisfiable(ElectUnclean(part, r)))
                                    \cup RecordsOf(Stranded(part, r))
              /\ part' = Settled(ElectUnclean(part, r))
              /\ acked' = acked \cup RecordsOf(Satisfied(ElectUnclean(part, r)))
              /\ copies' = [copies EXCEPT ![r] = ElectUnclean(part, r).log]
        BY <3>3 DEF ElectOutOfSync
      <4> DEFINE p == ElectUnclean(part, r)
      <4>2. Led(p)
        BY ElectedUncleanLed
      <4>3. p.log \in SUBSET Entry /\ p.pendingAcks \in SUBSET Pending
             /\ part.pendingAcks \in SUBSET Pending
        BY <4>2 DEF Led, Partition
      <4>4. Satisfied(p) \in SUBSET Pending /\ Unsatisfiable(p) \in SUBSET Pending
             /\ Stranded(part, r) \in SUBSET Pending
        BY <4>3 DEF Satisfied, Unsatisfiable, Stranded
      <4>5. RecordsOf(Satisfied(p)) \in SUBSET Nat
             /\ RecordsOf(Unsatisfiable(p)) \in SUBSET Nat
             /\ RecordsOf(Stranded(part, r)) \in SUBSET Nat
        BY <4>4, RecordsType
      <4>6. Led(part)'
        BY <4>1, <4>2, SettledLed DEF Led
      <4>7. acked' \in SUBSET Nat /\ refused' \in SUBSET Nat
        BY <4>1, <4>5 DEF LedOK, TypeOK, Resolve
      <4>8. copies' \in [Replicas -> SUBSET Entry]
        BY <4>1, <4>3 DEF LedOK, TypeOK
      <4> QED BY <4>6, <4>7, <4>8
    <3> QED BY <1>8, <3>1, <3>2, <3>3 DEF LeaderElection
  <2>2. elections' \in Nat
    BY <1>8 DEF LeaderElection, LedOK, TypeOK
  <2> QED BY <1>8, <2>1, <2>2 DEF LeaderElection, LedOK, TypeOK, LeaderInIsr, Led
<1>9. CASE Tick
  <2> DEFINE aged == [r \in Replicas |->
                IF part.idle[r] > LagMax THEN part.idle[r] ELSE part.idle[r] + 1]
  <2>1. aged \in [Replicas -> 0 .. LagMax + 1]
    BY LagMaxAssumption DEF Led, Partition
  <2>2. Led([part EXCEPT !.idle = aged])
    BY <2>1 DEF Led, Partition
  <2> QED BY <1>9, <2>2 DEF Tick, LedOK, TypeOK, LeaderInIsr, Led
<1>10. CASE UNCHANGED vars
  BY <1>10 DEF vars, LedOK, TypeOK, LeaderInIsr
<1> QED BY <1>1, <1>2, <1>3, <1>4, <1>5, <1>6, <1>7, <1>8, <1>9, <1>10 DEF Next, Replicate

LEMMA LedInit ==
  ASSUME Init
  PROVE  LedOK
<1>0. PICK config \in Topics : part = CreatePartition(FirstLeader, config)
  BY DEF Init
<1>1. part \in Partition
  BY <1>0, FirstLeaderAssumption, LagMaxAssumption, TopicsAssumption
     DEF CreatePartition, Partition
<1>2. part.leader \in part.isr
  BY <1>0, FirstLeaderAssumption DEF CreatePartition
<1>3. 0 \in 0 .. MaxFaults /\ 0 \in 0 .. MaxRecords
  BY BoundsAssumption
<1>4. [r \in Replicas |-> {}] \in [Replicas -> SUBSET Entry]
  OBVIOUS
<1> QED BY <1>1, <1>2, <1>3, <1>4 DEF Init, LedOK, TypeOK, LeaderInIsr

\* Every reachable state has the declared types: in particular the partition
\* keeps a leader among its replicas and natural offsets everywhere.
THEOREM TypeCorrect == Spec => []TypeOK
<1>1. Spec => []LedOK
  BY LedInit, LedStep, PTL DEF Spec
<1>2. LedOK => TypeOK
  BY DEF LedOK
<1> QED BY <1>1, <1>2, PTL

\* The leader never leaves its own ISR, whatever is elected, shrunk, expanded
\* or taken down, and under either unclean.leader.election policy.
THEOREM LeaderStaysInIsr == Spec => []LeaderInIsr
<1>1. Spec => []LedOK
  BY LedInit, LedStep, PTL DEF Spec
<1>2. LedOK => LeaderInIsr
  BY DEF LedOK
<1> QED BY <1>1, <1>2, PTL

-----------------------------------------------------------------------------
(* Parked requests, under either election policy.                          *)

\* The same requests wait on the same log of the same topic.
SameRequests(p, q) ==
  /\ q.log = p.log /\ q.leo = p.leo
  /\ q.pendingAcks = p.pendingAcks /\ q.config = p.config

LEMMA RecomputedSame ==
  ASSUME NEW p, Led(p)
  PROVE  SameRequests(p, RecomputeHighWatermark(p))
<1>1. PICK r \in p.isr :
         RecomputeHighWatermark(p) = [p EXCEPT !.highWatermark = p.replicaLeo[r]]
  BY Recomputed DEF Led
<1> QED BY <1>1 DEF SameRequests, Led, Partition

LEMMA ReplicationSame ==
  ASSUME NEW p, Led(p), NEW b \in Replicas, NEW lag \in 0 .. LagMax + 1
  PROVE  /\ SameRequests(p, Fetched(p, b))
         /\ SameRequests(p, ShrinkIsr(p))
         /\ SameRequests(p, ShrinkIsr([p EXCEPT !.idle[b] = lag]))
         /\ SameRequests(p, ExpandIsr(p, online))
         /\ SameRequests(p, WithoutFollower(p, b))
         /\ SameRequests(p, ElectClean(p, b, online))
<1> USE DEF SameRequests
<1>1. SameRequests(p, Fetched(p, b))
  <2> DEFINE q == [p EXCEPT !.replicaLeo[b] = p.leo, !.idle[b] = 0]
  <2>1. /\ q.isr = p.isr /\ q.log = p.log /\ q.leo = p.leo
        /\ q.pendingAcks = p.pendingAcks /\ q.config = p.config
    BY DEF Led, Partition
  <2>2. Led(q)
    <3>1. [p.replicaLeo EXCEPT ![b] = p.leo] \in [Replicas -> Nat]
      BY DEF Led, Partition
    <3>2. [p.idle EXCEPT ![b] = 0] \in [Replicas -> 0 .. LagMax + 1]
      BY LagMaxAssumption DEF Led, Partition
    <3> QED BY <3>1, <3>2 DEF Led, Partition
  <2> QED BY <2>1, <2>2, RecomputedSame DEF Fetched
<1>2. ASSUME NEW q, Led(q)
      PROVE  SameRequests(q, ShrinkIsr(q))
  <2>1. Led([q EXCEPT !.isr = Kept(q)])
    BY <1>2 DEF Led, Partition, Kept
  <2>2. SameRequests(q, [q EXCEPT !.isr = Kept(q)])
    BY <1>2 DEF Led, Partition
  <2> QED BY <2>1, <2>2, RecomputedSame DEF ShrinkIsr
<1>3. SameRequests(p, ShrinkIsr([p EXCEPT !.idle[b] = lag]))
  <2>1. [p.idle EXCEPT ![b] = lag] \in [Replicas -> 0 .. LagMax + 1]
    BY DEF Led, Partition
  <2>2. Led([p EXCEPT !.idle[b] = lag])
    BY <2>1 DEF Led, Partition
  <2>3. SameRequests(p, [p EXCEPT !.idle[b] = lag])
    BY DEF Led, Partition
  <2> QED BY <1>2, <2>2, <2>3
<1>4. SameRequests(p, ExpandIsr(p, online))
  <2> DEFINE q == [p EXCEPT !.isr = @ \cup Rejoining(p, online)]
  <2>1. Led(q)
    BY DEF Led, Partition, Rejoining
  <2>2. SameRequests(p, q)
    BY DEF Led, Partition
  <2> QED BY <2>1, <2>2, RecomputedSame DEF ExpandIsr
<1>5. SameRequests(p, WithoutFollower(p, b))
  <2> DEFINE q == [p EXCEPT !.isr = @ \ {b}]
  <2>1. CASE b = p.leader \/ b \notin p.isr
    BY <2>1 DEF WithoutFollower
  <2>2. CASE b # p.leader /\ b \in p.isr
    <3>1. Led(q)
      BY <2>2 DEF Led, Partition
    <3>2. SameRequests(p, q)
      BY DEF Led, Partition
    <3> QED BY <2>2, <3>1, <3>2, RecomputedSame DEF WithoutFollower
  <2> QED BY <2>1, <2>2
<1>6. SameRequests(p, ElectClean(p, b, online))
  BY DEF ElectClean, Led, Partition
<1> QED BY <1>1, <1>2, <1>3, <1>4, <1>5, <1>6

\* What is known of the requests, given their number so far: a parked request
\* is an entry of the log, and no two of them are for the same record.
Answering(p, yes, no, n) ==
  /\ p.pendingAcks \subseteq p.log
  /\ \A a, b \in p.pendingAcks : a.record = b.record => a = b
  /\ \A a \in p.pendingAcks : a.record <= n
  /\ \A record \in yes \cup no : record <= n
  /\ yes \cap no = {}
  /\ \A a \in p.pendingAcks : a.record \notin yes \cup no

AnsweringOK == Answering(part, acked, refused, produced)

\* Settling answers each request it removes, with one answer each.
LEMMA SettledAnswering ==
  ASSUME NEW p, Led(p), NEW yes \in SUBSET Nat, NEW no \in SUBSET Nat, NEW n \in Nat,
         Answering(p, yes, no, n)
  PROVE  Answering(Settled(p), yes \cup RecordsOf(Satisfied(p)),
                   no \cup RecordsOf(Unsatisfiable(p)), n)
<1> DEFINE yes2 == yes \cup RecordsOf(Satisfied(p))
           no2  == no \cup RecordsOf(Unsatisfiable(p))
<1>1. /\ Settled(p).log = p.log
      /\ Settled(p).pendingAcks = p.pendingAcks \ (Satisfied(p) \cup Unsatisfiable(p))
  BY DEF Settled, Led, Partition
<1>2. /\ Satisfied(p) \subseteq p.pendingAcks
      /\ Unsatisfiable(p) \subseteq p.pendingAcks
      /\ Satisfied(p) \cap Unsatisfiable(p) = {}
  BY DEF Satisfied, Unsatisfiable
<1>3. Settled(p).pendingAcks \subseteq Settled(p).log
  BY <1>1 DEF Answering
<1>4. \A record \in yes2 \cup no2 : record <= n
  BY <1>2 DEF Answering, RecordsOf
<1>5. yes2 \cap no2 = {}
  <2> SUFFICES ASSUME NEW record \in yes2, record \in no2
               PROVE  FALSE
    OBVIOUS
  <2>1. CASE record \in yes
    BY <1>2, <2>1 DEF Answering, RecordsOf
  <2>2. CASE record \in no
    BY <1>2, <2>2 DEF Answering, RecordsOf
  <2>3. CASE record \in RecordsOf(Satisfied(p)) /\ record \in RecordsOf(Unsatisfiable(p))
    BY <1>2, <2>3 DEF Answering, RecordsOf
  <2> QED BY <2>1, <2>2, <2>3
<1>6. \A a \in Settled(p).pendingAcks : a.record \notin yes2 \cup no2
  BY <1>1, <1>2 DEF Answering, RecordsOf
<1> QED BY <1>1, <1>3, <1>4, <1>5, <1>6 DEF Answering

\* The reducers that leave the requests alone and then resolve them.
LEMMA ResolveAnswering ==
  ASSUME LedOK, AnsweringOK, NEW q, Led(q), SameRequests(part, q), Resolve(q),
         produced' = produced
  PROVE  AnsweringOK'
<1>1. Answering(q, acked, refused, produced)
  BY DEF AnsweringOK, Answering, SameRequests
<1>2. acked \in SUBSET Nat /\ refused \in SUBSET Nat /\ produced \in Nat
  BY BoundsAssumption DEF LedOK, TypeOK
<1> QED BY <1>1, <1>2, SettledAnswering DEF Resolve, AnsweringOK, Led

\* The first lines of flushBatch's append: the log gains the record at the
\* log end and the requests stay.
LEMMA Appended ==
  ASSUME NEW p, Led(p), NEW record \in Nat
  PROVE  /\ AppendRecord(p, record).log = p.log \cup {[offset |-> p.leo, record |-> record]}
         /\ AppendRecord(p, record).pendingAcks = p.pendingAcks
         /\ AppendRecord(p, record).config = p.config
         /\ AppendRecord(p, record).leader = p.leader
         /\ AppendRecord(p, record).isr = p.isr
         /\ AppendRecord(p, record).leo = p.leo + 1
         /\ AppendRecord(p, record).replicaLeo = [p.replicaLeo EXCEPT ![p.leader] = p.leo + 1]
         /\ \E r \in p.isr :
              /\ AppendRecord(p, record).highWatermark =
                     AppendRecord(p, record).replicaLeo[r]
              /\ \A s \in p.isr : AppendRecord(p, record).highWatermark <=
                                     AppendRecord(p, record).replicaLeo[s]
<1> DEFINE q == [p EXCEPT !.log = @ \cup {[offset |-> p.leo, record |-> record]},
                          !.leo = @ + 1,
                          !.replicaLeo[p.leader] = p.leo + 1,
                          !.idle[p.leader] = 0]
<1>1. /\ q.log = p.log \cup {[offset |-> p.leo, record |-> record]}
      /\ q.pendingAcks = p.pendingAcks
      /\ q.config = p.config
      /\ q.leader = p.leader
      /\ q.isr = p.isr
      /\ q.leo = p.leo + 1
      /\ q.replicaLeo = [p.replicaLeo EXCEPT ![p.leader] = p.leo + 1]
  BY DEF Led, Partition
<1>2. q \in Partition
  <2> DEFINE entry == [offset |-> p.leo, record |-> record]
  <2>1. p \in Partition /\ p.leader \in Replicas
    BY DEF Led, Partition
  <2>2. p.log \cup {entry} \in SUBSET Entry /\ p.leo + 1 \in Nat
    BY <2>1 DEF Partition, Entry
  <2>3. [p.replicaLeo EXCEPT ![p.leader] = p.leo + 1] \in [Replicas -> Nat]
    BY <2>1, <2>2 DEF Partition
  <2>4. [p.idle EXCEPT ![p.leader] = 0] \in [Replicas -> 0 .. LagMax + 1]
    BY <2>1, LagMaxAssumption DEF Partition
  <2> QED BY <2>1, <2>2, <2>3, <2>4 DEF Partition
<1> HIDE DEF q
<1>3. PICK r \in q.isr :
         /\ RecomputeHighWatermark(q) = [q EXCEPT !.highWatermark = q.replicaLeo[r]]
         /\ \A s \in q.isr : q.replicaLeo[r] <= q.replicaLeo[s]
  BY <1>1, <1>2, Recomputed DEF Led
<1>4. AppendRecord(p, record) = [q EXCEPT !.highWatermark = q.replicaLeo[r]]
  BY <1>3 DEF AppendRecord, q
<1> QED BY <1>1, <1>2, <1>3, <1>4 DEF Partition

LEMMA AnsweringInit ==
  ASSUME Init
  PROVE  AnsweringOK
BY DEF Init, AnsweringOK, Answering, CreatePartition

LEMMA AnsweringStep ==
  ASSUME LedOK, AnsweringOK, [Next]_vars
  PROVE  AnsweringOK'
<1> USE LedPart
<1>0. /\ acked \in SUBSET Nat /\ refused \in SUBSET Nat /\ produced \in Nat
      /\ part.leo \in Nat /\ part.log \in SUBSET Entry
      /\ part.pendingAcks \in SUBSET Pending
  BY BoundsAssumption DEF LedOK, TypeOK, Partition
<1>1. CASE \E acks \in AcksModes : Produce(acks)
  <2>1. PICK acks \in AcksModes : Produce(acks)
    BY <1>1
  <2>2. produced' = produced + 1
    BY <2>1 DEF Produce
  <2>3. \A a \in part.pendingAcks : a.record < produced'
    BY <1>0, <2>2 DEF AnsweringOK, Answering, Pending
  <2>4. \A record \in acked \cup refused : record < produced'
    BY <1>0, <2>2 DEF AnsweringOK, Answering
  <2>5. CASE Refuse(acks)
    <3>1. refused' \subseteq refused \cup {produced'} /\ acked' = acked /\ part' = part
      BY <2>2, <2>5 DEF Refuse
    <3> QED BY <1>0, <2>2, <2>3, <2>4, <3>1 DEF AnsweringOK, Answering, Pending
  <2>6. CASE Accept(acks)
    <3> DEFINE p == AppendRecord(part, produced + 1)
               mine == [offset |-> part.leo, record |-> produced + 1]
    <3>0. produced + 1 \in Nat
      BY <1>0
    <3>1. Led(p) /\ p.log = part.log \cup {mine} /\ p.pendingAcks = part.pendingAcks
      BY <3>0, Appended, AppendedLed, Zenon
    <3>2. mine.record = produced' /\ refused' = refused
      BY <2>2, <2>6 DEF Accept
    <3>3. CASE part' = Park(p, part.leo, produced + 1) /\ acked' = acked
      <4>1. part'.log = p.log /\ part'.pendingAcks = part.pendingAcks \cup {mine}
        BY <3>1, <3>3 DEF Park, Led, Partition
      <4> HIDE DEF mine, p
      <4>2. part'.pendingAcks \subseteq part'.log
        BY <3>1, <4>1 DEF AnsweringOK, Answering
      <4>3. \A a, b \in part'.pendingAcks : a.record = b.record => a = b
        BY <1>0, <2>2, <2>3, <3>2, <4>1 DEF AnsweringOK, Answering, Pending
      <4>4. \A a \in part'.pendingAcks : a.record <= produced'
        BY <1>0, <2>2, <2>3, <3>2, <4>1 DEF Pending
      <4>5. \A a \in part'.pendingAcks : a.record \notin acked \cup refused
        BY <1>0, <2>2, <2>4, <3>2, <4>1 DEF AnsweringOK, Answering
      <4> QED BY <1>0, <2>2, <2>4, <3>2, <3>3, <4>2, <4>3, <4>4, <4>5
              DEF AnsweringOK, Answering
    <3>4. CASE part' = p /\ acked' \subseteq acked \cup {produced'}
      <4> HIDE DEF mine, p
      <4>1. \A record \in acked' \cup refused' : record <= produced'
        BY <1>0, <2>2, <2>4, <3>2, <3>4
      <4>2. acked' \cap refused' = {}
        BY <1>0, <2>2, <2>4, <3>2, <3>4 DEF AnsweringOK, Answering
      <4>3. \A a \in part'.pendingAcks : a.record \notin acked' \cup refused'
        BY <1>0, <2>2, <2>3, <3>1, <3>2, <3>4 DEF AnsweringOK, Answering, Pending
      <4>4. \A a \in part'.pendingAcks : a.record <= produced'
        BY <1>0, <2>2, <2>3, <3>1, <3>4 DEF Pending
      <4> QED BY <3>1, <3>4, <4>1, <4>2, <4>3, <4>4 DEF AnsweringOK, Answering
    <3> QED BY <2>2, <2>6, <3>3, <3>4 DEF Accept
  <2> QED BY <2>1, <2>5, <2>6 DEF Produce
<1>2. CASE \E b \in Replicas : BrokerDown(b)
  <2>1. PICK b \in Replicas : BrokerDown(b)
    BY <1>2
  <2>2. SameRequests(part, WithoutFollower(part, b))
    BY LagMaxAssumption, ReplicationSame, 0 \in 0 .. LagMax + 1
  <2> QED BY <2>1, <2>2, WithoutFollowerLed, ResolveAnswering DEF BrokerDown
<1>3. CASE \E b \in Replicas : BrokerUp(b)
  BY <1>3 DEF BrokerUp, AnsweringOK
<1>4. CASE \E b \in Replicas, lag \in 0 .. LagMax + 1 : ReplicaLag(b, lag)
  <2>1. PICK b \in Replicas, lag \in 0 .. LagMax + 1 : ReplicaLag(b, lag)
    BY <1>4
  <2> DEFINE q == [part EXCEPT !.idle[b] = lag]
  <2>2. Led(q)
    <3>1. [part.idle EXCEPT ![b] = lag] \in [Replicas -> 0 .. LagMax + 1]
      BY <2>1 DEF Led, Partition
    <3> QED BY <3>1 DEF Led, Partition
  <2>3. SameRequests(part, ShrinkIsr(q))
    BY <2>1, ReplicationSame
  <2> QED BY <2>1, <2>2, <2>3, ShrunkLed, ResolveAnswering DEF ReplicaLag
<1>5. CASE \E b \in Replicas : ReplicaFetch(b)
  <2>1. PICK b \in Replicas : ReplicaFetch(b)
    BY <1>5
  <2>2. SameRequests(part, Fetched(part, b))
    BY LagMaxAssumption, ReplicationSame, 0 \in 0 .. LagMax + 1
  <2>3. SameRequests(part, part)
    BY DEF SameRequests
  <2> QED BY <2>1, <2>2, <2>3, FetchedLed, ResolveAnswering DEF ReplicaFetch
<1>6. CASE IsrShrink
  <2>1. SameRequests(part, ShrinkIsr(part))
    BY LagMaxAssumption, ReplicationSame, ReplicasAssumption, 0 \in 0 .. LagMax + 1
  <2> QED BY <1>6, <2>1, ShrunkLed, ResolveAnswering DEF IsrShrink
<1>7. CASE IsrExpand
  <2>1. SameRequests(part, ExpandIsr(part, online))
    BY LagMaxAssumption, ReplicationSame, ReplicasAssumption, 0 \in 0 .. LagMax + 1
  <2> QED BY <1>7, <2>1, ExpandedLed, ResolveAnswering DEF IsrExpand
<1>8. CASE LeaderElection
  <2>1. CASE ElectInSync
    <3>1. PICK r \in Replicas : /\ r \in CleanCandidates(part, online)
                                /\ Resolve(ElectClean(part, r, online))
      BY <2>1 DEF ElectInSync, IsFirst
    <3>2. SameRequests(part, ElectClean(part, r, online))
      BY LagMaxAssumption, ReplicationSame, 0 \in 0 .. LagMax + 1
    <3> QED BY <1>8, <3>1, <3>2, ElectedCleanLed, ResolveAnswering DEF LeaderElection
  <2>2. CASE ElectNobody
    <3>1. SameRequests(part, part)
      BY DEF SameRequests
    <3> QED BY <1>8, <2>2, <3>1, ResolveAnswering DEF ElectNobody, LeaderElection
  <2>3. CASE ElectOutOfSync
    <3>1. PICK r \in Replicas :
            /\ part' = Settled(ElectUnclean(part, r))
            /\ acked' = acked \cup RecordsOf(Satisfied(ElectUnclean(part, r)))
            /\ refused' = refused \cup RecordsOf(Unsatisfiable(ElectUnclean(part, r)))
                                  \cup RecordsOf(Stranded(part, r))
      BY <2>3 DEF ElectOutOfSync
    <3> DEFINE p  == ElectUnclean(part, r)
               no == refused \cup RecordsOf(Stranded(part, r))
    <3>2. /\ p.log = {e \in part.log : e.offset < part.replicaLeo[r]}
          /\ p.pendingAcks = part.pendingAcks \ Stranded(part, r)
          /\ part.replicaLeo[r] \in Nat
      BY DEF ElectUnclean, Led, Partition
    <3>3. /\ Stranded(part, r) \subseteq part.pendingAcks
          /\ \A a \in p.pendingAcks : a.offset < part.replicaLeo[r]
      BY <1>0, <3>2 DEF Stranded, Pending
    <3>4. RecordsOf(Stranded(part, r)) \in SUBSET Nat
      BY <1>0, <3>3, RecordsType
    <3>5. Answering(p, acked, no, produced)
      <4>1. p.pendingAcks \subseteq p.log
        BY <3>2, <3>3 DEF AnsweringOK, Answering
      <4>2. \A record \in acked \cup no : record <= produced
        BY <3>3 DEF AnsweringOK, Answering, RecordsOf
      <4>3. acked \cap no = {}
        BY <3>3 DEF AnsweringOK, Answering, RecordsOf
      <4>4. \A a \in p.pendingAcks : a.record \notin acked \cup no
        BY <3>2, <3>3 DEF AnsweringOK, Answering, RecordsOf
      <4> QED BY <3>2, <4>1, <4>2, <4>3, <4>4 DEF AnsweringOK, Answering
    <3>6. Led(p)
      BY ElectedUncleanLed
    <3>7. Answering(Settled(p), acked \cup RecordsOf(Satisfied(p)),
                    no \cup RecordsOf(Unsatisfiable(p)), produced)
      BY <1>0, <3>4, <3>5, <3>6, SettledAnswering
    <3>8. refused' = no \cup RecordsOf(Unsatisfiable(p)) /\ produced' = produced
      BY <1>8, <3>1 DEF LeaderElection
    <3> HIDE DEF p, no
    <3> QED BY <3>1, <3>7, <3>8 DEF AnsweringOK, p
  <2> QED BY <1>8, <2>1, <2>2, <2>3 DEF LeaderElection
<1>9. CASE Tick
  <2>1. /\ part'.log = part.log /\ part'.pendingAcks = part.pendingAcks
        /\ UNCHANGED <<acked, refused, produced>>
    BY <1>9 DEF Tick, Led, Partition
  <2> QED BY <2>1 DEF AnsweringOK, Answering
<1>10. CASE UNCHANGED vars
  BY <1>10 DEF vars, AnsweringOK
<1> QED BY <1>1, <1>2, <1>3, <1>4, <1>5, <1>6, <1>7, <1>8, <1>9, <1>10 DEF Next, Replicate

LEMMA AnsweringHolds == Spec => [](LedOK /\ AnsweringOK)
BY LedInit, LedStep, AnsweringInit, AnsweringStep, PTL DEF Spec

\* An acks=all request is answered once: never with both a success and an
\* error, and never while it is still parked for another answer.
THEOREM EachRequestAnsweredOnce == Spec => []AnsweredOnce
<1>1. AnsweringOK => AnsweredOnce
  BY DEF AnsweringOK, Answering, AnsweredOnce, RecordsOf
<1> QED BY <1>1, AnsweringHolds, PTL

\* A parked request points at the record it appended, under either election
\* policy: electLeader refuses the requests whose offsets it truncates.
THEOREM ParkedRecordStaysInLog == Spec => []ParkedRecordInLog
<1>1. LedOK /\ AnsweringOK => ParkedRecordInLog
  <2> SUFFICES ASSUME LedOK, AnsweringOK, NEW a \in part.pendingAcks
               PROVE  [offset |-> a.offset, record |-> a.record] \in part.log
    BY DEF ParkedRecordInLog
  <2>1. a \in Pending /\ a \in part.log
    BY LedPart DEF Led, Partition, AnsweringOK, Answering
  <2>2. a = [offset |-> a.offset, record |-> a.record]
    BY <2>1 DEF Pending
  <2> QED BY <2>1, <2>2
<1> QED BY <1>1, AnsweringHolds, PTL

-----------------------------------------------------------------------------
(* The committed prefix, with unclean leader election off.                 *)

\* The log holds one entry at each offset below its end.
Dense(p) ==
  /\ \A e \in p.log : e.offset < p.leo
  /\ \A e, f \in p.log : e.offset = f.offset => e = f
  /\ \A n \in Nat : n < p.leo => \E e \in p.log : e.offset = n

\* The log end of a replica is within the log, and the replica fetched all
\* that lies below it; the high watermark is below every log end of the ISR.
Sound(p, c) ==
  /\ Dense(p)
  /\ \A r \in Replicas : p.replicaLeo[r] <= p.leo
  /\ \A r \in p.isr : p.highWatermark <= p.replicaLeo[r]
  /\ \A r \in Replicas, e \in p.log : e.offset < p.replicaLeo[r] => e \in c[r]

\* The log only grows, beyond the high watermark, which only rises.
Advances(p, q) ==
  /\ p.log \subseteq q.log
  /\ p.highWatermark <= q.highWatermark
  /\ \A e \in q.log : e.offset < p.highWatermark => e \in p.log

SoundOK == Sound(part, copies)

LEMMA RecomputedSound ==
  ASSUME NEW p, Led(p), NEW c, Sound(p, c)
  PROVE  Sound(RecomputeHighWatermark(p), c) /\ Advances(p, RecomputeHighWatermark(p))
<1>1. PICK r \in p.isr :
         /\ RecomputeHighWatermark(p) = [p EXCEPT !.highWatermark = p.replicaLeo[r]]
         /\ \A s \in p.isr : p.replicaLeo[r] <= p.replicaLeo[s]
  BY Recomputed DEF Led
<1> DEFINE q == [p EXCEPT !.highWatermark = p.replicaLeo[r]]
<1>2. /\ q.log = p.log /\ q.leo = p.leo /\ q.replicaLeo = p.replicaLeo
      /\ q.isr = p.isr /\ q.highWatermark = p.replicaLeo[r]
  BY DEF Led, Partition
<1> HIDE DEF q
<1>3. Sound(q, c) /\ Advances(p, q)
  BY <1>1, <1>2 DEF Sound, Dense, Advances
<1> QED BY <1>1, <1>3 DEF q

LEMMA FetchedSound ==
  ASSUME NEW p, Led(p), NEW c \in [Replicas -> SUBSET Entry], Sound(p, c), NEW b \in Replicas
  PROVE  /\ Sound(Fetched(p, b), [c EXCEPT ![b] = p.log])
         /\ Advances(p, Fetched(p, b))
<1> DEFINE q == [p EXCEPT !.replicaLeo[b] = p.leo, !.idle[b] = 0]
           d == [c EXCEPT ![b] = p.log]
<1>1. /\ q.log = p.log /\ q.leo = p.leo /\ q.isr = p.isr
      /\ q.highWatermark = p.highWatermark /\ q.leader = p.leader
      /\ q.replicaLeo = [p.replicaLeo EXCEPT ![b] = p.leo]
  BY DEF Led, Partition
<1>2. Led(q)
  <2>1. [p.replicaLeo EXCEPT ![b] = p.leo] \in [Replicas -> Nat]
    BY DEF Led, Partition
  <2>2. [p.idle EXCEPT ![b] = 0] \in [Replicas -> 0 .. LagMax + 1]
    BY LagMaxAssumption DEF Led, Partition
  <2> QED BY <2>1, <2>2 DEF Led, Partition
<1>3. /\ p.replicaLeo \in [Replicas -> Nat] /\ p.leo \in Nat /\ p.highWatermark \in Nat
      /\ p.isr \subseteq Replicas
  BY DEF Led, Partition
<1>4. \A r \in Replicas : q.replicaLeo[r] = IF r = b THEN p.leo ELSE p.replicaLeo[r]
  BY <1>1, <1>3
<1>5. \A r \in Replicas : d[r] = IF r = b THEN p.log ELSE c[r]
  OBVIOUS
<1> HIDE DEF q, d
<1>6. \A r \in Replicas : q.replicaLeo[r] <= q.leo
  BY <1>1, <1>3, <1>4 DEF Sound
<1>7. \A r \in q.isr : q.highWatermark <= q.replicaLeo[r]
  <2> SUFFICES ASSUME NEW r \in p.isr PROVE p.highWatermark <= q.replicaLeo[r]
    BY <1>1
  <2>1. p.highWatermark <= p.replicaLeo[r] /\ p.replicaLeo[r] <= p.leo
    BY <1>3 DEF Sound
  <2>2. p.replicaLeo[r] \in Nat
    BY <1>3
  <2> QED BY <1>3, <1>4, <2>1, <2>2
<1>8. \A r \in Replicas, e \in q.log : e.offset < q.replicaLeo[r] => e \in d[r]
  BY <1>1, <1>4, <1>5 DEF Sound
<1>9. Sound(q, d)
  BY <1>1, <1>6, <1>7, <1>8 DEF Sound, Dense
<1>10. Advances(p, Fetched(p, b))
  BY <1>1, <1>2, <1>9, RecomputedSound DEF Advances, Fetched, q
<1> QED BY <1>2, <1>9, <1>10, RecomputedSound DEF Fetched, q, d

\* The ISR may lose members, or gain members whose log end is at least leo.
LEMMA ResizedSound ==
  ASSUME NEW p, Led(p), NEW c, Sound(p, c), NEW isr \in SUBSET Replicas, p.leader \in isr,
         \A r \in isr \ p.isr : p.replicaLeo[r] >= p.leo
  PROVE  LET q == RecomputeHighWatermark([p EXCEPT !.isr = isr])
         IN  Sound(q, c) /\ Advances(p, q)
<1> DEFINE q == [p EXCEPT !.isr = isr]
<1>1. /\ q.log = p.log /\ q.leo = p.leo /\ q.isr = isr
      /\ q.highWatermark = p.highWatermark
      /\ q.replicaLeo = p.replicaLeo
  BY DEF Led, Partition
<1>2. Led(q)
  BY DEF Led, Partition
<1> HIDE DEF q
<1>3. /\ p.replicaLeo \in [Replicas -> Nat] /\ p.leo \in Nat /\ p.highWatermark \in Nat
      /\ p.leader \in p.isr /\ p.leader \in Replicas
  BY DEF Led, Partition
<1>4. p.highWatermark <= p.leo
  <2>1. p.highWatermark <= p.replicaLeo[p.leader] /\ p.replicaLeo[p.leader] <= p.leo
    BY <1>3 DEF Sound
  <2> QED BY <1>3, <2>1
<1>5. \A r \in isr : p.highWatermark <= p.replicaLeo[r]
  <2> SUFFICES ASSUME NEW r \in isr PROVE p.highWatermark <= p.replicaLeo[r]
    OBVIOUS
  <2>1. CASE r \in p.isr
    BY <2>1 DEF Sound
  <2>2. CASE r \notin p.isr
    <3>1. p.replicaLeo[r] >= p.leo /\ p.replicaLeo[r] \in Nat
      BY <1>3, <2>2
    <3> QED BY <1>3, <1>4, <3>1
  <2> QED BY <2>1, <2>2
<1>6. Sound(q, c)
  BY <1>1, <1>5 DEF Sound, Dense
<1>7. Advances(p, q)
  BY <1>1, <1>3 DEF Advances
<1>8. Sound(RecomputeHighWatermark(q), c) /\ Advances(q, RecomputeHighWatermark(q))
  BY <1>2, <1>6, RecomputedSound
<1>9. Advances(p, RecomputeHighWatermark(q))
  BY <1>1, <1>8 DEF Advances
<1> QED BY <1>8, <1>9 DEF q

LEMMA SelfAdvances ==
  ASSUME NEW p, Led(p)
  PROVE  Advances(p, p)
BY DEF Led, Partition, Advances

LEMMA ShrunkSound ==
  ASSUME NEW p, Led(p), NEW c, Sound(p, c)
  PROVE  Sound(ShrinkIsr(p), c) /\ Advances(p, ShrinkIsr(p))
<1>1. Kept(p) \in SUBSET Replicas /\ Kept(p) \subseteq p.isr /\ p.leader \in Kept(p)
  BY DEF Kept, Led, Partition
<1> QED BY <1>1, ResizedSound, SelfAdvances DEF ShrinkIsr

LEMMA ExpandedSound ==
  ASSUME NEW p, Led(p), NEW c, Sound(p, c)
  PROVE  Sound(ExpandIsr(p, online), c) /\ Advances(p, ExpandIsr(p, online))
<1> DEFINE isr == p.isr \cup Rejoining(p, online)
<1>1. /\ isr \in SUBSET Replicas /\ p.leader \in isr
      /\ \A r \in isr \ p.isr : p.replicaLeo[r] >= p.leo
  BY DEF Rejoining, Led, Partition
<1>2. [p EXCEPT !.isr = @ \cup Rejoining(p, online)] = [p EXCEPT !.isr = isr]
  OBVIOUS
<1> HIDE DEF isr
<1> QED BY <1>1, <1>2, ResizedSound, SelfAdvances DEF ExpandIsr

LEMMA WithoutFollowerSound ==
  ASSUME NEW p, Led(p), NEW c, Sound(p, c), NEW b
  PROVE  Sound(WithoutFollower(p, b), c) /\ Advances(p, WithoutFollower(p, b))
<1> DEFINE isr == p.isr \ {b}
<1>1. CASE b = p.leader \/ b \notin p.isr
  BY <1>1, SelfAdvances DEF WithoutFollower
<1>2. CASE b # p.leader /\ b \in p.isr
  <2>1. /\ isr \in SUBSET Replicas /\ p.leader \in isr
        /\ \A r \in isr \ p.isr : p.replicaLeo[r] >= p.leo
    BY <1>2 DEF Led, Partition
  <2>2. WithoutFollower(p, b) = RecomputeHighWatermark([p EXCEPT !.isr = isr])
    BY <1>2 DEF WithoutFollower
  <2> HIDE DEF isr
  <2> QED BY <2>1, <2>2, ResizedSound
<1> QED BY <1>1, <1>2

LEMMA ElectedCleanSound ==
  ASSUME NEW p, Led(p), NEW c \in [Replicas -> SUBSET Entry], Sound(p, c),
         NEW r \in CleanCandidates(p, online)
  PROVE  /\ Sound(ElectClean(p, r, online), [c EXCEPT ![r] = p.log])
         /\ Advances(p, ElectClean(p, r, online))
<1> DEFINE q == ElectClean(p, r, online)
           d == [c EXCEPT ![r] = p.log]
<1>1. /\ q.log = p.log /\ q.leo = p.leo /\ q.isr = p.isr \cap online
      /\ q.highWatermark = p.highWatermark
      /\ q.replicaLeo = p.replicaLeo
  BY DEF ElectClean, Led, Partition
<1>2. \A s \in Replicas : d[s] = IF s = r THEN p.log ELSE c[s]
  OBVIOUS
<1>3. p.highWatermark \in Nat
  BY DEF Led, Partition
<1> HIDE DEF q, d
<1>4. Sound(q, d) /\ Advances(p, q)
  BY <1>1, <1>2, <1>3 DEF Sound, Dense, Advances
<1> QED BY <1>4 DEF q, d

LEMMA SettledSound ==
  ASSUME NEW p, Led(p), NEW c, Sound(p, c)
  PROVE  Sound(Settled(p), c) /\ Advances(p, Settled(p))
<1>1. /\ Settled(p).log = p.log /\ Settled(p).leo = p.leo /\ Settled(p).isr = p.isr
      /\ Settled(p).highWatermark = p.highWatermark
      /\ Settled(p).replicaLeo = p.replicaLeo
      /\ p.highWatermark \in Nat
  BY DEF Settled, Led, Partition
<1> QED BY <1>1 DEF Sound, Dense, Advances

LEMMA AppendedSound ==
  ASSUME NEW p, Led(p), NEW c \in [Replicas -> SUBSET Entry], Sound(p, c), NEW record \in Nat
  PROVE  LET q == AppendRecord(p, record)
         IN  Sound(q, [c EXCEPT ![q.leader] = q.log]) /\ Advances(p, q)
<1> DEFINE q == AppendRecord(p, record)
           d == [c EXCEPT ![q.leader] = q.log]
           entry == [offset |-> p.leo, record |-> record]
<1>1. /\ q.log = p.log \cup {entry} /\ q.leader = p.leader /\ q.isr = p.isr
      /\ q.leo = p.leo + 1
      /\ q.replicaLeo = [p.replicaLeo EXCEPT ![p.leader] = p.leo + 1]
  BY Appended
<1>2. \E s \in p.isr :
         /\ q.highWatermark = q.replicaLeo[s]
         /\ \A r \in p.isr : q.highWatermark <= q.replicaLeo[r]
  BY Appended
<1>3. /\ p.replicaLeo \in [Replicas -> Nat] /\ p.leo \in Nat /\ p.highWatermark \in Nat
      /\ p.isr \subseteq Replicas /\ p.leader \in Replicas /\ p.log \subseteq Entry
  BY DEF Led, Partition
<1>4. entry.offset = p.leo
  OBVIOUS
<1>5. \A r \in Replicas : d[r] = IF r = p.leader THEN q.log ELSE c[r]
  BY <1>1
<1>6. \A r \in Replicas :
         q.replicaLeo[r] = IF r = p.leader THEN p.leo + 1 ELSE p.replicaLeo[r]
  BY <1>1, <1>3
<1> HIDE DEF q, d, entry
<1>7. Dense(q)
  <2>1. \A e \in p.log : e.offset \in Nat /\ e.offset < p.leo /\ e.offset # p.leo
    BY <1>3 DEF Sound, Dense, Entry
  <2>2. \A e \in q.log : e.offset < q.leo
    <3> SUFFICES ASSUME NEW e \in q.log PROVE e.offset < p.leo + 1
      BY <1>1
    <3> QED BY <1>1, <1>3, <1>4, <2>1
  <2>3. \A e, f \in q.log : e.offset = f.offset => e = f
    BY <1>1, <1>4, <2>1 DEF Sound, Dense
  <2>4. ASSUME NEW n \in Nat, n < q.leo
        PROVE  \E e \in q.log : e.offset = n
    <3>1. CASE n < p.leo
      BY <1>1, <3>1 DEF Sound, Dense
    <3>2. CASE n = p.leo
      BY <1>1, <1>4, <3>2
    <3> QED BY <1>1, <1>3, <2>4, <3>1, <3>2
  <2> QED BY <2>2, <2>3, <2>4 DEF Dense
<1>8. \A r \in Replicas : q.replicaLeo[r] <= q.leo
  <2> SUFFICES ASSUME NEW r \in Replicas PROVE q.replicaLeo[r] <= p.leo + 1
    BY <1>1
  <2>1. p.replicaLeo[r] <= p.leo /\ p.replicaLeo[r] \in Nat
    BY <1>3 DEF Sound
  <2> QED BY <1>3, <1>6, <2>1
<1>9. \A r \in Replicas, e \in q.log : e.offset < q.replicaLeo[r] => e \in d[r]
  <2> SUFFICES ASSUME NEW r \in Replicas, NEW e \in q.log, e.offset < q.replicaLeo[r]
               PROVE  e \in d[r]
    OBVIOUS
  <2>1. CASE r = p.leader
    BY <1>5, <2>1
  <2>2. CASE r # p.leader /\ e \in p.log
    BY <1>5, <1>6, <2>2 DEF Sound
  <2>3. CASE r # p.leader /\ e = entry
    <3>1. p.leo < p.replicaLeo[r]
      BY <1>4, <1>6, <2>3
    <3>2. p.replicaLeo[r] <= p.leo /\ p.replicaLeo[r] \in Nat
      BY <1>3 DEF Sound
    <3> QED BY <1>3, <3>1, <3>2
  <2> QED BY <1>1, <2>1, <2>2, <2>3
<1>10. p.highWatermark <= q.highWatermark
  <2>1. PICK s \in p.isr : q.highWatermark = q.replicaLeo[s]
    BY <1>2
  <2>2. p.highWatermark <= p.replicaLeo[s] /\ p.replicaLeo[s] <= p.leo
         /\ p.replicaLeo[s] \in Nat
    BY <1>3 DEF Sound
  <2>3. p.highWatermark <= p.leo + 1
    BY <1>3, <2>2
  <2> QED BY <1>3, <1>6, <2>1, <2>2, <2>3
<1>11. ASSUME NEW e \in q.log, e.offset < p.highWatermark
       PROVE  e \in p.log
  <2>1. p.highWatermark <= p.replicaLeo[p.leader] /\ p.replicaLeo[p.leader] <= p.leo
         /\ p.replicaLeo[p.leader] \in Nat
    BY <1>3 DEF Sound, Led
  <2> QED BY <1>1, <1>3, <1>4, <1>11, <2>1
<1>12. Sound(q, d) /\ Advances(p, q)
  BY <1>1, <1>2, <1>7, <1>8, <1>9, <1>10, <1>11 DEF Sound, Advances
<1> QED BY <1>12 DEF q, d

AckedStored ==
  \A record \in acked :
    \E e \in part.log : e.record = record /\ e.offset < part.highWatermark

CleanOK == SoundOK /\ AckedStored

\* Acknowledged requests stay committed when the partition advances and the
\* newly acknowledged ones are entries below its high watermark.
LEMMA StillCommitted ==
  ASSUME LedOK, AckedStored, Led(part)', Advances(part, part'),
         \A record \in acked' \ acked :
           \E e \in part'.log : e.record = record /\ e.offset < part'.highWatermark
  PROVE  AckedStored'
<1>1. SUFFICES ASSUME NEW record \in acked
               PROVE  \E e \in part'.log : e.record = record /\ e.offset < part'.highWatermark
  BY DEF AckedStored
<1>2. PICK e \in part.log : e.record = record /\ e.offset < part.highWatermark
  BY DEF AckedStored
<1>3. e.offset \in Nat /\ part.highWatermark \in Nat /\ part'.highWatermark \in Nat
  BY <1>2, LedPart DEF Led, Partition, Entry
<1> QED BY <1>2, <1>3 DEF Advances

LEMMA ResolveClean ==
  ASSUME LedOK, AnsweringOK, CleanOK, NEW q, Led(q), SameRequests(part, q),
         Sound(q, copies'), Advances(part, q), Resolve(q)
  PROVE  CleanOK' /\ Advances(part, part')
<1>1. /\ part' = Settled(q) /\ acked' = acked \cup RecordsOf(Satisfied(q))
      /\ Led(part)'
  BY SettledLed DEF Resolve, Led
<1>2. Sound(part', copies') /\ Advances(q, part')
  BY <1>1, SettledSound
<1>3. part'.log = q.log /\ part'.highWatermark = q.highWatermark
  BY <1>1 DEF Settled, Led, Partition
<1>4. Advances(part, part')
  BY <1>3 DEF Advances
<1>5. \A record \in acked' \ acked :
         \E e \in part'.log : e.record = record /\ e.offset < part'.highWatermark
  BY <1>1, <1>3 DEF RecordsOf, Satisfied, SameRequests, AnsweringOK, Answering
<1>6. AckedStored'
  BY <1>1, <1>4, <1>5, StillCommitted DEF CleanOK
<1> QED BY <1>2, <1>4, <1>6 DEF CleanOK, SoundOK

LEMMA CleanInit ==
  ASSUME Init
  PROVE  CleanOK
BY DEF Init, CleanOK, SoundOK, Sound, Dense, AckedStored, CreatePartition

LEMMA CleanStep ==
  ASSUME ~Unclean, LedOK, AnsweringOK, CleanOK, [Next]_vars
  PROVE  CleanOK' /\ Advances(part, part')
<1> USE LedPart
<1>0. /\ acked \in SUBSET Nat /\ produced + 1 \in Nat /\ part.leo \in Nat
      /\ copies \in [Replicas -> SUBSET Entry] /\ 0 \in 0 .. LagMax + 1
      /\ Sound(part, copies) /\ Advances(part, part) /\ SameRequests(part, part)
  BY BoundsAssumption, LagMaxAssumption, SelfAdvances
     DEF LedOK, TypeOK, Partition, CleanOK, SoundOK, SameRequests
<1>1. CASE \E acks \in AcksModes : Produce(acks)
  <2>1. PICK acks \in AcksModes : Produce(acks)
    BY <1>1
  <2>2. CASE Refuse(acks)
    BY <1>0, <2>2 DEF Refuse, CleanOK, SoundOK, AckedStored
  <2>3. CASE Accept(acks)
    <3> DEFINE p == AppendRecord(part, produced + 1)
               mine == [offset |-> part.leo, record |-> produced + 1]
    <3>1. Led(p) /\ p.log = part.log \cup {mine} /\ p.pendingAcks = part.pendingAcks
      BY <1>0, Appended, AppendedLed, Zenon
    <3>2. Sound(p, copies') /\ Advances(part, p)
      BY <1>0, <2>3, AppendedSound DEF Accept
    <3>3. mine.offset = part.leo /\ mine.record = produced + 1
      OBVIOUS
    <3>4. CASE part' = Park(p, part.leo, produced + 1) /\ acked' = acked
      <4>1. /\ part'.log = p.log /\ part'.leo = p.leo /\ part'.isr = p.isr
            /\ part'.highWatermark = p.highWatermark
            /\ part'.replicaLeo = p.replicaLeo
        BY <3>1, <3>4 DEF Park, Led, Partition
      <4>2. Led(part)'
        BY <1>0, <3>1, <3>4, ParkedLed DEF Led
      <4>3. Sound(part', copies') /\ Advances(part, part')
        BY <3>2, <4>1 DEF Sound, Dense, Advances
      <4> QED BY <3>4, <4>2, <4>3, StillCommitted DEF CleanOK, SoundOK
    <3>5. CASE /\ part' = p
               /\ acked' = IF acks = "all" THEN acked \cup {produced + 1} ELSE acked
               /\ acks = "all" => ~(p.highWatermark <= part.leo)
      <4>1. Led(part)' /\ p.highWatermark \in Nat
        BY <3>1, <3>5 DEF Led, Partition
      <4>2. \A record \in acked' \ acked :
              \E e \in part'.log : e.record = record /\ e.offset < part'.highWatermark
        <5> HIDE DEF mine, p
        <5> SUFFICES ASSUME NEW record \in acked' \ acked
                     PROVE  mine \in p.log /\ mine.record = record /\ mine.offset < p.highWatermark
          BY <3>5
        <5>1. acks = "all" /\ record = produced + 1
          BY <3>5
        <5> QED BY <1>0, <3>1, <3>3, <3>5, <4>1, <5>1
      <4> QED BY <3>2, <3>5, <4>1, <4>2, StillCommitted DEF CleanOK, SoundOK
    <3> QED BY <2>3, <3>4, <3>5 DEF Accept
  <2> QED BY <2>1, <2>2, <2>3 DEF Produce
<1>2. CASE \E b \in Replicas : BrokerDown(b)
  <2>1. PICK b \in Replicas : BrokerDown(b)
    BY <1>2
  <2>2. SameRequests(part, WithoutFollower(part, b))
    BY <1>0, ReplicationSame
  <2>3. Sound(WithoutFollower(part, b), copies) /\ Advances(part, WithoutFollower(part, b))
    BY <1>0, WithoutFollowerSound
  <2> QED BY <2>1, <2>2, <2>3, WithoutFollowerLed, ResolveClean DEF BrokerDown
<1>3. CASE \E b \in Replicas : BrokerUp(b)
  BY <1>0, <1>3 DEF BrokerUp, CleanOK, SoundOK, AckedStored
<1>4. CASE \E b \in Replicas, lag \in 0 .. LagMax + 1 : ReplicaLag(b, lag)
  <2>1. PICK b \in Replicas, lag \in 0 .. LagMax + 1 : ReplicaLag(b, lag)
    BY <1>4
  <2> DEFINE q == [part EXCEPT !.idle[b] = lag]
  <2>2. Led(q)
    <3>1. [part.idle EXCEPT ![b] = lag] \in [Replicas -> 0 .. LagMax + 1]
      BY <2>1 DEF Led, Partition
    <3> QED BY <3>1 DEF Led, Partition
  <2>3. SameRequests(part, ShrinkIsr(q))
    BY <2>1, ReplicationSame
  <2>4. Sound(q, copies) /\ q.log = part.log /\ q.highWatermark = part.highWatermark
    BY <1>0 DEF Sound, Dense, Led, Partition
  <2> HIDE DEF q
  <2>5. Sound(ShrinkIsr(q), copies) /\ Advances(part, ShrinkIsr(q))
    BY <2>2, <2>4, ShrunkSound DEF Advances
  <2>6. Resolve(ShrinkIsr(q)) /\ copies' = copies
    BY <2>1 DEF ReplicaLag, q
  <2> QED BY <2>2, <2>3, <2>5, <2>6, ShrunkLed, ResolveClean DEF q
<1>5. CASE \E b \in Replicas : ReplicaFetch(b)
  <2>1. PICK b \in Replicas : ReplicaFetch(b)
    BY <1>5
  <2>2. CASE b \in online /\ b # part.leader
    <3>1. /\ SameRequests(part, Fetched(part, b))
          /\ Sound(Fetched(part, b), [copies EXCEPT ![b] = part.log])
          /\ Advances(part, Fetched(part, b)) /\ Led(Fetched(part, b))
      BY <1>0, ReplicationSame, FetchedSound, FetchedLed
    <3>2. Resolve(Fetched(part, b)) /\ copies' = [copies EXCEPT ![b] = part.log]
      BY <2>1, <2>2 DEF ReplicaFetch
    <3> QED BY <3>1, <3>2, ResolveClean
  <2>3. CASE ~(b \in online /\ b # part.leader)
    <3>1. Resolve(part) /\ copies' = copies
      BY <2>1, <2>3 DEF ReplicaFetch
    <3> QED BY <1>0, <3>1, ResolveClean
  <2> QED BY <2>2, <2>3
<1>6. CASE IsrShrink
  <2>1. SameRequests(part, ShrinkIsr(part))
    BY <1>0, ReplicationSame, ReplicasAssumption
  <2> QED BY <1>0, <1>6, <2>1, ShrunkLed, ShrunkSound, ResolveClean DEF IsrShrink
<1>7. CASE IsrExpand
  <2>1. SameRequests(part, ExpandIsr(part, online))
    BY <1>0, ReplicationSame, ReplicasAssumption
  <2> QED BY <1>0, <1>7, <2>1, ExpandedLed, ExpandedSound, ResolveClean DEF IsrExpand
<1>8. CASE LeaderElection
  <2>1. CASE ElectInSync
    <3>1. PICK r \in Replicas : /\ r \in CleanCandidates(part, online)
                                /\ Resolve(ElectClean(part, r, online))
                                /\ copies' = [copies EXCEPT ![r] = part.log]
      BY <2>1 DEF ElectInSync, IsFirst
    <3>2. SameRequests(part, ElectClean(part, r, online))
      BY <1>0, ReplicationSame
    <3> QED BY <1>0, <3>1, <3>2, ElectedCleanLed, ElectedCleanSound, ResolveClean
  <2>2. CASE ElectNobody
    BY <1>0, <2>2, ResolveClean DEF ElectNobody
  <2> QED BY <1>8, <2>1, <2>2 DEF LeaderElection, ElectOutOfSync
<1>9. CASE Tick
  <2>1. /\ part'.log = part.log /\ part'.leo = part.leo /\ part'.isr = part.isr
        /\ part'.replicaLeo = part.replicaLeo /\ part'.highWatermark = part.highWatermark
        /\ UNCHANGED <<acked, copies>>
    BY <1>9 DEF Tick, Led, Partition
  <2> QED BY <1>0, <2>1 DEF CleanOK, SoundOK, Sound, Dense, AckedStored, Advances
<1>10. CASE UNCHANGED vars
  BY <1>0, <1>10 DEF vars, CleanOK, SoundOK, AckedStored
<1> QED BY <1>1, <1>2, <1>3, <1>4, <1>5, <1>6, <1>7, <1>8, <1>9, <1>10 DEF Next, Replicate

\* What a step must never do to an acks=all producer, under either policy, and
\* what it must not do to the topic's configuration.
Truthful ==
  /\ part'.config = part.config
  /\ \A record \in acked' \ acked :
       \E e \in part'.log : e.record = record /\ e.offset < part'.highWatermark

LEMMA ResolveTruthful ==
  ASSUME LedOK, AnsweringOK, NEW q, Led(q), q.config = part.config,
         q.pendingAcks \subseteq q.log, Resolve(q)
  PROVE  Truthful
<1>1. /\ part' = Settled(q) /\ acked' = acked \cup RecordsOf(Satisfied(q))
  BY DEF Resolve
<1>2. /\ part'.log = q.log /\ part'.highWatermark = q.highWatermark
      /\ part'.config = part.config
  BY <1>1 DEF Settled, Led, Partition
<1> QED BY <1>1, <1>2 DEF Truthful, RecordsOf, Satisfied

LEMMA ResolveSame ==
  ASSUME LedOK, AnsweringOK, NEW q, Led(q), SameRequests(part, q), Resolve(q)
  PROVE  Truthful
BY ResolveTruthful DEF SameRequests, AnsweringOK, Answering

LEMMA AlwaysTruthful ==
  ASSUME LedOK, AnsweringOK, [Next]_vars
  PROVE  Truthful
<1> USE LedPart
<1>0. /\ part.leo \in Nat /\ 0 \in 0 .. LagMax + 1 /\ SameRequests(part, part)
      /\ produced + 1 \in Nat
  BY BoundsAssumption, LagMaxAssumption DEF LedOK, TypeOK, Partition, SameRequests
<1>1. CASE \E acks \in AcksModes : Produce(acks)
  <2>1. PICK acks \in AcksModes : Produce(acks)
    BY <1>1
  <2>2. CASE Refuse(acks)
    BY <2>2 DEF Refuse, Truthful
  <2>3. CASE Accept(acks)
    <3> DEFINE p == AppendRecord(part, produced + 1)
               mine == [offset |-> part.leo, record |-> produced + 1]
    <3>1. /\ Led(p) /\ p.log = part.log \cup {mine} /\ p.config = part.config
      BY <1>0, Appended, AppendedLed, Zenon
    <3>2. CASE part' = Park(p, part.leo, produced + 1) /\ acked' = acked
      BY <3>1, <3>2 DEF Park, Led, Partition, Truthful
    <3>3. CASE /\ part' = p /\ acked' \subseteq acked \cup {produced + 1}
               /\ acks = "all" => p.highWatermark > part.leo
               /\ acks # "all" => acked' = acked
      <4>1. mine \in p.log /\ mine.record = produced + 1 /\ mine.offset = part.leo
        BY <3>1
      <4> HIDE DEF p, mine
      <4>2. p.highWatermark \in Nat
        BY <3>1 DEF Led, Partition
      <4> QED BY <1>0, <3>1, <3>3, <4>1, <4>2 DEF Truthful
    <3>4. p.highWatermark \in Nat
      BY <3>1 DEF Led, Partition
    <3> QED BY <1>0, <2>3, <3>2, <3>3, <3>4 DEF Accept
  <2> QED BY <2>1, <2>2, <2>3 DEF Produce
<1>2. CASE \E b \in Replicas : BrokerDown(b)
  <2>1. PICK b \in Replicas : BrokerDown(b)
    BY <1>2
  <2>2. SameRequests(part, WithoutFollower(part, b))
    BY <1>0, ReplicationSame
  <2> QED BY <2>1, <2>2, WithoutFollowerLed, ResolveSame DEF BrokerDown
<1>3. CASE (\E b \in Replicas : BrokerUp(b)) \/ UNCHANGED vars
  BY <1>3 DEF BrokerUp, Truthful, vars
<1>4. CASE \E b \in Replicas, lag \in 0 .. LagMax + 1 : ReplicaLag(b, lag)
  <2>1. PICK b \in Replicas, lag \in 0 .. LagMax + 1 : ReplicaLag(b, lag)
    BY <1>4
  <2> DEFINE q == [part EXCEPT !.idle[b] = lag]
  <2>2. Led(q)
    <3>1. [part.idle EXCEPT ![b] = lag] \in [Replicas -> 0 .. LagMax + 1]
      BY <2>1 DEF Led, Partition
    <3> QED BY <3>1 DEF Led, Partition
  <2>3. SameRequests(part, ShrinkIsr(q))
    BY <2>1, ReplicationSame
  <2> QED BY <2>1, <2>2, <2>3, ShrunkLed, ResolveSame DEF ReplicaLag
<1>5. CASE \E b \in Replicas : ReplicaFetch(b)
  <2>1. PICK b \in Replicas : ReplicaFetch(b)
    BY <1>5
  <2>2. SameRequests(part, Fetched(part, b))
    BY <1>0, ReplicationSame
  <2> QED BY <1>0, <2>1, <2>2, FetchedLed, ResolveSame DEF ReplicaFetch
<1>6. CASE IsrShrink \/ IsrExpand
  <2>1. SameRequests(part, ShrinkIsr(part)) /\ SameRequests(part, ExpandIsr(part, online))
    BY <1>0, ReplicationSame, ReplicasAssumption
  <2> QED BY <1>6, <2>1, ShrunkLed, ExpandedLed, ResolveSame DEF IsrShrink, IsrExpand
<1>7. CASE LeaderElection
  <2>1. CASE ElectInSync
    <3>1. PICK r \in Replicas : /\ r \in CleanCandidates(part, online)
                                /\ Resolve(ElectClean(part, r, online))
      BY <2>1 DEF ElectInSync, IsFirst
    <3>2. SameRequests(part, ElectClean(part, r, online))
      BY <1>0, ReplicationSame
    <3> QED BY <3>1, <3>2, ElectedCleanLed, ResolveSame
  <2>2. CASE ElectNobody
    BY <1>0, <2>2, ResolveSame DEF ElectNobody
  <2>3. CASE ElectOutOfSync
    <3>1. PICK r \in Replicas :
            /\ part' = Settled(ElectUnclean(part, r))
            /\ acked' = acked \cup RecordsOf(Satisfied(ElectUnclean(part, r)))
      BY <2>3 DEF ElectOutOfSync
    <3> DEFINE p == ElectUnclean(part, r)
    <3>2. /\ p.log = {e \in part.log : e.offset < part.replicaLeo[r]}
          /\ p.pendingAcks = part.pendingAcks \ Stranded(part, r)
          /\ p.config = part.config /\ part.replicaLeo[r] \in Nat
          /\ part.pendingAcks \in SUBSET Pending
      BY DEF ElectUnclean, Led, Partition
    <3>3. p.pendingAcks \subseteq p.log
      BY <3>2 DEF AnsweringOK, Answering, Stranded, Pending
    <3>4. Led(p)
      BY ElectedUncleanLed
    <3> HIDE DEF p
    <3>5. /\ part'.log = p.log /\ part'.highWatermark = p.highWatermark
          /\ part'.config = part.config
      BY <3>1, <3>2, <3>4 DEF p, Settled, Led, Partition
    <3>6. acked' = acked \cup RecordsOf(Satisfied(p))
      BY <3>1 DEF p
    <3> QED BY <3>3, <3>5, <3>6 DEF Truthful, RecordsOf, Satisfied
  <2> QED BY <1>7, <2>1, <2>2, <2>3 DEF LeaderElection
<1>8. CASE Tick
  BY <1>8 DEF Tick, Truthful, Led, Partition
<1> QED BY <1>1, <1>2, <1>3, <1>4, <1>5, <1>6, <1>7, <1>8 DEF Next, Replicate

\* The committed prefix of a topic that does not allow unclean election.
CleanIf == ~Unclean => CleanOK

LEMMA CleanHolds == Spec => [](LedOK /\ AnsweringOK /\ CleanIf)
<1>1. Init => CleanIf
  BY CleanInit DEF CleanIf
<1>2. LedOK /\ AnsweringOK /\ CleanIf /\ [Next]_vars => CleanIf'
  BY CleanStep, AlwaysTruthful DEF CleanIf, Truthful, Unclean
<1> QED BY <1>1, <1>2, LedInit, LedStep, AnsweringInit, AnsweringStep, PTL DEF Spec

\* With unclean election off, everything below the high watermark has been
\* fetched by every member of the ISR.
THEOREM CommittedOnEveryIsrMember == Spec => []CommittedIsReplicated
<1>1. LedOK /\ CleanIf => CommittedIsReplicated
  <2> SUFFICES ASSUME LedOK, CleanIf, ~Unclean, NEW r \in part.isr, NEW e \in part.log,
                      e.offset < part.highWatermark
               PROVE  e \in copies[r]
    BY DEF CommittedIsReplicated
  <2>1. /\ r \in Replicas /\ e.offset \in Nat /\ part.highWatermark \in Nat
        /\ part.replicaLeo[r] \in Nat
    BY LedPart DEF Led, Partition, Entry
  <2>2. part.highWatermark <= part.replicaLeo[r]
    BY DEF CleanIf, CleanOK, SoundOK, Sound
  <2> QED BY <2>1, <2>2 DEF CleanIf, CleanOK, SoundOK, Sound
<1> QED BY <1>1, CleanHolds, PTL

\* With unclean election off, a record acknowledged to an acks=all producer is
\* never lost: it stays in the log below the high watermark.
THEOREM AckedNeverLost == Spec => []AckedIsCommitted
<1>1. CleanIf => AckedIsCommitted
  BY DEF CleanIf, CleanOK, AckedStored, AckedIsCommitted
<1> QED BY <1>1, CleanHolds, PTL

\* Consumers of a topic without unclean election never see the high watermark
\* move back.
HighWatermarkNeverRegresses ==
  [][~Unclean => part'.highWatermark >= part.highWatermark]_vars

\* With unclean election off, no step moves the high watermark back.
THEOREM HighWatermarkOnlyRises == Spec => HighWatermarkNeverRegresses
<1>1. LedOK /\ AnsweringOK /\ CleanIf /\ [Next]_vars
         => [~Unclean => part'.highWatermark >= part.highWatermark]_vars
  <2> SUFFICES ASSUME LedOK, AnsweringOK, CleanIf, [Next]_vars, ~Unclean
               PROVE  part'.highWatermark >= part.highWatermark
    OBVIOUS
  <2>1. Advances(part, part') /\ LedOK'
    BY CleanStep, LedStep DEF CleanIf
  <2>2. part.highWatermark \in Nat /\ part'.highWatermark \in Nat
    BY <2>1 DEF LedOK, TypeOK, Partition
  <2> QED BY <2>1, <2>2 DEF Advances
<1> QED BY <1>1, CleanHolds, PTL DEF Spec, HighWatermarkNeverRegresses

-----------------------------------------------------------------------------
(* Replication implements CommittedLog, under either election policy.      *)

\* An answer, once given, stands.
LEMMA AnswersStand ==
  ASSUME [Next]_vars
  PROVE  acked \subseteq acked' /\ refused \subseteq refused'
<1>1. CASE \E acks \in AcksModes : Produce(acks)
  BY <1>1 DEF Produce, Refuse, Accept
<1>2. CASE \E b \in Replicas : BrokerDown(b) \/ BrokerUp(b) \/ ReplicaFetch(b)
  BY <1>2 DEF BrokerDown, BrokerUp, ReplicaFetch, Resolve
<1>3. CASE \E b \in Replicas, lag \in 0 .. LagMax + 1 : ReplicaLag(b, lag)
  BY <1>3 DEF ReplicaLag, Resolve
<1>4. CASE IsrShrink \/ IsrExpand \/ Tick
  BY <1>4 DEF IsrShrink, IsrExpand, Tick, Resolve
<1>5. CASE LeaderElection
  <2>1. CASE ElectInSync \/ ElectNobody
    BY <2>1 DEF ElectInSync, ElectNobody, Resolve
  <2>2. CASE ElectOutOfSync
    BY <2>2 DEF ElectOutOfSync
  <2> QED BY <1>5, <2>1, <2>2 DEF LeaderElection
<1>6. CASE UNCHANGED vars
  BY <1>6 DEF vars
<1> QED BY <1>1, <1>2, <1>3, <1>4, <1>5, <1>6 DEF Next, Replicate

\* A sound partition has one entry at each offset below its high watermark.
LEMMA ReadableDense ==
  ASSUME NEW p, Led(p), NEW c, Sound(p, c)
  PROVE  /\ \A e, f \in p.log : e.offset = f.offset => e = f
         /\ \A n \in Nat : n < p.highWatermark => \E e \in p.log : e.offset = n
<1>1. PICK r \in p.isr : r \in Replicas
  BY DEF Led, Partition
<1>2. p.highWatermark \in Nat /\ p.leo \in Nat /\ p.replicaLeo[r] \in Nat
  BY <1>1 DEF Led, Partition
<1>3. p.highWatermark <= p.leo
  BY <1>1, <1>2 DEF Sound
<1> QED BY <1>2, <1>3 DEF Sound, Dense

LEMMA ExtendStep ==
  ASSUME ~Unclean, LedOK, AnsweringOK, CleanOK, [Next]_vars
  PROVE  Promise!Extend
<1>1. LedOK' /\ CleanOK' /\ Advances(part, part')
  BY LedStep, CleanStep
<1>2. Led(part) /\ Led(part)'
  BY <1>1 DEF LedOK, TypeOK, LeaderInIsr, Led
<1>3. /\ part.highWatermark \in Nat /\ part'.highWatermark \in Nat
      /\ part.log \subseteq Entry /\ part'.log \subseteq Entry
  BY <1>2 DEF Led, Partition
<1>4. {e \in Readable' : e.offset < part.highWatermark} = Readable
  BY <1>1, <1>3 DEF Readable, Advances, Entry
<1>5. \A e \in Readable' : e.offset < part'.highWatermark
  BY DEF Readable
<1>6. /\ \A e, f \in Readable' : e.offset = f.offset => e = f
      /\ \A n \in 0 .. part'.highWatermark - 1 : \E e \in Readable' : e.offset = n
  BY <1>1, <1>2, <1>3, ReadableDense DEF Readable, CleanOK, SoundOK, Led
<1>7. part'.highWatermark >= part.highWatermark
  BY <1>1, <1>3 DEF Advances
<1> QED BY <1>3, <1>4, <1>5, <1>6, <1>7 DEF Promise!Extend

LEMMA PromiseStep ==
  ASSUME LedOK, AnsweringOK, CleanIf, [Next]_vars
  PROVE  Promise!Next
<1>1. Unclean \/ Promise!Extend
  BY ExtendStep DEF CleanIf
<1>2. Unclean' = Unclean
  BY AlwaysTruthful DEF Truthful, Unclean
<1>3. Promise!Answer
  <2>1. acked' \cap refused' = {}
    BY AnsweringStep DEF AnsweringOK, Answering
  <2>2. \A record \in acked' \ acked : \E e \in Readable' : e.record = record
    BY AlwaysTruthful DEF Truthful, Readable
  <2> QED BY <2>1, <2>2, AnswersStand DEF Promise!Answer
<1> QED BY <1>1, <1>2, <1>3 DEF Promise!Next

\* Replication implements a committed log: answers are final and true, and on
\* a topic without unclean election what consumers may read only grows at its
\* end.
THEOREM ReplicationImplementsCommittedLog == Spec => ImplementsCommittedLog
<1>1. Init => Promise!Init
  <2> SUFFICES ASSUME Init PROVE Promise!Init
    OBVIOUS
  <2>1. PICK config \in Topics : part = CreatePartition(FirstLeader, config)
    BY DEF Init
  <2>2. /\ part.log = {} /\ part.highWatermark = 0 /\ Unclean \in BOOLEAN
    BY <2>1, TopicsAssumption DEF CreatePartition, TopicConfig, Unclean
  <2> QED BY <2>2 DEF Init, Promise!Init, Readable
<1>2. LedOK /\ AnsweringOK /\ CleanIf /\ [Next]_vars
        => [Promise!Next]_<<Readable, part.highWatermark, Unclean, acked, refused>>
  BY PromiseStep
<1> QED BY <1>1, <1>2, CleanHolds, PTL DEF Spec, ImplementsCommittedLog, Promise!Spec

-----------------------------------------------------------------------------
(* The producer: what its proofs speak of. *)

\* The records are numbered from 1.
Numbers == Nat \ {0}

\* A produce-retry event.
Retry == [attempt : Nat, records : Seq(Numbers)]

\* Every entry of the log lies below the log end.
Below(p) == \A e \in p.log : e.offset < p.leo

\* The log is what has been sent so far, and the last sequence says how much.
InSequence(p, last) ==
  /\ last = p.leo - 1
  /\ p.log = {[offset |-> k - 1, record |-> k] : k \in 1 .. p.leo}

\* The first copies of the records are in the order of the records.
FirstInOrder(p) ==
  \A e, f \in p.log : e.record < f.record =>
    \E g \in p.log : g.record = e.record /\ g.offset < f.offset

Increasing(seq) == \A i, j \in DOMAIN seq : i < j => seq[i] < seq[j]

\* The record comes after all that is in the log.
Fresh(p, record) == \A e \in p.log : e.record < record

\* The record may be appended without upsetting the order of first copies.
Ahead(p, records, i) ==
  \/ Stored(p, records[i])
  \/ Increasing(records) /\ Fresh(p, records[i])

-----------------------------------------------------------------------------
(* The append loop.                                                        *)

\* Deliver, with its use of the producer's configuration made a parameter.
VerdictOf(idempotent, record, last) ==
  IF ~idempotent \/ record - 1 = last + 1 THEN "ok"
  ELSE IF record - 1 <= last THEN "duplicate"
  ELSE "out-of-order"

DeliverStep(idempotent, aux, done, record) ==
  IF done.rejected # <<>>
  THEN [done EXCEPT !.rejected = Append(@, record)]
  ELSE CASE VerdictOf(idempotent, record, done.last) = "duplicate"    -> done
         [] VerdictOf(idempotent, record, done.last) = "out-of-order" ->
              [done EXCEPT !.rejected = <<record>>]
         [] VerdictOf(idempotent, record, done.last) = "ok" ->
              [done EXCEPT !.part = AppendRecord(@, record),
                           !.last = IF idempotent THEN record - 1 ELSE @]

Deliveries == [part : Partition, last : Int, rejected : Seq(Numbers)]

\* One turn of the loop does one of four things.
LEMMA DeliverCases ==
  ASSUME NEW idempotent \in BOOLEAN, NEW done \in Deliveries, NEW record \in Numbers, NEW aux
  PROVE  LET next == DeliverStep(idempotent, aux, done, record)
         IN  \/ /\ done.rejected # <<>>
                /\ next = [done EXCEPT !.rejected = Append(done.rejected, record)]
             \/ /\ idempotent /\ done.rejected = <<>>
                /\ record - 1 <= done.last
                /\ next = done
             \/ /\ idempotent /\ done.rejected = <<>>
                /\ next = [done EXCEPT !.rejected = <<record>>]
             \/ /\ done.rejected = <<>>
                /\ ~idempotent \/ record - 1 = done.last + 1
                /\ next = [part |-> AppendRecord(done.part, record),
                           last |-> IF idempotent THEN record - 1 ELSE done.last,
                           rejected |-> <<>>]
<1> DEFINE verdict == VerdictOf(idempotent, record, done.last)
           next == DeliverStep(idempotent, aux, done, record)
<1>1. CASE done.rejected # <<>>
  BY <1>1 DEF DeliverStep
<1>2. CASE done.rejected = <<>> /\ verdict = "duplicate"
  <2>1. idempotent /\ record - 1 <= done.last
    BY <1>2 DEF VerdictOf
  <2>2. next = done
    BY <1>2 DEF DeliverStep
  <2> QED
    BY <1>2, <2>1, <2>2
<1>3. CASE done.rejected = <<>> /\ verdict = "out-of-order"
  <2>1. idempotent
    BY <1>3 DEF VerdictOf
  <2>2. next = [done EXCEPT !.rejected = <<record>>]
    BY <1>3 DEF DeliverStep
  <2> QED
    BY <1>3, <2>1, <2>2
<1>4. CASE done.rejected = <<>> /\ verdict = "ok"
  <2>1. ~idempotent \/ record - 1 = done.last + 1
    BY <1>4 DEF VerdictOf
  <2>2. next = [done EXCEPT !.part = AppendRecord(done.part, record),
                            !.last = IF idempotent THEN record - 1 ELSE done.last]
    BY <1>4 DEF DeliverStep
  <2>3. next = [part |-> AppendRecord(done.part, record),
                last |-> IF idempotent THEN record - 1 ELSE done.last,
                rejected |-> <<>>]
    BY <1>4, <2>2, Zenon DEF Deliveries
  <2> QED
    BY <1>4, <2>1, <2>3
<1>5. verdict \in {"duplicate", "out-of-order", "ok"}
  BY DEF VerdictOf
<1> QED
  BY <1>1, <1>2, <1>3, <1>4, <1>5

\* What is known after the first turns of the loop.  The last two conjuncts
\* are about an idempotent producer, whose log holds the first records only,
\* and about one without sequences, whose records are new or copies.
DeliveredSoFar(ctx, turn, done) ==
  /\ done \in Deliveries
  /\ Led(done.part)
  /\ /\ done.part.pendingAcks = ctx.part.pendingAcks
     /\ done.part.config = ctx.part.config
     /\ done.part.leader = ctx.part.leader
  /\ /\ ctx.part.log \subseteq done.part.log
     /\ \A e \in done.part.log : e \in ctx.part.log \/ e.record \in Range(ctx.records)
     /\ Below(ctx.part) => Below(done.part)
  /\ /\ \A k \in Range(done.rejected) : k \in Range(ctx.records)
     /\ done.rejected # <<>> => ctx.idempotent
     /\ done.rejected = <<>> => \A i \in 1 .. turn :
          \/ Stored(done.part, ctx.records[i])
          \/ ctx.idempotent /\ ctx.records[i] - 1 <= done.last
  /\ ctx.idempotent /\ InSequence(ctx.part, ctx.last) => InSequence(done.part, done.last)
  /\ /\ ~ctx.idempotent /\ FirstInOrder(ctx.part) /\ Below(ctx.part)
     /\ \A i \in DOMAIN ctx.records : Ahead(ctx.part, ctx.records, i)
     => /\ FirstInOrder(done.part)
        /\ \A i \in DOMAIN ctx.records : i > turn => Ahead(done.part, ctx.records, i)

DeliverFold == INSTANCE LeftFold WITH Op <- DeliverStep, Inv <- DeliveredSoFar

\* An entry of a Partition's log.
LEMMA EntryOfLog ==
  ASSUME NEW p \in Partition
  PROVE  /\ \A e \in p.log : /\ e.offset \in Nat /\ e.record \in Nat
                             /\ e = [offset |-> e.offset, record |-> e.record]
         /\ p.leo \in Nat /\ p.highWatermark \in Nat
BY DEF Partition, Entry

\* A turn that appends nothing: either the record is a repetition, or the
\* loop has come to an out-of-order record.
LEMMA TurnWithoutAppend ==
  ASSUME NEW ctx, NEW n \in Nat, ctx.records \in Seq(Numbers), NEW turn \in 1 .. Len(ctx.records),
         ctx.idempotent, NEW done, DeliveredSoFar(ctx, turn - 1, done),
         NEW next \in Deliveries, next.part = done.part, next.last = done.last,
         \A k \in Range(next.rejected) : k \in Range(ctx.records),
         next.rejected = <<>> => done.rejected = <<>> /\ ctx.records[turn] - 1 <= done.last
  PROVE  DeliveredSoFar(ctx, turn, next)
<1>1. next.rejected = <<>> => \A i \in 1 .. turn :
        \/ Stored(next.part, ctx.records[i])
        \/ ctx.idempotent /\ ctx.records[i] - 1 <= next.last
  <2> SUFFICES ASSUME next.rejected = <<>>, NEW i \in 1 .. turn
               PROVE  \/ Stored(next.part, ctx.records[i])
                      \/ ctx.idempotent /\ ctx.records[i] - 1 <= next.last
    OBVIOUS
  <2>1. CASE i = turn
    BY <2>1
  <2>2. CASE i # turn
    <3>1. i \in 1 .. turn - 1
      BY <2>2
    <3> QED
      BY <3>1 DEF DeliveredSoFar
  <2> QED
    BY <2>1, <2>2
<1> QED
  BY <1>1 DEF DeliveredSoFar

\* The log after an append.
LEMMA AppendedLog ==
  ASSUME NEW p, Led(p), NEW record \in Numbers
  PROVE  LET q == AppendRecord(p, record)
         IN  /\ Led(q)
             /\ q.log = p.log \cup {[offset |-> p.leo, record |-> record]}
             /\ q.leo = p.leo + 1
             /\ q.pendingAcks = p.pendingAcks /\ q.config = p.config /\ q.leader = p.leader
             /\ Stored(q, record)
             /\ \A k : Stored(p, k) => Stored(q, k)
             /\ Below(p) => Below(q)
<1> DEFINE q == AppendRecord(p, record)
           entry == [offset |-> p.leo, record |-> record]
<1>1. record \in Nat
  BY DEF Numbers
<1>2. /\ Led(q) /\ q.log = p.log \cup {entry} /\ q.leo = p.leo + 1
      /\ q.pendingAcks = p.pendingAcks /\ q.config = p.config /\ q.leader = p.leader
  BY <1>1, Appended, AppendedLed
<1>3. /\ \A e \in p.log : e.offset \in Nat
      /\ p.leo \in Nat
  BY EntryOfLog DEF Led
<1>4. entry.record = record /\ entry.offset = p.leo
  OBVIOUS
<1> HIDE DEF q, entry
<1>5. Stored(q, record) /\ \A k : Stored(p, k) => Stored(q, k)
  BY <1>2, <1>4 DEF Stored
<1>6. Below(p) => Below(q)
  BY <1>2, <1>3, <1>4 DEF Below
<1> QED
  BY <1>2, <1>5, <1>6 DEF q, entry

\* Appending the next record of the sequence.
LEMMA AppendedInSequence ==
  ASSUME NEW p, Led(p), NEW record \in Numbers, NEW last \in Int, InSequence(p, last),
         record - 1 = last + 1
  PROVE  InSequence(AppendRecord(p, record), record - 1)
<1> DEFINE q == AppendRecord(p, record)
<1>1. q.log = p.log \cup {[offset |-> p.leo, record |-> record]} /\ q.leo = p.leo + 1
  BY AppendedLog
<1>2. p.leo \in Nat
  BY EntryOfLog DEF Led
<1>3. record = p.leo + 1 /\ record - 1 = p.leo
  BY <1>2 DEF InSequence, Numbers
<1>4. 1 .. p.leo + 1 = (1 .. p.leo) \cup {p.leo + 1}
  BY <1>2
<1> HIDE DEF q
<1>5. q.log = {[offset |-> k - 1, record |-> k] : k \in 1 .. p.leo + 1}
  BY <1>1, <1>3, <1>4 DEF InSequence
<1>6. record - 1 = q.leo - 1
  BY <1>1, <1>2, <1>3
<1> QED
  BY <1>1, <1>5, <1>6 DEF InSequence, q

\* Appending a copy, or a record greater than all that is stored.
LEMMA AppendedInOrder ==
  ASSUME NEW p, Led(p), NEW records \in Seq(Numbers), NEW turn \in DOMAIN records,
         FirstInOrder(p), Below(p), Ahead(p, records, turn)
  PROVE  /\ FirstInOrder(AppendRecord(p, records[turn]))
         /\ \A i \in DOMAIN records : turn < i /\ Ahead(p, records, i) =>
              Ahead(AppendRecord(p, records[turn]), records, i)
<1> DEFINE record == records[turn]
           q == AppendRecord(p, record)
           entry == [offset |-> p.leo, record |-> record]
<1>1. record \in Numbers /\ record \in Nat
  BY DEF Numbers
<1>2. /\ q.log = p.log \cup {entry} /\ Stored(q, record)
      /\ \A k : Stored(p, k) => Stored(q, k)
  BY <1>1, AppendedLog
<1>3. \A e \in p.log : e.offset \in Nat /\ e.record \in Nat
  BY EntryOfLog DEF Led
<1>4. entry.record = record /\ entry.offset = p.leo /\ entry \in q.log
  BY <1>2
<1> HIDE DEF q, entry
<1>5. FirstInOrder(q)
  <2> SUFFICES ASSUME NEW e \in q.log, NEW f \in q.log, e.record < f.record
               PROVE  \E g \in q.log : g.record = e.record /\ g.offset < f.offset
    BY DEF FirstInOrder
  <2>1. CASE e \in p.log /\ f \in p.log
    BY <1>2, <2>1 DEF FirstInOrder
  <2>2. CASE e \in p.log /\ f = entry
    BY <1>2, <1>4, <2>2 DEF Below
  <2>3. CASE e = entry /\ f \in p.log
    <3>1. ~Fresh(p, record)
      BY <1>1, <1>3, <1>4, <2>3 DEF Fresh
    <3>2. PICK d \in p.log : d.record = record
      BY <3>1 DEF Ahead, Stored, record
    <3>3. d.record < f.record
      BY <1>4, <2>3, <3>2
    <3> QED
      BY <1>2, <1>4, <2>3, <3>2, <3>3 DEF FirstInOrder
  <2>4. CASE e = entry /\ f = entry
    BY <1>1, <1>4, <2>4
  <2> QED
    BY <1>2, <2>1, <2>2, <2>3, <2>4
<1>6. ASSUME NEW i \in DOMAIN records, turn < i, Ahead(p, records, i)
      PROVE  Ahead(q, records, i)
  <2>1. CASE Stored(p, records[i])
    BY <1>2, <2>1 DEF Ahead
  <2>2. CASE Increasing(records) /\ Fresh(p, records[i])
    <3>1. record < records[i]
      BY <1>6, <2>2 DEF Increasing
    <3> QED
      BY <1>2, <1>4, <2>2, <3>1 DEF Ahead, Fresh
  <2> QED
    BY <1>6, <2>1, <2>2 DEF Ahead
<1> QED
  BY <1>5, <1>6 DEF q

\* A turn that appends the record.
LEMMA TurnWithAppend ==
  ASSUME NEW ctx, ctx.records \in Seq(Numbers), ctx.idempotent \in BOOLEAN,
         NEW turn \in 1 .. Len(ctx.records),
         NEW done, DeliveredSoFar(ctx, turn - 1, done), done.rejected = <<>>,
         ctx.idempotent => ctx.records[turn] - 1 = done.last + 1,
         NEW next, next = [part |-> AppendRecord(done.part, ctx.records[turn]),
                           last |-> IF ctx.idempotent THEN ctx.records[turn] - 1 ELSE done.last,
                           rejected |-> <<>>]
  PROVE  DeliveredSoFar(ctx, turn, next)
<1> DEFINE record == ctx.records[turn]
           before == done.part
           after == AppendRecord(before, record)
           entry == [offset |-> before.leo, record |-> record]
<1>1. /\ record \in Numbers /\ record \in Range(ctx.records)
      /\ turn \in DOMAIN ctx.records /\ turn \in Nat
      /\ done.last \in Int /\ Led(before)
  BY DEF DeliveredSoFar, Deliveries, Range
<1>2. /\ next.part = after /\ next.rejected = <<>>
      /\ next.last = IF ctx.idempotent THEN record - 1 ELSE done.last
  OBVIOUS
<1>3. /\ Led(after)
      /\ after.log = before.log \cup {entry}
      /\ after.leo = before.leo + 1
      /\ after.pendingAcks = before.pendingAcks /\ after.config = before.config
      /\ after.leader = before.leader
      /\ Stored(after, record)
      /\ \A k : Stored(before, k) => Stored(after, k)
      /\ Below(before) => Below(after)
  <2> HIDE DEF before, record
  <2> QED
    BY <1>1, AppendedLog
<1>4. next \in Deliveries
  <2>1. after \in Partition /\ record - 1 \in Int /\ <<>> \in Seq(Numbers)
    BY <1>1, <1>3 DEF Led, Numbers
  <2>2. next = [part |-> after, last |-> IF ctx.idempotent THEN record - 1 ELSE done.last,
                rejected |-> <<>>]
    OBVIOUS
  <2>3. (IF ctx.idempotent THEN record - 1 ELSE done.last) \in Int
    BY <1>1, <2>1
  <2> HIDE DEF after, record
  <2> QED
    BY <2>1, <2>2, <2>3 DEF Deliveries
<1> HIDE DEF record, before, after, entry
<1>5. entry.record = record
  BY DEF entry
<1>6. /\ ctx.part.log \subseteq after.log
      /\ \A e \in after.log : e \in ctx.part.log \/ e.record \in Range(ctx.records)
      /\ Below(ctx.part) => Below(after)
  BY <1>1, <1>3, <1>5 DEF DeliveredSoFar, before
<1>7. \A i \in 1 .. turn : \/ Stored(after, ctx.records[i])
                           \/ ctx.idempotent /\ ctx.records[i] - 1 <= next.last
  <2> SUFFICES ASSUME NEW i \in 1 .. turn
               PROVE  \/ Stored(after, ctx.records[i])
                      \/ ctx.idempotent /\ ctx.records[i] - 1 <= next.last
    OBVIOUS
  <2>1. CASE i = turn
    BY <1>3, <2>1 DEF record
  <2>2. CASE i # turn
    <3>1. i \in 1 .. turn - 1
      BY <2>2
    <3>2. CASE Stored(before, ctx.records[i])
      BY <1>3, <3>2
    <3>3. CASE ctx.idempotent /\ ctx.records[i] - 1 <= done.last
      <4>1. ctx.records[i] \in Int /\ record \in Int
        BY DEF Numbers, record
      <4>2. next.last = record - 1 /\ record - 1 = done.last + 1
        BY <1>2, <3>3 DEF record
      <4> QED
        BY <1>1, <3>3, <4>1, <4>2
    <3> QED
      BY <3>1, <3>2, <3>3 DEF DeliveredSoFar, before
  <2> QED
    BY <2>1, <2>2
<1>8. ctx.idempotent /\ InSequence(ctx.part, ctx.last) => InSequence(after, next.last)
  <2> SUFFICES ASSUME ctx.idempotent, InSequence(ctx.part, ctx.last)
               PROVE  InSequence(after, next.last)
    OBVIOUS
  <2>1. InSequence(before, done.last) /\ record - 1 = done.last + 1
    BY DEF DeliveredSoFar, before, record
  <2>2. InSequence(AppendRecord(before, record), record - 1)
    BY <1>1, <2>1, AppendedInSequence
  <2> QED
    BY <1>2, <2>2 DEF after
<1>9. ASSUME ~ctx.idempotent, FirstInOrder(ctx.part), Below(ctx.part),
             \A i \in DOMAIN ctx.records : Ahead(ctx.part, ctx.records, i)
      PROVE  /\ FirstInOrder(after)
             /\ \A i \in DOMAIN ctx.records : i > turn => Ahead(after, ctx.records, i)
  <2>1. /\ FirstInOrder(before) /\ Below(before)
        /\ \A i \in DOMAIN ctx.records : i > turn - 1 => Ahead(before, ctx.records, i)
    BY <1>9 DEF DeliveredSoFar, before
  <2>2. Ahead(before, ctx.records, turn)
    BY <1>1, <2>1
  <2>3. /\ FirstInOrder(AppendRecord(before, ctx.records[turn]))
        /\ \A i \in DOMAIN ctx.records : turn < i /\ Ahead(before, ctx.records, i) =>
             Ahead(AppendRecord(before, ctx.records[turn]), ctx.records, i)
    BY <1>1, <2>1, <2>2, AppendedInOrder
  <2>4. ASSUME NEW i \in DOMAIN ctx.records, i > turn
        PROVE  Ahead(after, ctx.records, i)
    <3>1. Ahead(before, ctx.records, i)
      BY <1>1, <2>1, <2>4
    <3> QED
      BY <2>3, <2>4, <3>1 DEF after, record
  <2> QED
    BY <2>3, <2>4 DEF after, record
<1>10. Range(<<>>) = {}
  BY DEF Range
<1>11. next.part.pendingAcks = ctx.part.pendingAcks /\ next.part.config = ctx.part.config
       /\ next.part.leader = ctx.part.leader
  BY <1>2, <1>3 DEF DeliveredSoFar, before
<1> QED
  BY <1>2, <1>3, <1>4, <1>6, <1>7, <1>8, <1>9, <1>10, <1>11 DEF DeliveredSoFar

\* Appending an element adds it to the range.
LEMMA RangeOfAppend ==
  ASSUME NEW X, NEW s \in Seq(X), NEW e \in X
  PROVE  /\ Append(s, e) \in Seq(X) /\ Append(s, e) # <<>>
         /\ Range(Append(s, e)) = Range(s) \cup {e}
<1>1. /\ Append(s, e) \in Seq(X) /\ Len(Append(s, e)) = Len(s) + 1
      /\ \A i \in 1 .. Len(s) : Append(s, e)[i] = s[i]
      /\ Append(s, e)[Len(s) + 1] = e
      /\ Len(s) \in Nat
  OBVIOUS
<1>2. Append(s, e) # <<>>
  BY <1>1
<1>3. DOMAIN Append(s, e) = 1 .. Len(s) + 1 /\ DOMAIN s = 1 .. Len(s)
  BY <1>1
<1> DEFINE t == Append(s, e)
<1> HIDE DEF t
<1>4. \A i \in DOMAIN t : (i \in DOMAIN s /\ t[i] = s[i]) \/ t[i] = e
  BY <1>1, <1>3 DEF t
<1>5. \A i \in DOMAIN s : i \in DOMAIN t /\ t[i] = s[i]
  BY <1>1, <1>3 DEF t
<1>6. Len(s) + 1 \in DOMAIN t /\ t[Len(s) + 1] = e
  BY <1>1, <1>3 DEF t
<1>7. Range(t) = Range(s) \cup {e}
  BY <1>4, <1>5, <1>6 DEF Range
<1> QED
  BY <1>1, <1>2, <1>7 DEF t

\* A sequence of one element.
LEMMA RangeOfOne ==
  ASSUME NEW X, NEW e \in X
  PROVE  <<e>> \in Seq(X) /\ <<e>> # <<>> /\ Range(<<e>>) = {e}
<1>1. <<e>> \in Seq(X) /\ Len(<<e>>) = 1 /\ <<e>>[1] = e
  OBVIOUS
<1>2. Range(<<e>>) = {e}
  <2>1. DOMAIN <<e>> = {1}
    OBVIOUS
  <2> QED
    BY <1>1, <2>1 DEF Range
<1> QED
  BY <1>1, <1>2

LEMMA EveryTurn ==
  ASSUME NEW ctx, ctx.records \in Seq(Numbers), ctx.idempotent \in BOOLEAN,
         NEW turn \in 1 .. Len(ctx.records),
         NEW done, DeliveredSoFar(ctx, turn - 1, done), NEW aux
  PROVE  DeliveredSoFar(ctx, turn, DeliverStep(ctx.idempotent, aux, done, ctx.records[turn]))
<1> DEFINE record == ctx.records[turn]
           next == DeliverStep(ctx.idempotent, aux, done, record)
<1>1. /\ record \in Numbers /\ record \in Range(ctx.records)
      /\ done \in Deliveries
  BY DEF DeliveredSoFar, Range
<1>2. \/ /\ done.rejected # <<>>
         /\ next = [done EXCEPT !.rejected = Append(done.rejected, record)]
      \/ /\ ctx.idempotent /\ done.rejected = <<>>
         /\ record - 1 <= done.last
         /\ next = done
      \/ /\ ctx.idempotent /\ done.rejected = <<>>
         /\ next = [done EXCEPT !.rejected = <<record>>]
      \/ /\ done.rejected = <<>>
         /\ ~ctx.idempotent \/ record - 1 = done.last + 1
         /\ next = [part |-> AppendRecord(done.part, record),
                    last |-> IF ctx.idempotent THEN record - 1 ELSE done.last,
                    rejected |-> <<>>]
  <2> HIDE DEF record
  <2> QED
    BY <1>1, DeliverCases
<1> HIDE DEF next, record
<1>3. CASE done.rejected # <<>> /\ next = [done EXCEPT !.rejected = Append(done.rejected, record)]
  <2> DEFINE rejected == Append(done.rejected, record)
  <2>1. /\ rejected \in Seq(Numbers) /\ rejected # <<>>
        /\ Range(rejected) = Range(done.rejected) \cup {record}
    BY <1>1, RangeOfAppend DEF Deliveries
  <2> HIDE DEF rejected
  <2>2. /\ next \in Deliveries /\ next.part = done.part /\ next.last = done.last
        /\ next.rejected = rejected
    BY <1>1, <1>3, <2>1 DEF Deliveries, rejected
  <2>3. \A k \in Range(next.rejected) : k \in Range(ctx.records)
    BY <1>1, <2>1, <2>2 DEF DeliveredSoFar
  <2>4. ctx.idempotent
    BY <1>3 DEF DeliveredSoFar
  <2> QED
    BY <2>1, <2>2, <2>3, <2>4, TurnWithoutAppend DEF next, record
<1>4. CASE ctx.idempotent /\ done.rejected = <<>> /\ record - 1 <= done.last /\ next = done
  <2>1. \A k \in Range(next.rejected) : k \in Range(ctx.records)
    BY <1>4 DEF DeliveredSoFar
  <2> QED
    BY <1>1, <1>4, <2>1, TurnWithoutAppend DEF next, record
<1>5. CASE ctx.idempotent /\ done.rejected = <<>> /\ next = [done EXCEPT !.rejected = <<record>>]
  <2> DEFINE rejected == <<record>>
  <2>1. rejected \in Seq(Numbers) /\ rejected # <<>> /\ Range(rejected) = {record}
    BY <1>1, RangeOfOne
  <2> HIDE DEF rejected
  <2>2. /\ next \in Deliveries /\ next.part = done.part /\ next.last = done.last
        /\ next.rejected = rejected
    BY <1>1, <1>5, <2>1 DEF Deliveries, rejected
  <2>3. \A k \in Range(next.rejected) : k \in Range(ctx.records)
    BY <1>1, <2>1, <2>2
  <2> QED
    BY <1>5, <2>1, <2>2, <2>3, TurnWithoutAppend DEF next, record
<1>6. CASE /\ done.rejected = <<>>
           /\ ~ctx.idempotent \/ record - 1 = done.last + 1
           /\ next = [part |-> AppendRecord(done.part, record),
                      last |-> IF ctx.idempotent THEN record - 1 ELSE done.last,
                      rejected |-> <<>>]
  BY <1>6, TurnWithAppend DEF next, record
<1> QED
  BY <1>2, <1>3, <1>4, <1>5, <1>6

\* What the append loop leaves, whatever the batch.
LEMMA DeliveredAll ==
  ASSUME Led(part), producer \in ProducerConfig, lastSequence \in Int,
         NEW records \in Seq(Numbers)
  PROVE  DeliveredSoFar([part |-> part, last |-> lastSequence, idempotent |-> Idempotent,
                         records |-> records],
                        Len(records), Delivered(records))
<1> DEFINE ctx == [part |-> part, last |-> lastSequence, idempotent |-> Idempotent,
                   records |-> records]
           n == Len(records)
           base == [part |-> part, last |-> lastSequence, rejected |-> <<>>]
<1>1. n \in Nat /\ DOMAIN records = 1 .. n /\ Idempotent \in BOOLEAN
  BY DEF ProducerConfig, Idempotent
<1>2. Delivered(records) = DeliverFold!Folded(Idempotent, {}, base, records)
  BY DEF Delivered, DeliverFold!Folded, DeliverStep, Deliver, VerdictOf, Verdict, FoldLeft,
         DeliverFold!FoldLeft, MapThenFoldSet, DeliverFold!MapThenFoldSet, Max, DeliverFold!Max
<1>3. DeliveredSoFar(ctx, 0, base)
  <2>1. base \in Deliveries /\ Range(base.rejected) = {}
    BY DEF Deliveries, Led, Range
  <2>2. \A i \in 1 .. 0 : FALSE
    OBVIOUS
  <2> QED
    BY <2>1, <2>2 DEF DeliveredSoFar
<1>4. \A i \in 1 .. n : \A acc : DeliveredSoFar(ctx, i - 1, acc) =>
         DeliveredSoFar(ctx, i, DeliverStep(Idempotent, {}, acc, records[i]))
  <2>1. ctx.records = records /\ ctx.idempotent = Idempotent
    OBVIOUS
  <2> HIDE DEF ctx
  <2> QED
    BY <1>1, <2>1, EveryTurn
<1> HIDE DEF ctx, n, base
<1> QED
  BY <1>1, <1>2, <1>3, <1>4, DeliverFold!FoldKeeps DEF ctx, n

-----------------------------------------------------------------------------
(* The replication underneath, as the producer sees it.                    *)

\* A reducer answers some of the parked requests, each of them once, and
\* leaves the log alone or, if unclean election is on, cuts it above the
\* requests that stay unrefused.
Answers(yes, no) ==
  /\ yes \subseteq part.pendingAcks /\ no \subseteq part.pendingAcks /\ yes \cap no = {}
  /\ part'.pendingAcks = part.pendingAcks \ (yes \cup no)
  /\ part'.config = part.config
  /\ acked' = acked \cup RecordsOf(yes)
  /\ refused' = refused \cup RecordsOf(no)
  /\ \/ part'.log = part.log /\ part'.leo = part.leo
     \/ /\ Unclean
        /\ part'.log = {e \in part.log : e.offset < part'.leo}
        /\ \A a \in part.pendingAcks \ no : a.offset < part'.leo

LEMMA ResolveAnswers ==
  ASSUME LedOK, NEW q, Led(q), SameRequests(part, q), Resolve(q)
  PROVE  \E yes, no : Answers(yes, no)
<1>1. /\ part'.log = q.log /\ part'.leo = q.leo /\ part'.config = q.config
      /\ part'.pendingAcks = q.pendingAcks \ (Satisfied(q) \cup Unsatisfiable(q))
  BY DEF Resolve, Settled, Led, Partition
<1>2. /\ Satisfied(q) \subseteq q.pendingAcks
      /\ Unsatisfiable(q) \subseteq q.pendingAcks
      /\ Satisfied(q) \cap Unsatisfiable(q) = {}
  BY DEF Satisfied, Unsatisfiable
<1>3. Answers(Satisfied(q), Unsatisfiable(q))
  BY <1>1, <1>2 DEF Answers, SameRequests, Resolve
<1> QED
  BY <1>3

LEMMA RecordsOfBoth ==
  ASSUME NEW S, NEW T
  PROVE  RecordsOf(S \cup T) = RecordsOf(S) \cup RecordsOf(T)
BY DEF RecordsOf

LEMMA ReplicateAnswers ==
  ASSUME LedOK, Replicate
  PROVE  produced' = produced /\ \E yes, no : Answers(yes, no)
<1> USE LedPart
<1>0. /\ SameRequests(part, part)
      /\ 0 \in 0 .. LagMax + 1
  BY LagMaxAssumption DEF SameRequests
<1>1. CASE \E b \in Replicas : BrokerDown(b)
  <2>1. PICK b \in Replicas : BrokerDown(b)
    BY <1>1
  <2>2. SameRequests(part, WithoutFollower(part, b))
    BY <1>0, ReplicationSame
  <2> QED
    BY <2>1, <2>2, WithoutFollowerLed, ResolveAnswers DEF BrokerDown
<1>2. CASE \E b \in Replicas, lag \in 0 .. LagMax + 1 : ReplicaLag(b, lag)
  <2>1. PICK b \in Replicas, lag \in 0 .. LagMax + 1 : ReplicaLag(b, lag)
    BY <1>2
  <2> DEFINE q == [part EXCEPT !.idle[b] = lag]
  <2>2. Led(q)
    <3>1. [part.idle EXCEPT ![b] = lag] \in [Replicas -> 0 .. LagMax + 1]
      BY <2>1 DEF Led, Partition
    <3> QED
      BY <3>1 DEF Led, Partition
  <2>3. SameRequests(part, ShrinkIsr(q))
    BY <2>1, ReplicationSame
  <2> QED
    BY <2>1, <2>2, <2>3, ShrunkLed, ResolveAnswers DEF ReplicaLag
<1>3. CASE \E b \in Replicas : ReplicaFetch(b)
  <2>1. PICK b \in Replicas : ReplicaFetch(b)
    BY <1>3
  <2>2. SameRequests(part, Fetched(part, b))
    BY <1>0, ReplicationSame
  <2> QED
    BY <1>0, <2>1, <2>2, FetchedLed, ResolveAnswers DEF ReplicaFetch
<1>4. CASE IsrShrink
  <2>1. SameRequests(part, ShrinkIsr(part))
    BY <1>0, ReplicationSame, ReplicasAssumption
  <2> QED
    BY <1>4, <2>1, ShrunkLed, ResolveAnswers DEF IsrShrink
<1>5. CASE IsrExpand
  <2>1. SameRequests(part, ExpandIsr(part, online))
    BY <1>0, ReplicationSame, ReplicasAssumption
  <2> QED
    BY <1>5, <2>1, ExpandedLed, ResolveAnswers DEF IsrExpand
<1>6. CASE LeaderElection /\ ElectInSync
  <2>1. PICK r \in Replicas : /\ r \in CleanCandidates(part, online)
                              /\ Resolve(ElectClean(part, r, online))
    BY <1>6 DEF ElectInSync, IsFirst
  <2>2. SameRequests(part, ElectClean(part, r, online))
    BY <1>0, ReplicationSame
  <2> QED
    BY <1>6, <2>1, <2>2, ElectedCleanLed, ResolveAnswers DEF LeaderElection
<1>7. CASE LeaderElection /\ ElectNobody
  BY <1>0, <1>7, ResolveAnswers DEF LeaderElection, ElectNobody
<1>8. CASE LeaderElection /\ ElectOutOfSync
  <2>1. PICK r \in Replicas :
          /\ Unclean
          /\ part' = Settled(ElectUnclean(part, r))
          /\ acked' = acked \cup RecordsOf(Satisfied(ElectUnclean(part, r)))
          /\ refused' = refused \cup RecordsOf(Unsatisfiable(ElectUnclean(part, r)))
                                \cup RecordsOf(Stranded(part, r))
    BY <1>8 DEF ElectOutOfSync
  <2> DEFINE q == ElectUnclean(part, r)
             yes == Satisfied(q)
             no == Unsatisfiable(q) \cup Stranded(part, r)
  <2>2. Led(q)
    BY ElectedUncleanLed
  <2>3. /\ q.log = {e \in part.log : e.offset < q.leo}
        /\ q.leo = part.replicaLeo[r] /\ q.config = part.config
        /\ q.pendingAcks = part.pendingAcks \ Stranded(part, r)
    BY DEF ElectUnclean, Led, Partition
  <2>4. /\ part'.log = q.log /\ part'.leo = q.leo /\ part'.config = q.config
        /\ part'.pendingAcks = q.pendingAcks \ (Satisfied(q) \cup Unsatisfiable(q))
    BY <2>1, <2>2 DEF Settled, Led, Partition
  <2>5. /\ Satisfied(q) \subseteq q.pendingAcks
        /\ Unsatisfiable(q) \subseteq q.pendingAcks
        /\ Satisfied(q) \cap Unsatisfiable(q) = {}
        /\ Stranded(part, r) \subseteq part.pendingAcks
    BY DEF Satisfied, Unsatisfiable, Stranded
  <2>6. \A a \in part.pendingAcks \ no : a.offset < part'.leo
    <3> SUFFICES ASSUME NEW a \in part.pendingAcks, a \notin Stranded(part, r)
                 PROVE  a.offset < part.replicaLeo[r]
      BY <2>3, <2>4
    <3>1. a.offset \in Nat /\ part.replicaLeo[r] \in Nat
      BY DEF Led, Partition, Pending
    <3> QED
      BY <3>1 DEF Stranded
  <2>7. RecordsOf(no) = RecordsOf(Unsatisfiable(q)) \cup RecordsOf(Stranded(part, r))
    BY RecordsOfBoth
  <2> HIDE DEF q
  <2>8. yes \cap no = {} /\ yes \subseteq part.pendingAcks /\ no \subseteq part.pendingAcks
    BY <2>3, <2>5
  <2>9. part'.pendingAcks = part.pendingAcks \ (yes \cup no)
    BY <2>3, <2>4, <2>5
  <2>10. acked' = acked \cup RecordsOf(yes) /\ refused' = refused \cup RecordsOf(no)
    <3>1. refused' = refused \cup RecordsOf(Unsatisfiable(q)) \cup RecordsOf(Stranded(part, r))
      BY <2>1 DEF q
    <3> QED
      BY <2>1, <2>7, <3>1 DEF q
  <2> HIDE DEF yes, no
  <2>11. Answers(yes, no)
    BY <2>1, <2>3, <2>4, <2>6, <2>8, <2>9, <2>10 DEF Answers
  <2> QED
    BY <1>8, <2>11 DEF LeaderElection
<1>9. CASE Tick \/ \E b \in Replicas : BrokerUp(b)
  <2>1. /\ part'.log = part.log /\ part'.leo = part.leo /\ part'.config = part.config
        /\ part'.pendingAcks = part.pendingAcks
        /\ UNCHANGED <<acked, refused, produced>>
    BY <1>9 DEF Tick, BrokerUp, Led, Partition
  <2>2. RecordsOf({}) = {}
    BY DEF RecordsOf
  <2>3. Answers({}, {})
    BY <2>1, <2>2 DEF Answers
  <2> QED
    BY <2>1, <2>3
<1> QED
  BY <1>1, <1>2, <1>3, <1>4, <1>5, <1>6, <1>7, <1>8, <1>9 DEF Replicate, LeaderElection

-----------------------------------------------------------------------------
(* What flushBatch does with the records it takes.                         *)

ProducerTypes ==
  /\ producer \in ProducerConfig
  /\ batch \in Seq(Numbers)
  /\ flushes \in Nat
  /\ retryQueue \in Seq(Retry)
  /\ lastSequence \in Int
  /\ pendingErrors \in Nat /\ pendingLosses \in Nat /\ armed \in Nat

\* held is scheduled to be resent, or there is nothing to resend.
Queued(queue, held) ==
  \/ retryQueue' = queue /\ held = <<>>
  \/ \E attempt \in Nat : retryQueue' = Append(queue, [attempt |-> attempt, records |-> held])

\* The accumulator is cleared, unless it is a snapshot that was sent or
\* nothing has moved.
ClearedUnless(snapshot, still) ==
  \/ batch' = <<>>
  \/ batch' = batch /\ (snapshot \/ still)

\* held is sent again, or no is refused.
Retried(snapshot, appended, queue, held, no) ==
  /\ Queued(queue, held)
  /\ held = <<>> \/ no = {}
  /\ acked' = acked /\ refused' = refused \cup no
  /\ ClearedUnless(snapshot, held = <<>> /\ no = {})
  /\ Serial /\ held # <<>> => appended
  /\ batch' = <<>> \/ snapshot \/ ~appended

\* A failed request is scheduled again, or refused, or it stays in the
\* accumulator of a producer with one request in flight.
LEMMA RetryMoves ==
  ASSUME ProducerTypes, NEW records \in Seq(Numbers), NEW attempt \in Nat,
         NEW snapshot \in BOOLEAN, NEW appended \in BOOLEAN, NEW queue,
         RetryOrFail(records, attempt, snapshot, appended, queue)
  PROVE  \E held \in {<<>>, records}, no \in {{}, Range(records)} :
           Retried(snapshot, appended, queue, held, no)
<1>1. CASE MayRetry(attempt)
  <2> DEFINE keep == Serial /\ ~appended
             held == IF keep THEN <<>> ELSE records
  <2>1. NextAttempt(attempt) \in Nat
    BY DEF NextAttempt
  <2>2. Queued(queue, held)
    BY <1>1, <2>1 DEF RetryOrFail, Queued
  <2>3. acked' = acked /\ refused' = refused \cup {}
    BY <1>1 DEF RetryOrFail
  <2>4. batch' = IF keep THEN batch ELSE Cleared(snapshot)
    BY <1>1 DEF RetryOrFail
  <2>5. CASE keep
    <3>1. held = <<>> /\ batch' = batch
      BY <2>4, <2>5
    <3> QED
      BY <2>2, <2>3, <2>5, <3>1 DEF ClearedUnless, Retried
  <2>6. CASE ~keep
    <3>1. held = records /\ batch' = IF snapshot THEN batch ELSE <<>>
      BY <2>4, <2>6 DEF Cleared
    <3>2. Serial => appended
      BY <2>6
    <3> QED
      BY <2>2, <2>3, <3>1, <3>2 DEF ClearedUnless, Retried
  <2> QED
    BY <2>5, <2>6
<1>2. CASE ~MayRetry(attempt)
  <2>1. /\ retryQueue' = queue /\ acked' = acked /\ refused' = refused \cup Range(records)
        /\ batch' = IF snapshot THEN batch ELSE <<>>
    BY <1>2 DEF RetryOrFail, Cleared
  <2> QED
    BY <2>1 DEF Queued, ClearedUnless, Retried
<1> QED
  BY <1>1, <1>2

\* Every record that was taken goes to one place at most: back into the retry
\* queue (held), to the acknowledged (yes) or the refused (no), or among the
\* parked (parked).  wrote says that the append loop was run.
Flushed(records, snapshot, queue, wrote, held, yes, no, parked) ==
  LET d == Delivered(records)
  IN /\ IF wrote
        THEN /\ part' = [d.part EXCEPT !.pendingAcks = part.pendingAcks \cup parked]
             /\ lastSequence' = d.last
        ELSE part' = part /\ lastSequence' = lastSequence
     /\ Queued(queue, held)
     /\ acked' = acked \cup yes /\ refused' = refused \cup no
     /\ ClearedUnless(snapshot, held = <<>> /\ yes = {} /\ no = {} /\ parked = {})
     /\ /\ held \in Seq(Numbers)
        /\ \A k \in Range(held) : k \in Range(records)
        /\ yes \subseteq Range(records) /\ no \subseteq Range(records)
        /\ RecordsOf(parked) \subseteq Range(records)
     /\ \/ yes = {} /\ no = {} /\ parked = {}
        \/ held = <<>> /\ no = {} /\ parked = {}
        \/ held = <<>> /\ yes = {} /\ parked = {}
        \/ held = <<>> /\ yes = {} /\ no = {}
     /\ /\ parked \subseteq Pending
        /\ \A a \in parked : a.offset = d.part.leo - 1
     /\ /\ yes # {} \/ parked # {} => wrote /\ d.rejected = <<>>
        /\ Serial /\ held # <<>> => wrote /\ d.rejected = <<>>
        /\ batch' = <<>> \/ snapshot \/ ~wrote \/ d.rejected # <<>>

LEMMA RangeOfNumbers ==
  ASSUME NEW X, NEW s \in Seq(X)
  PROVE  Range(s) \subseteq X /\ Range(<<>>) = {}
BY DEF Range

LEMMA FlushOutcome ==
  ASSUME LedOK, ProducerTypes, NEW records \in Seq(Numbers), NEW attempt \in Nat,
         NEW snapshot \in BOOLEAN, NEW queue,
         FlushBatch(records, attempt, snapshot, queue)
  PROVE  \E wrote \in BOOLEAN : \E held, yes, no, parked :
           Flushed(records, snapshot, queue, wrote, held, yes, no, parked)
<1> DEFINE d == Delivered(records)
<1>1. /\ d \in Deliveries /\ Led(d.part)
      /\ d.part.pendingAcks = part.pendingAcks /\ d.part.config = part.config
      /\ \A k \in Range(d.rejected) : k \in Range(records)
      /\ d.part \in Partition /\ d.rejected \in Seq(Numbers)
  <2>1. DeliveredSoFar([part |-> part, last |-> lastSequence, idempotent |-> Idempotent,
                        records |-> records], Len(records), d)
    BY DeliveredAll, LedPart DEF ProducerTypes
  <2> HIDE DEF d
  <2> QED
    BY <2>1 DEF DeliveredSoFar, Deliveries
<1>2. /\ d.part = [d.part EXCEPT !.pendingAcks = part.pendingAcks \cup {}]
      /\ RecordsOf({}) = {} /\ <<>> \in Seq(Numbers) /\ Range(<<>>) = {}
  BY <1>1 DEF Partition, RecordsOf, Range
<1> HIDE DEF d
<1>3. CASE records = <<>>
  <2>1. Flushed(records, snapshot, queue, FALSE, <<>>, {}, {}, {})
    BY <1>2, <1>3 DEF FlushBatch, Flushed, Queued, ClearedUnless
  <2> QED
    BY <2>1
<1>4. CASE records # <<>> /\ pendingErrors > 0
  <2>1. /\ RetryOrFail(records, attempt, snapshot, FALSE, queue)
        /\ part' = part /\ lastSequence' = lastSequence
    BY <1>4 DEF FlushBatch
  <2>2. PICK held \in {<<>>, records}, no \in {{}, Range(records)} :
           Retried(snapshot, FALSE, queue, held, no)
    <3>1. PICK appended \in BOOLEAN : appended = FALSE
      OBVIOUS
    <3>2. RetryOrFail(records, attempt, snapshot, appended, queue)
      BY <2>1, <3>1
    <3>3. \E held \in {<<>>, records}, no \in {{}, Range(records)} :
            Retried(snapshot, appended, queue, held, no)
      BY <3>2, RetryMoves
    <3> QED
      BY <3>1, <3>3
  <2>3. Flushed(records, snapshot, queue, FALSE, held, {}, no, {})
    BY <1>2, <2>1, <2>2 DEF Flushed, Retried, ClearedUnless
  <2> QED
    BY <2>3
<1>5. CASE records # <<>> /\ ~(pendingErrors > 0) /\ Blocked
  <2> DEFINE no == IF Acks = "0" THEN {} ELSE Range(records)
  <2>1. /\ retryQueue' = queue /\ batch' = (IF snapshot THEN batch ELSE <<>>)
        /\ part' = part /\ lastSequence' = lastSequence /\ acked' = acked
        /\ refused' = refused \cup no
    BY <1>5 DEF FlushBatch, Cleared
  <2>2. Flushed(records, snapshot, queue, FALSE, <<>>, {}, no, {})
    BY <1>2, <2>1 DEF Flushed, Queued, ClearedUnless
  <2> QED
    BY <2>2
<1>6. CASE records # <<>> /\ ~(pendingErrors > 0) /\ ~Blocked
  <2>1. SendToLeader(records, attempt, snapshot, queue)
    BY <1>6 DEF FlushBatch
  <2>2. lastSequence' = d.last
    BY <2>1 DEF SendToLeader, d
  <2>3. CASE d.rejected # <<>>
    <3>1. RetryOrFail(d.rejected, attempt, snapshot, FALSE, queue) /\ part' = d.part
      BY <2>1, <2>3 DEF SendToLeader, d
    <3>2. PICK held \in {<<>>, d.rejected}, no \in {{}, Range(d.rejected)} :
             Retried(snapshot, FALSE, queue, held, no)
      <4>1. PICK appended \in BOOLEAN : appended = FALSE
        OBVIOUS
      <4>2. PICK rejected \in Seq(Numbers) : rejected = d.rejected
        BY <1>1
      <4>3. RetryOrFail(rejected, attempt, snapshot, appended, queue)
        BY <3>1, <4>1, <4>2
      <4>4. \E held \in {<<>>, rejected}, no \in {{}, Range(rejected)} :
              Retried(snapshot, appended, queue, held, no)
        BY <4>3, RetryMoves
      <4> QED
        BY <4>1, <4>2, <4>4
    <3>3. Flushed(records, snapshot, queue, TRUE, held, {}, no, {})
      BY <1>1, <1>2, <2>2, <2>3, <3>1, <3>2 DEF Flushed, Retried, ClearedUnless, d
    <3> QED
      BY <3>3
  <2>4. CASE d.rejected = <<>> /\ Acks # "0" /\ pendingLosses > 0
    <3>1. RetryOrFail(records, attempt, snapshot, TRUE, queue) /\ part' = d.part
      BY <2>1, <2>4 DEF SendToLeader, d
    <3>2. PICK held \in {<<>>, records}, no \in {{}, Range(records)} :
             Retried(snapshot, TRUE, queue, held, no)
      <4>1. PICK appended \in BOOLEAN : appended = TRUE
        OBVIOUS
      <4>2. RetryOrFail(records, attempt, snapshot, appended, queue)
        BY <3>1, <4>1
      <4>3. \E held \in {<<>>, records}, no \in {{}, Range(records)} :
              Retried(snapshot, appended, queue, held, no)
        BY <4>2, RetryMoves
      <4> QED
        BY <4>1, <4>3
    <3>3. Flushed(records, snapshot, queue, TRUE, held, {}, no, {})
      BY <1>2, <2>2, <2>4, <3>1, <3>2 DEF Flushed, Retried, ClearedUnless, d
    <3> QED
      BY <3>3
  <2>5. CASE d.rejected = <<>> /\ ~(Acks # "0" /\ pendingLosses > 0)
    <3>1. /\ retryQueue' = queue /\ batch' = (IF snapshot THEN batch ELSE <<>>)
          /\ acked' = IF Acks # "0" /\ Replicated(d.part)
                      THEN acked \cup Range(records) ELSE acked
          /\ part' = IF Replicated(d.part) THEN d.part ELSE ParkAll(d.part, records)
          /\ refused' = refused
      BY <2>1, <2>5 DEF SendToLeader, d, Cleared
    <3>2. CASE Replicated(d.part)
      <4> DEFINE yes == IF Acks # "0" THEN Range(records) ELSE {}
      <4>1. Flushed(records, snapshot, queue, TRUE, <<>>, yes, {}, {})
        BY <1>2, <2>2, <2>5, <3>1, <3>2 DEF Flushed, Queued, ClearedUnless, d
      <4> QED
        BY <4>1
    <3>3. CASE ~Replicated(d.part)
      <4> DEFINE parked == {[offset |-> d.part.leo - 1, record |-> k] : k \in Range(records)}
      <4>1. d.part.leo - 1 \in Nat
        <5>1. d.part.leo \in Nat /\ d.part.highWatermark \in Nat
          BY <1>1, EntryOfLog
        <5> QED
          BY <3>3, <5>1 DEF Replicated
      <4>2. /\ parked \subseteq Pending
            /\ \A a \in parked : a.offset = d.part.leo - 1
            /\ RecordsOf(parked) \subseteq Range(records)
        <5>1. Range(records) \subseteq Nat
          BY RangeOfNumbers DEF Numbers
        <5> QED
          BY <4>1, <5>1 DEF Pending, RecordsOf
      <4>3. part' = [d.part EXCEPT !.pendingAcks = part.pendingAcks \cup parked]
        BY <1>1, <3>1, <3>3 DEF ParkAll
      <4> HIDE DEF parked
      <4>4. Flushed(records, snapshot, queue, TRUE, <<>>, {}, {}, parked)
        BY <1>2, <2>2, <2>5, <3>1, <3>3, <4>2, <4>3 DEF Flushed, Queued, ClearedUnless, d
      <4> QED
        BY <4>4
    <3> QED
      BY <3>2, <3>3
  <2> QED
    BY <2>3, <2>4, <2>5
<1> QED
  BY <1>3, <1>4, <1>5, <1>6

-----------------------------------------------------------------------------
(* Types.                                                                  *)

TypedOK == LedOK /\ ProducerTypes

\* What the append loop returns, in terms of the state.
LEMMA DeliveredState ==
  ASSUME TypedOK, NEW records \in Seq(Numbers)
  PROVE  LET d == Delivered(records)
         IN  /\ d \in Deliveries /\ Led(d.part)
             /\ d.part.pendingAcks = part.pendingAcks /\ d.part.config = part.config
             /\ d.part.leader = part.leader
             /\ part.log \subseteq d.part.log
             /\ \A e \in d.part.log : e \in part.log \/ e.record \in Range(records)
             /\ Below(part) => Below(d.part)
             /\ d.rejected # <<>> => Idempotent
             /\ d.rejected = <<>> => \A i \in DOMAIN records :
                  \/ Stored(d.part, records[i])
                  \/ Idempotent /\ records[i] - 1 <= d.last
             /\ Idempotent /\ InSequence(part, lastSequence) => InSequence(d.part, d.last)
             /\ /\ ~Idempotent /\ FirstInOrder(part) /\ Below(part)
                /\ \A i \in DOMAIN records : Ahead(part, records, i)
                => FirstInOrder(d.part)
<1> DEFINE d == Delivered(records)
           ctx == [part |-> part, last |-> lastSequence, idempotent |-> Idempotent,
                   records |-> records]
<1>1. DeliveredSoFar(ctx, Len(records), d)
  BY DeliveredAll, LedPart DEF TypedOK, ProducerTypes
<1>2. /\ ctx.part = part /\ ctx.last = lastSequence /\ ctx.idempotent = Idempotent
      /\ ctx.records = records
  OBVIOUS
<1>3. DOMAIN records = 1 .. Len(records)
  OBVIOUS
<1> HIDE DEF d, ctx
<1>4. /\ d \in Deliveries /\ Led(d.part)
      /\ d.part.pendingAcks = part.pendingAcks /\ d.part.config = part.config
      /\ d.part.leader = part.leader
      /\ part.log \subseteq d.part.log
      /\ \A e \in d.part.log : e \in part.log \/ e.record \in Range(records)
      /\ Below(part) => Below(d.part)
      /\ d.rejected # <<>> => Idempotent
  BY <1>1, <1>2 DEF DeliveredSoFar
<1>5. d.rejected = <<>> => \A i \in DOMAIN records :
        \/ Stored(d.part, records[i])
        \/ Idempotent /\ records[i] - 1 <= d.last
  BY <1>1, <1>2, <1>3 DEF DeliveredSoFar
<1>6. Idempotent /\ InSequence(part, lastSequence) => InSequence(d.part, d.last)
  BY <1>1, <1>2 DEF DeliveredSoFar
<1>7. /\ ~Idempotent /\ FirstInOrder(part) /\ Below(part)
      /\ \A i \in DOMAIN records : Ahead(part, records, i)
      => FirstInOrder(d.part)
  BY <1>1, <1>2 DEF DeliveredSoFar
<1> QED
  BY <1>4, <1>5, <1>6, <1>7 DEF d

LEMMA FlushedTypes ==
  ASSUME TypedOK, NEW records \in Seq(Numbers), NEW snapshot, NEW queue \in Seq(Retry),
         NEW wrote \in BOOLEAN, NEW held, NEW yes, NEW no, NEW parked,
         Flushed(records, snapshot, queue, wrote, held, yes, no, parked)
  PROVE  /\ Led(part)' /\ acked' \in SUBSET Nat /\ refused' \in SUBSET Nat
         /\ batch' \in Seq(Numbers) /\ retryQueue' \in Seq(Retry) /\ lastSequence' \in Int
<1> DEFINE d == Delivered(records)
<1>1. d \in Deliveries /\ Led(d.part)
  BY DeliveredState
<1>2. /\ IF wrote
         THEN /\ part' = [d.part EXCEPT !.pendingAcks = part.pendingAcks \cup parked]
              /\ lastSequence' = d.last
         ELSE part' = part /\ lastSequence' = lastSequence
      /\ Queued(queue, held) /\ held \in Seq(Numbers)
      /\ acked' = acked \cup yes /\ refused' = refused \cup no
      /\ batch' = <<>> \/ batch' = batch
      /\ yes \subseteq Range(records) /\ no \subseteq Range(records) /\ parked \subseteq Pending
  BY DEF Flushed, ClearedUnless
<1> HIDE DEF d
<1>3. Led(part)'
  <2>1. part.pendingAcks \cup parked \in SUBSET Pending /\ Led(part)
    BY <1>2, LedPart DEF TypedOK, Led, Partition
  <2>2. CASE wrote
    BY <1>1, <1>2, <2>1, <2>2 DEF Led, Partition
  <2>3. CASE ~wrote
    BY <1>2, <2>1, <2>3 DEF Led
  <2> QED
    BY <2>2, <2>3
<1>4. acked' \in SUBSET Nat /\ refused' \in SUBSET Nat
  <2>1. Range(records) \subseteq Nat
    BY RangeOfNumbers DEF Numbers
  <2> QED
    BY <1>2, <2>1 DEF TypedOK, LedOK, TypeOK
<1>5. retryQueue' \in Seq(Retry)
  <2>1. CASE retryQueue' = queue
    BY <2>1
  <2>2. CASE \E attempt \in Nat : retryQueue' = Append(queue, [attempt |-> attempt, records |-> held])
    <3>1. PICK attempt \in Nat : retryQueue' = Append(queue, [attempt |-> attempt, records |-> held])
      BY <2>2
    <3>2. [attempt |-> attempt, records |-> held] \in Retry
      BY <1>2 DEF Retry
    <3> QED
      BY <3>1, <3>2, RangeOfAppend
  <2> QED
    BY <1>2, <2>1, <2>2 DEF Queued
<1>6. batch' \in Seq(Numbers) /\ lastSequence' \in Int
  <2>1. d.last \in Int /\ lastSequence \in Int /\ batch \in Seq(Numbers) /\ <<>> \in Seq(Numbers)
    BY <1>1 DEF Deliveries, TypedOK, ProducerTypes
  <2> QED
    BY <1>2, <2>1
<1> QED
  BY <1>3, <1>4, <1>5, <1>6

\* The budgets of the faults, and the history of the copies.
LEMMA FlushCounts ==
  ASSUME TypedOK, NEW records \in Seq(Numbers), NEW attempt, NEW snapshot, NEW queue,
         FlushBatch(records, attempt, snapshot, queue)
  PROVE  pendingErrors' \in Nat /\ pendingLosses' \in Nat /\ copies' \in [Replicas -> SUBSET Entry]
<1>1. pendingErrors \in Nat /\ pendingLosses \in Nat /\ copies \in [Replicas -> SUBSET Entry]
  BY DEF TypedOK, LedOK, TypeOK, ProducerTypes
<1>2. CASE SendToLeader(records, attempt, snapshot, queue)
  <2>1. Delivered(records).part.log \in SUBSET Entry
    BY DeliveredState DEF Led, Partition
  <2>2. copies' \in [Replicas -> SUBSET Entry] /\ pendingErrors' \in Nat
    BY <1>1, <1>2, <2>1 DEF SendToLeader
  <2>3. \/ pendingLosses' = pendingLosses
        \/ pendingLosses > 0 /\ pendingLosses' = pendingLosses - 1
    BY <1>2 DEF SendToLeader
  <2> QED
    BY <1>1, <2>2, <2>3
<1>3. CASE ~SendToLeader(records, attempt, snapshot, queue)
  <2>1. /\ pendingLosses' = pendingLosses /\ copies' = copies
        /\ pendingErrors' = pendingErrors
           \/ (pendingErrors > 0 /\ pendingErrors' = pendingErrors - 1)
    BY <1>3 DEF FlushBatch
  <2> QED
    BY <1>1, <2>1
<1> QED
  BY <1>2, <1>3

\* A flush takes the batch, or the records of the retry that is due.
Takes(records, snapshot, queue) ==
  /\ records \in Seq(Numbers) /\ snapshot \in BOOLEAN /\ queue \in Seq(Retry)
  /\ \/ ~snapshot /\ records = batch /\ queue = retryQueue
     \/ /\ retryQueue # <<>> /\ queue = Tail(retryQueue)
        /\ \/ snapshot /\ records = retryQueue[1].records
           \/ ~snapshot /\ records = batch

LEMMA FlushTakes ==
  ASSUME TypedOK, BatchFlush \/ ProduceRetry
  PROVE  /\ UNCHANGED <<online, elections, expandDue, faults, produced, producer, armed>>
         /\ flushes' \in Nat
         /\ \E records, attempt, snapshot, queue :
              /\ Takes(records, snapshot, queue) /\ attempt \in Nat
              /\ FlushBatch(records, attempt, snapshot, queue)
<1>1. flushes \in Nat /\ batch \in Seq(Numbers) /\ retryQueue \in Seq(Retry)
  BY DEF TypedOK, ProducerTypes
<1>2. CASE BatchFlush
  <2>1. Takes(batch, FALSE, retryQueue) /\ FlushBatch(batch, 0, FALSE, retryQueue) /\ 0 \in Nat
    BY <1>1, <1>2 DEF BatchFlush, Takes
  <2>2. /\ UNCHANGED <<online, elections, expandDue, faults, produced, producer, armed>>
        /\ flushes' \in Nat
    BY <1>1, <1>2 DEF BatchFlush
  <2> QED
    BY <2>1, <2>2
<1>3. CASE ProduceRetry
  <2> DEFINE event == retryQueue[1]
             snapshot == event.records # <<>>
             records == IF snapshot THEN event.records ELSE batch
  <2>1. Head(retryQueue) = event /\ event \in Retry /\ Tail(retryQueue) \in Seq(Retry)
        /\ retryQueue # <<>>
    BY <1>1, <1>3 DEF ProduceRetry
  <2>2. event.records \in Seq(Numbers) /\ event.attempt \in Nat
    BY <2>1 DEF Retry
  <2>3. FlushBatch(records, event.attempt, snapshot, Tail(retryQueue))
    BY <1>3, <2>1 DEF ProduceRetry
  <2>4. Takes(records, snapshot, Tail(retryQueue))
    BY <1>1, <2>1, <2>2 DEF Takes
  <2>5. /\ UNCHANGED <<online, elections, expandDue, faults, produced, producer, armed>>
        /\ flushes' \in Nat
    BY <1>1, <1>3 DEF ProduceRetry
  <2> HIDE DEF event, snapshot, records
  <2> QED
    BY <2>2, <2>3, <2>4, <2>5
<1> QED
  BY <1>2, <1>3

LEMMA FlushTyped ==
  ASSUME TypedOK, BatchFlush \/ ProduceRetry
  PROVE  TypedOK'
<1>1. PICK records, attempt, snapshot, queue :
         /\ Takes(records, snapshot, queue) /\ attempt \in Nat
         /\ FlushBatch(records, attempt, snapshot, queue)
  BY FlushTakes
<1>2. records \in Seq(Numbers) /\ snapshot \in BOOLEAN /\ queue \in Seq(Retry)
  BY <1>1 DEF Takes
<1>3. PICK wrote \in BOOLEAN : \E held, yes, no, parked :
         Flushed(records, snapshot, queue, wrote, held, yes, no, parked)
  BY <1>1, <1>2, FlushOutcome DEF TypedOK
<1>4. PICK held, yes, no, parked :
         Flushed(records, snapshot, queue, wrote, held, yes, no, parked)
  BY <1>3
<1>5. /\ Led(part)' /\ acked' \in SUBSET Nat /\ refused' \in SUBSET Nat
      /\ batch' \in Seq(Numbers) /\ retryQueue' \in Seq(Retry) /\ lastSequence' \in Int
  BY <1>2, <1>4, FlushedTypes
<1>6. pendingErrors' \in Nat /\ pendingLosses' \in Nat /\ copies' \in [Replicas -> SUBSET Entry]
  BY <1>1, <1>2, FlushCounts
<1>7. /\ UNCHANGED <<online, elections, expandDue, faults, produced, producer, armed>>
      /\ flushes' \in Nat
  BY FlushTakes
<1>8. LedOK'
  BY <1>5, <1>6, <1>7 DEF TypedOK, LedOK, TypeOK, LeaderInIsr, Led
<1>9. ProducerTypes'
  BY <1>5, <1>6, <1>7 DEF TypedOK, ProducerTypes
<1> QED
  BY <1>8, <1>9 DEF TypedOK

LEMMA SendTyped ==
  ASSUME TypedOK, Send
  PROVE  TypedOK'
<1>1. /\ produced \in Nat /\ produced' = produced + 1 /\ produced' \in 0 .. MaxRecords
      /\ produced + 1 \in Numbers
  BY BoundsAssumption DEF TypedOK, LedOK, TypeOK, Send, Numbers
<1>2. batch' \in Seq(Numbers)
  <2>1. batch' = Append(batch, produced + 1) /\ batch \in Seq(Numbers)
    BY DEF Send, TypedOK, ProducerTypes
  <2> QED
    BY <1>1, <2>1, RangeOfAppend
<1>3. flushes' \in Nat
  BY DEF Send, TypedOK, ProducerTypes
<1>4. LedOK'
  BY <1>1 DEF Send, TypedOK, LedOK, TypeOK, LeaderInIsr
<1>5. ProducerTypes'
  BY <1>2, <1>3 DEF Send, TypedOK, ProducerTypes
<1> QED
  BY <1>4, <1>5 DEF TypedOK

LEMMA OtherTyped ==
  ASSUME TypedOK, \/ ProduceErrorArm
                  \/ AckLossArm
                  \/ Replicate /\ UNCHANGED producerVars
                  \/ UNCHANGED allVars
  PROVE  TypedOK'
<1>1. [Next]_vars
  BY DEF Next, ProduceErrorArm, AckLossArm, allVars, vars
<1>2. LedOK'
  BY <1>1, LedStep DEF TypedOK
<1>3. ProducerTypes'
  <2>1. CASE ProduceErrorArm \/ AckLossArm
    BY <2>1 DEF ProduceErrorArm, AckLossArm, TypedOK, ProducerTypes
  <2>2. CASE UNCHANGED producerVars
    BY <2>2 DEF producerVars, TypedOK, ProducerTypes
  <2> QED
    BY <2>1, <2>2 DEF allVars
<1> QED
  BY <1>2, <1>3 DEF TypedOK

LEMMA TypedInit ==
  ASSUME ProducerInit
  PROVE  TypedOK
<1>1. LedOK
  BY LedInit DEF ProducerInit
<1>2. ProducerTypes
  BY ProducersAssumption DEF ProducerInit, ProducerTypes
<1> QED
  BY <1>1, <1>2 DEF TypedOK

LEMMA TypedStep ==
  ASSUME TypedOK, [ProducerNext]_allVars
  PROVE  TypedOK'
BY FlushTyped, SendTyped, OtherTyped DEF ProducerNext

\* Whatever the producer does over the replication, the partition keeps its
\* types: no offset is negative and no request is parked at one.
THEOREM ProducerTypeCorrect == ProducerSpec => []TypeOK
<1>1. ProducerSpec => []TypedOK
  BY TypedInit, TypedStep, PTL DEF ProducerSpec
<1>2. TypedOK => TypeOK
  BY DEF TypedOK, LedOK
<1> QED
  BY <1>1, <1>2, PTL

-----------------------------------------------------------------------------
(* One place at a time.                                                    *)

Answered(parked, yes, no) == yes \cup no \cup RecordsOf(parked)

\* A request is answered once, and not while it is parked; it is parked once.
AnswersOK(parked, yes, no, n) ==
  /\ yes \cap no = {}
  /\ \A a, b \in parked : a.record = b.record => a = b
  /\ \A a \in parked : a.record \notin yes \cup no
  /\ \A k \in Answered(parked, yes, no) : k <= n

\* What is accumulated was sent, and is not answered.
BatchOK(accumulated, answered, n) ==
  \A k \in Range(accumulated) : k <= n /\ k \notin answered

\* What waits for a retry is neither answered, nor accumulated, nor in
\* another retry.
QueueOK(queue, accumulated, answered, n) ==
  /\ \A i \in DOMAIN queue : \A k \in Range(queue[i].records) :
       k <= n /\ k \notin answered /\ k \notin Range(accumulated)
  /\ \A i, j \in DOMAIN queue : i # j =>
       \A k \in Range(queue[i].records) : k \notin Range(queue[j].records)

PlacesOK ==
  LET answered == Answered(part.pendingAcks, acked, refused)
  IN /\ AnswersOK(part.pendingAcks, acked, refused, produced)
     /\ BatchOK(batch, answered, produced)
     /\ QueueOK(retryQueue, batch, answered, produced)

LEMMA AppendElements ==
  ASSUME NEW X, NEW s \in Seq(X), NEW e \in X
  PROVE  \A i \in DOMAIN Append(s, e) :
           \/ i \in DOMAIN s /\ Append(s, e)[i] = s[i]
           \/ i \notin DOMAIN s /\ i = Len(s) + 1 /\ Append(s, e)[i] = e
OBVIOUS

LEMMA TailElements ==
  ASSUME NEW X, NEW s \in Seq(X), s # <<>>
  PROVE  /\ 1 \in DOMAIN s
         /\ \A i \in DOMAIN Tail(s) : /\ i + 1 \in DOMAIN s /\ i + 1 # 1 /\ i \in Nat
                                      /\ Tail(s)[i] = s[i + 1]
<1>1. /\ Len(s) \in Nat /\ Len(s) # 0 /\ DOMAIN s = 1 .. Len(s)
      /\ Len(Tail(s)) = Len(s) - 1 /\ DOMAIN Tail(s) = 1 .. Len(s) - 1
  OBVIOUS
<1>2. \A i \in 1 .. Len(s) - 1 : Tail(s)[i] = s[i + 1]
  OBVIOUS
<1> QED
  BY <1>1, <1>2

\* The records a flush takes are in no other place.
LEMMA TakesApart ==
  ASSUME TypedOK, PlacesOK, NEW records, NEW snapshot, NEW queue,
         Takes(records, snapshot, queue)
  PROVE  LET answered == Answered(part.pendingAcks, acked, refused)
         IN  /\ QueueOK(queue, batch, answered, produced)
             /\ \A k \in Range(records) : k <= produced /\ k \notin answered
             /\ \A i \in DOMAIN queue : \A k \in Range(queue[i].records) : k \notin Range(records)
             /\ snapshot => \A k \in Range(records) : k \notin Range(batch)
             /\ ~snapshot => records = batch
<1> DEFINE answered == Answered(part.pendingAcks, acked, refused)
<1>1. QueueOK(retryQueue, batch, answered, produced) /\ BatchOK(batch, answered, produced)
  BY DEF PlacesOK
<1>2. retryQueue \in Seq(Retry)
  BY DEF TypedOK, ProducerTypes
<1> HIDE DEF answered
<1>3. CASE ~snapshot /\ records = batch /\ queue = retryQueue
  BY <1>1, <1>3 DEF QueueOK, BatchOK, answered
<1>4. CASE /\ retryQueue # <<>> /\ queue = Tail(retryQueue)
           /\ \/ snapshot /\ records = retryQueue[1].records
              \/ ~snapshot /\ records = batch
  <2>1. /\ 1 \in DOMAIN retryQueue
        /\ \A i \in DOMAIN queue : /\ i + 1 \in DOMAIN retryQueue /\ i + 1 # 1 /\ i \in Nat
                                   /\ queue[i] = retryQueue[i + 1]
    BY <1>2, <1>4, TailElements
  <2>2. QueueOK(queue, batch, answered, produced)
    <3>1. ASSUME NEW i \in DOMAIN queue, NEW k \in Range(queue[i].records)
          PROVE  k <= produced /\ k \notin answered /\ k \notin Range(batch)
      BY <1>1, <2>1, <3>1 DEF QueueOK
    <3>2. ASSUME NEW i \in DOMAIN queue, NEW j \in DOMAIN queue, i # j,
                 NEW k \in Range(queue[i].records)
          PROVE  k \notin Range(queue[j].records)
      <4>1. i + 1 # j + 1
        BY <2>1, <3>2
      <4> QED
        BY <1>1, <2>1, <3>2, <4>1 DEF QueueOK
    <3> QED
      BY <3>1, <3>2 DEF QueueOK
  <2>3. CASE snapshot /\ records = retryQueue[1].records
    <3>1. \A k \in Range(records) : k <= produced /\ k \notin answered /\ k \notin Range(batch)
      BY <1>1, <2>1, <2>3 DEF QueueOK
    <3>2. ASSUME NEW i \in DOMAIN queue, NEW k \in Range(queue[i].records)
          PROVE  k \notin Range(records)
      BY <1>1, <2>1, <2>3, <3>2 DEF QueueOK
    <3> QED
      BY <2>2, <2>3, <3>1, <3>2 DEF answered
  <2>4. CASE ~snapshot /\ records = batch
    BY <1>1, <2>2, <2>4 DEF QueueOK, BatchOK, answered
  <2> QED
    BY <1>4, <2>3, <2>4
<1> QED
  BY <1>3, <1>4 DEF Takes

LEMMA FlushedPlaces ==
  ASSUME TypedOK, PlacesOK, NEW records, NEW snapshot, NEW queue,
         Takes(records, snapshot, queue), NEW wrote \in BOOLEAN,
         NEW held, NEW yes, NEW no, NEW parked,
         Flushed(records, snapshot, queue, wrote, held, yes, no, parked),
         produced' = produced
  PROVE  PlacesOK'
<1> DEFINE R == Range(records)
           answered == Answered(part.pendingAcks, acked, refused)
           answered2 == Answered(part'.pendingAcks, acked', refused')
<1>1. /\ QueueOK(queue, batch, answered, produced)
      /\ \A k \in R : k <= produced /\ k \notin answered
      /\ \A i \in DOMAIN queue : \A k \in Range(queue[i].records) : k \notin R
      /\ snapshot => \A k \in R : k \notin Range(batch)
      /\ AnswersOK(part.pendingAcks, acked, refused, produced)
      /\ BatchOK(batch, answered, produced)
  BY TakesApart DEF PlacesOK
<1>2. /\ Queued(queue, held)
      /\ acked' = acked \cup yes /\ refused' = refused \cup no
      /\ ClearedUnless(snapshot, held = <<>> /\ yes = {} /\ no = {} /\ parked = {})
      /\ held \in Seq(Numbers) /\ (\A k \in Range(held) : k \in R)
      /\ yes \subseteq R /\ no \subseteq R /\ RecordsOf(parked) \subseteq R
      /\ \/ yes = {} /\ no = {} /\ parked = {}
         \/ held = <<>> /\ no = {} /\ parked = {}
         \/ held = <<>> /\ yes = {} /\ parked = {}
         \/ held = <<>> /\ yes = {} /\ no = {}
      /\ parked \subseteq Pending
      /\ \A a \in parked : a.offset = Delivered(records).part.leo - 1
  BY DEF Flushed
<1>3. part'.pendingAcks = part.pendingAcks \cup parked
  <2>1. CASE wrote
    <3>1. Delivered(records).part \in Partition
      BY DeliveredState DEF Takes, Led
    <3> QED
      BY <2>1, <3>1 DEF Flushed, Partition
  <2>2. CASE ~wrote
    <3>1. parked = {} /\ part' = part
      BY <2>2 DEF Flushed
    <3> QED
      BY <3>1
  <2> QED
    BY <2>1, <2>2
<1>4. RecordsOf(part.pendingAcks \cup parked) = RecordsOf(part.pendingAcks) \cup RecordsOf(parked)
  BY RecordsOfBoth
<1>5. answered2 = answered \cup yes \cup no \cup RecordsOf(parked)
  BY <1>2, <1>3, <1>4 DEF Answered
<1>6. RecordsOf({}) = {} /\ Range(<<>>) = {}
  BY DEF RecordsOf, Range
<1>7. batch' = <<>> \/ (batch' = batch /\ (snapshot \/ (held = <<>> /\ yes = {} /\ no = {} /\ parked = {})))
  BY <1>2 DEF ClearedUnless
<1>8. answered \subseteq answered2 /\ answered2 \subseteq answered \cup R
  BY <1>2, <1>5
<1>9. AnswersOK(part'.pendingAcks, acked', refused', produced)
  <2>1. \A a \in part.pendingAcks : a.record \in answered
    BY DEF Answered, RecordsOf
  <2>2. \A a \in parked : a.record \in R
    BY <1>2 DEF RecordsOf
  <2>3. \A a, b \in part'.pendingAcks : a.record = b.record => a = b
    <3> SUFFICES ASSUME NEW a \in part'.pendingAcks, NEW b \in part'.pendingAcks,
                        a.record = b.record
                 PROVE  a = b
      OBVIOUS
    <3>1. CASE a \in part.pendingAcks /\ b \in part.pendingAcks
      BY <1>1, <3>1 DEF AnswersOK
    <3>2. CASE a \in parked /\ b \in parked
      <4>1. a.offset = b.offset /\ a \in Pending /\ b \in Pending
        BY <1>2, <3>2
      <4> QED
        BY <4>1 DEF Pending
    <3>3. CASE (a \in parked /\ b \in part.pendingAcks) \/ (a \in part.pendingAcks /\ b \in parked)
      BY <1>1, <2>1, <2>2, <3>3
    <3> QED
      BY <1>3, <3>1, <3>2, <3>3
  <2>4. acked \subseteq answered /\ refused \subseteq answered
    BY DEF Answered
  <2>5. \A k \in answered2 : k <= produced
    BY <1>1, <1>8 DEF AnswersOK
  <2>6. acked' \cap refused' = {}
    BY <1>1, <1>2, <2>4 DEF AnswersOK
  <2>7. \A a \in part'.pendingAcks : a.record \notin acked' \cup refused'
    <3> HIDE DEF answered, R
    <3> SUFFICES ASSUME NEW a \in part'.pendingAcks
                 PROVE  a.record \notin acked' /\ a.record \notin refused'
      OBVIOUS
    <3>1. CASE a \in part.pendingAcks
      <4>1. a.record \notin acked /\ a.record \notin refused
        BY <1>1, <3>1 DEF AnswersOK
      <4>2. a.record \notin R
        BY <1>1, <2>1, <3>1
      <4> QED
        BY <1>2, <4>1, <4>2
    <3>2. CASE a \in parked
      <4>1. yes = {} /\ no = {}
        BY <1>2, <3>2
      <4> QED
        BY <1>1, <1>2, <2>2, <2>4, <3>2, <4>1
    <3> QED
      BY <1>3, <3>1, <3>2
  <2> QED
    BY <2>3, <2>5, <2>6, <2>7 DEF AnswersOK
<1>10. BatchOK(batch', answered2, produced)
  <2> HIDE DEF answered, answered2, R
  <2>1. CASE batch' = <<>>
    BY <1>6, <2>1 DEF BatchOK
  <2>2. CASE batch' = batch /\ snapshot
    BY <1>1, <1>8, <2>2 DEF BatchOK
  <2>3. CASE batch' = batch /\ held = <<>> /\ yes = {} /\ no = {} /\ parked = {}
    BY <1>1, <1>5, <1>6, <2>3 DEF BatchOK
  <2> QED
    BY <1>7, <2>1, <2>2, <2>3
<1>11. QueueOK(retryQueue', batch', answered2, produced)
  <2> HIDE DEF answered, answered2, R
  <2>1. Range(batch') \subseteq Range(batch)
    BY <1>6, <1>7
  <2>2. QueueOK(queue, batch', answered2, produced)
    <3>1. ASSUME NEW i \in DOMAIN queue, NEW k \in Range(queue[i].records)
          PROVE  k <= produced /\ k \notin answered2 /\ k \notin Range(batch')
      <4>1. k <= produced /\ k \notin answered /\ k \notin Range(batch) /\ k \notin R
        BY <1>1, <3>1 DEF QueueOK
      <4> QED
        BY <1>8, <2>1, <4>1
    <3> QED
      BY <1>1, <3>1 DEF QueueOK
  <2>3. CASE retryQueue' = queue
    BY <2>2, <2>3
  <2>4. CASE \E attempt \in Nat : retryQueue' = Append(queue, [attempt |-> attempt, records |-> held])
    <3>1. PICK attempt \in Nat : retryQueue' = Append(queue, [attempt |-> attempt, records |-> held])
      BY <2>4
    <3> DEFINE event == [attempt |-> attempt, records |-> held]
    <3>2. event \in Retry /\ event.records = held
      BY <1>2 DEF Retry
    <3> HIDE DEF event
    <3>3. \A i \in DOMAIN retryQueue' :
            \/ i \in DOMAIN queue /\ retryQueue'[i] = queue[i]
            \/ i \notin DOMAIN queue /\ i = Len(queue) + 1 /\ retryQueue'[i] = event
      BY <3>1, <3>2, AppendElements DEF event, Takes
    <3>4. ASSUME NEW k \in Range(held)
          PROVE  /\ k <= produced /\ k \notin answered2 /\ k \notin Range(batch')
                 /\ \A i \in DOMAIN queue : k \notin Range(queue[i].records)
      <4>1. k \in R /\ held # <<>>
        BY <1>2, <1>6, <3>4
      <4>2. yes = {} /\ no = {} /\ parked = {}
        BY <1>2, <4>1
      <4>3. answered2 = answered
        BY <1>5, <1>6, <4>2
      <4>4. k \notin Range(batch')
        BY <1>1, <1>6, <1>7, <4>1
      <4> QED
        BY <1>1, <4>1, <4>3, <4>4
    <3>5. \A i \in DOMAIN retryQueue' : \A k \in Range(retryQueue'[i].records) :
            k <= produced /\ k \notin answered2 /\ k \notin Range(batch')
      BY <2>2, <3>2, <3>3, <3>4 DEF QueueOK
    <3>6. ASSUME NEW i \in DOMAIN retryQueue', NEW j \in DOMAIN retryQueue', i # j,
                 NEW k \in Range(retryQueue'[i].records)
          PROVE  k \notin Range(retryQueue'[j].records)
      <4>1. CASE i \in DOMAIN queue /\ j \in DOMAIN queue
        BY <2>2, <3>3, <3>6, <4>1 DEF QueueOK
      <4>2. CASE i \in DOMAIN queue /\ j \notin DOMAIN queue
        BY <3>2, <3>3, <3>4, <3>6, <4>2
      <4>3. CASE i \notin DOMAIN queue /\ j \in DOMAIN queue
        BY <3>2, <3>3, <3>4, <3>6, <4>3
      <4>4. CASE i \notin DOMAIN queue /\ j \notin DOMAIN queue
        BY <3>3, <3>6, <4>4
      <4> QED
        BY <4>1, <4>2, <4>3, <4>4
    <3> QED
      BY <3>5, <3>6 DEF QueueOK
  <2> QED
    BY <1>2, <2>3, <2>4 DEF Queued
<1> QED
  BY <1>9, <1>10, <1>11 DEF PlacesOK

LEMMA ReplicatePlaces ==
  ASSUME TypedOK, PlacesOK, Replicate, UNCHANGED producerVars
  PROVE  PlacesOK'
<1>1. PICK yes, no : Answers(yes, no)
  BY ReplicateAnswers DEF TypedOK
<1>2. produced' = produced /\ batch' = batch /\ retryQueue' = retryQueue
  BY ReplicateAnswers DEF TypedOK, producerVars
<1> DEFINE answered == Answered(part.pendingAcks, acked, refused)
           answered2 == Answered(part'.pendingAcks, acked', refused')
<1>3. answered2 = answered
  <2>1. RecordsOf(part.pendingAcks)
          = RecordsOf(part'.pendingAcks) \cup RecordsOf(yes) \cup RecordsOf(no)
    BY <1>1 DEF Answers, RecordsOf
  <2> QED
    BY <1>1, <2>1 DEF Answers, Answered
<1>4. AnswersOK(part'.pendingAcks, acked', refused', produced')
  <2>0. AnswersOK(part.pendingAcks, acked, refused, produced)
    BY DEF PlacesOK
  <2>1. \A k \in Answered(part'.pendingAcks, acked', refused') : k <= produced'
    BY <1>2, <1>3, <2>0 DEF AnswersOK
  <2>2. acked' \cap refused' = {}
    <3> SUFFICES ASSUME NEW k \in acked', k \in refused'
                 PROVE  FALSE
      OBVIOUS
    <3>1. /\ k \in acked \/ \E a \in yes : k = a.record
          /\ k \in refused \/ \E a \in no : k = a.record
      BY <1>1 DEF Answers, RecordsOf
    <3> QED
      BY <1>1, <2>0, <3>1 DEF Answers, AnswersOK
  <2>3. \A a \in part'.pendingAcks : a.record \notin acked' \cup refused'
    <3> SUFFICES ASSUME NEW a \in part.pendingAcks, a \notin yes, a \notin no
                 PROVE  a.record \notin acked' /\ a.record \notin refused'
      BY <1>1 DEF Answers
    <3>1. a.record \notin RecordsOf(yes) /\ a.record \notin RecordsOf(no)
      BY <1>1, <2>0 DEF Answers, AnswersOK, RecordsOf
    <3> QED
      BY <1>1, <2>0, <3>1 DEF Answers, AnswersOK
  <2>4. \A a, b \in part'.pendingAcks : a.record = b.record => a = b
    BY <1>1, <2>0 DEF Answers, AnswersOK
  <2> QED
    BY <2>1, <2>2, <2>3, <2>4 DEF AnswersOK
<1> QED
  BY <1>2, <1>3, <1>4 DEF PlacesOK

\* The record a producer sends next is in no place yet.
LEMMA SendPlaces ==
  ASSUME TypedOK, PlacesOK, Send
  PROVE  PlacesOK'
<1> DEFINE answered == Answered(part.pendingAcks, acked, refused)
           mine == produced + 1
<1>1. /\ produced' = mine /\ batch' = Append(batch, mine)
      /\ UNCHANGED <<part, acked, refused, retryQueue>>
  BY DEF Send
<1>2. produced \in Nat /\ mine \in Numbers /\ batch \in Seq(Numbers)
  BY BoundsAssumption DEF TypedOK, LedOK, TypeOK, ProducerTypes, Numbers
<1>3. Range(batch') = Range(batch) \cup {mine}
  BY <1>1, <1>2, RangeOfAppend
<1>4. /\ AnswersOK(part.pendingAcks, acked, refused, produced)
      /\ BatchOK(batch, answered, produced)
      /\ QueueOK(retryQueue, batch, answered, produced)
  BY DEF PlacesOK
<1>5. Range(batch) \subseteq Nat
  BY <1>2, RangeOfNumbers DEF Numbers
<1>6. answered \subseteq Nat
  BY LedPart DEF Answered, TypedOK, LedOK, TypeOK, Led, Partition, RecordsOf, Pending
<1>7. \A i \in DOMAIN retryQueue : Range(retryQueue[i].records) \subseteq Nat
  <2> SUFFICES ASSUME NEW i \in DOMAIN retryQueue
               PROVE  Range(retryQueue[i].records) \subseteq Nat
    OBVIOUS
  <2>1. retryQueue[i] \in Retry
    BY DEF TypedOK, ProducerTypes
  <2>2. retryQueue[i].records \in Seq(Numbers)
    BY <2>1 DEF Retry
  <2> QED
    BY <2>2, RangeOfNumbers DEF Numbers
<1> HIDE DEF answered
<1>8. \A k \in Nat : k <= produced => k <= mine /\ k # mine
  BY <1>2
<1> HIDE DEF mine
<1>9. mine \notin answered
  BY <1>4, <1>6, <1>8 DEF AnswersOK, answered
<1>10. AnswersOK(part.pendingAcks, acked, refused, mine)
  BY <1>4, <1>6, <1>8 DEF AnswersOK, answered
<1>11. BatchOK(batch', answered, mine)
  <2>1. mine <= mine
    BY <1>2 DEF Numbers
  <2> QED
    BY <1>3, <1>4, <1>5, <1>8, <1>9, <2>1 DEF BatchOK
<1>12. QueueOK(retryQueue, batch', answered, mine)
  <2>1. ASSUME NEW i \in DOMAIN retryQueue, NEW k \in Range(retryQueue[i].records)
        PROVE  k <= mine /\ k \notin answered /\ k \notin Range(batch')
    BY <1>3, <1>4, <1>7, <1>8, <2>1 DEF QueueOK
  <2> QED
    BY <1>4, <2>1 DEF QueueOK
<1> QED
  BY <1>1, <1>10, <1>11, <1>12 DEF PlacesOK, answered

LEMMA PlacesInit ==
  ASSUME ProducerInit
  PROVE  PlacesOK
<1>1. part.pendingAcks = {} /\ acked = {} /\ refused = {} /\ batch = <<>> /\ retryQueue = <<>>
  BY DEF ProducerInit, Init, CreatePartition
<1>2. RecordsOf({}) = {} /\ Range(<<>>) = {} /\ DOMAIN <<>> = {}
  BY DEF RecordsOf, Range
<1> QED
  BY <1>1, <1>2 DEF PlacesOK, AnswersOK, BatchOK, QueueOK, Answered

LEMMA PlacesStep ==
  ASSUME TypedOK, PlacesOK, [ProducerNext]_allVars
  PROVE  PlacesOK'
<1>1. CASE Send
  BY <1>1, SendPlaces
<1>2. CASE BatchFlush \/ ProduceRetry
  <2>1. PICK records, attempt, snapshot, queue :
           /\ Takes(records, snapshot, queue) /\ attempt \in Nat
           /\ FlushBatch(records, attempt, snapshot, queue)
    BY <1>2, FlushTakes
  <2>2. records \in Seq(Numbers) /\ snapshot \in BOOLEAN
    BY <2>1 DEF Takes
  <2>3. PICK wrote \in BOOLEAN : \E held, yes, no, parked :
           Flushed(records, snapshot, queue, wrote, held, yes, no, parked)
    BY <2>1, <2>2, FlushOutcome DEF TypedOK
  <2>4. PICK held, yes, no, parked :
           Flushed(records, snapshot, queue, wrote, held, yes, no, parked)
    BY <2>3
  <2>5. produced' = produced
    BY <1>2, FlushTakes
  <2> QED
    BY <2>1, <2>4, <2>5, FlushedPlaces
<1>3. CASE ProduceErrorArm \/ AckLossArm \/ UNCHANGED allVars
  <2>1. UNCHANGED <<part, acked, refused, produced, batch, retryQueue>>
    BY <1>3 DEF ProduceErrorArm, AckLossArm, vars, allVars, producerVars
  <2> QED
    BY <2>1 DEF PlacesOK
<1>4. CASE Replicate /\ UNCHANGED producerVars
  BY <1>4, ReplicatePlaces
<1> QED
  BY <1>1, <1>2, <1>3, <1>4 DEF ProducerNext

\* A record of a producer is in one place at a time, under either election
\* policy: accumulated, in one retry, parked, acknowledged or refused.
THEOREM OneRecordOnePlace == ProducerSpec => []OnePlaceAtATime
<1>1. ProducerSpec => [](TypedOK /\ PlacesOK)
  BY TypedInit, TypedStep, PlacesInit, PlacesStep, PTL DEF ProducerSpec
<1>2. PlacesOK => OnePlaceAtATime
  <2> SUFFICES ASSUME PlacesOK PROVE OnePlaceAtATime
    OBVIOUS
  <2> DEFINE answered == Answered(part.pendingAcks, acked, refused)
  <2>1. /\ AnswersOK(part.pendingAcks, acked, refused, produced)
        /\ BatchOK(batch, answered, produced)
        /\ QueueOK(retryQueue, batch, answered, produced)
    BY DEF PlacesOK
  <2>2. Waiting \cap answered = {}
    BY <2>1 DEF Waiting, BatchOK, QueueOK
  <2>3. RecordsOf(part.pendingAcks) \cap (acked \cup refused) = {}
    BY <2>1 DEF AnswersOK, RecordsOf
  <2>4. acked \cap refused = {}
    BY <2>1 DEF AnswersOK
  <2> QED
    BY <2>2, <2>3, <2>4 DEF OnePlaceAtATime, Answered
<1> QED
  BY <1>1, <1>2, PTL

-----------------------------------------------------------------------------
(* The order of the log, with unclean leader election off.                 *)

LoggedOK == Below(part) /\ \A e \in part.log : e.record <= produced

QueueStored(queue, p) ==
  \A i \in DOMAIN queue : \A k \in Range(queue[i].records) : Stored(p, k)

\* An idempotent log is the sequence of the sends.  For a producer with one
\* request in flight and no sequences: what is accumulated comes after all
\* that is stored, and what waits for a retry is stored already, because only
\* a lost acknowledgement makes such a producer resend a snapshot.
OrderOK ==
  /\ ~Unclean
  /\ Idempotent => InSequence(part, lastSequence)
  /\ Serial /\ ~Idempotent =>
       /\ FirstInOrder(part)
       /\ Increasing(batch)
       /\ \A k \in Range(batch) : Fresh(part, k)
       /\ QueueStored(retryQueue, part)

LEMMA FlushedLog ==
  ASSUME TypedOK, NEW records \in Seq(Numbers), NEW snapshot, NEW queue,
         NEW wrote \in BOOLEAN, NEW held, NEW yes, NEW no, NEW parked,
         Flushed(records, snapshot, queue, wrote, held, yes, no, parked)
  PROVE  LET d == Delivered(records)
         IN  /\ part'.config = part.config
             /\ part'.pendingAcks = part.pendingAcks \cup parked
             /\ IF wrote
                THEN part'.log = d.part.log /\ part'.leo = d.part.leo /\ lastSequence' = d.last
                ELSE part' = part /\ lastSequence' = lastSequence /\ parked = {}
<1> DEFINE d == Delivered(records)
<1>1. Led(d.part) /\ d.part.config = part.config
  BY DeliveredState
<1>2. /\ IF wrote
         THEN /\ part' = [d.part EXCEPT !.pendingAcks = part.pendingAcks \cup parked]
              /\ lastSequence' = d.last
         ELSE part' = part /\ lastSequence' = lastSequence
      /\ parked # {} => wrote
  BY DEF Flushed
<1> HIDE DEF d
<1>3. CASE wrote
  BY <1>1, <1>2, <1>3 DEF Led, Partition, d
<1>4. CASE ~wrote
  BY <1>2, <1>4
<1> QED
  BY <1>3, <1>4

LEMMA FlushedLogged ==
  ASSUME TypedOK, PlacesOK, LoggedOK, NEW records, NEW snapshot, NEW queue,
         Takes(records, snapshot, queue), NEW wrote \in BOOLEAN,
         NEW held, NEW yes, NEW no, NEW parked,
         Flushed(records, snapshot, queue, wrote, held, yes, no, parked),
         produced' = produced
  PROVE  LoggedOK'
<1> DEFINE d == Delivered(records)
<1>1. records \in Seq(Numbers)
  BY DEF Takes
<1>2. IF wrote THEN part'.log = d.part.log /\ part'.leo = d.part.leo ELSE part' = part
  BY <1>1, FlushedLog
<1>3. /\ \A e \in d.part.log : e \in part.log \/ e.record \in Range(records)
      /\ Below(d.part)
  BY <1>1, DeliveredState DEF LoggedOK
<1>4. \A k \in Range(records) : k <= produced
  BY TakesApart
<1> HIDE DEF d
<1> QED
  BY <1>2, <1>3, <1>4 DEF LoggedOK, Below

LEMMA FlushedOrder ==
  ASSUME TypedOK, LoggedOK, OrderOK, NEW records, NEW snapshot, NEW queue,
         Takes(records, snapshot, queue), NEW wrote \in BOOLEAN,
         NEW held, NEW yes, NEW no, NEW parked,
         Flushed(records, snapshot, queue, wrote, held, yes, no, parked),
         producer' = producer
  PROVE  OrderOK'
<1> DEFINE d == Delivered(records)
<1>1. records \in Seq(Numbers) /\ queue \in Seq(Retry) /\ snapshot \in BOOLEAN
  BY DEF Takes
<1>2. /\ part'.config = part.config
      /\ IF wrote THEN part'.log = d.part.log /\ part'.leo = d.part.leo /\ lastSequence' = d.last
                  ELSE part' = part /\ lastSequence' = lastSequence
  <2>1. /\ part'.config = part.config
        /\ part'.pendingAcks = part.pendingAcks \cup parked
        /\ IF wrote
           THEN part'.log = d.part.log /\ part'.leo = d.part.leo /\ lastSequence' = d.last
           ELSE part' = part /\ lastSequence' = lastSequence /\ parked = {}
    BY <1>1, FlushedLog
  <2> HIDE DEF d
  <2> QED
    BY <2>1
<1>3. /\ Idempotent' = Idempotent /\ Serial' = Serial
      /\ ~Unclean'
  BY <1>2 DEF Idempotent, Serial, OrderOK, Unclean
<1>4. Idempotent => InSequence(part', lastSequence')
  <2> SUFFICES ASSUME Idempotent PROVE InSequence(part', lastSequence')
    OBVIOUS
  <2>1. InSequence(part, lastSequence)
    BY DEF OrderOK
  <2>2. InSequence(d.part, d.last)
    BY <1>1, <2>1, DeliveredState
  <2> QED
    BY <1>2, <2>1, <2>2 DEF InSequence
<1>5. ASSUME Serial, ~Idempotent
      PROVE  /\ FirstInOrder(part')
             /\ Increasing(batch')
             /\ \A k \in Range(batch') : Fresh(part', k)
             /\ QueueStored(retryQueue', part')
  <2>1. /\ FirstInOrder(part)
        /\ Increasing(batch)
        /\ \A k \in Range(batch) : Fresh(part, k)
        /\ QueueStored(retryQueue, part)
    BY <1>5 DEF OrderOK
  <2>2. /\ QueueStored(queue, part)
        /\ snapshot => \A k \in Range(records) : Stored(part, k)
        /\ ~snapshot => records = batch
    <3>1. retryQueue \in Seq(Retry)
      BY DEF TypedOK, ProducerTypes
    <3>2. CASE ~snapshot /\ records = batch /\ queue = retryQueue
      BY <2>1, <3>2
    <3>3. CASE /\ retryQueue # <<>> /\ queue = Tail(retryQueue)
               /\ \/ snapshot /\ records = retryQueue[1].records
                  \/ ~snapshot /\ records = batch
      BY <2>1, <3>1, <3>3, TailElements DEF QueueStored
    <3> QED
      BY <3>2, <3>3 DEF Takes
  <2>3. Range(<<>>) = {} /\ Increasing(<<>>)
    BY DEF Range, Increasing
  <2>4. /\ Queued(queue, held)
        /\ batch' = <<>> \/ batch' = batch
        /\ held \in Seq(Numbers) /\ (\A k \in Range(held) : k \in Range(records))
        /\ held # <<>> => wrote
        /\ batch' = <<>> \/ snapshot \/ ~wrote \/ d.rejected # <<>>
    BY <1>5 DEF Flushed, ClearedUnless
  <2>5. d.rejected = <<>>
    BY <1>1, <1>5, DeliveredState
  <2>6. \A i \in DOMAIN records : Ahead(part, records, i)
    <3> SUFFICES ASSUME NEW i \in DOMAIN records PROVE Ahead(part, records, i)
      OBVIOUS
    <3>1. records[i] \in Range(records)
      BY DEF Range
    <3> QED
      BY <1>1, <2>1, <2>2, <3>1 DEF Ahead
  <2>7. /\ FirstInOrder(d.part)
        /\ part.log \subseteq d.part.log
        /\ \A e \in d.part.log : e \in part.log \/ e.record \in Range(records)
        /\ \A i \in DOMAIN records : Stored(d.part, records[i])
    BY <1>1, <1>5, <2>1, <2>5, <2>6, DeliveredState DEF LoggedOK
  <2> HIDE DEF d
  <2>8. FirstInOrder(part')
    BY <1>2, <2>1, <2>7 DEF FirstInOrder
  <2>9. Increasing(batch')
    BY <2>1, <2>3, <2>4
  <2>10. part.log \subseteq part'.log
    BY <1>2, <2>7
  <2>11. wrote => \A k \in Range(records) : Stored(part', k)
    BY <1>2, <2>7 DEF Range, Stored
  <2>12. ASSUME NEW k \in Range(batch') PROVE Fresh(part', k)
    <3>1. batch' = batch /\ k \in Range(batch) /\ Fresh(part, k)
      BY <2>1, <2>3, <2>4, <2>12
    <3>2. CASE ~wrote
      BY <1>2, <3>1, <3>2
    <3>3. CASE wrote
      <4>1. snapshot
        BY <2>3, <2>4, <2>5, <2>12, <3>3
      <4>2. \A e \in d.part.log : \E f \in part.log : f.record = e.record
        BY <2>2, <2>7, <4>1 DEF Stored
      <4> QED
        BY <1>2, <3>1, <3>3, <4>2 DEF Fresh
    <3> QED
      BY <3>2, <3>3
  <2>13. QueueStored(retryQueue', part')
    <3>1. QueueStored(queue, part')
      BY <2>2, <2>10 DEF QueueStored, Stored
    <3>2. CASE retryQueue' = queue
      BY <3>1, <3>2
    <3>3. CASE \E attempt \in Nat : retryQueue' = Append(queue, [attempt |-> attempt, records |-> held])
      <4>1. PICK attempt \in Nat : retryQueue' = Append(queue, [attempt |-> attempt, records |-> held])
        BY <3>3
      <4> DEFINE event == [attempt |-> attempt, records |-> held]
      <4>2. event \in Retry /\ event.records = held
        BY <2>4 DEF Retry
      <4> HIDE DEF event
      <4>3. \A i \in DOMAIN retryQueue' :
              \/ i \in DOMAIN queue /\ retryQueue'[i] = queue[i]
              \/ i \notin DOMAIN queue /\ i = Len(queue) + 1 /\ retryQueue'[i] = event
        BY <1>1, <4>1, <4>2, AppendElements DEF event
      <4>4. \A k \in Range(held) : Stored(part', k)
        BY <2>3, <2>4, <2>11
      <4> QED
        BY <3>1, <4>2, <4>3, <4>4 DEF QueueStored
    <3> QED
      BY <2>4, <3>2, <3>3 DEF Queued
  <2> QED
    BY <2>8, <2>9, <2>12, <2>13
<1> QED
  BY <1>3, <1>4, <1>5 DEF OrderOK

LEMMA ReplicateLogged ==
  ASSUME TypedOK, LoggedOK, Replicate
  PROVE  LoggedOK'
<1>1. produced' = produced
  BY ReplicateAnswers DEF TypedOK
<1>2. PICK yes, no : Answers(yes, no)
  BY ReplicateAnswers DEF TypedOK
<1>3. \/ part'.log = part.log /\ part'.leo = part.leo
      \/ part'.log = {e \in part.log : e.offset < part'.leo}
  BY <1>2 DEF Answers
<1> QED
  BY <1>1, <1>3 DEF LoggedOK, Below

LEMMA ReplicateOrder ==
  ASSUME TypedOK, OrderOK, Replicate, UNCHANGED producerVars
  PROVE  OrderOK'
<1>1. PICK yes, no : Answers(yes, no)
  BY ReplicateAnswers DEF TypedOK
<1>2. part'.log = part.log /\ part'.leo = part.leo /\ part'.config = part.config
  BY <1>1 DEF Answers, OrderOK
<1>3. UNCHANGED <<producer, batch, retryQueue, lastSequence>>
  BY DEF producerVars
<1> QED
  BY <1>2, <1>3 DEF OrderOK, Unclean, Idempotent, Serial, InSequence, FirstInOrder, Fresh,
                    QueueStored, Stored

LEMMA SendOrder ==
  ASSUME TypedOK, PlacesOK, LoggedOK, OrderOK, Send
  PROVE  OrderOK' /\ LoggedOK'
<1> DEFINE mine == produced + 1
<1>1. /\ produced' = mine /\ batch' = Append(batch, mine)
      /\ UNCHANGED <<part, producer, retryQueue, lastSequence>>
  BY DEF Send
<1>2. produced \in Nat /\ mine \in Numbers /\ batch \in Seq(Numbers)
  BY BoundsAssumption DEF TypedOK, LedOK, TypeOK, ProducerTypes, Numbers
<1>3. Range(batch') = Range(batch) \cup {mine}
  BY <1>1, <1>2, RangeOfAppend
<1>4. \A e \in part.log : e.record \in Nat /\ e.record <= produced
  BY EntryOfLog, LedPart DEF TypedOK, Led, LoggedOK
<1>5. \A k \in Range(batch) : k \in Nat /\ k <= produced
  BY <1>2, RangeOfNumbers DEF PlacesOK, BatchOK, Numbers
<1>6. \A k \in Nat : k <= produced => k < mine /\ k <= mine
  BY <1>2
<1>7. \A i \in DOMAIN batch' :
        \/ i \in DOMAIN batch /\ batch'[i] = batch[i]
        \/ i \notin DOMAIN batch /\ i = Len(batch) + 1 /\ batch'[i] = mine
  BY <1>1, <1>2, AppendElements
<1>8. DOMAIN batch = 1 .. Len(batch) /\ Len(batch) \in Nat /\ Len(batch') = Len(batch) + 1
      /\ DOMAIN batch' = 1 .. Len(batch')
  BY <1>1, <1>2
<1> HIDE DEF mine
<1>9. LoggedOK'
  BY <1>1, <1>4, <1>6 DEF LoggedOK, Below
<1>10. Increasing(batch) => Increasing(batch')
  <2> SUFFICES ASSUME Increasing(batch), NEW i \in DOMAIN batch', NEW j \in DOMAIN batch', i < j
               PROVE  batch'[i] < batch'[j]
    BY DEF Increasing
  <2>1. i \in DOMAIN batch /\ batch'[i] = batch[i]
    BY <1>7, <1>8
  <2>2. CASE j \in DOMAIN batch
    BY <1>7, <2>1, <2>2 DEF Increasing
  <2>3. CASE j \notin DOMAIN batch
    <3>1. batch[i] \in Range(batch) /\ batch'[j] = mine
      BY <1>7, <2>1, <2>3 DEF Range
    <3> QED
      BY <1>5, <1>6, <2>1, <3>1
  <2> QED
    BY <2>2, <2>3
<1>11. (\A k \in Range(batch) : Fresh(part, k)) => \A k \in Range(batch') : Fresh(part, k)
  BY <1>3, <1>4, <1>6 DEF Fresh
<1>12. OrderOK'
  BY <1>1, <1>10, <1>11 DEF OrderOK, Unclean, Idempotent, Serial
<1> QED
  BY <1>9, <1>12

\* What a flush comes down to, for the invariants.
LEMMA FlushTaken ==
  ASSUME TypedOK, BatchFlush \/ ProduceRetry
  PROVE  /\ UNCHANGED <<produced, producer>>
         /\ \E records, snapshot, queue, held, yes, no, parked : \E wrote \in BOOLEAN :
              /\ Takes(records, snapshot, queue)
              /\ Flushed(records, snapshot, queue, wrote, held, yes, no, parked)
<1>1. PICK records, attempt, snapshot, queue :
         /\ Takes(records, snapshot, queue) /\ attempt \in Nat
         /\ FlushBatch(records, attempt, snapshot, queue)
  BY FlushTakes
<1>2. records \in Seq(Numbers) /\ snapshot \in BOOLEAN
  BY <1>1 DEF Takes
<1>3. PICK wrote \in BOOLEAN : \E held, yes, no, parked :
         Flushed(records, snapshot, queue, wrote, held, yes, no, parked)
  BY <1>1, <1>2, FlushOutcome DEF TypedOK
<1>4. PICK held, yes, no, parked :
         Flushed(records, snapshot, queue, wrote, held, yes, no, parked)
  BY <1>3
<1>5. \E w \in BOOLEAN :
         /\ Takes(records, snapshot, queue)
         /\ Flushed(records, snapshot, queue, w, held, yes, no, parked)
  BY <1>1, <1>4
<1> QED
  BY <1>5, FlushTakes

LEMMA LoggedInit ==
  ASSUME ProducerInit
  PROVE  LoggedOK
BY DEF ProducerInit, Init, CreatePartition, LoggedOK, Below

LEMMA LoggedStep ==
  ASSUME TypedOK, PlacesOK, LoggedOK, [ProducerNext]_allVars
  PROVE  LoggedOK'
<1>1. CASE Send
  <2>1. part' = part /\ produced' = produced + 1 /\ produced \in Nat
    BY <1>1, BoundsAssumption DEF Send, TypedOK, LedOK, TypeOK
  <2>2. \A e \in part.log : e.record \in Nat
    BY EntryOfLog, LedPart DEF TypedOK, Led
  <2> QED
    BY <2>1, <2>2 DEF LoggedOK, Below
<1>2. CASE BatchFlush \/ ProduceRetry
  <2>1. PICK records, snapshot, queue, held, yes, no, parked : \E wrote \in BOOLEAN :
           /\ Takes(records, snapshot, queue)
           /\ Flushed(records, snapshot, queue, wrote, held, yes, no, parked)
    BY <1>2, FlushTaken
  <2>2. produced' = produced
    BY <1>2, FlushTaken
  <2> QED
    BY <2>1, <2>2, FlushedLogged
<1>3. CASE ProduceErrorArm \/ AckLossArm \/ UNCHANGED allVars
  BY <1>3 DEF ProduceErrorArm, AckLossArm, vars, allVars, LoggedOK, Below
<1>4. CASE Replicate /\ UNCHANGED producerVars
  BY <1>4, ReplicateLogged
<1> QED
  BY <1>1, <1>2, <1>3, <1>4 DEF ProducerNext

LEMMA OrderInit ==
  ASSUME ProducerInit, \A config \in Topics : ~config.uncleanLeaderElection
  PROVE  OrderOK
<1>1. PICK config \in Topics : part = CreatePartition(FirstLeader, config)
  BY DEF ProducerInit, Init
<1>2. part.log = {} /\ part.leo = 0 /\ part.config = config
  BY <1>1 DEF CreatePartition
<1>3. batch = <<>> /\ retryQueue = <<>> /\ lastSequence = -1
  BY DEF ProducerInit
<1>4. Range(<<>>) = {} /\ Increasing(<<>>) /\ DOMAIN <<>> = {}
  BY DEF Range, Increasing
<1>5. 1 .. 0 = {} /\ -1 = 0 - 1
  OBVIOUS
<1> QED
  BY <1>2, <1>3, <1>4, <1>5 DEF OrderOK, Unclean, InSequence, FirstInOrder, QueueStored

LEMMA OrderStep ==
  ASSUME TypedOK, PlacesOK, LoggedOK, OrderOK, [ProducerNext]_allVars
  PROVE  OrderOK'
<1>1. CASE Send
  BY <1>1, SendOrder
<1>2. CASE BatchFlush \/ ProduceRetry
  <2>1. PICK records, snapshot, queue, held, yes, no, parked : \E wrote \in BOOLEAN :
           /\ Takes(records, snapshot, queue)
           /\ Flushed(records, snapshot, queue, wrote, held, yes, no, parked)
    BY <1>2, FlushTaken
  <2>2. producer' = producer
    BY <1>2, FlushTaken
  <2> QED
    BY <2>1, <2>2, FlushedOrder
<1>3. CASE ProduceErrorArm \/ AckLossArm \/ UNCHANGED allVars
  <2>1. UNCHANGED <<part, producer, batch, retryQueue, lastSequence>>
    BY <1>3 DEF ProduceErrorArm, AckLossArm, vars, allVars, producerVars
  <2> QED
    BY <2>1 DEF OrderOK, Unclean, Idempotent, Serial
<1>4. CASE Replicate /\ UNCHANGED producerVars
  BY <1>4, ReplicateOrder
<1> QED
  BY <1>1, <1>2, <1>3, <1>4 DEF ProducerNext

\* Where no topic allows unclean election, the log of an idempotent producer
\* is the sequence of its sends, and the first copies of the records of a
\* producer with one request in flight are in the order of its sends.  An
\* unclean election cuts the log and does not reset what the partition
\* remembers of the sequences, which is why the hypothesis is needed.
THEOREM SendOrderKept ==
  ASSUME \A config \in Topics : ~config.uncleanLeaderElection
  PROVE  ProducerSpec => []LogIsSendOrder
<1>1. ProducerInit => TypedOK /\ PlacesOK /\ LoggedOK /\ OrderOK
  BY TypedInit, PlacesInit, LoggedInit, OrderInit
<1>2. TypedOK /\ PlacesOK /\ LoggedOK /\ OrderOK /\ [ProducerNext]_allVars
        => (TypedOK /\ PlacesOK /\ LoggedOK /\ OrderOK)'
  BY TypedStep, PlacesStep, LoggedStep, OrderStep
<1>3. TypedOK /\ OrderOK => LogIsSendOrder
  <2> SUFFICES ASSUME TypedOK, OrderOK PROVE LogIsSendOrder
    OBVIOUS
  <2>1. Idempotent => part.log = {[offset |-> k - 1, record |-> k] : k \in 1 .. part.leo}
    BY DEF OrderOK, InSequence
  <2>2. CASE Serial /\ Idempotent
    <3>1. ASSUME NEW e \in part.log, NEW f \in part.log, e.record < f.record
          PROVE  e.offset < f.offset
      <4>1. PICK j \in 1 .. part.leo : e = [offset |-> j - 1, record |-> j]
        BY <2>1, <2>2
      <4>2. PICK k \in 1 .. part.leo : f = [offset |-> k - 1, record |-> k]
        BY <2>1, <2>2
      <4>3. part.leo \in Nat
        BY EntryOfLog, LedPart DEF TypedOK, Led
      <4> QED
        BY <3>1, <4>1, <4>2, <4>3
    <3> QED
      BY <2>1, <3>1 DEF LogIsSendOrder
  <2>3. CASE Serial /\ ~Idempotent
    BY <2>3 DEF OrderOK, FirstInOrder, LogIsSendOrder
  <2>4. CASE ~Serial
    BY <2>1, <2>4 DEF LogIsSendOrder
  <2> QED
    BY <2>2, <2>3, <2>4
<1> QED
  BY <1>1, <1>2, <1>3, PTL DEF ProducerSpec

-----------------------------------------------------------------------------
(* Acknowledgements.                                                       *)

\* A parked record is stored at its offset or below, so an unclean election
\* that spares the request spares the record.
ParkedStored(p) ==
  \A a \in p.pendingAcks : \E e \in p.log : e.record = a.record /\ e.offset <= a.offset

TruthOK ==
  /\ Idempotent => ~Unclean /\ InSequence(part, lastSequence)
  /\ ParkedStored(part)

NoLie == \A record \in acked' \ acked : Stored(part', record)

\* The records of a batch that went through the append loop are stored: those
\* it skipped as repetitions were in the log already.
LEMMA AllStored ==
  ASSUME TypedOK, LoggedOK, TruthOK, NEW records \in Seq(Numbers),
         Delivered(records).rejected = <<>>
  PROVE  LET d == Delivered(records)
         IN  \A k \in Range(records) :
               \E e \in d.part.log : e.record = k /\ e.offset <= d.part.leo - 1
<1> DEFINE d == Delivered(records)
<1>1. /\ \A i \in DOMAIN records : \/ Stored(d.part, records[i])
                                   \/ Idempotent /\ records[i] - 1 <= d.last
      /\ Idempotent => InSequence(d.part, d.last)
      /\ Below(d.part) /\ Led(d.part)
  BY DeliveredState DEF TruthOK, LoggedOK
<1> HIDE DEF d
<1>2. /\ d.part.leo \in Nat
      /\ \A e \in d.part.log : e.offset \in Nat
  BY <1>1, EntryOfLog DEF Led
<1>3. \A e \in d.part.log : e.offset <= d.part.leo - 1
  BY <1>1, <1>2 DEF Below
<1>4. ASSUME NEW i \in DOMAIN records PROVE Stored(d.part, records[i])
  <2>1. CASE Idempotent /\ records[i] - 1 <= d.last
    <3>1. InSequence(d.part, d.last)
      BY <1>1, <2>1
    <3> DEFINE k == records[i]
               entry == [offset |-> k - 1, record |-> k]
    <3>2. k \in 1 .. d.part.leo
      BY <1>2, <2>1, <3>1 DEF InSequence, Numbers
    <3> HIDE DEF k
    <3>3. entry \in d.part.log /\ entry.record = k
      BY <3>1, <3>2 DEF InSequence
    <3> HIDE DEF entry
    <3> QED
      BY <3>3 DEF Stored, k
  <2> QED
    BY <1>1, <2>1
<1> QED
  BY <1>3, <1>4 DEF Range, Stored, d

LEMMA FlushedTruth ==
  ASSUME TypedOK, LoggedOK, TruthOK, NEW records, NEW snapshot, NEW queue,
         Takes(records, snapshot, queue), NEW wrote \in BOOLEAN,
         NEW held, NEW yes, NEW no, NEW parked,
         Flushed(records, snapshot, queue, wrote, held, yes, no, parked),
         producer' = producer
  PROVE  TruthOK' /\ NoLie
<1> DEFINE d == Delivered(records)
<1>1. records \in Seq(Numbers)
  BY DEF Takes
<1>2. /\ part'.config = part.config
      /\ part'.pendingAcks = part.pendingAcks \cup parked
      /\ IF wrote
         THEN part'.log = d.part.log /\ part'.leo = d.part.leo /\ lastSequence' = d.last
         ELSE part' = part /\ lastSequence' = lastSequence /\ parked = {}
  BY <1>1, FlushedLog
<1>3. /\ yes # {} \/ parked # {} => wrote /\ d.rejected = <<>>
      /\ acked' = acked \cup yes /\ yes \subseteq Range(records)
      /\ RecordsOf(parked) \subseteq Range(records)
      /\ \A a \in parked : a.offset = d.part.leo - 1
  BY DEF Flushed
<1>4. Idempotent /\ wrote => InSequence(d.part, d.last)
  BY <1>1, DeliveredState DEF TruthOK
<1>5. part.log \subseteq d.part.log
  BY <1>1, DeliveredState
<1>6. d.rejected = <<>> => \A k \in Range(records) :
        \E e \in d.part.log : e.record = k /\ e.offset <= d.part.leo - 1
  BY <1>1, AllStored
<1> HIDE DEF d
<1>7. Idempotent' => ~Unclean' /\ InSequence(part', lastSequence')
  BY <1>2, <1>4 DEF TruthOK, Idempotent, Unclean, InSequence
<1>8. NoLie
  BY <1>2, <1>3, <1>6 DEF NoLie, Stored
<1>9. ParkedStored(part')
  <2> SUFFICES ASSUME NEW a \in part'.pendingAcks
               PROVE  \E e \in part'.log : e.record = a.record /\ e.offset <= a.offset
    BY DEF ParkedStored
  <2>1. CASE a \in part.pendingAcks
    BY <1>2, <1>5, <2>1 DEF TruthOK, ParkedStored
  <2>2. CASE a \in parked
    <3>1. a.record \in Range(records) /\ a.offset = d.part.leo - 1 /\ wrote /\ d.rejected = <<>>
      BY <1>3, <2>2 DEF RecordsOf
    <3> QED
      BY <1>2, <1>6, <3>1
  <2> QED
    BY <1>2, <2>1, <2>2
<1> QED
  BY <1>7, <1>8, <1>9 DEF TruthOK

LEMMA ReplicateTruth ==
  ASSUME TypedOK, TruthOK, Replicate, UNCHANGED producerVars
  PROVE  TruthOK' /\ NoLie
<1>1. PICK yes, no : Answers(yes, no)
  BY ReplicateAnswers DEF TypedOK
<1>2. UNCHANGED <<producer, lastSequence>>
  BY DEF producerVars
<1>3. part.log \in SUBSET Entry /\ part.pendingAcks \in SUBSET Pending /\ part'.leo \in Nat
  BY LedPart, OtherTyped DEF TypedOK, LedOK, TypeOK, Partition
<1>4. Idempotent' => ~Unclean' /\ InSequence(part', lastSequence')
  BY <1>1, <1>2 DEF Answers, TruthOK, Idempotent, Unclean, InSequence
<1>5. ASSUME NEW a \in part.pendingAcks, a \notin no
      PROVE  \E e \in part'.log : e.record = a.record /\ e.offset <= a.offset
  <2>1. PICK e \in part.log : e.record = a.record /\ e.offset <= a.offset
    BY DEF TruthOK, ParkedStored
  <2>2. e.offset \in Nat /\ a.offset \in Nat
    BY <1>3 DEF Entry, Pending
  <2>3. CASE part'.log = part.log
    BY <2>1, <2>3
  <2>4. CASE /\ part'.log = {f \in part.log : f.offset < part'.leo}
             /\ a.offset < part'.leo
    BY <1>3, <2>1, <2>2, <2>4
  <2> QED
    BY <1>1, <1>5, <2>3, <2>4 DEF Answers
<1>6. ParkedStored(part')
  BY <1>1, <1>5 DEF Answers, ParkedStored
<1>7. NoLie
  BY <1>1, <1>5 DEF Answers, NoLie, Stored, RecordsOf
<1> QED
  BY <1>4, <1>6, <1>7 DEF TruthOK

LEMMA TruthInit ==
  ASSUME ProducerInit,
         \/ \A config \in Topics : ~config.uncleanLeaderElection
         \/ \A p \in Producers : ~p.idempotent
  PROVE  TruthOK
<1>1. PICK config \in Topics : part = CreatePartition(FirstLeader, config)
  BY DEF ProducerInit, Init
<1>2. part.log = {} /\ part.leo = 0 /\ part.config = config /\ part.pendingAcks = {}
  BY <1>1 DEF CreatePartition
<1>3. lastSequence = -1 /\ producer \in Producers
  BY DEF ProducerInit
<1>4. 1 .. 0 = {} /\ -1 = 0 - 1
  OBVIOUS
<1> QED
  BY <1>2, <1>3, <1>4 DEF TruthOK, ParkedStored, Unclean, Idempotent, InSequence

LEMMA TruthStep ==
  ASSUME TypedOK, LoggedOK, TruthOK, [ProducerNext]_allVars
  PROVE  TruthOK' /\ NoLie
<1>1. CASE Send \/ ProduceErrorArm \/ AckLossArm \/ UNCHANGED allVars
  <2>1. UNCHANGED <<part, producer, lastSequence, acked>>
    BY <1>1 DEF Send, ProduceErrorArm, AckLossArm, vars, allVars, producerVars
  <2> QED
    BY <2>1 DEF TruthOK, Unclean, Idempotent, NoLie
<1>2. CASE BatchFlush \/ ProduceRetry
  <2>1. PICK records, snapshot, queue, held, yes, no, parked : \E wrote \in BOOLEAN :
           /\ Takes(records, snapshot, queue)
           /\ Flushed(records, snapshot, queue, wrote, held, yes, no, parked)
    BY <1>2, FlushTaken
  <2>2. producer' = producer
    BY <1>2, FlushTaken
  <2> QED
    BY <2>1, <2>2, FlushedTruth
<1>3. CASE Replicate /\ UNCHANGED producerVars
  BY <1>3, ReplicateTruth
<1> QED
  BY <1>1, <1>2, <1>3 DEF ProducerNext

\* An acknowledgement is about a record that is in the log at that moment,
\* also where unclean elections cut the log, unless the producer is
\* idempotent there: its repetitions of a record that was cut are skipped and
\* acknowledged, because the partition still remembers their sequence.
THEOREM AcknowledgedIsStored ==
  ASSUME \/ \A config \in Topics : ~config.uncleanLeaderElection
         \/ \A p \in Producers : ~p.idempotent
  PROVE  ProducerSpec => AcksNeverLie
<1>1. ProducerInit => TypedOK /\ PlacesOK /\ LoggedOK /\ TruthOK
  BY TypedInit, PlacesInit, LoggedInit, TruthInit
<1>2. TypedOK /\ PlacesOK /\ LoggedOK /\ TruthOK /\ [ProducerNext]_allVars
        => (TypedOK /\ PlacesOK /\ LoggedOK /\ TruthOK)'
  BY TypedStep, PlacesStep, LoggedStep, TruthStep
<1>3. TypedOK /\ PlacesOK /\ LoggedOK /\ TruthOK /\ [ProducerNext]_allVars
        => [\A record \in acked' \ acked : Stored(part', record)]_allVars
  BY TruthStep DEF NoLie
<1> QED
  BY <1>1, <1>2, <1>3, PTL DEF ProducerSpec, AcksNeverLie

-----------------------------------------------------------------------------
(* The log, under transactions and compaction (KafkaLog) *)

CONSTANT Null    \* null and undefined

Log == INSTANCE KafkaLog

\* A partition as createPartition makes it and the engine keeps it.
LoggedPartition ==
  [ topic : STRING, index : Nat, log : Seq(Log!LogEntry), logStartOffset : Nat, leo : Nat,
    lastStableOffset : Nat,
    segments : Seq([baseOffset : Nat, bytes : Nat, createdAt : Nat, sealed : BOOLEAN]),
    producerState : UNION {[ids -> Nat] : ids \in SUBSET Nat} ]

\* Offsets rise, below the log end; a marker has no key; and the last stable
\* offset has passed neither the log end nor a record still undecided.
WellKept(p) ==
  /\ p \in LoggedPartition
  /\ \A i, j \in DOMAIN p.log : i < j => p.log[i].offset < p.log[j].offset
  /\ \A i \in DOMAIN p.log : /\ p.log[i].offset < p.leo
                             /\ Log!IsMarker(p.log[i]) => p.log[i].key = Null
  /\ p.lastStableOffset <= p.leo
  /\ \A offset \in Log!Unresolved(p) : p.lastStableOffset <= offset

\* What the engine appends: a record, or the marker of a transaction that has
\* a record in the partition and no marker.
Appendable(p, r) ==
  /\ r \in Log!LogEntry
  /\ \/ r.control = Null
     \/ \E at \in Nat, outcome \in Log!Outcomes :
          /\ r = Log!ControlRecord(r.txnId, outcome, at)
          /\ Log!PartitionHasOpenTxnRecord(p, r.txnId)

\* Nothing a consumer was to see below the last stable offset is withdrawn,
\* and nothing withheld there is given: q comes after p.
VerdictsKept(p, q) ==
  /\ p.lastStableOffset <= q.lastStableOffset
  /\ \A e \in Log!ToSet(p.log) \cap Log!ToSet(q.log) :
       e.offset < p.lastStableOffset =>
         (Log!VisibleToCommitted(e, q) <=> Log!VisibleToCommitted(e, p))

LEMMA LogFields ==
  ASSUME NEW p \in LoggedPartition
  PROVE  /\ p.log \in Seq(Log!LogEntry) /\ p.leo \in Nat /\ p.lastStableOffset \in Nat
         /\ \A i \in DOMAIN p.log : p.log[i] \in Log!LogEntry
         /\ \A e \in Log!ToSet(p.log) : e \in Log!LogEntry /\ e.offset \in Nat
<1>1. p.log \in Seq(Log!LogEntry) /\ p.leo \in Nat /\ p.lastStableOffset \in Nat
  BY DEF LoggedPartition
<1>2. \A i \in DOMAIN p.log : p.log[i] \in Log!LogEntry
  BY <1>1
<1>3. \A e \in Log!LogEntry : e.offset \in Nat
  BY DEF Log!LogEntry
<1>4. \A e \in Log!ToSet(p.log) : e \in Log!LogEntry
  BY <1>2 DEF Log!ToSet
<1> QED
  BY <1>1, <1>2, <1>3, <1>4

\* An entry that is in the log, and what WellKept says of it.
LEMMA KeptEntries ==
  ASSUME NEW p, WellKept(p)
  PROVE  /\ p \in LoggedPartition
         /\ \A e \in Log!ToSet(p.log) : /\ e \in Log!LogEntry /\ e.offset \in Nat /\ e.offset < p.leo
                                        /\ Log!IsMarker(e) => e.key = Null
         /\ p.leo \in Nat /\ p.lastStableOffset \in Nat
<1>1. p \in LoggedPartition
  BY DEF WellKept
<1>2. \A e \in Log!ToSet(p.log) : e.offset < p.leo /\ (Log!IsMarker(e) => e.key = Null)
  BY DEF WellKept, Log!ToSet
<1> QED
  BY <1>1, <1>2, LogFields

\* The fields of a partition whose last stable offset is set.
LEMMA ResetStable ==
  ASSUME NEW p \in LoggedPartition, NEW lso \in Nat, NEW q,
         q = [p EXCEPT !.lastStableOffset = lso]
  PROVE  /\ q \in LoggedPartition /\ q.log = p.log /\ q.leo = p.leo
         /\ q.lastStableOffset = lso
BY DEF LoggedPartition

\* The fields of a partition whose log is set.
LEMMA ResetLog ==
  ASSUME NEW p \in LoggedPartition, NEW log \in Seq(Log!LogEntry), NEW q,
         q = [p EXCEPT !.log = log]
  PROVE  /\ q \in LoggedPartition /\ q.log = log /\ q.leo = p.leo
         /\ q.lastStableOffset = p.lastStableOffset
BY DEF LoggedPartition

\* Min of a nonempty set of naturals is its least element.
LEMMA MinIsLeast ==
  ASSUME NEW S \in SUBSET Nat, S # {}
  PROVE  Log!Min(S) \in S /\ \A n \in S : Log!Min(S) <= n
<1>1. PICK m \in S : \A n \in S : <<n, m>> \notin OpToRel(<, Nat)
  BY NatLessThanWellFounded, WFMin
<1>2. \A n \in S : ~(n < m)
  BY <1>1 DEF OpToRel
<1>3. \A n \in S : m <= n
  BY <1>2
<1> QED
  BY <1>3 DEF Log!Min

\* The least of the log end and the offsets undecided.
LEMMA Recomputation ==
  ASSUME NEW p, WellKept(p)
  PROVE  LET q == Log!RecomputeLastStableOffset(p)
         IN  /\ WellKept(q) /\ q.log = p.log /\ q.leo = p.leo
             /\ p.lastStableOffset <= q.lastStableOffset
<1> DEFINE S == {p.leo} \cup Log!Unresolved(p)
           q == Log!RecomputeLastStableOffset(p)
<1>1. S \in SUBSET Nat /\ S # {}
  BY KeptEntries DEF Log!Unresolved
<1>2. Log!Min(S) \in S /\ \A n \in S : Log!Min(S) <= n
  BY <1>1, MinIsLeast
<1>3. q = [p EXCEPT !.lastStableOffset = Log!Min(S)]
  BY DEF Log!RecomputeLastStableOffset, Log!HighWatermark
<1>4. \A n \in S : p.lastStableOffset <= n
  BY DEF WellKept
<1> HIDE DEF S
<1>5. Log!Min(S) \in Nat /\ p.lastStableOffset <= Log!Min(S)
  BY <1>1, <1>2, <1>4
<1>6. /\ q \in LoggedPartition /\ q.log = p.log /\ q.leo = p.leo
      /\ q.lastStableOffset = Log!Min(S)
  <2>1. p \in LoggedPartition
    BY DEF WellKept
  <2> HIDE DEF q
  <2> QED
    BY <1>3, <1>5, <2>1, ResetStable
<1> HIDE DEF q
<1>7. Log!Unresolved(q) = Log!Unresolved(p)
  BY <1>6 DEF Log!Unresolved, Log!Marked
<1>8. q.lastStableOffset <= q.leo /\ \A offset \in Log!Unresolved(q) : q.lastStableOffset <= offset
  BY <1>2, <1>6, <1>7 DEF S
<1>9. WellKept(q)
  BY <1>6, <1>8 DEF WellKept
<1> QED
  BY <1>5, <1>6, <1>9 DEF q

\* An entry below the last stable offset is decided: it is a marker, or has no
\* transaction, or its transaction has a marker.
LEMMA BelowIsDecided ==
  ASSUME NEW p, WellKept(p), NEW e \in Log!ToSet(p.log), e.offset < p.lastStableOffset,
         ~Log!IsMarker(e), e.txnId # Null
  PROVE  e.txnId \in Log!Marked(p, Log!Outcomes)
<1>1. SUFFICES ASSUME e.txnId \notin Log!Marked(p, Log!Outcomes) PROVE FALSE
  OBVIOUS
<1>2. e.offset \in Log!Unresolved(p)
  BY <1>1 DEF Log!Unresolved
<1>3. p.lastStableOffset <= e.offset
  BY <1>2 DEF WellKept
<1> QED
  BY <1>3, KeptEntries

\* A new partition is well kept.
LEMMA CreatedWellKept ==
  ASSUME NEW topic \in STRING, NEW index \in Nat
  PROVE  WellKept(Log!CreatePartition(topic, index))
<1> DEFINE p == Log!CreatePartition(topic, index)
<1>1. << >> \in [{} -> Nat] /\ << >> \in Seq(Log!LogEntry)
  OBVIOUS
<1>2. << >> \in UNION {[ids -> Nat] : ids \in SUBSET Nat}
  BY <1>1
<1>3. p \in LoggedPartition /\ p.log = << >> /\ p.leo = 0 /\ p.lastStableOffset = 0
  BY <1>1, <1>2 DEF Log!CreatePartition, LoggedPartition
<1>4. Log!ToSet(p.log) = {}
  BY <1>3 DEF Log!ToSet
<1>5. Log!Unresolved(p) = {}
  BY <1>4 DEF Log!Unresolved
<1> HIDE DEF p
<1> QED
  BY <1>3, <1>5 DEF WellKept, p

\* The log after an append.
LEMMA LogAppended ==
  ASSUME NEW p, WellKept(p), NEW r \in Log!LogEntry, NEW entry, entry = [r EXCEPT !.offset = p.leo],
         NEW q, q = Log!AppendRecord(p, r)
  PROVE  /\ q \in LoggedPartition /\ q.log = Append(p.log, entry) /\ q.leo = p.leo + 1
         /\ q.lastStableOffset = p.lastStableOffset
         /\ Log!ToSet(q.log) = Log!ToSet(p.log) \cup {entry}
         /\ entry \in Log!LogEntry /\ entry.offset = p.leo
         /\ entry.control = r.control /\ entry.txnId = r.txnId /\ entry.key = r.key
<1>1. p \in LoggedPartition /\ p.log \in Seq(Log!LogEntry) /\ p.leo \in Nat
  BY LogFields DEF WellKept
<1>2. /\ entry \in Log!LogEntry /\ entry.offset = p.leo
      /\ entry.control = r.control /\ entry.txnId = r.txnId /\ entry.key = r.key
  BY <1>1 DEF Log!LogEntry
<1>3. Append(p.log, entry) \in Seq(Log!LogEntry) /\ p.leo + 1 \in Nat
  BY <1>1, <1>2
<1>4. q = [p EXCEPT !.log = Append(p.log, entry), !.leo = p.leo + 1]
  BY <1>1 DEF Log!AppendRecord, LoggedPartition
<1>5. /\ q \in LoggedPartition /\ q.log = Append(p.log, entry) /\ q.leo = p.leo + 1
      /\ q.lastStableOffset = p.lastStableOffset
  <2> DEFINE log == Append(p.log, entry)
             leo == p.leo + 1
  <2>1. log \in Seq(Log!LogEntry) /\ leo \in Nat /\ q = [p EXCEPT !.log = log, !.leo = leo]
    BY <1>3, <1>4
  <2> HIDE DEF log, leo
  <2>2. /\ q \in LoggedPartition /\ q.log = log /\ q.leo = leo
        /\ q.lastStableOffset = p.lastStableOffset
    BY <1>1, <2>1 DEF LoggedPartition
  <2> QED
    BY <2>2 DEF log, leo
<1>6. Log!ToSet(Append(p.log, entry)) = Log!ToSet(p.log) \cup {entry}
  <2>1. Append(p.log, entry) \in Seq(Log!LogEntry)
    BY <1>3
  <2>2. /\ DOMAIN Append(p.log, entry) = DOMAIN p.log \cup {Len(p.log) + 1}
        /\ \A i \in DOMAIN p.log : Append(p.log, entry)[i] = p.log[i]
        /\ Append(p.log, entry)[Len(p.log) + 1] = entry
    BY <1>1, <1>2
  <2> QED
    BY <2>2 DEF Log!ToSet
<1> QED
  BY <1>2, <1>5, <1>6

\* The marks of a log that one entry was appended to.
LEMMA MarksAppended ==
  ASSUME NEW p, NEW q, NEW entry, Log!ToSet(q.log) = Log!ToSet(p.log) \cup {entry},
         NEW outcomes
  PROVE  Log!Marked(q, outcomes) =
           Log!Marked(p, outcomes) \cup (IF entry.control \in outcomes THEN {entry.txnId} ELSE {})
BY DEF Log!Marked

\* An append leaves a well-kept partition well kept, and what was decided below
\* the last stable offset stays as it was.
LEMMA AppendKeepsVerdicts ==
  ASSUME NEW p, WellKept(p), NEW r, Appendable(p, r), Null \notin Log!Outcomes
  PROVE  LET q == Log!AppendRecord(p, r) IN WellKept(q) /\ VerdictsKept(p, q)
<1> DEFINE q     == Log!AppendRecord(p, r)
           entry == [r EXCEPT !.offset = p.leo]
<1>1. r \in Log!LogEntry
  BY DEF Appendable
<1>2. /\ q \in LoggedPartition /\ q.log = Append(p.log, entry) /\ q.leo = p.leo + 1
      /\ q.lastStableOffset = p.lastStableOffset
      /\ Log!ToSet(q.log) = Log!ToSet(p.log) \cup {entry}
      /\ entry \in Log!LogEntry /\ entry.offset = p.leo
      /\ entry.control = r.control /\ entry.txnId = r.txnId /\ entry.key = r.key
  <2>1. entry = [r EXCEPT !.offset = p.leo] /\ q = Log!AppendRecord(p, r)
    OBVIOUS
  <2> HIDE DEF q, entry
  <2> QED
    BY <1>1, <2>1, LogAppended
<1>3. /\ p \in LoggedPartition /\ p.log \in Seq(Log!LogEntry)
      /\ p.leo \in Nat /\ p.lastStableOffset \in Nat
  BY LogFields DEF WellKept
<1>4. /\ Log!IsMarker(entry) => entry.key = Null
      /\ entry.control \in Log!Outcomes => /\ Log!PartitionHasOpenTxnRecord(p, entry.txnId)
  <2>1. CASE r.control = Null
    BY <1>2, <2>1 DEF Log!IsMarker
  <2>2. CASE r.control # Null
    <3>1. PICK at \in Nat, outcome \in Log!Outcomes :
            /\ r = Log!ControlRecord(r.txnId, outcome, at)
            /\ Log!PartitionHasOpenTxnRecord(p, r.txnId)
      BY <2>2 DEF Appendable
    <3>2. r.key = Null
      BY <3>1 DEF Log!ControlRecord
    <3> QED
      BY <1>2, <3>1, <3>2
  <2> QED
    BY <2>1, <2>2
<1> HIDE DEF q, entry
<1>5. \A outcomes : Log!Marked(q, outcomes) =
        Log!Marked(p, outcomes) \cup (IF entry.control \in outcomes THEN {entry.txnId} ELSE {})
  BY <1>2, MarksAppended
<1>6. \A offset \in Log!Unresolved(q) : offset \in Log!Unresolved(p) \/ offset = p.leo
  <2> TAKE offset \in Log!Unresolved(q)
  <2>1. PICK e \in Log!ToSet(q.log) :
          /\ ~Log!IsMarker(e) /\ e.txnId # Null /\ e.txnId \notin Log!Marked(q, Log!Outcomes)
          /\ e.offset = offset
    BY DEF Log!Unresolved
  <2>2. e.txnId \notin Log!Marked(p, Log!Outcomes)
    BY <1>5, <2>1
  <2> QED
    BY <1>2, <2>1, <2>2 DEF Log!Unresolved
<1>7. \A offset \in Log!Unresolved(q) : q.lastStableOffset <= offset
  BY <1>2, <1>6 DEF WellKept
<1>8. \A i, j \in DOMAIN q.log : i < j => q.log[i].offset < q.log[j].offset
  <2> SUFFICES ASSUME NEW i \in DOMAIN q.log, NEW j \in DOMAIN q.log, i < j
               PROVE  q.log[i].offset < q.log[j].offset
    OBVIOUS
  <2>1. i \in DOMAIN p.log /\ q.log[i] = p.log[i]
    BY <1>2, <1>3
  <2>2. (j \in DOMAIN p.log /\ q.log[j] = p.log[j]) \/ q.log[j] = entry
    BY <1>2, <1>3
  <2>3. p.log[i].offset < p.leo
    BY <2>1 DEF WellKept
  <2> QED
    BY <1>2, <2>1, <2>2, <2>3 DEF WellKept
<1>9. \A i \in DOMAIN q.log : /\ q.log[i].offset < q.leo
                              /\ Log!IsMarker(q.log[i]) => q.log[i].key = Null
  <2> TAKE i \in DOMAIN q.log
  <2>1. (i \in DOMAIN p.log /\ q.log[i] = p.log[i]) \/ q.log[i] = entry
    BY <1>2, <1>3
  <2>2. CASE q.log[i] = entry
    BY <1>2, <1>3, <1>4, <2>2
  <2>3. CASE i \in DOMAIN p.log /\ q.log[i] = p.log[i]
    <3>1. p.log[i].offset < p.leo /\ (Log!IsMarker(p.log[i]) => p.log[i].key = Null)
      BY <2>3 DEF WellKept
    <3>2. p.log[i].offset \in Nat
      BY <1>3, <2>3, LogFields DEF Log!ToSet
    <3> QED
      BY <1>2, <1>3, <2>3, <3>1, <3>2
  <2> QED
    BY <2>1, <2>2, <2>3
<1>10. WellKept(q)
  <2>1. q.lastStableOffset <= q.leo
    BY <1>2, <1>3 DEF WellKept
  <2> QED
    BY <1>2, <1>7, <1>8, <1>9, <2>1 DEF WellKept
<1>11. ASSUME NEW e \in Log!ToSet(p.log) \cap Log!ToSet(q.log), e.offset < p.lastStableOffset
       PROVE  Log!VisibleToCommitted(e, q) <=> Log!VisibleToCommitted(e, p)
  <2>1. CASE Log!IsMarker(e) \/ e.txnId = Null
    BY <1>2, <1>11, <2>1 DEF Log!VisibleToCommitted
  <2>2. CASE ~Log!IsMarker(e) /\ e.txnId # Null
    <3>1. e.txnId \in Log!Marked(p, Log!Outcomes)
      BY <1>11, <2>2, BelowIsDecided
    <3>2. entry.control \in Log!Outcomes => e.txnId # entry.txnId
      BY <1>4, <3>1 DEF Log!PartitionHasOpenTxnRecord
    <3>3. "abort" \in Log!Outcomes
      BY DEF Log!Outcomes
    <3>4. e.txnId \in Log!Marked(q, {"abort"}) <=> e.txnId \in Log!Marked(p, {"abort"})
      BY <1>5, <3>2, <3>3
    <3> QED
      BY <1>2, <1>11, <3>4 DEF Log!VisibleToCommitted
  <2> QED
    BY <2>1, <2>2
<1>12. VerdictsKept(p, q)
  BY <1>2, <1>3, <1>11 DEF VerdictsKept
<1> QED
  BY <1>10, <1>12 DEF q

\* A partition starts well kept; an append (of a record, or of the marker of an
\* open transaction) and recomputing the last stable offset keep it so,
\* never move that offset back, and leave every verdict below it as it was:
\* what a read_committed consumer was given is never withdrawn, and what it
\* was refused is never given behind its position.
THEOREM VerdictsAreFinal ==
  ASSUME Null \notin Log!Outcomes
  PROVE  /\ \A topic \in STRING, index \in Nat : WellKept(Log!CreatePartition(topic, index))
         /\ \A p, r : WellKept(p) /\ Appendable(p, r) =>
              LET q == Log!AppendRecord(p, r) IN WellKept(q) /\ VerdictsKept(p, q)
         /\ \A p : WellKept(p) =>
              LET q == Log!RecomputeLastStableOffset(p) IN WellKept(q) /\ VerdictsKept(p, q)
<1>1. ASSUME NEW p, WellKept(p)
      PROVE  VerdictsKept(p, Log!RecomputeLastStableOffset(p))
  <2> DEFINE q == Log!RecomputeLastStableOffset(p)
  <2>1. /\ q.log = p.log /\ p.lastStableOffset <= q.lastStableOffset
        /\ p.lastStableOffset \in Nat /\ q.lastStableOffset \in Nat
    BY <1>1, Recomputation, KeptEntries
  <2> HIDE DEF q
  <2>2. \A outcomes : Log!Marked(q, outcomes) = Log!Marked(p, outcomes)
    BY <2>1 DEF Log!Marked
  <2>3. ASSUME NEW e \in Log!ToSet(p.log) \cap Log!ToSet(q.log), e.offset < p.lastStableOffset
        PROVE  Log!VisibleToCommitted(e, q) <=> Log!VisibleToCommitted(e, p)
    <3>1. e.offset < q.lastStableOffset
      BY <1>1, <2>1, <2>3, KeptEntries
    <3> QED
      BY <2>2, <2>3, <3>1 DEF Log!VisibleToCommitted
  <2>4. VerdictsKept(p, q)
    BY <2>1, <2>3 DEF VerdictsKept
  <2> QED
    BY <2>4 DEF q
<1> QED
  BY <1>1, CreatedWellKept, AppendKeepsVerdicts, Recomputation

\* A read_committed consumer sees a transaction whole or not at all: a record
\* it is given belongs to a transaction that was committed and not aborted,
\* and with it every other record of that transaction below the last stable
\* offset is visible.
THEOREM TransactionsAreWhole ==
  ASSUME NEW p, WellKept(p), NEW e \in Log!ToSet(p.log), e.txnId # Null,
         Log!VisibleToCommitted(e, p)
  PROVE  /\ e.txnId \in Log!Marked(p, {"commit"}) \ Log!Marked(p, {"abort"})
         /\ \A f \in Log!ToSet(p.log) :
              f.txnId = e.txnId /\ ~Log!IsMarker(f) /\ f.offset < p.lastStableOffset =>
                Log!VisibleToCommitted(f, p)
<1>1. ~Log!IsMarker(e) /\ e.offset < p.lastStableOffset /\ e.txnId \notin Log!Marked(p, {"abort"})
  BY DEF Log!VisibleToCommitted
<1>2. e.txnId \in Log!Marked(p, Log!Outcomes)
  BY <1>1, BelowIsDecided
<1>3. e.txnId \in Log!Marked(p, {"commit"})
  BY <1>1, <1>2 DEF Log!Marked, Log!Outcomes
<1>4. \A f \in Log!ToSet(p.log) :
        f.txnId = e.txnId /\ ~Log!IsMarker(f) /\ f.offset < p.lastStableOffset =>
          Log!VisibleToCommitted(f, p)
  BY <1>1 DEF Log!VisibleToCommitted
<1> QED
  BY <1>1, <1>3, <1>4

\* The records of the sealed part that compact keeps.
Stays(eligible, i) ==
  eligible[i].key = Null \/ (~Log!Superseded(eligible, i) /\ eligible[i].value # Null)

\* One turn of compact's loop, and what it has kept by then of an eligible
\* part whose offsets rise.
CompactStep(eligible, aux, done, i) ==
  IF Stays(eligible, i) THEN Append(done, eligible[i]) ELSE done

CompactedSoFar(eligible, turn, done) ==
  /\ done \in Seq(Log!LogEntry)
  /\ Log!ToSet(done) = {eligible[i] : i \in {j \in 1 .. turn : Stays(eligible, j)}}
  /\ \A i, j \in DOMAIN done : i < j => done[i].offset < done[j].offset

CompactFold == INSTANCE LeftFold WITH Op <- CompactStep, Inv <- CompactedSoFar

Rising(log) ==
  /\ log \in Seq(Log!LogEntry)
  /\ \A i, j \in DOMAIN log : i < j => log[i].offset < log[j].offset

\* A sequence that one entry was appended to, as a set.
LEMMA OneMore ==
  ASSUME NEW log \in Seq(Log!LogEntry), NEW entry \in Log!LogEntry
  PROVE  Log!ToSet(Append(log, entry)) = Log!ToSet(log) \cup {entry}
<1>1. /\ DOMAIN Append(log, entry) = DOMAIN log \cup {Len(log) + 1}
      /\ \A i \in DOMAIN log : Append(log, entry)[i] = log[i]
      /\ Append(log, entry)[Len(log) + 1] = entry
  OBVIOUS
<1> QED
  BY <1>1 DEF Log!ToSet

\* A turn of the loop.
LEMMA CompactTurn ==
  ASSUME NEW eligible, Rising(eligible), NEW turn \in 1 .. Len(eligible),
         NEW done, CompactedSoFar(eligible, turn - 1, done), NEW aux
  PROVE  CompactedSoFar(eligible, turn, CompactStep(eligible, aux, done, turn))
<1> DEFINE here == {j \in 1 .. turn : Stays(eligible, j)}
           before == {j \in 1 .. turn - 1 : Stays(eligible, j)}
           entry == eligible[turn]
<1>1. here = before \cup (IF Stays(eligible, turn) THEN {turn} ELSE {})
  OBVIOUS
<1>2. eligible \in Seq(Log!LogEntry) /\ turn \in DOMAIN eligible /\ entry \in Log!LogEntry
  BY DEF Rising
<1>3. done \in Seq(Log!LogEntry) /\ Log!ToSet(done) = {eligible[i] : i \in before}
  BY DEF CompactedSoFar
<1>4. CASE ~Stays(eligible, turn)
  <2>1. here = before
    BY <1>1, <1>4
  <2>2. Log!ToSet(done) = {eligible[i] : i \in here}
    BY <1>3, <2>1
  <2> QED
    BY <1>4, <2>2 DEF CompactStep, CompactedSoFar
<1>5. CASE Stays(eligible, turn)
  <2> DEFINE next == Append(done, entry)
  <2>1. CompactStep(eligible, aux, done, turn) = next
    BY <1>5 DEF CompactStep
  <2>2. next \in Seq(Log!LogEntry)
    BY <1>2, <1>3
  <2>3. Log!ToSet(next) = {eligible[i] : i \in here}
    <3>1. Log!ToSet(next) = Log!ToSet(done) \cup {entry}
      BY <1>2, <1>3, OneMore
    <3>2. here = before \cup {turn}
      BY <1>1, <1>5
    <3> HIDE DEF here, before, next
    <3> QED
      BY <1>3, <3>1, <3>2
  <2>4. \A i \in DOMAIN done : done[i].offset < entry.offset
    <3> TAKE i \in DOMAIN done
    <3>1. done[i] \in Log!ToSet(done)
      BY DEF Log!ToSet
    <3>2. PICK k \in before : done[i] = eligible[k]
      BY <1>3, <3>1
    <3>3. k \in DOMAIN eligible /\ k < turn
      BY <1>2, <3>2
    <3> QED
      BY <1>2, <3>2, <3>3 DEF Rising
  <2>5. \A i, j \in DOMAIN next : i < j => next[i].offset < next[j].offset
    <3> SUFFICES ASSUME NEW i \in DOMAIN next, NEW j \in DOMAIN next, i < j
                 PROVE  next[i].offset < next[j].offset
      OBVIOUS
    <3>1. i \in DOMAIN done /\ next[i] = done[i]
      BY <1>2, <1>3
    <3>2. (j \in DOMAIN done /\ next[j] = done[j]) \/ next[j] = entry
      BY <1>2, <1>3
    <3> QED
      BY <2>4, <3>1, <3>2 DEF CompactedSoFar
  <2> HIDE DEF next
  <2> QED
    BY <2>1, <2>2, <2>3, <2>5 DEF CompactedSoFar
<1> QED
  BY <1>4, <1>5

\* The boundary is a place in the log, what is before it is older than the
\* open segment, and what is behind it is not.
LEMMA Boundary ==
  ASSUME NEW p, WellKept(p), p.segments # << >>
  PROVE  LET b    == Log!CompactionBoundary(p)
             base == Log!Last(p.segments).baseOffset
         IN  /\ b \in 0 .. Len(p.log)
             /\ \A i \in 1 .. b : p.log[i].offset < base
             /\ \A i \in b + 1 .. Len(p.log) : base <= p.log[i].offset
<1> DEFINE base == Log!Last(p.segments).baseOffset
           late == {j \in DOMAIN p.log : p.log[j].offset >= base}
           S == {Len(p.log)} \cup {i - 1 : i \in late}
           b == Log!CompactionBoundary(p)
<1>1. p.log \in Seq(Log!LogEntry) /\ \A i \in DOMAIN p.log : p.log[i].offset \in Nat
  BY LogFields DEF WellKept, Log!ToSet
<1>2. base \in Nat
  <2> DEFINE Segment == [baseOffset : Nat, bytes : Nat, createdAt : Nat, sealed : BOOLEAN]
  <2>1. p.segments \in Seq(Segment)
    BY DEF WellKept, LoggedPartition
  <2>2. \A segment \in Segment : segment.baseOffset \in Nat
    OBVIOUS
  <2> HIDE DEF Segment
  <2>3. p.segments[Len(p.segments)] \in Segment
    BY <2>1
  <2> QED
    BY <2>2, <2>3 DEF Log!Last
<1>3. b = Log!Min(S)
  BY DEF Log!CompactionBoundary
<1>4. S \in SUBSET Nat /\ S # {} /\ \A n \in S : n <= Len(p.log)
  BY <1>1
<1> HIDE DEF b, S
<1>5. b \in S /\ \A n \in S : b <= n
  BY <1>3, <1>4, MinIsLeast
<1>6. b \in 0 .. Len(p.log)
  BY <1>4, <1>5
<1> HIDE DEF base
<1>7. \A i \in 1 .. b : p.log[i].offset < base
  <2> SUFFICES ASSUME NEW i \in 1 .. b, base <= p.log[i].offset PROVE FALSE
    BY <1>1, <1>2, <1>6
  <2>1. i - 1 \in S
    BY <1>1, <1>6 DEF S
  <2> QED
    BY <1>5, <1>6, <2>1
<1>8. \A i \in b + 1 .. Len(p.log) : base <= p.log[i].offset
  <2> SUFFICES ASSUME NEW i \in b + 1 .. Len(p.log) PROVE base <= p.log[i].offset
    OBVIOUS
  <2>1. b # Len(p.log)
    BY <1>6
  <2>2. PICK j \in late : b = j - 1
    BY <1>5, <2>1 DEF S
  <2>3. j \in DOMAIN p.log /\ base <= p.log[j].offset /\ j = b + 1
    BY <1>1, <1>2, <1>6, <2>2
  <2>4. i = j \/ p.log[j].offset < p.log[i].offset
    BY <1>1, <1>6, <2>3 DEF WellKept
  <2> QED
    BY <1>1, <1>2, <1>6, <2>3, <2>4
<1> QED
  BY <1>6, <1>7, <1>8 DEF b, base

\* The log compact leaves: what it kept of the sealed part, then the rest.
LEMMA CompactedLog ==
  ASSUME NEW p, WellKept(p), p.segments # << >>
  PROVE  LET b        == Log!CompactionBoundary(p)
             eligible == SubSeq(p.log, 1, b)
         IN  \E kept : /\ CompactedSoFar(eligible, b, kept)
                       /\ Rising(eligible) /\ Len(eligible) = b
                       /\ \A i \in 1 .. b : eligible[i] = p.log[i]
                       /\ Log!Compact(p) =
                            [p EXCEPT !.log = kept \o SubSeq(p.log, b + 1, Len(p.log))]
<1> DEFINE b        == Log!CompactionBoundary(p)
           eligible == SubSeq(p.log, 1, b)
           turns    == [i \in 1 .. b |-> i]
           kept     == CompactFold!Folded(eligible, 0, << >>, turns)
<1>1. p.log \in Seq(Log!LogEntry) /\ b \in 0 .. Len(p.log)
  BY Boundary, LogFields DEF WellKept
<1>2. /\ eligible \in Seq(Log!LogEntry) /\ Len(eligible) = b
      /\ \A i \in 1 .. b : eligible[i] = p.log[i]
  <2> HIDE DEF b
  <2> QED
    BY <1>1
<1>3. Rising(eligible)
  <2>1. \A i, j \in DOMAIN eligible : i < j => eligible[i].offset < eligible[j].offset
    <3>1. DOMAIN eligible = 1 .. b /\ \A i \in DOMAIN eligible : i \in DOMAIN p.log
      BY <1>1, <1>2
    <3> HIDE DEF eligible, b
    <3> QED
      BY <1>2, <3>1 DEF WellKept
  <2> QED
    BY <1>2, <2>1 DEF Rising
<1> HIDE DEF b, eligible
<1>4. CompactedSoFar(eligible, 0, << >>)
  <2>1. << >> \in Seq(Log!LogEntry) /\ DOMAIN << >> = {}
    OBVIOUS
  <2>2. Log!ToSet(<< >>) = {} /\ 1 .. 0 = {}
    BY <2>1 DEF Log!ToSet
  <2> QED
    BY <2>1, <2>2 DEF CompactedSoFar
<1>5. \A i \in 1 .. b : \A done :
        CompactedSoFar(eligible, i - 1, done) =>
          CompactedSoFar(eligible, i, CompactStep(eligible, 0, done, turns[i]))
  <2> SUFFICES ASSUME NEW i \in 1 .. b, NEW done, CompactedSoFar(eligible, i - 1, done)
               PROVE  CompactedSoFar(eligible, i, CompactStep(eligible, 0, done, turns[i]))
    OBVIOUS
  <2>1. turns[i] = i /\ i \in 1 .. Len(eligible)
    BY <1>2
  <2> HIDE DEF turns
  <2> QED
    BY <1>3, <2>1, CompactTurn
<1>6. CompactedSoFar(eligible, b, kept)
  <2>1. b \in Nat /\ DOMAIN turns = 1 .. b
    BY <1>1
  <2> HIDE DEF turns
  <2> QED
    BY <1>4, <1>5, <2>1, CompactFold!FoldKeeps
<1>7. Log!Compact(p) = [p EXCEPT !.log = kept \o SubSeq(p.log, b + 1, Len(p.log))]
  <2>1. kept = Log!FoldLeft(LAMBDA done, i : IF eligible[i].key = Null
                                                \/ (~Log!Superseded(eligible, i) /\ eligible[i].value # Null)
                                             THEN Append(done, eligible[i]) ELSE done,
                            << >>, turns)
    BY DEF CompactFold!Folded, CompactStep, Stays, Log!FoldLeft, CompactFold!FoldLeft,
           Log!MapThenFoldSet, CompactFold!MapThenFoldSet, Log!Max, CompactFold!Max
  <2>2. Log!Compact(p) = [p EXCEPT !.log =
          Log!FoldLeft(LAMBDA done, i : IF eligible[i].key = Null
                                           \/ (~Log!Superseded(eligible, i) /\ eligible[i].value # Null)
                                        THEN Append(done, eligible[i]) ELSE done,
                       << >>, turns) \o SubSeq(p.log, b + 1, Len(p.log))]
    <3>1. p = [p EXCEPT !.log = p.log]
      BY DEF WellKept, LoggedPartition
    <3> QED
      BY DEF Log!Compact, b, eligible, WellKept, LoggedPartition
  <2> HIDE DEF kept
  <2> QED
    BY <2>1, <2>2
<1> HIDE DEF kept
<1> QED
  BY <1>2, <1>3, <1>6, <1>7 DEF b, eligible

\* The indices of the entries compact leaves in the log.
Staying(p) ==
  LET b == Log!CompactionBoundary(p)
  IN {i \in 1 .. b : Stays(SubSeq(p.log, 1, b), i)} \cup (b + 1 .. Len(p.log))

\* Compact leaves those entries, in their order, and touches nothing else.
LEMMA CompactLeaves ==
  ASSUME NEW p, WellKept(p), p.segments # << >>, NEW q, q = Log!Compact(p)
  PROVE  /\ q \in LoggedPartition /\ q.leo = p.leo /\ q.lastStableOffset = p.lastStableOffset
         /\ Rising(q.log)
         /\ Log!ToSet(q.log) = {p.log[i] : i \in Staying(p)}
<1> DEFINE b        == Log!CompactionBoundary(p)
           eligible == SubSeq(p.log, 1, b)
           rest     == SubSeq(p.log, b + 1, Len(p.log))
<1>1. /\ p \in LoggedPartition /\ p.log \in Seq(Log!LogEntry) /\ b \in 0 .. Len(p.log)
      /\ \A i \in DOMAIN p.log : p.log[i].offset \in Nat
  BY Boundary, LogFields DEF WellKept, Log!ToSet
<1>2. PICK kept : /\ CompactedSoFar(eligible, b, kept)
                  /\ Len(eligible) = b
                  /\ \A i \in 1 .. b : eligible[i] = p.log[i]
                  /\ q = [p EXCEPT !.log = kept \o rest]
  BY CompactedLog
<1>3. /\ rest \in Seq(Log!LogEntry) /\ Len(rest) = Len(p.log) - b
      /\ \A i \in 1 .. Len(p.log) - b : rest[i] = p.log[b + i]
  <2> HIDE DEF b
  <2> QED
    BY <1>1
<1> HIDE DEF b, eligible, rest
<1>4. /\ kept \in Seq(Log!LogEntry)
      /\ Log!ToSet(kept) = {eligible[i] : i \in {j \in 1 .. b : Stays(eligible, j)}}
      /\ \A i, j \in DOMAIN kept : i < j => kept[i].offset < kept[j].offset
  BY <1>2 DEF CompactedSoFar
<1>5. /\ kept \o rest \in Seq(Log!LogEntry) /\ Len(kept \o rest) = Len(kept) + Len(rest)
      /\ \A i \in DOMAIN (kept \o rest) :
           (kept \o rest)[i] = IF i <= Len(kept) THEN kept[i] ELSE rest[i - Len(kept)]
  BY <1>3, <1>4
<1>6. /\ q \in LoggedPartition /\ q.log = kept \o rest /\ q.leo = p.leo
      /\ q.lastStableOffset = p.lastStableOffset
  <2> DEFINE log == kept \o rest
  <2>1. log \in Seq(Log!LogEntry) /\ q = [p EXCEPT !.log = log]
    BY <1>2, <1>5
  <2> HIDE DEF log
  <2>2. /\ q \in LoggedPartition /\ q.log = log /\ q.leo = p.leo
        /\ q.lastStableOffset = p.lastStableOffset
    BY <1>1, <2>1 DEF LoggedPartition
  <2> QED
    BY <2>2 DEF log
<1>7. Log!ToSet(rest) = {p.log[i] : i \in b + 1 .. Len(p.log)}
  <2>1. \A i \in DOMAIN rest : b + i \in b + 1 .. Len(p.log) /\ rest[i] = p.log[b + i]
    BY <1>1, <1>3
  <2>2. \A i \in b + 1 .. Len(p.log) : i - b \in DOMAIN rest /\ rest[i - b] = p.log[i]
    BY <1>1, <1>3
  <2> QED
    BY <2>1, <2>2 DEF Log!ToSet
<1>8. Log!ToSet(q.log) = Log!ToSet(kept) \cup Log!ToSet(rest)
  <2>1. \A i \in DOMAIN q.log : \/ i \in DOMAIN kept /\ q.log[i] = kept[i]
                                \/ i - Len(kept) \in DOMAIN rest /\ q.log[i] = rest[i - Len(kept)]
    BY <1>3, <1>4, <1>5, <1>6
  <2>2. \A i \in DOMAIN kept : i \in DOMAIN q.log /\ q.log[i] = kept[i]
    BY <1>3, <1>4, <1>5, <1>6
  <2>3. \A i \in DOMAIN rest : Len(kept) + i \in DOMAIN q.log /\ q.log[Len(kept) + i] = rest[i]
    BY <1>3, <1>4, <1>5, <1>6
  <2> QED
    BY <2>1, <2>2, <2>3 DEF Log!ToSet
<1>9. Log!ToSet(q.log) = {p.log[i] : i \in Staying(p)}
  <2>1. Staying(p) = {j \in 1 .. b : Stays(eligible, j)} \cup (b + 1 .. Len(p.log))
    BY DEF Staying, b, eligible
  <2>2. Log!ToSet(kept) = {p.log[i] : i \in {j \in 1 .. b : Stays(eligible, j)}}
    BY <1>2, <1>4
  <2> QED
    BY <1>7, <1>8, <2>1, <2>2
<1>10. ASSUME NEW i \in DOMAIN q.log, Len(kept) < i
       PROVE  /\ b + (i - Len(kept)) \in DOMAIN p.log /\ b < b + (i - Len(kept))
              /\ q.log[i] = p.log[b + (i - Len(kept))]
  <2> DEFINE n == Len(kept)
             k == i - n
  <2>1. n \in Nat /\ i \in 1 .. n + Len(rest)
    BY <1>3, <1>4, <1>5, <1>6
  <2>2. ~(i <= n)
    BY <1>10, <2>1
  <2>3. q.log[i] = rest[k]
    BY <1>5, <1>6, <2>2
  <2>4. k \in 1 .. Len(p.log) - b
    BY <1>1, <1>3, <1>10, <2>1
  <2>5. rest[k] = p.log[b + k]
    BY <1>3, <2>4
  <2>6. b + k \in DOMAIN p.log /\ b < b + k
    BY <1>1, <2>4
  <2> QED
    BY <2>3, <2>5, <2>6
<1>11. \A i \in DOMAIN q.log : i <= Len(kept) => i \in DOMAIN kept /\ q.log[i] = kept[i]
  BY <1>3, <1>4, <1>5, <1>6
<1>12. \A e \in Log!ToSet(kept) : \E k \in 1 .. b : e = p.log[k]
  <2> SUFFICES ASSUME NEW e \in Log!ToSet(kept)
               PROVE  \E k \in 1 .. b : e = p.log[k]
    OBVIOUS
  <2>1. PICK k \in {j \in 1 .. b : Stays(eligible, j)} : e = eligible[k]
    BY <1>4
  <2>2. k \in 1 .. b /\ eligible[k] = p.log[k]
    BY <1>2, <2>1
  <2> QED
    BY <2>1, <2>2
<1>13. Rising(q.log)
  <2>1. ASSUME NEW i \in DOMAIN q.log, NEW j \in DOMAIN q.log, i < j
        PROVE  q.log[i].offset < q.log[j].offset
    <3>1. CASE j <= Len(kept)
      <4>1. i \in DOMAIN kept /\ j \in DOMAIN kept /\ q.log[i] = kept[i] /\ q.log[j] = kept[j]
        BY <1>4, <1>5, <1>6, <1>11, <2>1, <3>1
      <4> QED
        BY <1>4, <2>1, <4>1
    <3>2. CASE i <= Len(kept) /\ Len(kept) < j
      <4>1. i \in DOMAIN kept /\ q.log[i] = kept[i]
        BY <1>11, <3>2
      <4>2. q.log[i] \in Log!ToSet(kept)
        BY <4>1 DEF Log!ToSet
      <4>3. PICK k \in 1 .. b : q.log[i] = p.log[k]
        BY <1>12, <4>2
      <4>4. /\ b + (j - Len(kept)) \in DOMAIN p.log /\ b < b + (j - Len(kept))
            /\ q.log[j] = p.log[b + (j - Len(kept))]
        BY <1>10, <3>2
      <4>5. k \in DOMAIN p.log /\ k < b + (j - Len(kept))
        BY <1>1, <4>3, <4>4
      <4> QED
        BY <4>3, <4>4, <4>5 DEF WellKept
    <3>3. CASE Len(kept) < i
      <4>1. Len(kept) < j
        BY <1>4, <1>5, <1>6, <2>1, <3>3
      <4>2. /\ b + (i - Len(kept)) \in DOMAIN p.log
            /\ q.log[i] = p.log[b + (i - Len(kept))]
        BY <1>10, <3>3
      <4>3. /\ b + (j - Len(kept)) \in DOMAIN p.log
            /\ q.log[j] = p.log[b + (j - Len(kept))]
        BY <1>10, <4>1
      <4>4. Len(kept) \in Nat /\ i \in Nat /\ j \in Nat /\ b \in Nat
        BY <1>1, <1>4, <1>5, <1>6
      <4>5. b + (i - Len(kept)) < b + (j - Len(kept))
        BY <2>1, <4>4
      <4> QED
        BY <4>2, <4>3, <4>5 DEF WellKept
    <3> QED
      BY <1>4, <1>5, <1>6, <2>1, <3>1, <3>2, <3>3
  <2> QED
    BY <1>5, <1>6, <2>1 DEF Rising
<1> QED
  BY <1>6, <1>9, <1>13

\* Every marker outlives compact.
LEMMA MarkersStay ==
  ASSUME NEW p, WellKept(p), p.segments # << >>, NEW q, q = Log!Compact(p), NEW outcomes,
         Null \notin outcomes
  PROVE  Log!Marked(q, outcomes) = Log!Marked(p, outcomes)
<1> DEFINE b == Log!CompactionBoundary(p)
<1>1. Log!ToSet(q.log) = {p.log[i] : i \in Staying(p)}
  BY CompactLeaves
<1>2. p.log \in Seq(Log!LogEntry) /\ b \in 0 .. Len(p.log)
  BY Boundary, LogFields DEF WellKept
<1>3. \A i \in Staying(p) : i \in DOMAIN p.log
  BY <1>2 DEF Staying
<1>4. ASSUME NEW i \in DOMAIN p.log, p.log[i].control \in outcomes
      PROVE  i \in Staying(p)
  <2>1. p.log[i].key = Null
    BY <1>4 DEF WellKept, Log!IsMarker
  <2>2. CASE i \in 1 .. b
    <3>1. SubSeq(p.log, 1, b)[i] = p.log[i]
      <4> HIDE DEF b
      <4> QED
        BY <1>2, <2>2
    <3>2. Stays(SubSeq(p.log, 1, b), i)
      BY <2>1, <3>1 DEF Stays
    <3> QED
      BY <2>2, <3>2 DEF Staying
  <2>3. CASE i \in b + 1 .. Len(p.log)
    BY <2>3 DEF Staying
  <2> HIDE DEF b
  <2> QED
    BY <1>2, <2>2, <2>3
<1>5. \A e : e.control \in outcomes => (e \in Log!ToSet(q.log) <=> e \in Log!ToSet(p.log))
  BY <1>1, <1>3, <1>4 DEF Log!ToSet
<1> QED
  BY <1>5 DEF Log!Marked

\* Compact loses nothing that counts: what is gone had a key, and was a
\* tombstone or had a newer record of its key behind it.  Of the sealed part it
\* leaves one record of a key at most, with a value.  And what a read_committed
\* consumer may see does not change: the markers stay, so the partition stays
\* well kept, with every verdict on what is left.
THEOREM CompactionIsSafe ==
  ASSUME NEW p, WellKept(p), p.segments # << >>, Null \notin Log!Outcomes
  PROVE  LET q    == Log!Compact(p)
             base == Log!Last(p.segments).baseOffset
         IN  /\ WellKept(q) /\ VerdictsKept(p, q)
             /\ Log!ToSet(q.log) \subseteq Log!ToSet(p.log)
             /\ \A e \in Log!ToSet(p.log) \ Log!ToSet(q.log) :
                  /\ e.key # Null
                  /\ \/ e.value = Null
                     \/ \E f \in Log!ToSet(p.log) : f.key = e.key /\ e.offset < f.offset
             /\ \A e, f \in Log!ToSet(q.log) :
                  e.key # Null /\ f.key = e.key /\ e.offset < base /\ f.offset < base =>
                    e = f /\ e.value # Null
<1> DEFINE q        == Log!Compact(p)
           base     == Log!Last(p.segments).baseOffset
           b        == Log!CompactionBoundary(p)
           eligible == SubSeq(p.log, 1, b)
<1>1. /\ q \in LoggedPartition /\ q.leo = p.leo /\ q.lastStableOffset = p.lastStableOffset
      /\ Rising(q.log)
      /\ Log!ToSet(q.log) = {p.log[i] : i \in Staying(p)}
  BY CompactLeaves
<1>2. /\ b \in 0 .. Len(p.log)
      /\ \A i \in 1 .. b : p.log[i].offset < base
      /\ \A i \in b + 1 .. Len(p.log) : base <= p.log[i].offset
  BY Boundary
<1>3. p.log \in Seq(Log!LogEntry) /\ p.leo \in Nat /\ p.lastStableOffset \in Nat
  BY LogFields DEF WellKept
<1>4. /\ Len(eligible) = b
      /\ \A i \in 1 .. b : eligible[i] = p.log[i]
  <2> HIDE DEF b
  <2> QED
    BY <1>2, <1>3
<1>5. \A outcomes : Null \notin outcomes => Log!Marked(q, outcomes) = Log!Marked(p, outcomes)
  BY MarkersStay
<1>6. Staying(p) = {i \in 1 .. b : Stays(eligible, i)} \cup (b + 1 .. Len(p.log))
  BY DEF Staying
<1> HIDE DEF q, base, b, eligible
<1>7. \A i \in Staying(p) : i \in DOMAIN p.log
  BY <1>2, <1>3, <1>6
<1>8. Log!ToSet(q.log) \subseteq Log!ToSet(p.log)
  BY <1>1, <1>7 DEF Log!ToSet
<1>9. WellKept(q)
  <2>1. Log!Unresolved(q) \subseteq Log!Unresolved(p)
    BY <1>5, <1>8 DEF Log!Unresolved
  <2>2. \A e \in Log!ToSet(p.log) : e.offset < p.leo /\ (Log!IsMarker(e) => e.key = Null)
    BY KeptEntries
  <2>3. \A i \in DOMAIN q.log : q.log[i] \in Log!ToSet(p.log)
    BY <1>8 DEF Log!ToSet
  <2>4. \A i \in DOMAIN q.log : /\ q.log[i].offset < q.leo
                                /\ Log!IsMarker(q.log[i]) => q.log[i].key = Null
    BY <1>1, <2>2, <2>3
  <2>5. /\ q.lastStableOffset <= q.leo
        /\ \A offset \in Log!Unresolved(q) : q.lastStableOffset <= offset
    BY <1>1, <2>1 DEF WellKept
  <2> QED
    BY <1>1, <2>4, <2>5 DEF WellKept, Rising
<1>10. VerdictsKept(p, q)
  <2>1. Log!Marked(q, {"abort"}) = Log!Marked(p, {"abort"})
    BY <1>5 DEF Log!Outcomes
  <2> QED
    BY <1>1, <1>3, <2>1 DEF VerdictsKept, Log!VisibleToCommitted
<1>11. ASSUME NEW e \in Log!ToSet(p.log) \ Log!ToSet(q.log)
       PROVE  /\ e.key # Null
              /\ \/ e.value = Null
                 \/ \E f \in Log!ToSet(p.log) : f.key = e.key /\ e.offset < f.offset
  <2>1. PICK i \in DOMAIN p.log : e = p.log[i]
    BY <1>11 DEF Log!ToSet
  <2>2. i \notin Staying(p)
    BY <1>1, <1>11, <2>1
  <2>3. i \in 1 .. b /\ ~Stays(eligible, i)
    BY <1>2, <1>3, <1>6, <2>2
  <2>4. e.key # Null /\ (Log!Superseded(eligible, i) \/ e.value = Null)
    BY <1>4, <2>1, <2>3 DEF Stays
  <2>5. CASE Log!Superseded(eligible, i)
    <3>1. PICK j \in i + 1 .. Len(eligible) : eligible[j].key = eligible[i].key
      BY <2>5 DEF Log!Superseded
    <3>2. j \in 1 .. b /\ j \in DOMAIN p.log /\ i < j
      BY <1>2, <1>3, <1>4, <2>3, <3>1
    <3>3. p.log[j].key = e.key
      BY <1>4, <2>1, <2>3, <3>1, <3>2
    <3>4. p.log[j] \in Log!ToSet(p.log) /\ e.offset < p.log[j].offset
      BY <2>1, <3>2 DEF Log!ToSet, WellKept
    <3> QED
      BY <2>4, <3>3, <3>4
  <2> QED
    BY <2>4, <2>5
<1>12. ASSUME NEW e \in Log!ToSet(q.log), NEW f \in Log!ToSet(q.log),
              e.key # Null, f.key = e.key, e.offset < base, f.offset < base
       PROVE  e = f /\ e.value # Null
  <2>1. PICK i \in Staying(p), j \in Staying(p) : e = p.log[i] /\ f = p.log[j]
    BY <1>1
  <2>2. \A n \in Staying(p) : p.log[n].offset < base => n \in 1 .. b /\ Stays(eligible, n)
    <3> SUFFICES ASSUME NEW n \in b + 1 .. Len(p.log), p.log[n].offset < base PROVE FALSE
      BY <1>6
    <3>1. base <= p.log[n].offset
      BY <1>2
    <3>2. p.log[n].offset \in Nat
      <4>1. n \in DOMAIN p.log
        BY <1>2, <1>3
      <4> QED
        BY <4>1, KeptEntries DEF Log!ToSet
    <3>3. base \in Nat
      <4> DEFINE Segment == [baseOffset : Nat, bytes : Nat, createdAt : Nat, sealed : BOOLEAN]
      <4>1. p.segments \in Seq(Segment)
        BY DEF WellKept, LoggedPartition
      <4>2. \A segment \in Segment : segment.baseOffset \in Nat
        OBVIOUS
      <4> HIDE DEF Segment
      <4>3. p.segments[Len(p.segments)] \in Segment
        BY <4>1
      <4> QED
        BY <4>2, <4>3 DEF Log!Last, base
    <3> QED
      BY <3>1, <3>2, <3>3
  <2>3. i \in 1 .. b /\ j \in 1 .. b /\ Stays(eligible, i) /\ Stays(eligible, j)
    BY <1>12, <2>1, <2>2
  <2>4. /\ eligible[i].key = e.key /\ eligible[j].key = e.key
        /\ ~Log!Superseded(eligible, i) /\ ~Log!Superseded(eligible, j) /\ e.value # Null
    BY <1>4, <1>12, <2>1, <2>3 DEF Stays
  <2>5. ~(i < j) /\ ~(j < i)
    BY <1>2, <1>4, <1>12, <2>3, <2>4 DEF Log!Superseded
  <2>6. i = j
    BY <1>2, <2>3, <2>5
  <2> QED
    BY <2>1, <2>4, <2>6
<1> QED
  BY <1>8, <1>9, <1>10, <1>11, <1>12 DEF q, base
=============================================================================
