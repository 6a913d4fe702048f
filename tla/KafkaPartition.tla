----------------------------- MODULE KafkaPartition -----------------------------
(***************************************************************************)
(* The pure functions that the Kafka engine applies to one PartitionState: *)
(* src/src/brokers/kafka/engine/log.ts, replication.ts and the part of     *)
(* produce.ts that settles parked acks=all requests.                       *)
(*                                                                         *)
(* The engine keeps ONE log per partition, the leader's; a follower is     *)
(* only its log end offset (replicaState[id].leo) and the time of its last *)
(* fetch.  Time is kept as an age: idle[r] counts the clock ticks since    *)
(* replicaState[r].lastFetchAt, saturating at LagMax + 1.                  *)
(***************************************************************************)
EXTENDS Integers, FiniteSets

CONSTANTS
  Replicas,    \* PartitionState.replicas, as a set
  Rank,        \* position of each replica in that array: the tie-breaker
  LagMax       \* replicaLagTimeMaxMs, in clock ticks

ASSUME ReplicasAssumption == Replicas # {} /\ Rank \in [Replicas -> Nat]
ASSUME LagMaxAssumption == LagMax \in Nat

Entry   == [offset : Nat, record : Nat]    \* a LogEntry
Pending == [offset : Nat, record : Nat]    \* a PendingAck and the record it is for

\* The fields of TopicConfig that the partition's reducers read.
TopicConfig == [minInsyncReplicas : Nat, uncleanLeaderElection : BOOLEAN]

\* A PartitionState, with the configuration of its topic.
Partition ==
  [ config        : TopicConfig,
    leader        : Replicas,
    leaderEpoch   : Nat,
    isr           : SUBSET Replicas,
    log           : SUBSET Entry,
    leo           : Nat,
    highWatermark : Nat,
    replicaLeo    : [Replicas -> Nat],
    idle          : [Replicas -> 0 .. LagMax + 1],
    pendingAcks   : SUBSET Pending ]

\* The least element of a set of naturals.
Least(S) == CHOOSE n \in S : \A m \in S : n <= m

\* The first of a set of replicas in the order of the replicas array.
IsFirst(r, S) == r \in S /\ \A s \in S : Rank[r] <= Rank[s]

CreatePartition(first, config) ==
  [ config        |-> config,
    leader        |-> first,
    leaderEpoch   |-> 0,
    isr           |-> Replicas,
    log           |-> {},
    leo           |-> 0,
    highWatermark |-> 0,
    replicaLeo    |-> [r \in Replicas |-> 0],
    idle          |-> [r \in Replicas |-> 0],
    pendingAcks   |-> {} ]

-----------------------------------------------------------------------------
(* log.ts *)

\* Mutant: the highest log end of the ISR instead of the lowest.
RecomputeFromHighest(p) ==
  [p EXCEPT !.highWatermark =
     CHOOSE n \in {p.replicaLeo[r] : r \in p.isr} :
       \A r \in p.isr : p.replicaLeo[r] <= n]

RecomputeHighWatermark(p) ==
  IF p.isr = {} THEN p
  ELSE [p EXCEPT !.highWatermark = Least({p.replicaLeo[r] : r \in p.isr})]

AppendRecord(p, record) ==
  RecomputeHighWatermark(
    [p EXCEPT !.log = @ \cup {[offset |-> p.leo, record |-> record]},
              !.leo = @ + 1,
              !.replicaLeo[p.leader] = p.leo + 1,
              !.idle[p.leader] = 0])

-----------------------------------------------------------------------------
(* replication.ts *)

\* replicaFetch for one partition the broker follows.
Fetched(p, b) ==
  RecomputeHighWatermark([p EXCEPT !.replicaLeo[b] = p.leo, !.idle[b] = 0])

\* Mutant: the leader is judged by its own lastFetchAt as well.
KeptWithLeaderJudged(p) == {r \in p.isr : p.idle[r] <= LagMax}

Kept(p) == {r \in p.isr : r = p.leader \/ p.idle[r] <= LagMax}

ShrinkIsr(p) ==
  IF Kept(p) = p.isr THEN p
  ELSE RecomputeHighWatermark([p EXCEPT !.isr = Kept(p)])

\* Mutant: being online is enough to rejoin.
RejoiningOnline(p, online) == (Replicas \ p.isr) \cap online

\* Mutant: nobody is ever let back in.
RejoiningNobody(p, online) == {}

Rejoining(p, online) ==
  {r \in (Replicas \ p.isr) \cap online : p.replicaLeo[r] >= p.leo}

ExpandIsr(p, online) ==
  IF Rejoining(p, online) = {} THEN p
  ELSE RecomputeHighWatermark([p EXCEPT !.isr = @ \cup Rejoining(p, online)])

\* applyBrokerDown's immediate removal of a follower from the ISR.
WithoutFollower(p, b) ==
  IF b = p.leader \/ b \notin p.isr THEN p
  ELSE RecomputeHighWatermark([p EXCEPT !.isr = @ \ {b}])

CleanCandidates(p, online) == p.isr \cap online

ElectClean(p, r, online) ==
  [p EXCEPT !.leader = r, !.leaderEpoch = @ + 1, !.isr = @ \cap online]

\* The online replica with the longest log, the first one among equals.
IsLongest(p, r, online) ==
  /\ r \in online
  /\ \A s \in online : \/ p.replicaLeo[s] < p.replicaLeo[r]
                       \/ p.replicaLeo[s] = p.replicaLeo[r] /\ Rank[r] <= Rank[s]

\* Mutant: requests parked on truncated offsets keep waiting.
StrandedNone(p, r) == {}

Stranded(p, r) == {a \in p.pendingAcks : a.offset >= p.replicaLeo[r]}

ElectUnclean(p, r) ==
  [p EXCEPT !.leader = r,
            !.leaderEpoch = @ + 1,
            !.log = {e \in @ : e.offset < p.replicaLeo[r]},
            !.leo = p.replicaLeo[r],
            !.highWatermark = p.replicaLeo[r],
            !.isr = {r},
            !.idle[r] = 0,
            !.pendingAcks = @ \ Stranded(p, r)]

-----------------------------------------------------------------------------
(* produce.ts: resolvePendingAcks *)

\* Mutant: a request is acknowledged one offset early.
SatisfiedOneEarly(p) == {a \in p.pendingAcks : a.offset <= p.highWatermark}

Satisfied(p) == {a \in p.pendingAcks : a.offset < p.highWatermark}

EnoughReplicas(p) == Cardinality(p.isr) >= p.config.minInsyncReplicas

Unsatisfiable(p) ==
  IF EnoughReplicas(p) THEN {} ELSE p.pendingAcks \ Satisfied(p)

Settled(p) == [p EXCEPT !.pendingAcks = @ \ (Satisfied(p) \cup Unsatisfiable(p))]

Park(p, offset, record) ==
  [p EXCEPT !.pendingAcks = @ \cup {[offset |-> offset, record |-> record]}]
=============================================================================
