---------------------------- MODULE KafkaReplication ----------------------------
(***************************************************************************)
(* Replication of one Kafka partition: the reducers of                     *)
(* src/src/brokers/kafka/engine/index.ts that change its leader, its ISR,  *)
(* its log or its high watermark, and the answers given to producers.      *)
(* Partitions do not share any of this state, so one is enough.            *)
(*                                                                         *)
(* The kernel dispatches events in order of (time, seq).  Events of        *)
(* different timers and of the script fall in any order, so every reducer  *)
(* is an action of its own; an event chained at the same virtual time      *)
(* (leader-election, isr-expand) must be dispatched before Tick.           *)
(***************************************************************************)
EXTENDS KafkaPartition

CONSTANTS
  FirstLeader,   \* the leader assignPartitions gives the partition
  Fetchers,      \* the brokers whose replica-fetch loop seedEvents starts
  Topics,        \* the topic configurations a behaviour may start with
  MaxRecords,    \* bound on the produce requests of a behaviour
  MaxFaults      \* bound on the broker-down and replica-lag faults

ASSUME FirstLeaderAssumption == FirstLeader \in Replicas
ASSUME FetchersAssumption == Fetchers \subseteq Replicas
ASSUME TopicsAssumption == Topics \subseteq TopicConfig
ASSUME BoundsAssumption == MaxRecords \in Nat /\ MaxFaults \in Nat

VARIABLES
  part,        \* the PartitionState
  online,      \* the brokers whose brokersOnline flag is set
  elections,   \* leader-election events waiting at the current time
  expandDue,   \* an isr-expand event waits at the current time
  faults,      \* faults injected so far
  produced,    \* produce requests so far; also the identity of the last record
  acked,       \* records of acks=all requests answered with an offset
  refused,     \* records of acks=all requests answered with an error
  copies       \* history: the entries each replica fetched or wrote as leader

vars == <<part, online, elections, expandDue, faults, produced, acked, refused, copies>>

AcksModes == {"0", "1", "all"}

TypeOK ==
  /\ part \in Partition
  /\ online \in SUBSET Replicas
  /\ elections \in Nat
  /\ expandDue \in BOOLEAN
  /\ faults \in 0 .. MaxFaults
  /\ produced \in 0 .. MaxRecords
  /\ acked \in SUBSET Nat
  /\ refused \in SUBSET Nat
  /\ copies \in [Replicas -> SUBSET Entry]

Init ==
  /\ part \in {CreatePartition(FirstLeader, config) : config \in Topics}
  /\ online = Replicas
  /\ elections = 0
  /\ expandDue = FALSE
  /\ faults = 0
  /\ produced = 0
  /\ acked = {}
  /\ refused = {}
  /\ copies = [r \in Replicas |-> {}]

Unclean == part.config.uncleanLeaderElection

RecordsOf(requests) == {a.record : a \in requests}

\* resolveAllPendingAcks: every reducer that moves the ISR or the high
\* watermark ends by answering the parked requests that can be answered.
Resolve(p) ==
  /\ part' = Settled(p)
  /\ acked' = acked \cup RecordsOf(Satisfied(p))
  /\ refused' = refused \cup RecordsOf(Unsatisfiable(p))

-----------------------------------------------------------------------------
(* The three ends of flushBatch (produce.ts), for a batch of one record. *)

\* The leader is offline, or acks=all and the ISR is below the minimum:
\* nothing is appended.
Refuse(acks) ==
  /\ refused' = IF acks = "all" THEN refused \cup {produced + 1} ELSE refused
  /\ UNCHANGED <<part, acked, copies>>

\* The record is appended; an acks=all request whose offset is not below the
\* high watermark yet is parked in pendingAcks.
Accept(acks) ==
  LET p == AppendRecord(part, produced + 1)
  IN /\ copies' = [copies EXCEPT ![p.leader] = p.log]
     /\ IF acks = "all" /\ p.highWatermark <= part.leo
        THEN part' = Park(p, part.leo, produced + 1) /\ UNCHANGED acked
        ELSE /\ part' = p
             /\ acked' = IF acks = "all" THEN acked \cup {produced + 1} ELSE acked
     /\ UNCHANGED refused

Produce(acks) ==
  /\ produced < MaxRecords
  /\ produced' = produced + 1
  /\ IF part.leader \notin online \/ (acks = "all" /\ ~EnoughReplicas(part))
     THEN Refuse(acks)
     ELSE Accept(acks)
  /\ UNCHANGED <<online, elections, expandDue, faults>>

-----------------------------------------------------------------------------
(* Broker faults. *)

BrokerDown(b) ==
  /\ faults < MaxFaults
  /\ b \in online
  /\ faults' = faults + 1
  /\ online' = online \ {b}
  /\ elections' = IF part.leader = b THEN elections + 1 ELSE elections
  /\ Resolve(WithoutFollower(part, b))
  /\ UNCHANGED <<expandDue, produced, copies>>

BrokerUp(b) ==
  /\ b \notin online
  /\ online' = online \cup {b}
  /\ UNCHANGED <<part, elections, expandDue, faults, produced, acked, refused, copies>>

\* applyReplicaLagFault: lastFetchAt is set back, then one reactive shrink.
ReplicaLag(b, lag) ==
  /\ faults < MaxFaults
  /\ faults' = faults + 1
  /\ Resolve(ShrinkIsr([part EXCEPT !.idle[b] = lag]))
  /\ UNCHANGED <<online, elections, expandDue, produced, copies>>

-----------------------------------------------------------------------------
(* Replication timers. *)

\* One turn of broker b's self-rescheduling fetch loop.  An offline broker
\* and the leader itself fetch nothing, but the loop goes on.
ReplicaFetch(b) ==
  /\ b \in Fetchers
  /\ IF b \in online /\ b # part.leader
     THEN /\ Resolve(Fetched(part, b))
          /\ copies' = [copies EXCEPT ![b] = part.log]
     ELSE Resolve(part) /\ UNCHANGED copies
  /\ UNCHANGED <<online, elections, expandDue, faults, produced>>

\* applyIsrShrink, every ISR_SCAN_INTERVAL_MS; it chains an isr-expand.  The
\* loop is seeded with the fetch loops, when some broker follows.
IsrShrink ==
  /\ Fetchers # {}
  /\ ~expandDue
  /\ expandDue' = TRUE
  /\ Resolve(ShrinkIsr(part))
  /\ UNCHANGED <<online, elections, faults, produced, copies>>

IsrExpand ==
  /\ expandDue
  /\ expandDue' = FALSE
  /\ Resolve(ExpandIsr(part, online))
  /\ UNCHANGED <<online, elections, faults, produced, copies>>

Tick ==
  /\ elections = 0
  /\ ~expandDue
  /\ part' = [part EXCEPT !.idle = [r \in Replicas |->
                IF part.idle[r] > LagMax THEN part.idle[r] ELSE part.idle[r] + 1]]
  /\ UNCHANGED <<online, elections, expandDue, faults, produced, acked, refused, copies>>

-----------------------------------------------------------------------------
(* applyLeaderElection: electLeader, then resolveAllPendingAcks. *)

\* The history gives a new leader the partition's log: the engine keeps
\* exactly one log per partition and calls it the leader's.
ElectInSync ==
  \E r \in Replicas :
    /\ IsFirst(r, CleanCandidates(part, online))
    /\ Resolve(ElectClean(part, r, online))
    /\ copies' = [copies EXCEPT ![r] = part.log]

ElectNobody ==
  /\ CleanCandidates(part, online) = {}
  /\ ~Unclean \/ online = {}
  /\ Resolve(part)
  /\ UNCHANGED copies

ElectOutOfSync ==
  /\ CleanCandidates(part, online) = {}
  /\ Unclean
  /\ \E r \in Replicas :
       LET p    == ElectUnclean(part, r)
           lost == RecordsOf(Stranded(part, r))
       IN /\ IsLongest(part, r, online)
          /\ part' = Settled(p)
          /\ acked' = acked \cup RecordsOf(Satisfied(p))
          /\ refused' = refused \cup RecordsOf(Unsatisfiable(p)) \cup lost
          /\ copies' = [copies EXCEPT ![r] = p.log]

LeaderElection ==
  /\ elections > 0
  /\ elections' = elections - 1
  /\ ElectInSync \/ ElectNobody \/ ElectOutOfSync
  /\ UNCHANGED <<online, expandDue, faults, produced>>

-----------------------------------------------------------------------------

Replicate ==
  \/ \E b \in Replicas : BrokerDown(b)
  \/ \E b \in Replicas : BrokerUp(b)
  \/ \E b \in Replicas, lag \in 0 .. LagMax + 1 : ReplicaLag(b, lag)
  \/ \E b \in Replicas : ReplicaFetch(b)
  \/ IsrShrink
  \/ IsrExpand
  \/ LeaderElection
  \/ Tick

Next == Replicate \/ \E acks \in AcksModes : Produce(acks)

Spec == Init /\ [][Next]_vars

\* The kernel dispatches every event it holds, so the two self-rescheduling
\* loops, the events they chain and the clock never stop.  The script's own
\* commands and faults carry no fairness.
Fairness ==
  /\ \A b \in Fetchers : WF_vars(ReplicaFetch(b))
  /\ WF_vars(IsrShrink)
  /\ WF_vars(IsrExpand)
  /\ WF_vars(LeaderElection)
  /\ WF_vars(Tick)

FairSpec == Spec /\ Fairness

-----------------------------------------------------------------------------
(* Safety *)

\* The leader is always a member of its partition's ISR: shrinkIsr,
\* applyBrokerDown and both elections each spare it in a different way.
LeaderInIsr == part.leader \in part.isr

\* With unclean election off, whatever lies below the high watermark, which
\* consumers may read and acks=all requests were promised, has really been
\* fetched by every member of the ISR (not merely counted as fetched).
CommittedIsReplicated ==
  ~Unclean => \A r \in part.isr, e \in part.log :
    e.offset < part.highWatermark => e \in copies[r]

\* With unclean election off, a record whose acks=all request was answered
\* with success is in the log, below the high watermark, whatever failovers
\* came since.
AckedIsCommitted ==
  ~Unclean => \A record \in acked :
    \E e \in part.log : e.record = record /\ e.offset < part.highWatermark

\* A parked request still points at the very record it appended: an offset
\* that an unclean election freed is never answered for its former owner.
ParkedRecordInLog ==
  \A a \in part.pendingAcks :
    [offset |-> a.offset, record |-> a.record] \in part.log

\* A request is answered at most once, and never while it is still parked.
AnsweredOnce ==
  /\ acked \cap refused = {}
  /\ RecordsOf(part.pendingAcks) \cap (acked \cup refused) = {}

-----------------------------------------------------------------------------
(* Refinement *)

\* What consumers may read.
Readable == {e \in part.log : e.offset < part.highWatermark}

Promise == INSTANCE CommittedLog
             WITH committed <- Readable, end <- part.highWatermark, lossy <- Unclean

\* Replication with all its faults keeps the promise of a committed log, a
\* lossy one when the topic allows unclean election.
ImplementsCommittedLog == Promise!Spec

-----------------------------------------------------------------------------
(* Liveness *)

\* A broker that stays up gets back into the ISR, once producers pause for a
\* fetch and a scan: applyBrokerUp leaves the recovery to the broker's own
\* fetch loop.
StableReplicaRejoins ==
  \A r \in Replicas : <>[](r \in online) => []<>(r \in part.isr)
=============================================================================
