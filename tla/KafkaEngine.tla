-------------------------------- MODULE KafkaEngine --------------------------------
(***************************************************************************)
(* The Kafka engine as one machine on one broker: producers, partition     *)
(* logs, transactions, consumers and consumer groups under the simulation  *)
(* kernel, in virtual time.  One action per reducer of                     *)
(* src/src/brokers/kafka/engine/index.ts; the files it calls are produce,  *)
(* consume, transaction, segments, compaction, faults, group/coordinator   *)
(* and group/offsets.                                                      *)
(*                                                                         *)
(* The scheduler is the kernel's own heap, so events of one instant fire   *)
(* in the code's order.  With one broker every partition is its leader's   *)
(* alone; replication, elections and broker failures are in                *)
(* KafkaReplication.  Flights, which only draw, are left out.              *)
(***************************************************************************)
EXTENDS KafkaLog, FiniteSets

CONSTANTS
  Utf8,      \* the bytes of each record key
  Inputs     \* the topologies and scripts that are simulated

Partitioner == INSTANCE KafkaPartitioner

Infinity == 1000000    \* Number.POSITIVE_INFINITY; nothing is retried so often

-----------------------------------------------------------------------------
(* What createKafkaSimulation is called with; defaults are filled in *)

Config == [segmentBytes : Nat \cup {Null}, segmentMs : Nat \cup {Null},
           retentionMs : Nat \cup {Null}, retentionBytes : Nat \cup {Null},
           cleanupPolicy : {"delete", "compact"}]

KafkaTopicSpec == [name : STRING, partitions : Nat \ {0}, config : Config]

KafkaProducerSpec ==
  [id : STRING, lingerMs : Nat, batchSize : Nat, acks : {"0", "1", "all"}, retries : Nat,
   maxInFlight : Nat, idempotent : BOOLEAN, partitioner : {"default", "round-robin", "sticky"}]

KafkaConsumerSpec ==
  [id : STRING, groupId : STRING, subscriptions : SUBSET STRING,
   assignor : {"range", "round-robin", "sticky", "cooperative-sticky"},
   autoOffsetReset : {"earliest", "latest"},
   isolationLevel : {"read_uncommitted", "read_committed"},
   maxPollRecords : Nat, processingMs : Nat, enableAutoCommit : BOOLEAN,
   autoCommitIntervalMs : Nat, sessionTimeoutMs : Nat, maxPollIntervalMs : Nat,
   rebalanceTimeoutMs : Nat]

\* The partition <<topic, index>>; in the code its name is the key.
PartitionKey == STRING \X Nat

\* The events, each with its payload.  A flush is the first attempt.
Happening ==
  [type : {"produce-request"}, producerId : STRING, topic : STRING,
   key : STRING \cup {Null}, value : STRING \cup {Null}, partition : Nat \cup {Null}]
    \cup [type : {"batch-flush", "produce-retry"}, producerId : STRING, on : PartitionKey,
          attempt : Nat, records : Seq(LogEntry) \cup {Null}]
    \cup [type : {"produce-response"}, producerId : STRING, on : PartitionKey,
          error : STRING \cup {Null}]
    \cup [type : {"produce-error", "ack-lost"}, producerId : STRING, times : Nat]
    \cup [type : {"processing-error"}, consumerId : STRING, times : Nat]
    \cup [type : {"consumer-stall"}, consumerId : STRING, durationMs : Nat]
    \cup [type : {"consumer-join", "consumer-leave", "fetch-request", "process-done", "commit"},
          consumerId : STRING]
    \cup [type : {"seek"}, consumerId : STRING, on : PartitionKey,
          to : {"earliest", "latest", "offset"}, offset : Nat]
    \cup [type : {"pause", "resume"}, consumerId : STRING, on : PartitionKey]
    \cup [type : {"txn-begin"}, producerId : STRING]
    \cup [type : {"txn-marker"}, producerId : STRING, outcome : Outcomes]
    \cup [type : {"segment-roll", "retention-delete"}, on : PartitionKey]
    \cup [type : {"heartbeat"}, groupId : STRING, memberId : STRING, generationId : Nat]
    \cup [type : {"rebalance-complete", "sync-group"}, groupId : STRING, generationId : Nat]
    \cup [type : {"member-timeout"}]

Input ==
  [ topics     : Seq(KafkaTopicSpec),       \* in the order of their names
    producers  : Seq(KafkaProducerSpec),    \* in the order of the topology
    consumers  : Seq(KafkaConsumerSpec),    \* in the order of their ids
    groups     : Seq(STRING),               \* in the order of their names
    seed       : Nat,
    script     : Seq([at : Nat, kind : Happening]),   \* commands, then faults
    durationMs : Nat ]                      \* bound: no later event fires

ASSUME InputsAssumption ==
  \A in \in Inputs :
    /\ \A i \in DOMAIN in.topics : in.topics[i] \in KafkaTopicSpec
    /\ \A i \in DOMAIN in.producers : in.producers[i] \in KafkaProducerSpec
    /\ \A i \in DOMAIN in.consumers : in.consumers[i] \in KafkaConsumerSpec
    /\ \A i \in DOMAIN in.script : in.script[i].kind \in Happening

Clock == INSTANCE KernelClock WITH Kinds <- Happening

VARIABLES
  input,     \* the topology and script simulated; never changed
  state,     \* KafkaState
  heap,      \* the scheduler
  batch,     \* the events of the current instant that are still to fire
  sent,      \* history: the records handed to each producer, in order
  written,   \* history: everything ever appended to each partition
  handed,    \* history: the records each consumer was given, in order
  reading    \* history: what each consumer read of a partition since it was
             \* last placed there

vars == <<input, state, heap, batch, sent, written, handed, reading>>

-----------------------------------------------------------------------------
(* Topology lookups *)

ById(specs, id) == CHOOSE spec \in ToSet(specs) : spec.id = id
ProducerSpec(id) == ById(input.producers, id)
ConsumerSpec(id) == ById(input.consumers, id)
TopicSpec(name) == CHOOSE spec \in ToSet(input.topics) : spec.name = name

Names(specs) == [i \in DOMAIN specs |-> specs[i].id]
ConsumerIds == ToSet(Names(input.consumers))
ProducerIds == ToSet(Names(input.producers))

Grouping ==
  INSTANCE KafkaAssignors
    WITH ConsumerOrder  <- Names(input.consumers),
         TopicOrder     <- [i \in DOMAIN input.topics |-> input.topics[i].name],
         PartitionCount <- [t \in {spec.name : spec \in ToSet(input.topics)} |->
                              TopicSpec(t).partitions],
         Subscriptions  <- [c \in ConsumerIds |-> ConsumerSpec(c).subscriptions]

\* sortedPartitionKeys
PartitionKeys == Grouping!PartitionOrder

-----------------------------------------------------------------------------
(* createState and seedEvents *)

CreateProducer(i) ==
  [ batches           |-> <<>>,      \* a function from partitions
    nextSequence      |-> <<>>,      \* a function from partitions
    roundRobinCounter |-> 0,
    stickyPartition   |-> Null,
    rng               |-> Partitioner!CreateRng(input.seed + i - 1),
    producerId        |-> Null,
    currentTxnId      |-> Null,
    pendingErrors     |-> 0,
    pendingAckLosses  |-> 0 ]

Metrics == {"recordsProduced", "recordsConsumed", "rebalances", "commits", "retries",
            "duplicatesPrevented", "lagTotal", "abortedRecordsSkipped", "recordsExpired",
            "recordsCompacted"}

CreateState ==
  [ now            |-> 0,
    seq            |-> 0,
    journal        |-> <<>>,
    partitions     |-> [k \in ToSet(PartitionKeys) |-> CreatePartition(k[1], k[2])],
    groups         |-> <<>>,         \* a function from group ids
    producers      |-> [p \in ProducerIds |->
                          CreateProducer(CHOOSE i \in DOMAIN input.producers :
                                           input.producers[i].id = p)],
    consumers      |-> <<>>,         \* a function from the consumers that joined
    metrics        |-> [m \in Metrics |-> 0],
    nextProducerId |-> 0 ]

SeedEvents ==
  [i \in DOMAIN input.script |-> [at |-> input.script[i].at, seq |-> i - 1,
                                  kind |-> input.script[i].kind]]

-----------------------------------------------------------------------------
(* The kernel: the next batch is taken when the last is done *)

Refilled(rest, scheduler) ==
  IF rest # <<>> \/ scheduler = <<>> THEN [batch |-> rest, heap |-> scheduler]
  ELSE LET popped == Clock!PopDue(scheduler, scheduler[1].at)
       IN [batch |-> popped.due, heap |-> popped.rest]

Event == Head(batch)

Running == batch # <<>> /\ Event.at <= input.durationMs

\* An event of a type fires; its payload.
Fires(type) == Running /\ Event.kind.type = type
Payload == Event.kind

Current == [state EXCEPT !.now = Event.at]

\* A ReduceResult: the state a reducer leaves, and the events it schedules,
\* each after a delay.
Result(s, events) == [state |-> s, events |-> events]
Quiet(s) == Result(s, <<>>)
After(delay, kind) == [delay |-> delay, kind |-> kind]

Settled(new, numbered) ==
  LET next == Refilled(Tail(batch), Clock!PushAll(heap, numbered))
  IN heap' = next.heap /\ batch' = next.batch

Reduces(result) ==
  /\ UNCHANGED input
  /\ state' = [result.state EXCEPT !.seq = @ + Len(result.events)]
  /\ Settled(result.state,
             [i \in DOMAIN result.events |->
                [at |-> Event.at + result.events[i].delay, seq |-> result.state.seq + i,
                 kind |-> result.events[i].kind]])
  /\ written' = [k \in DOMAIN written |->
                   written[k] \o From(result.state.partitions[k].log, state.partitions[k].leo)]

Reports(s, type, node, note) ==
  [s EXCEPT !.journal = Append(@, [at |-> s.now, type |-> type, node |-> node, note |-> note])]

Counted(s, metric, n) == [s EXCEPT !.metrics[metric] = @ + n]

\* A value of a function that may not have one.
At(f, x) == IF x \in DOMAIN f THEN f[x] ELSE Null

Without(f, x) == [y \in DOMAIN f \ {x} |-> f[y]]

-----------------------------------------------------------------------------
(* produce.ts *)

BackoffMs == 200     \* PRODUCE_RETRY_BACKOFF_MS
ResponseMs == 50     \* PRODUCE_RESPONSE_TRAVEL_MS

\* assignProducerId: once, when an idempotent producer first sends.
AssignProducerId(s, spec) ==
  IF ~spec.idempotent \/ s.producers[spec.id].producerId # Null THEN s
  ELSE [s EXCEPT !.producers[spec.id].producerId = s.nextProducerId, !.nextProducerId = @ + 1]

CheckSequence(partition, record) ==
  LET last == IF record.producerId \in DOMAIN partition.producerState
              THEN partition.producerState[record.producerId] ELSE -1
  IN CASE record.producerId = Null     -> "ok"
       [] record.sequence = last + 1   -> "ok"
       [] record.sequence <= last      -> "duplicate"
       [] OTHER                        -> "out-of-order"

\* The partitioner's pick; a partition named by the caller leaves it alone.
Picked(runtime, spec, e) ==
  IF e.partition # Null
  THEN Partitioner!Pick(e.partition, runtime.roundRobinCounter, runtime.stickyPartition, runtime.rng)
  ELSE Partitioner!PickPartition(IF e.key = Null THEN Null ELSE Utf8[e.key], spec.partitioner,
                                 TopicSpec(e.topic).partitions, runtime.roundRobinCounter,
                                 runtime.stickyPartition, runtime.rng)

NextSequence(runtime, on) == IF on \in DOMAIN runtime.nextSequence THEN runtime.nextSequence[on] ELSE 0

\* A record as the accumulator keeps it: number and transaction are those of
\* the moment it is sent.
NewRecord(runtime, e, on, now) ==
  [ offset |-> 0, key |-> e.key, value |-> e.value, timestamp |-> now,
    bytes |-> EstimateBytes(e.key, e.value), producerId |-> runtime.producerId,
    sequence |-> IF runtime.producerId = Null THEN Null ELSE NextSequence(runtime, on),
    txnId |-> runtime.currentTxnId, control |-> Null ]

Bytes(records) == Sum([i \in DOMAIN records |-> records[i].bytes])

Flush(id, on) == [type |-> "batch-flush", producerId |-> id, on |-> on, attempt |-> 0, records |-> Null]

\* The producer with the record in its accumulator.
Accumulated(runtime, record, on, pick) ==
  [runtime EXCEPT
     !.roundRobinCounter = pick.counter,
     !.stickyPartition   = pick.sticky,
     !.rng               = pick.rng,
     !.nextSequence      = IF record.producerId = Null THEN @
                           ELSE (on :> record.sequence + 1) @@ @,
     !.batches           = (on :> Append(IF on \in DOMAIN @ THEN @[on] ELSE <<>>, record)) @@ @ ]

\* A batch is flushed when its linger is over, and at once when it is full.
Flushes(spec, on, records) ==
  (IF Len(records) = 1 THEN <<After(spec.lingerMs, Flush(spec.id, on))>> ELSE <<>>)
    \o (IF Bytes(records) >= spec.batchSize THEN <<After(0, Flush(spec.id, on))>> ELSE <<>>)

Enqueued(s, spec, record, on, pick) ==
  LET runtime == Accumulated(s.producers[spec.id], record, on, pick)
  IN Result([s EXCEPT !.producers[spec.id] = runtime], Flushes(spec, on, runtime.batches[on]))

\* The partition a record is sent to.
Target(s, e) == <<e.topic, Picked(s.producers[e.producerId], ProducerSpec(e.producerId), e).partition>>

EnqueueRecord(s, spec, e) ==
  LET pick == Picked(s.producers[spec.id], spec, e)
      on   == <<e.topic, pick.partition>>
  IN Enqueued(s, spec, NewRecord(s.producers[spec.id], e, on, s.now), on, pick)

\* Mutant: whatever the accumulator holds by now is taken for the batch.
ClearAnyBatch(s, e) ==
  [s EXCEPT !.producers[e.producerId].batches = Without(@, e.on),
            !.producers[e.producerId].stickyPartition = IF @ = e.on[2] THEN Null ELSE @]

\* clearBatch.  A batch that was resent from a snapshot is not in the
\* accumulator, which may hold the records of another by now.
ClearBatch(s, e) ==
  IF e.records # Null THEN s
  ELSE [s EXCEPT !.producers[e.producerId].batches = Without(@, e.on),
                 !.producers[e.producerId].stickyPartition = IF @ = e.on[2] THEN Null ELSE @]

Response(e, error) ==
  After(ResponseMs, [type |-> "produce-response", producerId |-> e.producerId, on |-> e.on,
                     error |-> error])

Retry(e, records) ==
  After(BackoffMs, [e EXCEPT !.type = "produce-retry", !.attempt = @ + 1, !.records = records])

\* A batch that is not in flight alone leaves the accumulator, so that its
\* retry has to carry it.
RetryOrTerminal(s, e, remaining, error, forced) ==
  IF e.attempt >= ProducerSpec(e.producerId).retries
  THEN Result(ClearBatch(s, e), <<Response(e, error)>>)
  ELSE IF ~forced /\ ProducerSpec(e.producerId).maxInFlight <= 1
       THEN Result(Counted(s, "retries", 1), <<Retry(e, Null)>>)
       ELSE Result(Counted(ClearBatch(s, e), "retries", 1), <<Retry(e, remaining)>>)

\* appendRecord, and the sequence it is remembered by.
Accepted(partition, record) ==
  [AppendRecord(partition, record) EXCEPT
     !.producerState = IF record.producerId = Null THEN @
                       ELSE (record.producerId :> record.sequence) @@ @]

\* The loop over a batch: duplicates are skipped, and nothing is appended from
\* the first record on that is out of order.
Appending(done, record) ==
  LET verdict == IF done.left # <<>> THEN "out-of-order" ELSE CheckSequence(done.partition, record)
  IN CASE verdict = "ok"           -> [done EXCEPT !.partition = Accepted(@, record), !.appended = @ + 1]
       [] verdict = "duplicate"    -> [done EXCEPT !.duplicates = @ + 1]
       [] verdict = "out-of-order" -> [done EXCEPT !.left = Append(@, record)]

Appended(partition, records) ==
  FoldLeft(Appending, [partition |-> partition, appended |-> 0, duplicates |-> 0, left |-> <<>>],
           records)

\* The state with what was appended.
Stored(s, e, done) ==
  LET counted == Counted(Counted(s, "recordsProduced", done.appended),
                         "duplicatesPrevented", done.duplicates)
      stored  == [counted EXCEPT !.partitions[e.on] = done.partition]
  IN IF done.appended = 0 THEN stored ELSE Reports(stored, "produce", e.producerId, Null)

\* The answer to a batch that is in the log, or its loss on the way.
Answered(s, e, records) ==
  IF ProducerSpec(e.producerId).acks = "0" THEN Quiet(s)
  ELSE IF s.producers[e.producerId].pendingAckLosses > 0
       THEN RetryOrTerminal([s EXCEPT !.producers[e.producerId].pendingAckLosses = @ - 1],
                            e, records, "ACK_LOST_RETRIES_EXHAUSTED", TRUE)
       ELSE Result(s, <<Response(e, Null)>>)

Tried(s, e, records, done) ==
  IF done.left # <<>>
  THEN RetryOrTerminal(Stored(s, e, done), e, done.left, "OUT_OF_ORDER_SEQUENCE", FALSE)
  ELSE Answered(ClearBatch(Stored(s, e, done), e), e, records)

\* The records an attempt sends: those it carries, or the accumulator's.
BatchOf(s, e) ==
  CASE e.records # Null -> e.records
    [] e.records = Null /\ e.on \in DOMAIN s.producers[e.producerId].batches ->
         s.producers[e.producerId].batches[e.on]
    [] OTHER -> <<>>

FlushBatch(s, e, records) ==
  IF records = <<>> THEN Quiet(s)
  ELSE IF s.producers[e.producerId].pendingErrors > 0
       THEN RetryOrTerminal([s EXCEPT !.producers[e.producerId].pendingErrors = @ - 1],
                            e, records, "PRODUCE_ERROR", FALSE)
       ELSE Tried(s, e, records, Appended(s.partitions[e.on], records))

\* chainSegmentRoll: after every flush that wrote something.
ChainSegmentRoll(result, before, on) ==
  IF Len(result.state.partitions[on].log) <= before THEN result
  ELSE [result EXCEPT !.events = Append(@, After(0, [type |-> "segment-roll", on |-> on]))]

Flushed(s, e) ==
  ChainSegmentRoll(FlushBatch(s, e, BatchOf(s, e)), Len(s.partitions[e.on].log), e.on)

-----------------------------------------------------------------------------
(* index.ts: the producer path *)

ProduceRequest ==
  /\ Fires("produce-request")
  /\ LET spec == ProducerSpec(Payload.producerId)
         s    == AssignProducerId(Current, spec)
     IN /\ Reduces(EnqueueRecord(s, spec, Payload))
        /\ sent' = Append(sent, [producerId |-> spec.id, on |-> Target(s, Payload),
                                 key |-> Payload.key, value |-> Payload.value, at |-> s.now])
  /\ UNCHANGED <<handed, reading>>

BatchFlush ==
  /\ Fires("batch-flush")
  /\ Reduces(Flushed(Current, Payload))
  /\ UNCHANGED <<sent, handed, reading>>

ProduceResponse ==
  /\ Fires("produce-response")
  /\ Reduces(Quiet(Reports(Current, "produce-response", Payload.producerId, Payload.error)))
  /\ UNCHANGED <<sent, handed, reading>>

\* The faults are armed, to be used up by the flushes to come.
ProduceError ==
  /\ Fires("produce-error")
  /\ Reduces(Quiet(Reports([Current EXCEPT !.producers[Payload.producerId].pendingErrors =
                                              @ + Payload.times],
                           "produce-error", Payload.producerId, Null)))
  /\ UNCHANGED <<sent, handed, reading>>

AckLost ==
  /\ Fires("ack-lost")
  /\ Reduces(Quiet(Reports([Current EXCEPT !.producers[Payload.producerId].pendingAckLosses =
                                              @ + Payload.times],
                           "ack-lost", Payload.producerId, Null)))
  /\ UNCHANGED <<sent, handed, reading>>

\* asOptionalRetryRecords: the records a retry carries come back without their
\* transaction.
Parsed(e) ==
  IF e.records = Null THEN e
  ELSE [e EXCEPT !.records = [i \in DOMAIN @ |-> [@[i] EXCEPT !.txnId = Null]]]

ProduceRetry ==
  /\ Fires("produce-retry")
  /\ Reduces(Flushed(Current, Parsed(Payload)))
  /\ UNCHANGED <<sent, handed, reading>>

-----------------------------------------------------------------------------
(* group/coordinator.ts and group/offsets.ts *)

\* A group's members, a function from their ids; committed, from partitions.
Group(state_, generation, assignor, members, committed) ==
  [state |-> state_, generationId |-> generation, assignor |-> assignor, members |-> members,
   committed |-> committed]

NewMember(now) == [assignment |-> {}, lastHeartbeatAt |-> now, lastPollAt |-> now]

IsMember(s, c) ==
  /\ ConsumerSpec(c).groupId \in DOMAIN s.groups
  /\ c \in DOMAIN s.groups[ConsumerSpec(c).groupId].members

AssignmentOf(s, c) ==
  IF IsMember(s, c) THEN s.groups[ConsumerSpec(c).groupId].members[c].assignment ELSE {}

HasAnyGroupMember(s) == \E g \in DOMAIN s.groups : s.groups[g].members # <<>>

\* inferRebalanceTimeoutMs: that of the first member by id.
InferRebalanceTimeoutMs(members) ==
  LET first == CHOOSE i \in DOMAIN input.consumers :
                 /\ input.consumers[i].id \in DOMAIN members
                 /\ \A j \in 1 .. i - 1 : input.consumers[j].id \notin DOMAIN members
  IN input.consumers[first].maxPollIntervalMs

ClearAssignmentsIfEager(members, assignor) ==
  IF assignor = "cooperative-sticky" THEN members
  ELSE [m \in DOMAIN members |-> [members[m] EXCEPT !.assignment = {}]]

RebalanceComplete(g, generation, delay) ==
  After(delay, [type |-> "rebalance-complete", groupId |-> g, generationId |-> generation])

PutGroup(s, g, group) == [s EXCEPT !.groups = (g :> group) @@ @]

\* A new round of a group with these members.
Rebalancing(s, g, members, delay) ==
  LET group == s.groups[g]
  IN Result(PutGroup(s, g, Group("PreparingRebalance", group.generationId + 1, group.assignor,
                                 ClearAssignmentsIfEager(members, group.assignor),
                                 group.committed)),
            <<RebalanceComplete(g, group.generationId + 1, delay)>>)

JoinGroup(s, spec) ==
  LET g       == spec.groupId
      members == (spec.id :> NewMember(s.now)) @@ s.groups[g].members
  IN IF g \notin DOMAIN s.groups
     THEN Result(PutGroup(s, g, Group("PreparingRebalance", 1, spec.assignor,
                                      spec.id :> NewMember(s.now), <<>>)),
                 <<RebalanceComplete(g, 1, spec.rebalanceTimeoutMs)>>)
     ELSE IF s.groups[g].state \notin {"Stable", "Empty"}
          THEN Quiet(PutGroup(s, g, [s.groups[g] EXCEPT !.members = members]))
          ELSE Rebalancing(s, g, members, spec.rebalanceTimeoutMs)

Emptied(s, g) == PutGroup(s, g, [s.groups[g] EXCEPT !.state = "Empty", !.members = <<>>])

LeaveGroup(s, c) ==
  LET g         == ConsumerSpec(c).groupId
      remaining == Without(s.groups[g].members, c)
  IN IF ~IsMember(s, c) THEN Quiet(s)
     ELSE IF remaining = <<>> THEN Quiet(Emptied(s, g))
          ELSE Rebalancing(s, g, remaining, InferRebalanceTimeoutMs(remaining))

\* What the assignor gives the members, now.
Assigned(group) ==
  Grouping!Assign(group.assignor, [m \in DOMAIN group.members |-> group.members[m].assignment])

Reassigned(members, assignment) ==
  [m \in DOMAIN members |-> [members[m] EXCEPT !.assignment = assignment[m]]]

\* An event of a round that was overtaken by the next is ignored.
RoundIs(s, e, phase) ==
  /\ e.groupId \in DOMAIN s.groups
  /\ s.groups[e.groupId].state = phase
  /\ s.groups[e.groupId].generationId = e.generationId

\* Of a cooperative group only what moves is taken away; an eager one is
\* handed its new assignment.
Handover(group, target) ==
  IF group.assignor = "cooperative-sticky"
  THEN [m \in DOMAIN group.members |-> group.members[m].assignment \cap target[m]]
  ELSE target

CompleteRebalance(s, e) ==
  LET group == s.groups[e.groupId]
  IN IF ~RoundIs(s, e, "PreparingRebalance") THEN Quiet(s)
     ELSE Result(PutGroup(s, e.groupId,
                          [group EXCEPT !.state = "CompletingRebalance",
                                        !.members = Reassigned(@, Handover(group, Assigned(group)))]),
                 <<After(0, [e EXCEPT !.type = "sync-group"])>>)

\* The second round of a cooperative group hands out what the first took.
Synced(group) ==
  IF group.assignor = "cooperative-sticky"
  THEN [group EXCEPT !.state = "Stable", !.generationId = @ + 1,
                     !.members = Reassigned(@, Assigned(group))]
  ELSE [group EXCEPT !.state = "Stable"]

SyncGroup(s, e) ==
  IF ~RoundIs(s, e, "CompletingRebalance") THEN Quiet(s)
  ELSE Quiet(Counted(PutGroup(s, e.groupId, Synced(s.groups[e.groupId])), "rebalances", 1))

\* heartbeat: one of an older generation is refused.
Beaten(s, e) ==
  CASE ~IsMember(s, e.memberId) -> s
    [] IsMember(s, e.memberId) /\ e.generationId # s.groups[e.groupId].generationId ->
         Reports(s, "heartbeat", e.memberId, "ILLEGAL_GENERATION")
    [] OTHER -> [s EXCEPT !.groups[e.groupId].members[e.memberId].lastHeartbeatAt = s.now]

\* Mutant: a member is only evicted when it stops beating.
StaleSilent(group, now) ==
  {m \in DOMAIN group.members :
     now - group.members[m].lastHeartbeatAt > ConsumerSpec(m).sessionTimeoutMs}

\* Heartbeats and polls are two clocks; either may run out.
Stale(group, now) ==
  {m \in DOMAIN group.members :
     \/ now - group.members[m].lastHeartbeatAt > ConsumerSpec(m).sessionTimeoutMs
     \/ now - group.members[m].lastPollAt > ConsumerSpec(m).maxPollIntervalMs}

\* The members of a group that are not stale any more go on; a group that is
\* rebalancing anyway starts no round for that.
Evicted(s, g, remaining) ==
  CASE remaining = s.groups[g].members -> Quiet(s)
    [] remaining # s.groups[g].members /\ remaining = <<>> -> Quiet(Emptied(s, g))
    [] remaining \notin {s.groups[g].members, <<>>} /\ s.groups[g].state # "Stable" ->
         Quiet(PutGroup(s, g, [s.groups[g] EXCEPT !.members = remaining]))
    [] OTHER -> Rebalancing(s, g, remaining, InferRebalanceTimeoutMs(remaining))

Surviving(group, now) ==
  [m \in DOMAIN group.members \ Stale(group, now) |-> group.members[m]]

CheckedNext(result, g) ==
  LET next == IF g \in DOMAIN result.state.groups
              THEN Evicted(result.state, g, Surviving(result.state.groups[g], result.state.now))
              ELSE Quiet(result.state)
  IN Result(next.state, result.events \o next.events)

CheckTimeouts(s) == FoldLeft(CheckedNext, Quiet(s), input.groups)

ResolvePosition(position, partition, reset) ==
  CASE position # Null /\ position >= partition.logStartOffset -> position
    [] reset = "earliest" /\ (position = Null \/ position < partition.logStartOffset) ->
         partition.logStartOffset
    [] OTHER -> HighWatermark(partition)

CommittedOffset(group, on) == IF on \in DOMAIN group.committed THEN group.committed[on].offset ELSE Null

LagFor(s, g, on) ==
  HighWatermark(s.partitions[on])
    - ResolvePosition(CommittedOffset(s.groups[g], on), s.partitions[on], "latest")

Held(group) == UNION {group.members[m].assignment : m \in DOMAIN group.members}

LagTotal(s) ==
  MapThenSumSet(LAMBDA held : LagFor(s, held[1], held[2]),
                UNION {{g} \X Held(s.groups[g]) : g \in DOMAIN s.groups})

\* The offsets a consumer has read up to, of the partitions it holds now.
ToCommit(s, c) ==
  LET held == DOMAIN s.consumers[c].position \cap AssignmentOf(s, c)
  IN [on \in held |-> [offset |-> s.consumers[c].position[on], committedAt |-> s.now]]

CommitOffsets(s, c) ==
  LET committed == [s EXCEPT !.groups[ConsumerSpec(c).groupId].committed = ToCommit(s, c) @@ @]
  IN IF ~IsMember(s, c) THEN s
     ELSE Reports(Counted([committed EXCEPT !.metrics.lagTotal = LagTotal(committed)], "commits", 1),
                  "commit", c, Null)

ScheduleAutoCommit(spec) ==
  IF spec.enableAutoCommit
  THEN <<After(spec.autoCommitIntervalMs, [type |-> "commit", consumerId |-> spec.id])>>
  ELSE <<>>

-----------------------------------------------------------------------------
(* consume.ts *)

NothingRead == [position |-> <<>>, paused |-> {}, stalledUntil |-> 0,
                pendingProcessingErrors |-> 0, processing |-> FALSE]

\* The partitions a poll reads, in order: assigned and not paused.
Polled(s, c) ==
  SelectSeq(PartitionKeys,
            LAMBDA on : on \in AssignmentOf(s, c) /\ on \notin s.consumers[c].paused)

\* Where the consumer stands in each of them, before any is read.
Positioned(s, spec) ==
  [on \in ToSet(Polled(s, spec.id)) |->
     ResolvePosition(At(s.consumers[spec.id].position, on), s.partitions[on],
                     spec.autoOffsetReset)] @@ s.consumers[spec.id].position

\* The partition as this consumer is to see it.
Seen(s, spec, on) ==
  IF spec.isolationLevel = "read_committed" THEN RecomputeLastStableOffset(s.partitions[on])
  ELSE s.partitions[on]

\* Mutant: records past the stable offset are passed over.
ConsumedAll(fetched, partition, isolationLevel) == fetched

\* What counts as read: up to the last stable offset, if that matters.
Consumed(fetched, partition, isolationLevel) ==
  IF isolationLevel = "read_uncommitted" THEN fetched
  ELSE SelectSeq(fetched, LAMBDA entry : entry.offset < partition.lastStableOffset)

On(entries, on) == [i \in DOMAIN entries |-> [on |-> on, entry |-> entries[i]]]

\* The position moves on by the number of records read.
Taken(poll, on, consumed, visible) ==
  [poll EXCEPT !.position[on] = @ + Len(consumed),
               !.remaining    = @ - Len(consumed),
               !.records      = @ \o On(visible, on),
               !.skipped      = @ + Len(SelectSeq(consumed, LAMBDA e : ~IsMarker(e))) - Len(visible)]

ReadOf(poll, on, partition, isolationLevel) ==
  LET consumed == Consumed(ReadFrom(partition, poll.position[on], poll.remaining),
                           partition, isolationLevel)
  IN Taken(poll, on, consumed, FilterForIsolation(consumed, partition, isolationLevel))

FetchRecords(s, spec) ==
  FoldLeft(LAMBDA poll, on : ReadOf(poll, on, Seen(s, spec, on), spec.isolationLevel),
           [position |-> Positioned(s, spec), remaining |-> spec.maxPollRecords,
            records |-> <<>>, skipped |-> 0],
           Polled(s, spec.id))

-----------------------------------------------------------------------------
(* index.ts: the consumer path *)

PollMs == 100          \* POLL_INTERVAL_MS
HeartbeatMs == 3000    \* HEARTBEAT_INTERVAL_MS
ScanMs == 1000         \* MEMBER_TIMEOUT_SCAN_INTERVAL_MS

Poll(delay, c) == After(delay, [type |-> "fetch-request", consumerId |-> c])

Heartbeating(g, m, generation) ==
  After(HeartbeatMs, [type |-> "heartbeat", groupId |-> g, memberId |-> m, generationId |-> generation])

Scan == After(ScanMs, [type |-> "member-timeout"])

\* A join starts the consumer's loops, and the scan for timeouts unless that
\* is running for somebody else.
Joins(joined, spec, firstScan) ==
  Result(Reports(joined.state, "consumer-join", spec.id, Null),
         joined.events \o <<Poll(0, spec.id),
                            Heartbeating(spec.groupId, spec.id,
                                         joined.state.groups[spec.groupId].generationId)>>
           \o ScheduleAutoCommit(spec) \o (IF firstScan THEN <<Scan>> ELSE <<>>))

\* A consumer joins when it is in no group, or no longer: nobody scripts a second
\* join of a member, which would give it a second entry (coordinator.ts:210).
ConsumerJoin ==
  /\ Fires("consumer-join")
  /\ ~IsMember(state, Payload.consumerId)
  /\ LET spec == ConsumerSpec(Payload.consumerId)
         s    == [Current EXCEPT !.consumers = (spec.id :> NothingRead) @@ @]
     IN /\ Reduces(Joins(JoinGroup(s, spec), spec, ~HasAnyGroupMember(state)))
        /\ reading' = [reading EXCEPT ![spec.id] = <<>>]
  /\ UNCHANGED <<sent, handed>>

Leaves(left, c) == Result(Reports(left.state, "consumer-leave", c, Null), left.events)

ConsumerLeave ==
  /\ Fires("consumer-leave")
  /\ LET c == Payload.consumerId
     IN IF c \notin DOMAIN state.consumers
        THEN Reduces(Quiet(Current)) /\ UNCHANGED reading
        ELSE /\ Reduces(Leaves(LeaveGroup([Current EXCEPT !.consumers = Without(@, c)], c), c))
             /\ reading' = [reading EXCEPT ![c] = <<>>]
  /\ UNCHANGED <<sent, handed>>

\* The state after a poll, the group's note of it included.
PolledState(s, spec, poll) ==
  LET read    == [s EXCEPT !.consumers[spec.id].position = poll.position]
      counted == Counted(Counted(read, "recordsConsumed", Len(poll.records)),
                         "abortedRecordsSkipped", poll.skipped)
      noted   == IF IsMember(s, spec.id)
                 THEN [counted EXCEPT !.groups[spec.groupId].members[spec.id].lastPollAt = s.now]
                 ELSE counted
  IN IF poll.records = <<>> THEN noted
     ELSE [Reports(noted, "deliver", spec.id, Null) EXCEPT !.consumers[spec.id].processing = TRUE]

Processing(spec, records) ==
  IF records = <<>> THEN <<>>
  ELSE <<After(spec.processingMs, [type |-> "process-done", consumerId |-> spec.id])>>

\* Whether what a consumer has read of a partition is continued from here.
Continues(c, on, position) == on \in DOMAIN reading[c] /\ At(state.consumers[c].position, on) = position

OffsetsOn(records, on) ==
  LET there == SelectSeq(records, LAMBDA r : r.on = on)
  IN [i \in DOMAIN there |-> there[i].entry.offset]

ReadOn(c, on, start, records) ==
  IF Continues(c, on, start) THEN [reading[c][on] EXCEPT !.offsets = @ \o OffsetsOn(records, on)]
  ELSE [from |-> start, offsets |-> OffsetsOn(records, on)]

Fetches(s, spec, poll) ==
  /\ Reduces(Result(PolledState(s, spec, poll), Processing(spec, poll.records) \o <<Poll(PollMs, spec.id)>>))
  /\ handed' = [handed EXCEPT ![spec.id] = @ \o poll.records]
  /\ reading' = [reading EXCEPT ![spec.id] =
                   [on \in ToSet(Polled(s, spec.id)) |->
                      ReadOn(spec.id, on, Positioned(s, spec)[on], poll.records)] @@ @]

\* A consumer that left polls no more; one that is stalled reads nothing, and
\* its group hears nothing of it.
FetchRequest ==
  /\ Fires("fetch-request")
  /\ LET c == Payload.consumerId
     IN IF c \in DOMAIN state.consumers /\ Event.at >= state.consumers[c].stalledUntil
        THEN Fetches(Current, ConsumerSpec(c), FetchRecords(Current, ConsumerSpec(c)))
        ELSE /\ Reduces(Result(Current, IF c \in DOMAIN state.consumers THEN <<Poll(PollMs, c)>> ELSE <<>>))
             /\ UNCHANGED <<handed, reading>>
  /\ UNCHANGED sent

\* Processing that fails is done again; the records are not fetched again.
Processed(s, c) ==
  IF s.consumers[c].pendingProcessingErrors > 0
  THEN Result(Reports([s EXCEPT !.consumers[c].pendingProcessingErrors = @ - 1], "process-failed", c, Null),
              <<After(ConsumerSpec(c).processingMs, Payload)>>)
  ELSE Quiet(Reports([s EXCEPT !.consumers[c].processing = FALSE], "process-done", c, Null))

\* Of the consumer an event names, unless it has left.
IfJoined(result) ==
  IF Payload.consumerId \in DOMAIN state.consumers THEN result ELSE Quiet(Current)

ProcessDone ==
  /\ Fires("process-done")
  /\ Reduces(IfJoined(Processed(Current, Payload.consumerId)))
  /\ UNCHANGED <<sent, handed, reading>>

\* A commit of the script restarts the auto-commit clock as well.
Commit ==
  /\ Fires("commit")
  /\ Reduces(IfJoined(Result(CommitOffsets(Current, Payload.consumerId),
                             ScheduleAutoCommit(ConsumerSpec(Payload.consumerId)))))
  /\ UNCHANGED <<sent, handed, reading>>

ConsumerStall ==
  /\ Fires("consumer-stall")
  /\ Reduces(IfJoined(Quiet(
       Reports([Current EXCEPT !.consumers[Payload.consumerId].stalledUntil = Event.at + Payload.durationMs],
               "consumer-stall", Payload.consumerId, Null))))
  /\ UNCHANGED <<sent, handed, reading>>

ProcessingError ==
  /\ Fires("processing-error")
  /\ Reduces(IfJoined(Quiet(
       Reports([Current EXCEPT !.consumers[Payload.consumerId].pendingProcessingErrors = @ + Payload.times],
               "processing-error", Payload.consumerId, Null))))
  /\ UNCHANGED <<sent, handed, reading>>

\* Where a seek goes.
Sought(partition, e) ==
  CASE e.to = "earliest" -> partition.logStartOffset
    [] e.to = "latest"   -> HighWatermark(partition)
    [] e.to = "offset"   -> e.offset

Seek ==
  /\ Fires("seek")
  /\ LET c == Payload.consumerId
     IN /\ Reduces(Quiet(Reports([Current EXCEPT !.consumers[c].position =
                                    (Payload.on :> Sought(state.partitions[Payload.on], Payload)) @@ @],
                                 "seek", c, Null)))
        /\ reading' = [reading EXCEPT ![c] = Without(@, Payload.on)]
  /\ UNCHANGED <<sent, handed>>

Pause ==
  /\ Fires("pause")
  /\ Reduces(Quiet([Current EXCEPT !.consumers[Payload.consumerId].paused = @ \cup {Payload.on}]))
  /\ UNCHANGED <<sent, handed, reading>>

Resume ==
  /\ Fires("resume")
  /\ Reduces(Quiet([Current EXCEPT !.consumers[Payload.consumerId].paused = @ \ {Payload.on}]))
  /\ UNCHANGED <<sent, handed, reading>>

-----------------------------------------------------------------------------
(* transaction.ts *)

TxnId(producerId, now) == producerId \o "-txn-" \o ToString(now)

TxnBegin ==
  /\ Fires("txn-begin")
  /\ Reduces(Quiet(Reports([Current EXCEPT !.producers[Payload.producerId].currentTxnId =
                                              TxnId(Payload.producerId, Event.at)],
                           "txn-begin", Payload.producerId, Null)))
  /\ UNCHANGED <<sent, handed, reading>>

\* A marker goes to every partition that holds a record of the transaction.
WithMarker(partition, txnId, outcome, now) ==
  IF PartitionHasOpenTxnRecord(partition, txnId)
  THEN RecomputeLastStableOffset(AppendRecord(partition, ControlRecord(txnId, outcome, now)))
  ELSE partition

EndTransaction(s, producerId, outcome) ==
  LET txnId == s.producers[producerId].currentTxnId
  IN IF txnId = Null THEN s
     ELSE [s EXCEPT !.partitions = [on \in DOMAIN @ |-> WithMarker(@[on], txnId, outcome, s.now)],
                    !.producers[producerId].currentTxnId = Null]

TxnMarker ==
  /\ Fires("txn-marker")
  /\ Reduces(Quiet(Reports(EndTransaction(Current, Payload.producerId, Payload.outcome),
                           "txn-marker", Payload.producerId, Null)))
  /\ UNCHANGED <<sent, handed, reading>>

-----------------------------------------------------------------------------
(* index.ts: the coordinator and the log's upkeep *)

SyncsGroup ==
  /\ Fires("sync-group")
  /\ Reduces(SyncGroup(Current, Payload))
  /\ UNCHANGED <<sent, handed, reading>>

CompletesRebalance ==
  /\ Fires("rebalance-complete")
  /\ Reduces(CompleteRebalance(Current, Payload))
  /\ UNCHANGED <<sent, handed, reading>>

\* The loop of heartbeats ends when the consumer leaves.
BeatsOn(s, e) ==
  IF e.memberId \notin DOMAIN s.consumers THEN Quiet(s)
  ELSE Result(s, <<Heartbeating(e.groupId, e.memberId, s.groups[e.groupId].generationId)>>)

Heartbeat ==
  /\ Fires("heartbeat")
  /\ Reduces(BeatsOn(Beaten(Current, Payload), Payload))
  /\ UNCHANGED <<sent, handed, reading>>

\* The scan goes on while any group has a member.
Scanned(result) ==
  IF HasAnyGroupMember(result.state) THEN [result EXCEPT !.events = Append(@, Scan)] ELSE result

MemberTimeout ==
  /\ Fires("member-timeout")
  /\ Reduces(Scanned(CheckTimeouts(Current)))
  /\ UNCHANGED <<sent, handed, reading>>

\* A log is compacted as soon as a segment of it is sealed.
Rolled(partition, rolled, config) ==
  IF Len(rolled.segments) > Len(partition.segments) /\ config.cleanupPolicy = "compact"
  THEN Compact(rolled) ELSE rolled

SegmentRoll ==
  /\ Fires("segment-roll")
  /\ LET on        == Payload.on
         config    == TopicSpec(on[1]).config
         partition == Rolled(state.partitions[on],
                             RollSegments(state.partitions[on], config, Event.at), config)
         removed   == Len(state.partitions[on].log) - Len(partition.log)
     IN Reduces(Result(Counted([Current EXCEPT !.partitions[on] = partition], "recordsCompacted", removed),
                       <<After(0, [type |-> "retention-delete", on |-> on])>>))
  /\ UNCHANGED <<sent, handed, reading>>

RetentionDelete ==
  /\ Fires("retention-delete")
  /\ LET on        == Payload.on
         partition == ApplyRetention(state.partitions[on], TopicSpec(on[1]).config, Event.at)
         removed   == Len(state.partitions[on].log) - Len(partition.log)
     IN Reduces(Quiet(IF removed = 0 THEN Current
                      ELSE Counted([Current EXCEPT !.partitions[on] = partition],
                                   "recordsExpired", removed)))
  /\ UNCHANGED <<sent, handed, reading>>

-----------------------------------------------------------------------------

Init ==
  /\ input \in Inputs
  /\ state = CreateState
  /\ heap = Refilled(<<>>, Clock!PushAll(<<>>, SeedEvents)).heap
  /\ batch = Refilled(<<>>, Clock!PushAll(<<>>, SeedEvents)).batch
  /\ sent = <<>>
  /\ written = [on \in ToSet(PartitionKeys) |-> <<>>]
  /\ handed = [c \in ConsumerIds |-> <<>>]
  /\ reading = [c \in ConsumerIds |-> <<>>]

ProducerPath ==
  ProduceRequest \/ BatchFlush \/ ProduceResponse \/ ProduceError \/ AckLost \/ ProduceRetry
    \/ TxnBegin \/ TxnMarker

ConsumerPath ==
  ConsumerJoin \/ ConsumerLeave \/ FetchRequest \/ ProcessDone \/ Commit \/ ConsumerStall
    \/ ProcessingError \/ Seek \/ Pause \/ Resume

Upkeep ==
  SyncsGroup \/ CompletesRebalance \/ Heartbeat \/ MemberTimeout \/ SegmentRoll \/ RetentionDelete

Next == ProducerPath \/ ConsumerPath \/ Upkeep

Spec == Init /\ [][Next]_vars

-----------------------------------------------------------------------------
(* Properties *)

\* The outcomes a transaction has in a partition, in all that was ever written.
Fate(on, txnId) == {e.control : e \in {f \in ToSet(written[on]) : IsMarker(f) /\ f.txnId = txnId}}

\* Whoever reads what is committed is never given a record of a transaction
\* that has no commit marker yet in that partition, or that is aborted there
\* later; not by the order of markers, retries and polls, and not over a
\* rebalance (transaction.ts, filterForIsolation).
ReadCommittedIsStable ==
  \A c \in ConsumerIds :
    ConsumerSpec(c).isolationLevel = "read_committed" =>
      \A given \in ToSet(handed[c]) :
        given.entry.txnId # Null => Fate(given.on, given.entry.txnId) = {"commit"}

\* The records of a partition a consumer is to be given.
Due(c, on, entries, from, upTo) ==
  SelectSeq(entries,
            LAMBDA e : /\ e.offset >= from /\ e.offset < upTo /\ ~IsMarker(e)
                       /\ \/ ConsumerSpec(c).isolationLevel = "read_uncommitted"
                          \/ "abort" \notin Fate(on, e.txnId))

OffsetsOf(entries) == [i \in DOMAIN entries |-> entries[i].offset]

ReadInOrder(c, on, upTo) ==
  LET read == reading[c][on] IN
  IF TopicSpec(on[1]).config.cleanupPolicy = "compact"
  THEN ToSet(OffsetsOf(Due(c, on, state.partitions[on].log, read.from, upTo))) \subseteq ToSet(read.offsets)
  ELSE read.offsets = OffsetsOf(Due(c, on, written[on], read.from, upTo))

\* Since it was placed in a partition a consumer was given every record it is
\* to see up to its position, once and in order; of a compacted log, every
\* record that is still there, as the position trails behind the gaps and some
\* are read again (consume.ts, fetchRecords).
ReadWithoutGaps ==
  \A c \in DOMAIN state.consumers :
    \A on \in DOMAIN reading[c] : ReadInOrder(c, on, state.consumers[c].position[on])

\* Of a compacted log only what a newer record of its key replaced is missing,
\* or what deleted its key.
Replaceable(on, entry) ==
  /\ entry.key # Null
  /\ entry.value = Null \/ \E e \in ToSet(written[on]) : e.key = entry.key /\ e.offset > entry.offset

ContentsKept(on, partition) ==
  LET all == From(written[on], partition.logStartOffset) IN
  /\ partition.log = SelectSeq(all, LAMBDA e : e \in ToSet(partition.log))
  /\ \A e \in ToSet(all) \ ToSet(partition.log) :
       TopicSpec(on[1]).config.cleanupPolicy = "compact" /\ Replaceable(on, e)

SegmentOf(on, segments, i) ==
  SelectSeq(written[on],
            LAMBDA e : /\ e.offset >= segments[i].baseOffset
                       /\ i < Len(segments) => e.offset < segments[i + 1].baseOffset)

SegmentsKept(on, segments) ==
  /\ ~Last(segments).sealed
  /\ \A i \in 1 .. Len(segments) - 1 :
       /\ segments[i].sealed
       /\ segments[i].baseOffset < segments[i + 1].baseOffset
       /\ segments[i].bytes = Bytes(SegmentOf(on, segments, i))

\* A log holds what was written from its start on, and its segments are
\* adjacent, start where the log does, and count the bytes they were filled
\* with: rolling, retention, compaction and markers between them lose no
\* record that is the newest of its key (segments.ts, compaction.ts).
LogAsKept ==
  \A on \in DOMAIN state.partitions :
    LET partition == state.partitions[on] IN
    /\ partition.segments[1].baseOffset = partition.logStartOffset
    /\ ContentsKept(on, partition)
    /\ SegmentsKept(on, partition.segments)

Same(r, entry) == entry.key = r.key /\ entry.value = r.value /\ entry.timestamp = r.at
Holds(entries, r) == \E i \in DOMAIN entries : Same(r, entries[i])

\* The events still to fire.
Pending == {event.kind : event \in ToSet(heap) \cup ToSet(batch)}

Underway(r) ==
  \/ /\ r.on \in DOMAIN state.producers[r.producerId].batches
     /\ Holds(state.producers[r.producerId].batches[r.on], r)
  \/ \E e \in Pending :
       /\ e.type = "produce-retry" /\ e.producerId = r.producerId /\ e.on = r.on /\ e.records # Null
       /\ Holds(e.records, r)

\* Its producer was told of a failure after it, or is about to be.
ToldOfError(r) ==
  \/ \E e \in Pending :
       e.type = "produce-response" /\ e.producerId = r.producerId /\ e.on = r.on /\ e.error # Null
  \/ \E entry \in ToSet(state.journal) :
       /\ entry.type = "produce-response" /\ entry.node = r.producerId
       /\ entry.note # Null /\ entry.at >= r.at + ResponseMs

\* A record that was sent is in the log, or waits in the accumulator, or rides
\* in a retry that is still to come, or its producer hears of a failure: no
\* batch vanishes between an attempt and its retry (produce.ts, clearBatch).
NothingSentIsLost ==
  \A r \in ToSet(sent) : Holds(written[r.on], r) \/ Underway(r) \/ ToldOfError(r)
=============================================================================
