------------------------------- MODULE KafkaLessons -------------------------------
(***************************************************************************)
(* The lessons of src/src/brokers/kafka/lessons that run on one broker:    *)
(* the topologies and scripts the simulator ships with, and what their     *)
(* tests and narratives tell of them at certain moments.                   *)
(*                                                                         *)
(* Of a record's value only the length matters to the engine; some values  *)
(* here are ASCII words as long as those of the lesson.                    *)
(***************************************************************************)
EXTENDS KafkaEngine

ORDERS == "orders"

-----------------------------------------------------------------------------
(* Topologies: a lesson names what differs from the defaults *)

KeepAll == [segmentBytes |-> Null, segmentMs |-> Null, retentionMs |-> Null,
            retentionBytes |-> Null, cleanupPolicy |-> "delete"]

Topic(name, partitions) == [name |-> name, partitions |-> partitions, config |-> KeepAll]

Producer(id) ==
  [ id |-> id, lingerMs |-> 0, batchSize |-> 16384, acks |-> "all", retries |-> Infinity,
    maxInFlight |-> 5, idempotent |-> FALSE, partitioner |-> "default" ]

Consumer(id, groupId, reset, maxPollIntervalMs) ==
  [ id |-> id, groupId |-> groupId, subscriptions |-> {ORDERS}, assignor |-> "range",
    autoOffsetReset |-> reset, isolationLevel |-> "read_uncommitted", maxPollRecords |-> 500,
    processingMs |-> 0, enableAutoCommit |-> TRUE, autoCommitIntervalMs |-> 5000,
    sessionTimeoutMs |-> 10000, maxPollIntervalMs |-> maxPollIntervalMs,
    rebalanceTimeoutMs |-> maxPollIntervalMs ]

Manual(consumer) == [consumer EXCEPT !.enableAutoCommit = FALSE]

\* A lesson; its topics and groups are given in the order of their names.
Lesson(seed, durationMs, topics, producers, consumers, groups, script) ==
  [ topics |-> topics, producers |-> producers, consumers |-> consumers, groups |-> groups,
    seed |-> seed, script |-> script, durationMs |-> durationMs ]

-----------------------------------------------------------------------------
(* The commands and faults of a script, as seedEvents queues them *)

SendTo(at, p, topic, key, value, partition) ==
  [at |-> at, kind |-> [type |-> "produce-request", producerId |-> p, topic |-> topic, key |-> key,
                        value |-> value, partition |-> partition]]
Send(at, p, key, value) == SendTo(at, p, ORDERS, key, value, Null)
ConsumerCommand(type, at, c) == [at |-> at, kind |-> [type |-> type, consumerId |-> c]]
JoinAt(at, c)   == ConsumerCommand("consumer-join", at, c)
LeaveAt(at, c)  == ConsumerCommand("consumer-leave", at, c)
CommitAt(at, c) == ConsumerCommand("commit", at, c)
SeekAt(at, c, on, to, offset) ==
  [at |-> at, kind |-> [type |-> "seek", consumerId |-> c, on |-> on, to |-> to, offset |-> offset]]
PauseAt(at, c, on)  == [at |-> at, kind |-> [type |-> "pause", consumerId |-> c, on |-> on]]
ResumeAt(at, c, on) == [at |-> at, kind |-> [type |-> "resume", consumerId |-> c, on |-> on]]
BeginAt(at, p) == [at |-> at, kind |-> [type |-> "txn-begin", producerId |-> p]]
EndAt(at, p, outcome) ==
  [at |-> at, kind |-> [type |-> "txn-marker", producerId |-> p, outcome |-> outcome]]
ProducerFault(type, at, p, times) ==
  [at |-> at, kind |-> [type |-> type, producerId |-> p, times |-> times]]
StallAt(at, c, durationMs) ==
  [at |-> at, kind |-> [type |-> "consumer-stall", consumerId |-> c, durationMs |-> durationMs]]
FailAt(at, c, times) ==
  [at |-> at, kind |-> [type |-> "processing-error", consumerId |-> c, times |-> times]]

\* The same command at several times, values numbered.
Sends(p, key, prefix, times) ==
  [i \in DOMAIN times |-> Send(times[i], p, key, prefix \o ToString(i))]
Every(first, step, n) == [i \in 1 .. n |-> first + (i - 1) * step]

-----------------------------------------------------------------------------
(* What can be told of a moment *)

\* The events up to a time have fired, and none after it.
Moment(t) == state.now <= t /\ (batch = <<>> \/ Event.at > t)

TheEnd == ~Running

\* The partitions a record of some key is in, and how often.
With(on, key) == SelectSeq(state.partitions[on].log, LAMBDA entry : entry.key = key)
PartitionsWith(key) == {on \in DOMAIN state.partitions : With(on, key) # <<>>}
InLog(on, value) == Len(SelectSeq(state.partitions[on].log, LAMBDA entry : entry.value = value))
Values(on) == [i \in DOMAIN state.partitions[on].log |-> state.partitions[on].log[i].value]

Entries(type, node) == SelectSeq(state.journal, LAMBDA entry : entry.type = type /\ entry.node = node)
AssignedIn(g) == Held(state.groups[g])
OwnedOnce(g) ==
  \A m, n \in DOMAIN state.groups[g].members :
    m # n => state.groups[g].members[m].assignment \cap state.groups[g].members[n].assignment = {}
Lag(g, on) == LagFor(state, g, on)

-----------------------------------------------------------------------------
(* basics *)

topicPartition ==
  Lesson(1, 18000, <<Topic(ORDERS, 3)>>, <<Producer("p1")>>,
    <<Consumer("c1", "g1", "latest", 5000)>>, <<"g1">>,
    <<JoinAt(0, "c1")>>
      \o Sends("p1", Null, "don-", <<1000, 2500, 4000, 6000, 8000, 10000>>))

keyPartitioning ==
  Lesson(3, 22000, <<Topic(ORDERS, 4)>>, <<Producer("p1")>>,
    <<Consumer("c1", "g1", "latest", 5000)>>, <<"g1">>,
    <<JoinAt(0, "c1")>>
      \o Sends("p1", "user-1", "don-a", <<1000, 1500, 2000>>)
      \o Sends("p1", "user-2", "don-b", <<3000, 3500, 4000>>)
      \o Sends("p1", Null, "don-c", <<5000, 5500, 6000>>))

\* Every record of a key is in one partition, whose log is in the order of time.
KeyPartitioningTold ==
  TheEnd =>
    /\ \A key \in {"user-1", "user-2"} : \E on \in DOMAIN state.partitions : PartitionsWith(key) = {on}
    /\ \A on \in DOMAIN state.partitions :
         \A i \in 1 .. Len(state.partitions[on].log) - 1 :
           state.partitions[on].log[i].timestamp <= state.partitions[on].log[i + 1].timestamp

produceConsume ==
  Lesson(4, 25000, <<Topic(ORDERS, 1)>>, <<[Producer("p1") EXCEPT !.lingerMs = 500]>>,
    <<Manual([Consumer("c1", "g1", "latest", 5000) EXCEPT !.processingMs = 300])>>, <<"g1">>,
    <<JoinAt(0, "c1"), Send(6050, "p1", Null, "don-1"), Send(6150, "p1", Null, "don-2"),
      CommitAt(7000, "c1")>>)

Committed(g, on) == state.groups[g].committed[on]

ProduceConsumeTold ==
  TheEnd =>
    /\ state.metrics["recordsConsumed"] = 2 /\ state.metrics["recordsProduced"] = 2
    /\ Committed("g1", <<ORDERS, 0>>) = [offset |-> 2, committedAt |-> 7000]

offsets ==
  Lesson(5, 30000, <<Topic(ORDERS, 1)>>, <<Producer("p1")>>,
    <<Manual(Consumer("c1", "g1", "latest", 5000))>>, <<"g1">>,
    Sends("p1", Null, "don-", <<500, 1000, 1500, 2000>>)
      \o <<JoinAt(6000, "c1"), Send(11650, "p1", Null, "don-5"), CommitAt(12000, "c1"),
           Send(12650, "p1", Null, "don-6"), SeekAt(14050, "c1", <<ORDERS, 0>>, "earliest", 0),
           CommitAt(14700, "c1")>>)

Position(c, on) == At(state.consumers[c].position, on)

\* What was written before it joined is skipped; a seek moves the position and
\* leaves what is committed.
OffsetsTold ==
  LET on == <<ORDERS, 0>> IN
  /\ Moment(11100) => Position("c1", on) = 4
  /\ Moment(12800) => Position("c1", on) = 6
  /\ Moment(14080) => Position("c1", on) = 0
  /\ \A t \in {12800, 14080} :
       Moment(t) => Committed("g1", on) = [offset |-> 5, committedAt |-> 12000]
  /\ Moment(14700) =>
       Position("c1", on) = 6 /\ Committed("g1", on) = [offset |-> 6, committedAt |-> 14700]

-----------------------------------------------------------------------------
(* producer *)

batchingLinger ==
  Lesson(7, 22000, <<Topic(ORDERS, 1)>>,
    <<Producer("p1"), [Producer("p2") EXCEPT !.lingerMs = 2000, !.batchSize = 4096]>>,
    <<>>, <<>>,
    [i \in 1 .. 16 |-> Send(500 * ((i + 1) \div 2), IF i % 2 = 1 THEN "p1" ELSE "p2", Null,
                            "don-" \o ToString((i + 1) \div 2))])

\* Eight records, in eight batches without linger and in two with it; what
\* lingers is answered late.
BatchingLingerTold ==
  LET FirstAnswer(p) == Head(Entries("produce-response", p)).at IN
  TheEnd =>
    /\ Len(Entries("produce", "p1")) = 8 /\ Len(Entries("produce", "p2")) = 2
    /\ FirstAnswer("p1") < 1000 /\ FirstAnswer("p2") >= 2500

partitioner ==
  Lesson(8, 24000, <<Topic(ORDERS, 4)>>,
    <<Producer("p1"), [Producer("p2") EXCEPT !.partitioner = "round-robin"]>>, <<>>, <<>>,
    Sends("p1", "vip-1", "don-", Every(500, 300, 7))
      \o <<Send(2600, "p1", "user-2", "don-8"), Send(2900, "p1", "user-3", "don-9"),
           Send(3200, "p1", "user-4", "don-10")>>
      \o [i \in 1 .. 10 |-> Send(3400 + 300 * i, "p2", Null, "don-" \o ToString(10 + i))])

\* A frequent key fills one partition; round-robin spreads evenly.
PartitionerTold ==
  TheEnd =>
    /\ PartitionsWith("vip-1") = {<<ORDERS, 1>>} /\ Len(With(<<ORDERS, 1>>, "vip-1")) = 7
    /\ \A i \in 0 .. 3 : Len(With(<<ORDERS, i>>, Null)) \in 2 .. 3

idempotentProducer ==
  Lesson(9, 22000, <<Topic(ORDERS, 1)>>,
    <<[Producer("p1") EXCEPT !.retries = 3],
      [Producer("p2") EXCEPT !.retries = 3, !.idempotent = TRUE]>>, <<>>, <<>>,
    <<Send(500, "p1", Null, "don-1a"), Send(700, "p2", Null, "don-1b"),
      Send(4000, "p1", Null, "don-2a"), Send(4000, "p2", Null, "don-2b"),
      ProducerFault("ack-lost", 4000, "p1", 1), ProducerFault("ack-lost", 4000, "p2", 1)>>)

IdempotentProducerTold ==
  TheEnd =>
    /\ InLog(<<ORDERS, 0>>, "don-2a") = 2 /\ InLog(<<ORDERS, 0>>, "don-2b") = 1
    /\ state.metrics["duplicatesPrevented"] >= 1

orderingRetries ==
  LET Three(at, i) == [p \in 1 .. 3 |-> Send(at, "p" \o ToString(p), Null,
                                             "p" \o ToString(p) \o "-rec-" \o ToString(i))]
  IN Lesson(10, 24000, <<Topic(ORDERS, 1)>>,
       <<[Producer("p1") EXCEPT !.retries = 3],
         [Producer("p2") EXCEPT !.retries = 3, !.idempotent = TRUE],
         [Producer("p3") EXCEPT !.retries = 3, !.maxInFlight = 1]>>, <<>>, <<>>,
       Three(1000, 1) \o Three(1050, 2) \o Three(1100, 3)
         \o [p \in 1 .. 3 |-> ProducerFault("produce-error", 1000, "p" \o ToString(p), 1)])

\* A failed batch is overtaken unless it is numbered or alone in flight.
OrderingRetriesTold ==
  LET log == Values(<<ORDERS, 0>>)
      Precedes(u, v) == \E i, j \in DOMAIN log : i < j /\ log[i] = u /\ log[j] = v
  IN TheEnd =>
       /\ Precedes("p1-rec-2", "p1-rec-1") /\ Precedes("p1-rec-3", "p1-rec-1")
       /\ \A p \in {"p2", "p3"} :
            Precedes(p \o "-rec-1", p \o "-rec-2") /\ Precedes(p \o "-rec-2", p \o "-rec-3")

-----------------------------------------------------------------------------
(* consumer *)

consumerGroup ==
  LET Reader(id, g) == Manual(Consumer(id, g, "earliest", 5000)) IN
  Lesson(11, 24000, <<Topic(ORDERS, 3)>>, <<Producer("p1")>>,
    <<Reader("c1", "g1"), Reader("c2", "g1"), Reader("c3", "g1"), Reader("c4", "g1"),
      Reader("c5", "g2")>>, <<"g1", "g2">>,
    <<JoinAt(0, "c1"), JoinAt(0, "c5"), Send(1000, "p1", Null, "sk-1"), JoinAt(8000, "c2"),
      Send(9000, "p1", Null, "sk-2"), JoinAt(16000, "c3"), JoinAt(16000, "c4"),
      Send(17000, "p1", Null, "sk-3")>>)

\* Each partition has one owner in a group; a member too many has nothing.
ConsumerGroupTold ==
  /\ Moment(13100) => OwnedOnce("g1") /\ Cardinality(AssignedIn("g1")) = 3
  /\ Moment(21100) => /\ AssignmentOf(state, "c4") = {} /\ Cardinality(AssignedIn("g1")) = 3
                      /\ Cardinality(DOMAIN state.groups["g1"].members) = 4

rebalance ==
  Lesson(12, 26000, <<Topic(ORDERS, 4)>>, <<Producer("p1")>>,
    <<Manual(Consumer("c1", "g1", "earliest", 5000)), Manual(Consumer("c2", "g1", "earliest", 5000))>>,
    <<"g1">>,
    <<JoinAt(0, "c1"), Send(500, "p1", Null, "a"), JoinAt(6000, "c2"), Send(8000, "p1", Null, "b"),
      LeaveAt(14000, "c1"), Send(16000, "p1", Null, "c")>>)

\* Nobody in an eager group reads while it rebalances.
RebalanceTold ==
  /\ state.now \in 7999 .. 10999 => state.metrics["recordsConsumed"] = 1
  /\ \A t \in {11100, 19100} : Moment(t) => Cardinality(AssignedIn("g1")) = 4

assignors ==
  LET Member(id, g, assignor) ==
        [Manual(Consumer(id, g, "earliest", 5000)) EXCEPT !.assignor = assignor]
  IN Lesson(13, 28000, <<Topic(ORDERS, 6)>>, <<Producer("p1")>>,
       [i \in 1 .. 3 |-> Member("cg" \o ToString(i), "g-coop", "cooperative-sticky")]
         \o [i \in 1 .. 3 |-> Member("rg" \o ToString(i), "g-range", "range")],
       <<"g-coop", "g-range">>,
       <<JoinAt(0, "rg1"), JoinAt(0, "rg2"), JoinAt(0, "cg1"), JoinAt(0, "cg2"),
         Send(1000, "p1", Null, "e1"), JoinAt(10000, "rg3"), JoinAt(10000, "cg3")>>)

\* A cooperative group keeps what does not move while the round lasts; an eager
\* one gives up everything.
AssignorsTold ==
  /\ state.now >= 10000 /\ ~Moment(10000) /\ state.now <= 14999 => AssignmentOf(state, "rg1") = {}
  /\ state.now >= 9999 => <<ORDERS, 0>> \in AssignmentOf(state, "cg1")

commitStrategies ==
  LET Slow(id, g) == [Consumer(id, g, "earliest", 15000) EXCEPT !.rebalanceTimeoutMs = 5000,
                                                                !.processingMs = 6000]
  IN Lesson(14, 26000, <<Topic(ORDERS, 1)>>, <<Producer("p1")>>,
       <<Slow("c-auto", "g-auto"), Manual(Slow("c-manual", "g-manual"))>>, <<"g-auto", "g-manual">>,
       <<JoinAt(0, "c-auto"), JoinAt(0, "c-manual"), Send(5050, "p1", Null, "x"),
         CommitAt(11200, "c-manual"), Send(21000, "p1", Null, "y"), StallAt(12000, "c-auto", 8000)>>)

\* The automatic commit comes before the record is processed, the other after.
CommitStrategiesTold ==
  LET on == <<ORDERS, 0>> IN
  /\ Moment(10001) => /\ Entries("process-done", "c-auto") = <<>>
                      /\ Committed("g-auto", on).committedAt = 10000
  /\ Moment(11201) => /\ Head(Entries("process-done", "c-manual")).at = 11100
                      /\ Committed("g-manual", on).committedAt >= 11100

consumerLag ==
  LET Reader(id, pollMs, processingMs) ==
        [Consumer(id, "g1", "earliest", pollMs) EXCEPT !.rebalanceTimeoutMs = 1000,
                                                       !.autoCommitIntervalMs = 1000,
                                                       !.processingMs = processingMs]
  IN Lesson(15, 30000, <<Topic(ORDERS, 2)>>, <<Producer("p1")>>,
       <<Manual(Reader("c1", 40000, 1200)), Reader("c2", 5000, 300), Reader("c3", 5000, 300)>>, <<"g1">>,
       <<JoinAt(0, "c1"), CommitAt(1050, "c1")>> \o Sends("p1", Null, "r", Every(500, 500, 59))
         \o <<JoinAt(15000, "c2"), JoinAt(15000, "c3"), StallAt(1100, "c1", 27000)>>)

\* The lag of a stalled consumer grows and grows; another takes over one of its
\* partitions, and one consumer more than there are partitions has none.
ConsumerLagTold ==
  /\ state.now \in 1100 .. 14999 => Committed("g1", <<ORDERS, 0>>).committedAt = 1050
  /\ Moment(5000) => Lag("g1", <<ORDERS, 0>>) < 10
  /\ Moment(9000) => Lag("g1", <<ORDERS, 0>>) \in 10 .. 15
  /\ Moment(14000) => Lag("g1", <<ORDERS, 0>>) > 15 /\ Lag("g1", <<ORDERS, 1>>) > 5
  /\ Moment(20000) => Lag("g1", <<ORDERS, 1>>) < 5 /\ AssignmentOf(state, "c3") = {}

maxPollInterval ==
  LET reader == [Manual(Consumer("c1", "g16", "latest", 6000)) EXCEPT !.rebalanceTimeoutMs = 1500,
                                                                      !.processingMs = 9000]
  IN Lesson(16, 30000, <<Topic(ORDERS, 2)>>, <<Producer("p1")>>, <<reader>>, <<"g16">>,
       <<JoinAt(0, "c1"), JoinAt(8050, "c1"), JoinAt(16100, "c1"), JoinAt(24150, "c1"),
         StallAt(1650, "c1", 9000), StallAt(9675, "c1", 9000), StallAt(17625, "c1", 9000),
         StallAt(25675, "c1", 9000)>>)

\* A consumer that beats but does not poll is thrown out, and again each time
\* it comes back.
MaxPollIntervalTold ==
  /\ Moment(7999) => IsMember(state, "c1")
  /\ Moment(8000) => state.groups["g16"].state = "Empty" /\ ~IsMember(state, "c1")
  /\ TheEnd => state.metrics["rebalances"] > 2

-----------------------------------------------------------------------------
(* durability *)

retention ==
  LET orders == [Topic(ORDERS, 1) EXCEPT !.config.segmentBytes = 300, !.config.retentionMs = 8000] IN
  Lesson(20, 30000, <<orders>>, <<Producer("p1")>>,
    <<[Consumer("c1", "g20", "earliest", 5000) EXCEPT !.rebalanceTimeoutMs = 500]>>, <<"g20">>,
    Sends("p1", Null, "r", Every(500, 500, 49)) \o <<JoinAt(25000, "c1")>>)

\* A late consumer reads what retention has left, and no more.
RetentionTold ==
  LET partition == state.partitions[<<ORDERS, 0>>] IN
  TheEnd =>
    /\ partition.leo = 49 /\ state.metrics["recordsExpired"] > 0
    /\ state.metrics["recordsConsumed"] = 49 - partition.logStartOffset

compaction ==
  LET orders == [Topic(ORDERS, 1) EXCEPT !.config.segmentBytes = 200, !.config.cleanupPolicy = "compact"] IN
  Lesson(21, 28000, <<orders>>, <<Producer("p1")>>,
    <<Consumer("c1", "g21", "earliest", 5000)>>, <<"g21">>,
    <<JoinAt(0, "c1"), Send(1000, "p1", "user-1", "v1"), Send(2000, "p1", "user-2", "v1"),
      Send(3000, "p1", "user-1", "v2"), Send(4000, "p1", "user-2", Null),
      Send(5000, "p1", "user-1", "v3"), Send(6000, "p1", "user-1", "v4"),
      Send(7000, "p1", "user-1", "v5")>>)

\* Of each key the newest stays; of one that was deleted, nothing.
CompactionTold ==
  Moment(5100) => Values(<<ORDERS, 0>>) = <<"v2", "v3">> /\ With(<<ORDERS, 0>>, "user-2") = <<>>

-----------------------------------------------------------------------------
(* advanced *)

transactionsEos ==
  Lesson(22, 30000, <<Topic(ORDERS, 2)>>, <<[Producer("p1") EXCEPT !.idempotent = TRUE]>>,
    <<[Consumer("c1", "g22-rc", "earliest", 5000) EXCEPT !.isolationLevel = "read_committed"],
      Consumer("c2", "g22-ru", "earliest", 5000)>>, <<"g22-rc", "g22-ru">>,
    <<JoinAt(0, "c1"), JoinAt(0, "c2"),
      BeginAt(1000, "p1"), SendTo(1500, "p1", ORDERS, Null, "a1", 0),
      SendTo(2000, "p1", ORDERS, Null, "a2", 1), SendTo(2500, "p1", ORDERS, Null, "a3", 0),
      EndAt(3000, "p1", "abort"),
      BeginAt(4000, "p1"), SendTo(4500, "p1", ORDERS, Null, "b1", 0),
      SendTo(5000, "p1", ORDERS, Null, "b2", 1), SendTo(5500, "p1", ORDERS, Null, "b3", 0),
      EndAt(6000, "p1", "commit")>>)

\* Who reads what is committed is given the second transaction only.
TransactionsEosTold == TheEnd => Len(handed["c1"]) = 3 /\ Len(handed["c2"]) = 6

retryDlq ==
  Lesson(23, 28000, <<Topic(ORDERS, 1), Topic("orders.dlq", 1), Topic("orders.retry", 1)>>,
    <<Producer("p1")>>,
    <<[Consumer("c1", "g23", "earliest", 5000) EXCEPT !.processingMs = 500]>>, <<"g23">>,
    <<JoinAt(0, "c1")>> \o Sends("p1", Null, "order-", <<1000, 2000, 3000, 4000, 5000>>)
      \o <<Send(6000, "p1", Null, "order-6-loi"), Send(6500, "p1", Null, "order-7"),
           Send(7500, "p1", Null, "order-8"), SendTo(9000, "p1", "orders.retry", Null, "order-6-loi", Null),
           SendTo(9200, "p1", "orders.dlq", Null, "order-6-loi", Null),
           Send(10000, "p1", Null, "order-9"), Send(12000, "p1", Null, "order-10"),
           Send(15000, "p1", Null, "order-11"), FailAt(6000, "c1", 5)>>)

\* A record that fails does not hold up those behind it.
RetryDlqTold ==
  TheEnd =>
    /\ Values(<<"orders.dlq", 0>>) = <<"order-6-loi">>
    /\ Len(Values(<<ORDERS, 0>>)) = 11 /\ Position("c1", <<ORDERS, 0>>) = 11

zeroCopy ==
  Lesson(25, 18000, <<Topic(ORDERS, 1)>>, <<[Producer("p1") EXCEPT !.lingerMs = 500]>>,
    <<Manual([Consumer("c1", "g1", "latest", 5000) EXCEPT !.processingMs = 300])>>, <<"g1">>,
    <<JoinAt(0, "c1")>> \o Sends("p1", Null, "don-", <<6050, 6150, 6250>>) \o <<CommitAt(7000, "c1")>>)

\* Three records travel as one batch and are read together.
ZeroCopyTold ==
  TheEnd =>
    /\ Len(Entries("produce", "p1")) = 1 /\ Len(Entries("deliver", "c1")) = 1
    /\ Committed("g1", <<ORDERS, 0>>) = [offset |-> 3, committedAt |-> 7000]

LESSONS ==
  { topicPartition, keyPartitioning, produceConsume, offsets, batchingLinger, partitioner,
    idempotentProducer, orderingRetries, consumerGroup, rebalance, assignors, commitStrategies,
    consumerLag, maxPollInterval, retention, compaction, transactionsEos, retryDlq, zeroCopy }

-----------------------------------------------------------------------------

\* Every lesson goes the way its tests and its narrative tell, at the moments
\* they name.
LessonsGoAsTold ==
  /\ input = keyPartitioning    => KeyPartitioningTold
  /\ input = produceConsume     => ProduceConsumeTold
  /\ input = offsets            => OffsetsTold
  /\ input = batchingLinger     => BatchingLingerTold
  /\ input = partitioner        => PartitionerTold
  /\ input = idempotentProducer => IdempotentProducerTold
  /\ input = orderingRetries    => OrderingRetriesTold
  /\ input = consumerGroup      => ConsumerGroupTold
  /\ input = rebalance          => RebalanceTold
  /\ input = assignors          => AssignorsTold
  /\ input = commitStrategies   => CommitStrategiesTold
  /\ input = consumerLag        => ConsumerLagTold
  /\ input = maxPollInterval    => MaxPollIntervalTold
  /\ input = retention          => RetentionTold
  /\ input = compaction         => CompactionTold
  /\ input = transactionsEos    => TransactionsEosTold
  /\ input = retryDlq           => RetryDlqTold
  /\ input = zeroCopy           => ZeroCopyTold
=============================================================================
