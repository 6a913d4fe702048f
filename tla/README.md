# Verification of the broker visualizer

The repository is a browser application that teaches how RabbitMQ, Redis and
Kafka behave. Each broker is a discrete-event simulator written as pure
reducers; a shared kernel dispatches their events in virtual time; a React shell
plays, pauses, steps and scrubs through a run. This directory holds TLA+ models
of those parts, model-checked with TLC, and proofs checked with TLAPS.

`PROJECT.json` lists, for every definition, the source lines it stands for; for
every run, its properties; for every property, a mutation of the code that it
detects; and the hazards of the code that the properties are for.

## 1. Inventory

Sizes are lines of implementation without tests.

| Component | Where | State | Operations | Models |
|---|---|---|---|---|
| Kernel | `src/src/shell/kernel` (240) | event heap, state, processed count | `advanceTo`, `stepOnce`, `reset` | `KernelClock`, `KernelRun`, `Kernel` |
| Random numbers | `shell/kernel/rng.ts` (22) | a 32-bit word | draw | `Word32`, `KernelRandom` |
| Playback | `src/src/shell/store.ts`, `useSimulation.ts` (420) | store, rendered values, simulation ref, view, frame loop | user actions, three effects, frames | `ShellPlayback` |
| Kafka replication | `kafka/engine/replication.ts`, `log.ts`, parts of `index.ts`, `produce.ts` | partition: leader, ISR, log, log ends, high watermark, parked acks; brokers online | broker down/up, replica lag, fetch, ISR shrink/expand, election | `KafkaPartition`, `KafkaReplication`, `CommittedLog` |
| Kafka producer | `kafka/engine/produce.ts` (717) | accumulator, retries, sequences, fault budgets | produce, flush, retry, arm faults | `KafkaProducer`, `KafkaEngine` |
| Kafka partitioner | `partitioner.ts`, `murmur2.ts` (127) | sticky choice | choose | `KafkaPartitioner` |
| Kafka transactions | `transaction.ts` (220) | open transactions, last stable offset | begin, commit, abort | `KafkaLog`, `KafkaEngine` |
| Kafka log storage | `log.ts`, `segments.ts`, `compaction.ts` (310) | records, segments, log start | append, read, roll, retain, compact | `KafkaLog`, `KafkaEngine` |
| Kafka group coordinator | `kafka/engine/group` (840) | generation, members, assignments, offsets | join, sync, heartbeat, timeout, commit | `KafkaAssignors`, `KafkaCoordinator`, `KafkaEngine` |
| Kafka consumer | `consume.ts`, `faults.ts`, parts of `index.ts` | positions, paused partitions, self-scheduling loops | join, leave, poll, process, commit, seek, pause, stall | `KafkaConsumerGroup`, `KafkaEngine` |
| Kafka lessons | `kafka/lessons` (25) | none | topologies and scripts | `KafkaLessons`: the 19 that need one broker |
| RabbitMQ broker | `rabbitmq/engine` (950) | queues, unacked tables, crash epochs, cursors | publish, route, enqueue, expire, dispatch, deliver, done, ack, nack, confirm, crash, recover | `RabbitQueue`, `RabbitBroker`, `RabbitEngine` |
| RabbitMQ routing | `rabbitmq/engine/routing` (93) | none | match, resolve | `RabbitRouting` |
| RabbitMQ lessons | `rabbitmq/lessons` (17) | none | topologies, scripts, failures | `RabbitLessons` |
| Redis server | `redis/engine/index.ts`, `memory.ts`, `expiry.ts` (750) | keyspace, clients, blocked list, replicas | command, reply, unblock, expire, snapshot, crash, restart, replicate, failover | `RedisKeyspace`, `RedisServer` |
| Redis commands | `redis/engine/commands`, `keyspace.ts` (1700) | keys, versions, memory | every command of the handler table | `RedisKeyspace`, `RedisCommands`, `RedisScripting` |
| Redis Lua | `redis/engine/lua` (470) | none | parse, evaluate | `LuaParser`, `RedisScripting` |
| Redis lessons | `redis/lessons` (17) | none | topologies, scripts, faults | `RedisLessons` |
| Validation | `*/validate.ts` (400) | none | check a topology | `Sandboxes`: RabbitMQ, Kafka |
| Sandboxes, exports | `*/sandbox`, `*/ui/editing.ts` | topology draft, script, id counter, saved draft | add, connect, configure, remove, publish, generate, save, restore, reset | `Sandboxes`; drafts as inputs of `ShellPlayback` |
| Quizzes, UI | `shell/quiz`, `shell/ui` | scores, layout | - | not modelled |

**How they interact.** A broker module builds a kernel from a topology, a script
and a seed. The kernel alone calls reducers, one event at a time; a reducer
returns a new state and new events, and never calls another broker. Within an
engine, reducers interact through the state and through the events they chain
(at the same virtual time) or schedule (later). The shell owns one simulation
and calls `advanceTo` and `stepOnce`; the store and React decide when.

**What is hard.** There are no threads and no real network. The concurrency is
that of events: timers, faults and script commands of one instant fall in an
order nobody wrote a test for, and effects that a real system performs in one
step are often two events here. Brokers and consumers crash and come back while
events that concern them are still scheduled; produce requests and their answers
are lost and retried; timers race what they time out. In the shell, a click is
seen by the store, by the render and by the effects at three different moments.

**What makes each part correct.**

- *Kernel*: no event is lost, doubled or overtaken; how callers slice time does
  not show; the event ceiling is final.
- *Playback*: what is shown while paused is a replay of the current input to the
  current time; a snapshot never meets another broker's components.
- *Replication*: the leader is in the ISR; what is below the high watermark is on
  the whole ISR, stays, and only grows; acknowledged records stay; each request
  gets one answer, of the record it is about, in the end.
- *Producer*: idempotence means once and in order, whatever is retried; success
  is never reported falsely; every send gets an answer.
- *RabbitMQ*: copies are conserved through crashes, rejections, expiry and
  overflow; what a consumer works on is what it holds, every entry has its timer; no
  wakeup is lost; requeued messages go back in front of their equals only.
- *Routing*: agrees with the definition of topic matching; each destination once.
- *Group*: no partition with two members, and none forgotten when partitions are
  handed out; every round ends; the loops of a consumer outlive stalls and
  evictions; commits pass over nothing unread; what is owned is read.
- *Transactions and storage*: readers of committed data see whole transactions or
  nothing; every reader is given each record from its start on once and in order; a
  log keeps what no policy removes; nothing that was sent vanishes in silence.
- *Redis*: the books of the keyspace balance; no client sleeps beside its data, and
  those that wait are served in turn; each command is answered once; WATCH sees every
  change; eviction keeps the budget; dead keys go.
- *Sandboxes*: nodes can be told apart, also after a reload; the script is what was
  published by hand and what the generator makes; no line ends in a removed node.
- *Lessons*: each goes the way its tests and narrative tell.

## 2. Plan

In order of importance. Steps 1 to 10 and 13 are done.

1. Kafka replication, its abstract specification and its proofs.
2. Kafka producer over replication.
3. RabbitMQ broker and routing.
4. Kernel and playback.
5. Kafka consumer group and offsets: assignors, coordinator, consumers.
6. Redis: keyspace and commands, Lua, server with blocking, transactions,
   persistence and replication, and its lessons.
7. Kafka partitioner, on 32-bit words, and the random generator.
8. Kafka transactions and log storage: `KafkaLog`.
9. The Kafka engine of one broker under the kernel's exact order, with its lessons.
10. The RabbitMQ engine with exact times and draws, refining `RabbitBroker`'s steps,
    with its lessons.
11. A cluster: the composition of `KafkaReplication` with the engine, for the six
    lessons with several brokers.
12. Proofs. Done: replication; the producer; the assignors and the group; conservation,
    wakeups, timers and routing of RabbitMQ; the kernel with its heap, playback and the
    drafts; transactions and compaction of `KafkaLog`; the keyspace of Redis. Open:
    retention and the reads of `KafkaLog`, the server of Redis.
13. The drafts of the sandboxes and what validation says of them.

## 3. The modules

### Kafka replication

`KafkaPartition` has one operator per pure function on a `PartitionState`, with
the same names (`AppendRecord`, `RecomputeHighWatermark`, `Fetched`, `ShrinkIsr`,
`ExpandIsr`, `ElectClean`, `ElectUnclean`, `Settled`). `KafkaReplication` has one
action per reducer of `index.ts` that touches replication; each ends with the
`resolveAllPendingAcks` of the code (`Resolve`). One partition is enough, as
partitions share nothing but `brokersOnline`.

- A record is the number of its produce request; keys, values, sizes, epochs of
  producers and segments are left out. A batch here is one record.
- Time is an age: `idle[r]` is the time since `lastFetchAt`, in ticks, saturating
  just past the lag bound. `Tick` waits for what is chained at the current time
  (`leader-election`, `isr-expand`).
- `copies` is a history variable: the entries each replica really fetched or
  wrote. The engine itself stores only a number per follower, so this is what
  tells "counted as replicated" from "replicated".
- `acked` and `refused` record the answers when they are scheduled; their travel
  time changes nothing.
- Interleavings are over-approximated: two events that the code always orders by
  sequence number within an instant may come in either order. Violations reported
  below were checked to be possible in the code.

- The topic's configuration (min.insync.replicas, unclean election) is a field of
  the partition, chosen at the start from `Topics` and never changed, so that one
  run and one theorem speak of both election policies.

`CommittedLog` is what all this promises: what may be read only grows at its end,
and answers are final and true. A topic with unclean election gives up the first
half (`lossy`), never the second. `ImplementsCommittedLog` states that
`KafkaReplication` implements it, with `committed` mapped to the entries below the
high watermark and `lossy` to the topic's `Unclean`.

### Kafka producer

`KafkaProducer` extends `KafkaReplication` with one producer: `Send` is
`enqueueRecord`, `BatchFlush` and `ProduceRetry` are the two callers of
`flushBatch`, whose three ends (refused, parked or acknowledged, retried) are
`FlushBatch`, `SendToLeader` and `RetryOrFail`. Replication steps interleave with
it. Since the producer numbers its sends, record k has sequence k - 1. Retry
events all have the same backoff and so fire in the order of scheduling; flush
events carry no content and are counted. `Serial` is `maxInFlight <= 1`, the only
thing the code asks of `maxInFlight`. The producer's configuration is a variable
that never changes, chosen from `Producers`. A produce request that fails is seen
at once; byte sizes, several partitions and transactions are in `KafkaEngine`.

### Kafka consumer group

`KafkaAssignors` has the four assignors as functions from what each member owns to
what it is to own. `KafkaCoordinator` has one operator per function of
`coordinator.ts`, from a `GroupState` to the next one and the events it schedules,
and `CommitOffsets`. `KafkaConsumerGroup` has one action per reducer: commands of
the script (`ConsumerJoin` to `ConsumerStall`), the events of the queue
(`FetchRequest` to `MemberTimeout`), and what happens to the partitions.

- *Time.* `queue` is the kernel's heap in dispatch order, with the delay of each
  event. A new event goes behind what is due no later. Script commands have
  sequence numbers of their own and may fall anywhere within an instant. Timeouts
  are compared with ages, which saturate just above the timeout.
- *Simplifications.* One group with equal timeouts, as in every lesson. A script
  joins only a consumer that is not a member (`coordinator.ts:210` would enter a
  member twice). A partition is the range of readable
  offsets, without gaps and for read_uncommitted. Gaps, read_committed, `process-done`, processing errors
  and unequal timeouts are in `KafkaEngine`.
- *Loops.* A consumer that leaves and comes back, or is evicted and joins again,
  gets a second set of loops next to the old one, and each manual commit adds an
  auto-commit loop, as in the code; the queue simply holds more events.
- `handedOut` is a history variable: the offsets that some poll returned.

`KafkaConsumerGroupProofs` proves what the operators of the first two give, and then
what the third keeps. `KafkaProducerProofs` has the theorems about `KafkaReplication`,
from "The producer" on those about `KafkaProducer`, and at its end those about `KafkaLog`.

### Kafka storage, transactions and the engine

`Word32` has 32-bit words as pairs of halves, since TLC's integers have 32 bits with
a sign; `KernelRandom` is `rng.ts` and `KafkaPartitioner` is `murmur2.ts` and
`partitioner.ts` on it, bit for bit, so that a key goes to the partition it goes to
in the code. `KafkaLog` has the pure functions of `log.ts`, `segments.ts`,
`compaction.ts` and `transaction.ts` under their names.

`KafkaEngine` is `createKafkaSimulation` for one broker: the state of `types.ts`,
the kernel's heap, and one action per reducer, in the exact order of events, ties
included. So a run is deterministic once the input is chosen, and what varies is the
input: `MCKafkaEngine` has families of scripts, each over the timings, limits and
policies that make its hazard occur, and `KafkaLessons` the nineteen lessons that
need one broker. `KafkaReplication`, `KafkaProducer` and `KafkaConsumerGroup` explore
the orders that no such script has.

- `sent`, `written`, `handed` and `reading` are history variables: what producers
  sent, what was ever appended, what polls returned, and from where each consumer
  reads on.
- A value is a string of the lesson's length (sizes decide flushes and segments); the
  journal keeps the entries about producers and consumers that the properties read;
  flights are left out. An infinite retry budget is `Infinity`, larger than any run.
- Partitions have one replica; replication, elections and broker faults are in
  `KafkaReplication`.
- Inputs leave out what the list of disagreements below describes: a transactional
  producer whose batches are refused while someone reads what is committed. They
  also leave out that a member joins a second time: no lesson scripts it, and
  `coordinator.ts:210` would answer it with a second entry for the member. The guard
  of `ConsumerJoin` says so, and no input is stopped by it.

`KafkaLessons` states for each lesson what the lesson tests claim of it, at the
moments they name.

### RabbitMQ

`RabbitQueue` is the two insertions of `advanced.ts`. `RabbitBroker` has one
action per reducer. The topology and the script are the record `input`, chosen at
the start from `Inputs` and never changed; routing keys and headers appear only
through `Hits`, the table of destinations of each exchange, whose
computation `RabbitRouting` models and checks by itself.

- *Time.* `later` is the bag of events with a delay, `urgent` the queue of events
  scheduled for the current instant, in order. The kernel first dispatches what
  was already due at an instant, then what these chain (`chaining`). All delays
  that the engine uses are positive, which `fresh` makes precise for TTL timers.
- *Simplifications.* `redeliveryCount` matters only as zero or not, the
  round-robin cursor modulo `Cycle` (a multiple of all the counts of consumers it
  is reduced by). A reply beyond `MaxMessages` is not published. The x-death
  trail, the travelling dots and metrics that nobody reads are left out, as are
  per-message expirations (no script or sandbox sets one) and the `dead-letter`
  and `retry` reducers that nothing schedules.
- `CrashRacesAck` lets a crash fall into the instant in which its consumer
  finishes. It is a real schedule and makes the code ack a message twice; the
  input `Racing` has it, to see that no copy is lost all the same, and the others
  exclude it, to see that otherwise the accounting is exact.
- `made`, `acks`, `drops` and `confirms` count copies per message; the engine has
  the totals only.
- `NoStrandedMessage` speaks of the queues whose consumers all acknowledge by hand
  (`ByHand`): a crash of an auto-ack consumer requeues nothing and so wakes nobody
  (`advanced.ts:95`, below). What it asks for is work `InHand` that will end in an ack
  or a nack, and so in a dispatch of the queue.

`RabbitTypeProofs` proves what the operators give, the types, and what routing
computes; `RabbitBrokerProofs`, on top of it, what `RabbitBroker` keeps.

`RabbitRouting` has `MatchTopic` as the table that `topic.ts` fills, and
`ResolveDestinations`; `MCRabbitBroker` compares them with independent
definitions (`RoutingIsRight`): a pattern covers a key if the key can be cut into
pieces that the words of the pattern cover. The empty key has no words while the
empty pattern has one, the empty word, as in `topic.ts`; a direct exchange compares
them as strings (`AsPattern`), so a message without a key goes where a binding
without one leads, which the run checks too (`EmptyKeyIsDirect`).

`RabbitEngine` is `createSimulation`: it superposes on `RabbitBroker`'s actions what
that module leaves open. `run` holds the kernel's heap and batch, the sequence
counter, the generator and the journal; a step takes the event the kernel would
take, requires the action of `RabbitBroker` that reduces it, and requires of its
choice that it is the one drawn (`AsDrawn`). The new events are read off the change
of `later` and `urgent` and get their times: travel, processing with jitter, TTL, and
the confirm, slow for a persistent message in a durable queue. Hence each step of
`RabbitEngine` is a step of `RabbitBroker`, and an invariant of the latter's `Next`
covers these runs too. Seed events are numbered from zero like the engine's own, so
numbers overlap and the heap decides ties. A run goes on for `durationMs + 30000`, as
in the tests. Rates are tenths: the lessons use no others.

`RabbitLessons` has the seventeen lessons; `HelloWorldTold` compares the whole
journal of the first one, and the others what their tests and narratives tell. One
more script (`priorityCrash`) crashes the worker of the priority queue.

### Redis

`RedisKeyspace` is `keyspace.ts`, `memory.ts` and `expiry.ts`: lazy expiry, versions,
eviction under six policies, accounting. `RedisCommands` has an operator for every
handler except EXEC and EVAL; `LuaParser` is `parse.ts` from tokens, and
`RedisScripting` the evaluator with its calls back into commands, EXEC and EVAL.
`RedisKeyspaceProofs` extends `RabbitTypeProofs` for its lemmas about sums only.
`RedisServer` has one action per reducer, on the kernel heap.

- `answers` (the replies of each command) and `changed` (the watched keys whose data
  changed) are history variables.
- A slot of a script offers a set of commands; the choice is made when it fires.
- Numbers are integers of a small range with a table of numerals, globs and hash
  slots are tables, the lexer is left out (scripts are tokens), flights and the key
  statistics of the display are left out.
- Inputs leave out: pushes by EXEC or EVAL while somebody waits, BLPOP inside MULTI, a
  crash with BLPOP or WATCH under way, EXEC that mixes CONFIG and growth, negative
  EXPIRE, a `for` with step zero, scripts that call EVAL or EXEC. The first ones are
  disagreements told below.

`RedisLessons` has the seventeen lessons with the replies they tell.

### Kernel and playback

`KernelClock` is the binary heap; its sifts, and the loop of `run`, are given by
`Loop`, which turns a state until it ends or a bound on the turns is reached.
`KernelRun` is `createKernel` and `run`: a simulation is a record, `AdvancedTo` and
`SteppedOnce` are the calls on it. Broker reducers are reduced to what the kernel
sees: one journal line and a fixed list of spawned events per kind. Scripted events
are numbered by a counter of their own that starts at zero like the state's, so
(at, seq) is not unique, and the comment at `run.ts:43-46` ("with a higher seq") is
not exact; `EachEventOnceInOrder` and `SlicingDoesNotMatter` hold all the same. `Kernel` is one
simulation under arbitrary calls.

`ShellPlayback` composes `KernelRun` with the store and the hook. `simRef` is the
simulation the hook holds, `store` is the store, `rendered` what the latest render read from it, `effected` what the effects
last ran for; an effect is due when its dependencies differ between the two. React
is external: store updates go through `useSyncExternalStore`, which React 19
renders synchronously, with effects flushed before the next browser event. That
is `deferred = FALSE`. `deferred = TRUE` (the model starts with either) lets clicks
and frames come in between, the case the comments of the hook guard against for a
broker switch: `SnapshotMatchesBroker` holds in it too. In that case a step between
a seek (or a lesson switch) and its effects does move the old simulation; this is
listed as a hazard and not as a finding, as React does not schedule it so.

### Sandboxes

`Sandboxes` has the stores of both sandboxes (`sandboxStore.ts`, `kafkaStore.ts`; Redis
has none), with one action per store operation, enabled as the panels and the canvas
enable it, and both `validate.ts` as the sets of their issues. A behaviour is about one
of the two. `rabbitIds` and `kafkaIds` are the counters in module scope, which a
reload (`ClosePanel`) sets back while `saved`, the local storage, stays; `OpenPanel` is the
effect that restores it. `MCKernel` checks these behaviours next to the kernel's,
with which they share nothing. Routing keys, positions, types and
limits of nodes are left out. `DraftsStayWhole` allows three errors of a RabbitMQ
draft, which the user sees and repairs: a consumer or a dead-letter exchange whose other
end was removed or never chosen, and a line drawn from an exchange to a consumer,
which `onConnect` makes a binding to a queue that is not there.

## 4. The runs

| Run | Expect | What it shows |
|---|---|---|
| `replication` | pass | leader in ISR, parked requests keep their record, under both election policies; with unclean election off committed and acknowledged records stay; the partition implements `CommittedLog` |
| `replication_loops` | pass | a stable broker rejoins the ISR when it has a fetch loop |
| `producer` | pass | log order is send order, one place per record, no false success, pipelined sends are answered |
| `group_rebalance` | pass | one owner per partition, one closing event per round, loops that never stop, full assignments, under each assignor |
| `group_reading` | pass | nothing is committed unread, what is owned is read to the end |
| `kafka_log` | pass | transactions are read whole or not at all, readers miss nothing and get nothing twice, logs keep what no policy removes, nothing sent vanishes; the one-broker lessons go as told |
| `rabbit` | pass | accounting of copies with the work under way, wakeups, timers, that messages settle; topic matching and destination lists against their definitions |
| `rabbit_lessons` | pass | the lessons go as told, with exact times, confirms and draws |
| `kernel` | pass | slicing does not matter, nothing is stranded, doubled, or dispatched past the ceiling; drafts stay whole |
| `playback` | pass | a paused view is a replay, no snapshot meets the wrong broker, a playing lesson comes to a pause |
| `redis` | pass | books, sleepers, replies, turns, WATCH, budget and expiry; the lessons end as told |
| `redis_replica_ahead` | violation | a crash of the primary leaves a replica ahead of it |

The violation is a disagreement between the code and its own comment; it is a
finding in `PROJECT.json` with the sentence it contradicts.

**Other disagreements met.** These were seen in earlier forms of the models. They
have no run of their own:

- `replication.ts:227`: after an unclean truncation `expandIsr` compares the longer
  log end it remembers of a former replica with the new, shorter one and admits it
  without a fetch, against `replication.ts:212-214` (only one that "has caught up
  completely"). Records below the high watermark are then missing on an ISR member.
- `replication.ts:348`: the truncation leaves `producerState`, so the resend of a
  lost record is taken for a repetition and acknowledged with success, against
  `replication.ts:359` ("acks=all never lies").
- `consume.ts:38-47`: a poll never looks at what the group committed. A consumer
  that joins starts at `autoOffsetReset`, one that regains a partition at the
  position it had, and its next commit may put an older offset over a newer one;
  lesson 14 (`14-commit-strategies.ts:57`) calls the committed offset the only
  number that decides where a consumer starts again. Lesson 05 (line 96) admits the
  gap.
- `assignors.ts:114`: the quota of a sticky assignment is a ceiling, so with four
  partitions of which two members keep two each, a third gets none, while
  `assignors.ts:105-107` says the spread stays within one of balanced.
- `coordinator.ts:438`: a member evicted while an eager round completes takes its
  partitions with it; the group is Stable and nobody reads them until the next round.
- `index.ts:712`, `index.ts:953`: the loops of a consumer are not started "exactly
  once", nor does a manual commit restart the clock: both add a parallel loop.
- `index.ts:488`: a broker that led every partition at the start has no fetch loop
  and never rejoins after a failover, while `index.ts:1227-1229` counts on its
  "next rescheduled fetch". (`KafkaReplicationLoops.cfg` with `Fetchers` cut to the
  other broker.)
- `produce.ts:459`: an offline leader fails a request at once whatever the retry
  budget; the design (`2026-08-25-responsive-and-kafka-design.md:445`) says it is
  retried.
- `produce.ts:460`: the batch so dropped has used its sequence numbers, so an
  idempotent producer is out of order ever after.
- `delivery.ts:135`: an ack that a crash overtook within an instant still counts.
- `delivery.ts:145`: two copies of one message at one consumer are released by one
  ack; a crash then loses the other.
- `delivery.ts:189`, `advanced.ts:56`: what is requeued gets no TTL timer and is
  not counted against `maxLength`.


Kafka, answers:

- `replication.ts:304`: a clean election may pick an ISR member whose recorded log end
  is behind the one log of the partition. As a leader never fetches from itself, its
  log end stays there until the next append; the high watermark cannot pass it, and an
  acks=all request parked above it is never answered although every broker is up. The
  comment at `produce.ts:669-670` says a parked request "eventually resolves, never
  hangs".
- `produce.ts:417`: with `maxInFlight <= 1` a batch that is resent from its snapshot
  after a lost answer, and fails again, is rescheduled without its records, and so
  neither retried nor answered. The comment at `produce.ts:407-412` wants the snapshot
  kept whatever `maxInFlight` is.

Kafka, transactions and storage:

- `index.ts:181`: a retry drops `txnId`, while `types.ts:229-238` says it is fixed when the
  record is sent, whatever lingers or is retried. The resent record is outside its
  transaction, and is read even when that is aborted.
- `transaction.ts:100`: records that wait in the accumulator when their transaction ends
  land after its marker and pin the last stable offset; `transaction.ts:96` says a
  transaction never ends by halves (of its partitions).
- `transaction.ts`, `beginTransaction`: a second begin replaces an open transaction
  without ending it.
- `consume.ts:216`: over the gaps of a compacted log the position trails, and records
  are delivered again.
- `compaction.ts`: does not look at transactions, so an aborted record may replace a
  committed one; it leaves the byte counts of segments as they were.
- `segments.ts`: retention by age goes by the creation of a segment, and can delete a
  young record; a roll by age is replayed from the second record of the open segment.

RabbitMQ:

- `sandboxStore.ts:65`: the counter is lifted above the ids of the restored nodes, not above
  those that the restored script still names. A node that is removed, then saved and
  restored, may give its number to a new node of its kind, which then receives what was
  published to the old one.
- `advanced.ts:95`: a crash wakes others only when it requeued something. With auto-ack
  it never does, and a message may wait beside an idle consumer, which the comment at
  `advanced.ts:90-94` names as what must not happen.
- Lesson 08 says that a greedy consumer works one message after the other; the engine
  works on all it holds at once (`delivery.ts:102`). Lesson 07 says auto-ack
  acknowledges at delivery; the engine does when the work is done.

Redis:

- `index.ts:317`: pushes inside EXEC and EVAL wake nobody, against the comment at
  `index.ts:313`; a client on BLPOP sleeps beside a full list.
- `expiry.ts:36`: the cycle samples from the head of `keyOrder`, so a dead key behind
  the sample may never be looked at, while `expiry.ts` says a later pass "finally
  removes it".
- SCAN's cursor is an index: a deletion behind it makes it skip a surviving key,
  against lesson 07 (`07-scan.ts:48`).
- What an unblock or the expire cycle writes is replicated only with the next command.
- BLPOP inside EXEC parks, and is answered twice.
- `index.ts:372`: "LPOP always pops a real element here": `nextWakeable` ignores expiry.
- A crash takes versions back, so WATCH may miss a change over it; a second WATCH
  refreshes the first; a watched key whose deadline passes without an access is not
  seen by EXEC.
- LPUSH, RPUSH, HSET, SREM and HDEL drop the TTL of their key.
- `primaryDown` is never read: commands are served by a primary that is down.

**Bounds.** Replication: three replicas are the least with a leader, a lagging and
a caught-up follower, and min.insync.replicas 2 the least that the ISR can fall
below while it has a leader; two records tell a lost record from its successor at
the same offset; three faults allow a failover, a lag and a second failover. The
theorems below drop these bounds. Lag bound 0 makes one tick enough to expire a
replica; ages beyond it are indistinguishable to the code. Liveness is checked on
two replicas, two records and two faults. Producer: three records in batches of
two make one batch wait, one be retried and one overtake; two armed faults fail an
attempt and lose an answer, or fail twice; budgets of one and two retries are both
used up. RabbitMQ: three messages against prefetch 1 and 2 fill every slot and
leave one waiting; one crash per consumer suffices for a stale event, which the
second life already sees; the inputs with rejections have two messages and the
retry cycle one message in two copies, as such messages travel without end.
Group: three
consumers are the least where one joins or leaves while partitions change hands
between two others, and three commands let each join, or one stall or leave in the
round of another; two topics with different subscribers tell the assignors apart;
all intervals are one tick and the windows and timeouts one or two, so that every
scan, heartbeat and commit can meet every phase of a round; a stall of three ticks
outlasts the poll interval. The reading run has two partitions of one record and a
poll of one record, so that one partition starves the other. Routing: patterns and
keys of up to four words, three bindings. Kernel: scripts of
three events at two times with kinds that fan out, loop in an instant and tick; a
ceiling of eight that both loops reach, a journal cap that is exceeded. Drafts: nine
clicks, three ids, two messages by hand and a generator of two, enough to build, save,
reload and build on (six clicks), or to bind two nodes and remove one (five). Playback:
three clicks, enough to open, seek or play, and step, with frames between. Clock
targets are at most `MaxTime`. `kafka_log`: 19 lessons and 208 bench inputs, which vary
the linger, batch, retry and poll sizes, the time at which a transaction ends (before,
with and after its flush), the policies of segments and the times of joins and
leaves; a reader of each isolation level, up to three members, two producers. A
lesson is taken to the time its tests use. `redis`: at each slot every listed command,
with two to four clients, each at most a handful of commands; budgets of a few keys
so that each write evicts. `rabbit_lessons`: one run per script, to 30 seconds past its
duration, by when nothing but the retry cycle of lesson 13 is still moving.

`CHECK_DEADLOCK FALSE` is set where the system really stops: when every message is
settled and the script is used up, or the patterns, keys and binding lists have
reached their lengths (RabbitMQ), when a run has reached its end (`rabbit_lessons`,
`kafka_log`, `redis`), when the user has clicked enough
and nothing plays (playback), when every consumer has left and the script is
used up (group), or when the user has clicked enough in a sandbox (kernel). The other
Kafka runs check deadlock.

**Fairness.** `KafkaReplication`: the kernel dispatches every event it holds, so
the self-rescheduling fetch and scan loops, the elections and the clock are weakly
fair; script commands and faults are not. `KafkaProducer`: as long as a flush or a
retry is scheduled, one fires (weak fairness of `BatchFlush \/ ProduceRetry`; the
replication steps carry none, and the answers checked do not need them).
`KafkaConsumerGroup`: as long as an event is scheduled, the kernel dispatches it or
the clock moves on to it; this is weak fairness of `Kernel` with its enabling
condition, a non-empty queue, written out, which TLC evaluates much faster. Script
commands and appends are not fair. `RabbitBroker`: as long as an event is scheduled, one fires (`Kernel`); nothing is
assumed of which. Recovery of a crashed consumer comes from the script and is not
fair, hence the premise `<>[](crashed = {})` of `EveryMessageSettles`. Playback:
React and the browser do not stop together while a render, an effect or a frame is
due (`Browser`).

## 5. The proofs

Eight modules hold proofs. Each theorem is for every value of the constants: any set of
replicas, consumers, queues or partitions, any number of records and messages, every
topology and configuration of the sets the constants name. Where a theorem has a
hypothesis besides the named assumptions of the modules, it is in its statement, and told
below with what goes wrong without it.

| Module | Theorem | States |
|---|---|---|
| `KafkaProducerProofs` | `TypeCorrect` | `Spec => []TypeOK` |
| | `LeaderStaysInIsr` | `Spec => []LeaderInIsr` |
| | `EachRequestAnsweredOnce` | `Spec => []AnsweredOnce`, which no run checks |
| | `ParkedRecordStaysInLog` | `Spec => []ParkedRecordInLog` |
| | `CommittedOnEveryIsrMember` | `Spec => []CommittedIsReplicated` |
| | `AckedNeverLost` | `Spec => []AckedIsCommitted` |
| | `HighWatermarkOnlyRises` | `Spec => HighWatermarkNeverRegresses` |
| | `ReplicationImplementsCommittedLog` | `Spec => ImplementsCommittedLog` |
| | `ProducerTypeCorrect` | `ProducerSpec => []TypeOK` |
| | `OneRecordOnePlace` | `ProducerSpec => []OnePlaceAtATime` |
| | `SendOrderKept` | `ProducerSpec => []LogIsSendOrder`, no unclean election |
| | `AcknowledgedIsStored` | `ProducerSpec => AcksNeverLie`, no unclean election or no idempotence |
| | `VerdictsAreFinal` | no append and no recomputation moves the last stable offset back, or changes what read_committed shows below it |
| | `TransactionsAreWhole` | what read_committed shows of a transaction below the last stable offset is all or nothing, and only if it was committed |
| | `CompactionIsSafe` | compaction removes only what is replaced or deleted, and no verdict changes |
| `KafkaConsumerGroupProofs` | `AssignSharesOut` | each assignor gives each partition of a subscribed topic to one subscriber, and no other partition |
| | `GroupTypeCorrect` | `Spec => []OwnersOK` |
| | `NeverOwnedByTwo` | `Spec => []OwnedByOne` |
| | `NothingIsForgotten` | `Spec => []WhatMustComeIsScheduled` |
| | `HandedOutInFull` | `Spec => AssignmentIsFull` |
| | `NothingIsSkipped` | `Spec => []NothingCommittedUnread`, every seek to the earliest offset |
| `RabbitTypeProofs` | `RabbitTypeCorrect` | `Spec => []TypeOK` |
| | `TopicMatchingIsCovering` | `MatchTopic` finds a match exactly if the words of the pattern cover the key |
| | `DestinationsAreRight` | the destinations of a message are those of its matching bindings, each once, in the order of the bindings |
| `RabbitBrokerProofs` | `NoMessageIsStranded` | `Spec => []NoStrandedMessage` |
| | `TimersHold` | `Spec => []EveryEntryWillExpire`, `NothingPutBack` |
| | `EveryCopyIsKept` | `Spec => []EveryCopyAccounted`, `OneAtATime` or `NoForks` |
| `RedisKeyspaceProofs` | `KeyspaceIsSound` | no read, write, eviction, deletion or expiry upsets the books of the keyspace or hides a change from its versions, and no write exceeds the budget |
| `KernelProofs` | `SlicingIsCorrect` | `KernelSpec => []SlicingDoesNotMatter` |
| | `DispatchIsCorrect` | `KernelSpec => []EachEventOnceInOrder` |
| | `PausedViewIsCorrect` | `PlaybackSpec => []PausedViewIsReplay` |
| | `SnapshotIsCorrect` | `PlaybackSpec => []SnapshotMatchesBroker` |
| | `DraftsAreWhole` | `SandboxSpec => []DraftsStayWhole` |

**Replication.** The only assumptions are the named ones of the modules: the constants
have their types and the set of replicas is not empty. The topic may have either election
policy; `CommittedIsReplicated`, `AckedIsCommitted` and `HighWatermarkNeverRegresses`
speak of the topics without unclean election, which is a condition in the property
and not an assumption of the proof. It cannot be dropped: what an
unclean truncation can lead to, a member of the ISR without the records below the high
watermark, is what `CommittedIsReplicated` excludes.

The argument has three layers, each an inductive invariant relative to the ones
before.

1. `LedOK`: the types and the leader's membership together. Neither is inductive
   alone: the high watermark is a number because the ISR it is the minimum of is
   not empty, and that is because the leader is in it.
2. `AnsweringOK`: parked requests point at entries of the log, their records are
   distinct from each other and from every answered one, no answer exceeds the
   last request, and the two kinds of answers are disjoint. `AnsweredOnce` and
   `ParkedRecordInLog` follow. Unclean elections are covered: the truncated part
   of the log takes its parked requests along.
3. `CleanOK`, without unclean election: the log has one entry per offset below its
   end; no replica is recorded beyond the end; the high watermark is below each ISR
   member's log end; what is below a replica's log end is in its copy; and
   acknowledged records are below the high watermark. The step lemma `CleanStep`
   also yields `Advances`, which relates the partition before and after a step and
   gives the action property and the refinement; where the topic is unclean,
   `lossy` takes its place.

Each layer has lemmas for the operators of `KafkaPartition` (the `...Led`,
`...Sound` lemmas) and one case per action. The refinement follows from `CleanStep`
and `AnswersStand`: each step is a step of `CommittedLog` or leaves its variables
alone.

**Producer.** Four layers over `LedOK`.

1. `TypedOK`: the types of the producer's variables.
2. `PlacesOK`: the records that are answered, parked, accumulated and in each
   retry are disjoint, each of these holds a record once, and none is beyond what was
   produced. This is `OnePlaceAtATime` and more: that two retries share no record is
   not in the property but needed for it.
3. `LoggedOK`: every entry of the log is below its end and was produced.
4. `OrderOK` for idempotent producers: the last sequence that the partition
   remembers is its log end less one, and the log is exactly the records 1 to
   that end. For producers with one request in flight: the records
   still to be written for the first time all come after those in the log. `TruthOK`:
   what the sequence check would take for a repetition is in the log, which is what
   makes an acknowledgement of a repetition true.

Without the hypothesis an unclean election cuts the log but not the remembered
sequences (`replication.ts:385`): the next record of an idempotent producer lands
behind a hole, and a resend of a lost record is acknowledged as a repetition. A producer
that is not idempotent has no such memory, hence the second case of
`AcknowledgedIsStored`.

**Group.** `AssignSharesOut` rests on an invariant per assignor of what has been given
after i turns of its loop: for the sticky two, that what members keep is
disjoint and that what is left over goes to whoever has least. `GroupTypeCorrect` carries
the apartness of the members' partitions together with the types (`OwnersOK`), since
the cooperative protocol computes the next owners from the present ones and is only
right when these are apart; `NeverOwnedByTwo` is its corollary.
`NothingIsForgotten` has two invariants: how many events of the open generation that
could close the round are in the queue; and that every consumer that needs a loop has an
event of it in the queue (`LoopsOK`). Both are kept because the queue, whatever the
delays, only loses its head and gains what is scheduled, which is proved of its
insertion. `HandedOutInFull` applies `AssignSharesOut` to the step that hands out.
`NothingIsSkipped` (`ReadOK`): whatever is still in the log below a committed offset was
handed out, and so was whatever is below the position of any consumer; the second half
is what makes the first inductive, since a commit copies a position. The property
itself speaks of `autoOffsetReset = earliest`; the theorem also assumes that seeks go
there (`SeekTargets`), for a seek to the latest offset is a wish to skip.

**RabbitMQ.** `TypeOK` here is that of `RabbitTypeProofs`, as every later step
needs to know that `later` is a finite bag of well-formed events.

- `NoMessageIsStranded` follows from two invariants that hold also within an instant.
  `WorkOK`: work, acks and nacks are for the queue that their consumer reads, and in a
  life that it has begun. `AttendedOK`: if a queue is not empty and some consumer could
  take its head, a dispatch, ack or nack of this queue is due in this instant, or a
  consumer of it is at work on a message that it still holds. That it holds the message
  is not in the property: without it the ack at the end of the work might be ignored
  and wake nobody.
- `TimersHold`: the number of timers of a message, queue and stay is at least that of
  its entries (`TimersOK`). Enqueueing adds one to both and an expiry takes one
  off both; overflow, delivery and dead-lettering take off entries only. Putting a
  message back adds an entry alone (`delivery.ts:189`, `advanced.ts:56`), so without
  `NothingPutBack` (no consumer of a queue with a TTL requeues rejected
  messages or crashes) the property is false.
- `EveryCopyIsKept`: `CopiesOK` has the accounting itself with the copies that
  consumers hold, under way, queued, acknowledged and dropped (`KeptOK`), and that
  each message is held as often as it is being worked on or settled (`HandledOK`), which
  links it to the copies that `EveryCopyAccounted` counts. Sums over queues and consumers
  change by one summand, counts over a bag by the events fired and scheduled; the
  first parts of `RabbitTypeProofs` are lemmas about both.
  The hypothesis says of each input that its consumers take one message at
  a time (`OneAtATime`) or that it makes no second copy of a message (`NoForks`: no
  exchange sends a message two ways, and no crash overtakes an ack). Of the inputs of
  the run `rabbit` all but `Racing` meet it. Without it a release, which goes by
  the number of the message (`delivery.ts:145`), takes two copies off a consumer,
  and a crash of that consumer then loses one.

**Storage and transactions.** The theorems are about the functions of `log.ts`,
`compaction.ts` and `transaction.ts`, for every log that is `WellKept`: offsets rise and are
below the log end, markers have no key, and the last stable offset has passed neither
the log end nor a record whose transaction has no marker. A new partition is so,
and appends, recomputations and compactions keep it so, hence any sequence of
these does. (Every partition of every state of the run `kafka_log` is, with retention;
TLC was asked once.) The reason for `VerdictsAreFinal` is in the last clause: a record below
the last stable offset is outside transactions or has its marker, and the engine marks
only a transaction that has none yet (`partitionHasOpenTxnRecord`), so no later marker can
name it. Compaction keeps every marker because markers have no key; that it may
remove a record for the sake of an aborted one (above) is not excluded.
`CompactionBoundary` is the first entry not older than the open segment, as `findIndex`
finds it. Retention and reads go through `SelectSeq`, of which the provers know
nothing.

**RabbitMQ, routing.** `RoutingIsRight` compares routing with its definition over all
patterns, keys and lists of bindings up to the bounds of its run; the two theorems drop
the bounds. That a pattern covers a key up to a place satisfies the recurrence by
which `matchTopic` fills its table; a place where the two differ would have a least
sum of row and column, and there is none. The destinations are a fold over the
bindings, with `CollectedSoFar` as what its first i turns have made.

**Redis keyspace.** `KeyspaceIsSound` is about the functions of `keyspace.ts`, `memory.ts` and
`expiry.ts`, for every keyspace that is `KeyspaceOK`: `keyOrder` lists the keys that are
there, each once; the metrics have their number and the sum of their sizes, each the size of
its value; and versions are numbers. An empty keyspace is so (`EmptyIsSound`), and
TLC was asked once whether every keyspace of the run `redis` is. Each function keeps
it, and every change that a client may see of a key raises its version, which is what EXEC
goes by after WATCH. The argument has two relations: a key goes, with its bytes (`Lost`),
and a record is stored, the metrics going up by the difference (`Gained`). Each moves the
sum by one summand; evictions and the passes of the expire cycle are folds of the first.
For the budget, what the victims take is compared with what is over. By rank: every
place of the order is taken by one candidate, since the candidates before a candidate
have all the smaller places; and the prefix is long enough or everything is taken.
At random: what is drawn leaves the pool, so it is not counted twice. Either enough is
freed or the write is refused. That the key itself is no candidate (`Others`) is what keeps
the sum right when it grows, and is needed. The only hypotheses are that sizes are
natural numbers, deadlines integers and the sample of the expire cycle a number.
This is the core of `BooksBalance`, `WatchSeesEveryChange` and `GrowthWithinBudget`; which of
these functions a command calls is left to TLC.

**Kernel.** `KernelInv` has two halves. `Orderly`: the heap is in heap order, nothing in it
is before a line of the journal, and dispatched and pending events together are as
many as were scheduled. It rests on the two sifts, which keep the events of the
heap and mend the one place that is out of order, so that `PopDue` gives what is due in
the order of time; `DispatchIsCorrect` follows. The other half is
`SlicingDoesNotMatter` itself with the fact that nothing due by `reached` is left: a
run to an earlier time followed by one to a later time does what the later run alone does, since
the loop of the second goes on where that of the first stopped. All this is for any
script, any finite list of spawned events per kind and any ceiling.

**Playback.** `PlaybackInv` says that the hook's simulation is, at its own time, what a fresh
one of the same input would be (`Held`), that the view was drawn from it by its
broker, and, where React reacts at once, that what was rendered is either what the
effects last ran for or the store itself, with a simulation that is not ahead of the
store (`NotBehind`). TLC checked it on the states of the run `playback` before it was
proved. When nothing is due all agree, which is `PausedViewIsReplay`.

**Drafts.** `SandboxInv` has one half for each sandbox. RabbitMQ: the ids of each list
are distinct and do not exceed the counter, what is saved is whole for some counter, the
ends of every binding are there, and the script is what `Merged` makes of the manual
messages and the generator. The last needs that merging by ranks gives a sorted
permutation. Kafka: producers and topics never go, so what the script and the
subscriptions name stays. `SandboxAssumption` gives the bounds their types and asks
nothing else. The theorem speaks of any number of edits, rates and restores.

**Technique.** A theorem with an operator as a parameter is stated in a module that
takes the operator as a constant, and used through an instance: `LeftFold` for
`FoldLeft`, with the invariant of its turns, and `Loops` for `Loop`, likewise. So the
loops of the assignors, the restoring of crashed work and the evictions, which the models
write as folds, can be proved about for inputs of any length. Induction is over sets
of numbers (`EveryNumber`), from the well-foundedness of their order. Sums and minima
over sets are proved in the same way, from the recursive function that defines them.

**Only model-checked.**

- Liveness: `StableReplicaRejoins`, `PipelinedSendsAreAnswered`,
  `OwnedIsReadToTheEnd`, `EveryMessageSettles`, `PlayingEnds`; fairness and
  `ENABLED` are out of reach of the provers.
- The Redis server: `BooksBalance`, `SleepersAreWatched`, `EachCommandOnce`,
  `WatchSeesEveryChange`, `DeadKeysGoWithinACycle`, `WaitersInTurn`, `GrowthWithinBudget`,
  `LessonsEndAsTold`, of which only the part of the keyspace is proved. A script may run any command, so what a step of the server does
  depends on the Lua parser and evaluator, which are recursive over programs; the
  provers do not accept recursive operators.
- The lessons (`LessonsRunAsTold`, `LessonsGoAsTold`): these speak of finitely many given
  scripts, where running them is the proof. What holds of `RabbitBroker` for every
  topology holds for those of the lessons, whose steps are steps of it.
- `KafkaEngine` as a whole: `ReadCommittedIsStable`, `ReadWithoutGaps`, `LogAsKept`,
  `NothingSentIsLost`. The first and the third are proved of the functions that the engine is
  built from, save retention and segments.
- `RoutingIsRight` as it stands, since it speaks of the bounded inputs of its run; the
  theorems that hold for all inputs are above.

## 6. What is not modelled

- A Kafka cluster as a whole: `KafkaReplication` has one partition over several brokers
  and `KafkaEngine` several partitions on one, and the six lessons with brokers, acks,
  replication, failover and sizing need both at once. Every reducer is in one of them.
- The lexer of Redis Lua and the parts of commands that only the display reads.
- RabbitMQ's per-message expirations and x-death trail, which no script uses, and the
  two reducers that nothing schedules.
- The validation of a Redis topology, exports and generated code: pure conversions and
  messages.
- Quizzes: pure scoring. The user interface renders snapshots; what it does to a
  simulation is in `ShellPlayback`.
