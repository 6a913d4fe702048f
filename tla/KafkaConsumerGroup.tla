--------------------------- MODULE KafkaConsumerGroup ---------------------------
(***************************************************************************)
(* The consumers of one group and their coordinator: the reducers of       *)
(* src/src/brokers/kafka/engine/index.ts for consumer-join, consumer-leave, *)
(* fetch-request, heartbeat, commit, seek, pause, resume, member-timeout,  *)
(* rebalance-complete, sync-group and consumer-stall, with fetchRecords of *)
(* consume.ts and the coordinator of KafkaCoordinator.                     *)
(*                                                                         *)
(* queue holds the events that reducers have scheduled, in the order in    *)
(* which the kernel dispatches them.  Commands of the script have sequence *)
(* numbers of their own and fall anywhere, also between two events of one  *)
(* instant.  A script only joins a consumer that is not a member.          *)
(*                                                                         *)
(* A partition is the range of offsets a read_uncommitted consumer can     *)
(* read; its offsets have no gaps.  process-done, processing errors and    *)
(* lastPollAt of a ConsumerRuntime only serve the display.                 *)
(***************************************************************************)
EXTENDS KafkaCoordinator

CONSTANTS
  Configs,             \* the configurations a behaviour may start with
  PollInterval,        \* POLL_INTERVAL_MS, in clock ticks
  HeartbeatInterval,   \* HEARTBEAT_INTERVAL_MS
  ScanInterval,        \* MEMBER_TIMEOUT_SCAN_INTERVAL_MS
  AutoCommitInterval,  \* autoCommitIntervalMs
  MaxPollRecords,      \* maxPollRecords
  SeekTargets,         \* the offsets a script may seek to
  Stalls,              \* the durations of a consumer-stall fault
  MaxCommands,         \* bound on the commands of a script
  MaxRequests,         \* how many of them may be commits, seeks, pauses and deletions
  MaxRecords           \* bound on the records of a partition

Resets == {"earliest", "latest"}

\* What the KafkaConsumerSpec of every consumer of the group says.
Config == [assignor : Assignors, autoOffsetReset : Resets, enableAutoCommit : BOOLEAN]

ASSUME ConfigsAssumption == Configs \subseteq Config
ASSUME IntervalsAssumption ==
  \A interval \in {PollInterval, HeartbeatInterval, ScanInterval, AutoCommitInterval, MaxPollRecords} :
    interval \in Nat \ {0}
ASSUME InputsAssumption ==
  /\ SeekTargets \subseteq Resets \cup Nat
  /\ Stalls \subseteq Nat
  /\ MaxCommands \in Nat
  /\ MaxRequests \in Nat
  /\ MaxRecords \in Nat

VARIABLES
  config,      \* the Config; never changed
  group,       \* the GroupState
  consumers,   \* the ConsumerRuntime of every consumer that joined and did not leave
  queue,       \* the scheduled events, next first
  partitions,  \* logStartOffset and highWatermark of every partition
  handedOut,   \* history: the offsets of each partition that some poll returned
  commands,    \* commands of the script so far
  requests     \* its commits, seeks, pauses and deletions so far

vars == <<config, group, consumers, queue, partitions, handedOut, commands, requests>>

Offsets == 0 .. MaxRecords

Init ==
  /\ config \in Configs
  /\ group = NoGroup(config.assignor)
  /\ consumers = <<>>
  /\ queue = <<>>
  /\ partitions = [p \in TopicPartitions |-> [logStartOffset |-> 0, highWatermark |-> 0]]
  /\ handedOut = [p \in TopicPartitions |-> {}]
  /\ commands = 0
  /\ requests = 0

-----------------------------------------------------------------------------
(* The queue. *)

\* An event goes behind those that are due no later: it has the largest seq.
Inserted(q, e) ==
  LET earlier == Cardinality({i \in DOMAIN q : q[i].delay <= e.delay})
  IN InsertAt(q, earlier + 1, e)

Scheduled(q, events) == FoldLeft(Inserted, q, events)

\* The next event of the queue is due and has this type.
Due(type) == queue # <<>> /\ queue[1].delay = 0 /\ queue[1].type = type

Poll(c, delay) == Event("fetch-request", delay, c, 0)
NextHeartbeat(c, generation) == Event("heartbeat", HeartbeatInterval, c, generation)
Scan == Event("member-timeout", ScanInterval, None, 0)

\* scheduleAutoCommit (offsets.ts).
AutoCommit(c) ==
  IF config.enableAutoCommit THEN <<Event("commit", AutoCommitInterval, c, 0)>> ELSE <<>>

-----------------------------------------------------------------------------
(* consume.ts *)

ResolvePosition(position, partition) ==
  CASE position # None /\ position >= partition.logStartOffset -> position
    [] OTHER -> IF config.autoOffsetReset = "earliest"
                THEN partition.logStartOffset
                ELSE partition.highWatermark

\* The partitions a poll of c looks at.
Fetchable(c) ==
  IF c \in MemberIds(group) THEN group.members[c].assignment \ consumers[c].paused ELSE {}

\* A mutant: the last record is out of reach.
ReadableButLast(position, partition) ==
  IF position + 1 < partition.highWatermark THEN partition.highWatermark - position - 1 ELSE 0

\* How many records the partition has from its position on.
Readable(position, partition) ==
  IF position < partition.highWatermark THEN partition.highWatermark - position ELSE 0

\* A mutant: the position goes on by what there was to read.
FetchRecordsPastBudget(c) ==
  LET from == [p \in Fetchable(c) |-> ResolvePosition(consumers[c].position[p], partitions[p])]
      readable == [p \in Fetchable(c) |-> Readable(from[p], partitions[p])]
      before(p) == SumFunctionOnSet(readable, Fetchable(c) \cap Before(p))
      count == [p \in Fetchable(c) |->
                  Lesser(readable[p], MaxPollRecords - Lesser(before(p), MaxPollRecords))]
  IN [ read     |-> [p \in Fetchable(c) |-> from[p] .. from[p] + count[p] - 1],
       position |-> [p \in Fetchable(c) |-> from[p] + readable[p]] ]

\* One poll.  Every partition gets its position first; then they are read in
\* order, MaxPollRecords records in all.  read gives the offsets it returns,
\* position where it leaves the consumer.
FetchRecords(c) ==
  LET from == [p \in Fetchable(c) |-> ResolvePosition(consumers[c].position[p], partitions[p])]
      readable == [p \in Fetchable(c) |-> Readable(from[p], partitions[p])]
      before(p) == SumFunctionOnSet(readable, Fetchable(c) \cap Before(p))
      count == [p \in Fetchable(c) |->
                  Lesser(readable[p], MaxPollRecords - Lesser(before(p), MaxPollRecords))]
  IN [ read     |-> [p \in Fetchable(c) |-> from[p] .. from[p] + count[p] - 1],
       position |-> [p \in Fetchable(c) |-> from[p] + count[p]] ]

-----------------------------------------------------------------------------
(* Commands of the script. *)

Counted == commands < MaxCommands /\ commands' = commands + 1

Command == Counted /\ UNCHANGED requests
Request == Counted /\ requests < MaxRequests /\ requests' = requests + 1

\* joinGroup, and the three loops of the consumer.  The scan loop starts with
\* the first member of all.
ConsumerJoin(c) ==
  LET joined == JoinGroup(group, c)
      loops == <<Poll(c, 0), NextHeartbeat(c, joined.group.generationId)>> \o AutoCommit(c)
      scan == IF MemberIds(group) = {} THEN <<Scan>> ELSE <<>>
      runtime == [position |-> [p \in TopicPartitions |-> None], paused |-> {}, stalled |-> 0]
  IN /\ Command
     /\ c \notin MemberIds(group)
     /\ group' = joined.group
     /\ consumers' = [k \in DOMAIN consumers \cup {c} |-> IF k = c THEN runtime ELSE consumers[k]]
     /\ queue' = Scheduled(queue, joined.events \o loops \o scan)
     /\ UNCHANGED <<config, partitions, handedOut>>

\* The loops of c end when they find its runtime gone.
ConsumerLeave(c) ==
  LET left == LeaveGroup(group, c)
  IN /\ Command
     /\ c \in DOMAIN consumers
     /\ consumers' = Restrict(consumers, DOMAIN consumers \ {c})
     /\ group' = left.group
     /\ queue' = Scheduled(queue, left.events)
     /\ UNCHANGED <<config, partitions, handedOut>>

\* A commit also schedules the next one, next to the loop that is running.
ManualCommit(c) ==
  /\ Request
  /\ c \in DOMAIN consumers
  /\ group' = CommitOffsets(group, c, consumers[c].position)
  /\ queue' = Scheduled(queue, AutoCommit(c))
  /\ UNCHANGED <<config, consumers, partitions, handedOut>>

SeekOffset(p, target) ==
  CASE target = "earliest" -> partitions[p].logStartOffset
    [] target = "latest" -> partitions[p].highWatermark
    [] OTHER -> target

Seek(c, p, target) ==
  /\ Request
  /\ c \in DOMAIN consumers
  /\ consumers' = [consumers EXCEPT ![c].position[p] = SeekOffset(p, target)]
  /\ UNCHANGED <<config, group, queue, partitions, handedOut>>

Pause(c, p) ==
  /\ Request
  /\ c \in DOMAIN consumers
  /\ consumers' = [consumers EXCEPT ![c].paused = @ \cup {p}]
  /\ UNCHANGED <<config, group, queue, partitions, handedOut>>

Resume(c, p) ==
  /\ c \in DOMAIN consumers
  /\ p \in consumers[c].paused
  /\ consumers' = [consumers EXCEPT ![c].paused = @ \ {p}]
  /\ UNCHANGED <<config, group, queue, partitions, handedOut, commands, requests>>

ConsumerStall(c, duration) ==
  /\ Command
  /\ c \in DOMAIN consumers
  /\ consumers' = [consumers EXCEPT ![c].stalled = duration]
  /\ UNCHANGED <<config, group, queue, partitions, handedOut>>

-----------------------------------------------------------------------------
(* Events of the queue. *)

\* The loop goes on as long as the consumer has not left, whether or not it
\* is a member and has read anything.
PollAgain(c) == IF c \in DOMAIN consumers THEN <<Poll(c, PollInterval)>> ELSE <<>>

\* A stalled consumer reads nothing and does not count as polling.
FetchRequest ==
  LET c == queue[1].consumer
      poll == FetchRecords(c)
  IN /\ Due("fetch-request")
     /\ queue' = Scheduled(Tail(queue), PollAgain(c))
     /\ IF c \in DOMAIN consumers /\ consumers[c].stalled = 0
        THEN /\ consumers' = [consumers EXCEPT ![c].position =
                             [p \in TopicPartitions |->
                                IF p \in Fetchable(c) THEN poll.position[p] ELSE @[p]]]
             /\ handedOut' = [p \in TopicPartitions |->
                             handedOut[p] \cup (IF p \in Fetchable(c) THEN poll.read[p] ELSE {})]
             /\ group' = IF c \in MemberIds(group)
                         THEN [group EXCEPT !.members[c].pollAge = 0]
                         ELSE group
        ELSE UNCHANGED <<consumers, handedOut, group>>
     /\ UNCHANGED <<config, partitions, commands, requests>>

\* The next heartbeat carries the generation of now, not of when it fires.
HeartbeatEvent ==
  LET c == queue[1].consumer
      again == IF c \in DOMAIN consumers THEN <<NextHeartbeat(c, group.generationId)>> ELSE <<>>
  IN /\ Due("heartbeat")
     /\ group' = Heartbeat(group, c, queue[1].generation)
     /\ queue' = Scheduled(Tail(queue), again)
     /\ UNCHANGED <<config, consumers, partitions, handedOut, commands, requests>>

CommitEvent ==
  LET c == queue[1].consumer
  IN /\ Due("commit")
     /\ IF c \in DOMAIN consumers
        THEN /\ group' = CommitOffsets(group, c, consumers[c].position)
             /\ queue' = Scheduled(Tail(queue), AutoCommit(c))
        ELSE /\ queue' = Tail(queue)
             /\ UNCHANGED group
     /\ UNCHANGED <<config, consumers, partitions, handedOut, commands, requests>>

RebalanceComplete ==
  LET completed == CompleteRebalance(group, queue[1].generation)
  IN /\ Due("rebalance-complete")
     /\ group' = completed.group
     /\ queue' = Scheduled(Tail(queue), completed.events)
     /\ UNCHANGED <<config, consumers, partitions, handedOut, commands, requests>>

SyncGroupEvent ==
  /\ Due("sync-group")
  /\ group' = SyncGroup(group, queue[1].generation)
  /\ queue' = Tail(queue)
  /\ UNCHANGED <<config, consumers, partitions, handedOut, commands, requests>>

\* The scan goes on as long as somebody is left.
MemberTimeout ==
  LET checked == CheckTimeouts(group)
      again == IF MemberIds(checked.group) = {} THEN <<>> ELSE <<Scan>>
  IN /\ Due("member-timeout")
     /\ group' = checked.group
     /\ queue' = Scheduled(Tail(queue), checked.events \o again)
     /\ UNCHANGED <<config, consumers, partitions, handedOut, commands, requests>>

-----------------------------------------------------------------------------
(* The partitions and the clock. *)

\* The high watermark rises by a record.
RecordAppended(p) ==
  /\ partitions[p].highWatermark < MaxRecords
  /\ partitions' = [partitions EXCEPT ![p].highWatermark = @ + 1]
  /\ UNCHANGED <<config, group, consumers, queue, handedOut, commands, requests>>

\* Retention deletes up to some offset.
RetentionDelete(p, offset) ==
  /\ Request
  /\ partitions[p].logStartOffset < offset
  /\ offset <= partitions[p].highWatermark
  /\ partitions' = [partitions EXCEPT ![p].logStartOffset = offset]
  /\ UNCHANGED <<config, group, consumers, queue, handedOut>>

Older(age, timeout) == Lesser(age + 1, timeout + 1)

Aged(member) == [member EXCEPT !.heartbeatAge = Older(@, SessionTimeout),
                               !.pollAge = Older(@, MaxPollInterval)]

\* Nothing is due: the clock goes on to the next event, tick by tick.
Tick ==
  /\ queue # <<>>
  /\ queue[1].delay > 0
  /\ queue' = [i \in DOMAIN queue |-> [queue[i] EXCEPT !.delay = @ - 1]]
  /\ group' = [group EXCEPT !.members = [m \in MemberIds(group) |-> Aged(group.members[m])]]
  /\ consumers' = [c \in DOMAIN consumers |->
                     [consumers[c] EXCEPT !.stalled = IF @ = 0 THEN 0 ELSE @ - 1]]
  /\ UNCHANGED <<config, partitions, handedOut, commands, requests>>

Script ==
  \/ \E c \in Consumers :
       \/ ConsumerJoin(c)
       \/ ConsumerLeave(c)
       \/ ManualCommit(c)
       \/ \E duration \in Stalls : ConsumerStall(c, duration)
       \/ \E p \in TopicPartitions :
            \/ Pause(c, p)
            \/ Resume(c, p)
            \/ \E target \in SeekTargets : Seek(c, p, target)
  \/ \E p \in TopicPartitions :
       \/ RecordAppended(p)
       \/ \E offset \in Offsets : RetentionDelete(p, offset)

\* What the kernel does by itself.
Kernel ==
  \/ FetchRequest
  \/ HeartbeatEvent
  \/ CommitEvent
  \/ RebalanceComplete
  \/ SyncGroupEvent
  \/ MemberTimeout
  \/ Tick

Next == Script \/ Kernel

Spec == Init /\ [][Next]_vars

\* The kernel dispatches as long as the simulation plays and something is
\* scheduled: weak fairness of Kernel, with its enabling condition written out.
FairSpec == Spec /\ ([]<>(queue = <<>>) \/ []<><<Kernel>>_vars)

-----------------------------------------------------------------------------
(* Properties. *)

Owners(p) == {m \in MemberIds(group) : p \in group.members[m].assignment}

Queued(type, c) == \E i \in DOMAIN queue : queue[i].type = type /\ queue[i].consumer = c

QueuedRound(type) ==
  {i \in DOMAIN queue : queue[i].type = type /\ queue[i].generation = group.generationId}

\* No partition is read by two members of the group at once: not between the
\* two rounds of a cooperative rebalance, where some keep what others are to
\* get, and not when members join, leave or time out in the middle of one.
OwnedByOne == \A p \in TopicPartitions : Cardinality(Owners(p)) <= 1

\* A round that is open will be closed, by exactly one event: every reducer
\* that starts a generation schedules its rebalance-complete, none that keeps
\* the generation does, and events of older generations end nothing.  And the
\* loops that a consumer-join starts live as long as they are needed: a consumer
\* that has not left polls, beats and commits, also while it stalls or when it
\* was thrown out, and as long as the group has a member its timeouts are looked
\* at, though the scan stops whenever the group is found empty.
WhatMustComeIsScheduled ==
  /\ group.state = "PreparingRebalance" => Cardinality(QueuedRound("rebalance-complete")) = 1
  /\ group.state = "CompletingRebalance" => Cardinality(QueuedRound("sync-group")) = 1
  /\ \A c \in DOMAIN consumers :
       /\ Queued("fetch-request", c)
       /\ Queued("heartbeat", c)
       /\ config.enableAutoCommit => Queued("commit", c)
  /\ MemberIds(group) # {} => Queued("member-timeout", None)

\* With auto.offset.reset = earliest and seeks only to there, a committed offset never passes over a
\* record that is still in the log and that no poll has returned, however the
\* partition moved between the consumers that committed it.
NothingCommittedUnread ==
  config.autoOffsetReset = "earliest" =>
    \A p \in TopicPartitions :
      group.committedOffsets[p] # None =>
        partitions[p].logStartOffset .. group.committedOffsets[p] - 1 \subseteq handedOut[p]

AssignmentMade ==
  IF Eager(config.assignor)
  THEN group.state # "CompletingRebalance" /\ group'.state = "CompletingRebalance"
  ELSE group.state # "Stable" /\ group'.state = "Stable"

\* When a round hands partitions out, every partition of a subscribed topic
\* gets an owner, one that subscribed to it: what members that left, timed out
\* or had to give up had is not forgotten.
AssignmentIsFull ==
  [][AssignmentMade =>
       \A p \in TopicPartitions :
         IF \E m \in MemberIds(group)' : p[1] \in Subscriptions[m]
         THEN \E m \in Owners(p)' : p[1] \in Subscriptions[m]
         ELSE Owners(p)' = {}]_vars

AllRead(p) ==
  partitions[p].logStartOffset .. partitions[p].highWatermark - 1 \subseteq handedOut[p]

\* With auto.offset.reset = earliest and seeks only to there, whoever ends up as the owner of a
\* partition it has not paused reads it to the end, whatever happened before:
\* polls that found nothing, stalls, evictions, budgets spent on other
\* partitions.
OwnedIsReadToTheEnd ==
  config.autoOffsetReset = "earliest" =>
    \A p \in TopicPartitions :
      <>[]((\E m \in Owners(p) : p \notin consumers[m].paused) => AllRead(p))
=============================================================================
