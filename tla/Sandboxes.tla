------------------------------- MODULE Sandboxes -------------------------------
(***************************************************************************)
(* The drafts of the two sandboxes: sandboxStore.ts of RabbitMQ and        *)
(* kafkaStore.ts, with the edits that their panels and canvases make, and  *)
(* the validation of what comes out of them.                               *)
(*                                                                         *)
(* The stores share nothing, so a behaviour is about one of them.          *)
(* Positions, labels, types and limits of nodes, routing keys (and with    *)
(* them updateBinding) and bodies of messages are left out.                *)
(***************************************************************************)
EXTENDS Integers, Sequences, FiniteSets, SequencesExt

CONSTANTS
  MaxId,          \* bound: how far the ids are counted
  MaxEdits,      \* bound: what the user does
  MaxPublished,   \* bound: messages published by hand
  Times,          \* the virtual times at which the user publishes
  Rates,          \* the generator's rates per second, 0 among them
  Second,         \* the length of a second
  HorizonSeconds, \* GENERATOR_HORIZON_S
  TopicNames,     \* the names that topics are given
  Counts          \* the numbers of partitions and replicas that are typed in

ASSUME SandboxAssumption ==
  /\ Rates \subseteq Nat /\ Second \in Nat /\ HorizonSeconds \in Nat
  /\ Times \subseteq Nat

VARIABLES
  broker,   \* whose sandbox this behaviour is about, or "none"
  draft,    \* the RabbitMQ store
  rabbitIds, \* the ids its module has counted
  saved,    \* what localStorage holds
  open,     \* whether the panel is mounted
  cluster,  \* the Kafka store
  kafkaIds, \* the ids its module has counted
  edits    \* history: how much the user has done

rabbitVars == <<draft, rabbitIds, saved, open>>
kafkaVars == <<cluster, kafkaIds>>
sandboxVars == <<broker, rabbitVars, kafkaVars, edits>>

-----------------------------------------------------------------------------
(* sandboxStore.ts: the topology *)

NodeKinds == {"publisher", "exchange", "queue", "consumer"}

NoId == [kind |-> "none", n |-> 0]

EmptyTopology == [kind \in NodeKinds \cup {"binding"} |-> <<>>]

Id(kind) == [kind |-> kind, n |-> rabbitIds + 1]

IdsIn(list) == {list[i].id : i \in DOMAIN list}

FirstId(list) == IF list = <<>> THEN NoId ELSE list[1].id

\* A fresh store, and what resetting one gives.
EmptyDraft ==
  [topology |-> EmptyTopology, manual |-> <<>>, generated |-> <<>>, script |-> <<>>,
   generator |-> [rate |-> 0, exchange |-> NoId]]

\* A consumer starts on the first queue there is.
NewNode(kind) ==
  [ id |-> Id(kind), ttl |-> FALSE, deadLetterExchange |-> NoId,
    queueId |-> IF kind = "consumer" THEN FirstId(draft.topology["queue"]) ELSE NoId ]

AddNode(kind) ==
  /\ draft' = [draft EXCEPT !.topology[kind] = Append(@, NewNode(kind))]
  /\ rabbitIds' = rabbitIds + 1

\* updateNode merges a patch into every node of that id.
Patched(list, id, field, value) ==
  [i \in DOMAIN list |-> IF list[i].id = id THEN [list[i] EXCEPT ![field] = value] ELSE list[i]]

UpdateNode(id, field, value) ==
  /\ draft' = [draft EXCEPT !.topology =
                 [kind \in DOMAIN @ |->
                    IF kind \in NodeKinds THEN Patched(@[kind], id, field, value) ELSE @[kind]]]
  /\ UNCHANGED rabbitIds

Elements(list) == {list[i] : i \in DOMAIN list}

Keeping(list, S) == FoldLeft(LAMBDA kept, x : IF x \in S THEN Append(kept, x) ELSE kept, <<>>, list)

\* A line of the drawing ends in the node.
Joins(x, id) == "exchangeId" \in DOMAIN x /\ id \in {x.exchangeId, x.destinationId}

\* What is left of a list of nodes or bindings without the node.
Without(list, id) == Keeping(list, {x \in Elements(list) : x.id # id /\ ~Joins(x, id)})

RemoveNode(id) ==
  /\ draft' = [draft EXCEPT !.topology = [kind \in DOMAIN @ |-> Without(@[kind], id)]]
  /\ UNCHANGED rabbitIds

NewBinding(exchange, target) ==
  [ id |-> Id("binding"), exchangeId |-> exchange, destinationId |-> target,
    destinationKind |-> IF target \in IdsIn(draft.topology["exchange"])
                        THEN "exchange" ELSE "queue" ]

AddBinding(exchange, target) ==
  /\ draft' = [draft EXCEPT !.topology["binding"] = Append(@, NewBinding(exchange, target))]
  /\ rabbitIds' = rabbitIds + 1

RemoveBinding(id) ==
  /\ draft' = [draft EXCEPT !.topology["binding"] = Keeping(@, {b \in Elements(@) : b.id # id})]
  /\ UNCHANGED rabbitIds

\* editing.ts: a line drawn on the canvas, to any node with a handle for it.
Connect(source, target) ==
  \/ source \in IdsIn(draft.topology["exchange"]) /\ AddBinding(source, target)
  \/ source \in IdsIn(draft.topology["queue"]) /\ UpdateNode(target, "queueId", source)

-----------------------------------------------------------------------------
(* sandboxStore.ts: the script, and what is kept from one session to the next *)

\* Lines that a stable sort by time puts before the line at i.
Ahead(lines, i) ==
  {j \in DOMAIN lines : lines[j].at < lines[i].at \/ (lines[j].at = lines[i].at /\ j < i)}

\* mergeScript: the k-th line has k - 1 before it.
Merged(manual, generated) ==
  LET all == manual \o generated
  IN [k \in DOMAIN all |-> all[CHOOSE i \in DOMAIN all : Cardinality(Ahead(all, i)) = k - 1]]

\* A generator sends to the end of the horizon, at times rounded to the nearest,
\* in the name of the first publisher there is.
ExpandGenerator(generator, topology) ==
  [k \in 1 .. HorizonSeconds * generator.rate |->
     [at |-> (2 * (k - 1) * Second + generator.rate) \div (2 * generator.rate),
      exchangeId |-> generator.exchange, publisherId |-> FirstId(topology["publisher"])]]

Scripted(d, manual, generator, generated) ==
  [d EXCEPT !.manual = manual, !.generator = generator, !.generated = generated,
            !.script = Merged(manual, generated)]

\* The panel publishes to an exchange that is there, by the first publisher.
MayPublish(exchange) ==
  /\ exchange \in IdsIn(draft.topology["exchange"])
  /\ draft.topology["publisher"] # <<>>

Publish(exchange, at) ==
  /\ MayPublish(exchange) /\ Len(draft.manual) < MaxPublished
  /\ draft' = Scripted(draft,
                 Append(draft.manual, [at |-> at, exchangeId |-> exchange,
                                       publisherId |-> FirstId(draft.topology["publisher"])]),
                 draft.generator, draft.generated)
  /\ UNCHANGED rabbitIds

SetGenerator(exchange, rate) ==
  /\ MayPublish(exchange)
  /\ LET generator == [rate |-> rate, exchange |-> exchange]
     IN draft' = Scripted(draft, draft.manual, generator, ExpandGenerator(generator, draft.topology))
  /\ UNCHANGED rabbitIds

Nothing == [kind |-> "nothing"]
Broken == [kind |-> "broken"]   \* text that is not a draft

Save ==
  /\ saved' = [kind |-> "draft", topology |-> draft.topology, manual |-> draft.manual,
               generator |-> draft.generator]
  /\ UNCHANGED <<draft, rabbitIds, open>>

NumbersIn(topology) == UNION {{x.n : x \in IdsIn(topology[kind])} : kind \in DOMAIN topology}

\* Mutant: the count begins anew in each session.
NotSeeded(topology) == rabbitIds

SeedCounterFrom(topology) ==
  CHOOSE m \in NumbersIn(topology) \cup {rabbitIds} :
    \A n \in NumbersIn(topology) \cup {rabbitIds} : n <= m

Load ==
  CASE saved.kind = "nothing" -> UNCHANGED <<draft, rabbitIds>>
    [] saved.kind = "broken"  -> draft' = EmptyDraft /\ UNCHANGED rabbitIds
    [] OTHER -> /\ draft' = Scripted([draft EXCEPT !.topology = saved.topology], saved.manual,
                             saved.generator, ExpandGenerator(saved.generator, saved.topology))
                /\ rabbitIds' = SeedCounterFrom(saved.topology)

\* SandboxPanel: the last draft is restored when nothing has been drawn.
Pristine == \A kind \in NodeKinds : draft.topology[kind] = <<>>

OpenPanel ==
  /\ ~open /\ open' = TRUE
  /\ IF Pristine THEN Load ELSE UNCHANGED <<draft, rabbitIds>>
  /\ UNCHANGED saved

\* To a lesson and back, or a new session in the same browser.
ClosePanel ==
  /\ open /\ open' = FALSE
  /\ \/ UNCHANGED <<draft, rabbitIds>>
     \/ draft' = EmptyDraft /\ rabbitIds' = 0
  /\ UNCHANGED saved

ResetDraft ==
  /\ draft' = EmptyDraft
  /\ UNCHANGED rabbitIds

Nodes == UNION {IdsIn(draft.topology[kind]) : kind \in NodeKinds}
Exchanges == IdsIn(draft.topology["exchange"])
Queues == IdsIn(draft.topology["queue"])

Mints ==
  \/ \E kind \in NodeKinds : AddNode(kind)
  \/ \E source \in Exchanges, target \in Nodes : target.kind # "publisher" /\ Connect(source, target)

Configures ==
  \/ \E source \in Queues, target \in Nodes : target.kind # "publisher" /\ Connect(source, target)
  \/ \E c \in IdsIn(draft.topology["consumer"]), q \in Queues \cup {NoId} : UpdateNode(c, "queueId", q)
  \/ \E q \in Queues, x \in Exchanges \cup {NoId} : UpdateNode(q, "deadLetterExchange", x)
  \/ \E q \in Queues, ttl \in BOOLEAN : UpdateNode(q, "ttl", ttl)

Edits ==
  \/ rabbitIds < MaxId /\ Mints
  \/ Configures
  \/ \E id \in Nodes : RemoveNode(id)
  \/ \E id \in IdsIn(draft.topology["binding"]) : RemoveBinding(id)
  \/ \E x \in Exchanges : \/ \E at \in Times : Publish(x, at)
                           \/ \E rate \in Rates : SetGenerator(x, rate)
  \/ ResetDraft

RabbitNext ==
  \/ open /\ Edits /\ UNCHANGED <<saved, open>>
  \/ open /\ Save
  \/ OpenPanel
  \/ ClosePanel

-----------------------------------------------------------------------------
(* validate.ts of RabbitMQ: the issues of a topology *)

Error(code, node) == [code |-> code, severity |-> "error", node |-> node]
Warning(code, node) == [code |-> code, severity |-> "warning", node |-> node]

\* The nodes among which a binding looks for its destination.
Known(t, b) == IdsIn(t[b.destinationKind])

BindingIssues(t) ==
  {Error("binding-missing-exchange", b.exchangeId) :
     b \in {x \in Elements(t["binding"]) : x.exchangeId \notin IdsIn(t["exchange"])}}
  \cup {Error("binding-missing-destination", b.destinationId) :
          b \in {x \in Elements(t["binding"]) : x.destinationId \notin Known(t, x)}}

Bound(t, b, q) == b.destinationKind = "queue" /\ b.destinationId = q.id

\* An expired message comes back to the queue it expired in.
Returns(t, q) == \E b \in Elements(t["binding"]) : Bound(t, b, q) /\ b.exchangeId = q.deadLetterExchange

QueueIssues(t) ==
  LET deadLetters == {q \in Elements(t["queue"]) : q.deadLetterExchange # NoId}
  IN {Error("dead-letter-exchange-missing", q.id) :
        q \in {x \in deadLetters : x.deadLetterExchange \notin IdsIn(t["exchange"])}}
     \cup {Warning("self-dead-letter-cycle", q.id) : q \in {x \in deadLetters : x.ttl /\ Returns(t, x)}}
     \cup {Warning("queue-unreachable", q.id) :
             q \in {x \in Elements(t["queue"]) : ~\E b \in Elements(t["binding"]) : Bound(t, b, x)}}

ConsumerIssues(t) ==
  {Error("consumer-missing-queue", c.id) :
     c \in {x \in Elements(t["consumer"]) : x.queueId \notin IdsIn(t["queue"])}}

ValidateTopology(t) == BindingIssues(t) \cup QueueIssues(t) \cup ConsumerIssues(t)

-----------------------------------------------------------------------------
(* kafkaStore.ts *)

EmptyCluster ==
  [ brokers |-> <<>>, topics |-> <<>>, producers |-> <<>>, consumers |-> <<>>,
    controllerBrokerId |-> NoId, script |-> <<>>, producerTopics |-> {} ]

KafkaId(kind) == [kind |-> kind, n |-> kafkaIds + 1]

\* The first broker becomes the controller.
Controller ==
  IF cluster.controllerBrokerId = NoId THEN KafkaId("broker") ELSE cluster.controllerBrokerId

AddBroker ==
  cluster' = [cluster EXCEPT !.brokers = Append(@, [id |-> KafkaId("broker")]),
                             !.controllerBrokerId = Controller]

AddProducer ==
  cluster' = [cluster EXCEPT !.producers = Append(@, [id |-> KafkaId("producer")])]

AddConsumer ==
  cluster' = [cluster EXCEPT !.consumers = Append(@, [id |-> KafkaId("consumer"), subscriptions |-> <<>>])]

AddTopic(name, partitions, replicationFactor) ==
  cluster' = [cluster EXCEPT !.topics =
                Append(@, [name |-> name, partitions |-> partitions,
                           replicationFactor |-> replicationFactor])]

\* setPartitionCount and setReplicationFactor: of every topic of that name.
SetCount(name, field, count) ==
  cluster' = [cluster EXCEPT !.topics =
                [i \in DOMAIN @ |-> IF @[i].name = name THEN [@[i] EXCEPT ![field] = count] ELSE @[i]]]

AddProducerTopic(producer, name) ==
  cluster' = [cluster EXCEPT !.producerTopics = @ \cup {<<producer, name>>}]

WithSubscription(consumers, id, name) ==
  [i \in DOMAIN consumers |->
     IF consumers[i].id = id /\ name \notin Elements(consumers[i].subscriptions)
     THEN [consumers[i] EXCEPT !.subscriptions = Append(@, name)] ELSE consumers[i]]

AddConsumerSubscription(consumer, name) ==
  cluster' = [cluster EXCEPT !.consumers = WithSubscription(@, consumer, name)]

\* A click comes 100 ms after the latest so far.
NextClick ==
  IF cluster.script = <<>> THEN 0
  ELSE 100 + (CHOOSE at \in {c.at : c \in Elements(cluster.script)} :
                \A c \in Elements(cluster.script) : c.at <= at)

ProduceManually(producer, name) ==
  cluster' = [cluster EXCEPT !.script = Append(@, [at |-> NextClick, producerId |-> producer,
                                                  topic |-> name])]

TopicsDrawn == {cluster.topics[i].name : i \in DOMAIN cluster.topics}

\* A line can be drawn to a topic that shows a partition.
Shown == {t.name : t \in {x \in Elements(cluster.topics) : x.partitions > 0}}

\* By a reset, or in a new session: nothing of a cluster is kept.
Emptied == cluster' = EmptyCluster

KafkaNext ==
  \/ /\ kafkaIds < MaxId /\ kafkaIds' = kafkaIds + 1
     /\ AddBroker \/ AddProducer \/ AddConsumer
  \/ /\ UNCHANGED kafkaIds
     /\ \/ \E name \in TopicNames, p, r \in Counts : Len(cluster.topics) < MaxPublished /\ AddTopic(name, p, r)
        \/ \E name \in TopicsDrawn :
             \/ \E field \in {"partitions", "replicationFactor"}, count \in Counts : SetCount(name, field, count)
             \/ \E producer \in IdsIn(cluster.producers) :
                  Len(cluster.script) < MaxPublished /\ ProduceManually(producer, name)
        \/ \E name \in Shown :
             \/ \E producer \in IdsIn(cluster.producers) : AddProducerTopic(producer, name)
             \/ \E consumer \in IdsIn(cluster.consumers) : AddConsumerSubscription(consumer, name)
  \/ Emptied /\ kafkaIds' \in {kafkaIds, 0}

-----------------------------------------------------------------------------
(* validate.ts of Kafka: the issues of a cluster and its script.  Nothing in *)
(* the sandbox sets minInsyncReplicas, acks or a transactional id.           *)

KafkaNodes == cluster.brokers \o cluster.producers \o cluster.consumers

Duplicates(list) == {list[j].id : j \in {k \in DOMAIN list : \E i \in 1 .. k - 1 : list[i].id = list[k].id}}

ProducedTopics == {c.topic : c \in Elements(cluster.script)}
Subscribed == UNION {Elements(c.subscriptions) : c \in Elements(cluster.consumers)}

NodeIssues ==
  {Error("duplicate-id", id) : id \in Duplicates(KafkaNodes)}
  \cup (IF cluster.controllerBrokerId \in IdsIn(cluster.brokers) THEN {}
        ELSE {Error("unknown-controller", cluster.controllerBrokerId)})
  \cup {Error("unknown-producer", c.producerId) :
          c \in {x \in Elements(cluster.script) : x.producerId \notin IdsIn(cluster.producers)}}

TopicIssues ==
  {Error("replication-factor-too-high", t.name) :
     t \in {x \in Elements(cluster.topics) : x.replicationFactor > Len(cluster.brokers)}}
  \cup {Error("unknown-topic", name) : name \in (ProducedTopics \cup Subscribed) \ TopicsDrawn}
  \cup {Warning("topic-unproduced", name) : name \in TopicsDrawn \ ProducedTopics}
  \cup {Warning("topic-unconsumed", name) : name \in TopicsDrawn \ Subscribed}

\* topics.find: of two topics with one name, the first.
PartitionsOf(name) ==
  LET named == {i \in DOMAIN cluster.topics : cluster.topics[i].name = name}
  IN IF named = {} THEN 0
     ELSE cluster.topics[CHOOSE i \in named : \A j \in named : i <= j].partitions

PartitionsRead(c) == FoldLeft(LAMBDA sum, name : sum + PartitionsOf(name), 0, c.subscriptions)

\* All consumers of the sandbox are in one group.
GroupIssues ==
  IF cluster.consumers # <<>> /\ \A c \in Elements(cluster.consumers) :
                                    Len(cluster.consumers) > PartitionsRead(c)
  THEN {Warning("idle-consumers", NoId)} ELSE {}

ValidateKafkaTopology == NodeIssues \cup TopicIssues \cup GroupIssues

-----------------------------------------------------------------------------
(* The specification *)

EmptySandboxes ==
  /\ draft = EmptyDraft /\ rabbitIds = 0 /\ open = FALSE
  /\ cluster = EmptyCluster /\ kafkaIds = 0
  /\ edits = 0

SandboxInit ==
  /\ broker \in {"rabbitmq", "kafka"}
  /\ saved \in {Nothing, Broken}
  /\ EmptySandboxes

SandboxNext ==
  /\ edits < MaxEdits /\ edits' = edits + 1 /\ UNCHANGED broker
  /\ \/ broker = "rabbitmq" /\ RabbitNext /\ UNCHANGED kafkaVars
     \/ broker = "kafka" /\ KafkaNext /\ UNCHANGED rabbitVars

SandboxSpec == SandboxInit /\ [][SandboxNext]_sandboxVars

-----------------------------------------------------------------------------
(* Properties *)

Errors(issues) == {i \in issues : i.severity = "error"}

\* Ids tell the nodes and bindings of a topology apart, also those that an
\* earlier session has minted and this one restored.
ToldApart(topology) ==
  \A k, l \in DOMAIN topology : \A i \in DOMAIN topology[k], j \in DOMAIN topology[l] :
    topology[k][i].id = topology[l][j].id => k = l /\ i = j

\* The only errors that drawing can lead to are those the panel can repair: a
\* consumer or a queue whose other end was removed or not chosen yet, and a
\* binding that was drawn to a consumer.
RabbitErrorsAreOpenEnds ==
  \A e \in Errors(ValidateTopology(draft.topology)) :
    \/ e.code \in {"consumer-missing-queue", "dead-letter-exchange-missing"}
    \/ e.code = "binding-missing-destination" /\ e.node \in IdsIn(draft.topology["consumer"])

InTimeOrder(script) == \A i, j \in DOMAIN script : i < j => script[i].at <= script[j].at

Occurrences(list, a) == {i \in DOMAIN list : list[i] = a}

\* The script holds what was published by hand and what the generator makes,
\* each as often and in the order in which it was.
IsMergeOf(script, manual, generated) ==
  /\ InTimeOrder(script)
  /\ Len(script) = Len(manual) + Len(generated)
  /\ \A a \in Elements(script) \cup Elements(manual \o generated) :
       Cardinality(Occurrences(script, a)) = Cardinality(Occurrences(manual \o generated, a))

KafkaErrorsAreSizes ==
  \A e \in Errors(ValidateKafkaTopology) :
    \/ e.code = "replication-factor-too-high"
    \/ e.code = "unknown-controller" /\ cluster.brokers = <<>>

\* However a draft is edited, saved, restored and edited again: its nodes can
\* be told apart, no line of it ends in a node that was removed, its script is
\* what was published by hand and what the generator makes ("Derived: it is
\* always manualScript merged with generatorScript"), and validation refuses it
\* only for what the user can see and repair.
DraftsStayWhole ==
  /\ ToldApart(draft.topology) /\ RabbitErrorsAreOpenEnds
  /\ IsMergeOf(draft.script, draft.manual, draft.generated)
  /\ KafkaErrorsAreSizes
  /\ \A i, j \in DOMAIN cluster.script : i < j => cluster.script[i].at < cluster.script[j].at
=============================================================================
