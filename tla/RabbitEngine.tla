-------------------------------- MODULE RabbitEngine --------------------------------
(***************************************************************************)
(* The RabbitMQ simulation as createSimulation runs it: one script, one    *)
(* list of consumer failures and one seed, on the kernel's clock           *)
(* (src/src/brokers/rabbitmq/engine/index.ts).                             *)
(*                                                                         *)
(* The reducers are the actions of RabbitBroker.  Here every event has its *)
(* time and its sequence number, the kernel's own heap decides which comes *)
(* next, ties included, and the seeded generator decides what RabbitBroker *)
(* leaves open: which message is rejected, and how long the work takes.    *)
(* Flights, bodies and tones, which only draw, are left out.               *)
(***************************************************************************)
EXTENDS RabbitBroker, RabbitRouting, KernelRandom

CONSTANT Lessons   \* the topologies, scripts and seeds that are simulated

TravelMs            == 600
ConfirmMs           == 200
ConfirmPersistentMs == 900

\* A routing key is its words; the headers of a message go with it.
Key(words, headers) == [words |-> words, headers |-> headers]

VARIABLES
  lesson,   \* the topology and script simulated; never changed
  run       \* the kernel: now, heap, batch, seq; the generator; the journal;
            \* and which messages are persistent

-----------------------------------------------------------------------------
(* What RabbitBroker sees of a lesson *)

IdsOf(specs) == {specs[i].id : i \in DOMAIN specs}

\* The spec of a node; a node of another lesson has the defaults.
SpecOf(specs, id, default) ==
  IF id \in IdsOf(specs) THEN specs[CHOOSE i \in DOMAIN specs : specs[i].id = id] ELSE default

NoQueue ==
  [ id |-> "", durable |-> FALSE, messageTtlMs |-> 0, maxLength |-> Boundless,
    deadLetterExchange |-> NoExchange, deadLetterKey |-> NoKey, maxPriority |-> 0 ]

BindingsOf(l, x) == SelectSeq(l.bindings, LAMBDA b : b.exchange = x)

HitsOf(l, x, key) ==
  IF x \notin IdsOf(l.exchanges) THEN <<>>
  ELSE ResolveDestinations(SpecOf(l.exchanges, x, <<>>).type, BindingsOf(l, x),
                           [key |-> key.words, headers |-> key.headers])

ActionOf(scripted) ==
  [f \in {"exchange", "key", "priority", "replyTo", "correlationId"} |-> scripted[f]]

Simulated(l) ==
  [ hits               |-> [x \in Exchanges |-> [key \in Keys |-> HitsOf(l, x, key)]],
    queueOf            |-> [c \in Consumers |->
                              SpecOf(l.consumers, c, [queueId |-> l.queues[1].id]).queueId],
    consumerOrder      |-> [i \in DOMAIN l.consumers |-> l.consumers[i].id],
    prefetch           |-> [c \in Consumers |-> SpecOf(l.consumers, c, [prefetch |-> 1]).prefetch],
    autoAck            |-> IdsOf(SelectSeq(l.consumers, LAMBDA c : c.autoAck)),
    mayNack            |-> IdsOf(SelectSeq(l.consumers, LAMBDA c : c.nackTenths > 0)),
    requeueOnNack      |-> IdsOf(SelectSeq(l.consumers, LAMBDA c : c.requeueOnNack)),
    prioritised        |-> IdsOf(SelectSeq(l.queues, LAMBDA q : q.maxPriority > 0)),
    hasTtl             |-> IdsOf(SelectSeq(l.queues, LAMBDA q : q.messageTtlMs > 0)),
    maxLength          |-> [q \in Queues |-> SpecOf(l.queues, q, NoQueue).maxLength],
    deadLetterExchange |-> [q \in Queues |-> SpecOf(l.queues, q, NoQueue).deadLetterExchange],
    deadLetterKey      |-> [q \in Queues |-> SpecOf(l.queues, q, NoQueue).deadLetterKey],
    script             |-> {ActionOf(scripted) : scripted \in ToSet(l.script)},
    cycle              |-> 6,
    maxMessages        |-> 2 * Len(l.script),
    maxCrashes         |-> [c \in Consumers |-> 1],
    crashRacesAck      |-> TRUE ]

-----------------------------------------------------------------------------
(* The kernel *)

Clock == INSTANCE KernelClock WITH Kinds <- {}

Numbered(scheduled, now, seq) ==
  [i \in DOMAIN scheduled |->
     [at |-> now + scheduled[i].delay, seq |-> seq + i, kind |-> scheduled[i].kind]]

\* seedEvents: the script, then the failures, numbered from zero.
SeedEvents(l) ==
  LET publishes == [i \in DOMAIN l.script |->
                      [delay |-> l.script[i].at, kind |-> [type |-> "script", scripted |-> l.script[i]]]]
      failures  == [i \in DOMAIN l.failures |->
                      [delay |-> l.failures[i].at,
                       kind  |-> [type |-> l.failures[i].kind, consumer |-> l.failures[i].consumer]]]
  IN Numbered(publishes \o failures, 0, -1)

\* The next instant's events are taken when those of this one are done.
Refilled(rest, heap) ==
  IF rest # <<>> \/ heap = <<>> THEN [batch |-> rest, heap |-> heap]
  ELSE LET popped == Clock!PopDue(heap, heap[1].at)
       IN [batch |-> popped.due, heap |-> popped.rest]

Start(l) ==
  LET queue == Refilled(<<>>, Clock!PushAll(<<>>, SeedEvents(l)))
  IN [ now |-> 0, heap |-> queue.heap, batch |-> queue.batch, seq |-> 0, rng |-> CreateRng(l.seed),
       persistent |-> {}, journal |-> <<>> ]

EngineInit ==
  /\ lesson \in Lessons
  /\ input = Simulated(lesson)
  /\ Init
  /\ run = Start(lesson)

Running == run.batch # <<>> /\ Head(run.batch).at <= lesson.durationMs + 30000

Now == Head(run.batch).at
Event == Head(run.batch).kind

ConsumerSpec(c) == SpecOf(lesson.consumers, c, <<>>)
QueueSpec(q) == SpecOf(lesson.queues, q, NoQueue)

-----------------------------------------------------------------------------
(* What the generator decides *)

\* An epoch that is still the consumer's own, so that the reducer goes on.
Draws(type) == Event.type = type /\ Current(Event)

DrawsJitter == Draws("deliver") /\ ConsumerSpec(Event.consumer).jitterMs > 0
DrawsNack   == Draws("consumeDone") /\ Event.consumer \in MayNack \ AutoAck

Rng == IF DrawsJitter \/ DrawsNack THEN NextState(run.rng) ELSE run.rng

ProcessingTime ==
  ConsumerSpec(Event.consumer).processingMs
    + IF DrawsJitter THEN NextInt(run.rng, ConsumerSpec(Event.consumer).jitterMs).value ELSE 0

\* f < nackRate, for a rate in tenths.
Rejected == DrawsNack /\ NextInt(run.rng, 10).value < ConsumerSpec(Event.consumer).nackTenths

-----------------------------------------------------------------------------
(* The events a reducer returns, in their order *)

Soon == {"publish", "dispatch", "ack", "nack"}

DelayOf(e) ==
  CASE e.type = "consumeDone" -> ProcessingTime
    [] e.type = "ttlExpire"   -> QueueSpec(e.queue).messageTtlMs
    [] OTHER                  -> TravelMs

\* What RabbitBroker scheduled for later in this step: the hops of a routed
\* message in the order of its destinations, a dead letter before a timer.
Delayed ==
  LET before   == IF Event.type \in Soon \/ ~BagIn(Event, later) THEN later ELSE later (-) One(Event)
      Rank(e)  ==
        IF Event.type = "route"
        THEN CHOOSE i \in DOMAIN Hits[Event.exchange][Event.msg.key] :
               Hits[Event.exchange][Event.msg.key][i] = IF e.type = "route" THEN e.exchange ELSE e.queue
        ELSE IF e.type = "ttlExpire" THEN 2 ELSE 1
  IN SetToSortSeq(BagToSet(later' (-) before), LAMBDA e, f : Rank(e) < Rank(f))

\* What it scheduled for now.
Immediate ==
  SubSeq(urgent', (IF Event.type \in Soon THEN Len(urgent) - 1 ELSE Len(urgent)) + 1, Len(urgent'))

\* withConfirm: a persistent message in a durable queue takes longer.
DurablePair ==
  /\ Event.msg.id \in run.persistent
  /\ \E q \in ToSet(Hits[Event.exchange][Event.msg.key]) \cap Queues : QueueSpec(q).durable

ConfirmDelay == IF DurablePair THEN ConfirmPersistentMs ELSE ConfirmMs

Confirm ==
  IF Event.type = "route" /\ Event.client
  THEN <<[delay |-> ConfirmDelay, kind |-> [type |-> "confirm", id |-> Event.msg.id]]>> ELSE <<>>

NewEvents ==
  [i \in DOMAIN Delayed |-> [delay |-> DelayOf(Delayed[i]), kind |-> Delayed[i]]]
    \o Confirm
    \o [i \in DOMAIN Immediate |-> [delay |-> 0, kind |-> Immediate[i]]]

-----------------------------------------------------------------------------
(* The journal: a line's time, type, node and message *)

Line(type, node, id) == <<[at |-> Now, type |-> type, node |-> node, id |-> id]>>

\* An overflow sends the head of the queue away.
Overflown(e) ==
  IF MaxLength[e.queue] # Boundless /\ Len(queues[e.queue]) = MaxLength[e.queue]
  THEN Line("maxlen", e.queue, Head(InsertByPriority(queues[e.queue], EntryNow(e.msg, e.queue, {}),
                                                     e.queue \in Prioritised)).msg.id)
  ELSE <<>>

Lines ==
  CASE Event.type = "script"    -> Line("publish", Event.scripted.publisher, counter')
    [] Event.type = "publish"   -> Line("publish", "", counter')
    [] Event.type = "route"     ->
         Line(IF Hits[Event.exchange][Event.msg.key] = <<>> THEN "unroutable" ELSE "route",
              Event.exchange, Event.msg.id)
    [] Event.type = "enqueue"   -> Overflown(Event) \o Line("enqueue", Event.queue, Event.msg.id)
    [] Event.type = "ttlExpire" ->
         IF queues' # queues THEN Line("expired", Event.queue, Event.id) ELSE <<>>
    [] Event.type = "deliver"   ->
         IF ~Current(Event) THEN <<>>
         ELSE Line(IF Event.msg.redelivered THEN "redeliver" ELSE "deliver", Event.consumer, Event.msg.id)
    [] Event.type = "ack"       -> Line("ack", Event.consumer, Event.msg.id)
    [] Event.type = "nack"      ->
         Line("nack", Event.consumer, Event.msg.id)
           \o IF Event.consumer \in RequeueOnNack THEN <<>> ELSE Line("rejected", Event.queue, Event.msg.id)
    [] Event.type = "confirm"   -> Line("confirm", "", Event.id)
    [] Event.type = "crash"     -> Line("consumerCrash", Event.consumer, 0)
    [] OTHER                    -> <<>>

-----------------------------------------------------------------------------

\* The reducer of the event that fires.
Reduces ==
  \/ Event.type = "script" /\ Publish(ActionOf(Event.scripted))
  \/ Event.type = "crash" /\ Crash(Event.consumer)
  \/ Event.type = "recover" /\ Recover(Event.consumer)
  \/ Event.type = "confirm" /\ UNCHANGED vars
  \/ Event.type \in {"route", "enqueue", "ttlExpire", "deliver", "consumeDone"} /\ DueEvent(Event)
  \/ Event.type \in Soon /\ Event = Head(urgent) /\ Chained

\* What the generator drew is what happens.
AsDrawn ==
  Event.type = "consumeDone" /\ Current(Event) =>
    Last(urgent').type = IF Rejected THEN "nack" ELSE "ack"

EngineStep ==
  /\ Running
  /\ Reduces
  /\ AsDrawn
  /\ LET queue == Refilled(Tail(run.batch), Clock!PushAll(run.heap, Numbered(NewEvents, Now, run.seq)))
     IN run' = [ now        |-> Now,
                 heap       |-> queue.heap,
                 batch      |-> queue.batch,
                 seq        |-> run.seq + Len(NewEvents),
                 rng        |-> Rng,
                 persistent |-> IF Event.type = "script" /\ Event.scripted.persistent
                                THEN run.persistent \cup {counter'} ELSE run.persistent,
                 journal    |-> run.journal \o Lines ]
  /\ UNCHANGED lesson

EngineSpec == EngineInit /\ [][EngineStep]_<<vars, lesson, run>>
=============================================================================
