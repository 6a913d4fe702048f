-------------------------------- MODULE RabbitBroker --------------------------------
(***************************************************************************)
(* The RabbitMQ engine: publishing, routing, queues, deliveries,           *)
(* acknowledgements, consumer crashes, TTL and dead-lettering, that is the *)
(* reducers of src/src/brokers/rabbitmq/engine (broker.ts, delivery.ts,    *)
(* dlx.ts, advanced.ts) under the kernel's run loop.                       *)
(*                                                                         *)
(* An event with a delay is in the bag `later`; one scheduled at the       *)
(* current virtual time is appended to `urgent`.  The kernel drains one    *)
(* instant at a time: first every event already due, in any order of       *)
(* their sequence numbers, then, oldest first, the events these chain at   *)
(* the same time.  Two delayed events may or may not share an instant, so  *)
(* an instant is over when `urgent` is empty; `chaining` says that its     *)
(* second part has begun.  Nothing delayed can be due in the instant that  *)
(* schedules it (every delay is positive), which matters for ttlExpire     *)
(* only: `fresh` holds the queue entries made in this instant.             *)
(*                                                                         *)
(* A queue entry's enqueuedAt is `stay`, a number that two entries of one  *)
(* message in one queue share exactly when they were made in the same      *)
(* instant.  redeliveryCount counts only as zero or not, the round-robin   *)
(* cursor only modulo Cycle, and routing keys and headers only through the *)
(* table Hits of destinations that resolveDestinations returns.            *)
(***************************************************************************)
EXTENDS RabbitQueue, FiniteSets, Functions, Bags, SequencesExt

CONSTANTS
  Exchanges, Queues, Consumers,   \* the nodes a topology may have
  Keys,                \* routing keys
  NoExchange, NoKey,
  Inputs               \* the topologies and scripts that are simulated

Boundless == -1

\* What a simulation is created for: a topology, its script, and the bounds.
\* The nodes a topology does not have are never reached in it.
Input ==
  [ hits               : [Exchanges -> [Keys -> Seq(Exchanges \cup Queues)]],
    queueOf            : [Consumers -> Queues],  \* ConsumerSpec.queueId
    consumerOrder      : Seq(Consumers),         \* topology.consumers
    prefetch           : [Consumers -> Nat],     \* 0 for unlimited
    autoAck            : SUBSET Consumers,
    mayNack            : SUBSET Consumers,       \* with a positive nackRate
    requeueOnNack      : SUBSET Consumers,
    prioritised        : SUBSET Queues,          \* with a maxPriority
    hasTtl             : SUBSET Queues,          \* with a messageTtlMs
    maxLength          : [Queues -> Nat \cup {Boundless}],
    deadLetterExchange : [Queues -> Exchanges \cup {NoExchange}],
    deadLetterKey      : [Queues -> Keys \cup {NoKey}],
    script             : SUBSET [exchange : Exchanges, key : Keys, priority : Nat,
                                 replyTo : Exchanges \cup {NoExchange},
                                 correlationId : Keys],
    cycle              : Nat \ {0},     \* a multiple of every number of competitors
    maxMessages        : Nat,                    \* bound, replies included
    maxCrashes         : [Consumers -> Nat],     \* bound on each one's crashes
    crashRacesAck      : BOOLEAN ]    \* may a crash fall between a consumeDone
                                      \* and the ack it chains?

ASSUME InputsAssumption == \A i \in Inputs : i \in Input
ASSUME NodesAssumption == IsFiniteSet(Queues) /\ IsFiniteSet(Consumers)

VARIABLES
  input,       \* the topology and script simulated; never changed
  queues,      \* EngineState.queues
  unacked,     \* EngineState.unacked
  roundRobin,  \* EngineState.roundRobin, modulo Cycle
  crashed,     \* EngineState.crashed
  crashEpoch,  \* EngineState.crashEpoch
  counter,     \* EngineState.messageCounter
  later,       \* the bag of scheduled events with a delay
  urgent,      \* events scheduled at the current time, oldest first
  chaining,    \* the instant's due events are done
  fresh,       \* queue entries made in this instant
  made,        \* history: copies made of each message
  acks,        \* history: acks of each message (metrics.acked)
  drops,       \* history: copies dropped for good (metrics.dropped)
  confirms     \* history: confirms scheduled for each message

state == <<queues, unacked, roundRobin, crashed, crashEpoch, counter>>
events == <<later, urgent, chaining, fresh>>
history == <<made, acks, drops, confirms>>
vars == <<input, state, events, history>>

Hits               == input.hits
QueueOf            == input.queueOf
ConsumerOrder      == input.consumerOrder
Prefetch           == input.prefetch
AutoAck            == input.autoAck
MayNack            == input.mayNack
RequeueOnNack      == input.requeueOnNack
Prioritised        == input.prioritised
HasTtl             == input.hasTtl
MaxLength          == input.maxLength
DeadLetterExchange == input.deadLetterExchange
DeadLetterKey      == input.deadLetterKey
Script             == input.script
Cycle              == input.cycle
MaxMessages        == input.maxMessages
MaxCrashes         == input.maxCrashes
CrashRacesAck      == input.crashRacesAck

Ids == 1 .. MaxMessages
None == [m \in Ids |-> 0]

Init ==
  /\ input \in Inputs
  /\ queues = [q \in Queues |-> <<>>]
  /\ unacked = [c \in Consumers |-> <<>>]
  /\ roundRobin = [q \in Queues |-> 0]
  /\ crashed = {}
  /\ crashEpoch = [c \in Consumers |-> 0]
  /\ counter = 0
  /\ later = EmptyBag
  /\ urgent = <<>>
  /\ chaining = FALSE
  /\ fresh = {}
  /\ made = None /\ acks = None /\ drops = None /\ confirms = None

-----------------------------------------------------------------------------
(* The kernel *)

\* An event of the script, or one that a delay ends, fires now; it schedules
\* `soon` at the current time and `delayed` after a delay.
DueNow == ~chaining

Schedule(rest, soon, delayed) ==
  /\ UNCHANGED input
  /\ later' = rest (+) delayed
  /\ urgent' = urgent \o soon
  /\ chaining' = FALSE

\* What was made in an instant that is over is not fresh any more.
FreshNow == IF urgent = <<>> THEN {} ELSE fresh

\* The oldest event scheduled at the current time fires.
Chain(soon, delayed) ==
  /\ UNCHANGED input
  /\ later' = later (+) delayed
  /\ urgent' = Tail(urgent) \o soon
  /\ chaining' = (urgent' # <<>>)

Fire(e, soon, delayed) == Schedule(later (-) SetToBag({e}), soon, delayed)

One(e) == SetToBag({e})

DispatchEvent(q) == [type |-> "dispatch", queue |-> q]

NextEvent(type) == urgent # <<>> /\ Head(urgent).type = type

\* The elements of s that are in S, in their order.
Keeping(s, S) == FoldLeft(LAMBDA kept, x : IF x \in S THEN Append(kept, x) ELSE kept, <<>>, s)

Add(f, m, n) == [f EXCEPT ![m] = @ + n]

-----------------------------------------------------------------------------
(* broker.ts: publish and route *)

RouteEvent(msg, x, client) ==
  [type |-> "route", msg |-> msg, exchange |-> x, client |-> client]

\* The message of a script action, or of a reply, as applyPublish mints it.
Minted(p) == [id |-> counter + 1, key |-> p.key, priority |-> p.priority,
              redelivered |-> FALSE, replyTo |-> p.replyTo,
              correlationId |-> p.correlationId]

Mint(p) ==
  /\ counter' = counter + 1
  /\ made' = Add(made, counter + 1, 1)
  /\ UNCHANGED <<queues, unacked, roundRobin, crashed, crashEpoch, acks, drops, confirms>>

Publish(p) ==
  /\ DueNow
  /\ counter < MaxMessages
  /\ Mint(p)
  /\ Schedule(later, <<>>, One(RouteEvent(Minted(p), p.exchange, TRUE)))
  /\ fresh' = FreshNow

\* A reply that an ack published at the current time (buildReplyEvents).  The
\* bound on messages leaves out the replies past it.
PublishReply ==
  /\ NextEvent("publish")
  /\ LET p == Head(urgent).reply
     IN IF counter < MaxMessages
        THEN Mint(p) /\ Chain(<<>>, One(RouteEvent(Minted(p), p.exchange, TRUE)))
        ELSE Chain(<<>>, EmptyBag) /\ UNCHANGED <<state, history>>
  /\ UNCHANGED fresh

\* Only the hop that leaves a client is confirmed.
ConfirmsOf(e) == IF e.client THEN 1 ELSE 0

\* The events that send a message on to its destinations.
Forwarded(msg, destinations) ==
  {IF d \in Exchanges THEN RouteEvent(msg, d, FALSE)
   ELSE [type |-> "enqueue", msg |-> msg, queue |-> d] : d \in destinations}

Route(e) ==
  LET destinations == Range(Hits[e.exchange][e.msg.key])
  IN /\ DueNow
     /\ e.type = "route"
     /\ Fire(e, <<>>, SetToBag(Forwarded(e.msg, destinations)))
     /\ made' = Add(made, e.msg.id, Cardinality(destinations)
                                      - (IF destinations = {} THEN 0 ELSE 1))
     /\ drops' = Add(drops, e.msg.id, IF destinations = {} THEN 1 ELSE 0)
     /\ confirms' = Add(confirms, e.msg.id, ConfirmsOf(e))
     /\ fresh' = FreshNow
     /\ UNCHANGED <<state, acks>>

-----------------------------------------------------------------------------
(* dlx.ts *)

\* The route events of a dead-lettered message: none without an exchange.
Buried(msg, q) ==
  IF DeadLetterExchange[q] = NoExchange THEN EmptyBag
  ELSE One(RouteEvent([msg EXCEPT !.key = IF DeadLetterKey[q] = NoKey THEN @
                                          ELSE DeadLetterKey[q],
                                  !.redelivered = FALSE],
                      DeadLetterExchange[q], FALSE))

DropsOf(msg, q) == IF DeadLetterExchange[q] = NoExchange THEN Add(drops, msg.id, 1) ELSE drops

-----------------------------------------------------------------------------
(* broker.ts: enqueue *)

TtlEvent(id, q, stay) == [type |-> "ttlExpire", id |-> id, queue |-> q, stay |-> stay]

\* What `fresh` notes of an entry made now: only entries that expire matter.
Marks(id, q, stay) ==
  IF q \in HasTtl THEN {[id |-> id, queue |-> q, stay |-> stay]} ELSE {}

\* The stays that entries and timers of the message in this queue have.
StaysInUse(id, q) ==
  {queues[q][i].stay : i \in {j \in DOMAIN queues[q] : queues[q][j].msg.id = id}} \cup
  {e.stay : e \in {f \in BagToSet(later) : f.type = "ttlExpire" /\ f.id = id /\ f.queue = q}}

\* enqueuedAt of an entry made now; it only matters where entries expire.
StayNow(id, q, marks) ==
  IF q \notin HasTtl THEN 0
  ELSE IF \E f \in marks : f.id = id /\ f.queue = q
       THEN (CHOOSE f \in marks : f.id = id /\ f.queue = q).stay
       ELSE LET taken == StaysInUse(id, q) IN Min((0 .. Cardinality(taken)) \ taken)

EntryNow(msg, q, marks) == [msg |-> msg, stay |-> StayNow(msg.id, q, marks)]

Overflows(q, queue) == MaxLength[q] # Boundless /\ Len(queue) > MaxLength[q]

\* Mutant: one timer does for two copies that expire at the same time.
TimerOnce(id, q, stay, kept) ==
  IF /\ q \in HasTtl /\ \E i \in DOMAIN kept : kept[i].msg.id = id
     /\ ~BagIn(TtlEvent(id, q, stay), later)
  THEN One(TtlEvent(id, q, stay)) ELSE EmptyBag

\* A TTL, if the message survived the overflow.
Timer(id, q, stay, kept) ==
  IF q \in HasTtl /\ \E i \in DOMAIN kept : kept[i].msg.id = id
  THEN One(TtlEvent(id, q, stay)) ELSE EmptyBag

\* drop-head overflow, then a TTL if the message survived, then a dispatch.
Enqueue(e) ==
  LET entry    == EntryNow(e.msg, e.queue, FreshNow)
      grown    == InsertByPriority(queues[e.queue], entry, e.queue \in Prioritised)
      overflow == Overflows(e.queue, grown)
      kept     == IF overflow THEN Tail(grown) ELSE grown
      timer    == Timer(e.msg.id, e.queue, entry.stay, kept)
      burial   == IF overflow THEN Buried(Head(grown).msg, e.queue) ELSE EmptyBag
  IN /\ DueNow
     /\ e.type = "enqueue"
     /\ queues' = [queues EXCEPT ![e.queue] = kept]
     /\ drops' = IF overflow THEN DropsOf(Head(grown).msg, e.queue) ELSE drops
     /\ Fire(e, <<DispatchEvent(e.queue)>>, timer (+) burial)
     /\ fresh' = FreshNow \cup Marks(e.msg.id, e.queue, entry.stay)
     /\ UNCHANGED <<unacked, roundRobin, crashed, crashEpoch, counter, made, acks, confirms>>

\* Mutant: every copy of the enqueued message goes when one expires.
WithoutAll(queue, i) ==
  SelectSeq(queue, LAMBDA f : f.msg.id # queue[i].msg.id \/ f.stay # queue[i].stay)

WithoutOne(queue, i) == RemoveAt(queue, i)

\* Only the entry this event was scheduled for expires, if it is still there.
TtlExpire(e) ==
  LET queue == queues[e.queue]
      i     == FirstOf({j \in DOMAIN queue : queue[j].msg.id = e.id /\ queue[j].stay = e.stay}, queue)
  IN /\ DueNow
     /\ e.type = "ttlExpire"
     /\ Marks(e.id, e.queue, e.stay) \cap FreshNow = {}
     /\ IF i > Len(queue)
        THEN Fire(e, <<>>, EmptyBag) /\ UNCHANGED <<queues, drops>>
        ELSE /\ queues' = [queues EXCEPT ![e.queue] = WithoutOne(queue, i)]
             /\ drops' = DropsOf(queue[i].msg, e.queue)
             /\ Fire(e, <<>>, Buried(queue[i].msg, e.queue))
     /\ fresh' = FreshNow
     /\ UNCHANGED <<unacked, roundRobin, crashed, crashEpoch, counter, made, acks, confirms>>

-----------------------------------------------------------------------------
(* delivery.ts *)

Eligible(c) == c \notin crashed /\ (Prefetch[c] = 0 \/ Len(unacked[c]) < Prefetch[c])

\* The consumers a queue's head may go to, in topology order.
EligibleConsumers(q) == Keeping(ConsumerOrder, {c \in Consumers : QueueOf[c] = q /\ Eligible(c)})

Dispatch ==
  /\ NextEvent("dispatch")
  /\ LET q          == Head(urgent).queue
         candidates == EligibleConsumers(q)
     IN IF candidates = <<>> \/ queues[q] = <<>>
        THEN Chain(<<>>, EmptyBag) /\ UNCHANGED <<queues, unacked, roundRobin>>
        ELSE LET c   == candidates[(roundRobin[q] % Len(candidates)) + 1]
                 msg == Head(queues[q]).msg
             IN /\ queues' = [queues EXCEPT ![q] = Tail(@)]
                /\ roundRobin' = [roundRobin EXCEPT ![q] = (@ + 1) % Cycle]
                /\ unacked' = IF c \in AutoAck THEN unacked
                              ELSE [unacked EXCEPT ![c] = Append(@, msg)]
                /\ Chain(<<>>, One([type |-> "deliver", msg |-> msg, queue |-> q,
                                    consumer |-> c, epoch |-> crashEpoch[c]]))
  /\ UNCHANGED <<crashed, crashEpoch, counter, fresh, history>>

\* A delivery or a completion that a crash overtook is dropped.
Current(e) == e.epoch = crashEpoch[e.consumer]

Deliver(e) ==
  /\ DueNow
  /\ e.type = "deliver"
  /\ Fire(e, <<>>, IF Current(e) THEN One([e EXCEPT !.type = "consumeDone"]) ELSE EmptyBag)
  /\ fresh' = FreshNow
  /\ UNCHANGED <<state, history>>

\* The draw against nackRate is nondeterministic.
ConsumeDone(e) ==
  /\ DueNow
  /\ e.type = "consumeDone"
  /\ IF Current(e)
     THEN \E outcome \in {"ack"} \cup (IF e.consumer \in MayNack \ AutoAck THEN {"nack"} ELSE {}) :
            Fire(e, <<[type |-> outcome, msg |-> e.msg, queue |-> e.queue,
                       consumer |-> e.consumer]>>, EmptyBag)
     ELSE Fire(e, <<>>, EmptyBag)
  /\ fresh' = FreshNow
  /\ UNCHANGED <<state, history>>

\* Mutant: the settled message keeps its slot.
ReleasedNot(c, id) == unacked

\* releaseUnacked goes by the message's id.
Released(c, id) == [unacked EXCEPT ![c] = Keeping(unacked[c], {m \in Range(unacked[c]) : m.id # id})]

ReplyEvents(msg) ==
  IF msg.replyTo = NoExchange THEN <<>>
  ELSE <<[type |-> "publish",
          reply |-> [exchange |-> msg.replyTo, key |-> msg.correlationId, priority |-> 0,
                     replyTo |-> NoExchange, correlationId |-> msg.correlationId]]>>

Ack ==
  /\ NextEvent("ack")
  /\ LET e == Head(urgent)
     IN /\ unacked' = Released(e.consumer, e.msg.id)
        /\ acks' = Add(acks, e.msg.id, 1)
        /\ Chain(Append(ReplyEvents(e.msg), DispatchEvent(e.queue)), EmptyBag)
  /\ UNCHANGED <<queues, roundRobin, crashed, crashEpoch, counter, fresh, made, drops, confirms>>

Nack ==
  /\ NextEvent("nack")
  /\ LET e     == Head(urgent)
         entry == EntryNow(Redelivered(e.msg), e.queue, fresh)
     IN /\ unacked' = Released(e.consumer, e.msg.id)
        /\ IF e.consumer \in RequeueOnNack
           THEN /\ queues' = [queues EXCEPT ![e.queue] =
                                RequeueByPriority(@, entry, e.queue \in Prioritised)]
                /\ Chain(<<DispatchEvent(e.queue)>>, EmptyBag)
                /\ fresh' = fresh \cup Marks(e.msg.id, e.queue, entry.stay)
                /\ UNCHANGED drops
           ELSE /\ drops' = DropsOf(e.msg, e.queue)
                /\ Chain(<<DispatchEvent(e.queue)>>, Buried(e.msg, e.queue))
                /\ UNCHANGED <<queues, fresh>>
  /\ UNCHANGED <<roundRobin, crashed, crashEpoch, counter, made, acks, confirms>>

-----------------------------------------------------------------------------
(* advanced.ts: consumer crash and recovery *)

\* Folding from the last message to the first keeps the order they were held in.
Restored(queue, held, q) ==
  FoldLeft(LAMBDA s, m : RequeueByPriority(s, EntryNow(Redelivered(m), q, FreshNow),
                                           q \in Prioritised), queue, Reverse(held))

NextEpoch(c) == crashEpoch[c] + 1

\* Mutant: nobody is told of the requeued messages.
WakeupsNone(c) == <<>>

\* Requeued work is offered to whoever is alive, once.
Wakeups(c) == IF unacked[c] = <<>> THEN <<>> ELSE <<DispatchEvent(QueueOf[c])>>

\* An ack or nack of the consumer waits in this instant.
Finishing(c) ==
  \E i \in DOMAIN urgent : urgent[i].type \in {"ack", "nack"} /\ urgent[i].consumer = c

\* enrich reads the messages held at the time of the crash.  An auto-ack
\* consumer holds none.
Crash(c) ==
  LET q == QueueOf[c]
  IN /\ DueNow
     /\ crashEpoch[c] < MaxCrashes[c]
     /\ CrashRacesAck \/ ~Finishing(c)
     /\ crashed' = crashed \cup {c}
     /\ crashEpoch' = [crashEpoch EXCEPT ![c] = NextEpoch(c)]
     /\ unacked' = [unacked EXCEPT ![c] = <<>>]
     /\ queues' = [queues EXCEPT ![q] = Restored(@, unacked[c], q)]
     /\ fresh' = FreshNow \cup UNION {Marks(m.id, q, StayNow(m.id, q, FreshNow)) : m \in Range(unacked[c])}
     /\ Schedule(later, Wakeups(c), EmptyBag)
     /\ UNCHANGED <<roundRobin, counter, history>>

Recover(c) ==
  /\ DueNow
  /\ c \in crashed
  /\ crashed' = crashed \ {c}
  /\ Schedule(later, <<DispatchEvent(QueueOf[c])>>, EmptyBag)
  /\ fresh' = FreshNow
  /\ UNCHANGED <<queues, unacked, roundRobin, crashEpoch, counter, history>>

-----------------------------------------------------------------------------

DueEvent(e) == Route(e) \/ Enqueue(e) \/ TtlExpire(e) \/ Deliver(e) \/ ConsumeDone(e)

Chained == PublishReply \/ Dispatch \/ Ack \/ Nack

\* The kernel fires an event it holds.
Kernel == Chained \/ \E e \in BagToSet(later) : DueEvent(e)

Next ==
  \/ \E p \in Script : Publish(p)
  \/ \E c \in Consumers : Crash(c)
  \/ \E c \in Consumers : Recover(c)
  \/ Kernel

Spec == Init /\ [][Next]_vars

\* The kernel goes on as long as it holds an event.
FairSpec == Spec /\ WF_vars(Kernel)

-----------------------------------------------------------------------------
(* Properties *)

Queued(q, id) == Cardinality({i \in DOMAIN queues[q] : queues[q][i].msg.id = id})

\* Copies on their way between nodes of the broker.
Travelling(id) ==
  SumFunctionOnSet(later, {e \in BagToSet(later) : e.type \in {"route", "enqueue"} /\ e.msg.id = id})

\* A delivery to a consumer, or work it does, in the consumer's present life.
InHand(e) == e.type \in {"deliver", "consumeDone"} /\ Current(e)

\* Copies being delivered to consumer c or processed there.
Working(c, id) ==
  SumFunctionOnSet(later,
    {e \in BagToSet(later) : InHand(e) /\ e.consumer = c /\ e.msg.id = id})

\* Copies whose ack or nack is on its way.
Settling(c, id) ==
  Cardinality({i \in DOMAIN urgent : /\ urgent[i].type \in {"ack", "nack"}
                                     /\ urgent[i].consumer = c /\ urgent[i].msg.id = id})

Held(c, id) == Cardinality({i \in DOMAIN unacked[c] : unacked[c][i].id = id})

\* Copies with consumer c, which either holds them unacked or will ack them.
With(c, id) == Max({Held(c, id), Working(c, id) + Settling(c, id)})

Copies(id) ==
  Travelling(id) + SumFunction([q \in Queues |-> Queued(q, id)])
                 + SumFunction([c \in Consumers |-> With(c, id)])

Accounted(id) == Copies(id) + acks[id] + drops[id]

\* Whatever is on its way to a manual-ack consumer in its present life, or being
\* processed there, is among the messages it holds: a crash returns the very
\* messages whose work it destroys, and the epoch stamp destroys that work.
WorkIsHeld ==
  ~CrashRacesAck =>
    \A c \in Consumers \ AutoAck, id \in Ids : Working(c, id) > 0 => Held(c, id) > 0

\* Every copy of a message is in the broker, or was acknowledged, or was
\* dropped with a journal line, and only one of these: crashes, rejections,
\* expiries and overflows neither lose a copy nor ack it twice, and no work goes
\* on that a crash has given back.  When a crash may overtake an ack, they still
\* lose none.
EveryCopyAccounted ==
  /\ WorkIsHeld
  /\ AutoAck = {} =>
       \A id \in 1 .. counter :
         /\ Accounted(id) >= made[id]
         /\ ~CrashRacesAck => Accounted(id) = made[id]

ByHand(q) == \A c \in AutoAck : QueueOf[c] # q

\* Between instants, a message only waits while a consumer could take it if
\* some consumer of the queue is at work, whose ack will dispatch it.  (An
\* auto-ack consumer that crashes while it works wakes nobody.)
NoStrandedMessage ==
  urgent = <<>> =>
    \A q \in Queues :
      ByHand(q) /\ queues[q] # <<>> /\ EligibleConsumers(q) # <<>> =>
        \E e \in BagToSet(later) : InHand(e) /\ QueueOf[e.consumer] = q

TimersOf(e) == IF BagIn(e, later) THEN later[e] ELSE 0

\* Every entry of a queue with a TTL has a timer of its own, also when two
\* copies of a message are enqueued in the same instant (messageTtlMs:
\* "Milliseconds before an unconsumed message is dead-lettered").
EveryEntryWillExpire ==
  \A q \in HasTtl : \A i \in DOMAIN queues[q] :
    LET entry == queues[q][i]
        twins == {j \in DOMAIN queues[q] : /\ queues[q][j].msg.id = entry.msg.id
                                           /\ queues[q][j].stay = entry.stay}
    IN TimersOf(TtlEvent(entry.msg.id, q, entry.stay)) >= Cardinality(twins)

\* Where nothing is rejected or expires, so that no message can cycle: once no
\* consumer is down any more, every published message is acknowledged.
Acyclic == MayNack = {} /\ HasTtl = {}

EveryMessageSettles ==
  <>[](crashed = {}) => <>[](Acyclic => \A id \in 1 .. counter : acks[id] >= 1)
=============================================================================
