------------------------------- MODULE MCRabbitBroker -------------------------------
(* Topologies and scripts of RabbitBroker for TLC. *)
EXTENDS RabbitBroker, RabbitRouting

CONSTANTS c1, c2, main, left, right, retry, work, wait, k

OnKey(destinations) == [key \in Keys |-> destinations]

\* A script action without reply, and a request whose reply goes to x as well.
Action(x, priority) == [exchange |-> x, key |-> k, priority |-> priority,
                        replyTo |-> NoExchange, correlationId |-> k]
Request(x) == [Action(x, 0) EXCEPT !.replyTo = x]

\* One exchange, one queue, and a consumer with prefetch 1 that never fails.
Plain ==
  [ hits               |-> [x \in Exchanges |-> OnKey(<<work>>)],
    queueOf            |-> [c \in Consumers |-> work],
    consumerOrder      |-> <<c1>>,
    prefetch           |-> [c \in Consumers |-> 1],
    autoAck            |-> {},
    mayNack            |-> {},
    requeueOnNack      |-> {},
    prioritised        |-> {},
    hasTtl             |-> {},
    maxLength          |-> [q \in Queues |-> Boundless],
    deadLetterExchange |-> [q \in Queues |-> NoExchange],
    deadLetterKey      |-> [q \in Queues |-> NoKey],
    script             |-> {Action(main, 0)},
    cycle              |-> 1,
    maxMessages        |-> 3,
    maxCrashes         |-> [c \in Consumers |-> 0],
    crashRacesAck      |-> FALSE ]

\* A priority queue and one consumer that holds up to two messages and may
\* crash.
Priorities ==
  [Plain EXCEPT !.prefetch = [c \in Consumers |-> 2], !.prioritised = {work},
                !.script = {Action(main, 0), Action(main, 1)},
                !.maxCrashes = [c \in Consumers |-> IF c = c1 THEN 1 ELSE 0]]

\* The same, and it may reject and requeue any message.
Rejecting == [Priorities EXCEPT !.mayNack = {c1}, !.requeueOnNack = {c1}, !.maxMessages = 2]

\* The same, and it may crash in the very instant in which it finishes.
Racing == [Rejecting EXCEPT !.crashRacesAck = TRUE]

\* Two competing consumers: the first rejects for good, the second may crash.
Competing ==
  [Plain EXCEPT !.consumerOrder = <<c1, c2>>, !.cycle = 2,
                !.prefetch = [c \in Consumers |-> IF c = c1 THEN 1 ELSE 2],
                !.mayNack = {c1},
                !.maxCrashes = [c \in Consumers |-> IF c = c2 THEN 1 ELSE 0]]

\* Requests and their replies, with two consumers that may each crash once.
Replies ==
  [Plain EXCEPT !.consumerOrder = <<c1, c2>>, !.cycle = 2, !.script = {Request(main)},
                !.maxMessages = 2, !.maxCrashes = [c \in Consumers |-> 1]]

\* main forks into left and right, which meet again in work, so that every
\* message reaches work twice.  work holds one message; what overflows or
\* expires there goes through retry to wait, and from wait back to work.
RetryCycle ==
  [Plain EXCEPT !.hits = [x \in Exchanges |-> OnKey(CASE x = main  -> <<left, right>>
                                                      [] x = retry -> <<wait>>
                                                      [] OTHER     -> <<work>>)],
                !.hasTtl = {work, wait},
                !.maxLength = [q \in Queues |-> IF q = work THEN 1 ELSE Boundless],
                !.deadLetterExchange = [q \in Queues |-> IF q = work THEN retry ELSE right],
                !.maxMessages = 1]

\* The same without a consumer or a ceiling: both copies go round, sometimes
\* together.
Unattended == [RetryCycle EXCEPT !.consumerOrder = <<>>,
                                 !.maxLength = [q \in Queues |-> Boundless]]

SevenInputs ==
  {Priorities, Rejecting, Racing, Competing, Replies, RetryCycle, Unattended}

-----------------------------------------------------------------------------
(* Routing: every pattern and key of up to four words, and every list of up  *)
(* to three bindings of each exchange type against a few messages.           *)

CONSTANTS a, b

MaxWords == 4
MaxBindings == 3

Binding(p, q, headers, mode) ==
  [pattern |-> p, destination |-> q, headers |-> headers, xMatch |-> mode]

Header(n, v) == [name |-> n, value |-> v]

SomeBindings ==
  { Binding(<<a>>, work, {Header(a, 1)}, "all"), Binding(<<a, Hash>>, wait, {}, "any"),
    Binding(<<Star>>, work, {Header(a, 1), Header(b, 1)}, "any"), Binding(<<"">>, wait, {}, "all") }

SomeMessages ==
  [key : {<<>>, <<a>>, <<a, b>>}, headers : {{}, {Header(b, 1)}, {Header(a, 1), Header(b, 2)}}]

\* The dynamic programme of matchTopic decides whether the pattern can be laid
\* over the key.
TopicIsCover ==
  \A pattern \in BoundedSeq({Star, Hash, a, b}, MaxWords) \ {<<>>}, key \in BoundedSeq({a, b}, MaxWords) :
    MatchTopic(pattern, key) <=> Covers(pattern, key)

\* A direct exchange takes the empty key for that of a binding without one.
EmptyKeyIsDirect ==
  \A binding \in SomeBindings, m \in SomeMessages :
    m.key = <<>> => (MatchBinding("direct", binding, m) <=> binding.pattern = <<"">>)

\* resolveDestinations: "Every matching binding, deduplicated by destination,
\* in binding order".
DestinationsOnceInOrder ==
  \A type \in {"direct", "fanout", "topic", "headers"}, m \in SomeMessages,
    bindings \in BoundedSeq(SomeBindings, MaxBindings) :
      IsDestinationList(ResolveDestinations(type, bindings, m), type, bindings, m)

\* What an exchange decides is what its type promises, whatever the wildcards and
\* however often a destination is bound.  The exchanges decide alike in every state:
\* the first ones do.
RoutingIsRight == counter = 0 => TopicIsCover /\ EmptyKeyIsDirect /\ DestinationsOnceInOrder
=============================================================================
