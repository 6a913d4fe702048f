------------------------------- MODULE RabbitLessons -------------------------------
(***************************************************************************)
(* The seventeen lessons of src/src/brokers/rabbitmq/lessons: topologies   *)
(* and scripts the simulator ships with, and what their tests and their    *)
(* narratives tell of them.                                                *)
(***************************************************************************)
EXTENDS RabbitEngine

-----------------------------------------------------------------------------
(* Topologies: a lesson names what differs from the defaults *)

Queue(id) == [NoQueue EXCEPT !.id = id]

Consumer(id, queueId, processingMs) ==
  [ id |-> id, queueId |-> queueId, prefetch |-> 1, autoAck |-> FALSE,
    processingMs |-> processingMs, jitterMs |-> 0, nackTenths |-> 0, requeueOnNack |-> TRUE ]

Exchange(id, type) == [id |-> id, type |-> type]

Bound(x, destination, pattern) ==
  [exchange |-> x, destination |-> destination, pattern |-> pattern, headers |-> {}, xMatch |-> "all"]

BoundByHeaders(x, destination, headers, xMatch) ==
  [Bound(x, destination, <<"">>) EXCEPT !.headers = headers, !.xMatch = xMatch]

-----------------------------------------------------------------------------
(* Scripts *)

NoKeyWords == Key(<<>>, {})
KeyOf(w) == Key(<<w>>, {})

PublishAt(at, x, key) ==
  [ at |-> at, publisher |-> "p1", exchange |-> x, key |-> key, priority |-> 0,
    replyTo |-> NoExchange, correlationId |-> NoKeyWords, persistent |-> FALSE ]

PublishesAt(times, x, key) == [i \in DOMAIN times |-> PublishAt(times[i], x, key)]

Every(step, n) == [i \in 1 .. n |-> (i - 1) * step]

FailureAt(at, consumer, kind) == [at |-> at, consumer |-> consumer, kind |-> kind]

Lesson(seed, durationMs, exchanges, queueSpecs, consumers, bindings, script, failures) ==
  [ seed |-> seed, durationMs |-> durationMs, exchanges |-> exchanges, queues |-> queueSpecs,
    consumers |-> consumers, bindings |-> bindings, script |-> script, failures |-> failures ]

-----------------------------------------------------------------------------
(* What can be told of a moment *)

\* The events up to a time have fired, and none after it.
Moment(t) == run.now <= t /\ (run.batch = <<>> \/ Now > t)

TheEnd == ~Running

Entries(type, node) == SelectSeq(run.journal, LAMBDA line : line.type = type /\ line.node = node)
CountOf(type) == Len(SelectSeq(run.journal, LAMBDA line : line.type = type))
IdsIn(lines) == [i \in DOMAIN lines |-> lines[i].id]
AckedBy(c) == IdsIn(Entries("ack", c))
EnqueuedIn(q) == IdsIn(Entries("enqueue", q))
Times(s, x) == Cardinality({i \in DOMAIN s : s[i] = x})

\* applyPublish and applyConfirm count what the journal shows.
Published == CountOf("publish")
Confirmed == CountOf("confirm")
Acked     == CountOf("ack")
Dropped   == CountOf("unroutable")

-----------------------------------------------------------------------------
(* basics *)

helloWorld ==
  Lesson(1, 12000, <<Exchange("default", "direct")>>, <<Queue("hello")>>,
    <<Consumer("c1", "hello", 900)>>, <<Bound("default", "hello", <<"hello">>)>>,
    PublishesAt(<<0, 1500, 3000, 4500>>, "default", KeyOf("hello")), <<>>)

\* The golden journal, message by message: each is published, routed, confirmed,
\* enqueued, delivered and acked, at these times.
GoldenTimes ==
  << <<0, 600, 800, 1200, 1800, 2700>>, <<1500, 2100, 2300, 2700, 3300, 4200>>,
     <<3000, 3600, 3800, 4200, 4800, 5700>>, <<4500, 5100, 5300, 5700, 6300, 7200>> >>

GoldenTypes == <<"publish", "route", "confirm", "enqueue", "deliver", "ack">>

HelloWorldTold ==
  /\ Len(unacked["c1"]) <= 1
  /\ TheEnd =>
       /\ Len(run.journal) = 24
       /\ \A id \in 1 .. 4, n \in 1 .. 6 :
            \E i \in DOMAIN run.journal :
              /\ run.journal[i].id = id /\ run.journal[i].type = GoldenTypes[n]
              /\ run.journal[i].at = GoldenTimes[id][n]
       /\ \A i \in 1 .. 23 :
            \/ run.journal[i].at < run.journal[i + 1].at
            \/ run.journal[i].type = "enqueue" /\ run.journal[i + 1].type = "ack"

directExchange ==
  Lesson(2, 10000, <<Exchange("ex", "direct")>>, <<Queue("pay"), Queue("ship"), Queue("audit")>>,
    <<Consumer("c-pay", "pay", 700), Consumer("c-ship", "ship", 700), Consumer("c-audit", "audit", 700)>>,
    <<Bound("ex", "pay", <<"payment">>), Bound("ex", "ship", <<"shipping">>),
      Bound("ex", "audit", <<"payment">>)>>,
    <<PublishAt(0, "ex", KeyOf("payment")), PublishAt(1200, "ex", KeyOf("shipping")),
      PublishAt(2400, "ex", KeyOf("payment")), PublishAt(3600, "ex", KeyOf("refund")),
      PublishAt(4800, "ex", KeyOf("shipping"))>>, <<>>)

DirectExchangeTold ==
  TheEnd =>
    /\ Dropped = 1 /\ Acked = 6
    /\ AckedBy("c-pay") = <<1, 3>> /\ AckedBy("c-audit") = <<1, 3>> /\ AckedBy("c-ship") = <<2, 5>>

fanoutExchange ==
  Lesson(3, 9000, <<Exchange("ex", "fanout")>>, <<Queue("email"), Queue("analytics"), Queue("audit")>>,
    <<Consumer("c-email", "email", 500), Consumer("c-analytics", "analytics", 500),
      Consumer("c-audit", "audit", 500)>>,
    <<Bound("ex", "email", <<"ignored-a">>), Bound("ex", "analytics", <<"ignored-b">>),
      Bound("ex", "audit", <<"ignored-c">>)>>,
    PublishesAt(<<0, 2000, 4000>>, "ex", KeyOf("whatever")), <<>>)

FanoutExchangeTold ==
  TheEnd =>
    /\ Published = 3 /\ Acked = 9 /\ Dropped = 0
    /\ \A c \in {"c-email", "c-analytics", "c-audit"} : AckedBy(c) = <<1, 2, 3>>

topicExchange ==
  Lesson(4, 12000, <<Exchange("ex", "topic")>>,
    <<Queue("eu-orders"), Queue("all-orders"), Queue("created-only")>>,
    <<Consumer("c-eu-orders", "eu-orders", 500), Consumer("c-all-orders", "all-orders", 500),
      Consumer("c-created-only", "created-only", 500)>>,
    <<Bound("ex", "eu-orders", <<"order", "eu", "*">>), Bound("ex", "all-orders", <<"order", "#">>),
      Bound("ex", "created-only", <<"*", "*", "created">>)>>,
    <<PublishAt(0, "ex", Key(<<"order", "eu", "created">>, {})),
      PublishAt(1800, "ex", Key(<<"order", "us", "created">>, {})),
      PublishAt(3600, "ex", Key(<<"order", "eu", "cancelled">>, {})),
      PublishAt(5400, "ex", Key(<<"payment", "eu", "created">>, {})),
      PublishAt(7200, "ex", KeyOf("order"))>>, <<>>)

\* * stands for one word, # for any number of them, none included.
TopicExchangeTold ==
  TheEnd =>
    /\ Dropped = 0
    /\ AckedBy("c-eu-orders") = <<1, 3>> /\ AckedBy("c-all-orders") = <<1, 2, 3, 5>>
    /\ AckedBy("c-created-only") = <<1, 2, 4>>

PdfFormat == [name |-> "format", value |-> "pdf"]
CsvFormat == [name |-> "format", value |-> "csv"]
ReportKind  == [name |-> "kind", value |-> "report"]
InvoiceKind == [name |-> "kind", value |-> "invoice"]

headersExchange ==
  Lesson(5, 10000, <<Exchange("ex", "headers")>>,
    <<Queue("pdf-reports"), Queue("anything-pdf"), Queue("csv-or-report")>>,
    <<Consumer("c-pdf-reports", "pdf-reports", 500), Consumer("c-anything-pdf", "anything-pdf", 500),
      Consumer("c-csv-or-report", "csv-or-report", 500)>>,
    <<BoundByHeaders("ex", "pdf-reports", {PdfFormat, ReportKind}, "all"),
      BoundByHeaders("ex", "anything-pdf", {PdfFormat}, "any"),
      BoundByHeaders("ex", "csv-or-report", {CsvFormat, ReportKind}, "any")>>,
    <<PublishAt(0, "ex", Key(<<>>, {PdfFormat, ReportKind})), PublishAt(2000, "ex", Key(<<>>, {PdfFormat})),
      PublishAt(4000, "ex", Key(<<>>, {CsvFormat})), PublishAt(6000, "ex", Key(<<>>, {InvoiceKind}))>>, <<>>)

\* Exactly one message has both headers; either one will do for `any`.
HeadersExchangeTold ==
  TheEnd =>
    /\ AckedBy("c-pdf-reports") = <<1>> /\ AckedBy("c-anything-pdf") = <<1, 2>>
    /\ AckedBy("c-csv-or-report") = <<1, 3>>
    /\ Dropped = 1 /\ Acked = 5

competingConsumers ==
  Lesson(6, 14000, <<Exchange("ex", "direct")>>, <<Queue("work")>>,
    <<Consumer("fast", "work", 400), Consumer("medium", "work", 900), Consumer("slow", "work", 2000)>>,
    <<Bound("ex", "work", <<"job">>)>>, PublishesAt(Every(300, 9), "ex", KeyOf("job")), <<>>)

\* The nine jobs are split and none is done twice; the fast one does most.
CompetingConsumersTold ==
  TheEnd =>
    /\ Published = 9 /\ IsInjective(AckedBy("fast") \o AckedBy("medium") \o AckedBy("slow")) /\ Acked = 9
    /\ Len(AckedBy("fast")) > Len(AckedBy("slow"))

-----------------------------------------------------------------------------
(* reliability *)

ackModes ==
  Lesson(7, 14000, <<Exchange("ex", "fanout")>>, <<Queue("auto-q"), Queue("manual-q")>>,
    <<[Consumer("auto", "auto-q", 1500) EXCEPT !.autoAck = TRUE], Consumer("manual", "manual-q", 1500)>>,
    <<Bound("ex", "auto-q", <<"">>), Bound("ex", "manual-q", <<"">>)>>,
    PublishesAt(Every(800, 4), "ex", KeyOf("job")),
    <<FailureAt(2000, "auto", "crash"), FailureAt(2000, "manual", "crash"),
      FailureAt(6000, "auto", "recover"), FailureAt(6000, "manual", "recover")>>)

\* The manual lane confirms every message once, over the crash; the auto lane
\* has lost some.
AckModesTold ==
  TheEnd =>
    /\ IsInjective(AckedBy("manual")) /\ Len(AckedBy("manual")) = 4
    /\ Len(AckedBy("auto")) < 4

prefetchQos ==
  Lesson(8, 20000, <<Exchange("ex", "fanout")>>, <<Queue("greedy-q"), Queue("fair-q")>>,
    <<[Consumer("greedy", "greedy-q", 1200) EXCEPT !.prefetch = 0, !.jitterMs = 600],
      [Consumer("fair-a", "fair-q", 1200) EXCEPT !.jitterMs = 600],
      [Consumer("fair-b", "fair-q", 1200) EXCEPT !.jitterMs = 600]>>,
    <<Bound("ex", "greedy-q", <<"">>), Bound("ex", "fair-q", <<"">>)>>,
    PublishesAt(Every(200, 12), "ex", KeyOf("job")), <<>>)

\* What greedy took is out of its queue at once, though it is far from done; a
\* fair consumer never holds a second message.
PrefetchQosTold ==
  /\ \A c \in {"fair-a", "fair-b"} : Len(unacked[c]) <= 1
  /\ Moment(3000) =>
       /\ Len(unacked["greedy"]) > 1 /\ queues["greedy-q"] = <<>>
       /\ Len(queues["fair-q"]) > 0
  /\ TheEnd => Acked = 24

nackRequeue ==
  Lesson(9, 18000, <<Exchange("ex", "direct")>>, <<Queue("flaky-q")>>,
    <<[Consumer("flaky", "flaky-q", 600) EXCEPT !.nackTenths = 5]>>,
    <<Bound("ex", "flaky-q", <<"job">>)>>, PublishesAt(Every(500, 5), "ex", KeyOf("job")), <<>>)

NackRequeueTold ==
  TheEnd =>
    /\ CountOf("nack") > 0 /\ Acked = 5 /\ IsInjective(AckedBy("flaky"))
    /\ CountOf("redeliver") = CountOf("nack")

durabilityAndConfirms ==
  Lesson(10, 12000, <<Exchange("ex", "direct")>>, <<[Queue("orders") EXCEPT !.durable = TRUE]>>,
    <<[Consumer("worker", "orders", 900) EXCEPT !.requeueOnNack = FALSE]>>,
    <<Bound("ex", "orders", <<"order">>)>>,
    [i \in 1 .. 4 |-> [PublishAt(Every(1500, 4)[i], "ex", KeyOf("order")) EXCEPT !.persistent = (i # 3)]], <<>>)

\* The one transient message is confirmed sooner after its publish.
DurabilityAndConfirmsTold ==
  TheEnd =>
    /\ Confirmed = 4 /\ Acked = 4
    /\ \A id \in 1 .. 4 : \E i \in DOMAIN run.journal :
         /\ run.journal[i].type = "confirm" /\ run.journal[i].id = id
         /\ run.journal[i].at = Every(1500, 4)[id] + TravelMs + (IF id = 3 THEN 200 ELSE 900)

dlxBasics ==
  Lesson(11, 16000, <<Exchange("ex", "direct"), Exchange("dlx", "fanout")>>,
    <<[Queue("work") EXCEPT !.deadLetterExchange = "dlx"], Queue("dead")>>,
    <<[Consumer("worker", "work", 500) EXCEPT !.nackTenths = 6, !.requeueOnNack = FALSE],
      Consumer("dead-inspector", "dead", 400)>>,
    <<Bound("ex", "work", <<"job">>), Bound("dlx", "dead", <<"">>)>>,
    PublishesAt(Every(600, 6), "ex", KeyOf("job")), <<>>)

\* Every rejected message, and no other, reaches the inspector.
DlxBasicsTold ==
  TheEnd =>
    /\ CountOf("rejected") > 0
    /\ AckedBy("dead-inspector") = IdsIn(Entries("rejected", "work"))
    /\ ToSet(AckedBy("worker")) = 1 .. 6 \ ToSet(AckedBy("dead-inspector"))

ttlAndMaxLength ==
  Lesson(12, 16000, <<Exchange("ex", "direct"), Exchange("dlx", "fanout")>>,
    <<[Queue("short-lived") EXCEPT !.messageTtlMs = 2500, !.maxLength = 3, !.deadLetterExchange = "dlx"],
      Queue("expired")>>,
    <<Consumer("expired-inspector", "expired", 400)>>,
    <<Bound("ex", "short-lived", <<"job">>), Bound("dlx", "expired", <<"">>)>>,
    PublishesAt(Every(400, 6), "ex", KeyOf("job")), <<>>)

\* The fourth message pushes the oldest out, and so on; the last three expire.
\* All six end up in the other queue.
TtlAndMaxLengthTold ==
  TheEnd =>
    /\ IdsIn(Entries("maxlen", "short-lived")) = <<1, 2, 3>>
    /\ IdsIn(Entries("expired", "short-lived")) = <<4, 5, 6>>
    /\ ToSet(AckedBy("expired-inspector")) = 1 .. 6

retryWithBackoff ==
  Lesson(13, 30000, <<Exchange("main-ex", "direct"), Exchange("retry-ex", "direct")>>,
    <<[Queue("work") EXCEPT !.deadLetterExchange = "retry-ex", !.deadLetterKey = KeyOf("retry")],
      [Queue("retry-1s") EXCEPT !.messageTtlMs = 1000, !.deadLetterExchange = "main-ex",
                                !.deadLetterKey = KeyOf("order")],
      Queue("parking-lot")>>,
    <<[Consumer("worker", "work", 400) EXCEPT !.nackTenths = 7, !.requeueOnNack = FALSE],
      Consumer("parking-inspector", "parking-lot", 400)>>,
    <<Bound("main-ex", "work", <<"order">>), Bound("retry-ex", "retry-1s", <<"retry">>),
      Bound("retry-ex", "parking-lot", <<"parked">>)>>,
    PublishesAt(Every(800, 4), "main-ex", KeyOf("order")), <<>>)

\* What comes back to work was rejected there, waited in retry-1s and left it by
\* its TTL; nothing is parked, nothing is confirmed twice, and what is not
\* confirmed yet is going round.
RetryWithBackoffTold ==
  TheEnd =>
    LET visits   == EnqueuedIn("work")
        returned == {id \in 1 .. 4 : Times(visits, id) > 1}
    IN /\ returned # {} /\ Published = 4
       /\ \A id \in returned :
            /\ id \in ToSet(IdsIn(Entries("rejected", "work")))
            /\ id \in ToSet(EnqueuedIn("retry-1s")) \cap ToSet(IdsIn(Entries("expired", "retry-1s")))
       /\ EnqueuedIn("parking-lot") = <<>>
       /\ IsInjective(AckedBy("worker")) /\ Acked >= 3
       /\ 1 .. 4 \ ToSet(AckedBy("worker")) \subseteq returned

-----------------------------------------------------------------------------
(* patterns *)

CorrelationIds == <<"corr-1", "corr-2", "corr-3">>

rpcPattern ==
  Lesson(14, 16000, <<Exchange("rpc-ex", "direct"), Exchange("replies", "direct")>>,
    <<Queue("rpc-work"), Queue("reply-q")>>,
    <<[Consumer("worker", "rpc-work", 1200) EXCEPT !.requeueOnNack = FALSE],
      [Consumer("caller", "reply-q", 200) EXCEPT !.requeueOnNack = FALSE]>>,
    <<Bound("rpc-ex", "rpc-work", <<"compute">>)>>
      \o [i \in 1 .. 3 |-> Bound("replies", "reply-q", <<CorrelationIds[i]>>)],
    [i \in 1 .. 3 |-> [PublishAt(Every(2000, 3)[i], "rpc-ex", KeyOf("compute")) EXCEPT
                         !.replyTo = "replies", !.correlationId = KeyOf(CorrelationIds[i])]], <<>>)

\* Every request is answered, under its own correlation id.
RpcPatternTold ==
  /\ \A i \in DOMAIN unacked["caller"] : unacked["caller"][i].key = unacked["caller"][i].correlationId
  /\ TheEnd =>
       /\ Published = 6 /\ Acked = 6
       /\ Len(AckedBy("worker")) = 3 /\ Len(AckedBy("caller")) = 3
       /\ ToSet(AckedBy("worker")) \cap ToSet(AckedBy("caller")) = {}

Priorities == <<0, 0, 0, 9, 0, 5, 0, 9>>

priorityQueue ==
  Lesson(15, 16000, <<Exchange("ex", "direct")>>, <<[Queue("jobs") EXCEPT !.maxPriority = 10]>>,
    <<[Consumer("worker", "jobs", 1500) EXCEPT !.requeueOnNack = FALSE]>>,
    <<Bound("ex", "jobs", <<"job">>)>>,
    [i \in 1 .. 8 |-> [PublishAt(Every(200, 8)[i], "ex", KeyOf("job")) EXCEPT !.priority = Priorities[i]]], <<>>)

\* The first job leaves before there is anything to sort; the higher priorities
\* overtake, and inside a priority the first to come is the first to go.
PriorityQueueTold ==
  TheEnd => IdsIn(Entries("deliver", "worker")) = <<1, 4, 8, 6, 2, 3, 5, 7>>

\* The same queue, and a worker that crashes with a message of low priority in
\* its hands (requeueByPriority).
priorityCrash ==
  [priorityQueue EXCEPT !.script = SubSeq(@, 2, 4), !.failures = <<FailureAt(2100, "worker", "crash"),
                                                                    FailureAt(3000, "worker", "recover")>>]

\* "a requeued message must not jump ahead of higher-priority messages", but it
\* goes ahead of its equals.
PriorityCrashTold ==
  TheEnd => IdsIn(Entries("deliver", "worker")) = <<1, 3, 2>> /\ IdsIn(Entries("redeliver", "worker")) = <<1>>
              /\ AckedBy("worker") = <<3, 1, 2>>

delayedMessage ==
  Lesson(16, 20000, <<Exchange("delay-ex", "direct"), Exchange("main-ex", "direct")>>,
    <<[Queue("delay-5s") EXCEPT !.messageTtlMs = 5000, !.deadLetterExchange = "main-ex",
                                !.deadLetterKey = KeyOf("now")], Queue("due")>>,
    <<Consumer("handler", "due", 400)>>,
    <<Bound("delay-ex", "delay-5s", <<"delay">>), Bound("main-ex", "due", <<"now">>)>>,
    PublishesAt(Every(500, 3), "delay-ex", KeyOf("delay")), <<>>)

\* Every message is held for its full TTL, and they come out as they went in.
DelayedMessageTold ==
  /\ Moment(3000) => Len(queues["delay-5s"]) = 3 /\ EnqueuedIn("due") = <<>>
  /\ TheEnd =>
       LET arrivals == Entries("enqueue", "due")
       IN /\ [i \in DOMAIN arrivals |-> arrivals[i].at] = <<7400, 7900, 8400>>
          /\ queues["delay-5s"] = <<>>
          /\ CountOf("expired") = 3 /\ AckedBy("handler") = <<1, 2, 3>>

quorumVsClassic ==
  Lesson(17, 20000, <<Exchange("fanout-ex", "fanout")>>, <<Queue("classic-q"), Queue("quorum-q")>>,
    <<[Consumer("classic-consumer", "classic-q", 1800) EXCEPT !.prefetch = 2],
      [Consumer("quorum-consumer", "quorum-q", 1800) EXCEPT !.prefetch = 2]>>,
    <<Bound("fanout-ex", "classic-q", <<"">>), Bound("fanout-ex", "quorum-q", <<"">>)>>,
    PublishesAt(Every(400, 6), "fanout-ex", KeyOf("job")),
    <<FailureAt(3000, "classic-consumer", "crash"), FailureAt(3000, "quorum-consumer", "crash"),
      FailureAt(7000, "classic-consumer", "recover"), FailureAt(7000, "quorum-consumer", "recover")>>)

\* Both lanes confirm the same six messages, each once, over the crash.
QuorumVsClassicTold ==
  TheEnd =>
    /\ CountOf("consumerCrash") = 2 /\ CountOf("redeliver") > 0
    /\ IsInjective(AckedBy("classic-consumer")) /\ Len(AckedBy("classic-consumer")) = 6
    /\ AckedBy("classic-consumer") = AckedBy("quorum-consumer")

-----------------------------------------------------------------------------

\* Every lesson goes the way its tests and its narrative tell, at the moments
\* they name; in every one each publish is confirmed.
LessonsRunAsTold ==
  /\ TheEnd => Published > 0 /\ Confirmed = Published
  /\ lesson = helloWorld            => HelloWorldTold
  /\ lesson = directExchange        => DirectExchangeTold
  /\ lesson = fanoutExchange        => FanoutExchangeTold
  /\ lesson = topicExchange         => TopicExchangeTold
  /\ lesson = headersExchange       => HeadersExchangeTold
  /\ lesson = competingConsumers    => CompetingConsumersTold
  /\ lesson = ackModes              => AckModesTold
  /\ lesson = prefetchQos           => PrefetchQosTold
  /\ lesson = nackRequeue           => NackRequeueTold
  /\ lesson = durabilityAndConfirms => DurabilityAndConfirmsTold
  /\ lesson = dlxBasics             => DlxBasicsTold
  /\ lesson = ttlAndMaxLength       => TtlAndMaxLengthTold
  /\ lesson = retryWithBackoff      => RetryWithBackoffTold
  /\ lesson = rpcPattern            => RpcPatternTold
  /\ lesson = priorityQueue         => PriorityQueueTold
  /\ lesson = priorityCrash         => PriorityCrashTold
  /\ lesson = delayedMessage        => DelayedMessageTold
  /\ lesson = quorumVsClassic       => QuorumVsClassicTold
=============================================================================
