------------------------------- MODULE MCKafkaEngine -------------------------------
(* Topologies and scripts of KafkaEngine for TLC, the lessons among them. *)
EXTENDS KafkaLessons

MCUtf8 ==
  [key \in {"user-1", "user-2", "user-3", "user-4", "vip-1", "a"} |->
     CASE key = "user-1" -> <<117, 115, 101, 114, 45, 49>>
       [] key = "user-2" -> <<117, 115, 101, 114, 45, 50>>
       [] key = "user-3" -> <<117, 115, 101, 114, 45, 51>>
       [] key = "user-4" -> <<117, 115, 101, 114, 45, 52>>
       [] key = "vip-1"  -> <<118, 105, 112, 45, 49>>
       [] key = "a"      -> <<97>>]

-----------------------------------------------------------------------------
(* Scripts of the test bench, a few seconds each *)

\* A consumer whose group settles at once.
Quick(id, g, maxPollRecords) ==
  [Consumer(id, g, "earliest", 5000) EXCEPT !.rebalanceTimeoutMs = 200,
                                            !.maxPollRecords = maxPollRecords,
                                            !.autoCommitIntervalMs = 700]

Readers(maxPollRecords) ==
  <<[Quick("c1", "g1", maxPollRecords) EXCEPT !.isolationLevel = "read_committed"],
    Quick("c2", "g2", maxPollRecords)>>

\* A transaction that ends while records of it are in the log, in flight or in
\* the accumulator, with another producer's between, and a second that stays
\* open; readers of both kinds are there from the start.
Transacting ==
  {Lesson(1, 2000, <<Topic(ORDERS, 1)>>,
     <<[Producer("p1") EXCEPT !.idempotent = TRUE, !.lingerMs = linger], Producer("p2")>>,
     Readers(n), <<"g1", "g2">>,
     <<JoinAt(0, "c1"), JoinAt(0, "c2"), BeginAt(300, "p1"), Send(400, "p1", Null, "a1"),
       Send(450, "p2", Null, "b1"), Send(550, "p1", Null, "a2"), EndAt(endsAt, "p1", outcome),
       Send(900, "p1", Null, "a3"), BeginAt(1100, "p1"), Send(1200, "p1", Null, "a4"),
       Send(1250, "p2", Null, "b2")>>
       \o (IF again = "open" THEN <<>> ELSE <<EndAt(1500, "p1", again)>>)) :
     linger \in {0, 100}, n \in {1, 500}, endsAt \in {550, 600, 650, 1000},
     outcome \in Outcomes, again \in {"open", "abort"}}

\* Failures and lost answers over batches that wait, are full at once, or are
\* alone in flight.
Failing ==
  {Lesson(2, 1500, <<Topic(ORDERS, 1)>>,
     <<[Producer("p1") EXCEPT !.idempotent = idempotent, !.lingerMs = linger, !.retries = retries,
                              !.maxInFlight = inFlight, !.batchSize = 100]>>, <<>>, <<>>,
     Sends("p1", Null, "r", <<100, 150, 200, 210, 400, 450>>)
       \o <<ProducerFault("produce-error", 120, "p1", errors),
            ProducerFault("ack-lost", 180, "p1", losses)>>) :
     idempotent \in BOOLEAN, linger \in {0, 120}, retries \in {0, 2}, inFlight \in {1, 5},
     errors \in {0, 1, 3}, losses \in {0, 1}}

Unanswered ==
  {Lesson(2, 600, <<Topic(ORDERS, 3)>>,
     <<[Producer("p1") EXCEPT !.acks = acks, !.partitioner = "sticky", !.batchSize = 100]>>, <<>>, <<>>,
     Sends("p1", key, "r", <<100, 100, 150, 200, 200, 200>>) \o <<ProducerFault("ack-lost", 150, "p1", 1)>>) :
     acks \in {"0", "1"}, key \in {Null, "a"}}

\* Two keys and records without one, over segments of two records; the reader
\* comes early or late, reads one record at a time or all, and goes back.
Compacting ==
  {Lesson(3, 2600,
     <<[Topic(ORDERS, 1) EXCEPT !.config.segmentBytes = 100, !.config.cleanupPolicy = "compact"]>>,
     <<[Producer("p1") EXCEPT !.idempotent = TRUE]>>, Readers(n), <<"g1", "g2">>,
     Sends("p1", "user-1", "v", <<100, 200>>)
       \o <<JoinAt(joinsAt, "c1"), JoinAt(joinsAt, "c2"), Send(300, "p1", "user-2", "v3"), BeginAt(350, "p1"),
            Send(400, "p1", "user-1", "v4"), Send(500, "p1", key, Null), EndAt(550, "p1", outcome),
            Send(600, "p1", "user-2", "v5"), Send(700, "p1", "user-1", "v6"),
            Send(800, "p1", "user-1", "v7"), SeekAt(1500, "c1", <<ORDERS, 0>>, "earliest", 0),
            SeekAt(1500, "c2", <<ORDERS, 0>>, "offset", 2), Send(1550, "p1", "user-2", "v8"),
            Send(1950, "p1", "user-2", "v9")>>) :
     n \in {1, 500}, joinsAt \in {0, 850}, key \in {Null, "user-2"}, outcome \in Outcomes}

\* Old and surplus segments go while a slow reader is on its way through them.
Retaining ==
  {Lesson(4, 2600,
     <<[Topic(ORDERS, 1) EXCEPT !.config.segmentBytes = 90, !.config.segmentMs = age,
                                !.config.retentionMs = kept[1], !.config.retentionBytes = kept[2]]>>,
     <<Producer("p1")>>,
     <<[Quick("c1", "g1", 1) EXCEPT !.autoOffsetReset = reset]>>, <<"g1">>,
     Sends("p1", Null, "r", Every(50, 50, 10)) \o <<JoinAt(0, "c1"), StallAt(600, "c1", 700)>>
       \o Sends("p1", Null, "s", <<700, 800, 1300, 1900>>)
       \o <<SeekAt(1700, "c1", <<ORDERS, 0>>, "latest", 0)>>) :
     age \in {Null, 150}, kept \in {<<400, Null>>, <<Null, 200>>, <<300, 150>>},
     reset \in {"earliest", "latest"}}

\* Members come, go, hang and come back, partitions are paused, and records
\* are written all the while.
Grouped ==
  {LET Member(id) == [Quick(id, "g1", 2) EXCEPT !.assignor = assignor, !.maxPollIntervalMs = 900,
                                                !.processingMs = 150]
   IN Lesson(5, 4200, <<Topic(ORDERS, 3)>>, <<[Producer("p1") EXCEPT !.partitioner = "round-robin"]>>,
        <<Member("c1"), Member("c2"), Member("c3")>>, <<"g1">>,
        Sends("p1", Null, "r", Every(50, 210, 14))
          \o <<JoinAt(0, "c1"), JoinAt(secondAt, "c2"), FailAt(300, "c1", 1), PauseAt(500, "c1", <<ORDERS, 1>>),
               StallAt(600, "c2", 2500), ResumeAt(900, "c1", <<ORDERS, 1>>), JoinAt(1300, "c3"),
               LeaveAt(leavesAt, "c1"), LeaveAt(2500, "c3"), LeaveAt(2700, "c2"), LeaveAt(2900, "c3"), JoinAt(3300, "c1"),
               CommitAt(3800, "c1")>>) :
     assignor \in {"range", "round-robin", "sticky", "cooperative-sticky"},
     secondAt \in {100, 250}, leavesAt \in {1450, 2300}}

MCInputs == LESSONS \cup Transacting \cup Failing \cup Unanswered \cup Compacting \cup Retaining \cup Grouped
=============================================================================
