------------------------------ MODULE MCRabbitLessons ------------------------------
(* The lessons of RabbitMQ for TLC: their nodes and keys. *)
EXTENDS RabbitLessons

MCLessons ==
  {helloWorld, directExchange, fanoutExchange, topicExchange, headersExchange, competingConsumers,
   ackModes, prefetchQos, nackRequeue, durabilityAndConfirms, dlxBasics, ttlAndMaxLength,
   retryWithBackoff, rpcPattern, priorityQueue, priorityCrash, delayedMessage, quorumVsClassic}

MCExchanges == UNION {IdsOf(l.exchanges) : l \in MCLessons}
MCQueues    == UNION {IdsOf(l.queues) : l \in MCLessons}
MCConsumers == UNION {IdsOf(l.consumers) : l \in MCLessons}

\* The keys of the scripts, of the replies, and those dead letters are given.
MCKeys ==
  UNION {{p.key : p \in ToSet(l.script)} \cup {p.correlationId : p \in ToSet(l.script)}
           \cup ({q.deadLetterKey : q \in ToSet(l.queues)} \ {NoKey}) : l \in MCLessons}

MCInputs == {Simulated(l) : l \in MCLessons}
=============================================================================
