------------------------------ MODULE KafkaProducer ------------------------------
(***************************************************************************)
(* One producer writing to one partition: the accumulator, batch flushes,  *)
(* retries and the sequence check of                                       *)
(* src/src/brokers/kafka/engine/produce.ts, over the replication of        *)
(* KafkaReplication.                                                       *)
(*                                                                         *)
(* A record is the number of the produce() call that made it, so the       *)
(* sequence enqueueRecord gives to record k is k - 1.  Keys, values and    *)
(* the partitioner do not matter here; the size of a batch is the number   *)
(* of its records.  batch-flush events carry no content: they are counted. *)
(* All produce-retry events have the same backoff, so they fire in the     *)
(* order in which they were scheduled.                                     *)
(***************************************************************************)
EXTENDS KafkaReplication, SequencesExt

CONSTANTS
  Producers,     \* the producer configurations a behaviour may start with
  BatchRecords,  \* producer.batchSize, in records
  MaxArmed       \* bound on the produce-error and ack-lost faults

\* producer.retries when it is not set.
Unlimited == -1

\* The fields of ProducerSpec that flushBatch reads; serial is maxInFlight <= 1.
ProducerConfig ==
  [acks : AcksModes, idempotent : BOOLEAN, serial : BOOLEAN, retries : Nat \cup {Unlimited}]

ASSUME ProducersAssumption == Producers \subseteq ProducerConfig
ASSUME ProducerBoundsAssumption == BatchRecords \in Nat \ {0} /\ MaxArmed \in Nat

VARIABLES
  producer,      \* the ProducerSpec; never changed
  batch,         \* ProducerRuntime.batches, for this partition
  flushes,       \* batch-flush events not fired yet
  retryQueue,    \* produce-retry events not fired yet, oldest first
  lastSequence,  \* PartitionState.producerState of this producer, or -1
  pendingErrors, \* budget of the produce-error fault
  pendingLosses, \* budget of the ack-lost fault
  armed          \* faults armed so far

producerVars ==
  <<producer, batch, flushes, retryQueue, lastSequence, pendingErrors, pendingLosses, armed>>
allVars == <<vars, producerVars>>

Acks       == producer.acks
Idempotent == producer.idempotent
Serial     == producer.serial
Retries    == producer.retries

Records == 1 .. MaxRecords

ProducerInit ==
  /\ Init
  /\ producer \in Producers
  /\ batch = <<>>
  /\ flushes = 0
  /\ retryQueue = <<>>
  /\ lastSequence = -1
  /\ pendingErrors = 0
  /\ pendingLosses = 0
  /\ armed = 0

-----------------------------------------------------------------------------
(* enqueueRecord: produce() only touches the accumulator. *)

\* A batch that opens schedules its linger flush; one that reaches the batch
\* size schedules another flush at once.
Send ==
  /\ produced < MaxRecords
  /\ produced' = produced + 1
  /\ batch' = Append(batch, produced + 1)
  /\ flushes' = flushes + (IF batch = <<>> THEN 1 ELSE 0)
                        + (IF Len(batch') >= BatchRecords THEN 1 ELSE 0)
  /\ UNCHANGED <<part, online, elections, expandDue, faults, acked, refused, copies>>
  /\ UNCHANGED <<producer, retryQueue, lastSequence, pendingErrors, pendingLosses, armed>>

-----------------------------------------------------------------------------
(* flushBatch *)

MayRetry(attempt) == Retries = Unlimited \/ attempt < Retries

NextAttempt(attempt) == IF Retries = Unlimited THEN attempt ELSE attempt + 1

\* Mutant: the flushed batch stays in the accumulator.
ClearedNever(snapshot) == batch

\* clearBatch: a batch resent from its snapshot is not in the accumulator.
Cleared(snapshot) == IF snapshot THEN batch ELSE <<>>

\* Mutant: the last failure is reported to nobody.
RetryOrFailSilently(records, attempt, snapshot, appended, queue) ==
  /\ retryQueue' = IF MayRetry(attempt)
                   THEN Append(queue, [attempt |-> NextAttempt(attempt), records |-> records])
                   ELSE queue
  /\ batch' = Cleared(snapshot)
  /\ UNCHANGED <<acked, refused>>

\* retryOrTerminal.  With one request in flight the failed batch stays in the
\* accumulator and the retry carries no records, unless its append succeeded.
RetryOrFail(records, attempt, snapshot, appended, queue) ==
  LET keep == Serial /\ ~appended
  IN IF MayRetry(attempt)
     THEN /\ retryQueue' = Append(queue, [attempt |-> NextAttempt(attempt),
                                          records |-> IF keep THEN <<>> ELSE records])
          /\ batch' = IF keep THEN batch ELSE Cleared(snapshot)
          /\ UNCHANGED <<acked, refused>>
     ELSE /\ retryQueue' = queue
          /\ batch' = Cleared(snapshot)
          /\ refused' = refused \cup Range(records)
          /\ UNCHANGED acked

\* Mutant: a gap in the sequence is accepted.
VerdictLenient(record, last) ==
  IF Idempotent /\ record - 1 <= last THEN "duplicate" ELSE "ok"

\* Mutant: whatever is not next in sequence is taken for a repetition.
VerdictNeverAhead(record, last) ==
  IF Idempotent /\ record - 1 # last + 1 THEN "duplicate" ELSE "ok"

\* checkSequence; a record without sequence is always accepted.
Verdict(record, last) ==
  IF ~Idempotent \/ record - 1 = last + 1 THEN "ok"
  ELSE IF record - 1 <= last THEN "duplicate"
  ELSE "out-of-order"

\* One turn of the append loop; an out-of-order record ends it.
Deliver(done, record) ==
  IF done.rejected # <<>>
  THEN [done EXCEPT !.rejected = Append(@, record)]
  ELSE CASE Verdict(record, done.last) = "duplicate"    -> done
         [] Verdict(record, done.last) = "out-of-order" -> [done EXCEPT !.rejected = <<record>>]
         [] Verdict(record, done.last) = "ok" ->
              [done EXCEPT !.part = AppendRecord(@, record),
                           !.last = IF Idempotent THEN record - 1 ELSE @]

Delivered(records) ==
  FoldLeft(Deliver, [part |-> part, last |-> lastSequence, rejected |-> <<>>], records)

\* The whole batch becomes one PendingAck; here, one per record of the batch.
ParkAll(p, records) ==
  [p EXCEPT !.pendingAcks =
     @ \cup {[offset |-> p.leo - 1, record |-> k] : k \in Range(records)}]

Replicated(p) == Acks # "all" \/ p.leo - 1 < p.highWatermark

\* The append loop and what follows it.
SendToLeader(records, attempt, snapshot, queue) ==
  LET d == Delivered(records)
  IN /\ lastSequence' = d.last
     /\ copies' = [copies EXCEPT ![part.leader] = d.part.log]
     /\ UNCHANGED pendingErrors
     /\ IF d.rejected # <<>>
        THEN /\ RetryOrFail(d.rejected, attempt, snapshot, FALSE, queue)
             /\ part' = d.part
             /\ UNCHANGED pendingLosses
        ELSE IF Acks # "0" /\ pendingLosses > 0
        THEN /\ pendingLosses' = pendingLosses - 1
             /\ RetryOrFail(records, attempt, snapshot, TRUE, queue)
             /\ part' = d.part
        ELSE /\ retryQueue' = queue
             /\ batch' = Cleared(snapshot)
             /\ acked' = IF Acks # "0" /\ Replicated(d.part)
                         THEN acked \cup Range(records) ELSE acked
             /\ part' = IF Replicated(d.part) THEN d.part ELSE ParkAll(d.part, records)
             /\ UNCHANGED <<refused, pendingLosses>>

\* The leader is offline, or acks=all finds the ISR below its minimum.
Blocked == part.leader \notin online \/ (Acks = "all" /\ ~EnoughReplicas(part))

FlushBatch(records, attempt, snapshot, queue) ==
  IF records = <<>>
  THEN /\ retryQueue' = queue
       /\ UNCHANGED <<part, batch, lastSequence, pendingErrors, pendingLosses,
                      acked, refused, copies>>
  ELSE IF pendingErrors > 0
  THEN /\ pendingErrors' = pendingErrors - 1
       /\ RetryOrFail(records, attempt, snapshot, FALSE, queue)
       /\ UNCHANGED <<part, lastSequence, pendingLosses, copies>>
  ELSE IF Blocked
  THEN /\ retryQueue' = queue
       /\ batch' = Cleared(snapshot)
       /\ refused' = IF Acks = "0" THEN refused ELSE refused \cup Range(records)
       /\ UNCHANGED <<part, lastSequence, pendingErrors, pendingLosses, acked, copies>>
  ELSE SendToLeader(records, attempt, snapshot, queue)

\* applyBatchFlush
BatchFlush ==
  /\ flushes > 0
  /\ flushes' = flushes - 1
  /\ FlushBatch(batch, 0, FALSE, retryQueue)
  /\ UNCHANGED <<online, elections, expandDue, faults, produced, producer, armed>>

\* applyProduceRetry
ProduceRetry ==
  /\ retryQueue # <<>>
  /\ LET event    == Head(retryQueue)
         snapshot == event.records # <<>>
     IN FlushBatch(IF snapshot THEN event.records ELSE batch,
                   event.attempt, snapshot, Tail(retryQueue))
  /\ UNCHANGED <<online, elections, expandDue, faults, produced, producer, flushes, armed>>

-----------------------------------------------------------------------------
(* Faults of the script. *)

ProduceErrorArm ==
  /\ armed < MaxArmed
  /\ armed' = armed + 1
  /\ pendingErrors' = pendingErrors + 1
  /\ UNCHANGED <<vars, producer, batch, flushes, retryQueue, lastSequence, pendingLosses>>

AckLossArm ==
  /\ armed < MaxArmed
  /\ armed' = armed + 1
  /\ pendingLosses' = pendingLosses + 1
  /\ UNCHANGED <<vars, producer, batch, flushes, retryQueue, lastSequence, pendingErrors>>

ProducerNext ==
  \/ Send
  \/ BatchFlush
  \/ ProduceRetry
  \/ ProduceErrorArm
  \/ AckLossArm
  \/ Replicate /\ UNCHANGED producerVars

ProducerSpec == ProducerInit /\ [][ProducerNext]_allVars

\* The kernel goes on as long as it holds a flush or a retry.
ProducerFairSpec == ProducerSpec /\ WF_allVars(BatchFlush \/ ProduceRetry)

-----------------------------------------------------------------------------
(* Properties *)

Stored(p, record) == \E e \in p.log : e.record = record

\* An idempotent producer's records sit in the log in the order of its
\* produce() calls, without gap and without duplicate, whatever was retried,
\* reordered by the retries, or acknowledged into the void.  With at most one
\* request in flight the first copies are in that order even without idempotence.
LogIsSendOrder ==
  /\ Idempotent => part.log = {[offset |-> k - 1, record |-> k] : k \in 1 .. part.leo}
  /\ Serial => \A e, f \in part.log :
       e.record < f.record =>
         \E g \in part.log : g.record = e.record /\ g.offset < f.offset

\* A success is only ever reported for a record that is in the log at that
\* moment (the engine's "acks=all never lies").
AcksNeverLie ==
  [][\A record \in acked' \ acked : Stored(part', record)]_allVars

\* A record is in one place at a time: accumulated, on its way to be resent,
\* parked, or answered.
Waiting == {k \in Records : \/ k \in Range(batch)
                            \/ \E i \in DOMAIN retryQueue : k \in Range(retryQueue[i].records)}

OnePlaceAtATime ==
  /\ acked \cap refused = {}
  /\ Waiting \cap (acked \cup refused \cup RecordsOf(part.pendingAcks)) = {}
  /\ RecordsOf(part.pendingAcks) \cap (acked \cup refused) = {}

AllAnswered == \A record \in 1 .. produced : record \in acked \cup refused

\* With several requests in flight and a finite retry budget, an acks=1
\* producer is told of the fate of every record it sent.
PipelinedSendsAreAnswered ==
  <>[](Acks = "1" /\ ~Serial /\ Retries # Unlimited => AllAnswered)
=============================================================================
