-------------------------------- MODULE KafkaLog --------------------------------
(***************************************************************************)
(* A partition's log as the broker keeps it: appending and reading         *)
(* (src/src/brokers/kafka/engine/log.ts), segments and retention           *)
(* (segments.ts), compaction (compaction.ts), and the transaction markers  *)
(* with what they let a consumer see (transaction.ts).                     *)
(*                                                                         *)
(* A partition has one replica here, its leader; recomputeHighWatermark    *)
(* then gives the log end itself.  Followers are in KafkaPartition.        *)
(***************************************************************************)
EXTENDS Integers, SequencesExt

CONSTANT Null    \* null and undefined

Outcomes == {"commit", "abort"}

\* A LogEntry.  `control` is Null for a record, the outcome for a marker;
\* producerId and sequence are those of an idempotent producer.  A record that
\* is not in a log yet has offset 0.
LogEntry ==
  [ offset : Nat, key : STRING \cup {Null}, value : STRING \cup {Null}, timestamp : Nat,
    bytes : Nat, producerId : Nat \cup {Null}, sequence : Nat \cup {Null},
    txnId : STRING \cup {Null}, control : Outcomes \cup {Null} ]

-----------------------------------------------------------------------------
(* log.ts *)

Length(text) == IF text = Null THEN 0 ELSE Len(text)

EstimateBytes(key, value) == Length(key) + Length(value) + 40

CreatePartition(topic, index) ==
  [ topic            |-> topic,
    index            |-> index,
    log              |-> <<>>,
    logStartOffset   |-> 0,
    leo              |-> 0,
    lastStableOffset |-> 0,
    segments         |-> <<[baseOffset |-> 0, bytes |-> 0, createdAt |-> 0, sealed |-> FALSE]>>,
    producerState    |-> <<>> ]     \* the last sequence accepted from each producerId

\* recomputeHighWatermark: the least log end of the in-sync replicas.
HighWatermark(partition) == partition.leo

AppendRecord(partition, record) ==
  [partition EXCEPT !.log = Append(@, [record EXCEPT !.offset = partition.leo]),
                    !.leo = @ + 1]

From(log, offset) == SelectSeq(log, LAMBDA entry : entry.offset >= offset)

ReadFrom(partition, offset, maxRecords) ==
  LET readable == SelectSeq(From(partition.log, offset),
                            LAMBDA entry : entry.offset < HighWatermark(partition))
  IN IF offset < partition.logStartOffset THEN <<>>
     ELSE SubSeq(readable, 1, Min({maxRecords, Len(readable)}))

-----------------------------------------------------------------------------
(* segments.ts; an option that is absent is Null *)

\* Whether the open segment is full, or old, before an entry is put in it.
RollsBefore(segment, entry, config, now) ==
  /\ segment.bytes > 0
  /\ \/ config.segmentBytes # Null /\ segment.bytes + entry.bytes > config.segmentBytes
     \/ config.segmentMs # Null /\ now - segment.createdAt >= config.segmentMs

\* The last of `segments` takes an entry, in a segment of its own if it rolls.
\* Mutant: the new segment starts at the entry that filled the old one.
PlacedLate(segments, entry, config, now) ==
  LET open == Last(segments)
  IN IF RollsBefore(open, entry, config, now)
     THEN Append(Front(segments), [open EXCEPT !.sealed = TRUE])
            \o <<[baseOffset |-> entry.offset + 1, bytes |-> entry.bytes, createdAt |-> now,
                  sealed |-> FALSE]>>
     ELSE Append(Front(segments), [open EXCEPT !.bytes = @ + entry.bytes])

Placed(segments, entry, config, now) ==
  LET open == Last(segments)
  IN IF RollsBefore(open, entry, config, now)
     THEN Append(Front(segments), [open EXCEPT !.sealed = TRUE])
            \o <<[baseOffset |-> entry.offset, bytes |-> entry.bytes, createdAt |-> now,
                  sealed |-> FALSE]>>
     ELSE Append(Front(segments), [open EXCEPT !.bytes = @ + entry.bytes])

\* The entries from the open segment on are played again into it, emptied.
RollSegments(partition, config, now) ==
  LET open    == Last(partition.segments)
      pending == From(partition.log, open.baseOffset)
      emptied == Append(Front(partition.segments), [open EXCEPT !.bytes = 0])
  IN [partition EXCEPT !.segments =
        FoldLeft(LAMBDA segments, entry : Placed(segments, entry, config, now), emptied, pending)]

Sum(numbers) == FoldLeft(LAMBDA a, b : a + b, 0, numbers)

\* How many sealed segments go, the oldest first, up to the first that stays.
Expired(segments, config, now) ==
  LET sealed   == SelectSeq(segments, LAMBDA s : s.sealed)
      sizes    == [i \in DOMAIN segments |-> segments[i].bytes]
      goes(i)  == \/ config.retentionMs # Null /\ now - sealed[i].createdAt > config.retentionMs
                  \/ /\ config.retentionBytes # Null
                     /\ Sum(sizes) - Sum(SubSeq(sizes, 1, i - 1)) > config.retentionBytes
  IN CHOOSE n \in 0 .. Len(sealed) :
       /\ \A i \in 1 .. n : goes(i)
       /\ n = Len(sealed) \/ ~goes(n + 1)

\* applyRetention: sealed segments precede the open one, so those that go are
\* the first ones.
ApplyRetention(partition, config, now) ==
  LET n         == Expired(partition.segments, config, now)
      surviving == SubSeq(partition.segments, n + 1, Len(partition.segments))
      start     == IF surviving = <<>> THEN partition.logStartOffset ELSE surviving[1].baseOffset
  IN IF n = 0 THEN partition
     ELSE [partition EXCEPT !.segments = surviving,
                            !.logStartOffset = start,
                            !.log = From(@, start)]

-----------------------------------------------------------------------------
(* compaction.ts *)

\* How many entries come before the first of the open segment.
CompactionBoundary(partition) ==
  LET open == Last(partition.segments)
  IN Min({Len(partition.log)} \cup
         {i - 1 : i \in {j \in DOMAIN partition.log : partition.log[j].offset >= open.baseOffset}})

\* A record a newer one of its key makes unneeded, among those eligible.
Superseded(eligible, i) ==
  eligible[i].key # Null /\ \E j \in i + 1 .. Len(eligible) : eligible[j].key = eligible[i].key

\* compact: of the sealed part the newest of each key stays, unless it is a
\* tombstone, and everything without a key.
Compact(partition) ==
  LET boundary == CompactionBoundary(partition)
      eligible == SubSeq(partition.log, 1, boundary)
      stays(i) == eligible[i].key = Null \/ (~Superseded(eligible, i) /\ eligible[i].value # Null)
      kept     == FoldLeft(LAMBDA done, i : IF stays(i) THEN Append(done, eligible[i]) ELSE done,
                           <<>>, [i \in 1 .. boundary |-> i])
  IN [partition EXCEPT !.log = kept \o SubSeq(@, boundary + 1, Len(@))]

-----------------------------------------------------------------------------
(* transaction.ts *)

ControlRecord(txnId, outcome, at) ==
  [ offset |-> 0, key |-> Null, value |-> Null, timestamp |-> at,
    bytes |-> EstimateBytes(Null, Null), producerId |-> Null, sequence |-> Null,
    txnId |-> txnId, control |-> outcome ]

IsMarker(entry) == entry.control # Null

\* The transactions the log holds a marker of, with any of the outcomes.
Marked(partition, outcomes) ==
  {entry.txnId : entry \in {e \in ToSet(partition.log) : e.control \in outcomes}}

PartitionHasOpenTxnRecord(partition, txnId) ==
  /\ \E entry \in ToSet(partition.log) : entry.txnId = txnId /\ ~IsMarker(entry)
  /\ txnId \notin Marked(partition, Outcomes)

\* The offsets of records whose transaction has no marker yet.
Unresolved(partition) ==
  {e.offset : e \in {f \in ToSet(partition.log) :
                       /\ ~IsMarker(f)
                       /\ f.txnId # Null
                       /\ f.txnId \notin Marked(partition, Outcomes)}}

RecomputeLastStableOffset(partition) ==
  [partition EXCEPT !.lastStableOffset = Min({HighWatermark(partition)} \cup Unresolved(partition))]

\* Mutant: markers are withheld, but not what a transaction took back.
VisibleToCommittedWithAborted(entry, partition) ==
  ~IsMarker(entry) /\ entry.offset < partition.lastStableOffset

VisibleToCommitted(entry, partition) ==
  /\ ~IsMarker(entry)
  /\ entry.offset < partition.lastStableOffset
  /\ entry.txnId = Null \/ entry.txnId \notin Marked(partition, {"abort"})

FilterForIsolation(records, partition, isolationLevel) ==
  IF isolationLevel = "read_uncommitted"
  THEN SelectSeq(records, LAMBDA entry : ~IsMarker(entry))
  ELSE SelectSeq(records, LAMBDA entry : VisibleToCommitted(entry, partition))
=============================================================================
