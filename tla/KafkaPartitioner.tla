----------------------------- MODULE KafkaPartitioner -----------------------------
(***************************************************************************)
(* Which partition a record goes to: pickPartition of                      *)
(* src/src/brokers/kafka/engine/partitioner.ts and the 32-bit hash of      *)
(* murmur2.ts.  A key is hashed as the sequence of its UTF-8 bytes.        *)
(***************************************************************************)
EXTENDS KernelRandom

CONSTANT Null    \* null and undefined

-----------------------------------------------------------------------------
(* murmur2.ts *)

Seed == <<140, 178, 71, 151>>    \* 0x9747b28c
M == <<149, 233, 209, 91>>       \* 0x5bd1e995

\* One round: four bytes of the key are mixed into the hash.
Mixed(h, chunk) ==
  LET k == Multiply(chunk, M)
  IN XorWords(Multiply(h, M), Multiply(XorWords(k, ShiftRight(k, 3, 0)), M))

\* The last one to three bytes.
Tail3(h, rest) ==
  IF rest = <<>> THEN h
  ELSE Multiply(XorWords(h, Bytes4([i \in 1 .. 4 |-> IF i <= Len(rest) THEN rest[i] ELSE 0])), M)

Rounds(bytes) ==
  FoldLeft(LAMBDA h, i : Mixed(h, SubSeq(bytes, 4 * i - 3, 4 * i)),
           XorWords(Seed, <<Len(bytes) % 256, Len(bytes) \div 256, 0, 0>>),
           [i \in 1 .. Len(bytes) \div 4 |-> i])

\* The last rounds, which avalanche.
Finished(h) ==
  LET mixed == Multiply(XorWords(h, ShiftRight(h, 1, 5)), M)
  IN XorWords(mixed, ShiftRight(mixed, 1, 7))

Murmur2(bytes) ==
  Finished(Tail3(Rounds(bytes), SubSeq(bytes, 4 * (Len(bytes) \div 4) + 1, Len(bytes))))

\* value & 0x7fffffff
ToPositive(word) == [word EXCEPT ![4] = @ % 128]

-----------------------------------------------------------------------------
(* partitioner.ts *)

\* A pick leaves the counter, the sticky partition and the generator behind.
Pick(partition, counter, sticky, rng) ==
  [partition |-> partition, counter |-> counter, sticky |-> sticky, rng |-> rng]

Drawn(draw, counter) == Pick(draw.value, counter, draw.value, draw.rng)

\* bytes: those of the key, Null when the record has none.
PickPartition(bytes, partitioner, count, counter, sticky, rng) ==
  CASE bytes # Null ->
         Pick(Modulo(ToPositive(Murmur2(bytes)), count), counter, sticky, rng)
    [] bytes = Null /\ partitioner = "round-robin" ->
         Pick(counter % count, counter + 1, sticky, rng)
    [] bytes = Null /\ partitioner # "round-robin" /\ sticky # Null ->
         Pick(sticky, counter, sticky, rng)
    [] OTHER -> Drawn(NextInt(rng, count), counter)
=============================================================================
