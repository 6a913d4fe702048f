------------------------------- MODULE RedisKeyspace -------------------------------
(***************************************************************************)
(* The Redis keyspace: reading, writing and deleting a key with lazy       *)
(* expiry, eviction, versions and memory accounting (keyspace.ts,          *)
(* memory.ts) and the active expire cycle (expiry.ts), all of              *)
(* src/src/brokers/redis/engine.                                           *)
(*                                                                         *)
(* A keyspace state is the record RedisState; a function of the code that  *)
(* returns a new state is an operator on such records.  A lookup returns   *)
(* the state only: the key is found when it is in the domain of its keys.  *)
(* Times are virtual milliseconds, sizes are bytes.                        *)
(***************************************************************************)
EXTENDS Integers, FiniteSets, SequencesExt

CONSTANT
  ActiveExpireSample   \* ACTIVE_EXPIRE_SAMPLE

ASSUME SampleAssumption == ActiveExpireSample \in Nat \ {0}

Policies == {"noeviction", "allkeys-lru", "allkeys-lfu",
             "volatile-lru", "volatile-ttl", "allkeys-random"}

NoExpiry  == -1    \* no expiresAt
Unlimited == -1    \* no maxmemoryBytes

-----------------------------------------------------------------------------
(* memory.ts *)

\* The lengths of the elements of a list.
Bytes(list) == MapThenSumSet(LAMBDA i : Len(list[i]), DOMAIN list)

SizeOf(key, value) ==
  16 + Len(key) +
  CASE value.type = "string"         -> Len(value.value)
    [] value.type = "hash"           -> MapThenSumSet(LAMBDA f : Len(f) + Len(value.value[f]),
                                                      DOMAIN value.value)
    [] value.type \in {"list", "set"} -> Bytes(value.value)
    [] value.type = "zset"           -> MapThenSumSet(LAMBDA i : Len(value.value[i].member) + 8,
                                                      DOMAIN value.value)

RecomputeMemoryMetrics(keys) ==
  [ keysCount  |-> Cardinality(DOMAIN keys),
    memoryUsed |-> SumFunction([k \in DOMAIN keys |-> SizeOf(k, keys[k].value)]) ]

\* What a set of keys takes.
BytesOf(state, keys) ==
  SumFunctionOnSet([k \in DOMAIN state.keys |-> state.keys[k].bytes], keys)

IsVolatile(policy) == policy \in {"volatile-lru", "volatile-ttl"}

\* What is left of an order of keys when only some are wanted.
Kept(order, wanted) ==
  FoldLeft(LAMBDA done, k : IF k \in wanted THEN Append(done, k) ELSE done, <<>>, order)

CandidatesFor(state, policy) ==
  Kept(state.keyOrder, {k \in DOMAIN state.keys :
                          IsVolatile(policy) => state.keys[k].expiresAt # NoExpiry})

\* What a policy sorts by, least first; the position in keyOrder breaks ties.
Rank(record, policy) ==
  CASE policy \in {"allkeys-lru", "volatile-lru"} -> record.lastAccessAt
    [] policy = "allkeys-lfu"                     -> record.hits
    [] policy = "volatile-ttl"                    -> record.expiresAt
    [] OTHER                                      -> 0

\* The candidate that goes n-th has n - 1 before it.
RankFor(state, policy, candidates) ==
  LET rank(i)      == Rank(state.keys[candidates[i]], policy)
      before(i, j) == rank(i) < rank(j) \/ (rank(i) = rank(j) /\ i < j)
      nth(n)       == CHOOSE j \in DOMAIN candidates :
                        Cardinality({i \in DOMAIN candidates : before(i, j)}) = n - 1
  IN [n \in DOMAIN candidates |-> candidates[nth(n)]]

\* The generator state is the list of draws to come; nextInt takes the first.
\* The list is used round and round.
Drawn(rng) == Append(Tail(rng), Head(rng))

\* A draw without replacement, unless enough is freed or nothing is left.
DrawVictim(state, over, d) ==
  LET i == 1 + (Head(d.rng) % Len(d.pool))
  IN IF d.pool = <<>> \/ d.freed >= over THEN d
     ELSE [ pool  |-> RemoveAt(d.pool, i),
            rng   |-> Drawn(d.rng),
            keys  |-> Append(d.keys, d.pool[i]),
            freed |-> d.freed + state.keys[d.pool[i]].bytes ]

\* There are as many draws as candidates at most.
DrawVictims(state, candidates, over) ==
  FoldLeft(LAMBDA d, turn : DrawVictim(state, over, d),
           [pool |-> candidates, rng |-> state.rng, keys |-> <<>>, freed |-> 0],
           candidates)

\* The shortest prefix that frees enough, or all of them.
TakeVictims(state, ranked, over) ==
  LET freed(n)  == BytesOf(state, {ranked[i] : i \in 1 .. n})
      enough    == {n \in 0 .. Len(ranked) : freed(n) >= over}
      taken     == IF enough = {} THEN Len(ranked) ELSE Min(enough)
  IN [keys |-> SubSeq(ranked, 1, taken), rng |-> state.rng, freed |-> freed(taken)]

\* Mutant: the bytes that are about to be written are forgotten.
OverForgettingRequest(state, needBytes) ==
  state.metrics.memoryUsed - state.server.maxmemoryBytes

Over(state, needBytes) == state.metrics.memoryUsed + needBytes - state.server.maxmemoryBytes

\* What an eviction of `victims` comes to.
Sacrifice(victims, over) ==
  [keys |-> victims.keys, rng |-> victims.rng, oom |-> victims.freed < over]

EvictionVictims(state, needBytes) ==
  LET over       == Over(state, needBytes)
      policy     == state.server.evictionPolicy
      candidates == CandidatesFor(state, policy)
      nothing(oom) == [keys |-> <<>>, rng |-> state.rng, oom |-> oom]
  IN IF state.server.maxmemoryBytes = Unlimited \/ over <= 0
     THEN nothing(FALSE)
     ELSE IF policy = "noeviction" \/ candidates = <<>>
     THEN nothing(TRUE)
     ELSE Sacrifice(IF policy = "allkeys-random" THEN DrawVictims(state, candidates, over)
                    ELSE TakeVictims(state, RankFor(state, policy, candidates), over), over)

-----------------------------------------------------------------------------
(* keyspace.ts *)

\* What a map holds once key is set in it.
Put(map, key, value) == [k \in DOMAIN map \cup {key} |-> IF k = key THEN value ELSE map[k]]

\* keyVersions[key] ?? 0.
Version(state, key) == IF key \in DOMAIN state.keyVersions THEN state.keyVersions[key] ELSE 0

TouchKey(state, key) ==
  [state EXCEPT !.keyVersions  = Put(@, key, Version(state, key) + 1),
                !.writeCounter = @ + 1]

LivesAt(state, key, now) ==
  /\ key \in DOMAIN state.keys
  /\ state.keys[key].expiresAt = NoExpiry \/ state.keys[key].expiresAt >= now

\* A key leaves the keyspace with its bytes.
Without(state, key) ==
  [state EXCEPT !.keys     = [k \in DOMAIN @ \ {key} |-> @[k]],
                !.keyOrder = Kept(@, DOMAIN state.keys \ {key}),
                !.metrics.keysCount  = @ - 1,
                !.metrics.memoryUsed = @ - state.keys[key].bytes]

ReadKey(state, key, intent) ==
  LET counted == IF intent = "read" THEN 1 ELSE 0
  IN CASE key \notin DOMAIN state.keys -> [state EXCEPT !.metrics.misses = @ + counted]
       [] key \in DOMAIN state.keys /\ ~LivesAt(state, key, state.now) ->
            TouchKey([Without(state, key) EXCEPT !.metrics.expired = @ + 1,
                                                 !.metrics.misses  = @ + counted], key)
       [] OTHER -> [state EXCEPT !.keys[key].lastAccessAt = state.now,
                                 !.keys[key].hits         = @ + 1,
                                 !.metrics.hits           = @ + counted]

Found(state, key) == key \in DOMAIN state.keys

\* Mutant: an eviction keeps the version.
EvictSilently(state, key) == [Without(state, key) EXCEPT !.metrics.evicted = @ + 1]

Evict(state, key) == TouchKey([Without(state, key) EXCEPT !.metrics.evicted = @ + 1], key)

\* opts of writeKey: keep the deadline, set one, or (neither) drop it.
KeepTtl       == [keepTtl |-> TRUE,  expiresAt |-> NoExpiry]
ExpiresAt(at) == [keepTtl |-> FALSE, expiresAt |-> at]
DropTtl       == ExpiresAt(NoExpiry)

\* Mutant: a key that grows may be its own victim.
OthersAndSelf(state, key) == state

\* What may be evicted for a key: the others.
Others(state, key) == IF Found(state, key) THEN Without(state, key) ELSE state

\* The record goes in, once the chosen victims have gone; a refused write
\* leaves the state as it was, the generator included.
Stored(state, key, record, delta, chosen) ==
  LET existed == Found(state, key)
      working == FoldLeft(Evict, [state EXCEPT !.rng = chosen.rng], chosen.keys)
  IN IF chosen.oom THEN [state |-> state, oom |-> TRUE]
     ELSE [ state |-> TouchKey([working EXCEPT !.keys     = Put(@, key, record),
                                              !.keyOrder = IF existed THEN @ ELSE Append(@, key),
                                              !.metrics.keysCount  = @ + (IF existed THEN 0 ELSE 1),
                                              !.metrics.memoryUsed = @ + delta], key),
            oom   |-> FALSE ]

WriteKey(state, key, value, opts) ==
  LET existed == Found(state, key)
      bytes   == SizeOf(key, value)
      delta   == bytes - (IF existed THEN state.keys[key].bytes ELSE 0)
      record  == [ value        |-> value,
                   expiresAt    |-> IF ~opts.keepTtl THEN opts.expiresAt
                                    ELSE IF existed THEN state.keys[key].expiresAt
                                    ELSE NoExpiry,
                   lastAccessAt |-> state.now,
                   hits         |-> IF existed THEN state.keys[key].hits ELSE 0,
                   bytes        |-> bytes ]
  IN Stored(state, key, record, delta,
             IF delta > 0 THEN EvictionVictims(Others(state, key), bytes)
             ELSE [keys |-> <<>>, rng |-> state.rng, oom |-> FALSE])

DeleteKey(state, key) ==
  IF Found(state, key) THEN TouchKey(Without(state, key), key) ELSE state

-----------------------------------------------------------------------------
(* expiry.ts *)

Expire(state, key) ==
  IF Found(state, key) /\ ~LivesAt(state, key, state.now)
  THEN [DeleteKey(state, key) EXCEPT !.metrics.expired = @ + 1]
  ELSE state

\* Mutant: a pass ends at the first key that lives.
PassUpToFirstLiving(state) ==
  LET living == {i \in DOMAIN state.keyOrder : LivesAt(state, state.keyOrder[i], state.now)}
  IN FoldLeft(Expire, state,
              IF living = {} THEN state.keyOrder ELSE SubSeq(state.keyOrder, 1, Min(living) - 1))

\* One pass of the active expire cycle.
ActiveExpirePass(state) ==
  FoldLeft(Expire, state,
           SubSeq(state.keyOrder, 1, Min({ActiveExpireSample, Len(state.keyOrder)})))
=============================================================================
