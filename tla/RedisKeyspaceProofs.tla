----------------------------- MODULE RedisKeyspaceProofs -----------------------------
(***************************************************************************)
(* What RedisKeyspace keeps, for every keyspace: its books, its versions   *)
(* and its budget.  The lemmas about sums over finite sets, and about the  *)
(* kept part of a list, are those of RabbitTypeProofs.  RedisKeyspace is   *)
(* an instance since its names are not all its own.                        *)
(***************************************************************************)
EXTENDS RabbitTypeProofs

CONSTANT ActiveExpireSample   \* how many keys a pass of the active expire cycle looks at

Redis == INSTANCE RedisKeyspace

\* The list names each member of the set once.
Lists(list, set) ==
  /\ list \in Seq(set)
  /\ \A k \in set : \E i \in DOMAIN list : list[i] = k
  /\ \A i, j \in DOMAIN list : list[i] = list[j] => i = j

\* Kept goes through the list and leaves out what is not wanted.
ListedSoFar(ctx, turn, done) ==
  /\ done \in Seq(ctx.set \cap ctx.wanted)
  /\ \A i \in DOMAIN done : \E j \in 1 .. turn : done[i] = ctx.list[j]
  /\ \A j \in 1 .. turn : ctx.list[j] \in ctx.wanted => \E i \in DOMAIN done : done[i] = ctx.list[j]
  /\ \A i, j \in DOMAIN done : done[i] = done[j] => i = j

ListFold == INSTANCE LeftFold WITH Op <- KeepStep, Inv <- ListedSoFar

\* Kept lists one element more or leaves it out.
LEMMA ListTurn ==
  ASSUME NEW ctx, Lists(ctx.list, ctx.set), NEW turn \in 1 .. Len(ctx.list),
         NEW done, ListedSoFar(ctx, turn - 1, done), NEW aux
  PROVE  ListedSoFar(ctx, turn, KeepStep(ctx.wanted, aux, done, ctx.list[turn]))
<1> DEFINE rest == ctx.set \cap ctx.wanted
           k    == ctx.list[turn]
           next == Append(done, k)
<1>1. /\ ctx.list \in Seq(ctx.set) /\ turn \in DOMAIN ctx.list /\ k \in ctx.set
      /\ done \in Seq(rest) /\ turn \in Nat
  BY DEF Lists, ListedSoFar
<1>2. CASE k \notin ctx.wanted
  BY <1>1, <1>2 DEF KeepStep, ListedSoFar
<1>3. CASE k \in ctx.wanted
  <2>1. k \in rest /\ next \in Seq(rest)
    BY <1>1, <1>3
  <2> HIDE DEF rest, k
  <2>2. /\ DOMAIN next = DOMAIN done \cup {Len(done) + 1} /\ Len(done) + 1 \notin DOMAIN done
        /\ \A i \in DOMAIN done : next[i] = done[i]
        /\ next[Len(done) + 1] = k
    BY <1>1, <2>1
  <2> HIDE DEF next
  <2>3. 1 .. turn = (1 .. turn - 1) \cup {turn} /\ k = ctx.list[turn]
    BY <1>1 DEF k
  <2>4. \A i \in DOMAIN next : \E j \in 1 .. turn : next[i] = ctx.list[j]
    BY <2>2, <2>3 DEF ListedSoFar
  <2>5. \A j \in 1 .. turn : ctx.list[j] \in ctx.wanted => \E i \in DOMAIN next : next[i] = ctx.list[j]
    BY <2>2, <2>3 DEF ListedSoFar
  <2>6. \A i \in DOMAIN done : done[i] # k
    <3> SUFFICES ASSUME NEW i \in DOMAIN done, done[i] = k PROVE FALSE
      OBVIOUS
    <3>1. PICK j \in 1 .. turn - 1 : done[i] = ctx.list[j]
      BY DEF ListedSoFar
    <3>2. j \in DOMAIN ctx.list /\ j # turn
      BY <1>1, <3>1
    <3> QED
      BY <1>1, <2>3, <3>1, <3>2 DEF Lists
  <2>7. \A i, j \in DOMAIN next : next[i] = next[j] => i = j
    BY <2>2, <2>6 DEF ListedSoFar
  <2>8. KeepStep(ctx.wanted, aux, done, ctx.list[turn]) = next
    BY <1>3, <2>3 DEF KeepStep, next
  <2> QED
    BY <2>1, <2>4, <2>5, <2>7, <2>8 DEF ListedSoFar, rest
<1> QED
  BY <1>2, <1>3

\* What is kept lists what is wanted.
LEMMA KeptLists ==
  ASSUME NEW list, NEW set, Lists(list, set), NEW wanted
  PROVE  Lists(Redis!Kept(list, wanted), set \cap wanted)
<1> DEFINE ctx  == [list |-> list, set |-> set, wanted |-> wanted]
           done == ListFold!Folded(wanted, 0, << >>, list)
<1>1. ctx.list = list /\ ctx.set = set /\ ctx.wanted = wanted
  OBVIOUS
<1> HIDE DEF ctx
<1>2. list \in Seq(set) /\ Len(list) \in Nat /\ DOMAIN list = 1 .. Len(list)
  BY DEF Lists
<1>3. ListedSoFar(ctx, 0, << >>)
  <2>1. << >> \in Seq(set \cap wanted) /\ DOMAIN << >> = {} /\ 1 .. 0 = {}
    OBVIOUS
  <2> QED
    BY <1>1, <2>1 DEF ListedSoFar
<1>4. \A i \in 1 .. Len(list) : \A acc :
        ListedSoFar(ctx, i - 1, acc) => ListedSoFar(ctx, i, KeepStep(wanted, 0, acc, list[i]))
  BY <1>1, ListTurn
<1>5. ListedSoFar(ctx, Len(list), done)
  BY <1>2, <1>3, <1>4, ListFold!FoldKeeps
<1>6. Redis!Kept(list, wanted) = done
  BY DEF Redis!Kept, ListFold!Folded, KeepStep, Redis!FoldLeft, ListFold!FoldLeft,
         Redis!MapThenFoldSet, ListFold!MapThenFoldSet, Redis!Max, ListFold!Max
<1> HIDE DEF done
<1>7. \A k \in set \cap wanted : \E i \in DOMAIN done : done[i] = k
  <2> TAKE k \in set \cap wanted
  <2>1. PICK j \in DOMAIN list : list[j] = k
    BY DEF Lists
  <2> QED
    BY <1>1, <1>2, <1>5, <2>1 DEF ListedSoFar
<1> QED
  BY <1>1, <1>5, <1>6, <1>7 DEF Lists, ListedSoFar



\* A list grows by one it does not have.
LEMMA ListGrows ==
  ASSUME NEW list, NEW set, Lists(list, set), NEW k, k \notin set
  PROVE  Lists(Append(list, k), set \cup {k})
<1> DEFINE more == Append(list, k)
<1>1. list \in Seq(set \cup {k}) /\ list \in Seq(set) /\ Len(list) \in Nat
  BY DEF Lists
<1>2. /\ more \in Seq(set \cup {k})
      /\ DOMAIN more = DOMAIN list \cup {Len(list) + 1} /\ Len(list) + 1 \notin DOMAIN list
      /\ \A i \in DOMAIN list : more[i] = list[i]
      /\ more[Len(list) + 1] = k
  BY <1>1
<1> HIDE DEF more
<1>3. \A i \in DOMAIN list : more[i] # k
  BY <1>1, <1>2
<1>4. \A x \in set \cup {k} : \E i \in DOMAIN more : more[i] = x
  BY <1>2 DEF Lists
<1>5. \A i, j \in DOMAIN more : more[i] = more[j] => i = j
  BY <1>2, <1>3 DEF Lists
<1> QED
  BY <1>2, <1>4, <1>5 DEF Lists, more

\* The fields of RedisState that the keyspace reads or writes.
KeyspaceFields ==
  {"now", "rng", "server", "keys", "keyOrder", "keyVersions", "writeCounter", "metrics"}

\* A record remembers the size of its value.
RecordOK(key, record) ==
  /\ DOMAIN record = {"value", "expiresAt", "lastAccessAt", "hits", "bytes"}
  /\ record.expiresAt \in Int /\ record.lastAccessAt \in Int /\ record.hits \in Int
  /\ record.bytes \in Nat
  /\ record.bytes = Redis!SizeOf(key, record.value)

\* The parts a keyspace state is made of.
PartsOK(s) ==
  /\ KeyspaceFields \subseteq DOMAIN s
  /\ s.now \in Int
  /\ s.rng \in Seq(Nat) \ {<<>>}
  /\ s.server.maxmemoryBytes \in Int
  /\ IsFiniteSet(DOMAIN s.keys)
  /\ \A k \in DOMAIN s.keys : RecordOK(k, s.keys[k])
  /\ {"keysCount", "memoryUsed"} \subseteq DOMAIN s.metrics

\* Versions are numbers.
VersionsOK(s) == \A k \in DOMAIN s.keyVersions : s.keyVersions[k] \in Nat

\* keyOrder names every key that is there once, and the metrics tell how many
\* there are and what they take.
BooksOK(s) ==
  /\ Lists(s.keyOrder, DOMAIN s.keys)
  /\ [ keysCount  |-> s.metrics.keysCount,
       memoryUsed |-> s.metrics.memoryUsed ] = Redis!RecomputeMemoryMetrics(s.keys)

\* A keyspace as it has to be.
KeyspaceOK(s) == PartsOK(s) /\ VersionsOK(s) /\ BooksOK(s)

\* What a client can see of a key: whether it is there, its value and deadline.
Seen(s, key) ==
  IF Redis!Found(s, key) THEN {<<s.keys[key].value, s.keys[key].expiresAt>>} ELSE {}

\* From s to q no version falls, and that of a key that looks different rises.
VersionsTell(s, q) ==
  \A key : /\ Redis!Version(s, key) <= Redis!Version(q, key)
           /\ Seen(s, key) # Seen(q, key) => Redis!Version(s, key) < Redis!Version(q, key)

\* What each key takes.
BytesIn(s) == [k \in DOMAIN s.keys |-> s.keys[k].bytes]

\* What a key takes is a number, the one its record remembers.
LEMMA BytesAreNumbers ==
  ASSUME NEW s, PartsOK(s)
  PROVE  \A k \in DOMAIN s.keys : BytesIn(s)[k] \in Nat /\ BytesIn(s)[k] = s.keys[k].bytes
  BY DEF PartsOK, RecordOK, BytesIn

\* What BytesOf adds up is the sum over a set of keys.
LEMMA BytesAreSums ==
  ASSUME NEW s, NEW set
  PROVE  Redis!BytesOf(s, set) = Sum(BytesIn(s), set)
  BY DEF Redis!BytesOf, BytesIn, Sum, SumFunctionOnSet, FoldFunctionOnSet, MapThenFoldSet,
         Redis!SumFunctionOnSet, Redis!FoldFunctionOnSet, Redis!MapThenFoldSet

\* The books are right when the count is the number of keys and the memory is
\* the sum of what they take.
LEMMA BooksAreSums ==
  ASSUME NEW s, PartsOK(s)
  PROVE  BooksOK(s) <=> /\ Lists(s.keyOrder, DOMAIN s.keys)
                        /\ s.metrics.keysCount = Cardinality(DOMAIN s.keys)
                        /\ s.metrics.memoryUsed = Sum(BytesIn(s), DOMAIN s.keys)
<1> DEFINE sizes == [k \in DOMAIN s.keys |-> Redis!SizeOf(k, s.keys[k].value)]
<1>1. sizes = BytesIn(s)
  BY DEF PartsOK, RecordOK, BytesIn
<1>2. Redis!SumFunction(sizes) = Sum(sizes, DOMAIN s.keys)
  BY DEF Sum, SumFunctionOnSet, FoldFunctionOnSet, MapThenFoldSet,
         Redis!SumFunction, Redis!SumFunctionOnSet, Redis!FoldFunctionOnSet, Redis!MapThenFoldSet
<1>3. Redis!RecomputeMemoryMetrics(s.keys) =
        [keysCount |-> Cardinality(DOMAIN s.keys), memoryUsed |-> Redis!SumFunction(sizes)]
  BY DEF Redis!RecomputeMemoryMetrics, Redis!Cardinality, Cardinality
<1> HIDE DEF sizes
<1> QED
  BY <1>1, <1>2, <1>3 DEF BooksOK

\* A key without a version has version 0.
LEMMA VersionIsNumber ==
  ASSUME NEW s, VersionsOK(s), NEW key
  PROVE  Redis!Version(s, key) \in Nat
  BY DEF Redis!Version, VersionsOK

\* What the versions tell of one step and of the next they tell of both.
LEMMA TellsAgain ==
  ASSUME NEW s, NEW q, NEW r, VersionsOK(s), VersionsOK(q), VersionsOK(r),
         VersionsTell(s, q), VersionsTell(q, r)
  PROVE  VersionsTell(s, r)
<1> SUFFICES ASSUME NEW key
             PROVE  /\ Redis!Version(s, key) <= Redis!Version(r, key)
                    /\ Seen(s, key) # Seen(r, key) => Redis!Version(s, key) < Redis!Version(r, key)
  BY DEF VersionsTell
<1>1. /\ Redis!Version(s, key) \in Nat /\ Redis!Version(q, key) \in Nat
      /\ Redis!Version(r, key) \in Nat
  BY VersionIsNumber
<1>2. /\ Redis!Version(s, key) <= Redis!Version(q, key)
      /\ Seen(s, key) # Seen(q, key) => Redis!Version(s, key) < Redis!Version(q, key)
      /\ Redis!Version(q, key) <= Redis!Version(r, key)
      /\ Seen(q, key) # Seen(r, key) => Redis!Version(q, key) < Redis!Version(r, key)
  BY DEF VersionsTell
<1> QED
  BY <1>1, <1>2

\* A version rises with whatever else a client may see of its key.
LEMMA TouchTells ==
  ASSUME NEW s, NEW q, NEW key, VersionsOK(s),
         q.keyVersions = Redis!Put(s.keyVersions, key, Redis!Version(s, key) + 1),
         \A k : k # key => Seen(s, k) = Seen(q, k)
  PROVE  VersionsOK(q) /\ VersionsTell(s, q)
<1>1. \A k : Redis!Version(s, k) \in Nat
  BY VersionIsNumber
<1>2. /\ DOMAIN q.keyVersions = DOMAIN s.keyVersions \cup {key}
      /\ \A k \in DOMAIN s.keyVersions \cup {key} :
           q.keyVersions[k] = IF k = key THEN Redis!Version(s, key) + 1 ELSE s.keyVersions[k]
  BY DEF Redis!Put
<1>3. VersionsOK(q)
  BY <1>1, <1>2 DEF VersionsOK
<1>4. Redis!Version(q, key) = q.keyVersions[key]
  BY <1>2 DEF Redis!Version
<1>5. \A k : k # key => Redis!Version(q, k) = Redis!Version(s, k)
  BY <1>2 DEF Redis!Version
<1>6. Redis!Version(q, key) = Redis!Version(s, key) + 1
  BY <1>2, <1>4
<1> QED
  BY <1>1, <1>3, <1>5, <1>6 DEF VersionsTell

\* From s to q the key goes from the keyspace, and nothing else does.
Removed(s, q, key) ==
  /\ DOMAIN q = DOMAIN s
  /\ q.now = s.now /\ q.rng = s.rng /\ q.server = s.server
  /\ q.keys = [k \in DOMAIN s.keys \ {key} |-> s.keys[k]]
  /\ q.keyOrder = Redis!Kept(s.keyOrder, DOMAIN s.keys \ {key})
  /\ DOMAIN q.metrics = DOMAIN s.metrics
  /\ q.metrics.keysCount = s.metrics.keysCount - 1
  /\ q.metrics.memoryUsed = s.metrics.memoryUsed - s.keys[key].bytes

\* A key that goes takes its place in the order, in the count and in the memory along.
LEMMA RemovingKeeps ==
  ASSUME NEW s, NEW q, PartsOK(s), BooksOK(s), NEW key \in DOMAIN s.keys, Removed(s, q, key)
  PROVE  PartsOK(q) /\ BooksOK(q)
<1> DEFINE rest == DOMAIN s.keys \ {key}
<1>1. DOMAIN q.keys = rest /\ \A k \in rest : q.keys[k] = s.keys[k]
  BY DEF Removed
<1>2. /\ IsFiniteSet(DOMAIN s.keys) /\ IsFiniteSet(rest)
      /\ Cardinality(rest) = Cardinality(DOMAIN s.keys) - 1
  BY FS_RemoveElement DEF PartsOK
<1>3. PartsOK(q)
  BY <1>1, <1>2 DEF PartsOK, Removed
<1>4. /\ Lists(s.keyOrder, DOMAIN s.keys)
      /\ s.metrics.keysCount = Cardinality(DOMAIN s.keys)
      /\ s.metrics.memoryUsed = Sum(BytesIn(s), DOMAIN s.keys)
  BY BooksAreSums
<1>5. Lists(q.keyOrder, DOMAIN q.keys)
  <2>1. Lists(q.keyOrder, DOMAIN s.keys \cap rest)
    BY <1>4, KeptLists DEF Removed
  <2>2. DOMAIN s.keys \cap rest = rest
    OBVIOUS
  <2> HIDE DEF rest
  <2> QED
    BY <1>1, <2>1, <2>2
<1>6. q.metrics.memoryUsed = Sum(BytesIn(q), DOMAIN q.keys)
  <2>1. \A k \in DOMAIN s.keys : BytesIn(s)[k] \in Nat /\ BytesIn(s)[k] = s.keys[k].bytes
    BY BytesAreNumbers
  <2>2. \A k \in rest : BytesIn(q)[k] = BytesIn(s)[k]
    BY <1>1, <2>1 DEF BytesIn
  <2>3. Sum(BytesIn(s), DOMAIN s.keys) = BytesIn(s)[key] + Sum(BytesIn(s), rest)
    BY <1>2, <2>1, SumOfRest
  <2>4. Sum(BytesIn(q), rest) = Sum(BytesIn(s), rest)
    BY <1>2, <2>1, <2>2, SumOfSame
  <2>5. Sum(BytesIn(s), rest) \in Nat /\ BytesIn(s)[key] \in Nat
    BY <1>2, <2>1, SumIsNumber
  <2>6. q.metrics.memoryUsed = s.metrics.memoryUsed - BytesIn(s)[key]
    BY <2>1 DEF Removed
  <2> HIDE DEF rest
  <2> QED
    BY <1>1, <1>4, <2>3, <2>4, <2>5, <2>6
<1>7. q.metrics.keysCount = Cardinality(DOMAIN q.keys)
  BY <1>1, <1>2, <1>4 DEF Removed
<1> QED
  BY <1>3, <1>5, <1>6, <1>7, BooksAreSums

\* Without takes a key out.
LEMMA WithoutRemoves ==
  ASSUME NEW s, PartsOK(s), NEW key
  PROVE  /\ Removed(s, Redis!Without(s, key), key)
         /\ Redis!Without(s, key).keyVersions = s.keyVersions
  BY DEF Redis!Without, PartsOK, KeyspaceFields, Removed

\* The key goes, which is a change of it.
Lost(s, q, key) ==
  /\ Removed(s, q, key)
  /\ q.keyVersions = Redis!Put(s.keyVersions, key, Redis!Version(s, key) + 1)

\* A key that goes with its bytes and a new version leaves the keyspace sound.
LEMMA LosingKeeps ==
  ASSUME NEW s, NEW q, KeyspaceOK(s), NEW key \in DOMAIN s.keys, Lost(s, q, key)
  PROVE  KeyspaceOK(q) /\ VersionsTell(s, q)
<1>1. PartsOK(q) /\ BooksOK(q)
  BY RemovingKeeps DEF KeyspaceOK, Lost
<1>2. \A k : k # key => Seen(s, k) = Seen(q, k)
  BY DEF Seen, Redis!Found, Lost, Removed
<1>3. VersionsOK(q) /\ VersionsTell(s, q)
  BY <1>2, TouchTells DEF KeyspaceOK, Lost
<1> QED
  BY <1>1, <1>3 DEF KeyspaceOK

\* Nothing that a client can tell apart has changed, nor what a key takes.
Alike(s, q) ==
  /\ DOMAIN q = DOMAIN s
  /\ q.now = s.now /\ q.server = s.server
  /\ q.rng \in Seq(Nat) \ {<<>>}
  /\ DOMAIN q.keys = DOMAIN s.keys
  /\ \A k \in DOMAIN s.keys : /\ RecordOK(k, q.keys[k])
                              /\ q.keys[k].value = s.keys[k].value
                              /\ q.keys[k].expiresAt = s.keys[k].expiresAt
                              /\ q.keys[k].bytes = s.keys[k].bytes
  /\ q.keyOrder = s.keyOrder
  /\ q.keyVersions = s.keyVersions
  /\ DOMAIN q.metrics = DOMAIN s.metrics
  /\ q.metrics.keysCount = s.metrics.keysCount
  /\ q.metrics.memoryUsed = s.metrics.memoryUsed

\* A keyspace that differs in statistics and access marks only is as sound.
LEMMA AlikeKeeps ==
  ASSUME NEW s, NEW q, KeyspaceOK(s), Alike(s, q)
  PROVE  KeyspaceOK(q) /\ VersionsTell(s, q)
<1>1. PartsOK(q) /\ VersionsOK(q)
  BY DEF KeyspaceOK, PartsOK, VersionsOK, Alike
<1>2. BytesIn(q) = BytesIn(s)
  BY DEF BytesIn, Alike
<1>3. BooksOK(q)
  BY <1>1, <1>2, BooksAreSums DEF KeyspaceOK, Alike
<1>4. \A k : Redis!Version(s, k) \in Nat /\ Redis!Version(q, k) = Redis!Version(s, k)
  BY VersionIsNumber DEF KeyspaceOK, Alike, Redis!Version
<1>5. \A k : Seen(s, k) = Seen(q, k)
  BY DEF Alike, Seen, Redis!Found
<1> QED
  BY <1>1, <1>3, <1>4, <1>5 DEF VersionsTell, KeyspaceOK

\* A keyspace is like itself.
LEMMA AlikeItself ==
  ASSUME NEW s, KeyspaceOK(s)
  PROVE  Alike(s, s)
  BY DEF Alike, KeyspaceOK, PartsOK

\* TouchKey changes versions only.
LEMMA TouchedIsLost ==
  ASSUME NEW s, NEW q, NEW key, PartsOK(s), Removed(s, q, key), q.keyVersions = s.keyVersions
  PROVE  Lost(s, Redis!TouchKey(q, key), key)
<1>1. KeyspaceFields \subseteq DOMAIN q
  BY DEF PartsOK, Removed
<1>2. Redis!Version(q, key) = Redis!Version(s, key)
  BY DEF Redis!Version
<1> QED
  BY <1>1, <1>2 DEF Lost, Removed, Redis!TouchKey, KeyspaceFields

\* Evicting a key that is there.
LEMMA EvictKeeps ==
  ASSUME NEW s, KeyspaceOK(s), NEW key \in DOMAIN s.keys
  PROVE  /\ Lost(s, Redis!Evict(s, key), key)
         /\ KeyspaceOK(Redis!Evict(s, key)) /\ VersionsTell(s, Redis!Evict(s, key))
<1> DEFINE gone == Redis!Without(s, key)
           less == [gone EXCEPT !.metrics.evicted = @ + 1]
<1>1. Removed(s, gone, key) /\ gone.keyVersions = s.keyVersions
  BY WithoutRemoves DEF KeyspaceOK
<1> HIDE DEF gone
<1>2. Removed(s, less, key) /\ less.keyVersions = s.keyVersions
  BY <1>1 DEF Removed, KeyspaceOK, PartsOK, KeyspaceFields
<1>3. Redis!Evict(s, key) = Redis!TouchKey(less, key)
  BY DEF Redis!Evict, gone
<1> HIDE DEF less
<1>4. Lost(s, Redis!Evict(s, key), key)
  BY <1>2, <1>3, TouchedIsLost DEF KeyspaceOK
<1> QED
  BY <1>4, LosingKeeps

\* Deleting a key, there or not.
LEMMA DeleteKeeps ==
  ASSUME NEW s, KeyspaceOK(s), NEW key
  PROVE  KeyspaceOK(Redis!DeleteKey(s, key)) /\ VersionsTell(s, Redis!DeleteKey(s, key))
<1> DEFINE gone == Redis!Without(s, key)
<1>1. Removed(s, gone, key) /\ gone.keyVersions = s.keyVersions
  BY WithoutRemoves DEF KeyspaceOK
<1>2. Redis!DeleteKey(s, key) = IF key \in DOMAIN s.keys THEN Redis!TouchKey(gone, key) ELSE s
  BY DEF Redis!DeleteKey, Redis!Found
<1> HIDE DEF gone
<1>3. CASE key \notin DOMAIN s.keys
  BY <1>2, <1>3, AlikeItself, AlikeKeeps
<1>4. CASE key \in DOMAIN s.keys
  <2>1. Lost(s, Redis!TouchKey(gone, key), key)
    BY <1>1, TouchedIsLost DEF KeyspaceOK
  <2> QED
    BY <1>2, <1>4, <2>1, LosingKeeps
<1> QED
  BY <1>3, <1>4

\* Expiring a key, if it is dead.
LEMMA ExpireKeeps ==
  ASSUME NEW s, KeyspaceOK(s), NEW key
  PROVE  KeyspaceOK(Redis!Expire(s, key)) /\ VersionsTell(s, Redis!Expire(s, key))
<1> DEFINE less == Redis!DeleteKey(s, key)
           next == [less EXCEPT !.metrics.expired = @ + 1]
<1>1. KeyspaceOK(less) /\ VersionsTell(s, less)
  BY DeleteKeeps
<1> HIDE DEF less
<1>2. Alike(less, next)
  BY <1>1 DEF Alike, KeyspaceOK, PartsOK, KeyspaceFields
<1>3. Redis!Expire(s, key) \in {next, s}
  BY DEF Redis!Expire, less
<1> HIDE DEF next
<1>4. KeyspaceOK(next) /\ VersionsTell(less, next) /\ VersionsTell(s, s)
  BY <1>1, <1>2, AlikeItself, AlikeKeeps
<1>5. VersionsTell(s, next)
  BY <1>1, <1>4, TellsAgain DEF KeyspaceOK
<1> QED
  BY <1>3, <1>4, <1>5

\* Reading a key: a dead one goes, a living one is marked as used.
LEMMA ReadKeeps ==
  ASSUME NEW s, KeyspaceOK(s), NEW key, NEW intent
  PROVE  /\ KeyspaceOK(Redis!ReadKey(s, key, intent))
         /\ VersionsTell(s, Redis!ReadKey(s, key, intent))
<1> DEFINE counted == IF intent = "read" THEN 1 ELSE 0
           missed  == [s EXCEPT !.metrics.misses = @ + counted]
           gone    == Redis!Without(s, key)
           less    == [gone EXCEPT !.metrics.expired = @ + 1, !.metrics.misses = @ + counted]
           hit     == [s EXCEPT !.keys[key].lastAccessAt = s.now,
                                !.keys[key].hits         = @ + 1,
                                !.metrics.hits           = @ + counted]
           q       == Redis!ReadKey(s, key, intent)
<1>1. CASE key \notin DOMAIN s.keys
  <2>1. q = missed
    BY <1>1 DEF Redis!ReadKey
  <2>2. Alike(s, missed)
    BY DEF Alike, KeyspaceOK, PartsOK, KeyspaceFields
  <2> QED
    BY <2>1, <2>2, AlikeKeeps
<1>2. CASE key \in DOMAIN s.keys /\ ~Redis!LivesAt(s, key, s.now)
  <2>1. Removed(s, gone, key) /\ gone.keyVersions = s.keyVersions
    BY WithoutRemoves DEF KeyspaceOK
  <2>2. q = Redis!TouchKey(less, key)
    BY <1>2 DEF Redis!ReadKey
  <2> HIDE DEF gone, counted
  <2>3. Removed(s, less, key) /\ less.keyVersions = s.keyVersions
    BY <2>1 DEF Removed, KeyspaceOK, PartsOK, KeyspaceFields
  <2> HIDE DEF less, q
  <2>4. Lost(s, q, key)
    BY <2>2, <2>3, TouchedIsLost DEF KeyspaceOK
  <2> QED
    BY <1>2, <2>4, LosingKeeps DEF q
<1>3. CASE key \in DOMAIN s.keys /\ Redis!LivesAt(s, key, s.now)
  <2>1. q = hit
    BY <1>3 DEF Redis!ReadKey
  <2>2. /\ KeyspaceFields \subseteq DOMAIN s /\ s.now \in Int /\ s.rng \in Seq(Nat) \ {<<>>}
        /\ {"keysCount", "memoryUsed"} \subseteq DOMAIN s.metrics
    BY DEF KeyspaceOK, PartsOK
  <2>3. \A k \in DOMAIN s.keys : RecordOK(k, s.keys[k])
    BY DEF KeyspaceOK, PartsOK
  <2> HIDE DEF counted
  <2>4. /\ DOMAIN hit = DOMAIN s /\ hit.now = s.now /\ hit.server = s.server /\ hit.rng = s.rng
        /\ hit.keyOrder = s.keyOrder /\ hit.keyVersions = s.keyVersions
        /\ DOMAIN hit.metrics = DOMAIN s.metrics
        /\ hit.metrics.keysCount = s.metrics.keysCount
        /\ hit.metrics.memoryUsed = s.metrics.memoryUsed
    BY <2>2 DEF KeyspaceFields
  <2>5. /\ DOMAIN hit.keys = DOMAIN s.keys
        /\ \A k \in DOMAIN s.keys \ {key} : hit.keys[k] = s.keys[k]
        /\ hit.keys[key] = [s.keys[key] EXCEPT !.lastAccessAt = s.now, !.hits = @ + 1]
    BY <1>3, <2>2 DEF KeyspaceFields
  <2>6. RecordOK(key, s.keys[key])
    BY <1>3, <2>3
  <2> HIDE DEF hit
  <2>7. /\ RecordOK(key, hit.keys[key])
        /\ hit.keys[key].value = s.keys[key].value
        /\ hit.keys[key].expiresAt = s.keys[key].expiresAt
        /\ hit.keys[key].bytes = s.keys[key].bytes
    BY <2>2, <2>5, <2>6 DEF RecordOK
  <2>8. Alike(s, hit)
    BY <2>2, <2>3, <2>4, <2>5, <2>7 DEF Alike
  <2> QED
    BY <2>1, <2>8, AlikeKeeps
<1> QED
  BY <1>1, <1>2, <1>3

\* A pass of the active expire cycle goes key by key.
ExpireStep(par, aux, q, k) == Redis!Expire(q, k)

ExpiredSoFar(s, turn, q) == KeyspaceOK(q) /\ VersionsTell(s, q)

ExpireFold == INSTANCE LeftFold WITH Op <- ExpireStep, Inv <- ExpiredSoFar

\* One pass of the active expire cycle.
LEMMA PassKeeps ==
  ASSUME NEW s, KeyspaceOK(s), ActiveExpireSample \in Nat
  PROVE  KeyspaceOK(Redis!ActiveExpirePass(s)) /\ VersionsTell(s, Redis!ActiveExpirePass(s))
<1> DEFINE upTo == Redis!Min({ActiveExpireSample, Len(s.keyOrder)})
           seq  == SubSeq(s.keyOrder, 1, upTo)
           done == ExpireFold!Folded(0, 0, s, seq)
<1>1. s.keyOrder \in Seq(DOMAIN s.keys) /\ Len(s.keyOrder) \in Nat
  BY DEF KeyspaceOK, BooksOK, Lists
<1>2. upTo \in 0 .. Len(s.keyOrder)
  BY <1>1 DEF Redis!Min
<1> HIDE DEF upTo
<1>3. seq \in Seq(DOMAIN s.keys)
  <2>1. \A i \in 1 .. upTo : s.keyOrder[i] \in DOMAIN s.keys
    BY <1>1, <1>2
  <2>2. 1 \in Int /\ upTo \in Int
    BY <1>1, <1>2
  <2>3. SubSeq(s.keyOrder, 1, upTo) \in Seq(DOMAIN s.keys)
    BY <2>1, <2>2, SubSeqProperties, Zenon
  <2> QED
    BY <2>3
<1> HIDE DEF seq
<1>4. Len(seq) \in Nat /\ DOMAIN seq = 1 .. Len(seq)
  BY <1>3
<1>5. ExpiredSoFar(s, 0, s)
  BY AlikeItself, AlikeKeeps DEF ExpiredSoFar
<1>6. \A i \in 1 .. Len(seq) : \A acc :
        ExpiredSoFar(s, i - 1, acc) => ExpiredSoFar(s, i, ExpireStep(0, 0, acc, seq[i]))
  <2> SUFFICES ASSUME NEW i \in 1 .. Len(seq), NEW acc, ExpiredSoFar(s, i - 1, acc)
               PROVE  ExpiredSoFar(s, i, ExpireStep(0, 0, acc, seq[i]))
    OBVIOUS
  <2> DEFINE next == Redis!Expire(acc, seq[i])
  <2>1. KeyspaceOK(next) /\ VersionsTell(acc, next)
    BY ExpireKeeps DEF ExpiredSoFar
  <2> HIDE DEF next
  <2>2. VersionsTell(s, next)
    BY <2>1, TellsAgain DEF ExpiredSoFar, KeyspaceOK
  <2> QED
    BY <2>1, <2>2 DEF ExpiredSoFar, ExpireStep, next
<1>7. ExpiredSoFar(s, Len(seq), done)
  BY <1>4, <1>5, <1>6, ExpireFold!FoldKeeps
<1>8. Redis!ActiveExpirePass(s) = done
  BY DEF Redis!ActiveExpirePass, ExpireFold!Folded, ExpireStep, seq, upTo,
         Redis!FoldLeft, ExpireFold!FoldLeft, Redis!MapThenFoldSet, ExpireFold!MapThenFoldSet,
         Redis!Max, ExpireFold!Max
<1> QED
  BY <1>7, <1>8 DEF ExpiredSoFar

\* A list of some keys, each of them once.
Distinct(list, set) ==
  /\ list \in Seq(set)
  /\ \A i, j \in DOMAIN list : list[i] = list[j] => i = j

\* Those that are listed.
Named(list) == {list[i] : i \in DOMAIN list}

\* One more element adds its value to the sum.
LEMMA SumWithOneMore ==
  ASSUME NEW D, IsFiniteSet(D), NEW f, \A x \in D : f[x] \in Nat,
         NEW T \in SUBSET D, NEW x \in D, x \notin T
  PROVE  Sum(f, T \cup {x}) = Sum(f, T) + f[x] /\ Sum(f, T) \in Nat
<1>1. IsFiniteSet(T) /\ IsFiniteSet(T \cup {x}) /\ (T \cup {x}) \ {x} = T
  BY FS_Subset
<1>2. Sum(f, T \cup {x}) = f[x] + Sum(f, (T \cup {x}) \ {x})
  BY <1>1, SumOfRest
<1>3. Sum(f, T) \in Nat /\ f[x] \in Nat
  BY <1>1, SumIsNumber
<1>4. Sum(f, (T \cup {x}) \ {x}) = Sum(f, T)
  BY <1>1, Zenon
<1> QED
  BY <1>2, <1>3, <1>4

\* Those of n things that go before the j-th by their ranks, and ties by their
\* numbers.
GoingBefore(n, rank, j) == {i \in 1 .. n : rank[i] < rank[j] \/ (rank[i] = rank[j] /\ i < j)}

\* There is one in every place.
LEMMA EveryPlaceIsTaken ==
  ASSUME NEW n \in Nat, NEW rank, \A i \in 1 .. n : rank[i] \in Int, NEW m \in 1 .. n
  PROVE  \E j \in 1 .. n : Cardinality(GoingBefore(n, rank, j)) = m - 1
<1> DEFINE D == 1 .. n
           B(j) == GoingBefore(n, rank, j)
           f == [j \in D |-> Cardinality(B(j)) + 1]
<1>1. IsFiniteSet(D) /\ Cardinality(D) = n
  BY FS_Interval
<1>2. ASSUME NEW j \in D
      PROVE  IsFiniteSet(B(j)) /\ Cardinality(B(j)) \in Nat /\ Cardinality(B(j)) + 1 \in D
  <2>1. j \notin B(j)
    BY DEF GoingBefore
  <2>2. B(j) \in SUBSET (D \ {j})
    BY <2>1 DEF GoingBefore
  <2>3. IsFiniteSet(D \ {j}) /\ Cardinality(D \ {j}) = n - 1
    BY <1>1, FS_RemoveElement
  <2> HIDE DEF B
  <2>4. IsFiniteSet(B(j)) /\ Cardinality(B(j)) <= n - 1
    BY <2>2, <2>3, FS_Subset
  <2>5. Cardinality(B(j)) \in Nat
    BY <2>4, FS_CardinalityType
  <2> QED
    BY <2>4, <2>5
<1>3. ASSUME NEW i \in D, NEW j \in D, rank[i] < rank[j] \/ (rank[i] = rank[j] /\ i < j)
      PROVE  Cardinality(B(i)) < Cardinality(B(j))
  <2>1. i \in B(j) /\ i \notin B(i)
    BY <1>3 DEF GoingBefore
  <2>2. B(i) \in SUBSET B(j)
    BY <1>3 DEF GoingBefore
  <2>3. IsFiniteSet(B(j)) /\ IsFiniteSet(B(i)) /\ Cardinality(B(i)) \in Nat /\ Cardinality(B(j)) \in Nat
    BY <1>2
  <2> HIDE DEF B, D
  <2>4. Cardinality(B(i)) <= Cardinality(B(j))
        /\ (Cardinality(B(j)) = Cardinality(B(i)) => B(j) = B(i))
    BY <2>2, <2>3, FS_Subset
  <2> QED
    BY <2>1, <2>3, <2>4
<1>4. ASSUME NEW i \in D, NEW j \in D, i # j
      PROVE  f[i] # f[j]
  <2>1. \/ rank[i] < rank[j] \/ (rank[i] = rank[j] /\ i < j)
        \/ rank[j] < rank[i] \/ (rank[j] = rank[i] /\ j < i)
    BY <1>4
  <2>2. Cardinality(B(i)) # Cardinality(B(j)) /\ Cardinality(B(i)) \in Nat /\ Cardinality(B(j)) \in Nat
    <3> HIDE DEF B
    <3>1. Cardinality(B(i)) < Cardinality(B(j)) \/ Cardinality(B(j)) < Cardinality(B(i))
      BY <1>3, <2>1
    <3> QED
      BY <1>2, <3>1
  <2> HIDE DEF B
  <2> QED
    BY <2>2
<1>5. f \in Injection(D, D)
  <2>1. f \in [D -> D]
    <3> HIDE DEF B
    <3> QED
      BY <1>2
  <2> HIDE DEF f
  <2> QED
    BY <1>4, <2>1 DEF Injection, IsInjective
<1>6. f \in Surjection(D, D)
  <2> HIDE DEF f, D
  <2> QED
    BY <1>1, <1>5, FS_Injection
<1>7. PICK j \in D : f[j] = m
  <2> HIDE DEF f
  <2> QED
    BY <1>6 DEF Surjection
<1>8. Cardinality(B(j)) \in Nat /\ f[j] = Cardinality(B(j)) + 1
  <2> HIDE DEF B
  <2> QED
    BY <1>2
<1>9. Cardinality(B(j)) = m - 1
  <2> HIDE DEF B, f
  <2> QED
    BY <1>7, <1>8
<1> QED
  BY <1>9

\* The candidates are some of the keys.
LEMMA CandidatesAreKeys ==
  ASSUME NEW s, PartsOK(s), BooksOK(s), NEW policy
  PROVE  Distinct(Redis!CandidatesFor(s, policy), DOMAIN s.keys)
<1> DEFINE wanted == {k \in DOMAIN s.keys :
                        Redis!IsVolatile(policy) => s.keys[k].expiresAt # Redis!NoExpiry}
<1>1. Lists(Redis!Kept(s.keyOrder, wanted), DOMAIN s.keys \cap wanted)
  BY KeptLists DEF BooksOK
<1> QED
  BY <1>1 DEF Redis!CandidatesFor, Lists, Distinct

\* Ranking them puts each in one place.
LEMMA RankedAreCandidates ==
  ASSUME NEW s, PartsOK(s), NEW list, Distinct(list, DOMAIN s.keys), NEW policy
  PROVE  Distinct(Redis!RankFor(s, policy, list), DOMAIN s.keys)
<1> DEFINE n == Len(list)
           rank(i) == Redis!Rank(s.keys[list[i]], policy)
           B(j) == {i \in DOMAIN list : rank(i) < rank(j) \/ (rank(i) = rank(j) /\ i < j)}
           nth(m) == CHOOSE j \in DOMAIN list : Redis!Cardinality(B(j)) = m - 1
           ranked == Redis!RankFor(s, policy, list)
<1>1. n \in Nat /\ DOMAIN list = 1 .. n /\ \A i \in 1 .. n : list[i] \in DOMAIN s.keys
  BY DEF Distinct
<1>2. \A i \in 1 .. n : rank(i) \in Int
  BY <1>1 DEF Redis!Rank, PartsOK, RecordOK
<1>3. ASSUME NEW m \in 1 .. n
      PROVE  \E j \in DOMAIN list : Redis!Cardinality(B(j)) = m - 1
  <2> DEFINE f == [i \in 1 .. n |-> rank(i)]
             C(j) == GoingBefore(n, f, j)
  <2>1. \A i \in 1 .. n : f[i] \in Int
    BY <1>2
  <2>2. PICK j \in 1 .. n : Cardinality(C(j)) = m - 1
    <3> HIDE DEF f, n
    <3> QED
      BY <1>1, <2>1, EveryPlaceIsTaken
  <2>3. C(j) = B(j)
    <3> HIDE DEF rank
    <3> QED
      BY <1>1 DEF GoingBefore
  <2>4. Redis!Cardinality(B(j)) = Cardinality(B(j))
    BY DEF Redis!Cardinality, Cardinality
  <2> HIDE DEF B, C
  <2> QED
    BY <1>1, <2>2, <2>3, <2>4
<1>4. \A m \in 1 .. n : nth(m) \in 1 .. n /\ Redis!Cardinality(B(nth(m))) = m - 1
  <2> HIDE DEF B, n
  <2> QED
    BY <1>1, <1>3
<1>5. ranked = [m \in DOMAIN list |-> list[nth(m)]]
  BY DEF Redis!RankFor
<1>6. \A l, m \in 1 .. n : nth(l) = nth(m) => l = m
  <2> HIDE DEF B, nth, n
  <2> QED
    BY <1>1, <1>4
<1> HIDE DEF nth, n, rank, B, ranked
<1>7. ranked \in Seq(DOMAIN s.keys) /\ DOMAIN ranked = 1 .. n
  <2>1. ranked \in [1 .. n -> DOMAIN s.keys]
    BY <1>1, <1>4, <1>5
  <2> QED
    BY <1>1, <2>1
<1>8. \A l, m \in DOMAIN ranked : ranked[l] = ranked[m] => l = m
  BY <1>1, <1>4, <1>5, <1>6, <1>7 DEF Distinct
<1> QED
  BY <1>7, <1>8 DEF Distinct, ranked

\* A part of a list.
LEMMA PartOfList ==
  ASSUME NEW set, NEW list \in Seq(set), NEW a \in 1 .. Len(list) + 1, NEW b \in a - 1 .. Len(list)
  PROVE  /\ SubSeq(list, a, b) \in Seq(set)
         /\ Len(SubSeq(list, a, b)) = b - a + 1
         /\ DOMAIN SubSeq(list, a, b) = 1 .. b - a + 1
         /\ \A j \in 1 .. b - a + 1 : SubSeq(list, a, b)[j] = list[a + j - 1]
<1> DEFINE part == SubSeq(list, a, b)
<1>1. Len(list) \in Nat /\ a \in Int /\ b \in Int /\ a - 1 <= b
  OBVIOUS
<1>2. \A j \in a .. b : list[j] \in set
  BY <1>1
<1>3. part \in Seq(set)
  BY <1>1, <1>2, SubSeqProperties, Zenon
<1>4. Len(part) = IF a <= b THEN b - a + 1 ELSE 0
  BY <1>1, <1>2, SubSeqProperties, Zenon
<1>5. \A j \in 1 .. b - a + 1 : part[j] = list[a + j - 1]
  BY <1>1, <1>2, SubSeqProperties
<1> HIDE DEF part
<1>6. Len(part) = b - a + 1
  BY <1>1, <1>4
<1>7. DOMAIN part = 1 .. b - a + 1
  BY <1>3, <1>6
<1> QED
  BY <1>3, <1>5, <1>6, <1>7 DEF part

\* A list with one more.
LEMMA ListWithOneMore ==
  ASSUME NEW set, NEW list \in Seq(set), NEW k \in set
  PROVE  /\ Append(list, k) \in Seq(set)
         /\ DOMAIN Append(list, k) = DOMAIN list \cup {Len(list) + 1}
         /\ Len(list) + 1 \notin DOMAIN list
         /\ \A b \in DOMAIN list : Append(list, k)[b] = list[b]
         /\ Append(list, k)[Len(list) + 1] = k
  OBVIOUS

\* The generator never runs out of draws.
LEMMA DrawsGoOn ==
  ASSUME NEW draws \in Seq(Nat) \ {<<>>}
  PROVE  Redis!Drawn(draws) \in Seq(Nat) \ {<<>>} /\ Head(draws) \in Nat
<1> DEFINE first == Head(draws)
           rest  == Tail(draws)
<1>1. first \in Nat /\ rest \in Seq(Nat)
  BY HeadTailProperties
<1>2. Redis!Drawn(draws) = Append(rest, first)
  BY DEF Redis!Drawn
<1> HIDE DEF first, rest
<1>3. Append(rest, first) \in Seq(Nat)
  BY <1>1
<1>4. Append(rest, first) # <<>>
  BY <1>1, AppendProperties
<1> QED
  BY <1>1, <1>2, <1>3, <1>4 DEF first

\* A draw is an index of the pool.
LEMMA RemainderIsLess ==
  ASSUME NEW h \in Nat, NEW n \in Nat \ {0}
  PROVE  1 + (h % n) \in 1 .. n
  OBVIOUS

\* What has been picked: some keys, each once, and how many bytes they take.
PickedOK(s, picked) ==
  /\ Distinct(picked.keys, DOMAIN s.keys)
  /\ picked.rng \in Seq(Nat) \ {<<>>}
  /\ picked.freed = Sum(BytesIn(s), Named(picked.keys))

\* A prefix of the ranked candidates.
LEMMA TakenArePicked ==
  ASSUME NEW s, PartsOK(s), NEW ranked, Distinct(ranked, DOMAIN s.keys), NEW over
  PROVE  PickedOK(s, Redis!TakeVictims(s, ranked, over))
<1> DEFINE freed(n) == Redis!BytesOf(s, {ranked[i] : i \in 1 .. n})
           enough   == {n \in 0 .. Len(ranked) : freed(n) >= over}
           taken    == IF enough = {} THEN Len(ranked) ELSE Redis!Min(enough)
           keys     == SubSeq(ranked, 1, taken)
<1>1. Len(ranked) \in Nat /\ DOMAIN ranked = 1 .. Len(ranked)
      /\ \A i \in DOMAIN ranked : ranked[i] \in DOMAIN s.keys
  BY DEF Distinct
<1>2. taken \in 0 .. Len(ranked)
  <2>1. enough \in SUBSET Nat /\ enough \subseteq 0 .. Len(ranked)
    BY <1>1
  <2> HIDE DEF enough
  <2>2. enough # {} => Redis!Min(enough) \in enough
    BY <2>1, LeastNumber DEF Redis!Min
  <2>3. CASE enough = {}
    BY <1>1, <2>3
  <2>4. CASE enough # {}
    <3>1. taken = Redis!Min(enough)
      BY <2>4
    <3>2. Redis!Min(enough) \in 0 .. Len(ranked)
      BY <2>1, <2>2, <2>4
    <3> QED
      BY <3>1, <3>2
  <2> QED
    BY <2>3, <2>4
<1>3. Redis!TakeVictims(s, ranked, over) = [keys |-> keys, rng |-> s.rng, freed |-> freed(taken)]
  BY DEF Redis!TakeVictims
<1> HIDE DEF taken
<1> DEFINE D == DOMAIN s.keys
<1>4. /\ keys \in Seq(DOMAIN s.keys) /\ Len(keys) = taken /\ DOMAIN keys = 1 .. taken
      /\ \A i \in 1 .. taken : keys[i] = ranked[i]
  <2>1. /\ ranked \in Seq(D) /\ taken \in 0 .. Len(ranked)
        /\ 1 \in 1 .. Len(ranked) + 1 /\ taken \in 1 - 1 .. Len(ranked)
    BY <1>1, <1>2 DEF Distinct
  <2>2. /\ keys \in Seq(D) /\ Len(keys) = taken - 1 + 1 /\ DOMAIN keys = 1 .. taken - 1 + 1
        /\ \A i \in 1 .. taken - 1 + 1 : keys[i] = ranked[1 + i - 1]
    <3> HIDE DEF D
    <3> QED
      BY <2>1, PartOfList
  <2>3. taken - 1 + 1 = taken /\ taken \in Int
    BY <1>1, <1>2
  <2> HIDE DEF keys
  <2> QED
    BY <2>2, <2>3
<1> HIDE DEF keys
<1>5. Distinct(keys, DOMAIN s.keys)
  BY <1>1, <1>2, <1>4 DEF Distinct
<1>6. Named(keys) = {ranked[i] : i \in 1 .. taken}
  BY <1>4 DEF Named
<1>7. freed(taken) = Sum(BytesIn(s), Named(keys))
  BY <1>6, BytesAreSums
<1> HIDE DEF freed
<1> QED
  BY <1>3, <1>5, <1>7 DEF PickedOK, PartsOK

\* RemoveAt leaves the others.
LEMMA RemoveAtLeaves ==
  ASSUME NEW set, NEW list, Distinct(list, set), NEW i \in DOMAIN list
  PROVE  /\ Distinct(Redis!RemoveAt(list, i), set)
         /\ \A j \in DOMAIN Redis!RemoveAt(list, i) :
              \E k \in DOMAIN list : k # i /\ Redis!RemoveAt(list, i)[j] = list[k]
<1> DEFINE n     == Len(list)
           front == SubSeq(list, 1, i - 1)
           back  == SubSeq(list, i + 1, n)
           rest  == front \o back
<1>1. n \in Nat /\ DOMAIN list = 1 .. n /\ i \in 1 .. n /\ \A j \in 1 .. n : list[j] \in set
  BY DEF Distinct
<1>2. /\ front \in Seq(set) /\ Len(front) = i - 1
      /\ \A j \in 1 .. i - 1 : front[j] = list[j]
  <2>1. list \in Seq(set) /\ 1 \in 1 .. Len(list) + 1 /\ i - 1 \in 1 - 1 .. Len(list)
    BY <1>1 DEF Distinct
  <2>2. /\ front \in Seq(set) /\ Len(front) = i - 1 - 1 + 1
        /\ \A j \in 1 .. i - 1 - 1 + 1 : front[j] = list[1 + j - 1]
    BY <2>1, PartOfList
  <2> HIDE DEF front
  <2> QED
    BY <1>1, <2>2
<1>3. /\ back \in Seq(set) /\ Len(back) = n - i
      /\ \A j \in 1 .. n - i : back[j] = list[i + j]
  <2>1. list \in Seq(set) /\ i + 1 \in 1 .. Len(list) + 1 /\ n \in i + 1 - 1 .. Len(list)
    BY <1>1 DEF Distinct
  <2>2. /\ back \in Seq(set) /\ Len(back) = n - (i + 1) + 1
        /\ \A j \in 1 .. n - (i + 1) + 1 : back[j] = list[i + 1 + j - 1]
    BY <2>1, PartOfList
  <2>3. n - (i + 1) + 1 = n - i /\ \A j \in 1 .. n - i : i + 1 + j - 1 = i + j
    BY <1>1
  <2> HIDE DEF back, n
  <2> QED
    BY <2>2, <2>3
<1>4. Redis!RemoveAt(list, i) = rest
  BY DEF Redis!RemoveAt
<1> HIDE DEF front, back
<1> DEFINE from == [j \in 1 .. n - 1 |-> IF j < i THEN j ELSE j + 1]
<1>5. /\ rest \in Seq(set) /\ DOMAIN rest = 1 .. n - 1
      /\ \A j \in 1 .. n - 1 : rest[j] = IF j <= Len(front) THEN front[j] ELSE back[j - Len(front)]
  <2>1. /\ rest \in Seq(set) /\ Len(rest) = Len(front) + Len(back)
        /\ \A j \in 1 .. Len(rest) :
             rest[j] = IF j <= Len(front) THEN front[j] ELSE back[j - Len(front)]
    <3>1. front \in Seq(set) /\ back \in Seq(set)
      BY <1>2, <1>3
    <3>2. /\ rest \in Seq(set) /\ Len(rest) = Len(front) + Len(back)
          /\ \A j \in 1 .. Len(front) + Len(back) :
               rest[j] = IF j <= Len(front) THEN front[j] ELSE back[j - Len(front)]
      BY <3>1, ConcatProperties, Zenon
    <3> HIDE DEF rest
    <3> QED
      BY <3>2
  <2>2. Len(rest) = n - 1
    BY <1>1, <1>2, <1>3, <2>1
  <2>3. DOMAIN rest = 1 .. n - 1
    <3> HIDE DEF rest
    <3> QED
      BY <2>1, <2>2
  <2> HIDE DEF rest
  <2> QED
    BY <2>1, <2>2, <2>3
<1> HIDE DEF rest
<1>6. \A j \in 1 .. n - 1 : from[j] \in 1 .. n /\ from[j] # i /\ rest[j] = list[from[j]]
  <2> SUFFICES ASSUME NEW j \in 1 .. n - 1
               PROVE  from[j] \in 1 .. n /\ from[j] # i /\ rest[j] = list[from[j]]
    OBVIOUS
  <2>1. CASE j < i
    BY <1>1, <1>2, <1>5, <2>1
  <2>2. CASE j >= i
    <3>1. j - Len(front) \in 1 .. n - i /\ i + (j - Len(front)) = j + 1 /\ ~(j <= Len(front))
      BY <1>1, <1>2, <2>2
    <3>2. rest[j] = list[i + (j - Len(front))]
      BY <1>3, <1>5, <3>1
    <3> QED
      BY <1>1, <2>2, <3>1, <3>2
  <2> QED
    BY <1>1, <2>1, <2>2
<1>7. \A j, k \in 1 .. n - 1 : from[j] = from[k] => j = k
  BY <1>1
<1> HIDE DEF from
<1>8. \A j, k \in DOMAIN rest : rest[j] = rest[k] => j = k
  <2> SUFFICES ASSUME NEW j \in 1 .. n - 1, NEW k \in 1 .. n - 1, rest[j] = rest[k]
               PROVE  j = k
    BY <1>5
  <2>1. /\ from[j] \in DOMAIN list /\ from[k] \in DOMAIN list
        /\ list[from[j]] = list[from[k]]
    BY <1>1, <1>6
  <2>2. from[j] = from[k]
    BY <2>1 DEF Distinct
  <2> QED
    BY <1>7, <2>2
<1>9. Distinct(rest, set)
  BY <1>5, <1>8 DEF Distinct
<1>10. \A j \in DOMAIN rest : \E k \in DOMAIN list : k # i /\ rest[j] = list[k]
  BY <1>1, <1>5, <1>6
<1> QED
  BY <1>4, <1>9, <1>10

\* Draws go on one by one; nothing that was drawn is in the pool.
DrawStep(s, over, d, turn) == Redis!DrawVictim(s, over, d)

\* What is still in the pool has not been drawn.
DrawnSoFar(s, turn, d) ==
  /\ PickedOK(s, d)
  /\ Distinct(d.pool, DOMAIN s.keys)
  /\ \A i \in DOMAIN d.pool, j \in DOMAIN d.keys : d.pool[i] # d.keys[j]

DrawFold == INSTANCE LeftFold WITH Op <- DrawStep, Inv <- DrawnSoFar

\* A draw moves one key from the pool to the picked ones.
LEMMA DrawTurn ==
  ASSUME NEW s, PartsOK(s), NEW over, NEW d, NEW turn,
         DrawnSoFar(s, turn - 1, d)
  PROVE  DrawnSoFar(s, turn, Redis!DrawVictim(s, over, d))
<1> DEFINE i    == 1 + (Head(d.rng) % Len(d.pool))
           key  == d.pool[i]
           pool == Redis!RemoveAt(d.pool, i)
           keys == Append(d.keys, key)
           next == [ pool  |-> pool,
                     rng   |-> Redis!Drawn(d.rng),
                     keys  |-> keys,
                     freed |-> d.freed + s.keys[key].bytes ]
<1>1. /\ PickedOK(s, d) /\ Distinct(d.pool, DOMAIN s.keys)
      /\ \A a \in DOMAIN d.pool, b \in DOMAIN d.keys : d.pool[a] # d.keys[b]
  BY DEF DrawnSoFar
<1>2. CASE d.pool = <<>> \/ d.freed >= over
  BY <1>1, <1>2 DEF Redis!DrawVictim, DrawnSoFar
<1>3. CASE ~(d.pool = <<>> \/ d.freed >= over)
  <2>1. Redis!DrawVictim(s, over, d) = next
    BY <1>3 DEF Redis!DrawVictim
  <2>2. Redis!Drawn(d.rng) \in Seq(Nat) \ {<<>>} /\ Head(d.rng) \in Nat
    BY <1>1, DrawsGoOn DEF PickedOK
  <2>3. i \in DOMAIN d.pool /\ key \in DOMAIN s.keys
    <3>1. Len(d.pool) \in Nat \ {0} /\ DOMAIN d.pool = 1 .. Len(d.pool)
      BY <1>1, <1>3 DEF Distinct
    <3>2. i \in DOMAIN d.pool
      BY <2>2, <3>1, RemainderIsLess
    <3> QED
      BY <1>1, <3>2 DEF Distinct
  <2> HIDE DEF i
  <2>4. /\ Distinct(pool, DOMAIN s.keys)
        /\ \A j \in DOMAIN pool : \E k \in DOMAIN d.pool : k # i /\ pool[j] = d.pool[k]
    BY <1>1, <2>3, RemoveAtLeaves
  <2> HIDE DEF pool
  <2>5. \A j \in DOMAIN pool : pool[j] # key /\ \A b \in DOMAIN d.keys : pool[j] # d.keys[b]
    BY <1>1, <2>3, <2>4 DEF Distinct
  <2>6. \A b \in DOMAIN d.keys : d.keys[b] # key
    BY <1>1, <2>3
  <2> HIDE DEF key
  <2> DEFINE D == DOMAIN s.keys
             old == d.keys
  <2>7. old \in Seq(D) /\ key \in D
    BY <1>1, <2>3 DEF PickedOK, Distinct
  <2>8. /\ keys \in Seq(D)
        /\ DOMAIN keys = DOMAIN old \cup {Len(old) + 1} /\ Len(old) + 1 \notin DOMAIN old
        /\ \A b \in DOMAIN old : keys[b] = old[b]
        /\ keys[Len(old) + 1] = key
    <3>1. keys = Append(old, key)
      OBVIOUS
    <3> HIDE DEF old, D, keys
    <3> QED
      BY <2>7, <3>1, ListWithOneMore
  <2> HIDE DEF keys
  <2>9. Distinct(keys, DOMAIN s.keys)
    BY <1>1, <2>6, <2>8 DEF PickedOK, Distinct
  <2>10. \A j \in DOMAIN pool, b \in DOMAIN keys : pool[j] # keys[b]
    BY <2>5, <2>8
  <2>11. d.freed + s.keys[key].bytes = Sum(BytesIn(s), Named(keys))
    <3>1. Named(keys) = Named(d.keys) \cup {key}
      BY <2>8 DEF Named
    <3>2. Named(d.keys) \in SUBSET DOMAIN s.keys /\ key \notin Named(d.keys)
      BY <2>6, <2>7 DEF Named
    <3>3. IsFiniteSet(DOMAIN s.keys)
      BY DEF PartsOK
    <3>4. \A x \in DOMAIN s.keys : BytesIn(s)[x] \in Nat /\ BytesIn(s)[x] = s.keys[x].bytes
      BY BytesAreNumbers
    <3>5. Sum(BytesIn(s), Named(d.keys) \cup {key}) = Sum(BytesIn(s), Named(d.keys)) + BytesIn(s)[key]
      BY <2>3, <3>2, <3>3, <3>4, SumWithOneMore
    <3> QED
      BY <1>1, <2>3, <3>1, <3>4, <3>5 DEF PickedOK
  <2>12. PickedOK(s, next)
    BY <2>2, <2>9, <2>11 DEF PickedOK
  <2> QED
    BY <2>1, <2>4, <2>10, <2>12 DEF DrawnSoFar
<1> QED
  BY <1>2, <1>3

\* Draws pick keys that are there, each once.
LEMMA DrawnArePicked ==
  ASSUME NEW s, PartsOK(s), NEW list, Distinct(list, DOMAIN s.keys), NEW over
  PROVE  PickedOK(s, Redis!DrawVictims(s, list, over))
<1> DEFINE base == [pool |-> list, rng |-> s.rng, keys |-> <<>>, freed |-> 0]
           done == DrawFold!Folded(s, over, base, list)
<1>1. Len(list) \in Nat /\ DOMAIN list = 1 .. Len(list)
  BY DEF Distinct
<1>2. DrawnSoFar(s, 0, base)
  <2>1. Named(<<>>) = {} /\ Distinct(<<>>, DOMAIN s.keys)
    BY DEF Named, Distinct
  <2>2. Sum(BytesIn(s), {}) = 0
    BY SumTurns, FS_EmptySet
  <2>3. PickedOK(s, base)
    BY <2>1, <2>2 DEF PickedOK, PartsOK
  <2> QED
    BY <2>3 DEF DrawnSoFar
<1> HIDE DEF base
<1>3. \A i \in 1 .. Len(list) : \A acc :
        DrawnSoFar(s, i - 1, acc) => DrawnSoFar(s, i, DrawStep(s, over, acc, list[i]))
  BY DrawTurn DEF DrawStep
<1>4. DrawnSoFar(s, Len(list), done)
  BY <1>1, <1>2, <1>3, DrawFold!FoldKeeps
<1>5. Redis!DrawVictims(s, list, over) = done
  BY DEF Redis!DrawVictims, DrawFold!Folded, DrawStep, base, Redis!FoldLeft, DrawFold!FoldLeft,
         Redis!MapThenFoldSet, DrawFold!MapThenFoldSet, Redis!Max, DrawFold!Max
<1> QED
  BY <1>4, <1>5 DEF DrawnSoFar

\* An eviction chooses keys that are there, each of them once, that take
\* enough, or it refuses.
ChosenOK(s, need, chosen) ==
  /\ Distinct(chosen.keys, DOMAIN s.keys)
  /\ chosen.rng \in Seq(Nat) \ {<<>>}
  /\ chosen.oom \/ s.server.maxmemoryBytes = Redis!Unlimited
       \/ Sum(BytesIn(s), Named(chosen.keys)) >= Redis!Over(s, need)

\* By every policy, the victims free what is over the budget, or the write is refused.
LEMMA EvictionFrees ==
  ASSUME NEW s, PartsOK(s), BooksOK(s), NEW need \in Int
  PROVE  ChosenOK(s, need, Redis!EvictionVictims(s, need))
<1> DEFINE over       == Redis!Over(s, need)
           policy     == s.server.evictionPolicy
           candidates == Redis!CandidatesFor(s, policy)
           nothing(oom) == [keys |-> <<>>, rng |-> s.rng, oom |-> oom]
           drawn      == Redis!DrawVictims(s, candidates, over)
           taken      == Redis!TakeVictims(s, Redis!RankFor(s, policy, candidates), over)
           picked     == IF policy = "allkeys-random" THEN drawn ELSE taken
           v          == Redis!EvictionVictims(s, need)
<1>1. \/ (s.server.maxmemoryBytes = Redis!Unlimited \/ over <= 0) /\ v = nothing(FALSE)
      \/ v = nothing(TRUE)
      \/ v = Redis!Sacrifice(picked, over)
  BY DEF Redis!EvictionVictims
<1>2. over \in Int
  <2>1. s.metrics.memoryUsed \in Int /\ s.server.maxmemoryBytes \in Int
    BY BooksAreSums, BytesAreNumbers, SumIsNumber DEF PartsOK
  <2> QED
    BY <2>1 DEF Redis!Over
<1>3. Named(<<>>) = {} /\ Distinct(<<>>, DOMAIN s.keys) /\ Sum(BytesIn(s), {}) = 0
  BY SumTurns, FS_EmptySet DEF Named, Distinct
<1>4. PickedOK(s, picked)
  <2>1. Distinct(candidates, DOMAIN s.keys)
    BY CandidatesAreKeys
  <2>2. PickedOK(s, drawn) /\ PickedOK(s, taken)
    BY <2>1, DrawnArePicked, RankedAreCandidates, TakenArePicked
  <2> QED
    BY <2>2
<1> HIDE DEF over, picked, candidates, policy, v
<1>5. Sum(BytesIn(s), Named(picked.keys)) \in Int
  <2>1. Named(picked.keys) \in SUBSET DOMAIN s.keys
    BY <1>4 DEF PickedOK, Distinct, Named
  <2>2. IsFiniteSet(Named(picked.keys))
    BY <2>1, FS_Subset DEF PartsOK
  <2> QED
    BY <2>1, <2>2, BytesAreNumbers, SumIsNumber
<1>6. CASE (s.server.maxmemoryBytes = Redis!Unlimited \/ over <= 0) /\ v = nothing(FALSE)
  <2>1. v.keys = <<>> /\ v.rng = s.rng
    BY <1>6
  <2>2. Sum(BytesIn(s), Named(v.keys)) = 0 /\ Distinct(v.keys, DOMAIN s.keys)
    BY <1>3, <2>1
  <2> QED
    BY <1>2, <1>6, <2>1, <2>2 DEF ChosenOK, PartsOK, v, over
<1>7. CASE v = nothing(TRUE)
  BY <1>3, <1>7 DEF ChosenOK, PartsOK, v
<1>8. CASE v = Redis!Sacrifice(picked, over)
  <2>1. v.keys = picked.keys /\ v.rng = picked.rng /\ v.oom = (picked.freed < over)
    BY <1>8 DEF Redis!Sacrifice
  <2>2. picked.freed = Sum(BytesIn(s), Named(v.keys))
    BY <1>4, <2>1 DEF PickedOK
  <2>3. v.oom \/ Sum(BytesIn(s), Named(v.keys)) >= over
    <3>1. CASE picked.freed < over
      BY <2>1, <3>1, Zenon
    <3>2. CASE ~(picked.freed < over)
      BY <1>2, <1>5, <2>1, <2>2, <3>2
    <3> QED
      BY <3>1, <3>2
  <2> QED
    BY <1>4, <2>1, <2>3 DEF ChosenOK, PickedOK, v, over
<1> QED
  BY <1>1, <1>6, <1>7, <1>8

\* Evictions go on one by one.
EvictStep(par, aux, q, k) == Redis!Evict(q, k)

\* After some evictions: the other keys are there as they were.
EvictedSoFar(ctx, turn, q) ==
  LET s     == ctx.start
      taken == {ctx.keys[j] : j \in 1 .. turn}
  IN /\ KeyspaceOK(q) /\ VersionsTell(s, q) /\ q.server = s.server
     /\ DOMAIN q.keys = DOMAIN s.keys \ taken
     /\ \A k \in DOMAIN q.keys : q.keys[k] = s.keys[k]
     /\ q.metrics.memoryUsed = s.metrics.memoryUsed - Sum(BytesIn(s), taken)

EvictFold == INSTANCE LeftFold WITH Op <- EvictStep, Inv <- EvictedSoFar

\* An eviction of a key that has not been evicted yet.
LEMMA EvictTurn ==
  ASSUME NEW ctx, KeyspaceOK(ctx.start), Distinct(ctx.keys, DOMAIN ctx.start.keys),
         NEW turn \in 1 .. Len(ctx.keys), NEW q, EvictedSoFar(ctx, turn - 1, q)
  PROVE  EvictedSoFar(ctx, turn, Redis!Evict(q, ctx.keys[turn]))
<1> DEFINE s     == ctx.start
           key   == ctx.keys[turn]
           taken == {ctx.keys[j] : j \in 1 .. turn - 1}
           more  == {ctx.keys[j] : j \in 1 .. turn}
           next  == Redis!Evict(q, key)
<1>1. turn \in Nat /\ Len(ctx.keys) \in Nat /\ DOMAIN ctx.keys = 1 .. Len(ctx.keys)
      /\ \A j \in 1 .. Len(ctx.keys) : ctx.keys[j] \in DOMAIN s.keys
  BY DEF Distinct
<1>2. /\ more = taken \cup {key} /\ key \notin taken /\ taken \in SUBSET DOMAIN s.keys
      /\ key \in DOMAIN s.keys
  <2>1. 1 .. turn = (1 .. turn - 1) \cup {turn} /\ 1 .. turn - 1 \subseteq 1 .. Len(ctx.keys)
    BY <1>1
  <2>2. \A j \in 1 .. turn - 1 : ctx.keys[j] # key
    <3>1. \A j \in 1 .. turn - 1 : j # turn
      BY <1>1
    <3> QED
      BY <1>1, <2>1, <3>1 DEF Distinct
  <2> QED
    BY <1>1, <2>1, <2>2
<1>3. /\ KeyspaceOK(q) /\ VersionsTell(s, q) /\ q.server = s.server
      /\ DOMAIN q.keys = DOMAIN s.keys \ taken
      /\ \A k \in DOMAIN q.keys : q.keys[k] = s.keys[k]
      /\ q.metrics.memoryUsed = s.metrics.memoryUsed - Sum(BytesIn(s), taken)
  BY DEF EvictedSoFar
<1> HIDE DEF key, taken, more
<1>4. key \in DOMAIN q.keys /\ q.keys[key] = s.keys[key]
  BY <1>2, <1>3
<1>5. /\ Lost(q, next, key) /\ KeyspaceOK(next) /\ VersionsTell(q, next)
  BY <1>3, <1>4, EvictKeeps
<1> HIDE DEF next
<1>6. VersionsTell(s, next)
  BY <1>3, <1>5, TellsAgain DEF KeyspaceOK
<1>7. /\ next.server = s.server
      /\ DOMAIN next.keys = DOMAIN s.keys \ more
      /\ \A k \in DOMAIN next.keys : next.keys[k] = s.keys[k]
  BY <1>2, <1>3, <1>5 DEF Lost, Removed
<1>8. next.metrics.memoryUsed = s.metrics.memoryUsed - Sum(BytesIn(s), more)
  <2>1. IsFiniteSet(DOMAIN s.keys)
        /\ \A k \in DOMAIN s.keys : BytesIn(s)[k] \in Nat /\ BytesIn(s)[k] = s.keys[k].bytes
    BY BytesAreNumbers DEF KeyspaceOK, PartsOK
  <2>2. Sum(BytesIn(s), taken \cup {key}) = Sum(BytesIn(s), taken) + BytesIn(s)[key]
        /\ Sum(BytesIn(s), taken) \in Nat
    BY <1>2, <2>1, SumWithOneMore
  <2>3. next.metrics.memoryUsed = q.metrics.memoryUsed - BytesIn(s)[key]
    BY <1>2, <1>4, <1>5, <2>1 DEF Lost, Removed
  <2>4. s.metrics.memoryUsed \in Nat /\ BytesIn(s)[key] \in Nat
    <3>1. s.metrics.memoryUsed = Sum(BytesIn(s), DOMAIN s.keys)
      BY BooksAreSums DEF KeyspaceOK
    <3> QED
      BY <1>2, <2>1, <3>1, SumIsNumber
  <2> QED
    BY <1>2, <1>3, <2>2, <2>3, <2>4
<1> QED
  BY <1>3, <1>5, <1>6, <1>7, <1>8 DEF EvictedSoFar, s, more, next, key

\* The evictions of a list of keys, one after another.
Evictions(s, keys) == Redis!FoldLeft(Redis!Evict, s, keys)

\* Evicting a list of keys leaves the others, and the memory less their bytes.
LEMMA EvictionsKeep ==
  ASSUME NEW s, KeyspaceOK(s), NEW keys, Distinct(keys, DOMAIN s.keys)
  PROVE  LET q == Evictions(s, keys)
         IN /\ KeyspaceOK(q) /\ VersionsTell(s, q) /\ q.server = s.server
            /\ DOMAIN q.keys = DOMAIN s.keys \ Named(keys)
            /\ \A k \in DOMAIN q.keys : q.keys[k] = s.keys[k]
            /\ q.metrics.memoryUsed = s.metrics.memoryUsed - Sum(BytesIn(s), Named(keys))
<1> DEFINE ctx  == [start |-> s, keys |-> keys]
           done == EvictFold!Folded(0, 0, s, keys)
<1>1. ctx.start = s /\ ctx.keys = keys
  OBVIOUS
<1> HIDE DEF ctx
<1>2. Len(keys) \in Nat /\ DOMAIN keys = 1 .. Len(keys)
  BY DEF Distinct
<1>3. EvictedSoFar(ctx, 0, s)
  <2>1. {keys[j] : j \in 1 .. 0} = {}
    OBVIOUS
  <2>2. Sum(BytesIn(s), {}) = 0
    BY SumTurns, FS_EmptySet
  <2>3. s.metrics.memoryUsed \in Nat
    <3>1. s.metrics.memoryUsed = Sum(BytesIn(s), DOMAIN s.keys)
      BY BooksAreSums DEF KeyspaceOK
    <3> QED
      BY <3>1, BytesAreNumbers, SumIsNumber DEF KeyspaceOK, PartsOK
  <2>4. VersionsTell(s, s)
    BY AlikeItself, AlikeKeeps
  <2>5. s.metrics.memoryUsed = s.metrics.memoryUsed - 0
    BY <2>3
  <2> QED
    BY <1>1, <2>1, <2>2, <2>4, <2>5 DEF EvictedSoFar
<1>4. \A i \in 1 .. Len(keys) : \A acc :
        EvictedSoFar(ctx, i - 1, acc) => EvictedSoFar(ctx, i, EvictStep(0, 0, acc, keys[i]))
  BY <1>1, EvictTurn DEF EvictStep
<1>5. EvictedSoFar(ctx, Len(keys), done)
  BY <1>2, <1>3, <1>4, EvictFold!FoldKeeps
<1>6. Evictions(s, keys) = done
  BY DEF Evictions, EvictFold!Folded, EvictStep, Redis!FoldLeft, EvictFold!FoldLeft,
         Redis!MapThenFoldSet, EvictFold!MapThenFoldSet, Redis!Max, EvictFold!Max
<1>7. {keys[j] : j \in 1 .. Len(keys)} = Named(keys)
  BY <1>2 DEF Named
<1> HIDE DEF done
<1>8. /\ KeyspaceOK(done) /\ VersionsTell(s, done) /\ done.server = s.server
      /\ DOMAIN done.keys = DOMAIN s.keys \ Named(keys)
      /\ \A k \in DOMAIN done.keys : done.keys[k] = s.keys[k]
      /\ done.metrics.memoryUsed = s.metrics.memoryUsed - Sum(BytesIn(s), Named(keys))
  BY <1>1, <1>5, <1>7 DEF EvictedSoFar
<1> QED
  BY <1>6, <1>8

\* From s to q the record goes in under its key.
Gained(s, q, key, record, delta) ==
  /\ DOMAIN q = DOMAIN s
  /\ q.now = s.now /\ q.rng = s.rng /\ q.server = s.server
  /\ q.keys = Redis!Put(s.keys, key, record)
  /\ q.keyOrder = IF key \in DOMAIN s.keys THEN s.keyOrder ELSE Append(s.keyOrder, key)
  /\ DOMAIN q.metrics = DOMAIN s.metrics
  /\ q.metrics.keysCount = s.metrics.keysCount + (IF key \in DOMAIN s.keys THEN 0 ELSE 1)
  /\ q.metrics.memoryUsed = s.metrics.memoryUsed + delta
  /\ q.keyVersions = Redis!Put(s.keyVersions, key, Redis!Version(s, key) + 1)

\* What a record takes beyond the one it replaces.
IsDelta(delta, s, key, record) ==
  delta = record.bytes - (IF key \in DOMAIN s.keys THEN s.keys[key].bytes ELSE 0)

\* A record stored under a key, the sizes adjusted, leaves the keyspace sound.
LEMMA GainingKeeps ==
  ASSUME NEW s, NEW q, KeyspaceOK(s), NEW key, NEW record, RecordOK(key, record),
         NEW delta, IsDelta(delta, s, key, record), Gained(s, q, key, record, delta)
  PROVE  KeyspaceOK(q) /\ VersionsTell(s, q)
<1> DEFINE D == DOMAIN s.keys
<1>1. /\ DOMAIN q.keys = D \cup {key} /\ q.keys[key] = record
      /\ \A k \in D \ {key} : q.keys[k] = s.keys[k]
  BY DEF Gained, Redis!Put
<1>2. IsFiniteSet(D) /\ IsFiniteSet(D \cup {key})
      /\ Cardinality(D) \in Nat
      /\ Cardinality(D \cup {key}) = IF key \in D THEN Cardinality(D) ELSE Cardinality(D) + 1
  BY FS_AddElement, FS_CardinalityType DEF KeyspaceOK, PartsOK
<1>3. PartsOK(q)
  BY <1>1, <1>2 DEF KeyspaceOK, PartsOK, Gained
<1>4. /\ Lists(s.keyOrder, D)
      /\ s.metrics.keysCount = Cardinality(D)
      /\ s.metrics.memoryUsed = Sum(BytesIn(s), D)
  BY BooksAreSums DEF KeyspaceOK
<1>5. Lists(q.keyOrder, DOMAIN q.keys)
  <2>1. CASE key \in D
    <3>1. D \cup {key} = D /\ q.keyOrder = s.keyOrder
      BY <2>1 DEF Gained
    <3> QED
      BY <1>1, <1>4, <3>1
  <2>2. CASE key \notin D
    <3>1. q.keyOrder = Append(s.keyOrder, key)
      BY <2>2 DEF Gained
    <3> HIDE DEF D
    <3> QED
      BY <1>1, <1>4, <2>2, <3>1, ListGrows
  <2> QED
    BY <2>1, <2>2
<1>6. q.metrics.keysCount = Cardinality(DOMAIN q.keys)
  BY <1>1, <1>2, <1>4 DEF Gained
<1>7. q.metrics.memoryUsed = Sum(BytesIn(q), DOMAIN q.keys)
  <2>1. /\ \A k \in D : BytesIn(s)[k] \in Nat /\ BytesIn(s)[k] = s.keys[k].bytes
        /\ \A k \in D \cup {key} : BytesIn(q)[k] \in Nat /\ BytesIn(q)[k] = q.keys[k].bytes
    BY <1>1, <1>3, BytesAreNumbers DEF KeyspaceOK
  <2>2. /\ BytesIn(q)[key] = record.bytes
        /\ \A k \in D \ {key} : BytesIn(q)[k] = BytesIn(s)[k]
    BY <1>1, <2>1
  <2>3. Sum(BytesIn(s), D) \in Nat
    BY <1>2, <2>1, SumIsNumber
  <2>4. q.metrics.memoryUsed = Sum(BytesIn(s), D) + delta
    BY <1>4 DEF Gained
  <2>5. CASE key \in D
    <3>1. D \cup {key} = D
      BY <2>5
    <3>2. Sum(BytesIn(q), D) = Sum(BytesIn(s), D) - BytesIn(s)[key] + BytesIn(q)[key]
      BY <1>2, <2>1, <2>2, <2>5, SumShifts
    <3>3. delta = BytesIn(q)[key] - BytesIn(s)[key]
      BY <2>1, <2>2, <2>5 DEF IsDelta
    <3>4. BytesIn(q)[key] \in Nat /\ BytesIn(s)[key] \in Nat
      BY <2>1, <2>5
    <3>5. DOMAIN q.keys = D
      BY <1>1, <3>1
    <3> HIDE DEF D
    <3> QED
      BY <2>3, <2>4, <3>2, <3>3, <3>4, <3>5
  <2>6. CASE key \notin D
    <3>1. Sum(BytesIn(q), D \cup {key}) = Sum(BytesIn(q), D) + BytesIn(q)[key]
      <4>1. D \in SUBSET (D \cup {key}) /\ key \in D \cup {key}
        OBVIOUS
      <4> HIDE DEF D
      <4> QED
        BY <1>2, <2>1, <2>6, <4>1, SumWithOneMore
    <3>2. Sum(BytesIn(q), D) = Sum(BytesIn(s), D)
      BY <1>2, <2>1, <2>2, <2>6, SumOfSame
    <3>3. delta = BytesIn(q)[key] - 0 /\ BytesIn(q)[key] \in Nat
      BY <2>1, <2>2, <2>6 DEF IsDelta
    <3> QED
      BY <1>1, <2>3, <2>4, <3>1, <3>2, <3>3
  <2> QED
    BY <2>5, <2>6
<1>8. BooksOK(q)
  BY <1>3, <1>5, <1>6, <1>7, BooksAreSums
<1>9. \A k : k # key => Seen(s, k) = Seen(q, k)
  BY <1>1 DEF Seen, Redis!Found
<1>10. VersionsOK(q) /\ VersionsTell(s, q)
  BY <1>9, TouchTells DEF KeyspaceOK, Gained
<1> QED
  BY <1>3, <1>8, <1>10 DEF KeyspaceOK

\* Victims that may go for a key: others than itself, each once.
MayGo(s, key, chosen) ==
  /\ Distinct(chosen.keys, DOMAIN s.keys \ {key})
  /\ chosen.rng \in Seq(Nat) \ {<<>>}

\* What is stored is sound, and the memory grows by delta less what was evicted.
StoredSound(s, chosen, delta, q) ==
  /\ KeyspaceOK(q) /\ VersionsTell(s, q)
  /\ \/ q = s
     \/ /\ ~chosen.oom
        /\ q.metrics.memoryUsed =
             s.metrics.memoryUsed - Sum(BytesIn(s), Named(chosen.keys)) + delta

\* Victims go, then the record goes in; or nothing happens.
LEMMA StoringKeeps ==
  ASSUME NEW s, KeyspaceOK(s), NEW key, NEW record, RecordOK(key, record),
         NEW delta, IsDelta(delta, s, key, record),
         NEW chosen, MayGo(s, key, chosen)
  PROVE  StoredSound(s, chosen, delta, Redis!Stored(s, key, record, delta, chosen).state)
<1> DEFINE drawn == [s EXCEPT !.rng = chosen.rng]
           w     == Evictions(drawn, chosen.keys)
           new   == [w EXCEPT !.keys     = Redis!Put(@, key, record),
                              !.keyOrder = IF Redis!Found(s, key) THEN @ ELSE Append(@, key),
                              !.metrics.keysCount  = @ + (IF Redis!Found(s, key) THEN 0 ELSE 1),
                              !.metrics.memoryUsed = @ + delta]
           q     == Redis!Stored(s, key, record, delta, chosen).state
<1>1. q = IF chosen.oom THEN s ELSE Redis!TouchKey(new, key)
  BY DEF Redis!Stored, Evictions
<1>2. /\ KeyspaceOK(s) /\ VersionsTell(s, s)
  BY AlikeItself, AlikeKeeps
<1>0. Distinct(chosen.keys, DOMAIN s.keys \ {key}) /\ chosen.rng \in Seq(Nat) \ {<<>>}
  BY DEF MayGo
<1>3. /\ KeyspaceOK(drawn) /\ VersionsTell(s, drawn) /\ drawn.keys = s.keys
      /\ drawn.metrics = s.metrics
  <2>1. Alike(s, drawn) /\ drawn.keys = s.keys /\ drawn.metrics = s.metrics
    BY <1>0 DEF Alike, KeyspaceOK, PartsOK, KeyspaceFields
  <2> HIDE DEF drawn
  <2> QED
    BY <2>1, AlikeKeeps
<1> HIDE DEF drawn
<1>4. Distinct(chosen.keys, DOMAIN drawn.keys) /\ key \notin Named(chosen.keys)
  BY <1>0, <1>3 DEF Distinct, Named
<1>5. /\ KeyspaceOK(w) /\ VersionsTell(drawn, w)
      /\ DOMAIN w.keys = DOMAIN s.keys \ Named(chosen.keys)
      /\ \A k \in DOMAIN w.keys : w.keys[k] = s.keys[k]
      /\ w.metrics.memoryUsed = s.metrics.memoryUsed - Sum(BytesIn(s), Named(chosen.keys))
  <2>1. BytesIn(drawn) = BytesIn(s)
    BY <1>3 DEF BytesIn
  <2> QED
    BY <1>3, <1>4, <2>1, EvictionsKeep
<1> HIDE DEF w
<1>6. Redis!Found(s, key) <=> key \in DOMAIN w.keys
  BY <1>4, <1>5 DEF Redis!Found
<1>7. IsDelta(delta, w, key, record)
  BY <1>5, <1>6 DEF IsDelta, Redis!Found
<1>8. Gained(w, Redis!TouchKey(new, key), key, record, delta)
  <2>1. KeyspaceFields \subseteq DOMAIN w /\ {"keysCount", "memoryUsed"} \subseteq DOMAIN w.metrics
    BY <1>5 DEF KeyspaceOK, PartsOK
  <2>2. /\ DOMAIN new = DOMAIN w
        /\ new.now = w.now /\ new.rng = w.rng /\ new.server = w.server
        /\ new.keyVersions = w.keyVersions
        /\ new.keys = Redis!Put(w.keys, key, record)
        /\ new.keyOrder = IF key \in DOMAIN w.keys THEN w.keyOrder ELSE Append(w.keyOrder, key)
        /\ DOMAIN new.metrics = DOMAIN w.metrics
        /\ new.metrics.keysCount = w.metrics.keysCount + (IF key \in DOMAIN w.keys THEN 0 ELSE 1)
        /\ new.metrics.memoryUsed = w.metrics.memoryUsed + delta
    BY <1>6, <2>1 DEF KeyspaceFields
  <2> HIDE DEF new
  <2>3. Redis!Version(new, key) = Redis!Version(w, key)
    BY <2>2 DEF Redis!Version
  <2> QED
    BY <2>1, <2>2, <2>3 DEF Gained, Redis!TouchKey, KeyspaceFields
<1> HIDE DEF new
<1>9. KeyspaceOK(Redis!TouchKey(new, key)) /\ VersionsTell(w, Redis!TouchKey(new, key))
  BY <1>5, <1>7, <1>8, GainingKeeps
<1>10. VersionsTell(s, Redis!TouchKey(new, key))
  <2>1. VersionsTell(s, w)
    BY <1>3, <1>5, TellsAgain DEF KeyspaceOK
  <2> QED
    BY <1>5, <1>9, <2>1, TellsAgain DEF KeyspaceOK
<1>11. Redis!TouchKey(new, key).metrics.memoryUsed =
         s.metrics.memoryUsed - Sum(BytesIn(s), Named(chosen.keys)) + delta
  BY <1>5, <1>8 DEF Gained
<1> HIDE DEF q
<1>12. StoredSound(s, chosen, delta, q)
  BY <1>1, <1>2, <1>9, <1>10, <1>11 DEF StoredSound
<1> QED
  BY <1>12 DEF q

\* The keyspace of createState, where nothing is stored yet, is sound.
LEMMA EmptyIsSound ==
  ASSUME NEW s, PartsOK(s), DOMAIN s.keys = {}, s.keyOrder = <<>>, DOMAIN s.keyVersions = {},
         s.metrics.keysCount = 0, s.metrics.memoryUsed = 0
  PROVE  KeyspaceOK(s)
<1>1. Cardinality({}) = 0 /\ IsFiniteSet({})
  BY FS_EmptySet
<1>2. Sum(BytesIn(s), {}) = 0
  BY <1>1, SumTurns
<1>3. Lists(s.keyOrder, {})
  BY DEF Lists
<1>4. BooksOK(s)
  BY <1>1, <1>2, <1>3, BooksAreSums
<1> QED
  BY <1>4 DEF KeyspaceOK, VersionsOK

\* The keyspace is as it has to be again, and its versions tell what changed.
SoundFrom(s, q) == KeyspaceOK(q) /\ VersionsTell(s, q)

\* What GrowthWithinBudget of RedisServer says of a step, of a write.
GrowsWithinBudget(s, q) ==
  \/ q.metrics.memoryUsed <= s.metrics.memoryUsed
  \/ s.server.maxmemoryBytes = Redis!Unlimited
  \/ q.metrics.memoryUsed <= s.server.maxmemoryBytes

\* Writing a key.
LEMMA WriteKeeps ==
  ASSUME NEW s, KeyspaceOK(s), NEW key, NEW value, NEW opts,
         Redis!SizeOf(key, value) \in Nat, opts.expiresAt \in Int
  PROVE  LET q == Redis!WriteKey(s, key, value, opts).state
         IN SoundFrom(s, q) /\ GrowsWithinBudget(s, q)
<1> DEFINE existed == Redis!Found(s, key)
           bytes   == Redis!SizeOf(key, value)
           delta   == bytes - (IF existed THEN s.keys[key].bytes ELSE 0)
           record  == [ value        |-> value,
                        expiresAt    |-> IF ~opts.keepTtl THEN opts.expiresAt
                                         ELSE IF existed THEN s.keys[key].expiresAt
                                         ELSE Redis!NoExpiry,
                        lastAccessAt |-> s.now,
                        hits         |-> IF existed THEN s.keys[key].hits ELSE 0,
                        bytes        |-> bytes ]
           others  == Redis!Others(s, key)
           chosen  == IF delta > 0 THEN Redis!EvictionVictims(others, bytes)
                      ELSE [keys |-> <<>>, rng |-> s.rng, oom |-> FALSE]
           q       == Redis!WriteKey(s, key, value, opts).state
           D       == DOMAIN s.keys
<1>1. q = Redis!Stored(s, key, record, delta, chosen).state
  BY DEF Redis!WriteKey
<1>2. \A k \in D : RecordOK(k, s.keys[k])
  BY DEF KeyspaceOK, PartsOK
<1>3. RecordOK(key, record)
  BY <1>2 DEF RecordOK, Redis!Found, Redis!NoExpiry, KeyspaceOK, PartsOK
<1>4. record.bytes = bytes
  OBVIOUS
<1> HIDE DEF record
<1>5. IsDelta(delta, s, key, record)
  BY <1>4 DEF IsDelta, Redis!Found
<1>6. delta \in Int /\ s.metrics.memoryUsed \in Nat /\ s.server.maxmemoryBytes \in Int
      /\ IsFiniteSet(D)
  <2>1. s.metrics.memoryUsed = Sum(BytesIn(s), D)
    BY BooksAreSums DEF KeyspaceOK
  <2>2. s.metrics.memoryUsed \in Nat
    BY <2>1, BytesAreNumbers, SumIsNumber DEF KeyspaceOK, PartsOK
  <2>3. existed => s.keys[key].bytes \in Nat
    BY <1>2 DEF RecordOK, Redis!Found
  <2> QED
    BY <2>2, <2>3 DEF KeyspaceOK, PartsOK
<1>7. /\ PartsOK(others) /\ BooksOK(others)
      /\ DOMAIN others.keys = D \ {key}
      /\ \A k \in D \ {key} : others.keys[k] = s.keys[k]
      /\ others.server = s.server
      /\ others.metrics.memoryUsed = s.metrics.memoryUsed - (IF existed THEN s.keys[key].bytes ELSE 0)
  <2>1. CASE existed
    <3>1. others = Redis!Without(s, key) /\ key \in D
      BY <2>1 DEF Redis!Others, Redis!Found
    <3>2. Removed(s, others, key)
      BY <3>1, WithoutRemoves DEF KeyspaceOK
    <3> HIDE DEF others
    <3>3. PartsOK(others) /\ BooksOK(others)
      BY <3>1, <3>2, RemovingKeeps DEF KeyspaceOK
    <3> QED
      BY <2>1, <3>2, <3>3 DEF Removed
  <2>2. CASE ~existed
    <3>1. others = s /\ key \notin D
      BY <2>2 DEF Redis!Others, Redis!Found
    <3>2. s.metrics.memoryUsed = s.metrics.memoryUsed - 0
      BY <1>6
    <3> HIDE DEF others
    <3> QED
      BY <2>2, <3>1, <3>2 DEF KeyspaceOK
  <2> QED
    BY <2>1, <2>2
<1> HIDE DEF others
<1>8. Redis!Over(others, bytes) = s.metrics.memoryUsed + delta - s.server.maxmemoryBytes
  <2>1. (IF existed THEN s.keys[key].bytes ELSE 0) \in Int /\ bytes \in Int
    BY <1>2 DEF RecordOK, Redis!Found
  <2> QED
    BY <1>6, <1>7, <2>1 DEF Redis!Over
<1> HIDE DEF delta, bytes, existed
<1>9. /\ Distinct(chosen.keys, D \ {key}) /\ chosen.rng \in Seq(Nat) \ {<<>>}
      /\ \/ delta <= 0 /\ chosen.keys = <<>>
         \/ chosen.oom
         \/ s.server.maxmemoryBytes = Redis!Unlimited
         \/ Sum(BytesIn(s), Named(chosen.keys)) >=
              s.metrics.memoryUsed + delta - s.server.maxmemoryBytes
  <2>1. CASE delta > 0
    <3>1. chosen = Redis!EvictionVictims(others, bytes)
      BY <2>1
    <3> HIDE DEF chosen
    <3>2. bytes \in Int
      BY DEF bytes
    <3>3. ChosenOK(others, bytes, chosen)
      BY <1>7, <3>1, <3>2, EvictionFrees
    <3>4. Sum(BytesIn(s), Named(chosen.keys)) = Sum(BytesIn(others), Named(chosen.keys))
      <4>1. Named(chosen.keys) \in SUBSET (D \ {key})
        BY <1>7, <3>3 DEF ChosenOK, Distinct, Named
      <4>2. \A k \in D \ {key} : BytesIn(s)[k] \in Nat /\ BytesIn(s)[k] = BytesIn(others)[k]
        BY <1>7, BytesAreNumbers DEF BytesIn, KeyspaceOK, PartsOK, RecordOK
      <4>3. IsFiniteSet(Named(chosen.keys))
        BY <1>6, <4>1, FS_Subset
      <4> QED
        BY <4>1, <4>2, <4>3, SumOfSame
    <3> QED
      BY <1>7, <1>8, <3>3, <3>4 DEF ChosenOK
  <2>2. CASE ~(delta > 0)
    <3>1. chosen.keys = <<>> /\ chosen.rng = s.rng
      BY <2>2
    <3>2. Distinct(<<>>, D \ {key})
      BY DEF Distinct
    <3> HIDE DEF chosen
    <3> QED
      BY <1>6, <2>2, <3>1, <3>2 DEF KeyspaceOK, PartsOK
  <2> QED
    BY <2>1, <2>2
<1> HIDE DEF chosen, q
<1>10. StoredSound(s, chosen, delta, q)
  <2>1. MayGo(s, key, chosen)
    BY <1>9 DEF MayGo
  <2>2. StoredSound(s, chosen, delta, Redis!Stored(s, key, record, delta, chosen).state)
    BY <1>3, <1>5, <2>1, StoringKeeps
  <2> QED
    BY <1>1, <2>2
<1>11. GrowsWithinBudget(s, q)
  <2>1. CASE q = s
    BY <1>6, <2>1 DEF GrowsWithinBudget
  <2>2. CASE /\ ~chosen.oom
             /\ q.metrics.memoryUsed =
                  s.metrics.memoryUsed - Sum(BytesIn(s), Named(chosen.keys)) + delta
    <3> DEFINE freed == Sum(BytesIn(s), Named(chosen.keys))
    <3>1. freed \in Nat
      <4>1. Named(chosen.keys) \in SUBSET D
        BY <1>9 DEF Distinct, Named
      <4>2. IsFiniteSet(Named(chosen.keys))
        BY <1>6, <4>1, FS_Subset
      <4> QED
        BY <4>1, <4>2, BytesAreNumbers, SumIsNumber DEF KeyspaceOK
    <3> HIDE DEF freed
    <3>2. q.metrics.memoryUsed = s.metrics.memoryUsed - freed + delta
      BY <2>2 DEF freed
    <3>3. \/ delta <= 0
          \/ s.server.maxmemoryBytes = Redis!Unlimited
          \/ freed >= s.metrics.memoryUsed + delta - s.server.maxmemoryBytes
      BY <1>9, <2>2 DEF freed
    <3> QED
      BY <1>6, <3>1, <3>2, <3>3 DEF GrowsWithinBudget
  <2> QED
    BY <1>10, <2>1, <2>2 DEF StoredSound
<1> QED
  BY <1>10, <1>11 DEF SoundFrom, StoredSound, q

\* Whatever is read, written, evicted, deleted or expired, keyOrder goes on to
\* list every key once, the count and the bytes that evictions go by stay
\* those of the keys that are there, the version of a key rises whenever what a
\* client may see of it changes, and no write makes the data grow past the
\* budget: eviction frees enough, by any policy, or the write is refused.
THEOREM KeyspaceIsSound ==
  ASSUME NEW s, KeyspaceOK(s), NEW key
  PROVE  /\ \A intent : SoundFrom(s, Redis!ReadKey(s, key, intent))
         /\ SoundFrom(s, Redis!DeleteKey(s, key))
         /\ SoundFrom(s, Redis!Expire(s, key))
         /\ ActiveExpireSample \in Nat => SoundFrom(s, Redis!ActiveExpirePass(s))
         /\ \A value, opts :
              Redis!SizeOf(key, value) \in Nat /\ opts.expiresAt \in Int =>
                LET q == Redis!WriteKey(s, key, value, opts).state
                IN SoundFrom(s, q) /\ GrowsWithinBudget(s, q)
<1>1. \A intent : SoundFrom(s, Redis!ReadKey(s, key, intent))
  BY ReadKeeps DEF SoundFrom
<1>2. SoundFrom(s, Redis!DeleteKey(s, key))
  BY DeleteKeeps DEF SoundFrom
<1>3. SoundFrom(s, Redis!Expire(s, key))
  BY ExpireKeeps DEF SoundFrom
<1>4. ActiveExpireSample \in Nat => SoundFrom(s, Redis!ActiveExpirePass(s))
  BY PassKeeps DEF SoundFrom
<1>5. ASSUME NEW value, NEW opts, Redis!SizeOf(key, value) \in Nat, opts.expiresAt \in Int
      PROVE  LET q == Redis!WriteKey(s, key, value, opts).state
             IN SoundFrom(s, q) /\ GrowsWithinBudget(s, q)
  BY <1>5, WriteKeeps
<1> QED
  BY <1>1, <1>2, <1>3, <1>4, <1>5
===============================================================================
