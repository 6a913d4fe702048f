------------------------ MODULE KafkaConsumerGroupProofs ------------------------
(***************************************************************************)
(* What the assignors of KafkaAssignors give, for every order of consumers *)
(* and topics and every subscription; what each operation of the groups of *)
(* KafkaCoordinator gives, and what the queue of KafkaConsumerGroup holds  *)
(* after events have been scheduled; and, from "The types of the           *)
(* variables" on, theorems about the consumer group of KafkaConsumerGroup, *)
(* for any number of consumers, topics and partitions, every subscription, *)
(* timeout and interval.                                                   *)
(***************************************************************************)
EXTENDS KafkaConsumerGroup, FiniteSetTheorems, SequenceTheorems, TLAPS

-----------------------------------------------------------------------------
(* Among *)

AmongStep(S, aux, found, x) == IF x \in S THEN Append(found, x) ELSE found

\* What has been found in the first i elements.
AmongSoFar(ctx, i, found) ==
  LET s == ctx.seq IN
  /\ found \in Seq(ctx.of)
  /\ ToSet(found) = {s[j] : j \in 1 .. i} \cap ctx.set
  /\ IsInjective(s) => IsInjective(found)

AmongFold == INSTANCE LeftFold WITH Op <- AmongStep, Inv <- AmongSoFar

\* Among keeps the elements that are in the set, and each of them once if the
\* sequence has it once.
LEMMA AmongElements ==
  ASSUME NEW X, NEW s \in Seq(X), NEW S
  PROVE  /\ Among(s, S) \in Seq(X)
         /\ ToSet(Among(s, S)) = ToSet(s) \cap S
         /\ IsInjective(s) => IsInjective(Among(s, S))
<1> DEFINE ctx == [seq |-> s, set |-> S, of |-> X]
           n == Len(s)
<1>1. n \in Nat /\ DOMAIN s = 1 .. n /\ s \in [1 .. n -> X]
  OBVIOUS
<1>2. Among(s, S) = AmongFold!Folded(S, {}, <<>>, s)
  BY DEF Among, AmongFold!Folded, AmongStep, FoldLeft, AmongFold!FoldLeft, MapThenFoldSet, AmongFold!MapThenFoldSet, Max, AmongFold!Max
<1>3. AmongSoFar(ctx, 0, <<>>)
  BY DEF AmongSoFar, ToSet, IsInjective
<1>4. ASSUME NEW i \in 1 .. n, NEW found, AmongSoFar(ctx, i - 1, found)
      PROVE  AmongSoFar(ctx, i, AmongStep(S, {}, found, s[i]))
  <2> DEFINE before == {s[j] : j \in 1 .. i - 1}
  <2>1. {s[j] : j \in 1 .. i} = before \cup {s[i]}
    OBVIOUS
  <2>2. CASE s[i] \notin S
    BY <1>4, <2>1, <2>2 DEF AmongSoFar, AmongStep
  <2>3. CASE s[i] \in S
    <3> DEFINE more == Append(found, s[i])
    <3>1. /\ found \in Seq(X) /\ s[i] \in X
          /\ more \in Seq(X) /\ Len(more) = Len(found) + 1
          /\ \A j \in 1 .. Len(found) : more[j] = found[j]
          /\ more[Len(found) + 1] = s[i]
      BY <1>1, <1>4 DEF AmongSoFar
    <3>2. ToSet(more) = ToSet(found) \cup {s[i]}
      BY <3>1 DEF ToSet
    <3>3. IsInjective(s) => s[i] \notin before
      BY <1>1 DEF IsInjective
    <3>4. IsInjective(s) => IsInjective(more)
      <4> SUFFICES ASSUME IsInjective(s),
                          NEW a \in DOMAIN more, NEW b \in DOMAIN more, more[a] = more[b]
                   PROVE  a = b
        BY DEF IsInjective
      <4>1. s[i] \notin ToSet(found)
        BY <1>4, <3>3 DEF AmongSoFar
      <4>2. IsInjective(found)
        BY <1>4 DEF AmongSoFar
      <4> QED
        BY <3>1, <4>1, <4>2 DEF IsInjective, ToSet
    <3> QED
      BY <1>4, <2>1, <2>3, <3>1, <3>2, <3>4 DEF AmongSoFar, AmongStep
  <2> QED
    BY <2>2, <2>3
<1>5. AmongSoFar(ctx, n, AmongFold!Folded(S, {}, <<>>, s))
  <2> HIDE DEF ctx, n
  <2> QED
    BY <1>1, <1>3, <1>4, AmongFold!FoldKeeps
<1> QED
  BY <1>1, <1>2, <1>5 DEF AmongSoFar, ToSet

-----------------------------------------------------------------------------
(* PartitionOrder *)

AllPartitions == {<<t, n>> : t \in Topics, n \in Nat}

PartitionsStep(par, aux, earlier, topic) == earlier \o PartitionsOf(topic)

\* The partitions of the first i topics.
PartitionsSoFar(ctx, i, ps) ==
  /\ ps \in Seq(AllPartitions)
  /\ \A p \in AllPartitions :
       p \in ToSet(ps) <=> p[2] < PartitionCount[p[1]] /\ \E j \in 1 .. i : p[1] = TopicOrder[j]
  /\ IsInjective(ps)

PartitionsFold == INSTANCE LeftFold WITH Op <- PartitionsStep, Inv <- PartitionsSoFar

\* The concatenation of two sequences that share nothing.
LEMMA Concatenation ==
  ASSUME NEW X, NEW s \in Seq(X), NEW t \in Seq(X), IsInjective(s), IsInjective(t),
         ToSet(s) \cap ToSet(t) = {}
  PROVE  /\ s \o t \in Seq(X)
         /\ ToSet(s \o t) = ToSet(s) \cup ToSet(t)
         /\ IsInjective(s \o t)
<1> DEFINE c == s \o t
<1>1. /\ c \in Seq(X) /\ Len(c) = Len(s) + Len(t) /\ DOMAIN c = 1 .. Len(c)
      /\ Len(s) \in Nat /\ Len(t) \in Nat
      /\ DOMAIN s = 1 .. Len(s) /\ DOMAIN t = 1 .. Len(t)
      /\ \A i \in 1 .. Len(s) : c[i] = s[i]
      /\ \A i \in 1 .. Len(c) : i > Len(s) => i - Len(s) \in 1 .. Len(t) /\ c[i] = t[i - Len(s)]
  OBVIOUS
<1>2. \A i \in 1 .. Len(t) : i + Len(s) \in 1 .. Len(c) /\ c[i + Len(s)] = t[i]
  BY <1>1
<1> HIDE DEF c
<1>3. ToSet(c) = ToSet(s) \cup ToSet(t)
  <2>1. \A i \in 1 .. Len(c) : c[i] \in ToSet(s) \cup ToSet(t)
    <3> TAKE i \in 1 .. Len(c)
    <3>1. CASE i <= Len(s)
      BY <1>1, <3>1 DEF ToSet
    <3>2. CASE i > Len(s)
      BY <1>1, <3>2 DEF ToSet
    <3> QED
      BY <1>1, <3>1, <3>2
  <2>2. ToSet(s) \subseteq ToSet(c)
    BY <1>1 DEF ToSet
  <2>3. ToSet(t) \subseteq ToSet(c)
    BY <1>1, <1>2 DEF ToSet
  <2>4. ToSet(c) \subseteq ToSet(s) \cup ToSet(t)
    <3> DEFINE both == ToSet(s) \cup ToSet(t)
    <3>1. \A i \in DOMAIN c : c[i] \in both
      BY <1>1, <2>1
    <3> HIDE DEF both
    <3>2. ToSet(c) \subseteq both
      BY <3>1 DEF ToSet
    <3> QED
      BY <3>2 DEF both
  <2> QED
    BY <2>2, <2>3, <2>4
<1>4. IsInjective(c)
  <2> SUFFICES ASSUME NEW a \in 1 .. Len(c), NEW b \in 1 .. Len(c), c[a] = c[b]
               PROVE  a = b
    BY <1>1 DEF IsInjective
  <2>1. \A i \in 1 .. Len(c) : i <= Len(s) => c[i] \in ToSet(s) /\ c[i] = s[i]
    BY <1>1 DEF ToSet
  <2>2. \A i \in 1 .. Len(c) : i > Len(s) => c[i] \in ToSet(t) /\ c[i] = t[i - Len(s)]
    BY <1>1 DEF ToSet
  <2>3. CASE a <= Len(s) /\ b <= Len(s)
    BY <1>1, <2>1, <2>3 DEF IsInjective
  <2>4. CASE a > Len(s) /\ b > Len(s)
    <3>1. a - Len(s) = b - Len(s)
      BY <1>1, <2>2, <2>4 DEF IsInjective
    <3> QED
      BY <1>1, <3>1
  <2>5. CASE a <= Len(s) /\ b > Len(s)
    BY <2>1, <2>2, <2>5
  <2>6. CASE a > Len(s) /\ b <= Len(s)
    BY <2>1, <2>2, <2>6
  <2> QED
    BY <1>1, <2>3, <2>4, <2>5, <2>6
<1> QED
  BY <1>1, <1>3, <1>4 DEF c

\* The partitions of one topic, in order.
LEMMA PartitionsOfATopic ==
  ASSUME NEW t \in Topics
  PROVE  /\ PartitionsOf(t) \in Seq(AllPartitions)
         /\ ToSet(PartitionsOf(t)) = {<<t, n>> : n \in 0 .. PartitionCount[t] - 1}
         /\ IsInjective(PartitionsOf(t))
<1>1. PartitionCount[t] \in Nat \ {0}
  BY TopicsAssumption
<1>2. \A i \in 1 .. PartitionCount[t] : i - 1 \in Nat
  BY <1>1
<1>3. ToSet(PartitionsOf(t)) = {<<t, n>> : n \in 0 .. PartitionCount[t] - 1}
  <2>1. \A n \in 0 .. PartitionCount[t] - 1 :
          n + 1 \in 1 .. PartitionCount[t] /\ <<t, n>> = <<t, (n + 1) - 1>>
    BY <1>1
  <2>2. \A i \in 1 .. PartitionCount[t] : i - 1 \in 0 .. PartitionCount[t] - 1
    BY <1>1
  <2> QED
    BY <2>1, <2>2 DEF ToSet, PartitionsOf
<1> QED
  BY <1>1, <1>2, <1>3 DEF PartitionsOf, IsInjective, AllPartitions

\* PartitionOrder has every partition of every topic, once.
LEMMA PartitionOrderIsComplete ==
  /\ PartitionOrder \in Seq(AllPartitions)
  /\ IsInjective(PartitionOrder)
  /\ TopicPartitions = {p \in AllPartitions : p[2] < PartitionCount[p[1]]}
<1> DEFINE n == Len(TopicOrder)
<1>1. n \in Nat /\ DOMAIN TopicOrder = 1 .. n /\ TopicOrder \in [1 .. n -> Topics]
  BY OrdersAssumption
<1>2. PartitionOrder = PartitionsFold!Folded({}, {}, <<>>, TopicOrder)
  BY DEF PartitionOrder, PartitionsFold!Folded, PartitionsStep, FoldLeft, PartitionsFold!FoldLeft,
         MapThenFoldSet, PartitionsFold!MapThenFoldSet, Max, PartitionsFold!Max
<1>3. PartitionsSoFar({}, 0, <<>>)
  BY DEF PartitionsSoFar, ToSet, IsInjective
<1>4. ASSUME NEW i \in 1 .. n, NEW ps, PartitionsSoFar({}, i - 1, ps)
      PROVE  PartitionsSoFar({}, i, PartitionsStep({}, {}, ps, TopicOrder[i]))
  <2> DEFINE t == TopicOrder[i]
             more == PartitionsOf(t)
  <2>1. t \in Topics /\ \A j \in 1 .. i - 1 : TopicOrder[j] # t
    BY <1>1, OrdersAssumption DEF IsInjective
  <2>2. /\ more \in Seq(AllPartitions) /\ IsInjective(more)
        /\ \A p \in AllPartitions :
             p \in ToSet(more) <=> p[2] < PartitionCount[p[1]] /\ p[1] = t
    <3>1. \A p \in AllPartitions :
            p \in {<<t, k>> : k \in 0 .. PartitionCount[t] - 1}
              <=> p[2] < PartitionCount[p[1]] /\ p[1] = t
      <4>1. PartitionCount[t] \in Nat
        BY <2>1, TopicsAssumption
      <4> QED
        BY <4>1 DEF AllPartitions
    <3> QED
      BY <2>1, <3>1, PartitionsOfATopic
  <2>3. ToSet(ps) \subseteq AllPartitions /\ ToSet(more) \subseteq AllPartitions
    BY <1>4, <2>2 DEF PartitionsSoFar, ToSet
  <2> HIDE DEF more, t
  <2>4. ToSet(ps) \cap ToSet(more) = {}
    BY <1>4, <2>1, <2>2, <2>3 DEF PartitionsSoFar
  <2>5. /\ ps \o more \in Seq(AllPartitions)
        /\ ToSet(ps \o more) = ToSet(ps) \cup ToSet(more)
        /\ IsInjective(ps \o more)
    BY <1>4, <2>2, <2>4, Concatenation DEF PartitionsSoFar
  <2>6. ASSUME NEW p \in AllPartitions
        PROVE  p \in ToSet(ps \o more)
                 <=> p[2] < PartitionCount[p[1]] /\ \E j \in 1 .. i : p[1] = TopicOrder[j]
    <3>1. (\E j \in 1 .. i : p[1] = TopicOrder[j])
            <=> p[1] = t \/ \E j \in 1 .. i - 1 : p[1] = TopicOrder[j]
      BY DEF t
    <3> QED
      BY <1>4, <2>2, <2>5, <3>1 DEF PartitionsSoFar
  <2> QED
    BY <2>5, <2>6 DEF PartitionsSoFar, PartitionsStep, more, t
<1>5. PartitionsSoFar({}, n, PartitionOrder)
  <2> HIDE DEF n
  <2> QED
    BY <1>1, <1>2, <1>3, <1>4, PartitionsFold!FoldKeeps
<1>6. TopicPartitions \subseteq AllPartitions
  BY <1>5 DEF PartitionsSoFar, TopicPartitions, ToSet
<1>7. ASSUME NEW p \in AllPartitions
      PROVE  p \in TopicPartitions <=> p[2] < PartitionCount[p[1]]
  <2>1. \E j \in 1 .. n : p[1] = TopicOrder[j]
    BY <1>1 DEF AllPartitions, Topics, ToSet
  <2> QED
    BY <1>5, <2>1 DEF PartitionsSoFar, TopicPartitions
<1> QED
  BY <1>5, <1>6, <1>7 DEF PartitionsSoFar

-----------------------------------------------------------------------------
(* What an assignment is *)

\* g shares the partitions of S out among the members, each to one of those
\* that subscribed to its topic.
SharesOut(g, members, S) ==
  /\ g \in [members -> SUBSET S]
  /\ \A p \in S : \E m \in members : p \in g[m]
  /\ \A m \in members : \A p \in g[m] : p[1] \in Subscriptions[m]
  /\ \A m, k \in members : m # k => g[m] \cap g[k] = {}

\* The partitions of the topics that somebody subscribed to.
Wanted(members) == {p \in TopicPartitions : \E m \in members : p[1] \in Subscriptions[m]}

-----------------------------------------------------------------------------
(* Arithmetic *)

\* Division with a remainder.
LEMMA Division ==
  ASSUME NEW n \in Nat \ {0}, NEW count \in Nat
  PROVE  /\ count \div n \in Nat
         /\ count % n \in 0 .. n - 1
         /\ count = n * (count \div n) + (count % n)
OBVIOUS

\* Multiplication is monotone.
LEMMA TimesMonotone ==
  ASSUME NEW i \in Nat, NEW k \in Nat, NEW q \in Nat, i <= k
  PROVE  i * q <= k * q /\ i * q \in Nat /\ k * q \in Nat
OBVIOUS

\* A product and what it is less than once more of one factor.
LEMMA TimesNext ==
  ASSUME NEW n \in Nat, NEW q \in Nat
  PROVE  n * q \in Nat /\ n * (q + 1) = n * q + n /\ (q + 1) * n = q * n + n /\ n * q = q * n
OBVIOUS

\* The remainder of a number that is given as a multiple and a remainder.
LEMMA RemainderIsUnique ==
  ASSUME NEW n \in Nat \ {0}, NEW q \in Nat, NEW o \in 0 .. n - 1
  PROVE  (n * q + o) % n = o
<1> DEFINE c == n * q + o
           d == c \div n
           r == c % n
<1>1. n * q \in Nat /\ c \in Nat
  BY TimesNext
<1>2. d \in Nat /\ r \in 0 .. n - 1 /\ c = n * d + r
  BY <1>1, Division
<1> HIDE DEF d, r
<1>3. n * d \in Nat
  BY <1>2, TimesNext
<1>4. CASE d = q
  BY <1>1, <1>2, <1>4 DEF r
<1>5. CASE d > q
  <2>1. (q + 1) * n <= d * n
    BY <1>2, <1>5, TimesMonotone
  <2>2. n * q + n <= n * d
    BY <1>2, <2>1, TimesNext
  <2> QED
    BY <1>1, <1>2, <1>3, <2>2
<1>6. CASE d < q
  <2>1. (d + 1) * n <= q * n
    BY <1>2, <1>6, TimesMonotone
  <2>2. n * d + n <= n * q
    BY <1>2, <2>1, TimesNext
  <2> QED
    BY <1>1, <1>2, <1>3, <2>2
<1> QED
  BY <1>2, <1>4, <1>5, <1>6

-----------------------------------------------------------------------------
(* Turn and Dealt *)

\* The cursor finds a taker that is open, if there is one.
LEMMA TurnIsOpen ==
  ASSUME NEW cursor \in Nat, NEW n \in Nat \ {0}, NEW open \in SUBSET (1 .. n), open # {}
  PROVE  /\ Turn(cursor, n, open) \in Nat
         /\ (Turn(cursor, n, open) % n) + 1 \in open
<1> DEFINE Ours == {j \in cursor .. cursor + n - 1 : (j % n) + 1 \in open}
<1>1. Ours # {}
  <2>1. PICK o \in 0 .. n - 1 : o + 1 \in open
    <3>1. PICK i \in open : TRUE
      OBVIOUS
    <3>2. i - 1 \in 0 .. n - 1 /\ (i - 1) + 1 = i
      BY <3>1
    <3> QED
      BY <3>1, <3>2
  <2> DEFINE q == cursor \div n
             r == cursor % n
  <2>2. q \in Nat /\ r \in 0 .. n - 1 /\ cursor = n * q + r
    BY Division
  <2> HIDE DEF q, r
  <2>3. n * q \in Nat /\ n * (q + 1) = n * q + n /\ q + 1 \in Nat
    BY <2>2, TimesNext
  <2>4. CASE o >= r
    <3>1. n * q + o \in cursor .. cursor + n - 1
      BY <2>2, <2>3, <2>4
    <3>2. (n * q + o) % n = o
      BY <2>2, RemainderIsUnique
    <3> QED
      BY <2>1, <3>1, <3>2
  <2>5. CASE o < r
    <3>1. n * (q + 1) + o \in cursor .. cursor + n - 1
      BY <2>2, <2>3, <2>5
    <3>2. (n * (q + 1) + o) % n = o
      BY <2>3, RemainderIsUnique
    <3> QED
      BY <2>1, <3>1, <3>2
  <2> QED
    BY <2>2, <2>4, <2>5
<1>2. Ours \in SUBSET Nat
  OBVIOUS
<1>3. PICK j \in Ours : \A k \in Ours : j <= k
  BY <1>1, <1>2, AmongFold!LeastNumber
<1>4. /\ j \in cursor .. cursor + n - 1
      /\ (j % n) + 1 \in open
      /\ \A k \in cursor .. j - 1 : (k % n) + 1 \notin open
  <2>1. j \in cursor .. cursor + n - 1 /\ (j % n) + 1 \in open
    BY <1>3
  <2>2. \A k \in cursor .. j - 1 : k \in cursor .. cursor + n - 1 /\ k \notin Ours
    <3>1. \A k \in cursor .. j - 1 : k \in cursor .. cursor + n - 1 /\ ~ (j <= k)
      BY <2>1
    <3> HIDE DEF Ours
    <3> QED
      BY <1>3, <3>1
  <2> QED
    BY <2>1, <2>2
<1> HIDE DEF Ours
<1>5. /\ Turn(cursor, n, open) \in cursor .. cursor + n - 1
      /\ (Turn(cursor, n, open) % n) + 1 \in open
  BY <1>4 DEF Turn
<1> QED
  BY <1>5

\* One more partition is dealt, to a taker that subscribed to its topic.
LEMMA DealtSharesOut ==
  ASSUME NEW members, NEW S, NEW deal, NEW takers \in Seq(members), NEW p, p \notin S,
         NEW open \in SUBSET DOMAIN takers, open # {},
         \A i \in open : p[1] \in Subscriptions[takers[i]],
         deal.cursor \in Nat, SharesOut(deal.given, members, S)
  PROVE  LET next == Dealt(deal, takers, open, p)
         IN next.cursor \in Nat /\ SharesOut(next.given, members, S \cup {p})
<1> DEFINE j == Turn(deal.cursor, Len(takers), open)
           i == (j % Len(takers)) + 1
           g == [deal.given EXCEPT ![takers[i]] = @ \cup {p}]
<1>1. Len(takers) \in Nat \ {0} /\ open \in SUBSET (1 .. Len(takers))
  OBVIOUS
<1>2. j \in Nat /\ i \in open
  BY <1>1, TurnIsOpen
<1>3. Dealt(deal, takers, open, p) = [cursor |-> j + 1, given |-> g]
  BY DEF Dealt
<1> HIDE DEF j, i
<1>4. takers[i] \in members /\ p[1] \in Subscriptions[takers[i]]
  BY <1>2
<1>5. /\ g \in [members -> SUBSET (S \cup {p})]
      /\ g[takers[i]] = deal.given[takers[i]] \cup {p}
      /\ \A m \in members : m # takers[i] => g[m] = deal.given[m]
  BY <1>4 DEF SharesOut
<1>6. \A m, k \in members : m # k => g[m] \cap g[k] = {}
  <2> SUFFICES ASSUME NEW m \in members, NEW k \in members, m # k
               PROVE  g[m] \cap g[k] = {}
    OBVIOUS
  <2>1. deal.given[m] \cap deal.given[k] = {} /\ p \notin deal.given[m] /\ p \notin deal.given[k]
    BY DEF SharesOut
  <2> QED
    BY <1>5, <2>1
<1> HIDE DEF g
<1>7. \A q \in S \cup {p} : \E m \in members : q \in g[m]
  <2>1. p \in g[takers[i]]
    BY <1>5
  <2>2. ASSUME NEW q \in S
        PROVE  \E m \in members : q \in g[m]
    <3>1. PICK m \in members : q \in deal.given[m]
      BY DEF SharesOut
    <3> QED
      BY <1>5, <3>1
  <2> QED
    BY <1>4, <2>1, <2>2
<1>8. \A m \in members : \A q \in g[m] : q[1] \in Subscriptions[m]
  <2> SUFFICES ASSUME NEW m \in members, NEW q \in g[m]
               PROVE  q[1] \in Subscriptions[m]
    OBVIOUS
  <2>1. CASE q \in deal.given[m]
    BY <2>1 DEF SharesOut
  <2>2. CASE q \notin deal.given[m]
    <3>1. m = takers[i] /\ q = p
      BY <1>5, <2>2
    <3> QED
      BY <1>4, <3>1
  <2> QED
    BY <2>1, <2>2
<1>9. SharesOut(g, members, S \cup {p})
  BY <1>5, <1>6, <1>7, <1>8 DEF SharesOut
<1> QED
  BY <1>2, <1>3, <1>9

-----------------------------------------------------------------------------
(* rangeAssign *)

\* RangeRun cuts 0 .. count - 1 into runs: two of them share nothing, and
\* every number is in one.
LEMMA RangeRunsSplit ==
  ASSUME NEW n \in Nat \ {0}, NEW count \in Nat
  PROVE  /\ \A i \in 1 .. n : RangeRun(i, n, count) \subseteq 0 .. count - 1
         /\ \A i, k \in 1 .. n : i # k => RangeRun(i, n, count) \cap RangeRun(k, n, count) = {}
         /\ \A x \in 0 .. count - 1 : \E i \in 1 .. n : x \in RangeRun(i, n, count)
<1> DEFINE q == count \div n
           e == count % n
           End(i) == i * q + Lesser(i, e)
<1>1. q \in Nat /\ e \in 0 .. n - 1 /\ count = n * q + e
  BY Division
<1>2. \A i \in 1 .. n : RangeRun(i, n, count) = End(i - 1) .. End(i) - 1
  <2> TAKE i \in 1 .. n
  <2>1. i * q = (i - 1) * q + q /\ (i - 1) * q \in Nat
    <3>1. i - 1 \in Nat /\ (i - 1) + 1 = i
      OBVIOUS
    <3> QED
      BY <1>1, <3>1, TimesNext
  <2>2. RangeRun(i, n, count)
          = (i - 1) * q + Lesser(i - 1, e)
              .. (i - 1) * q + Lesser(i - 1, e) + q + (IF i <= e THEN 1 ELSE 0) - 1
    BY DEF RangeRun
  <2> HIDE DEF q, e
  <2>3. (i - 1) * q + Lesser(i - 1, e) + q + (IF i <= e THEN 1 ELSE 0) = i * q + Lesser(i, e)
    BY <1>1, <2>1 DEF Lesser
  <2>4. /\ i * q \in Nat /\ Lesser(i, e) \in Int /\ Lesser(i - 1, e) \in Int
        /\ (IF i <= e THEN 1 ELSE 0) \in Int
    BY <1>1, <2>1 DEF Lesser
  <2>5. (i - 1) * q + Lesser(i - 1, e) + q + (IF i <= e THEN 1 ELSE 0) - 1 = (i * q + Lesser(i, e)) - 1
    BY <1>1, <2>1, <2>3, <2>4
  <2> QED
    BY <2>2, <2>5
<1> HIDE DEF q, e
<1>3. \A i, k \in 0 .. n : i <= k => End(i) <= End(k) /\ End(i) \in Nat /\ End(k) \in Nat
  BY <1>1, TimesMonotone DEF Lesser
<1>4. End(0) = 0 /\ End(n) = count
  BY <1>1, TimesMonotone DEF Lesser
<1> HIDE DEF End
<1>5. \A i \in 1 .. n : RangeRun(i, n, count) \subseteq 0 .. count - 1
  <2> TAKE i \in 1 .. n
  <2>1. End(i - 1) \in Nat /\ End(i) <= End(n) /\ End(i) \in Nat
    BY <1>3
  <2> QED
    BY <1>2, <1>4, <2>1
<1>6. ASSUME NEW i \in 1 .. n, NEW k \in 1 .. n, i < k
      PROVE  RangeRun(i, n, count) \cap RangeRun(k, n, count) = {}
  <2>1. End(i) <= End(k - 1) /\ End(i) \in Nat /\ End(k - 1) \in Nat
    BY <1>3, <1>6
  <2>2. End(i - 1) \in Nat /\ End(k) \in Nat
    BY <1>3
  <2> QED
    BY <1>2, <2>1, <2>2
<1>7. ASSUME NEW x \in 0 .. count - 1
      PROVE  \E i \in 1 .. n : x \in RangeRun(i, n, count)
  <2> DEFINE Past == {i \in 0 .. n : x < End(i)}
  <2>1. n \in Past /\ Past \in SUBSET Nat
    BY <1>4
  <2>2. PICK i \in Past : \A k \in Past : i <= k
    BY <2>1, AmongFold!LeastNumber
  <2>3. i \in 1 .. n /\ x < End(i)
    BY <1>4, <2>2
  <2>4. i - 1 \in 0 .. n /\ i - 1 \notin Past
    BY <2>2, <2>3
  <2>5. End(i - 1) <= x
    BY <1>3, <2>4
  <2>6. End(i) \in Nat /\ End(i - 1) \in Nat
    BY <1>3, <2>3
  <2> QED
    BY <1>2, <2>3, <2>5, <2>6
<1> QED
  BY <1>5, <1>6, <1>7

\* The members that subscribed to a topic, each once.
LEMMA SubscribersAre ==
  ASSUME NEW members \in SUBSET Consumers, NEW topic
  PROVE  /\ Subscribers(topic, members) \in Seq(Consumers)
         /\ ToSet(Subscribers(topic, members)) = {m \in members : topic \in Subscriptions[m]}
         /\ IsInjective(Subscribers(topic, members))
  BY AmongElements, OrdersAssumption DEF Subscribers, Consumers

\* rangeAssign gives every partition that somebody wants to one who wants it.
LEMMA RangeSharesOut ==
  ASSUME NEW members \in SUBSET Consumers
  PROVE  SharesOut(RangeAssign(members), members, Wanted(members))
<1> DEFINE Place(m, t) == CHOOSE j \in DOMAIN Subscribers(t, members) : Subscribers(t, members)[j] = m
           Run(m, t) == RangeRun(Place(m, t), Len(Subscribers(t, members)), PartitionCount[t])
           g == RangeAssign(members)
<1>1. /\ g = [m \in members |-> UNION {{t} \X Run(m, t) : t \in Subscriptions[m]}]
  BY DEF RangeAssign
<1>2. ASSUME NEW m \in members, NEW t \in Subscriptions[m]
      PROVE  /\ t \in Topics
             /\ PartitionCount[t] \in Nat
             /\ Len(Subscribers(t, members)) \in Nat \ {0}
             /\ Place(m, t) \in 1 .. Len(Subscribers(t, members))
             /\ Subscribers(t, members)[Place(m, t)] = m
  <2>1. m \in ToSet(Subscribers(t, members))
    BY SubscribersAre
  <2>2. PICK j \in DOMAIN Subscribers(t, members) : Subscribers(t, members)[j] = m
    BY <2>1 DEF ToSet
  <2>3. Place(m, t) \in DOMAIN Subscribers(t, members) /\ Subscribers(t, members)[Place(m, t)] = m
    BY <2>2
  <2>4. t \in Topics /\ PartitionCount[t] \in Nat
    BY TopicsAssumption
  <2>5. Subscribers(t, members) \in Seq(Consumers)
    BY SubscribersAre
  <2> HIDE DEF Place
  <2> QED
    BY <2>3, <2>4, <2>5
<1> HIDE DEF Place
<1>3. ASSUME NEW m \in members, NEW p
      PROVE  p \in g[m] <=> \E t \in Subscriptions[m] : \E x \in Run(m, t) : p = <<t, x>>
  BY <1>1
<1>4. ASSUME NEW m \in members, NEW t \in Subscriptions[m]
      PROVE  Run(m, t) \subseteq 0 .. PartitionCount[t] - 1
  BY <1>2, RangeRunsSplit
<1>5. ASSUME NEW m \in members, NEW k \in members, m # k,
             NEW t \in Subscriptions[m], t \in Subscriptions[k]
      PROVE  Run(m, t) \cap Run(k, t) = {}
  <2>1. Place(m, t) # Place(k, t)
    BY <1>2, <1>5
  <2>2. /\ Place(m, t) \in 1 .. Len(Subscribers(t, members))
        /\ Place(k, t) \in 1 .. Len(Subscribers(t, members))
        /\ Len(Subscribers(t, members)) \in Nat \ {0} /\ PartitionCount[t] \in Nat
    BY <1>2, <1>5
  <2> QED
    BY <2>1, <2>2, RangeRunsSplit
<1>6. ASSUME NEW p \in Wanted(members)
      PROVE  \E m \in members : \E t \in Subscriptions[m] : \E x \in Run(m, t) : p = <<t, x>>
  <2>1. PICK k \in members : p[1] \in Subscriptions[k]
    BY DEF Wanted
  <2> DEFINE t == p[1]
             s == Subscribers(t, members)
  <2>2. p \in AllPartitions /\ p[2] < PartitionCount[t]
    BY PartitionOrderIsComplete DEF Wanted
  <2>3. p[2] \in 0 .. PartitionCount[t] - 1 /\ p = <<t, p[2]>>
    BY <1>2, <2>1, <2>2 DEF AllPartitions
  <2>4. PICK i \in 1 .. Len(s) : p[2] \in RangeRun(i, Len(s), PartitionCount[t])
    BY <1>2, <2>1, <2>3, RangeRunsSplit
  <2>5. /\ s \in Seq(Consumers) /\ IsInjective(s)
        /\ ToSet(s) = {m \in members : t \in Subscriptions[m]}
    BY SubscribersAre
  <2> HIDE DEF s, t
  <2>6. i \in DOMAIN s /\ s[i] \in ToSet(s)
    BY <2>5 DEF ToSet
  <2>7. s[i] \in members /\ t \in Subscriptions[s[i]]
    BY <2>5, <2>6
  <2>8. Place(s[i], t) = i
    <3>1. Place(s[i], t) \in 1 .. Len(s) /\ s[Place(s[i], t)] = s[i]
      BY <1>2, <2>7 DEF s
    <3> QED
      BY <2>5, <3>1 DEF IsInjective
  <2>9. p[2] \in Run(s[i], t)
    BY <2>4, <2>8 DEF s
  <2> HIDE DEF Run
  <2> QED
    BY <2>3, <2>7, <2>9
<1> HIDE DEF Run, g
<1>7. g \in [members -> SUBSET Wanted(members)]
  <2>1. ASSUME NEW m \in members, NEW t \in Subscriptions[m], NEW x \in Run(m, t)
        PROVE  <<t, x>> \in Wanted(members)
    <3>1. t \in Topics /\ x \in Nat /\ x < PartitionCount[t]
      BY <1>2, <1>4
    <3>2. <<t, x>> \in TopicPartitions
      BY <3>1, PartitionOrderIsComplete DEF AllPartitions
    <3> QED
      BY <3>2 DEF Wanted
  <2>2. \A m \in members : g[m] \subseteq Wanted(members)
    BY <1>3, <2>1
  <2>3. DOMAIN g = members /\ g = [m \in members |-> g[m]]
    BY <1>1 DEF g
  <2> QED
    BY <2>2, <2>3
<1>8. \A m \in members : \A p \in g[m] : p[1] \in Subscriptions[m]
  BY <1>3
<1>9. \A m, k \in members : m # k => g[m] \cap g[k] = {}
  BY <1>3, <1>5
<1> QED
  BY <1>3, <1>6, <1>7, <1>8, <1>9 DEF SharesOut, g

-----------------------------------------------------------------------------
(* roundRobinAssign *)

OpenTo(takers, p) == {i \in DOMAIN takers : p[1] \in Subscriptions[takers[i]]}

RoundRobinStep(takers, aux, deal, p) == Dealt(deal, takers, OpenTo(takers, p), p)

\* The first i partitions that somebody wants have been shared out.
RoundRobinSoFar(members, i, deal) ==
  /\ deal.cursor \in Nat
  /\ SharesOut(deal.given, members, {PartitionOrder[j] : j \in 1 .. i} \cap Wanted(members))

RoundRobinFold == INSTANCE LeftFold WITH Op <- RoundRobinStep, Inv <- RoundRobinSoFar

\* roundRobinAssign gives every partition that somebody wants to one who
\* wants it.
LEMMA RoundRobinSharesOut ==
  ASSUME NEW members \in SUBSET Consumers
  PROVE  SharesOut(RoundRobinAssign(members), members, Wanted(members))
<1> DEFINE n == Len(PartitionOrder)
           takers == Among(ConsumerOrder, members)
           start == [cursor |-> 0, given |-> [m \in members |-> {}]]
           Earlier(i) == {PartitionOrder[j] : j \in 1 .. i}
<1>1. n \in Nat /\ DOMAIN PartitionOrder = 1 .. n
  BY PartitionOrderIsComplete
<1>2. RoundRobinAssign(members) = RoundRobinFold!Folded(takers, {}, start, PartitionOrder).given
  BY DEF RoundRobinAssign, RoundRobinFold!Folded, RoundRobinStep, OpenTo,
         FoldLeft, RoundRobinFold!FoldLeft, MapThenFoldSet, RoundRobinFold!MapThenFoldSet,
         Max, RoundRobinFold!Max
<1>3. takers \in Seq(members) /\ ToSet(takers) = members
  <2>1. takers \in Seq(Consumers) /\ ToSet(takers) = members
    <3>1. ConsumerOrder \in Seq(Consumers) /\ ToSet(ConsumerOrder) \cap members = members
      BY OrdersAssumption DEF Consumers
    <3> QED
      BY <3>1, AmongElements
  <2> HIDE DEF takers
  <2>2. \A i \in 1 .. Len(takers) : takers[i] \in members
    BY <2>1 DEF ToSet
  <2> QED
    BY <2>1, <2>2
<1> HIDE DEF takers
<1>4. RoundRobinSoFar(members, 0, start)
  BY DEF RoundRobinSoFar, SharesOut
<1>5. ASSUME NEW i \in 1 .. n, NEW deal, RoundRobinSoFar(members, i - 1, deal)
      PROVE  RoundRobinSoFar(members, i, RoundRobinStep(takers, {}, deal, PartitionOrder[i]))
  <2> DEFINE p == PartitionOrder[i]
             S == Earlier(i - 1) \cap Wanted(members)
  <2>1. p \in TopicPartitions /\ p \notin Earlier(i - 1) /\ Earlier(i) = Earlier(i - 1) \cup {p}
    BY <1>1, PartitionOrderIsComplete DEF TopicPartitions, ToSet, IsInjective
  <2>2. deal.cursor \in Nat /\ SharesOut(deal.given, members, S)
    BY <1>5 DEF RoundRobinSoFar
  <2> HIDE DEF p
  <2>3. OpenTo(takers, p) = {} <=> p \notin Wanted(members)
    BY <1>3, <2>1 DEF OpenTo, Wanted, ToSet
  <2>4. CASE OpenTo(takers, p) = {}
    <3>1. Earlier(i) \cap Wanted(members) = S
      BY <2>1, <2>3, <2>4
    <3>2. RoundRobinStep(takers, {}, deal, p) = deal
      BY <2>4 DEF RoundRobinStep, Dealt
    <3> QED
      BY <2>2, <3>1, <3>2 DEF RoundRobinSoFar, p
  <2>5. CASE OpenTo(takers, p) # {}
    <3>1. Earlier(i) \cap Wanted(members) = S \cup {p} /\ p \notin S
      BY <2>1, <2>3, <2>5
    <3>2. /\ OpenTo(takers, p) \in SUBSET DOMAIN takers
          /\ \A k \in OpenTo(takers, p) : p[1] \in Subscriptions[takers[k]]
      BY DEF OpenTo
    <3> HIDE DEF S
    <3>3. LET next == RoundRobinStep(takers, {}, deal, p)
          IN next.cursor \in Nat /\ SharesOut(next.given, members, S \cup {p})
      BY <1>3, <2>2, <2>5, <3>1, <3>2, DealtSharesOut DEF RoundRobinStep
    <3> QED
      BY <3>1, <3>3 DEF RoundRobinSoFar, p
  <2> QED
    BY <2>4, <2>5
<1>6. RoundRobinSoFar(members, n, RoundRobinFold!Folded(takers, {}, start, PartitionOrder))
  <2> HIDE DEF n, start
  <2> QED
    BY <1>1, <1>4, <1>5, RoundRobinFold!FoldKeeps
<1>7. Earlier(n) \cap Wanted(members) = Wanted(members)
  BY <1>1 DEF Wanted, TopicPartitions, ToSet
<1> QED
  BY <1>2, <1>6, <1>7 DEF RoundRobinSoFar

-----------------------------------------------------------------------------
(* stickyAssign *)

\* k disjoint subsets of S with at least q elements each.
Shares(D, k, q, S) ==
  /\ \A i \in 1 .. k : D[i] \subseteq S /\ Cardinality(D[i]) >= q
  /\ \A i, j \in 1 .. k : i # j => D[i] \cap D[j] = {}

SharesNeed(k) ==
  \A D, q, S : IsFiniteSet(S) /\ q \in Nat /\ Shares(D, k, q, S) => Cardinality(S) >= k * q

\* Disjoint shares of a set have together no more elements than the set.
LEMMA SharesFit == \A k \in Nat : SharesNeed(k)
<1>1. SharesNeed(0)
  BY FS_CardinalityType DEF SharesNeed
<1>2. ASSUME NEW k \in Nat, SharesNeed(k)
      PROVE  SharesNeed(k + 1)
  <2> SUFFICES ASSUME NEW D, NEW q, NEW S, IsFiniteSet(S), q \in Nat, Shares(D, k + 1, q, S)
               PROVE  Cardinality(S) >= (k + 1) * q
    BY DEF SharesNeed
  <2> DEFINE last == D[k + 1]
  <2>1. /\ k + 1 \in 1 .. k + 1 /\ \A i \in 1 .. k : i \in 1 .. k + 1 /\ i # k + 1
    OBVIOUS
  <2>2. last \subseteq S /\ Cardinality(last) >= q
    BY <2>1 DEF Shares
  <2>3. IsFiniteSet(last) /\ Cardinality(last) \in Nat
    BY <2>2, FS_Subset, FS_CardinalityType
  <2>4. /\ IsFiniteSet(S \ last)
        /\ Cardinality(S \ last) = Cardinality(S) - Cardinality(last)
    <3>1. S \cap last = last
      BY <2>2
    <3> QED
      BY <2>3, <3>1, FS_Difference
  <2>5. Shares(D, k, q, S \ last)
    <3>1. ASSUME NEW i \in 1 .. k
          PROVE  D[i] \subseteq S \ last /\ Cardinality(D[i]) >= q
      BY <2>1 DEF Shares
    <3>2. \A i, j \in 1 .. k : i # j => D[i] \cap D[j] = {}
      BY <2>1 DEF Shares
    <3> QED
      BY <3>1, <3>2 DEF Shares
  <2>6. Cardinality(S \ last) >= k * q
    BY <1>2, <2>4, <2>5 DEF SharesNeed
  <2>7. (k + 1) * q = k * q + q /\ k * q \in Nat
    BY TimesNext
  <2>8. Cardinality(S) \in Nat
    BY FS_CardinalityType
  <2> QED
    BY <2>2, <2>3, <2>4, <2>6, <2>7, <2>8
<1> QED
  <2> DEFINE Holds == {n \in Nat : SharesNeed(n)}
  <2>1. 0 \in Holds /\ \A n \in Nat : n \in Holds => n + 1 \in Holds
    BY <1>1, <1>2
  <2> HIDE DEF Holds
  <2>2. Nat \subseteq Holds
    BY <2>1, AmongFold!EveryNumber
  <2> QED
    BY <2>2 DEF Holds

\* The quotas of all subscribers make up for the whole topic.
LEMMA QuotaSuffices ==
  ASSUME NEW count \in Nat, NEW n \in Nat \ {0}
  PROVE  Quota(count, n) \in Nat /\ n * Quota(count, n) >= count /\ n * Quota(count, n) \in Nat
<1> DEFINE c == count + n - 1
           q == c \div n
           r == c % n
<1>1. c \in Nat
  OBVIOUS
<1>2. q \in Nat /\ r \in 0 .. n - 1 /\ c = n * q + r
  BY <1>1, Division
<1>3. Quota(count, n) = q
  BY DEF Quota
<1> HIDE DEF q, r
<1>4. n * q \in Nat
  BY <1>2, TimesNext
<1> QED
  BY <1>2, <1>3, <1>4

Below(takers, quota, deal) == {i \in DOMAIN takers : Cardinality(deal.given[takers[i]]) < quota}

StickyStep(takers, quota, deal, p) == Dealt(deal, takers, Below(takers, quota, deal), p)

\* What was kept and the first i partitions of the pool are shared out.
StickySoFar(ctx, i, deal) ==
  /\ deal.cursor \in Nat
  /\ SharesOut(deal.given, ctx.members, ctx.kept \cup {ctx.pool[j] : j \in 1 .. i})

StickyFold == INSTANCE LeftFold WITH Op <- StickyStep, Inv <- StickySoFar

PartitionsIn(topic) == {p \in TopicPartitions : p[1] = topic}

\* A topic has as many partitions as PartitionCount says.
LEMMA PartitionsInATopic ==
  ASSUME NEW t \in Topics
  PROVE  /\ PartitionsIn(t) = ToSet(PartitionsOf(t))
         /\ IsFiniteSet(PartitionsIn(t))
         /\ Cardinality(PartitionsIn(t)) <= PartitionCount[t]
<1> DEFINE count == PartitionCount[t]
<1>1. count \in Nat
  BY TopicsAssumption
<1>2. ToSet(PartitionsOf(t)) = {<<t, n>> : n \in 0 .. count - 1}
  BY PartitionsOfATopic
<1>3. PartitionsIn(t) = {<<t, n>> : n \in 0 .. count - 1}
  BY <1>1, PartitionOrderIsComplete DEF PartitionsIn, AllPartitions
<1>4. IsFiniteSet(0 .. count - 1) /\ Cardinality(0 .. count - 1) = count
  BY <1>1, FS_Interval
<1> DEFINE f == [n \in 0 .. count - 1 |-> <<t, n>>]
<1>5. PartitionsIn(t) = {f[n] : n \in 0 .. count - 1}
  BY <1>3
<1>6. f \in Surjection(0 .. count - 1, PartitionsIn(t))
  BY <1>5 DEF Surjection
<1> HIDE DEF f, count
<1>7. IsFiniteSet(PartitionsIn(t)) /\ Cardinality(PartitionsIn(t)) <= Cardinality(0 .. count - 1)
  BY <1>4, <1>6, FS_Surjection
<1> QED
  BY <1>2, <1>3, <1>4, <1>7 DEF count

\* While a partition of the topic is left over, some subscriber is below quota.
LEMMA SomebodyIsBelowQuota ==
  ASSUME NEW t \in Topics, NEW members, NEW takers \in Seq(members), takers # <<>>,
         IsInjective(takers), NEW S \in SUBSET PartitionsIn(t), NEW p \in PartitionsIn(t) \ S,
         NEW deal, SharesOut(deal.given, members, S)
  PROVE  Below(takers, Quota(PartitionCount[t], Len(takers)), deal) # {}
<1> DEFINE n == Len(takers)
           count == PartitionCount[t]
           quota == Quota(count, n)
           D == [i \in 1 .. n |-> deal.given[takers[i]]]
<1>1. n \in Nat \ {0} /\ count \in Nat /\ DOMAIN takers = 1 .. n
  BY TopicsAssumption
<1>2. quota \in Nat /\ n * quota >= count /\ n * quota \in Nat
  BY <1>1, QuotaSuffices
<1>3. IsFiniteSet(S) /\ Cardinality(S) \in Nat /\ Cardinality(S) + 1 <= count
  <2>1. /\ IsFiniteSet(PartitionsIn(t)) /\ Cardinality(PartitionsIn(t)) <= count
    BY PartitionsInATopic
  <2>2. IsFiniteSet(S) /\ Cardinality(S) \in Nat
    BY <2>1, FS_Subset, FS_CardinalityType
  <2>3. IsFiniteSet(S \cup {p}) /\ Cardinality(S \cup {p}) = Cardinality(S) + 1
    BY <2>2, FS_AddElement
  <2>4. Cardinality(S \cup {p}) <= Cardinality(PartitionsIn(t))
    BY <2>1, FS_Subset
  <2>5. Cardinality(PartitionsIn(t)) \in Nat
    BY <2>1, FS_CardinalityType
  <2> QED
    BY <1>1, <2>1, <2>2, <2>3, <2>4, <2>5
<1> SUFFICES ASSUME Below(takers, quota, deal) = {} PROVE FALSE
  OBVIOUS
<1> HIDE DEF n, count, quota
<1>4. ASSUME NEW i \in 1 .. n
      PROVE  D[i] \subseteq S /\ Cardinality(D[i]) >= quota
  <2>1. takers[i] \in members /\ deal.given[takers[i]] \subseteq S
    BY <1>1 DEF SharesOut
  <2>2. ~(Cardinality(deal.given[takers[i]]) < quota)
    BY <1>1 DEF Below
  <2>3. Cardinality(deal.given[takers[i]]) \in Nat
    BY <1>3, <2>1, FS_Subset, FS_CardinalityType
  <2> QED
    BY <1>2, <2>1, <2>2, <2>3
<1>5. ASSUME NEW i \in 1 .. n, NEW j \in 1 .. n, i # j
      PROVE  D[i] \cap D[j] = {}
  <2>1. takers[i] \in members /\ takers[j] \in members /\ takers[i] # takers[j]
    BY <1>1, <1>5 DEF IsInjective
  <2> QED
    BY <2>1 DEF SharesOut
<1> HIDE DEF D
<1>6. Shares(D, n, quota, S)
  BY <1>4, <1>5 DEF Shares
<1>7. Cardinality(S) >= n * quota
  BY <1>1, <1>2, <1>3, <1>6, SharesFit DEF SharesNeed
<1> QED
  BY <1>1, <1>2, <1>3, <1>7

\* No two members own the same partition.
Apart(owned) == \A m, k \in DOMAIN owned : m # k => owned[m] \cap owned[k] = {}

\* All that the members have.
Held(g) == UNION {g[m] : m \in DOMAIN g}

\* What the members keep of a topic is shared out, among its subscribers.
LEMMA RetainedSharesOut ==
  ASSUME NEW t \in Topics, NEW members, NEW owned \in [members -> SUBSET TopicPartitions],
         Apart(owned), NEW quota
  PROVE  /\ Held(Retained(t, owned, quota)) \subseteq PartitionsIn(t)
         /\ SharesOut(Retained(t, owned, quota), members, Held(Retained(t, owned, quota)))
<1> DEFINE kept == Retained(t, owned, quota)
           all == Held(kept)
<1>1. DOMAIN kept = members /\ kept = [m \in members |-> kept[m]]
  BY DEF Retained
<1>2. ASSUME NEW m \in members
      PROVE  /\ kept[m] \subseteq owned[m]
             /\ \A p \in kept[m] : p \in TopicPartitions /\ p[1] = t /\ t \in Subscriptions[m]
  BY DEF Retained, Lowest
<1> HIDE DEF kept
<1>3. \A m \in members : kept[m] \subseteq all
  BY <1>1 DEF Held
<1>4. \A p \in all : \E m \in members : p \in kept[m]
  BY <1>1 DEF Held
<1>5. all \subseteq PartitionsIn(t)
  BY <1>2, <1>4 DEF PartitionsIn
<1>6. \A m, k \in members : m # k => kept[m] \cap kept[k] = {}
  BY <1>2 DEF Apart
<1> HIDE DEF all
<1>7. kept \in [members -> SUBSET all]
  BY <1>1, <1>3
<1>8. SharesOut(kept, members, all)
  BY <1>2, <1>4, <1>6, <1>7 DEF SharesOut
<1> QED
  BY <1>5, <1>8 DEF kept, all

\* What stickyAssign does for one topic.
LEMMA StickyDealSharesOut ==
  ASSUME NEW t \in Topics, NEW members \in SUBSET Consumers,
         NEW owned \in [members -> SUBSET TopicPartitions], Apart(owned)
  PROVE  SharesOut(StickyDeal(t, owned), members, Wanted(members) \cap PartitionsIn(t))
<1> DEFINE takers == Subscribers(t, members)
           quota == Quota(PartitionCount[t], Len(takers))
           kept == Retained(t, owned, quota)
           all == UNION {kept[m] : m \in DOMAIN kept}
           pool == Among(PartitionsOf(t), TopicPartitions \ all)
           n == Len(pool)
           base == [cursor |-> 0, given |-> kept]
           ctx == [members |-> members, kept |-> all, pool |-> pool]
<1>1. /\ takers \in Seq(members) /\ IsInjective(takers)
      /\ ToSet(takers) = {m \in members : t \in Subscriptions[m]}
  <2>1. /\ takers \in Seq(Consumers) /\ IsInjective(takers)
        /\ ToSet(takers) = {m \in members : t \in Subscriptions[m]}
    BY SubscribersAre
  <2> HIDE DEF takers
  <2>2. \A i \in 1 .. Len(takers) : takers[i] \in members
    BY <2>1 DEF ToSet
  <2> QED
    BY <2>1, <2>2
<1>2. DOMAIN owned = members
  OBVIOUS
<1>3. CASE takers = <<>>
  <2>1. StickyDeal(t, owned) = [m \in members |-> {}]
    BY <1>2, <1>3 DEF StickyDeal
  <2>2. ToSet(takers) = {}
    BY <1>3 DEF ToSet
  <2> HIDE DEF takers
  <2>3. Wanted(members) \cap PartitionsIn(t) = {}
    BY <1>1, <2>2 DEF Wanted, PartitionsIn
  <2> QED
    BY <2>1, <2>3 DEF SharesOut
<1>4. CASE takers # <<>>
  <2>1. StickyDeal(t, owned) = StickyFold!Folded(takers, quota, base, pool).given
    BY <1>2, <1>4 DEF StickyDeal, StickyFold!Folded, StickyStep, Below,
       FoldLeft, StickyFold!FoldLeft, MapThenFoldSet, StickyFold!MapThenFoldSet,
       Max, StickyFold!Max
  <2>2. all \subseteq PartitionsIn(t) /\ SharesOut(kept, members, all)
    <3> HIDE DEF quota
    <3>1. all = Held(kept)
      BY DEF Held
    <3> HIDE DEF all
    <3> QED
      BY <3>1, RetainedSharesOut
  <2> HIDE DEF kept, all
  <2>3. /\ pool \in Seq(AllPartitions) /\ IsInjective(pool)
        /\ ToSet(pool) = PartitionsIn(t) \ all
    <3>1. /\ PartitionsOf(t) \in Seq(AllPartitions) /\ IsInjective(PartitionsOf(t))
          /\ ToSet(PartitionsOf(t)) = PartitionsIn(t)
      BY PartitionsOfATopic, PartitionsInATopic
    <3>2. PartitionsIn(t) \cap (TopicPartitions \ all) = PartitionsIn(t) \ all
      BY DEF PartitionsIn
    <3> QED
      BY <3>1, <3>2, AmongElements
  <2> HIDE DEF pool, takers
  <2>4. n \in Nat /\ DOMAIN pool = 1 .. n
    BY <2>3
  <2>5. StickySoFar(ctx, 0, base)
    <3>1. all \cup {pool[j] : j \in 1 .. 0} = all
      OBVIOUS
    <3> QED
      BY <2>2, <3>1 DEF StickySoFar
  <2>6. ASSUME NEW i \in 1 .. n, NEW deal, StickySoFar(ctx, i - 1, deal)
        PROVE  StickySoFar(ctx, i, StickyStep(takers, quota, deal, pool[i]))
    <3> DEFINE p == pool[i]
               S == all \cup {pool[j] : j \in 1 .. i - 1}
               open == Below(takers, quota, deal)
    <3>1. deal.cursor \in Nat /\ SharesOut(deal.given, members, S)
      BY <2>6 DEF StickySoFar
    <3>2. all \cup {pool[j] : j \in 1 .. i} = S \cup {p}
      OBVIOUS
    <3>3. p \in PartitionsIn(t) \ S /\ S \subseteq PartitionsIn(t)
      <4>1. \A j \in 1 .. n : pool[j] \in PartitionsIn(t) \ all
        BY <2>3, <2>4 DEF ToSet
      <4>2. \A j \in 1 .. i - 1 : j \in 1 .. n /\ pool[j] # p
        BY <2>3, <2>4 DEF IsInjective
      <4> QED
        BY <2>2, <4>1, <4>2
    <3> HIDE DEF p, S
    <3>4. open # {}
      BY <1>1, <1>4, <3>1, <3>3, SomebodyIsBelowQuota
    <3>5. /\ open \in SUBSET DOMAIN takers
          /\ \A k \in open : p[1] \in Subscriptions[takers[k]]
      BY <1>1, <3>3 DEF Below, ToSet, PartitionsIn
    <3> HIDE DEF open
    <3>6. LET next == Dealt(deal, takers, open, p)
          IN next.cursor \in Nat /\ SharesOut(next.given, members, S \cup {p})
      BY <1>1, <3>1, <3>3, <3>4, <3>5, DealtSharesOut
    <3> QED
      BY <3>2, <3>6 DEF StickySoFar, StickyStep, open, p
  <2>7. StickySoFar(ctx, n, StickyFold!Folded(takers, quota, base, pool))
    <3> HIDE DEF ctx, n, base, quota
    <3> QED
      BY <2>4, <2>5, <2>6, StickyFold!FoldKeeps
  <2>8. all \cup {pool[j] : j \in 1 .. n} = PartitionsIn(t)
    BY <2>2, <2>3, <2>4 DEF ToSet
  <2>9. Wanted(members) \cap PartitionsIn(t) = PartitionsIn(t)
    <3>1. takers[1] \in members /\ t \in Subscriptions[takers[1]]
      BY <1>1, <1>4 DEF ToSet
    <3> QED
      BY <3>1 DEF Wanted, PartitionsIn
  <2> QED
    BY <2>1, <2>7, <2>8, <2>9 DEF StickySoFar
<1> QED
  BY <1>3, <1>4

\* stickyAssign gives every partition that somebody wants to one who wants
\* it, when nothing is owned twice before.
LEMMA StickySharesOut ==
  ASSUME NEW members \in SUBSET Consumers,
         NEW owned \in [members -> SUBSET TopicPartitions], Apart(owned)
  PROVE  SharesOut(StickyAssign(owned), members, Wanted(members))
<1> DEFINE g == StickyAssign(owned)
           Deal(t) == StickyDeal(t, owned)
<1>1. ASSUME NEW t \in Topics
      PROVE  SharesOut(Deal(t), members, Wanted(members) \cap PartitionsIn(t))
  BY StickyDealSharesOut
<1>2. g = [m \in members |-> UNION {Deal(t)[m] : t \in Topics}]
  BY DEF StickyAssign
<1> HIDE DEF Deal
<1>3. \A m \in members : \A p : p \in g[m] <=> \E t \in Topics : p \in Deal(t)[m]
  BY <1>2
<1>4. ASSUME NEW t \in Topics, NEW m \in members, NEW p \in Deal(t)[m]
      PROVE  p \in Wanted(members) /\ p[1] = t /\ p[1] \in Subscriptions[m]
  BY <1>1 DEF SharesOut, PartitionsIn
<1>5. DOMAIN g = members /\ g = [m \in members |-> g[m]]
  BY <1>2
<1> HIDE DEF g
<1>6. g \in [members -> SUBSET Wanted(members)]
  <2>1. \A m \in members : g[m] \subseteq Wanted(members)
    BY <1>3, <1>4
  <2> QED
    BY <1>5, <2>1
<1>7. ASSUME NEW p \in Wanted(members)
      PROVE  \E m \in members : p \in g[m]
  <2>1. p \in PartitionsIn(p[1]) /\ p[1] \in Topics
    BY PartitionOrderIsComplete DEF Wanted, PartitionsIn, AllPartitions
  <2>2. PICK m \in members : p \in Deal(p[1])[m]
    BY <1>1, <2>1 DEF SharesOut
  <2> QED
    BY <1>3, <2>1, <2>2
<1>8. \A m \in members : \A p \in g[m] : p[1] \in Subscriptions[m]
  BY <1>3, <1>4
<1>9. ASSUME NEW m \in members, NEW k \in members, m # k, NEW p \in g[m], p \in g[k]
      PROVE  FALSE
  <2>1. PICK t \in Topics : p \in Deal(t)[m]
    BY <1>3
  <2>2. PICK u \in Topics : p \in Deal(u)[k]
    BY <1>3, <1>9
  <2>3. t = u
    BY <1>4, <2>1, <2>2
  <2> QED
    BY <1>1, <1>9, <2>1, <2>2, <2>3 DEF SharesOut
<1> QED
  BY <1>6, <1>7, <1>8, <1>9 DEF SharesOut, g

-----------------------------------------------------------------------------

\* Every assignor gives every partition of a topic that a member subscribed to
\* to exactly one member, one that subscribed to it, when no partition has two
\* owners before.
THEOREM AssignSharesOut ==
  ASSUME NEW members \in SUBSET Consumers, NEW assignor \in Assignors,
         NEW owned \in [members -> SUBSET TopicPartitions], Apart(owned)
  PROVE  SharesOut(Assign(assignor, owned), members, Wanted(members))
<1>1. DOMAIN owned = members
  OBVIOUS
<1>2. CASE assignor = "range"
  BY <1>1, <1>2, RangeSharesOut DEF Assign
<1>3. CASE assignor = "round-robin"
  BY <1>1, <1>3, RoundRobinSharesOut DEF Assign
<1>4. CASE assignor \in {"sticky", "cooperative-sticky"}
  BY <1>4, StickySharesOut DEF Assign
<1> QED
  BY <1>2, <1>3, <1>4 DEF Assignors

-----------------------------------------------------------------------------
(* The events of the queue. *)

EventTypes ==
  {"fetch-request", "heartbeat", "commit", "member-timeout", "rebalance-complete", "sync-group"}

Events ==
  [type : EventTypes, delay : Int, consumer : Consumers \cup {None}, generation : Nat]

-----------------------------------------------------------------------------
(* Sums *)

\* The iteration behind a sum, on the subsets of S with at most n elements.
Adds(F, n, f, S) ==
  F = [s \in {u \in SUBSET S : Cardinality(u) <= n} |->
         IF s = {} THEN 0 ELSE f[CHOOSE x \in s : TRUE] + F[s \ {CHOOSE x \in s : TRUE}]]

Addable(n) == \A f, S : IsFiniteSet(S) => \E F : Adds(F, n, f, S)

\* The iteration goes on.
LEMMA AdditionGoesOn ==
  ASSUME NEW n \in Nat, NEW f, NEW S, IsFiniteSet(S), NEW F, Adds(F, n, f, S)
  PROVE  \E G : Adds(G, n + 1, f, S)
<1> DEFINE Upto(k) == {u \in SUBSET S : Cardinality(u) <= k}
           Sum(H, s) == IF s = {} THEN 0
                        ELSE f[CHOOSE x \in s : TRUE] + H[s \ {CHOOSE x \in s : TRUE}]
           G == [s \in Upto(n + 1) |-> Sum(F, s)]
<1>1. \A s \in Upto(n) : F[s] = Sum(F, s)
  BY DEF Adds
<1>2. ASSUME NEW s \in Upto(n + 1), s # {}
      PROVE  s \ {CHOOSE x \in s : TRUE} \in Upto(n) \cap Upto(n + 1)
  <2> DEFINE y == CHOOSE x \in s : TRUE
  <2>1. y \in s
    BY <1>2
  <2> HIDE DEF y
  <2>2. IsFiniteSet(s) /\ Cardinality(s) \in Nat /\ Cardinality(s) <= n + 1
    BY FS_Subset, FS_CardinalityType
  <2>3. Cardinality(s \ {y}) = Cardinality(s) - 1
    BY <2>1, <2>2, FS_RemoveElement
  <2>4. Cardinality(s \ {y}) <= n /\ Cardinality(s \ {y}) <= n + 1
    BY <2>2, <2>3
  <2> QED
    BY <2>4 DEF y
<1>3. ASSUME NEW s \in Upto(n + 1)
      PROVE  G[s] = Sum(G, s)
  <2>1. CASE s = {}
    BY <2>1
  <2>2. CASE s # {}
    <3> DEFINE rest == s \ {CHOOSE x \in s : TRUE}
    <3>1. rest \in Upto(n) /\ rest \in Upto(n + 1)
      BY <1>2, <2>2
    <3>2. G[rest] = Sum(F, rest) /\ F[rest] = Sum(F, rest)
      <4> HIDE DEF rest, Sum
      <4> QED
        BY <1>1, <3>1
    <3>3. G[s] = f[CHOOSE x \in s : TRUE] + F[rest]
      BY <2>2
    <3>4. Sum(G, s) = f[CHOOSE x \in s : TRUE] + G[rest]
      BY <2>2
    <3> HIDE DEF G, Sum, rest
    <3> QED
      BY <3>2, <3>3, <3>4
  <2> QED
    BY <2>1, <2>2
<1>4. G = [s \in Upto(n + 1) |-> Sum(G, s)]
  <2>1. DOMAIN G = Upto(n + 1) /\ G = [s \in DOMAIN G |-> G[s]]
    OBVIOUS
  <2> HIDE DEF G, Sum, Upto
  <2> QED
    BY <1>3, <2>1
<1>5. Adds(G, n + 1, f, S)
  BY <1>4 DEF Adds
<1> QED
  BY <1>5

\* The iteration exists.
LEMMA AdditionExists == \A n \in Nat : Addable(n)
<1>1. Addable(0)
  <2> SUFFICES ASSUME NEW f, NEW S, IsFiniteSet(S)
               PROVE  \E F : Adds(F, 0, f, S)
    BY DEF Addable
  <2> DEFINE None0 == {u \in SUBSET S : Cardinality(u) <= 0}
             F == [s \in None0 |-> 0]
  <2>1. \A s \in None0 : s = {}
    <3> TAKE s \in None0
    <3>1. IsFiniteSet(s) /\ Cardinality(s) \in Nat /\ Cardinality(s) <= 0
      BY FS_Subset, FS_CardinalityType
    <3> QED
      BY <3>1, FS_EmptySet
  <2> HIDE DEF None0
  <2>2. F = [s \in None0 |-> IF s = {} THEN 0 ELSE f[CHOOSE x \in s : TRUE]
                                                    + F[s \ {CHOOSE x \in s : TRUE}]]
    BY <2>1
  <2> QED
    BY <2>2 DEF Adds, None0
<1>2. \A n \in Nat : Addable(n) => Addable(n + 1)
  BY AdditionGoesOn DEF Addable
<1> QED
  <2> DEFINE Holds == {n \in Nat : Addable(n)}
  <2>1. 0 \in Holds /\ \A n \in Nat : n \in Holds => n + 1 \in Holds
    BY <1>1, <1>2
  <2> HIDE DEF Holds
  <2>2. Nat \subseteq Holds
    BY <2>1, AmongFold!EveryNumber
  <2> QED
    BY <2>2 DEF Holds

\* A sum of integers is an integer.
LEMMA SumIsInt ==
  ASSUME NEW S, IsFiniteSet(S), NEW f, \A x \in S : f[x] \in Int
  PROVE  SumFunctionOnSet(f, S) \in Int
<1> DEFINE D == SUBSET S
           Sum(F, s) == IF s = {} THEN 0
                        ELSE f[CHOOSE x \in s : TRUE] + F[s \ {CHOOSE x \in s : TRUE}]
           F == CHOOSE F : F = [s \in D |-> Sum(F, s)]
           n == Cardinality(S)
<1>1. SumFunctionOnSet(f, S) = F[S]
  BY DEF SumFunctionOnSet, FoldFunctionOnSet, MapThenFoldSet
<1>2. n \in Nat
  BY FS_CardinalityType
<1>3. {u \in SUBSET S : Cardinality(u) <= n} = D
  BY FS_Subset
<1>4. \E H : H = [s \in D |-> Sum(H, s)]
  <2>1. PICK H : Adds(H, n, f, S)
    BY <1>2, AdditionExists DEF Addable
  <2> QED
    BY <1>3, <2>1 DEF Adds
<1> HIDE DEF D, Sum
<1>5. F = [s \in D |-> Sum(F, s)]
  BY <1>4
<1> HIDE DEF F
<1> DEFINE Bad == {k \in Nat : \E s \in D : Cardinality(s) = k /\ F[s] \notin Int}
<1>6. ASSUME Bad # {} PROVE FALSE
  <2>1. PICK k \in Bad : \A j \in Bad : k <= j
    BY <1>6, AmongFold!LeastNumber
  <2>2. PICK s \in D : Cardinality(s) = k /\ F[s] \notin Int
    BY <2>1
  <2>3. s \subseteq S /\ IsFiniteSet(s) /\ k \in Nat
    BY <2>1, FS_Subset DEF D
  <2>4. F[s] = Sum(F, s)
    BY <1>5
  <2>5. s # {}
    BY <2>2, <2>4 DEF Sum
  <2> DEFINE y == CHOOSE x \in s : TRUE
  <2>6. y \in s /\ F[s] = f[y] + F[s \ {y}]
    BY <2>4, <2>5 DEF Sum
  <2> HIDE DEF y
  <2>7. Cardinality(s \ {y}) = k - 1 /\ k - 1 \in Nat
    <3>1. IsFiniteSet(s \ {y}) /\ Cardinality(s \ {y}) = k - 1
      BY <2>2, <2>3, <2>6, FS_RemoveElement
    <3>2. Cardinality(s \ {y}) \in Nat
      BY <3>1, FS_CardinalityType
    <3> QED
      BY <3>1, <3>2
  <2>8. s \ {y} \in D /\ k - 1 \notin Bad
    BY <2>1, <2>3, <2>7 DEF D
  <2>9. F[s \ {y}] \in Int
    BY <2>7, <2>8
  <2> QED
    BY <2>2, <2>3, <2>6, <2>9
<1>7. S \in D
  BY DEF D
<1> QED
  BY <1>1, <1>2, <1>6, <1>7

-----------------------------------------------------------------------------
(* How many events of some set a queue has *)

Places(q, T) == {i \in DOMAIN q : q[i] \in T}

Tally(q, T) == Cardinality(Places(q, T))

\* A tally is a number.
LEMMA TallyIsNat ==
  ASSUME NEW X, NEW q \in Seq(X), NEW T
  PROVE  IsFiniteSet(Places(q, T)) /\ Tally(q, T) \in Nat
<1>1. IsFiniteSet(1 .. Len(q)) /\ Places(q, T) \in SUBSET (1 .. Len(q))
  BY FS_Interval DEF Places
<1> QED
  BY <1>1, FS_Subset, FS_CardinalityType DEF Tally

\* A tally is positive if the queue has such an event.
LEMMA TallyOfSome ==
  ASSUME NEW X, NEW q \in Seq(X), NEW T
  PROVE  Tally(q, T) >= 1 <=> \E i \in DOMAIN q : q[i] \in T
<1>1. IsFiniteSet(Places(q, T)) /\ Tally(q, T) \in Nat
  BY TallyIsNat
<1>2. Tally(q, T) = 0 <=> Places(q, T) = {}
  BY <1>1, FS_EmptySet DEF Tally
<1> QED
  BY <1>1, <1>2 DEF Places

\* The tally of a sequence of one event.
LEMMA TallyOfOne ==
  ASSUME NEW e, NEW T
  PROVE  Tally(<<e>>, T) = IF e \in T THEN 1 ELSE 0
<1>1. CASE e \in T
  <2>1. Places(<<e>>, T) = {1}
    BY <1>1 DEF Places
  <2> QED
    BY <1>1, <2>1, FS_Singleton DEF Tally
<1>2. CASE e \notin T
  <2>1. Places(<<e>>, T) = {}
    BY <1>2 DEF Places
  <2> QED
    BY <1>2, <2>1, FS_EmptySet DEF Tally
<1> QED
  BY <1>1, <1>2

\* The tally of no events.
LEMMA TallyOfNone ==
  ASSUME NEW T
  PROVE  Tally(<<>>, T) = 0
<1>1. Places(<<>>, T) = {}
  BY DEF Places
<1> QED
  BY <1>1, FS_EmptySet DEF Tally

\* Tallies add up.
LEMMA TallyOfBoth ==
  ASSUME NEW X, NEW s \in Seq(X), NEW t \in Seq(X), NEW T
  PROVE  Tally(s \o t, T) = Tally(s, T) + Tally(t, T)
<1> DEFINE n == Len(s)
           A == Places(s, T)
           B == Places(t, T)
           C == {i + n : i \in B}
           f == [i \in B |-> i + n]
<1>1. n \in Nat /\ Len(t) \in Nat /\ DOMAIN s = 1 .. n /\ DOMAIN t = 1 .. Len(t)
  OBVIOUS
<1>2. /\ s \o t \in Seq(X) /\ DOMAIN (s \o t) = 1 .. n + Len(t)
      /\ \A i \in 1 .. n : (s \o t)[i] = s[i]
      /\ \A i \in 1 .. Len(t) : i + n \in 1 .. n + Len(t) /\ (s \o t)[i + n] = t[i]
  <2>1. \A i \in 1 .. Len(t) : i + n \in 1 .. n + Len(t) /\ ~(i + n <= n) /\ (i + n) - n = i
    BY <1>1
  <2> QED
    BY <1>1, <2>1, ConcatProperties
<1>3. /\ IsFiniteSet(A) /\ Cardinality(A) \in Nat
      /\ IsFiniteSet(B) /\ Cardinality(B) \in Nat
  BY TallyIsNat DEF Tally
<1>4. B \subseteq 1 .. Len(t) /\ A \subseteq 1 .. n
  BY <1>1 DEF Places
<1>5. f \in Bijection(B, C)
  BY <1>1, <1>4 DEF Bijection, Injection, Surjection, IsInjective
<1>6. IsFiniteSet(C) /\ Cardinality(C) = Cardinality(B)
  <2> HIDE DEF f, B, C
  <2> QED
    BY <1>3, <1>5, FS_Bijection DEF ExistsBijection
<1>7. Places(s \o t, T) = A \cup C
  <2>1. \A i \in 1 .. n : i \in Places(s \o t, T) <=> i \in A
    BY <1>1, <1>2 DEF Places
  <2>2. \A i \in 1 .. Len(t) : i + n \in Places(s \o t, T) <=> i \in B
    BY <1>1, <1>2 DEF Places
  <2>3. \A i \in 1 .. n + Len(t) : i \in 1 .. n \/ (i - n \in 1 .. Len(t) /\ i = (i - n) + n)
    BY <1>1
  <2>4. Places(s \o t, T) \subseteq 1 .. n + Len(t)
    BY <1>2 DEF Places
  <2> HIDE DEF A, B
  <2>5. \A i \in Places(s \o t, T) : i \in A \cup C
    BY <2>1, <2>2, <2>3, <2>4
  <2>6. \A i \in A \cup C : i \in Places(s \o t, T)
    BY <1>4, <2>1, <2>2
  <2> QED
    BY <2>5, <2>6
<1>8. A \cap C = {}
  BY <1>1, <1>4
<1> HIDE DEF A, B, C
<1>9. Cardinality(A \cup C) = Cardinality(A) + Cardinality(C)
  <2>1. Cardinality(A \cap C) = 0
    BY <1>8, FS_EmptySet
  <2>2. Cardinality(C) \in Nat
    BY <1>3, <1>6
  <2> QED
    <3>1. Cardinality(A \cup C) = Cardinality(A) + Cardinality(C) - Cardinality(A \cap C)
      BY <1>3, <1>6, FS_Union
    <3> QED
      BY <1>3, <2>1, <2>2, <3>1
<1> QED
  BY <1>6, <1>7, <1>9 DEF Tally, A, B

\* An event that is scheduled counts once, wherever it goes.
LEMMA TallyOfInserted ==
  ASSUME NEW X, NEW q \in Seq(X), NEW e \in X, NEW T
  PROVE  /\ Inserted(q, e) \in Seq(X)
         /\ Tally(Inserted(q, e), T) = Tally(q, T) + Tally(<<e>>, T)
<1> DEFINE Early == {i \in DOMAIN q : q[i].delay <= e.delay}
           k == Cardinality(Early)
           front == SubSeq(q, 1, k)
           back == SubSeq(q, k + 1, Len(q))
           one == <<e>>
<1>1. k \in 0 .. Len(q)
  <2>1. Len(q) \in Nat /\ 1 \in Int /\ Len(q) \in Int /\ (Len(q) - 1) + 1 = Len(q)
    OBVIOUS
  <2>2. IsFiniteSet(1 .. Len(q)) /\ Cardinality(1 .. Len(q)) = Len(q)
    BY <2>1, FS_Interval
  <2>3. Early \in SUBSET (1 .. Len(q))
    OBVIOUS
  <2> HIDE DEF Early
  <2>4. IsFiniteSet(Early) /\ Cardinality(Early) <= Len(q)
    BY <2>2, <2>3, FS_Subset
  <2>5. Cardinality(Early) \in Nat
    BY <2>4, FS_CardinalityType
  <2> QED
    BY <2>1, <2>4, <2>5
<1> HIDE DEF k
<1>2. Inserted(q, e) = front \o one \o back
  <2>1. (k + 1) - 1 = k
    BY <1>1
  <2> QED
    BY <2>1 DEF Inserted, InsertAt, k, Early
<1>3. front \in Seq(X) /\ back \in Seq(X) /\ one \in Seq(X)
  BY <1>1, SubSeqProperties
<1>4. front \o back = q
  <2>1. 1 \in 1 .. Len(q) + 1 /\ k \in 1 - 1 .. Len(q) /\ Len(q) \in k .. Len(q)
    BY <1>1
  <2>2. front \o back = SubSeq(q, 1, Len(q))
    BY <2>1, ConcatAdjacentSubSeq
  <2> QED
    BY <2>2, SubSeqFull
<1> HIDE DEF front, back, one
<1>5. Tally(front, T) + Tally(back, T) = Tally(q, T)
  BY <1>3, <1>4, TallyOfBoth
<1>6. front \o one \in Seq(X) /\ Tally(front \o one, T) = Tally(front, T) + Tally(one, T)
  BY <1>3, TallyOfBoth, ConcatProperties
<1> DEFINE fore == front \o one
<1>7. Tally(front \o one \o back, T) = Tally(front, T) + Tally(one, T) + Tally(back, T)
  <2>1. fore \in Seq(X) /\ Tally(fore, T) = Tally(front, T) + Tally(one, T)
    BY <1>6
  <2> HIDE DEF fore
  <2>2. Tally(fore \o back, T) = Tally(fore, T) + Tally(back, T)
    BY <1>3, <2>1, TallyOfBoth
  <2> QED
    BY <2>1, <2>2 DEF fore
<1>8. Tally(front, T) \in Nat /\ Tally(back, T) \in Nat /\ Tally(one, T) \in Nat
  BY <1>3, TallyIsNat
<1> QED
  BY <1>2, <1>3, <1>5, <1>6, <1>7, <1>8, ConcatProperties DEF one

\* The step of Scheduled.
InsertedStep(par, aux, q, e) == Inserted(q, e)

\* What the first i events have added to the queue.
ScheduledSoFar(ctx, i, q) ==
  /\ q \in Seq(Events)
  /\ \A T : Tally(q, T) = Tally(ctx.queue, T) + Tally(SubSeq(ctx.events, 1, i), T)

ScheduledFold == INSTANCE LeftFold WITH Op <- InsertedStep, Inv <- ScheduledSoFar

\* Every event that is scheduled counts once.
LEMMA TallyOfScheduled ==
  ASSUME NEW q \in Seq(Events), NEW events \in Seq(Events)
  PROVE  /\ Scheduled(q, events) \in Seq(Events)
         /\ \A T : Tally(Scheduled(q, events), T) = Tally(q, T) + Tally(events, T)
<1> DEFINE ctx == [queue |-> q, events |-> events]
           n == Len(events)
<1>1. n \in Nat /\ DOMAIN events = 1 .. n
  OBVIOUS
<1>2. Scheduled(q, events) = ScheduledFold!Folded({}, {}, q, events)
  BY DEF Scheduled, ScheduledFold!Folded, InsertedStep, FoldLeft, ScheduledFold!FoldLeft,
         MapThenFoldSet, ScheduledFold!MapThenFoldSet, Max, ScheduledFold!Max
<1>3. ScheduledSoFar(ctx, 0, q)
  <2>1. SubSeq(events, 1, 0) = <<>>
    BY SubSeqEmpty
  <2>2. ASSUME NEW T
        PROVE  Tally(q, T) = Tally(q, T) + Tally(SubSeq(events, 1, 0), T)
    <3>1. Tally(SubSeq(events, 1, 0), T) = 0 /\ Tally(q, T) \in Nat
      BY <2>1, TallyOfNone, TallyIsNat
    <3> QED
      BY <3>1
  <2> QED
    BY <2>2 DEF ScheduledSoFar
<1>4. ASSUME NEW i \in 1 .. n, NEW s, ScheduledSoFar(ctx, i - 1, s)
      PROVE  ScheduledSoFar(ctx, i, InsertedStep({}, {}, s, events[i]))
  <2> DEFINE e == events[i]
             one == <<e>>
             earlier == SubSeq(events, 1, i - 1)
  <2>1. e \in Events /\ s \in Seq(Events)
    BY <1>4 DEF ScheduledSoFar
  <2>2. /\ SubSeq(events, 1, i) = earlier \o one
        /\ earlier \in Seq(Events)
        /\ one \in Seq(Events)
    BY <1>1, SubSeqRecursiveSecond, SubSeqProperties
  <2>3. ASSUME NEW T
        PROVE  Tally(Inserted(s, e), T) = Tally(q, T) + Tally(SubSeq(events, 1, i), T)
    <3> HIDE DEF e, earlier
    <3>1. Tally(Inserted(s, e), T) = Tally(s, T) + Tally(one, T)
      BY <2>1, TallyOfInserted
    <3> HIDE DEF one
    <3>2. Tally(s, T) = Tally(q, T) + Tally(earlier, T)
      BY <1>4 DEF ScheduledSoFar, earlier
    <3>3. Tally(earlier \o one, T) = Tally(earlier, T) + Tally(one, T)
      BY <2>2, TallyOfBoth
    <3>4. Tally(q, T) \in Nat /\ Tally(earlier, T) \in Nat /\ Tally(one, T) \in Nat
      BY <2>2, TallyIsNat
    <3>5. Tally(SubSeq(events, 1, i), T) = Tally(earlier, T) + Tally(one, T)
      BY <2>2, <3>3
    <3> QED
      BY <3>1, <3>2, <3>4, <3>5
  <2>4. Inserted(s, e) \in Seq(Events)
    BY <2>1, TallyOfInserted
  <2> QED
    BY <2>3, <2>4 DEF ScheduledSoFar, InsertedStep
<1>5. ScheduledSoFar(ctx, n, Scheduled(q, events))
  <2> HIDE DEF ctx, n
  <2> QED
    BY <1>1, <1>2, <1>3, <1>4, ScheduledFold!FoldKeeps
<1>6. SubSeq(events, 1, n) = events
  BY SubSeqFull
<1> QED
  BY <1>5, <1>6 DEF ScheduledSoFar

\* The event that is dispatched counts no longer.
LEMMA TallyOfTail ==
  ASSUME NEW X, NEW q \in Seq(X), q # <<>>, NEW T
  PROVE  /\ q[1] \in X /\ Tail(q) \in Seq(X)
         /\ Tally(q, T) = Tally(<<q[1]>>, T) + Tally(Tail(q), T)
<1> DEFINE one == <<q[1]>>
           rest == Tail(q)
<1>1. q = one \o Tail(q)
  <2>1. Len(q) \in Nat /\ 1 \in 1 .. Len(q) /\ Len(q) \in 1 .. Len(q)
    OBVIOUS
  <2>2. SubSeq(q, 1, Len(q)) = one \o SubSeq(q, 1 + 1, Len(q))
    BY <2>1, SubSeqRecursiveFirst
  <2> QED
    BY <2>2, SubSeqFull, TailIsSubSeq
<1>2. q[1] \in X /\ Tail(q) \in Seq(X) /\ one \in Seq(X)
  OBVIOUS
<1> HIDE DEF one, rest
<1>3. Tally(one \o rest, T) = Tally(one, T) + Tally(rest, T)
  BY <1>2, TallyOfBoth DEF rest
<1> QED
  BY <1>1, <1>2, <1>3 DEF one, rest

-----------------------------------------------------------------------------
(* The states of a group *)

States == {"Empty", "PreparingRebalance", "CompletingRebalance", "Stable"}

Member == [assignment : SUBSET TopicPartitions, heartbeatAge : Nat, pollAge : Nat]

MemberSets == UNION {[S -> Member] : S \in SUBSET Consumers}

GroupState ==
  [ state            : States,
    generationId     : Nat,
    leaderMemberId   : Consumers \cup {None},
    assignor         : Assignors,
    members          : MemberSets,
    committedOffsets : [TopicPartitions -> Nat \cup {None}] ]

\* A map of members, by its domain.
LEMMA MemberSetsAre ==
  \A ms : ms \in MemberSets <=> DOMAIN ms \in SUBSET Consumers /\ ms \in [DOMAIN ms -> Member]
<1>1. ASSUME NEW ms \in MemberSets
      PROVE  DOMAIN ms \in SUBSET Consumers /\ ms \in [DOMAIN ms -> Member]
  <2>1. PICK S \in SUBSET Consumers : ms \in [S -> Member]
    BY DEF MemberSets
  <2> QED
    BY <2>1
<1>2. ASSUME NEW ms, DOMAIN ms \in SUBSET Consumers, ms \in [DOMAIN ms -> Member]
      PROVE  ms \in MemberSets
  BY <1>2 DEF MemberSets
<1> QED
  BY <1>1, <1>2

\* The partitions that each member of a map has.
AssignmentsOf(ms) == [m \in DOMAIN ms |-> ms[m].assignment]

\* No two members of a map have a partition in common.
MembersApart(ms) == \A m, k \in DOMAIN ms : m # k => ms[m].assignment \cap ms[k].assignment = {}

\* A map of members with disjoint assignments.
Split(ms) == ms \in MemberSets /\ MembersApart(ms)

\* Members that leave do not disturb the others.
LEMMA FewerMembers ==
  ASSUME NEW ms, Split(ms), NEW S
  PROVE  /\ Split(Restrict(ms, DOMAIN ms \ S))
         /\ DOMAIN Restrict(ms, DOMAIN ms \ S) = DOMAIN ms \ S
<1> DEFINE fewer == Restrict(ms, DOMAIN ms \ S)
<1>1. DOMAIN ms \in SUBSET Consumers /\ ms \in [DOMAIN ms -> Member]
  BY MemberSetsAre DEF Split
<1>2. /\ DOMAIN fewer = DOMAIN ms \ S
      /\ fewer \in [DOMAIN fewer -> Member]
      /\ \A m \in DOMAIN fewer : m \in DOMAIN ms /\ fewer[m] = ms[m]
  BY <1>1 DEF Restrict
<1> HIDE DEF fewer
<1>3. fewer \in MemberSets
  BY <1>1, <1>2, MemberSetsAre
<1>4. MembersApart(fewer)
  BY <1>2 DEF MembersApart, Split
<1> QED
  BY <1>2, <1>3, <1>4 DEF Split, fewer

\* WithAssignment replaces the assignments, and only them.
LEMMA Assigned ==
  ASSUME NEW ms \in MemberSets, NEW g, g \in [DOMAIN ms -> SUBSET TopicPartitions],
         \A m, k \in DOMAIN ms : m # k => g[m] \cap g[k] = {}
  PROVE  /\ Split(WithAssignment(ms, g))
         /\ DOMAIN WithAssignment(ms, g) = DOMAIN ms
         /\ \A m \in DOMAIN ms : WithAssignment(ms, g)[m].assignment = g[m]
<1> DEFINE new == WithAssignment(ms, g)
<1>1. DOMAIN ms \in SUBSET Consumers /\ ms \in [DOMAIN ms -> Member]
  BY MemberSetsAre
<1>2. DOMAIN new = DOMAIN ms /\ new = [m \in DOMAIN ms |-> new[m]]
  BY DEF WithAssignment
<1>3. \A m \in DOMAIN ms : new[m] \in Member /\ new[m].assignment = g[m]
  BY <1>1 DEF WithAssignment, Member
<1> HIDE DEF new
<1>4. new \in MemberSets
  BY <1>1, <1>2, <1>3, MemberSetsAre
<1>5. MembersApart(new)
  BY <1>2, <1>3 DEF MembersApart
<1> QED
  BY <1>2, <1>3, <1>4, <1>5 DEF Split, new

\* An eager round starts with empty assignments.
LEMMA Cleared ==
  ASSUME NEW ms, Split(ms), NEW assignor
  PROVE  /\ Split(ClearAssignmentsIfEager(ms, assignor))
         /\ DOMAIN ClearAssignmentsIfEager(ms, assignor) = DOMAIN ms
<1> DEFINE none == [m \in DOMAIN ms |-> {}]
<1>1. none \in [DOMAIN ms -> SUBSET TopicPartitions] /\ \A m \in DOMAIN ms : none[m] = {}
  OBVIOUS
<1> HIDE DEF none
<1>2. Split(WithAssignment(ms, none)) /\ DOMAIN WithAssignment(ms, none) = DOMAIN ms
  BY <1>1, Assigned DEF Split
<1> QED
  BY <1>2 DEF ClearAssignmentsIfEager, none

\* The leader is a member.
LEMMA FirstMemberIs ==
  ASSUME NEW ids
  PROVE  FirstMember(ids) \in Consumers \cup {None}
<1> DEFINE present == Among(ConsumerOrder, ids)
<1>1. ConsumerOrder \in Seq(Consumers)
  BY OrdersAssumption
<1>2. present \in Seq(Consumers)
  BY <1>1, AmongElements
<1> HIDE DEF present
<1>3. CASE present = <<>>
  BY <1>3 DEF FirstMember, present
<1>4. CASE present # <<>>
  <2>1. present[1] \in Consumers
    BY <1>2, <1>4
  <2> QED
    BY <1>4, <2>1 DEF FirstMember, present
<1> QED
  BY <1>3, <1>4

-----------------------------------------------------------------------------
(* The operations of the coordinator *)

\* A group in which no partition has two owners.
GroupOK(g) == g \in GroupState /\ MembersApart(g.members)

\* How an operation that ends no round leaves it: as it was, given up because
\* nobody is left, or a new one of a new generation, with the event for its end.
RoundGoesOn(g, r) ==
  \/ /\ r.group.state \in {g.state, "Empty"}
     /\ r.group.generationId = g.generationId
     /\ r.events = <<>>
  \/ /\ r.group.state = "PreparingRebalance"
     /\ r.group.generationId = g.generationId + 1
     /\ \E timeout \in Nat :
          r.events = <<Event("rebalance-complete", timeout, None, r.group.generationId)>>

\* What every operation keeps.
SameGroup(g, r) ==
  /\ GroupOK(r.group)
  /\ r.group.assignor = g.assignor
  /\ r.group.committedOffsets = g.committedOffsets

\* A round is opened.
LEMMA OpenRoundIsOK ==
  ASSUME NEW g, GroupOK(g), NEW ms, Split(ms), NEW leader \in Consumers \cup {None},
         NEW timeout \in Nat
  PROVE  LET r == OpenRound(g, ms, leader, timeout)
         IN SameGroup(g, r) /\ RoundGoesOn(g, r) /\ DOMAIN r.group.members = DOMAIN ms
<1> DEFINE r == OpenRound(g, ms, leader, timeout)
           cleared == ClearAssignmentsIfEager(ms, g.assignor)
<1>1. Split(cleared) /\ DOMAIN cleared = DOMAIN ms
  BY Cleared
<1> HIDE DEF cleared
<1>2. r.group = [g EXCEPT !.state = "PreparingRebalance",
                          !.generationId = g.generationId + 1,
                          !.leaderMemberId = leader,
                          !.members = cleared]
  BY DEF OpenRound, Result, cleared
<1>3. r.events = <<Event("rebalance-complete", timeout, None, g.generationId + 1)>>
  BY DEF OpenRound, Result
<1> HIDE DEF r
<1>4. g.generationId \in Nat /\ g.generationId + 1 \in Nat
  BY DEF GroupOK, GroupState
<1>5. /\ r.group \in GroupState /\ r.group.members = cleared
      /\ r.group.state = "PreparingRebalance"
      /\ r.group.generationId = g.generationId + 1
      /\ r.group.assignor = g.assignor /\ r.group.committedOffsets = g.committedOffsets
  BY <1>1, <1>2, <1>4 DEF GroupOK, GroupState, States, Split
<1> QED
  BY <1>1, <1>3, <1>5 DEF SameGroup, RoundGoesOn, GroupOK, Split, r

\* The last member is gone.
LEMMA EmptiedIsOK ==
  ASSUME NEW g, GroupOK(g)
  PROVE  LET r == Result(Emptied(g), <<>>)
         IN SameGroup(g, r) /\ RoundGoesOn(g, r) /\ DOMAIN r.group.members = {}
<1> DEFINE r == Result(Emptied(g), <<>>)
<1>1. r.group = [g EXCEPT !.state = "Empty", !.members = <<>>, !.leaderMemberId = None]
      /\ r.events = <<>>
  BY DEF Result, Emptied
<1>2. DOMAIN (<<>>) = {} /\ <<>> \in [{} -> Member]
  OBVIOUS
<1>3. <<>> \in MemberSets /\ MembersApart(<<>>)
  BY <1>2, MemberSetsAre DEF MembersApart
<1> HIDE DEF r
<1>4. /\ r.group \in GroupState /\ r.group.members = <<>> /\ r.group.state = "Empty"
      /\ r.group.generationId = g.generationId
      /\ r.group.assignor = g.assignor /\ r.group.committedOffsets = g.committedOffsets
  BY <1>1, <1>3 DEF GroupOK, GroupState, States
<1> QED
  BY <1>1, <1>2, <1>3, <1>4 DEF SameGroup, RoundGoesOn, GroupOK, r

\* A group whose members change and whose round stays.
LEMMA SameRoundIsOK ==
  ASSUME NEW g, GroupOK(g), NEW ms, Split(ms)
  PROVE  LET r == Result([g EXCEPT !.members = ms], <<>>)
         IN SameGroup(g, r) /\ RoundGoesOn(g, r) /\ DOMAIN r.group.members = DOMAIN ms
<1> DEFINE r == Result([g EXCEPT !.members = ms], <<>>)
<1>1. r.group = [g EXCEPT !.members = ms] /\ r.events = <<>>
  BY DEF Result
<1> HIDE DEF r
<1>2. /\ r.group \in GroupState /\ r.group.members = ms
      /\ r.group.state = g.state /\ r.group.generationId = g.generationId
      /\ r.group.assignor = g.assignor /\ r.group.committedOffsets = g.committedOffsets
  BY <1>1 DEF GroupOK, GroupState, Split
<1> QED
  BY <1>1, <1>2 DEF SameGroup, RoundGoesOn, GroupOK, Split, r

\* A group that nothing happens to.
LEMMA NothingHappens ==
  ASSUME NEW g, GroupOK(g)
  PROVE  SameGroup(g, Result(g, <<>>)) /\ RoundGoesOn(g, Result(g, <<>>))
BY DEF SameGroup, RoundGoesOn, Result

\* joinGroup
LEMMA JoinGroupIsOK ==
  ASSUME NEW g, GroupOK(g), NEW c \in Consumers, c \notin DOMAIN g.members
  PROVE  SameGroup(g, JoinGroup(g, c)) /\ RoundGoesOn(g, JoinGroup(g, c))
<1> DEFINE newcomer == [assignment |-> {}, heartbeatAge |-> 0, pollAge |-> 0]
           ms == [m \in MemberIds(g) \cup {c} |-> IF m = c THEN newcomer ELSE g.members[m]]
           leader == IF g.generationId = 0 THEN c ELSE g.leaderMemberId
<1>1. /\ DOMAIN g.members \in SUBSET Consumers /\ g.members \in [DOMAIN g.members -> Member]
      /\ g.members \in MemberSets
  BY MemberSetsAre DEF GroupOK, GroupState
<1>2. newcomer \in Member /\ newcomer.assignment = {}
  BY DEF Member
<1> HIDE DEF newcomer
<1>3. /\ DOMAIN ms = DOMAIN g.members \cup {c}
      /\ ms \in [DOMAIN ms -> Member]
      /\ \A m \in DOMAIN ms : ms[m] = IF m = c THEN newcomer ELSE g.members[m]
  BY <1>1, <1>2 DEF MemberIds
<1> HIDE DEF ms
<1>4. ms \in MemberSets
  BY <1>1, <1>3, MemberSetsAre
<1>5. MembersApart(ms)
  <2> SUFFICES ASSUME NEW m \in DOMAIN ms, NEW k \in DOMAIN ms, m # k
               PROVE  ms[m].assignment \cap ms[k].assignment = {}
    BY DEF MembersApart
  <2>1. CASE m = c \/ k = c
    BY <1>2, <1>3, <2>1
  <2>2. CASE m # c /\ k # c
    BY <1>3, <2>2 DEF GroupOK, MembersApart
  <2> QED
    BY <2>1, <2>2
<1>6. Split(ms)
  BY <1>4, <1>5 DEF Split
<1>7. leader \in Consumers \cup {None}
  BY DEF GroupOK, GroupState
<1> HIDE DEF leader
<1>8. CASE g.state \in {"Stable", "Empty"}
  <2>1. JoinGroup(g, c) = OpenRound(g, ms, leader, RebalanceTimeout)
    BY <1>8 DEF JoinGroup, ms, newcomer, leader
  <2> QED
    BY <1>6, <1>7, <2>1, OpenRoundIsOK, TimeoutsAssumption
<1>9. CASE g.state \notin {"Stable", "Empty"}
  <2>1. JoinGroup(g, c) = Result([g EXCEPT !.members = ms], <<>>)
    BY <1>9 DEF JoinGroup, ms, newcomer
  <2> QED
    BY <1>6, <2>1, SameRoundIsOK
<1> QED
  BY <1>8, <1>9

\* leaveGroup
LEMMA LeaveGroupIsOK ==
  ASSUME NEW g, GroupOK(g), NEW c
  PROVE  /\ SameGroup(g, LeaveGroup(g, c)) /\ RoundGoesOn(g, LeaveGroup(g, c))
         /\ DOMAIN LeaveGroup(g, c).group.members = DOMAIN g.members \ {c}
<1> DEFINE remaining == Restrict(g.members, MemberIds(g) \ {c})
<1>1. Split(remaining) /\ DOMAIN remaining = DOMAIN g.members \ {c}
  BY FewerMembers DEF Split, GroupOK, GroupState, MemberIds
<1>2. CASE c \notin MemberIds(g)
  BY <1>2, NothingHappens DEF LeaveGroup, MemberIds, Result
<1>3. CASE MemberIds(g) = {c}
  <2>1. LeaveGroup(g, c) = Result(Emptied(g), <<>>)
    BY <1>3 DEF LeaveGroup
  <2> QED
    BY <1>3, <2>1, EmptiedIsOK DEF MemberIds
<1>4. CASE c \in MemberIds(g) /\ MemberIds(g) # {c}
  <2>1. LeaveGroup(g, c) = OpenRound(g, remaining, FirstMember(DOMAIN remaining), MaxPollInterval)
    BY <1>4 DEF LeaveGroup
  <2> HIDE DEF remaining
  <2> QED
    BY <1>1, <2>1, OpenRoundIsOK, FirstMemberIs, TimeoutsAssumption
<1> QED
  BY <1>2, <1>3, <1>4

\* checkTimeouts
LEMMA CheckTimeoutsIsOK ==
  ASSUME NEW g, GroupOK(g)
  PROVE  /\ SameGroup(g, CheckTimeouts(g)) /\ RoundGoesOn(g, CheckTimeouts(g))
         /\ DOMAIN CheckTimeouts(g).group.members \subseteq DOMAIN g.members
<1> DEFINE stale == Stale(g)
           remaining == Restrict(g.members, MemberIds(g) \ stale)
<1>1. Split(remaining) /\ DOMAIN remaining \subseteq DOMAIN g.members
  BY FewerMembers DEF Split, GroupOK, GroupState, MemberIds
<1> HIDE DEF stale
<1>2. CASE stale = {}
  BY <1>2, NothingHappens DEF CheckTimeouts, Result, stale
<1>3. CASE stale # {} /\ remaining = <<>>
  <2>1. CheckTimeouts(g) = Result(Emptied(g), <<>>)
    BY <1>3 DEF CheckTimeouts, stale
  <2> QED
    BY <2>1, EmptiedIsOK
<1>4. CASE stale # {} /\ remaining # <<>> /\ g.state # "Stable"
  <2>1. CheckTimeouts(g) = Result([g EXCEPT !.members = remaining], <<>>)
    BY <1>4 DEF CheckTimeouts, stale
  <2> HIDE DEF remaining
  <2> QED
    BY <1>1, <2>1, SameRoundIsOK
<1>5. CASE stale # {} /\ remaining # <<>> /\ g.state = "Stable"
  <2>1. CheckTimeouts(g) = OpenRound(g, remaining, FirstMember(DOMAIN remaining), MaxPollInterval)
    BY <1>5 DEF CheckTimeouts, stale
  <2> HIDE DEF remaining
  <2> QED
    BY <1>1, <2>1, OpenRoundIsOK, FirstMemberIs, TimeoutsAssumption
<1> QED
  BY <1>2, <1>3, <1>4, <1>5

\* What a group hands out is what an assignor gave.
Full(ms) == SharesOut(AssignmentsOf(ms), DOMAIN ms, Wanted(DOMAIN ms))

\* What the assignor gives, and what an eager or a cooperative round hands out.
LEMMA TargetIsOK ==
  ASSUME NEW g, GroupOK(g)
  PROVE  LET target == Assign(g.assignor, Owned(g))
             given == HandOut(g, target)
         IN /\ Split(WithAssignment(g.members, target))
            /\ Full(WithAssignment(g.members, target))
            /\ DOMAIN WithAssignment(g.members, target) = DOMAIN g.members
            /\ Split(WithAssignment(g.members, given))
            /\ DOMAIN WithAssignment(g.members, given) = DOMAIN g.members
            /\ Eager(g.assignor) => given = target
<1> DEFINE ids == DOMAIN g.members
           owned == Owned(g)
           target == Assign(g.assignor, owned)
           given == HandOut(g, target)
           new == WithAssignment(g.members, target)
<1>1. g.members \in MemberSets /\ ids \in SUBSET Consumers /\ g.members \in [ids -> Member]
      /\ g.assignor \in Assignors
  BY MemberSetsAre DEF GroupOK, GroupState
<1>2. /\ owned \in [ids -> SUBSET TopicPartitions] /\ DOMAIN owned = ids
      /\ \A m \in ids : owned[m] = g.members[m].assignment
  BY <1>1 DEF Owned, MemberIds, Member
<1> HIDE DEF owned
<1>3. Apart(owned)
  BY <1>2 DEF Apart, GroupOK, MembersApart
<1>4. SharesOut(target, ids, Wanted(ids))
  BY <1>1, <1>2, <1>3, AssignSharesOut
<1> HIDE DEF target
<1>5. /\ target \in [ids -> SUBSET TopicPartitions]
      /\ \A m, k \in ids : m # k => target[m] \cap target[k] = {}
  BY <1>4 DEF SharesOut, Wanted
<1>6. /\ Split(new) /\ DOMAIN new = ids
      /\ \A m \in ids : new[m].assignment = target[m]
  BY <1>1, <1>5, Assigned
<1> HIDE DEF new
<1>7. AssignmentsOf(new) = target
  <2>1. target = [m \in ids |-> target[m]]
    BY <1>5
  <2> QED
    BY <1>6, <2>1 DEF AssignmentsOf
<1>8. Full(new)
  BY <1>4, <1>6, <1>7 DEF Full
<1>9. CASE Eager(g.assignor)
  <2>1. given = target
    BY <1>9 DEF HandOut
  <2> QED
    BY <1>6, <1>8, <2>1 DEF new, target, owned
<1>10. CASE ~Eager(g.assignor)
  <2>1. given = [m \in ids |-> owned[m] \ RevocationsFor(owned, target)[m]]
    BY <1>10 DEF HandOut, MemberIds, owned
  <2>2. \A m \in ids : given[m] \subseteq owned[m]
    BY <2>1
  <2>3. given \in [ids -> SUBSET TopicPartitions]
    BY <1>2, <2>1
  <2> HIDE DEF given
  <2>4. \A m, k \in ids : m # k => given[m] \cap given[k] = {}
    BY <1>2, <1>3, <2>2 DEF Apart
  <2>5. /\ Split(WithAssignment(g.members, given))
        /\ DOMAIN WithAssignment(g.members, given) = ids
    BY <1>1, <2>3, <2>4, Assigned
  <2> QED
    BY <1>6, <1>8, <1>10, <2>5 DEF new, given, target, owned
<1> QED
  BY <1>9, <1>10

\* completeRebalance
LEMMA CompleteRebalanceIsOK ==
  ASSUME NEW g, GroupOK(g), NEW n,
         g.state = "PreparingRebalance", g.generationId = n
  PROVE  LET r == CompleteRebalance(g, n)
         IN /\ SameGroup(g, r)
            /\ r.group.state = "CompletingRebalance" /\ r.group.generationId = n
            /\ DOMAIN r.group.members = DOMAIN g.members
            /\ r.events = <<Event("sync-group", 0, None, n)>>
            /\ Eager(g.assignor) => Full(r.group.members)
<1> DEFINE r == CompleteRebalance(g, n)
           target == Assign(g.assignor, Owned(g))
           new == WithAssignment(g.members, HandOut(g, target))
<1>1. /\ Split(new) /\ DOMAIN new = DOMAIN g.members
      /\ Eager(g.assignor) => Full(new)
  BY TargetIsOK
<1>2. /\ r.group = [g EXCEPT !.state = "CompletingRebalance",
                             !.leaderMemberId = FirstMember(MemberIds(g)),
                             !.members = new]
      /\ r.events = <<Event("sync-group", 0, None, n)>>
  BY DEF CompleteRebalance, Result
<1> HIDE DEF r, new
<1>3. FirstMember(MemberIds(g)) \in Consumers \cup {None}
  BY FirstMemberIs
<1>4. /\ r.group \in GroupState /\ r.group.members = new
      /\ r.group.state = "CompletingRebalance" /\ r.group.generationId = n
      /\ r.group.assignor = g.assignor /\ r.group.committedOffsets = g.committedOffsets
  BY <1>1, <1>2, <1>3 DEF GroupOK, GroupState, States, Split
<1> QED
  BY <1>1, <1>2, <1>4 DEF SameGroup, GroupOK, Split, r

\* syncGroup
LEMMA SyncGroupIsOK ==
  ASSUME NEW g, GroupOK(g), NEW n,
         g.state = "CompletingRebalance", g.generationId = n
  PROVE  LET h == SyncGroup(g, n)
         IN /\ GroupOK(h) /\ h.assignor = g.assignor
            /\ h.committedOffsets = g.committedOffsets
            /\ h.state = "Stable" /\ h.generationId \in {n, n + 1}
            /\ DOMAIN h.members = DOMAIN g.members
            /\ ~Eager(g.assignor) => Full(h.members)
<1> DEFINE h == SyncGroup(g, n)
<1>1. CASE Eager(g.assignor)
  <2>1. h = [g EXCEPT !.state = "Stable"]
    BY <1>1 DEF SyncGroup
  <2> QED
    BY <1>1, <2>1 DEF GroupOK, GroupState, States
<1>2. CASE ~Eager(g.assignor)
  <2> DEFINE new == WithAssignment(g.members, Assign(g.assignor, Owned(g)))
  <2>1. Split(new) /\ DOMAIN new = DOMAIN g.members /\ Full(new)
    BY TargetIsOK
  <2>2. h = [g EXCEPT !.state = "Stable", !.generationId = @ + 1, !.members = new]
    BY <1>2 DEF SyncGroup
  <2> HIDE DEF new, h
  <2>3. g.generationId \in Nat /\ g.generationId + 1 \in Nat
    BY DEF GroupOK, GroupState
  <2>4. /\ h \in GroupState /\ h.members = new /\ h.state = "Stable"
        /\ h.generationId = n + 1 /\ h.assignor = g.assignor
        /\ h.committedOffsets = g.committedOffsets
    BY <2>1, <2>2, <2>3 DEF GroupOK, GroupState, States, Split
  <2> QED
    BY <2>1, <2>4 DEF GroupOK, Split, h
<1> QED
  BY <1>1, <1>2

\* What leaves the round and the assignments alone.
SameRound(g, h) ==
  /\ GroupOK(h)
  /\ h.state = g.state
  /\ h.generationId = g.generationId
  /\ h.assignor = g.assignor
  /\ DOMAIN h.members = DOMAIN g.members
  /\ \A m \in DOMAIN g.members : h.members[m].assignment = g.members[m].assignment

\* New ages of the members change neither the round nor the assignments.
LEMMA AgesChange ==
  ASSUME NEW g, GroupOK(g), NEW ms, ms \in [DOMAIN g.members -> Member],
         \A m \in DOMAIN g.members : ms[m].assignment = g.members[m].assignment
  PROVE  /\ SameRound(g, [g EXCEPT !.members = ms])
         /\ [g EXCEPT !.members = ms].committedOffsets = g.committedOffsets
<1> DEFINE h == [g EXCEPT !.members = ms]
<1>1. DOMAIN ms = DOMAIN g.members /\ DOMAIN g.members \in SUBSET Consumers
  BY MemberSetsAre DEF GroupOK, GroupState
<1>2. ms \in MemberSets
  BY <1>1, MemberSetsAre
<1>3. MembersApart(ms)
  BY <1>1 DEF GroupOK, MembersApart
<1>4. /\ h \in GroupState /\ h.members = ms /\ h.state = g.state
      /\ h.generationId = g.generationId /\ h.assignor = g.assignor
      /\ h.committedOffsets = g.committedOffsets
  BY <1>2 DEF GroupOK, GroupState
<1> QED
  BY <1>1, <1>3, <1>4 DEF SameRound, GroupOK

\* heartbeat
LEMMA HeartbeatIsOK ==
  ASSUME NEW g, GroupOK(g), NEW c, NEW n
  PROVE  SameRound(g, Heartbeat(g, c, n)) /\ Heartbeat(g, c, n).committedOffsets = g.committedOffsets
<1>1. CASE c \in MemberIds(g) /\ n = g.generationId
  <2> DEFINE ms == [g.members EXCEPT ![c].heartbeatAge = 0]
  <2>1. Heartbeat(g, c, n) = [g EXCEPT !.members = ms]
    <3>1. Heartbeat(g, c, n) = [g EXCEPT !.members[c].heartbeatAge = 0]
      BY <1>1 DEF Heartbeat
    <3> QED
      BY <3>1
  <2>2. g.members \in [DOMAIN g.members -> Member]
    BY MemberSetsAre DEF GroupOK, GroupState
  <2>3. /\ ms \in [DOMAIN g.members -> Member]
        /\ \A m \in DOMAIN g.members : ms[m].assignment = g.members[m].assignment
    BY <1>1, <2>2 DEF MemberIds, Member
  <2> HIDE DEF ms
  <2> QED
    BY <2>1, <2>3, AgesChange
<1>2. CASE ~(c \in MemberIds(g) /\ n = g.generationId)
  BY <1>2 DEF Heartbeat, SameRound
<1> QED
  BY <1>1, <1>2

\* A poll of a member.
LEMMA PollIsOK ==
  ASSUME NEW g, GroupOK(g), NEW c \in DOMAIN g.members
  PROVE  LET h == [g EXCEPT !.members[c].pollAge = 0]
         IN SameRound(g, h) /\ h.committedOffsets = g.committedOffsets
<1> DEFINE ms == [g.members EXCEPT ![c].pollAge = 0]
<1>1. [g EXCEPT !.members[c].pollAge = 0] = [g EXCEPT !.members = ms]
  OBVIOUS
<1>2. g.members \in [DOMAIN g.members -> Member]
  BY MemberSetsAre DEF GroupOK, GroupState
<1>3. /\ ms \in [DOMAIN g.members -> Member]
      /\ \A m \in DOMAIN g.members : ms[m].assignment = g.members[m].assignment
  BY <1>2 DEF Member
<1> HIDE DEF ms
<1> QED
  BY <1>1, <1>3, AgesChange

Positions == [TopicPartitions -> Nat \cup {None}]

\* commitOffsets
LEMMA CommitOffsetsIsOK ==
  ASSUME NEW g, GroupOK(g), NEW c, NEW position \in Positions
  PROVE  LET h == CommitOffsets(g, c, position)
         IN /\ SameRound(g, h)
            /\ \A p \in TopicPartitions :
                 h.committedOffsets[p] \in {g.committedOffsets[p], position[p]}
<1> DEFINE h == CommitOffsets(g, c, position)
           written == {p \in g.members[c].assignment : position[p] # None}
           after == [p \in TopicPartitions |-> IF p \in written THEN position[p]
                                                                ELSE g.committedOffsets[p]]
<1>1. g.committedOffsets \in Positions
  BY DEF GroupOK, GroupState, Positions
<1>2. after \in Positions /\ \A p \in TopicPartitions : after[p] \in {g.committedOffsets[p], position[p]}
  BY <1>1 DEF Positions
<1>3. CASE c \notin MemberIds(g)
  BY <1>3 DEF CommitOffsets, SameRound
<1>4. CASE c \in MemberIds(g)
  <2>1. h = [g EXCEPT !.committedOffsets = after]
    BY <1>4 DEF CommitOffsets
  <2> HIDE DEF after, h
  <2>2. /\ h \in GroupState /\ h.members = g.members /\ h.state = g.state
        /\ h.generationId = g.generationId /\ h.assignor = g.assignor
        /\ h.committedOffsets = after
    BY <1>2, <2>1 DEF GroupOK, GroupState, Positions
  <2> QED
    BY <1>2, <2>2 DEF SameRound, GroupOK, h
<1> QED
  BY <1>3, <1>4

-----------------------------------------------------------------------------
(* The types of the variables *)

Runtime == [position : Positions, paused : SUBSET TopicPartitions, stalled : Nat]

Partition == [logStartOffset : Nat, highWatermark : Nat]

RuntimesOK(cs) == DOMAIN cs \in SUBSET Consumers /\ cs \in [DOMAIN cs -> Runtime]

TypeOK ==
  /\ config \in Config
  /\ group \in GroupState
  /\ group.assignor = config.assignor
  /\ RuntimesOK(consumers)
  /\ queue \in Seq(Events)
  /\ partitions \in [TopicPartitions -> Partition]
  /\ handedOut \in [TopicPartitions -> SUBSET Nat]
  /\ commands \in Nat
  /\ requests \in Nat

\* The same with what is needed to keep it: no partition has two owners.
OwnersOK == TypeOK /\ MembersApart(group.members)

\* There are finitely many partitions.
LEMMA PartitionsAreFinite == IsFiniteSet(TopicPartitions)
<1>1. PartitionOrder \in Seq(AllPartitions)
  BY PartitionOrderIsComplete
<1> DEFINE n == Len(PartitionOrder)
<1>2. n \in Nat /\ DOMAIN PartitionOrder = 1 .. n
  BY <1>1
<1>3. IsFiniteSet(1 .. n)
  BY <1>2, FS_Interval
<1>4. PartitionOrder \in Surjection(1 .. n, TopicPartitions)
  BY <1>1, <1>2 DEF TopicPartitions, ToSet, Surjection
<1> HIDE DEF n
<1> QED
  BY <1>3, <1>4, FS_Surjection

\* The events that reducers make are events.
LEMMA EventsAre ==
  /\ \A c \in Consumers, delay \in Nat : Poll(c, delay) \in Events
  /\ \A c \in Consumers, n \in Nat : NextHeartbeat(c, n) \in Events
  /\ Scan \in Events
  /\ \A c \in Consumers : Event("commit", AutoCommitInterval, c, 0) \in Events
  /\ \A delay \in Nat, n \in Nat : /\ Event("rebalance-complete", delay, None, n) \in Events
                                   /\ Event("sync-group", delay, None, n) \in Events
BY IntervalsAssumption DEF Poll, NextHeartbeat, Scan, Event, Events, EventTypes

\* scheduleAutoCommit gives one event or none.
LEMMA AutoCommitIs ==
  ASSUME NEW c \in Consumers
  PROVE  /\ AutoCommit(c) \in Seq(Events)
         /\ AutoCommit(c) \in {<<>>, <<Event("commit", AutoCommitInterval, c, 0)>>}
         /\ config.enableAutoCommit =>
              AutoCommit(c) = <<Event("commit", AutoCommitInterval, c, 0)>>
BY EventsAre DEF AutoCommit

\* The partitions a poll looks at are partitions of the log.
LEMMA FetchableAre ==
  ASSUME OwnersOK, NEW c
  PROVE  Fetchable(c) \subseteq TopicPartitions
<1>1. group.members \in [DOMAIN group.members -> Member]
  BY MemberSetsAre DEF OwnersOK, TypeOK, GroupState
<1> QED
  BY <1>1 DEF Fetchable, MemberIds, Member

\* What a poll reads, and where it leaves its consumer: it starts where the
\* consumer stands, or at one end of the log, and goes on without a gap.
LEMMA FetchRecordsAre ==
  ASSUME OwnersOK, NEW c \in DOMAIN consumers, NEW p \in Fetchable(c)
  PROVE  LET from == ResolvePosition(consumers[c].position[p], partitions[p])
             poll == FetchRecords(c)
         IN /\ from \in Nat
            /\ \E count \in Nat :
                 /\ poll.read[p] = from .. from + count - 1
                 /\ poll.position[p] = from + count
            /\ poll.position[p] \in Nat
            /\ poll.read[p] \in SUBSET Nat
<1> DEFINE from == [q \in Fetchable(c) |-> ResolvePosition(consumers[c].position[q], partitions[q])]
           readable == [q \in Fetchable(c) |-> Readable(from[q], partitions[q])]
           before(q) == SumFunctionOnSet(readable, Fetchable(c) \cap Before(q))
           count == [q \in Fetchable(c) |->
                       Lesser(readable[q], MaxPollRecords - Lesser(before(q), MaxPollRecords))]
           poll == FetchRecords(c)
<1>1. Fetchable(c) \subseteq TopicPartitions
  BY FetchableAre
<1>2. ASSUME NEW q \in Fetchable(c)
      PROVE  from[q] \in Nat /\ readable[q] \in Nat
  <2>1. consumers[c].position[q] \in Nat \cup {None}
    BY <1>1 DEF OwnersOK, TypeOK, RuntimesOK, Runtime, Positions
  <2>2. partitions[q].logStartOffset \in Nat /\ partitions[q].highWatermark \in Nat
    BY <1>1 DEF OwnersOK, TypeOK, Partition
  <2>3. from[q] \in Nat
    BY <2>1, <2>2 DEF ResolvePosition
  <2> HIDE DEF from
  <2> QED
    BY <2>2, <2>3 DEF Readable
<1> HIDE DEF from
<1>3. ASSUME NEW q \in Fetchable(c)
      PROVE  before(q) \in Int
  <2>1. IsFiniteSet(Fetchable(c) \cap Before(q))
    BY <1>1, PartitionsAreFinite, FS_Subset
  <2>2. \A x \in Fetchable(c) \cap Before(q) : readable[x] \in Int
    BY <1>2
  <2> HIDE DEF readable
  <2> QED
    BY <2>1, <2>2, SumIsInt
<1>4. poll = [read     |-> [q \in Fetchable(c) |-> from[q] .. from[q] + count[q] - 1],
              position |-> [q \in Fetchable(c) |-> from[q] + count[q]]]
  BY DEF FetchRecords, from
<1> HIDE DEF readable, before, poll
<1>5. count[p] \in Nat
  <2>1. readable[p] \in Nat /\ before(p) \in Int /\ MaxPollRecords \in Nat
    BY <1>2, <1>3, IntervalsAssumption
  <2> QED
    BY <2>1 DEF Lesser
<1> HIDE DEF count
<1>6. poll.read[p] = from[p] .. from[p] + count[p] - 1 /\ poll.position[p] = from[p] + count[p]
  BY <1>4
<1>7. from[p] \in Nat /\ from[p] = ResolvePosition(consumers[c].position[p], partitions[p])
  BY <1>2 DEF from
<1>8. from[p] + count[p] \in Nat /\ from[p] .. from[p] + count[p] - 1 \in SUBSET Nat
  BY <1>5, <1>7
<1> QED
  BY <1>5, <1>6, <1>7, <1>8 DEF poll

-----------------------------------------------------------------------------
(* Every step keeps the types, and the owners apart *)

\* The events of a coordinator operation are events.
LEMMA RoundEventsAre ==
  ASSUME NEW g, NEW r, SameGroup(g, r), RoundGoesOn(g, r)
  PROVE  r.events \in Seq(Events)
<1>1. r.group.generationId \in Nat
  BY DEF SameGroup, GroupOK, GroupState
<1>2. CASE r.events = <<>>
  BY <1>2
<1>3. ASSUME NEW timeout \in Nat,
             r.events = <<Event("rebalance-complete", timeout, None, r.group.generationId)>>
      PROVE  r.events \in Seq(Events)
  BY <1>1, <1>3, EventsAre
<1> QED
  BY <1>2, <1>3 DEF RoundGoesOn

\* A changed runtime.
LEMMA RuntimesChange ==
  ASSUME NEW cs, RuntimesOK(cs), NEW c \in DOMAIN cs, NEW r \in Runtime
  PROVE  RuntimesOK([cs EXCEPT ![c] = r])
BY DEF RuntimesOK

\* The start of a behaviour.
LEMMA OwnersInit ==
  ASSUME Init
  PROVE  OwnersOK
<1>1. config \in Config /\ config.assignor \in Assignors
  BY ConfigsAssumption DEF Init, Config
<1>2. DOMAIN (<<>>) = {} /\ <<>> \in [{} -> Member] /\ <<>> \in [{} -> Runtime]
  OBVIOUS
<1>3. <<>> \in MemberSets /\ MembersApart(<<>>) /\ RuntimesOK(<<>>)
  BY <1>2, MemberSetsAre DEF MembersApart, RuntimesOK
<1>4. NoGroup(config.assignor) \in GroupState
  BY <1>1, <1>3 DEF NoGroup, GroupState, States
<1>5. group.members = <<>> /\ group.assignor = config.assignor
  BY DEF Init, NoGroup
<1> QED
  BY <1>1, <1>3, <1>4, <1>5 DEF Init, OwnersOK, TypeOK, Partition

\* What the queue is after consumer-join.
Loops(c) == <<Poll(c, 0), NextHeartbeat(c, JoinGroup(group, c).group.generationId)>> \o AutoCommit(c)

FirstScan == IF MemberIds(group) = {} THEN <<Scan>> ELSE <<>>

\* The loops of a joiner.
LEMMA LoopsAre ==
  ASSUME OwnersOK, NEW c \in Consumers, c \notin MemberIds(group)
  PROVE  /\ SameGroup(group, JoinGroup(group, c)) /\ RoundGoesOn(group, JoinGroup(group, c))
         /\ Loops(c) \in Seq(Events) /\ FirstScan \in Seq(Events)
<1>1. SameGroup(group, JoinGroup(group, c)) /\ RoundGoesOn(group, JoinGroup(group, c))
  BY JoinGroupIsOK DEF OwnersOK, TypeOK, GroupOK, MemberIds
<1> DEFINE n == JoinGroup(group, c).group.generationId
<1>2. n \in Nat
  BY <1>1 DEF SameGroup, GroupOK, GroupState
<1> HIDE DEF n
<1>3. Poll(c, 0) \in Events /\ NextHeartbeat(c, n) \in Events /\ Scan \in Events
  BY <1>2, EventsAre
<1>4. <<Poll(c, 0), NextHeartbeat(c, n)>> \in Seq(Events)
  BY <1>3
<1>5. AutoCommit(c) \in Seq(Events)
  BY AutoCommitIs
<1>6. Loops(c) \in Seq(Events)
  BY <1>4, <1>5, ConcatProperties DEF Loops, n
<1> QED
  BY <1>1, <1>3, <1>6 DEF FirstScan

\* consumer-join
LEMMA JoinKeepsOwners ==
  ASSUME OwnersOK, NEW c \in Consumers, ConsumerJoin(c)
  PROVE  OwnersOK'
<1> DEFINE joined == JoinGroup(group, c)
           runtime == [position |-> [p \in TopicPartitions |-> None], paused |-> {}, stalled |-> 0]
<1>1. /\ SameGroup(group, joined) /\ RoundGoesOn(group, joined)
      /\ Loops(c) \in Seq(Events) /\ FirstScan \in Seq(Events)
  BY LoopsAre DEF ConsumerJoin
<1> HIDE DEF joined
<1>2. GroupOK(group') /\ group'.assignor = config.assignor
  BY <1>1 DEF ConsumerJoin, joined, SameGroup, OwnersOK, TypeOK
<1>3. queue' \in Seq(Events)
  <2> DEFINE events == joined.events \o Loops(c) \o FirstScan
  <2>1. queue' = Scheduled(queue, events)
    BY DEF ConsumerJoin, joined, Loops, FirstScan
  <2>2. joined.events \in Seq(Events)
    BY <1>1, RoundEventsAre
  <2>3. events \in Seq(Events)
    BY <1>1, <2>2, ConcatProperties
  <2> HIDE DEF events
  <2> QED
    BY <2>1, <2>3, TallyOfScheduled DEF OwnersOK, TypeOK
<1>4. RuntimesOK(consumers')
  <2>1. runtime \in Runtime
    BY DEF Runtime, Positions
  <2>2. consumers' = [k \in DOMAIN consumers \cup {c} |-> IF k = c THEN runtime ELSE consumers[k]]
    BY DEF ConsumerJoin
  <2> HIDE DEF runtime
  <2>3. DOMAIN consumers \in SUBSET Consumers /\ consumers \in [DOMAIN consumers -> Runtime]
    BY DEF OwnersOK, TypeOK, RuntimesOK
  <2> QED
    BY <2>1, <2>2, <2>3 DEF RuntimesOK
<1> QED
  BY <1>2, <1>3, <1>4 DEF ConsumerJoin, Command, Counted, OwnersOK, TypeOK, GroupOK

\* consumer-leave
LEMMA LeaveKeepsOwners ==
  ASSUME OwnersOK, NEW c \in Consumers, ConsumerLeave(c)
  PROVE  OwnersOK'
<1> DEFINE left == LeaveGroup(group, c)
<1>1. SameGroup(group, left) /\ RoundGoesOn(group, left)
  BY LeaveGroupIsOK DEF OwnersOK, TypeOK, GroupOK
<1> HIDE DEF left
<1>2. GroupOK(group') /\ group'.assignor = config.assignor
  BY <1>1 DEF ConsumerLeave, left, SameGroup, OwnersOK, TypeOK
<1>3. queue' \in Seq(Events)
  <2>1. queue' = Scheduled(queue, left.events) /\ left.events \in Seq(Events)
    BY <1>1, RoundEventsAre DEF ConsumerLeave, left
  <2> QED
    BY <2>1, TallyOfScheduled DEF OwnersOK, TypeOK
<1>4. RuntimesOK(consumers')
  BY DEF ConsumerLeave, OwnersOK, TypeOK, RuntimesOK, Restrict
<1> QED
  BY <1>2, <1>3, <1>4 DEF ConsumerLeave, Command, Counted, OwnersOK, TypeOK, GroupOK

\* commit, of the script and of the loop: neither the round nor the
\* assignments change.
LEMMA CommitIs ==
  ASSUME OwnersOK, NEW c \in DOMAIN consumers
  PROVE  LET h == CommitOffsets(group, c, consumers[c].position)
         IN /\ SameRound(group, h)
            /\ \A p \in TopicPartitions :
                 h.committedOffsets[p] \in {group.committedOffsets[p], consumers[c].position[p]}
<1>1. consumers[c].position \in Positions
  BY DEF OwnersOK, TypeOK, RuntimesOK, Runtime
<1> QED
  BY <1>1, CommitOffsetsIsOK DEF OwnersOK, TypeOK, GroupOK

\* The commands of the script that change one consumer, or a partition.
LEMMA ScriptKeepsOwners ==
  ASSUME OwnersOK, Script
  PROVE  OwnersOK'
<1>1. ASSUME NEW c \in Consumers, ManualCommit(c)
      PROVE  OwnersOK'
  <2>1. SameRound(group, group')
    BY <1>1, CommitIs DEF ManualCommit
  <2>2. queue' \in Seq(Events)
    BY <1>1, AutoCommitIs, TallyOfScheduled DEF ManualCommit, OwnersOK, TypeOK
  <2> QED
    BY <1>1, <2>1, <2>2 DEF ManualCommit, Request, Counted, OwnersOK, TypeOK, SameRound, GroupOK
<1>2. ASSUME NEW c \in Consumers, NEW duration \in Stalls, ConsumerStall(c, duration)
      PROVE  OwnersOK'
  <2>1. RuntimesOK(consumers')
    <3>1. consumers[c] \in Runtime /\ duration \in Nat
      BY <1>2, InputsAssumption DEF ConsumerStall, OwnersOK, TypeOK, RuntimesOK
    <3>2. [consumers[c] EXCEPT !.stalled = duration] \in Runtime
      BY <3>1 DEF Runtime
    <3> QED
      BY <1>2, <3>2, RuntimesChange DEF ConsumerStall, OwnersOK, TypeOK
  <2> QED
    BY <1>2, <2>1 DEF ConsumerStall, Command, Counted, OwnersOK, TypeOK
<1>3. ASSUME NEW c \in Consumers, NEW p \in TopicPartitions, Pause(c, p)
      PROVE  OwnersOK'
  <2>1. RuntimesOK(consumers')
    <3>1. consumers[c] \in Runtime
      BY <1>3 DEF Pause, OwnersOK, TypeOK, RuntimesOK
    <3>2. [consumers[c] EXCEPT !.paused = @ \cup {p}] \in Runtime
      BY <3>1 DEF Runtime
    <3> QED
      BY <1>3, <3>2, RuntimesChange DEF Pause, OwnersOK, TypeOK
  <2> QED
    BY <1>3, <2>1 DEF Pause, Request, Counted, OwnersOK, TypeOK
<1>4. ASSUME NEW c \in Consumers, NEW p \in TopicPartitions, Resume(c, p)
      PROVE  OwnersOK'
  <2>1. RuntimesOK(consumers')
    <3>1. consumers[c] \in Runtime
      BY <1>4 DEF Resume, OwnersOK, TypeOK, RuntimesOK
    <3>2. [consumers[c] EXCEPT !.paused = @ \ {p}] \in Runtime
      BY <3>1 DEF Runtime
    <3> QED
      BY <1>4, <3>2, RuntimesChange DEF Resume, OwnersOK, TypeOK
  <2> QED
    BY <1>4, <2>1 DEF Resume, OwnersOK, TypeOK
<1>5. ASSUME NEW c \in Consumers, NEW p \in TopicPartitions, NEW target \in SeekTargets,
             Seek(c, p, target)
      PROVE  OwnersOK'
  <2>1. SeekOffset(p, target) \in Nat
    <3>1. partitions[p].logStartOffset \in Nat /\ partitions[p].highWatermark \in Nat
      BY DEF OwnersOK, TypeOK, Partition
    <3>2. target \in {"earliest", "latest"} \/ target \in Nat
      BY InputsAssumption DEF Resets
    <3> QED
      BY <3>1, <3>2 DEF SeekOffset
  <2>2. RuntimesOK(consumers')
    <3>1. consumers[c] \in Runtime
      BY <1>5 DEF Seek, OwnersOK, TypeOK, RuntimesOK
    <3>2. [consumers[c] EXCEPT !.position[p] = SeekOffset(p, target)] \in Runtime
      BY <2>1, <3>1 DEF Runtime, Positions
    <3> QED
      BY <1>5, <3>2, RuntimesChange DEF Seek, OwnersOK, TypeOK
  <2> QED
    BY <1>5, <2>2 DEF Seek, Request, Counted, OwnersOK, TypeOK
<1>6. ASSUME NEW p \in TopicPartitions, RecordAppended(p)
      PROVE  OwnersOK'
  <2>1. partitions' \in [TopicPartitions -> Partition]
    <3>1. partitions[p] \in Partition /\ partitions \in [TopicPartitions -> Partition]
      BY DEF OwnersOK, TypeOK
    <3>2. [partitions[p] EXCEPT !.highWatermark = @ + 1] \in Partition
      BY <3>1 DEF Partition
    <3> QED
      BY <1>6, <3>1, <3>2 DEF RecordAppended
  <2> QED
    BY <1>6, <2>1 DEF RecordAppended, OwnersOK, TypeOK
<1>7. ASSUME NEW p \in TopicPartitions, NEW offset \in Offsets, RetentionDelete(p, offset)
      PROVE  OwnersOK'
  <2>1. offset \in Nat
    BY InputsAssumption DEF Offsets
  <2> QED
    BY <1>7, <2>1 DEF RetentionDelete, Request, Counted, OwnersOK, TypeOK, Partition
<1> QED
  BY <1>1, <1>2, <1>3, <1>4, <1>5, <1>6, <1>7, JoinKeepsOwners, LeaveKeepsOwners DEF Script

\* The first event of the queue, and the others.
LEMMA FirstEvent ==
  ASSUME OwnersOK, queue # <<>>
  PROVE  /\ queue[1] \in Events /\ Tail(queue) \in Seq(Events)
         /\ queue[1].generation \in Nat
         /\ \A T : Tally(queue, T) = Tally(<<queue[1]>>, T) + Tally(Tail(queue), T)
<1>1. queue \in Seq(Events)
  BY DEF OwnersOK, TypeOK
<1>2. /\ queue[1] \in Events /\ Tail(queue) \in Seq(Events)
      /\ \A T : Tally(queue, T) = Tally(<<queue[1]>>, T) + Tally(Tail(queue), T)
  BY <1>1, TallyOfTail
<1> QED
  BY <1>2 DEF Events

\* Consumers that are known are consumers.
LEMMA KnownAre ==
  ASSUME OwnersOK
  PROVE  DOMAIN consumers \subseteq Consumers
BY DEF OwnersOK, TypeOK, RuntimesOK

\* fetch-request
LEMMA FetchKeepsOwners ==
  ASSUME OwnersOK, FetchRequest
  PROVE  OwnersOK'
<1> DEFINE c == queue[1].consumer
           poll == FetchRecords(c)
<1>1. queue' \in Seq(Events)
  <2>1. queue' = Scheduled(Tail(queue), PollAgain(c)) /\ Tail(queue) \in Seq(Events)
    BY FirstEvent DEF FetchRequest, Due
  <2>2. PollAgain(c) \in Seq(Events)
    <3>1. CASE c \in DOMAIN consumers
      <4>1. Poll(c, PollInterval) \in Events
        BY <3>1, KnownAre, EventsAre, IntervalsAssumption
      <4> QED
        BY <3>1, <4>1 DEF PollAgain
    <3>2. CASE c \notin DOMAIN consumers
      BY <3>2 DEF PollAgain
    <3> QED
      BY <3>1, <3>2
  <2> HIDE DEF c
  <2> QED
    BY <2>1, <2>2, TallyOfScheduled
<1>2. CASE ~(c \in DOMAIN consumers /\ consumers[c].stalled = 0)
  BY <1>1, <1>2 DEF FetchRequest, OwnersOK, TypeOK
<1>3. CASE c \in DOMAIN consumers /\ consumers[c].stalled = 0
  <2> DEFINE left == [p \in TopicPartitions |-> IF p \in Fetchable(c) THEN poll.position[p]
                                                ELSE consumers[c].position[p]]
  <2>1. /\ consumers' = [consumers EXCEPT ![c].position = left]
        /\ handedOut' = [p \in TopicPartitions |->
                           handedOut[p] \cup (IF p \in Fetchable(c) THEN poll.read[p] ELSE {})]
        /\ group' = IF c \in MemberIds(group) THEN [group EXCEPT !.members[c].pollAge = 0]
                                              ELSE group
        /\ UNCHANGED <<config, partitions, commands, requests>>
    BY <1>3 DEF FetchRequest
  <2>2. ASSUME NEW p \in Fetchable(c)
        PROVE  poll.position[p] \in Nat /\ poll.read[p] \in SUBSET Nat
    BY <1>3, FetchRecordsAre
  <2> HIDE DEF poll
  <2>3. consumers[c] \in Runtime
    BY <1>3 DEF OwnersOK, TypeOK, RuntimesOK
  <2>4. left \in Positions
    BY <2>2, <2>3 DEF Runtime, Positions
  <2>5. RuntimesOK(consumers')
    <3> HIDE DEF left
    <3>1. [consumers[c] EXCEPT !.position = left] \in Runtime
      BY <2>3, <2>4 DEF Runtime
    <3> QED
      BY <1>3, <2>1, <3>1, RuntimesChange DEF OwnersOK, TypeOK
  <2>6. handedOut' \in [TopicPartitions -> SUBSET Nat]
    BY <2>1, <2>2 DEF OwnersOK, TypeOK
  <2>7. GroupOK(group') /\ group'.assignor = group.assignor
    BY <2>1, PollIsOK DEF OwnersOK, TypeOK, GroupOK, SameRound, MemberIds
  <2> QED
    BY <1>1, <2>1, <2>5, <2>6, <2>7 DEF OwnersOK, TypeOK, GroupOK
<1> QED
  BY <1>2, <1>3

\* heartbeat, commit, rebalance-complete, sync-group and member-timeout
LEMMA CoordinatorKeepsOwners ==
  ASSUME OwnersOK,
         HeartbeatEvent \/ CommitEvent \/ RebalanceComplete \/ SyncGroupEvent \/ MemberTimeout
  PROVE  OwnersOK'
<1> DEFINE c == queue[1].consumer
           n == queue[1].generation
<1>1. /\ GroupOK(group) /\ queue # <<>> /\ Tail(queue) \in Seq(Events) /\ n \in Nat
      /\ UNCHANGED <<config, consumers, partitions, handedOut, commands, requests>>
  BY FirstEvent DEF OwnersOK, TypeOK, GroupOK, Due, HeartbeatEvent, CommitEvent,
                    RebalanceComplete, SyncGroupEvent, MemberTimeout
<1>2. SUFFICES /\ GroupOK(group') /\ group'.assignor = group.assignor
               /\ queue' \in Seq(Events)
  BY <1>1 DEF OwnersOK, TypeOK, GroupOK
<1>3. CASE HeartbeatEvent
  <2> DEFINE again == IF c \in DOMAIN consumers THEN <<NextHeartbeat(c, group.generationId)>>
                                                ELSE <<>>
  <2>1. group' = Heartbeat(group, c, n) /\ queue' = Scheduled(Tail(queue), again)
    BY <1>3 DEF HeartbeatEvent
  <2>2. again \in Seq(Events)
    <3>1. CASE c \in DOMAIN consumers
      <4>1. NextHeartbeat(c, group.generationId) \in Events
        BY <1>1, <3>1, KnownAre, EventsAre DEF GroupOK, GroupState
      <4> QED
        BY <3>1, <4>1
    <3>2. CASE c \notin DOMAIN consumers
      BY <3>2
    <3> QED
      BY <3>1, <3>2
  <2>3. queue' \in Seq(Events)
    <3> HIDE DEF again
    <3> QED
      BY <1>1, <2>1, <2>2, TallyOfScheduled
  <2>4. SameRound(group, group')
    <3> HIDE DEF c, n
    <3> QED
      BY <1>1, <2>1, HeartbeatIsOK
  <2> QED
    BY <2>3, <2>4 DEF SameRound
<1>4. CASE CommitEvent
  <2>1. CASE c \in DOMAIN consumers
    <3>1. /\ group' = CommitOffsets(group, c, consumers[c].position)
          /\ queue' = Scheduled(Tail(queue), AutoCommit(c))
      BY <1>4, <2>1 DEF CommitEvent
    <3>2. AutoCommit(c) \in Seq(Events)
      BY <2>1, KnownAre, AutoCommitIs
    <3> HIDE DEF c
    <3> QED
      BY <1>1, <2>1, <3>1, <3>2, CommitIs, TallyOfScheduled DEF SameRound
  <2>2. CASE c \notin DOMAIN consumers
    BY <1>1, <1>4, <2>2 DEF CommitEvent
  <2> QED
    BY <2>1, <2>2
<1>5. CASE RebalanceComplete
  <2> DEFINE r == CompleteRebalance(group, n)
  <2>1. group' = r.group /\ queue' = Scheduled(Tail(queue), r.events)
    BY <1>5 DEF RebalanceComplete
  <2>2. SameGroup(group, r) /\ r.events \in Seq(Events)
    <3>1. CASE group.state = "PreparingRebalance" /\ group.generationId = n
      <4>1. SameGroup(group, r) /\ r.events = <<Event("sync-group", 0, None, n)>>
        BY <1>1, <3>1, CompleteRebalanceIsOK
      <4>2. Event("sync-group", 0, None, n) \in Events
        BY <1>1, EventsAre
      <4> QED
        BY <4>1, <4>2
    <3>2. CASE ~(group.state = "PreparingRebalance" /\ group.generationId = n)
      <4>1. r = Result(group, <<>>)
        BY <3>2 DEF CompleteRebalance
      <4> QED
        BY <1>1, <4>1, NothingHappens DEF Result
    <3> QED
      BY <3>1, <3>2
  <2> HIDE DEF r
  <2> QED
    BY <1>1, <2>1, <2>2, TallyOfScheduled DEF SameGroup
<1>6. CASE SyncGroupEvent
  <2>1. group' = SyncGroup(group, n) /\ queue' = Tail(queue)
    BY <1>6 DEF SyncGroupEvent
  <2>2. CASE group.state = "CompletingRebalance" /\ group.generationId = n
    BY <1>1, <2>1, <2>2, SyncGroupIsOK
  <2>3. CASE ~(group.state = "CompletingRebalance" /\ group.generationId = n)
    BY <1>1, <2>1, <2>3 DEF SyncGroup
  <2> QED
    BY <2>2, <2>3
<1>7. CASE MemberTimeout
  <2> DEFINE checked == CheckTimeouts(group)
             again == IF MemberIds(checked.group) = {} THEN <<>> ELSE <<Scan>>
  <2>1. group' = checked.group /\ queue' = Scheduled(Tail(queue), checked.events \o again)
    BY <1>7 DEF MemberTimeout
  <2>2. SameGroup(group, checked) /\ RoundGoesOn(group, checked)
    BY <1>1, CheckTimeoutsIsOK
  <2> HIDE DEF checked
  <2>3. checked.events \in Seq(Events)
    BY <2>2, RoundEventsAre
  <2>4. again \in Seq(Events)
    BY EventsAre
  <2> HIDE DEF again
  <2>5. checked.events \o again \in Seq(Events)
    BY <2>3, <2>4, ConcatProperties
  <2> QED
    BY <1>1, <2>1, <2>2, <2>5, TallyOfScheduled DEF SameGroup
<1> QED
  BY <1>3, <1>4, <1>5, <1>6, <1>7

\* What time does to an event.
Nearer(e) == [e EXCEPT !.delay = @ - 1]

\* The clock makes members older, stalls shorter and events nearer.
LEMMA TickKeepsOwners ==
  ASSUME OwnersOK, Tick
  PROVE  /\ OwnersOK' /\ SameRound(group, group')
         /\ group'.committedOffsets = group.committedOffsets
         /\ queue' = [i \in DOMAIN queue |-> Nearer(queue[i])]
         /\ DOMAIN consumers' = DOMAIN consumers
<1> DEFINE old == group.members
           ms == [m \in MemberIds(group) |-> Aged(old[m])]
<1>1. group' = [group EXCEPT !.members = ms]
  BY DEF Tick
<1>2. \A age, timeout \in Nat : Older(age, timeout) \in Nat
  BY DEF Older, Lesser
<1>3. old \in [DOMAIN old -> Member]
  BY MemberSetsAre DEF OwnersOK, TypeOK, GroupState
<1>4. ASSUME NEW m \in DOMAIN old
      PROVE  ms[m] \in Member /\ ms[m].assignment = old[m].assignment
  <2>1. old[m] \in Member
    BY <1>3
  <2>2. Older(old[m].heartbeatAge, SessionTimeout) \in Nat /\ Older(old[m].pollAge, MaxPollInterval) \in Nat
    BY <1>2, <2>1, TimeoutsAssumption DEF Member
  <2> QED
    BY <2>1, <2>2 DEF Member, MemberIds, Aged
<1>5. ms \in [DOMAIN old -> Member] /\ \A m \in DOMAIN old : ms[m].assignment = old[m].assignment
  BY <1>4 DEF MemberIds
<1> HIDE DEF ms
<1>6. SameRound(group, group') /\ group'.committedOffsets = group.committedOffsets
  BY <1>1, <1>5, AgesChange DEF OwnersOK, TypeOK, GroupOK
<1>7. queue' = [i \in DOMAIN queue |-> Nearer(queue[i])]
  BY DEF Tick, Nearer
<1>8. queue' \in Seq(Events)
  <2>1. \A e \in Events : Nearer(e) \in Events
    BY DEF Nearer, Events
  <2>2. queue \in Seq(Events) /\ DOMAIN queue = 1 .. Len(queue) /\ Len(queue) \in Nat
    BY DEF OwnersOK, TypeOK
  <2>3. queue' \in [1 .. Len(queue) -> Events]
    BY <1>7, <2>1, <2>2
  <2> QED
    BY <2>2, <2>3, SeqDef
<1>9. RuntimesOK(consumers') /\ DOMAIN consumers' = DOMAIN consumers
  <2> DEFINE waited(c) == [consumers[c] EXCEPT !.stalled = IF @ = 0 THEN 0 ELSE @ - 1]
  <2>1. consumers' = [c \in DOMAIN consumers |-> waited(c)]
    BY DEF Tick
  <2>2. ASSUME NEW c \in DOMAIN consumers
        PROVE  waited(c) \in Runtime
    <3>1. consumers[c] \in Runtime
      BY DEF OwnersOK, TypeOK, RuntimesOK
    <3> QED
      BY <3>1 DEF Runtime
  <2> HIDE DEF waited
  <2> QED
    BY <2>1, <2>2, KnownAre DEF RuntimesOK
<1> QED
  BY <1>6, <1>7, <1>8, <1>9 DEF Tick, OwnersOK, TypeOK, SameRound, GroupOK

\* Every step keeps the types, and the owners of every partition apart.
LEMMA OwnersStep ==
  ASSUME OwnersOK, [Next]_vars
  PROVE  OwnersOK'
<1>1. CASE Script
  BY <1>1, ScriptKeepsOwners
<1>2. CASE Kernel
  BY <1>2, FetchKeepsOwners, CoordinatorKeepsOwners, TickKeepsOwners DEF Kernel
<1>3. CASE UNCHANGED vars
  BY <1>3 DEF vars, OwnersOK, TypeOK
<1> QED
  BY <1>1, <1>2, <1>3 DEF Next

\* Every variable keeps its type, in every state that the reducers of the
\* group can reach.
THEOREM GroupTypeCorrect == Spec => []OwnersOK
BY OwnersInit, OwnersStep, PTL DEF Spec

\* Assignments that are apart give a partition one owner at most.
LEMMA ApartIsOwnedByOne ==
  ASSUME OwnersOK
  PROVE  OwnedByOne
<1> SUFFICES ASSUME NEW p \in TopicPartitions
             PROVE  Cardinality(Owners(p)) <= 1
  BY DEF OwnedByOne
<1>1. \A m, k \in Owners(p) : m = k
  BY DEF Owners, OwnersOK, MembersApart, MemberIds
<1>2. CASE Owners(p) = {}
  BY <1>2, FS_EmptySet
<1>3. ASSUME NEW m \in Owners(p)
      PROVE  Cardinality(Owners(p)) <= 1
  <2>1. Owners(p) = {m}
    BY <1>1
  <2>2. Cardinality({m}) = 1
    BY FS_Singleton
  <2> HIDE DEF Owners
  <2> QED
    BY <2>1, <2>2
<1> QED
  BY <1>2, <1>3

\* No partition is ever read by two members of the group, whatever the
\* assignor, the subscriptions and the order of joins, leaves, timeouts and
\* rounds: what completeRebalance and syncGroup hand out never overlaps.
THEOREM NeverOwnedByTwo == Spec => []OwnedByOne
BY GroupTypeCorrect, ApartIsOwnedByOne, PTL

-----------------------------------------------------------------------------
(* The rounds are ended, and the loops go on *)

RoundTypes == {"rebalance-complete", "sync-group"}

\* The events that end a round of generation n.
RoundEvents(type, n) == {e \in Events : e.type = type /\ e.generation = n}

\* The events of a loop of c.
LoopEvents(type, c) == {e \in Events : e.type = type /\ e.consumer = c}

\* How many events of the queue end a round of generation n.
Ends(q, type, n) == Tally(q, RoundEvents(type, n))

\* No generation has an event before it is started; the round that is open has
\* one event for its end, and the second half of it is not scheduled before
\* the first is over.
RoundsOK(g, q) ==
  /\ \A type \in RoundTypes, n \in Nat : n > g.generationId => Ends(q, type, n) = 0
  /\ g.state = "PreparingRebalance" =>
       /\ Ends(q, "rebalance-complete", g.generationId) = 1
       /\ Ends(q, "sync-group", g.generationId) = 0
  /\ g.state = "CompletingRebalance" => Ends(q, "sync-group", g.generationId) = 1

\* The events of the queue plus some more.
EndsAdd(q, events, r) ==
  \A type \in RoundTypes, n \in Nat : Ends(r, type, n) = Ends(q, type, n) + Ends(events, type, n)

\* One event that ends a round counts for its own type and generation only.
LEMMA EndsOfOne ==
  ASSUME NEW e \in Events, NEW type, NEW n
  PROVE  Ends(<<e>>, type, n) = IF e.type = type /\ e.generation = n THEN 1 ELSE 0
<1>1. e \in RoundEvents(type, n) <=> e.type = type /\ e.generation = n
  BY DEF RoundEvents
<1>2. Tally(<<e>>, RoundEvents(type, n)) = IF e \in RoundEvents(type, n) THEN 1 ELSE 0
  BY TallyOfOne
<1> QED
  BY <1>1, <1>2 DEF Ends

\* A round that is opened gets its event; one that goes on keeps what it has.
LEMMA RoundsGoOn ==
  ASSUME NEW g, GroupOK(g), NEW r, SameGroup(g, r), RoundGoesOn(g, r),
         NEW q, NEW q2, RoundsOK(g, q), EndsAdd(q, r.events, q2)
  PROVE  RoundsOK(r.group, q2)
<1>1. g.generationId \in Nat /\ g.generationId + 1 \in Nat
  BY DEF GroupOK, GroupState
<1>2. CASE /\ r.group.state \in {g.state, "Empty"}
           /\ r.group.generationId = g.generationId
           /\ r.events = <<>>
  <2>1. \A type \in RoundTypes, n \in Nat : Ends(r.events, type, n) = 0
    BY <1>2, TallyOfNone DEF Ends
  <2>2. ASSUME NEW type \in RoundTypes, NEW n \in Nat, Ends(q, type, n) \in Nat
        PROVE  Ends(q2, type, n) = Ends(q, type, n)
    BY <2>1, <2>2 DEF EndsAdd
  <2> QED
    BY <1>1, <1>2, <2>2 DEF RoundsOK, RoundTypes
<1>3. ASSUME r.group.state = "PreparingRebalance",
             r.group.generationId = g.generationId + 1,
             NEW timeout \in Nat,
             r.events = <<Event("rebalance-complete", timeout, None, r.group.generationId)>>
      PROVE  RoundsOK(r.group, q2)
  <2> DEFINE m == g.generationId + 1
             e == Event("rebalance-complete", timeout, None, m)
  <2>1. e \in Events /\ e.type = "rebalance-complete" /\ e.generation = m
    BY <1>1, EventsAre DEF Event
  <2> HIDE DEF e
  <2>2. \A type \in RoundTypes, n \in Nat :
          Ends(r.events, type, n) = IF type = "rebalance-complete" /\ n = m THEN 1 ELSE 0
    BY <1>3, <2>1, EndsOfOne DEF e
  <2>3. \A type \in RoundTypes, n \in Nat : n >= m => Ends(q, type, n) = 0
    BY <1>1 DEF RoundsOK
  <2>4. \A type \in RoundTypes, n \in Nat :
          n >= m => Ends(q2, type, n) = IF type = "rebalance-complete" /\ n = m THEN 1 ELSE 0
    BY <2>2, <2>3 DEF EndsAdd
  <2> QED
    BY <1>1, <1>3, <2>4 DEF RoundsOK, RoundTypes
<1> QED
  BY <1>2, <1>3 DEF RoundGoesOn

\* What leaves the round alone leaves it its event.
LEMMA RoundsStay ==
  ASSUME NEW g, GroupOK(g), NEW h, h.state = g.state, h.generationId = g.generationId,
         NEW q, NEW q2, RoundsOK(g, q),
         \A type \in RoundTypes, n \in Nat : Ends(q2, type, n) = Ends(q, type, n)
  PROVE  RoundsOK(h, q2)
<1>1. g.generationId \in Nat
  BY DEF GroupOK, GroupState
<1> QED
  BY <1>1 DEF RoundsOK, RoundTypes

\* An event that ends no round, and one that comes too late, are not missed.
LEMMA RoundsOutlive ==
  ASSUME NEW g, GroupOK(g), NEW q, NEW q2, RoundsOK(g, q), NEW e \in Events,
         EndsAdd(q2, <<e>>, q),
         \A type \in RoundTypes, n \in Nat : Ends(q2, type, n) \in Nat,
         ~(e.type = "rebalance-complete" /\ g.state = "PreparingRebalance" /\ e.generation = g.generationId),
         ~(e.type = "sync-group" /\ g.state = "CompletingRebalance" /\ e.generation = g.generationId)
  PROVE  RoundsOK(g, q2)
<1>1. g.generationId \in Nat
  BY DEF GroupOK, GroupState
<1>2. \A type \in RoundTypes, n \in Nat :
        Ends(q, type, n) = Ends(q2, type, n) + (IF e.type = type /\ e.generation = n THEN 1 ELSE 0)
  BY EndsOfOne DEF EndsAdd
<1>3. \A type \in RoundTypes, n \in Nat : Ends(q, type, n) = 0 => Ends(q2, type, n) = 0
  BY <1>2
<1>4. \A type \in RoundTypes, n \in Nat :
        ~(e.type = type /\ e.generation = n) => Ends(q2, type, n) = Ends(q, type, n)
  BY <1>2
<1> QED
  BY <1>1, <1>3, <1>4 DEF RoundsOK, RoundTypes

\* Nothing here ends a round.
NoEnds(events) == \A type \in RoundTypes, n \in Nat : Ends(events, type, n) = 0

\* Sequences of other events end nothing.
LEMMA NoEndsOf ==
  /\ NoEnds(<<>>)
  /\ \A e \in Events : e.type \notin RoundTypes => NoEnds(<<e>>)
  /\ \A s, t \in Seq(Events) : NoEnds(s) /\ NoEnds(t) => NoEnds(s \o t)
<1>1. NoEnds(<<>>)
  BY TallyOfNone DEF NoEnds, Ends
<1>2. \A e \in Events : e.type \notin RoundTypes => NoEnds(<<e>>)
  BY EndsOfOne DEF NoEnds
<1>3. ASSUME NEW s \in Seq(Events), NEW t \in Seq(Events), NoEnds(s), NoEnds(t)
      PROVE  NoEnds(s \o t)
  BY <1>3, TallyOfBoth DEF NoEnds, Ends
<1> QED
  BY <1>1, <1>2, <1>3

\* The loops that reducers schedule end no round.
LEMMA LoopsEndNothing ==
  /\ \A c \in Consumers, delay \in Nat : NoEnds(<<Poll(c, delay)>>)
  /\ \A c \in Consumers, n \in Nat : NoEnds(<<NextHeartbeat(c, n)>>)
  /\ \A c \in Consumers : NoEnds(AutoCommit(c))
  /\ NoEnds(<<Scan>>) /\ NoEnds(<<>>)
<1>1. /\ \A c \in Consumers, delay \in Nat : Poll(c, delay).type \notin RoundTypes
      /\ \A c \in Consumers, n \in Nat : NextHeartbeat(c, n).type \notin RoundTypes
      /\ Scan.type \notin RoundTypes
      /\ \A c \in Consumers : Event("commit", AutoCommitInterval, c, 0).type \notin RoundTypes
  BY DEF Poll, NextHeartbeat, Scan, Event, RoundTypes
<1>2. /\ \A c \in Consumers, delay \in Nat : NoEnds(<<Poll(c, delay)>>)
      /\ \A c \in Consumers, n \in Nat : NoEnds(<<NextHeartbeat(c, n)>>)
      /\ \A c \in Consumers : NoEnds(<<Event("commit", AutoCommitInterval, c, 0)>>)
      /\ NoEnds(<<Scan>>) /\ NoEnds(<<>>)
  BY <1>1, EventsAre, NoEndsOf
<1>3. \A c \in Consumers : NoEnds(AutoCommit(c))
  BY <1>2 DEF AutoCommit
<1> QED
  BY <1>2, <1>3

\* A sequence of two.
LEMMA PairIs ==
  ASSUME NEW x, NEW y
  PROVE  <<x>> \o <<y>> = <<x, y>>
<1>1. <<x>> \in Seq({x, y}) /\ <<y>> \in Seq({x, y}) /\ <<x, y>> \in Seq({x, y})
  OBVIOUS
<1>2. Len(<<x>>) = 1 /\ Len(<<y>>) = 1 /\ Len(<<x, y>>) = 2
  OBVIOUS
<1> DEFINE both == <<x>> \o <<y>>
<1>3. both \in Seq({x, y}) /\ Len(both) = 2 /\ both[1] = x /\ both[2] = y
  BY <1>1, <1>2, ConcatProperties
<1> DEFINE two == <<x, y>>
<1>4. two \in Seq({x, y}) /\ Len(two) = 2 /\ two[1] = x /\ two[2] = y
  BY <1>1
<1> HIDE DEF both, two
<1>5. \A i \in 1 .. Len(both) : both[i] = two[i]
  BY <1>3, <1>4
<1>6. both = two
  BY <1>3, <1>4, <1>5, SeqEqual
<1> QED
  BY <1>6 DEF both, two

\* Scheduled events count.
LEMMA EndsOfScheduled ==
  ASSUME NEW q \in Seq(Events), NEW events \in Seq(Events)
  PROVE  EndsAdd(q, events, Scheduled(q, events))
BY TallyOfScheduled DEF EndsAdd, Ends

\* They count the same with loops that are scheduled with them.
LEMMA EndsOfOthers ==
  ASSUME NEW q \in Seq(Events), NEW events \in Seq(Events), NEW others \in Seq(Events),
         NoEnds(others)
  PROVE  EndsAdd(q, events, Scheduled(q, events \o others))
<1>1. events \o others \in Seq(Events)
  BY ConcatProperties
<1>2. ASSUME NEW type \in RoundTypes, NEW n \in Nat
      PROVE  Ends(events \o others, type, n) = Ends(events, type, n)
  <2>1. Ends(events, type, n) \in Nat /\ Ends(others, type, n) = 0
    BY TallyIsNat DEF Ends, NoEnds
  <2>2. Ends(events \o others, type, n) = Ends(events, type, n) + Ends(others, type, n)
    BY TallyOfBoth DEF Ends
  <2> QED
    BY <2>1, <2>2
<1>3. EndsAdd(q, events \o others, Scheduled(q, events \o others))
  BY <1>1, EndsOfScheduled
<1> QED
  BY <1>2, <1>3 DEF EndsAdd

\* Loops alone change nothing.
LEMMA EndsOfLoops ==
  ASSUME NEW q \in Seq(Events), NEW others \in Seq(Events), NoEnds(others)
  PROVE  \A type \in RoundTypes, n \in Nat :
           Ends(Scheduled(q, others), type, n) = Ends(q, type, n)
<1>1. ASSUME NEW type \in RoundTypes, NEW n \in Nat
      PROVE  Ends(Scheduled(q, others), type, n) = Ends(q, type, n)
  <2>1. Ends(Scheduled(q, others), type, n) = Ends(q, type, n) + Ends(others, type, n)
    BY TallyOfScheduled DEF Ends
  <2>2. Ends(q, type, n) \in Nat /\ Ends(others, type, n) = 0
    BY TallyIsNat DEF Ends, NoEnds
  <2> QED
    BY <2>1, <2>2
<1> QED
  BY <1>1

\* Time changes no tally of events that are told apart by something else.
LEMMA TallyOfNearer ==
  ASSUME NEW q, NEW T, \A i \in DOMAIN q : Nearer(q[i]) \in T <=> q[i] \in T
  PROVE  Tally([i \in DOMAIN q |-> Nearer(q[i])], T) = Tally(q, T)
<1> DEFINE r == [i \in DOMAIN q |-> Nearer(q[i])]
<1>1. Places(r, T) = Places(q, T)
  BY DEF Places
<1> QED
  BY <1>1 DEF Tally

\* The start of a behaviour: there is no group yet.
LEMMA RoundsInit ==
  ASSUME Init
  PROVE  RoundsOK(group, queue)
BY NoEndsOf DEF Init, NoGroup, RoundsOK, NoEnds

\* The script opens rounds and schedules what ends them.
LEMMA ScriptKeepsRounds ==
  ASSUME OwnersOK, RoundsOK(group, queue), Script
  PROVE  RoundsOK(group', queue')
<1>1. GroupOK(group) /\ queue \in Seq(Events)
  BY DEF OwnersOK, TypeOK, GroupOK
<1>2. ASSUME NEW c \in Consumers, ConsumerJoin(c)
      PROVE  RoundsOK(group', queue')
  <2> DEFINE joined == JoinGroup(group, c)
             n == joined.group.generationId
  <2>1. /\ SameGroup(group, joined) /\ RoundGoesOn(group, joined)
        /\ Loops(c) \in Seq(Events) /\ FirstScan \in Seq(Events)
    BY <1>2, LoopsAre DEF ConsumerJoin
  <2>2. joined.events \in Seq(Events) /\ n \in Nat
    BY <2>1, RoundEventsAre DEF SameGroup, GroupOK, GroupState
  <2>3. NoEnds(Loops(c) \o FirstScan)
    <3>1. /\ <<Poll(c, 0)>> \in Seq(Events) /\ <<NextHeartbeat(c, n)>> \in Seq(Events)
          /\ NoEnds(<<Poll(c, 0)>>) /\ NoEnds(<<NextHeartbeat(c, n)>>)
      <4> HIDE DEF n
      <4> QED
        BY <2>2, EventsAre, LoopsEndNothing
    <3>2. NoEnds(<<Poll(c, 0)>> \o <<NextHeartbeat(c, n)>>)
      BY <3>1, NoEndsOf
    <3>3. <<Poll(c, 0)>> \o <<NextHeartbeat(c, n)>> = <<Poll(c, 0), NextHeartbeat(c, n)>>
      BY PairIs
    <3>4. /\ <<Poll(c, 0), NextHeartbeat(c, n)>> \in Seq(Events)
          /\ NoEnds(<<Poll(c, 0), NextHeartbeat(c, n)>>)
      BY <3>1, <3>2, <3>3, ConcatProperties
    <3>5. NoEnds(AutoCommit(c)) /\ AutoCommit(c) \in Seq(Events)
      BY AutoCommitIs, LoopsEndNothing
    <3>6. NoEnds(Loops(c))
      BY <3>4, <3>5, NoEndsOf DEF Loops
    <3>7. NoEnds(FirstScan)
      BY LoopsEndNothing DEF FirstScan
    <3> QED
      BY <2>1, <3>6, <3>7, NoEndsOf
  <2>4. /\ group' = joined.group
        /\ queue' = Scheduled(queue, joined.events \o (Loops(c) \o FirstScan))
    <3>1. /\ group' = joined.group
          /\ queue' = Scheduled(queue, joined.events \o Loops(c) \o FirstScan)
      BY <1>2 DEF ConsumerJoin, Loops, FirstScan
    <3>2. joined.events \o Loops(c) \o FirstScan = joined.events \o (Loops(c) \o FirstScan)
      <4> DEFINE first == joined.events
      <4>1. first \in Seq(Events) /\ Loops(c) \in Seq(Events) /\ FirstScan \in Seq(Events)
        BY <2>1, <2>2
      <4> HIDE DEF first
      <4>2. (first \o Loops(c)) \o FirstScan = first \o (Loops(c) \o FirstScan)
        BY <4>1, ConcatAssociative
      <4> QED
        BY <4>2 DEF first
    <3> QED
      BY <3>1, <3>2
  <2>5. Loops(c) \o FirstScan \in Seq(Events)
    BY <2>1, ConcatProperties
  <2> HIDE DEF joined
  <2>6. EndsAdd(queue, joined.events, queue')
    BY <1>1, <2>2, <2>3, <2>4, <2>5, EndsOfOthers
  <2> QED
    BY <1>1, <2>1, <2>4, <2>6, RoundsGoOn
<1>3. ASSUME NEW c \in Consumers, ConsumerLeave(c)
      PROVE  RoundsOK(group', queue')
  <2> DEFINE left == LeaveGroup(group, c)
  <2>1. SameGroup(group, left) /\ RoundGoesOn(group, left)
    BY <1>1, LeaveGroupIsOK
  <2>2. group' = left.group /\ queue' = Scheduled(queue, left.events)
    BY <1>3 DEF ConsumerLeave
  <2> HIDE DEF left
  <2>3. left.events \in Seq(Events)
    BY <2>1, RoundEventsAre
  <2>4. EndsAdd(queue, left.events, queue')
    BY <1>1, <2>2, <2>3, EndsOfScheduled
  <2> QED
    BY <1>1, <2>1, <2>2, <2>4, RoundsGoOn
<1>4. ASSUME NEW c \in Consumers, ManualCommit(c)
      PROVE  RoundsOK(group', queue')
  <2>1. SameRound(group, group') /\ queue' = Scheduled(queue, AutoCommit(c))
    BY <1>4, CommitIs DEF ManualCommit
  <2>2. \A type \in RoundTypes, n \in Nat : Ends(queue', type, n) = Ends(queue, type, n)
    BY <1>1, <2>1, AutoCommitIs, LoopsEndNothing, EndsOfLoops
  <2> QED
    BY <1>1, <2>1, <2>2, RoundsStay DEF SameRound
<1>5. CASE UNCHANGED <<group, queue>>
  BY <1>5
<1> QED
  BY <1>2, <1>3, <1>4, <1>5
     DEF Script, ConsumerStall, Pause, Resume, Seek, RecordAppended, RetentionDelete

\* What is left of the queue when its first event is taken.
LEMMA EndsOfFirst ==
  ASSUME OwnersOK, queue # <<>>
  PROVE  /\ EndsAdd(Tail(queue), <<queue[1]>>, queue)
         /\ \A type \in RoundTypes, n \in Nat :
              /\ Ends(Tail(queue), type, n) \in Nat
              /\ Ends(<<queue[1]>>, type, n) =
                   IF queue[1].type = type /\ queue[1].generation = n THEN 1 ELSE 0
<1>1. /\ queue[1] \in Events /\ Tail(queue) \in Seq(Events)
      /\ \A T : Tally(queue, T) = Tally(<<queue[1]>>, T) + Tally(Tail(queue), T)
  BY FirstEvent
<1> DEFINE e == queue[1]
           rest == Tail(queue)
<1> HIDE DEF e, rest
<1>2. /\ \A type, n : Ends(rest, type, n) \in Nat
      /\ \A type, n : Ends(<<e>>, type, n) = IF e.type = type /\ e.generation = n THEN 1 ELSE 0
  BY <1>1, TallyIsNat, EndsOfOne DEF Ends, e, rest
<1>3. \A type, n : Ends(queue, type, n) = Ends(<<e>>, type, n) + Ends(rest, type, n)
  BY <1>1 DEF Ends, e, rest
<1>4. EndsAdd(rest, <<e>>, queue)
  BY <1>2, <1>3 DEF EndsAdd
<1> QED
  BY <1>2, <1>4 DEF e, rest

\* Whoever takes an event that ends no round, or not the open one, leaves the
\* open round its event.
LEMMA FirstIsNotMissed ==
  ASSUME OwnersOK, RoundsOK(group, queue), queue # <<>>,
         ~(/\ queue[1].type = "rebalance-complete" /\ group.state = "PreparingRebalance"
           /\ queue[1].generation = group.generationId),
         ~(/\ queue[1].type = "sync-group" /\ group.state = "CompletingRebalance"
           /\ queue[1].generation = group.generationId)
  PROVE  RoundsOK(group, Tail(queue))
<1>1. GroupOK(group) /\ queue[1] \in Events
  BY FirstEvent DEF OwnersOK, TypeOK, GroupOK
<1>2. /\ EndsAdd(Tail(queue), <<queue[1]>>, queue)
      /\ \A type \in RoundTypes, n \in Nat : Ends(Tail(queue), type, n) \in Nat
  BY EndsOfFirst
<1> QED
  BY <1>1, <1>2, RoundsOutlive

\* fetch-request, heartbeat and commit do not touch the round.
LEMMA LoopsKeepRounds ==
  ASSUME OwnersOK, RoundsOK(group, queue), FetchRequest \/ HeartbeatEvent \/ CommitEvent
  PROVE  RoundsOK(group', queue')
<1> DEFINE c == queue[1].consumer
<1>1. GroupOK(group) /\ queue # <<>> /\ Tail(queue) \in Seq(Events)
  BY FirstEvent DEF OwnersOK, TypeOK, GroupOK, Due, FetchRequest, HeartbeatEvent, CommitEvent
<1>2. RoundsOK(group, Tail(queue))
  BY <1>1, FirstIsNotMissed DEF Due, FetchRequest, HeartbeatEvent, CommitEvent
<1>3. SUFFICES ASSUME NEW again \in Seq(Events), NoEnds(again),
                      queue' = Scheduled(Tail(queue), again),
                      group'.state = group.state, group'.generationId = group.generationId
               PROVE  RoundsOK(group', queue')
  <2>1. CASE FetchRequest
    <3>1. queue' = Scheduled(Tail(queue), PollAgain(c))
      BY <2>1 DEF FetchRequest
    <3>2. PollAgain(c) \in Seq(Events) /\ NoEnds(PollAgain(c))
      <4>1. CASE c \in DOMAIN consumers
        <5>1. c \in Consumers
          BY <4>1, KnownAre
        <5>2. Poll(c, PollInterval) \in Events /\ NoEnds(<<Poll(c, PollInterval)>>)
          BY <5>1, EventsAre, LoopsEndNothing, IntervalsAssumption
        <5> QED
          BY <4>1, <5>2 DEF PollAgain
      <4>2. CASE c \notin DOMAIN consumers
        BY <4>2, LoopsEndNothing DEF PollAgain
      <4> QED
        BY <4>1, <4>2
    <3>3. group'.state = group.state /\ group'.generationId = group.generationId
      <4>1. CASE group' = group
        BY <4>1
      <4>2. CASE c \in DOMAIN group.members /\ group' = [group EXCEPT !.members[c].pollAge = 0]
        BY <1>1, <4>2, PollIsOK DEF SameRound
      <4> QED
        BY <2>1, <4>1, <4>2 DEF FetchRequest, MemberIds
    <3> HIDE DEF c
    <3> QED
      BY <1>3, <3>1, <3>2, <3>3
  <2>2. CASE HeartbeatEvent
    <3> DEFINE n == group.generationId
               again == IF c \in DOMAIN consumers THEN <<NextHeartbeat(c, n)>> ELSE <<>>
    <3>1. queue' = Scheduled(Tail(queue), again)
          /\ group' = Heartbeat(group, c, queue[1].generation)
      BY <2>2 DEF HeartbeatEvent
    <3>2. again \in Seq(Events) /\ NoEnds(again)
      <4>1. CASE c \in DOMAIN consumers
        <5>1. c \in Consumers /\ n \in Nat
          BY <1>1, <4>1, KnownAre DEF GroupOK, GroupState
        <5> HIDE DEF n, c
        <5>2. NextHeartbeat(c, n) \in Events /\ NoEnds(<<NextHeartbeat(c, n)>>)
          BY <5>1, EventsAre, LoopsEndNothing
        <5> QED
          BY <4>1, <5>2
      <4>2. CASE c \notin DOMAIN consumers
        BY <4>2, LoopsEndNothing
      <4> QED
        BY <4>1, <4>2
    <3>3. SameRound(group, group')
      <4> HIDE DEF c
      <4> QED
        BY <1>1, <3>1, HeartbeatIsOK
    <3> HIDE DEF again
    <3> QED
      BY <1>3, <3>1, <3>2, <3>3 DEF SameRound
  <2>3. CASE CommitEvent
    <3>1. CASE c \in DOMAIN consumers
      <4>1. /\ queue' = Scheduled(Tail(queue), AutoCommit(c))
            /\ group' = CommitOffsets(group, c, consumers[c].position)
        BY <2>3, <3>1 DEF CommitEvent
      <4>2. AutoCommit(c) \in Seq(Events) /\ NoEnds(AutoCommit(c))
        BY <3>1, KnownAre, AutoCommitIs, LoopsEndNothing
      <4> HIDE DEF c
      <4> QED
        BY <1>3, <3>1, <4>1, <4>2, CommitIs DEF SameRound
    <3>2. CASE c \notin DOMAIN consumers
      BY <1>2, <2>3, <3>2 DEF CommitEvent
    <3> QED
      BY <3>1, <3>2
  <2> QED
    BY <2>1, <2>2, <2>3
<1>4. \A type \in RoundTypes, n \in Nat : Ends(queue', type, n) = Ends(Tail(queue), type, n)
  BY <1>1, <1>3, EndsOfLoops
<1> QED
  BY <1>1, <1>2, <1>3, <1>4, RoundsStay

\* rebalance-complete: the event of the open round becomes its sync-group.
LEMMA CompleteKeepsRounds ==
  ASSUME OwnersOK, RoundsOK(group, queue), RebalanceComplete
  PROVE  RoundsOK(group', queue')
<1> DEFINE n == queue[1].generation
           r == CompleteRebalance(group, n)
           rest == Tail(queue)
<1>1. /\ GroupOK(group) /\ queue # <<>> /\ rest \in Seq(Events) /\ n \in Nat
      /\ queue[1].type = "rebalance-complete"
      /\ group' = r.group /\ queue' = Scheduled(rest, r.events)
  BY FirstEvent DEF OwnersOK, TypeOK, GroupOK, Due, RebalanceComplete
<1>2. CASE group.state = "PreparingRebalance" /\ group.generationId = n
  <2> DEFINE e == Event("sync-group", 0, None, n)
  <2>1. /\ r.group.state = "CompletingRebalance" /\ r.group.generationId = n
        /\ r.events = <<e>>
    <3> HIDE DEF n
    <3>1. GroupOK(group) /\ group.state = "PreparingRebalance" /\ group.generationId = n
      BY <1>1, <1>2
    <3>2. /\ SameGroup(group, CompleteRebalance(group, n))
          /\ CompleteRebalance(group, n).group.state = "CompletingRebalance"
          /\ CompleteRebalance(group, n).group.generationId = n
          /\ CompleteRebalance(group, n).events = <<Event("sync-group", 0, None, n)>>
      BY <3>1, CompleteRebalanceIsOK
    <3> QED
      BY <3>2
  <2>2. e \in Events /\ e.type = "sync-group" /\ e.generation = n
    BY <1>1, EventsAre DEF Event
  <2> HIDE DEF e, r
  <2>3. \A type \in RoundTypes, k \in Nat :
          Ends(<<e>>, type, k) = IF type = "sync-group" /\ k = n THEN 1 ELSE 0
    BY <2>2, EndsOfOne
  <2>4. <<e>> \in Seq(Events)
    BY <2>2
  <2>5. EndsAdd(rest, <<e>>, queue')
    BY <1>1, <2>1, <2>4, EndsOfScheduled
  <2>6. \A type \in RoundTypes, k \in Nat :
          /\ Ends(rest, type, k) \in Nat
          /\ Ends(queue, type, k) =
               Ends(rest, type, k) + (IF type = "rebalance-complete" /\ k = n THEN 1 ELSE 0)
    BY <1>1, EndsOfFirst DEF EndsAdd
  <2>7. \A type \in RoundTypes, k \in Nat : Ends(queue, type, k) = 0 => Ends(rest, type, k) = 0
    BY <2>6
  <2>8. /\ \A type \in RoundTypes, k \in Nat : k > n => Ends(rest, type, k) = 0
        /\ Ends(rest, "sync-group", n) = 0
    BY <1>1, <1>2, <2>7 DEF RoundsOK, RoundTypes
  <2>9. /\ \A type \in RoundTypes, k \in Nat : k > n => Ends(queue', type, k) = 0
        /\ Ends(queue', "sync-group", n) = 1
    BY <1>1, <2>3, <2>5, <2>8 DEF EndsAdd, RoundTypes
  <2> QED
    BY <1>1, <2>1, <2>9 DEF RoundsOK
<1>3. CASE ~(group.state = "PreparingRebalance" /\ group.generationId = n)
  <2>1. r = Result(group, <<>>)
    BY <1>3 DEF CompleteRebalance
  <2>2. group' = group /\ queue' = Scheduled(rest, <<>>)
    BY <1>1, <2>1 DEF Result
  <2>3. RoundsOK(group, rest)
    BY <1>1, <1>3, FirstIsNotMissed
  <2>4. \A type \in RoundTypes, k \in Nat : Ends(queue', type, k) = Ends(rest, type, k)
    <3> DEFINE none == <<>>
    <3>1. none \in Seq(Events) /\ NoEnds(none)
      BY NoEndsOf
    <3> HIDE DEF rest, none
    <3>2. \A type \in RoundTypes, k \in Nat :
            Ends(Scheduled(rest, none), type, k) = Ends(rest, type, k)
      BY <1>1, <3>1, EndsOfLoops
    <3> QED
      BY <2>2, <3>2 DEF none
  <2> QED
    BY <1>1, <2>2, <2>3, <2>4, RoundsStay
<1> QED
  BY <1>2, <1>3

\* sync-group: the open round is over.
LEMMA SyncKeepsRounds ==
  ASSUME OwnersOK, RoundsOK(group, queue), SyncGroupEvent
  PROVE  RoundsOK(group', queue')
<1> DEFINE n == queue[1].generation
           rest == Tail(queue)
<1>1. /\ GroupOK(group) /\ queue # <<>> /\ rest \in Seq(Events) /\ n \in Nat
      /\ queue[1].type = "sync-group"
      /\ group' = SyncGroup(group, n) /\ queue' = rest
  BY FirstEvent DEF OwnersOK, TypeOK, GroupOK, Due, SyncGroupEvent
<1>2. CASE group.state = "CompletingRebalance" /\ group.generationId = n
  <2>1. group'.state = "Stable" /\ group'.generationId \in {n, n + 1}
    BY <1>1, <1>2, SyncGroupIsOK
  <2>2. \A type \in RoundTypes, k \in Nat : Ends(queue, type, k) = 0 => Ends(rest, type, k) = 0
    BY <1>1, EndsOfFirst DEF EndsAdd
  <2>3. \A type \in RoundTypes, k \in Nat : k > n => Ends(rest, type, k) = 0
    BY <1>2, <2>2 DEF RoundsOK
  <2> QED
    BY <1>1, <2>1, <2>3 DEF RoundsOK
<1>3. CASE ~(group.state = "CompletingRebalance" /\ group.generationId = n)
  <2>1. group' = group
    BY <1>1, <1>3 DEF SyncGroup
  <2> QED
    BY <1>1, <1>3, <2>1, FirstIsNotMissed
<1> QED
  BY <1>2, <1>3

\* member-timeout may open a round.
LEMMA TimeoutKeepsRounds ==
  ASSUME OwnersOK, RoundsOK(group, queue), MemberTimeout
  PROVE  RoundsOK(group', queue')
<1> DEFINE checked == CheckTimeouts(group)
           again == IF MemberIds(checked.group) = {} THEN <<>> ELSE <<Scan>>
           rest == Tail(queue)
<1>1. /\ GroupOK(group) /\ queue # <<>> /\ rest \in Seq(Events)
      /\ queue[1].type = "member-timeout"
      /\ group' = checked.group /\ queue' = Scheduled(rest, checked.events \o again)
  BY FirstEvent DEF OwnersOK, TypeOK, GroupOK, Due, MemberTimeout
<1>2. RoundsOK(group, rest)
  BY <1>1, FirstIsNotMissed
<1>3. SameGroup(group, checked) /\ RoundGoesOn(group, checked)
  BY <1>1, CheckTimeoutsIsOK
<1> HIDE DEF checked, rest
<1>4. checked.events \in Seq(Events)
  BY <1>3, RoundEventsAre
<1>5. again \in Seq(Events) /\ NoEnds(again)
  BY EventsAre, LoopsEndNothing
<1> HIDE DEF again
<1>6. EndsAdd(rest, checked.events, queue')
  BY <1>1, <1>4, <1>5, EndsOfOthers
<1> QED
  BY <1>1, <1>2, <1>3, <1>6, RoundsGoOn

\* The clock does not touch the round.
LEMMA TickKeepsRounds ==
  ASSUME OwnersOK, RoundsOK(group, queue), Tick
  PROVE  RoundsOK(group', queue')
<1>1. SameRound(group, group') /\ queue' = [i \in DOMAIN queue |-> Nearer(queue[i])]
  BY TickKeepsOwners
<1>2. ASSUME NEW type \in RoundTypes, NEW n \in Nat
      PROVE  Ends(queue', type, n) = Ends(queue, type, n)
  <2>1. \A e \in Events : Nearer(e) \in RoundEvents(type, n) <=> e \in RoundEvents(type, n)
    BY DEF Nearer, RoundEvents, Events
  <2>2. \A i \in DOMAIN queue : queue[i] \in Events
    BY DEF OwnersOK, TypeOK
  <2>3. \A i \in DOMAIN queue : Nearer(queue[i]) \in RoundEvents(type, n) <=> queue[i] \in RoundEvents(type, n)
    BY <2>1, <2>2
  <2> QED
    BY <1>1, <2>3, TallyOfNearer DEF Ends
<1> QED
  BY <1>1, <1>2, RoundsStay DEF SameRound, OwnersOK, TypeOK, GroupOK

\* Every step keeps an open round its event.
LEMMA RoundsStep ==
  ASSUME OwnersOK, RoundsOK(group, queue), [Next]_vars
  PROVE  RoundsOK(group', queue')
<1>1. CASE Script
  BY <1>1, ScriptKeepsRounds
<1>2. CASE Kernel
  BY <1>2, LoopsKeepRounds, CompleteKeepsRounds, SyncKeepsRounds, TimeoutKeepsRounds,
     TickKeepsRounds DEF Kernel
<1>3. CASE UNCHANGED vars
  BY <1>3 DEF vars
<1> QED
  BY <1>1, <1>2, <1>3 DEF Next

\* A loop of c is scheduled.
HasLoop(q, type, c) == Tally(q, LoopEvents(type, c)) >= 1

\* A loop is scheduled when one of the events is its event.
LEMMA HasLoopOf ==
  /\ \A e \in Events : \A type, c : HasLoop(<<e>>, type, c) <=> e.type = type /\ e.consumer = c
  /\ \A s, t \in Seq(Events) : \A type, c :
       /\ HasLoop(s \o t, type, c) <=> HasLoop(s, type, c) \/ HasLoop(t, type, c)
       /\ HasLoop(Scheduled(s, t), type, c) <=> HasLoop(s, type, c) \/ HasLoop(t, type, c)
<1>1. ASSUME NEW e \in Events, NEW type, NEW c
      PROVE  HasLoop(<<e>>, type, c) <=> e.type = type /\ e.consumer = c
  <2>1. e \in LoopEvents(type, c) <=> e.type = type /\ e.consumer = c
    BY DEF LoopEvents
  <2>2. Tally(<<e>>, LoopEvents(type, c)) = IF e \in LoopEvents(type, c) THEN 1 ELSE 0
    BY TallyOfOne
  <2> QED
    BY <2>1, <2>2 DEF HasLoop
<1>2. ASSUME NEW s \in Seq(Events), NEW t \in Seq(Events), NEW type, NEW c
      PROVE  /\ HasLoop(s \o t, type, c) <=> HasLoop(s, type, c) \/ HasLoop(t, type, c)
             /\ HasLoop(Scheduled(s, t), type, c) <=> HasLoop(s, type, c) \/ HasLoop(t, type, c)
  <2> DEFINE T == LoopEvents(type, c)
  <2>1. Tally(s, T) \in Nat /\ Tally(t, T) \in Nat
    BY TallyIsNat
  <2>2. Tally(s \o t, T) = Tally(s, T) + Tally(t, T)
    BY TallyOfBoth
  <2>3. Tally(Scheduled(s, t), T) = Tally(s, T) + Tally(t, T)
    BY TallyOfScheduled
  <2> QED
    BY <2>1, <2>2, <2>3 DEF HasLoop
<1> QED
  BY <1>1, <1>2

\* The loops that are needed: those of a consumer that has not left, and the
\* scan as long as somebody is a member.
Awaited(type, c) ==
  \/ type \in {"fetch-request", "heartbeat"} /\ c \in DOMAIN consumers
  \/ type = "commit" /\ c \in DOMAIN consumers /\ config.enableAutoCommit
  \/ type = "member-timeout" /\ c = None /\ MemberIds(group) # {}

LoopsOK == \A type, c : Awaited(type, c) => HasLoop(queue, type, c)

\* Nothing is awaited of a group that nobody has joined.
LEMMA LoopsInit ==
  ASSUME Init
  PROVE  LoopsOK
BY DEF Init, NoGroup, LoopsOK, Awaited, MemberIds

\* The event that is taken counts only for its own loop.
LEMMA LoopOfOthers ==
  ASSUME OwnersOK, queue # <<>>, NEW type, NEW c,
         HasLoop(queue, type, c), ~(queue[1].type = type /\ queue[1].consumer = c)
  PROVE  HasLoop(Tail(queue), type, c)
<1> DEFINE e == queue[1]
           T == LoopEvents(type, c)
<1>1. /\ e \in Events /\ Tail(queue) \in Seq(Events)
      /\ Tally(queue, T) = Tally(<<e>>, T) + Tally(Tail(queue), T)
  BY FirstEvent
<1> HIDE DEF e
<1>2. e \notin T
  BY DEF LoopEvents, e
<1>3. Tally(<<e>>, T) = 0 /\ Tally(Tail(queue), T) \in Nat
  BY <1>1, <1>2, TallyOfOne, TallyIsNat
<1> QED
  BY <1>1, <1>3 DEF HasLoop

\* A loop goes on when it is scheduled again, or was not the one taken.
LEMMA LoopGoesOn ==
  ASSUME OwnersOK, queue # <<>>, NEW again \in Seq(Events), NEW type, NEW c,
         HasLoop(queue, type, c),
         queue[1].type = type /\ queue[1].consumer = c => HasLoop(again, type, c)
  PROVE  HasLoop(Scheduled(Tail(queue), again), type, c)
<1>1. Tail(queue) \in Seq(Events)
  BY FirstEvent
<1>2. HasLoop(Tail(queue), type, c) \/ HasLoop(again, type, c)
  BY LoopOfOthers
<1> HIDE DEF HasLoop
<1> QED
  BY <1>1, <1>2, HasLoopOf

\* consumer-join starts the loops of its consumer, and the scan if it is the
\* first member.
LEMMA JoinKeepsLoops ==
  ASSUME OwnersOK, LoopsOK, NEW c \in Consumers, ConsumerJoin(c)
  PROVE  LoopsOK'
<1> DEFINE joined == JoinGroup(group, c)
           n == joined.group.generationId
           two == <<Poll(c, 0)>> \o <<NextHeartbeat(c, n)>>
<1>1. /\ SameGroup(group, joined) /\ RoundGoesOn(group, joined)
      /\ Loops(c) \in Seq(Events) /\ FirstScan \in Seq(Events)
  BY LoopsAre DEF ConsumerJoin
<1>2. joined.events \in Seq(Events) /\ n \in Nat
  BY <1>1, RoundEventsAre DEF SameGroup, GroupOK, GroupState
<1>3. /\ queue' = Scheduled(queue, joined.events \o Loops(c) \o FirstScan)
      /\ DOMAIN consumers' = DOMAIN consumers \cup {c}
      /\ config' = config /\ queue \in Seq(Events)
  BY DEF ConsumerJoin, Loops, FirstScan, OwnersOK, TypeOK
<1>4. Loops(c) = two \o AutoCommit(c)
  BY PairIs DEF Loops
<1> HIDE DEF joined, n
<1>5. /\ Poll(c, 0) \in Events /\ NextHeartbeat(c, n) \in Events /\ Scan \in Events
      /\ Event("commit", AutoCommitInterval, c, 0) \in Events
      /\ AutoCommit(c) \in Seq(Events)
  BY <1>2, EventsAre, AutoCommitIs
<1>6. <<Poll(c, 0)>> \in Seq(Events) /\ <<NextHeartbeat(c, n)>> \in Seq(Events) /\ two \in Seq(Events)
  BY <1>5, ConcatProperties
<1>7. /\ HasLoop(<<Poll(c, 0)>>, "fetch-request", c)
      /\ HasLoop(<<NextHeartbeat(c, n)>>, "heartbeat", c)
      /\ HasLoop(<<Scan>>, "member-timeout", None)
      /\ HasLoop(<<Event("commit", AutoCommitInterval, c, 0)>>, "commit", c)
  <2> HIDE DEF HasLoop
  <2> QED
    BY <1>5, HasLoopOf DEF Poll, NextHeartbeat, Scan, Event
<1>8. HasLoop(two, "fetch-request", c) /\ HasLoop(two, "heartbeat", c)
  <2> HIDE DEF HasLoop
  <2> QED
    BY <1>6, <1>7, HasLoopOf
<1>9. config.enableAutoCommit => HasLoop(AutoCommit(c), "commit", c)
  BY <1>7, AutoCommitIs
<1> HIDE DEF two, HasLoop
<1>10. /\ HasLoop(Loops(c), "fetch-request", c) /\ HasLoop(Loops(c), "heartbeat", c)
       /\ config.enableAutoCommit => HasLoop(Loops(c), "commit", c)
  BY <1>4, <1>5, <1>6, <1>8, <1>9, HasLoopOf
<1>11. joined.events \o Loops(c) \in Seq(Events)
  BY <1>1, <1>2, ConcatProperties
<1>12. joined.events \o Loops(c) \o FirstScan \in Seq(Events)
  BY <1>1, <1>11, ConcatProperties
<1>13. \A type, k : HasLoop(queue, type, k) \/ HasLoop(Loops(c), type, k) \/ HasLoop(FirstScan, type, k)
                      => HasLoop(queue', type, k)
  <2> SUFFICES ASSUME NEW type, NEW k,
                      HasLoop(queue, type, k) \/ HasLoop(Loops(c), type, k) \/ HasLoop(FirstScan, type, k)
               PROVE  HasLoop(queue', type, k)
    OBVIOUS
  <2>1. HasLoop(Loops(c), type, k) => HasLoop(joined.events \o Loops(c), type, k)
    BY <1>1, <1>2, HasLoopOf
  <2>2. HasLoop(joined.events \o Loops(c), type, k) \/ HasLoop(FirstScan, type, k)
          => HasLoop(joined.events \o Loops(c) \o FirstScan, type, k)
    BY <1>1, <1>11, HasLoopOf
  <2> DEFINE all == joined.events \o Loops(c) \o FirstScan
  <2>3. all \in Seq(Events) /\ queue' = Scheduled(queue, all)
    BY <1>3, <1>12
  <2> HIDE DEF all
  <2>4. HasLoop(queue, type, k) \/ HasLoop(all, type, k) => HasLoop(queue', type, k)
    BY <1>3, <2>3, HasLoopOf
  <2> QED
    BY <2>1, <2>2, <2>4 DEF all
<1>14. HasLoop(queue', "member-timeout", None)
  <2>1. CASE MemberIds(group) = {}
    BY <1>7, <1>13, <2>1 DEF FirstScan
  <2>2. CASE MemberIds(group) # {}
    BY <1>13, <2>2 DEF LoopsOK, Awaited
  <2> QED
    BY <2>1, <2>2
<1>15. ASSUME NEW type, NEW k, Awaited(type, k)'
       PROVE  HasLoop(queue', type, k)
  <2>1. CASE k = c /\ type \in {"fetch-request", "heartbeat", "commit"}
    BY <1>3, <1>10, <1>13, <1>15, <2>1 DEF Awaited
  <2>2. CASE type = "member-timeout"
    BY <1>14, <1>15, <2>2 DEF Awaited
  <2>3. CASE k # c /\ type \in {"fetch-request", "heartbeat", "commit"}
    BY <1>3, <1>13, <1>15, <2>3 DEF LoopsOK, Awaited
  <2> QED
    BY <1>15, <2>1, <2>2, <2>3 DEF Awaited
<1> QED
  <2>1. \A type, k : Awaited(type, k)' => HasLoop(queue, type, k)'
    BY <1>15 DEF HasLoop
  <2> QED
    BY <2>1 DEF LoopsOK

\* A step that takes no event and after which nothing new is awaited.
LEMMA LoopsStay ==
  ASSUME LoopsOK, \A type, c : Awaited(type, c)' => Awaited(type, c),
         \/ queue' = queue
         \/ /\ queue \in Seq(Events)
            /\ \E events \in Seq(Events) : queue' = Scheduled(queue, events)
  PROVE  LoopsOK'
<1>1. \A type, c : HasLoop(queue, type, c) => HasLoop(queue', type, c)
  <2>1. CASE queue' = queue
    BY <2>1
  <2>2. ASSUME queue \in Seq(Events), NEW events \in Seq(Events), queue' = Scheduled(queue, events)
        PROVE  \A type, c : HasLoop(queue, type, c) => HasLoop(queue', type, c)
    BY <2>2, HasLoopOf
  <2> QED
    BY <2>1, <2>2
<1>2. \A type, c : Awaited(type, c)' => HasLoop(queue, type, c)'
  BY <1>1 DEF LoopsOK, HasLoop
<1> QED
  BY <1>2 DEF LoopsOK

\* The commands of the script keep the loops.
LEMMA ScriptKeepsLoops ==
  ASSUME OwnersOK, LoopsOK, Script
  PROVE  LoopsOK'
<1>1. GroupOK(group) /\ queue \in Seq(Events)
  BY DEF OwnersOK, TypeOK, GroupOK
<1>2. ASSUME NEW c \in Consumers, ConsumerLeave(c)
      PROVE  LoopsOK'
  <2> DEFINE left == LeaveGroup(group, c)
  <2>1. /\ SameGroup(group, left) /\ RoundGoesOn(group, left)
        /\ DOMAIN left.group.members = DOMAIN group.members \ {c}
    BY <1>1, LeaveGroupIsOK
  <2>2. /\ group' = left.group /\ queue' = Scheduled(queue, left.events)
        /\ config' = config
        /\ DOMAIN consumers' \subseteq DOMAIN consumers
    BY <1>2 DEF ConsumerLeave, Restrict
  <2> HIDE DEF left
  <2>3. left.events \in Seq(Events)
    BY <2>1, RoundEventsAre
  <2>4. \A type, k : Awaited(type, k)' => Awaited(type, k)
    BY <2>1, <2>2 DEF Awaited, MemberIds
  <2> QED
    BY <1>1, <2>2, <2>3, <2>4, LoopsStay
<1>3. ASSUME NEW c \in Consumers, ManualCommit(c)
      PROVE  LoopsOK'
  <2>1. SameRound(group, group') /\ queue' = Scheduled(queue, AutoCommit(c))
    BY <1>3, CommitIs DEF ManualCommit
  <2>2. \A type, k : Awaited(type, k)' => Awaited(type, k)
    BY <1>3, <2>1 DEF ManualCommit, SameRound, Awaited, MemberIds
  <2> QED
    BY <1>1, <2>1, <2>2, AutoCommitIs, LoopsStay
<1>4. CASE /\ UNCHANGED <<config, group, queue>>
           /\ DOMAIN consumers' = DOMAIN consumers
  <2>1. \A type, k : Awaited(type, k)' => Awaited(type, k)
    BY <1>4 DEF Awaited, MemberIds
  <2> QED
    BY <1>4, <2>1, LoopsStay
<1>5. ASSUME NEW c \in Consumers, ConsumerJoin(c)
      PROVE  LoopsOK'
  BY <1>5, JoinKeepsLoops
<1> QED
  BY <1>2, <1>3, <1>4, <1>5
     DEF Script, ConsumerStall, Pause, Resume, Seek, RecordAppended, RetentionDelete

\* A step that takes an event, schedules its loop again if that is awaited, and
\* after which nothing new is awaited.
LEMMA LoopsGoOn ==
  ASSUME OwnersOK, LoopsOK, queue # <<>>, \A type, c : Awaited(type, c)' => Awaited(type, c),
         NEW again \in Seq(Events), queue' = Scheduled(Tail(queue), again),
         \A type, c : /\ Awaited(type, c)' /\ queue[1].type = type /\ queue[1].consumer = c
                      => HasLoop(again, type, c)
  PROVE  LoopsOK'
<1>1. ASSUME NEW type, NEW c, Awaited(type, c)'
      PROVE  HasLoop(queue', type, c)
  <2>1. HasLoop(queue, type, c)
    BY <1>1 DEF LoopsOK
  <2>2. queue[1].type = type /\ queue[1].consumer = c => HasLoop(again, type, c)
    BY <1>1
  <2> HIDE DEF HasLoop
  <2> QED
    BY <2>1, <2>2, LoopGoesOn
<1>2. \A type, c : Awaited(type, c)' => HasLoop(queue, type, c)'
  BY <1>1 DEF HasLoop
<1> QED
  BY <1>2 DEF LoopsOK

\* An event that is scheduled again is there.
LEMMA AgainIs ==
  ASSUME NEW e \in Events
  PROVE  /\ <<e>> \in Seq(Events)
         /\ HasLoop(<<e>>, e.type, e.consumer)
<1>1. HasLoop(<<e>>, e.type, e.consumer)
  <2> DEFINE type == e.type
             c == e.consumer
  <2>1. type = e.type /\ c = e.consumer
    OBVIOUS
  <2> HIDE DEF type, c
  <2>2. HasLoop(<<e>>, type, c)
    BY <2>1, HasLoopOf
  <2> QED
    BY <2>2 DEF type, c
<1> QED
  BY <1>1

\* fetch-request goes on.
LEMMA FetchKeepsLoops ==
  ASSUME OwnersOK, LoopsOK, FetchRequest
  PROVE  LoopsOK'
<1> DEFINE c == queue[1].consumer
           again == PollAgain(c)
<1>1. /\ GroupOK(group) /\ queue # <<>> /\ queue[1].type = "fetch-request"
      /\ queue' = Scheduled(Tail(queue), again) /\ config' = config
      /\ DOMAIN consumers' = DOMAIN consumers
  BY DEF OwnersOK, TypeOK, GroupOK, FetchRequest, Due
<1>2. DOMAIN group'.members = DOMAIN group.members
  <2>1. CASE group' = group
    BY <2>1
  <2>2. CASE c \in DOMAIN group.members /\ group' = [group EXCEPT !.members[c].pollAge = 0]
    BY <1>1, <2>2, PollIsOK DEF SameRound
  <2> QED
    BY <2>1, <2>2 DEF FetchRequest, MemberIds
<1>3. \A type, k : Awaited(type, k)' => Awaited(type, k)
  BY <1>1, <1>2 DEF Awaited, MemberIds
<1>4. again \in Seq(Events) /\ (c \in DOMAIN consumers => HasLoop(again, "fetch-request", c))
  <2>1. CASE c \in DOMAIN consumers
    <3> DEFINE e == Poll(c, PollInterval)
    <3>1. e \in Events /\ e.type = "fetch-request" /\ e.consumer = c /\ again = <<e>>
      BY <2>1, KnownAre, EventsAre, IntervalsAssumption DEF Poll, Event, PollAgain
    <3> HIDE DEF e
    <3>2. <<e>> \in Seq(Events) /\ HasLoop(<<e>>, "fetch-request", c)
      BY <3>1, AgainIs
    <3> QED
      BY <3>1, <3>2
  <2>2. CASE c \notin DOMAIN consumers
    BY <2>2 DEF PollAgain
  <2> QED
    BY <2>1, <2>2
<1>5. \A type, k : Awaited(type, k)' /\ queue[1].type = type /\ queue[1].consumer = k
                     => HasLoop(again, type, k)
  BY <1>1, <1>4 DEF Awaited
<1> HIDE DEF again, c
<1> QED
  BY <1>1, <1>3, <1>4, <1>5, LoopsGoOn

\* heartbeat goes on.
LEMMA HeartbeatKeepsLoops ==
  ASSUME OwnersOK, LoopsOK, HeartbeatEvent
  PROVE  LoopsOK'
<1> DEFINE c == queue[1].consumer
           n == group.generationId
           again == IF c \in DOMAIN consumers THEN <<NextHeartbeat(c, n)>> ELSE <<>>
<1>1. /\ GroupOK(group) /\ queue # <<>> /\ queue[1].type = "heartbeat"
      /\ group' = Heartbeat(group, c, queue[1].generation)
      /\ queue' = Scheduled(Tail(queue), again) /\ config' = config
      /\ DOMAIN consumers' = DOMAIN consumers
  BY DEF OwnersOK, TypeOK, GroupOK, HeartbeatEvent, Due
<1>2. DOMAIN group'.members = DOMAIN group.members
  <2> HIDE DEF c
  <2> QED
    BY <1>1, HeartbeatIsOK DEF SameRound
<1>3. \A type, k : Awaited(type, k)' => Awaited(type, k)
  BY <1>1, <1>2 DEF Awaited, MemberIds
<1>4. again \in Seq(Events) /\ (c \in DOMAIN consumers => HasLoop(again, "heartbeat", c))
  <2>1. CASE c \in DOMAIN consumers
    <3> DEFINE e == NextHeartbeat(c, n)
    <3>1. e \in Events /\ e.type = "heartbeat" /\ e.consumer = c /\ again = <<e>>
      BY <1>1, <2>1, KnownAre, EventsAre DEF NextHeartbeat, Event, GroupOK, GroupState
    <3> HIDE DEF e
    <3>2. <<e>> \in Seq(Events) /\ HasLoop(<<e>>, "heartbeat", c)
      BY <3>1, AgainIs
    <3> QED
      BY <3>1, <3>2
  <2>2. CASE c \notin DOMAIN consumers
    BY <2>2
  <2> QED
    BY <2>1, <2>2
<1>5. \A type, k : Awaited(type, k)' /\ queue[1].type = type /\ queue[1].consumer = k
                     => HasLoop(again, type, k)
  BY <1>1, <1>4 DEF Awaited
<1> HIDE DEF again, c
<1> QED
  BY <1>1, <1>3, <1>4, <1>5, LoopsGoOn

\* commit goes on while commits are automatic.
LEMMA CommitKeepsLoops ==
  ASSUME OwnersOK, LoopsOK, CommitEvent
  PROVE  LoopsOK'
<1> DEFINE c == queue[1].consumer
           again == IF c \in DOMAIN consumers THEN AutoCommit(c) ELSE <<>>
<1>1. /\ GroupOK(group) /\ queue # <<>> /\ queue[1].type = "commit"
      /\ config' = config /\ DOMAIN consumers' = DOMAIN consumers
      /\ Tail(queue) \in Seq(Events)
  BY FirstEvent DEF OwnersOK, TypeOK, GroupOK, CommitEvent, Due
<1>2. DOMAIN group'.members = DOMAIN group.members
  BY CommitIs DEF CommitEvent, SameRound
<1>3. \A type, k : Awaited(type, k)' => Awaited(type, k)
  BY <1>1, <1>2 DEF Awaited, MemberIds
<1>4. CASE c \in DOMAIN consumers
  <2>1. queue' = Scheduled(Tail(queue), AutoCommit(c)) /\ AutoCommit(c) \in Seq(Events)
    BY <1>4, KnownAre, AutoCommitIs DEF CommitEvent
  <2>2. config.enableAutoCommit => HasLoop(AutoCommit(c), "commit", c)
    <3> DEFINE e == Event("commit", AutoCommitInterval, c, 0)
    <3>1. e \in Events /\ e.type = "commit" /\ e.consumer = c
      BY <1>4, KnownAre, EventsAre DEF Event
    <3> HIDE DEF e
    <3>2. HasLoop(<<e>>, "commit", c)
      BY <3>1, AgainIs
    <3> QED
      BY <3>2 DEF AutoCommit, e
  <2>3. \A type, k : Awaited(type, k)' /\ queue[1].type = type /\ queue[1].consumer = k
                       => HasLoop(AutoCommit(c), type, k)
    BY <1>1, <2>2 DEF Awaited
  <2> HIDE DEF c
  <2> QED
    BY <1>1, <1>3, <2>1, <2>3, LoopsGoOn
<1>5. CASE c \notin DOMAIN consumers
  <2>1. queue' = Tail(queue)
    BY <1>5 DEF CommitEvent
  <2>2. ASSUME NEW type, NEW k, Awaited(type, k)'
        PROVE  HasLoop(queue', type, k)
    <3>1. HasLoop(queue, type, k)
      BY <1>3, <2>2 DEF LoopsOK
    <3>2. ~(queue[1].type = type /\ queue[1].consumer = k)
      BY <1>1, <1>5, <2>2 DEF Awaited
    <3> QED
      BY <1>1, <2>1, <3>1, <3>2, LoopOfOthers
  <2>3. \A type, k : Awaited(type, k)' => HasLoop(queue, type, k)'
    BY <2>2 DEF HasLoop
  <2> QED
    BY <2>3 DEF LoopsOK
<1> QED
  BY <1>4, <1>5

\* rebalance-complete and sync-group belong to no loop.
LEMMA RoundsKeepLoops ==
  ASSUME OwnersOK, LoopsOK, RebalanceComplete \/ SyncGroupEvent
  PROVE  LoopsOK'
<1> DEFINE n == queue[1].generation
<1>1. /\ GroupOK(group) /\ queue # <<>> /\ Tail(queue) \in Seq(Events)
      /\ queue[1].type \in RoundTypes /\ n \in Nat
      /\ config' = config /\ DOMAIN consumers' = DOMAIN consumers
  BY FirstEvent
     DEF OwnersOK, TypeOK, GroupOK, RebalanceComplete, SyncGroupEvent, Due, RoundTypes
<1>2. CASE RebalanceComplete
  <2> DEFINE r == CompleteRebalance(group, n)
  <2>1. group' = r.group /\ queue' = Scheduled(Tail(queue), r.events)
    BY <1>2 DEF RebalanceComplete
  <2>2. DOMAIN r.group.members = DOMAIN group.members /\ r.events \in Seq(Events)
    <3>1. CASE group.state = "PreparingRebalance" /\ group.generationId = n
      <4>1. /\ DOMAIN r.group.members = DOMAIN group.members
            /\ r.events = <<Event("sync-group", 0, None, n)>>
        BY <1>1, <3>1, CompleteRebalanceIsOK
      <4>2. Event("sync-group", 0, None, n) \in Events
        BY <1>1, EventsAre
      <4> QED
        BY <4>1, <4>2
    <3>2. CASE ~(group.state = "PreparingRebalance" /\ group.generationId = n)
      BY <3>2 DEF CompleteRebalance, Result
    <3> QED
      BY <3>1, <3>2
  <2> HIDE DEF r
  <2>3. \A type, k : Awaited(type, k)' => Awaited(type, k)
    BY <1>1, <2>1, <2>2 DEF Awaited, MemberIds
  <2>4. \A type, k : ~(/\ Awaited(type, k)' /\ queue[1].type = type /\ queue[1].consumer = k)
    BY <1>1 DEF Awaited, RoundTypes
  <2> QED
    BY <1>1, <2>1, <2>2, <2>3, <2>4, LoopsGoOn
<1>3. CASE SyncGroupEvent
  <2>1. group' = SyncGroup(group, n) /\ queue' = Tail(queue)
    BY <1>3 DEF SyncGroupEvent
  <2>2. DOMAIN group'.members = DOMAIN group.members
    <3>1. CASE group.state = "CompletingRebalance" /\ group.generationId = n
      BY <1>1, <2>1, <3>1, SyncGroupIsOK
    <3>2. CASE ~(group.state = "CompletingRebalance" /\ group.generationId = n)
      BY <2>1, <3>2 DEF SyncGroup
    <3> QED
      BY <3>1, <3>2
  <2>3. \A type, k : Awaited(type, k)' => Awaited(type, k)
    BY <1>1, <2>2 DEF Awaited, MemberIds
  <2>4. ASSUME NEW type, NEW k, Awaited(type, k)'
        PROVE  HasLoop(queue', type, k)
    <3>1. HasLoop(queue, type, k)
      BY <2>3, <2>4 DEF LoopsOK
    <3>2. ~(queue[1].type = type /\ queue[1].consumer = k)
      BY <1>1, <2>4 DEF Awaited, RoundTypes
    <3> QED
      BY <1>1, <2>1, <3>1, <3>2, LoopOfOthers
  <2>5. \A type, k : Awaited(type, k)' => HasLoop(queue, type, k)'
    BY <2>4 DEF HasLoop
  <2> QED
    BY <2>5 DEF LoopsOK
<1> QED
  BY <1>2, <1>3

\* member-timeout goes on while somebody is left.
LEMMA TimeoutKeepsLoops ==
  ASSUME OwnersOK, LoopsOK, MemberTimeout
  PROVE  LoopsOK'
<1> DEFINE checked == CheckTimeouts(group)
           scan == IF MemberIds(checked.group) = {} THEN <<>> ELSE <<Scan>>
           again == checked.events \o scan
<1>1. /\ GroupOK(group) /\ queue # <<>> /\ Tail(queue) \in Seq(Events)
      /\ queue[1].type = "member-timeout"
      /\ group' = checked.group /\ queue' = Scheduled(Tail(queue), again)
      /\ config' = config /\ DOMAIN consumers' = DOMAIN consumers
  BY FirstEvent DEF OwnersOK, TypeOK, GroupOK, MemberTimeout, Due
<1>2. /\ SameGroup(group, checked) /\ RoundGoesOn(group, checked)
      /\ DOMAIN checked.group.members \subseteq DOMAIN group.members
  BY <1>1, CheckTimeoutsIsOK
<1>3. \A type, k : Awaited(type, k)' => Awaited(type, k)
  <2> HIDE DEF checked, scan
  <2> QED
    BY <1>1, <1>2 DEF Awaited, MemberIds
<1>4. Scan \in Events /\ Scan.type = "member-timeout" /\ Scan.consumer = None
  BY EventsAre DEF Scan, Event
<1>5. scan \in Seq(Events)
  BY <1>4
<1> HIDE DEF checked
<1>6. MemberIds(group') # {} => HasLoop(scan, "member-timeout", None)
  <2>1. HasLoop(<<Scan>>, "member-timeout", None)
    BY <1>4, HasLoopOf
  <2> QED
    BY <1>1, <2>1
<1>7. checked.events \in Seq(Events)
  BY <1>2, RoundEventsAre
<1> HIDE DEF scan
<1>8. again \in Seq(Events)
  BY <1>5, <1>7, ConcatProperties
<1>9. MemberIds(group') # {} => HasLoop(again, "member-timeout", None)
  BY <1>5, <1>6, <1>7, HasLoopOf
<1> HIDE DEF again
<1>10. \A type, k : Awaited(type, k)' /\ queue[1].type = type /\ queue[1].consumer = k
                      => HasLoop(again, type, k)
  BY <1>1, <1>9 DEF Awaited
<1> QED
  BY <1>1, <1>3, <1>8, <1>10, LoopsGoOn

\* The clock keeps the loops.
LEMMA TickKeepsLoops ==
  ASSUME OwnersOK, LoopsOK, Tick
  PROVE  LoopsOK'
<1>1. /\ SameRound(group, group') /\ queue' = [i \in DOMAIN queue |-> Nearer(queue[i])]
      /\ config' = config /\ DOMAIN consumers' = DOMAIN consumers
  BY TickKeepsOwners DEF Tick
<1>2. ASSUME NEW type, NEW c
      PROVE  Tally(queue', LoopEvents(type, c)) = Tally(queue, LoopEvents(type, c))
  <2>1. \A e \in Events : Nearer(e) \in LoopEvents(type, c) <=> e \in LoopEvents(type, c)
    BY DEF Nearer, LoopEvents, Events
  <2>2. \A i \in DOMAIN queue : queue[i] \in Events
    BY DEF OwnersOK, TypeOK
  <2>3. \A i \in DOMAIN queue : Nearer(queue[i]) \in LoopEvents(type, c) <=> queue[i] \in LoopEvents(type, c)
    BY <2>1, <2>2
  <2> QED
    BY <1>1, <2>3, TallyOfNearer
<1>3. \A type, c : Awaited(type, c)' => Awaited(type, c)
  BY <1>1 DEF Awaited, MemberIds, SameRound
<1>4. \A type, c : Awaited(type, c)' => HasLoop(queue, type, c)'
  BY <1>2, <1>3 DEF LoopsOK, HasLoop
<1> QED
  BY <1>4 DEF LoopsOK

\* Every step keeps the loops that are awaited.
LEMMA LoopsStep ==
  ASSUME OwnersOK, LoopsOK, [Next]_vars
  PROVE  LoopsOK'
<1>1. CASE Script
  BY <1>1, ScriptKeepsLoops
<1>2. CASE Kernel
  BY <1>2, FetchKeepsLoops, HeartbeatKeepsLoops, CommitKeepsLoops, RoundsKeepLoops,
     TimeoutKeepsLoops, TickKeepsLoops DEF Kernel
<1>3. CASE UNCHANGED vars
  <2>1. \A type, c : Awaited(type, c)' => Awaited(type, c)
    BY <1>3 DEF vars, Awaited, MemberIds
  <2> QED
    BY <1>3, <2>1, LoopsStay DEF vars
<1> QED
  BY <1>1, <1>2, <1>3 DEF Next

\* The tallies say what the property says of the queue.
LEMMA TalliesAre ==
  ASSUME OwnersOK, RoundsOK(group, queue), LoopsOK
  PROVE  WhatMustComeIsScheduled
<1>1. queue \in Seq(Events) /\ \A i \in DOMAIN queue : queue[i] \in Events
  BY DEF OwnersOK, TypeOK
<1>2. ASSUME NEW type
      PROVE  Ends(queue, type, group.generationId) = Cardinality(QueuedRound(type))
  <2>1. QueuedRound(type) = Places(queue, RoundEvents(type, group.generationId))
    BY <1>1 DEF QueuedRound, Places, RoundEvents
  <2> QED
    BY <2>1 DEF Ends, Tally
<1>3. ASSUME NEW type, NEW c, Awaited(type, c)
      PROVE  Queued(type, c)
  <2>1. Tally(queue, LoopEvents(type, c)) >= 1
    BY <1>3 DEF LoopsOK, HasLoop
  <2>2. \E i \in DOMAIN queue : queue[i] \in LoopEvents(type, c)
    BY <1>1, <2>1, TallyOfSome
  <2> QED
    BY <2>2 DEF Queued, LoopEvents
<1>4. /\ group.state = "PreparingRebalance" => Cardinality(QueuedRound("rebalance-complete")) = 1
      /\ group.state = "CompletingRebalance" => Cardinality(QueuedRound("sync-group")) = 1
  BY <1>2 DEF RoundsOK
<1>5. /\ \A c \in DOMAIN consumers :
           /\ Queued("fetch-request", c) /\ Queued("heartbeat", c)
           /\ config.enableAutoCommit => Queued("commit", c)
      /\ MemberIds(group) # {} => Queued("member-timeout", None)
  BY <1>3 DEF Awaited
<1> QED
  BY <1>4, <1>5 DEF WhatMustComeIsScheduled

\* An open round always has exactly one event that will end it, and every loop
\* a consumer or the group still needs has its next event: no order of joins,
\* leaves, timeouts and rounds leaves the group waiting for something that was
\* never scheduled.
THEOREM NothingIsForgotten == Spec => []WhatMustComeIsScheduled
<1> DEFINE IInv == OwnersOK /\ RoundsOK(group, queue) /\ LoopsOK
<1>1. Init => IInv
  BY OwnersInit, RoundsInit, LoopsInit
<1>2. IInv /\ [Next]_vars => IInv'
  BY OwnersStep, RoundsStep, LoopsStep
<1>3. IInv => WhatMustComeIsScheduled
  BY TalliesAre
<1> QED
  BY <1>1, <1>2, <1>3, PTL DEF Spec

-----------------------------------------------------------------------------
(* What a round hands out is complete *)

\* What AssignmentIsFull says of the members of a group.
Shared(ms) ==
  \A p \in TopicPartitions :
    LET owners == {m \in DOMAIN ms : p \in ms[m].assignment}
    IN IF \E m \in DOMAIN ms : p[1] \in Subscriptions[m]
       THEN \E m \in owners : p[1] \in Subscriptions[m]
       ELSE owners = {}

\* An assignor that shares the wanted partitions out leaves none without an
\* owner, and gives none that nobody wants.
LEMMA FullIsShared ==
  ASSUME NEW ms, Full(ms)
  PROVE  Shared(ms)
<1> SUFFICES ASSUME NEW p \in TopicPartitions
             PROVE  LET owners == {m \in DOMAIN ms : p \in ms[m].assignment}
                    IN IF \E m \in DOMAIN ms : p[1] \in Subscriptions[m]
                       THEN \E m \in owners : p[1] \in Subscriptions[m]
                       ELSE owners = {}
  BY DEF Shared
<1>1. \A m \in DOMAIN ms : AssignmentsOf(ms)[m] = ms[m].assignment
  BY DEF AssignmentsOf
<1>2. CASE \E m \in DOMAIN ms : p[1] \in Subscriptions[m]
  <2>1. p \in Wanted(DOMAIN ms)
    BY <1>2 DEF Wanted
  <2> QED
    BY <1>1, <1>2, <2>1 DEF Full, SharesOut
<1>3. CASE ~\E m \in DOMAIN ms : p[1] \in Subscriptions[m]
  <2>1. p \notin Wanted(DOMAIN ms)
    BY <1>3 DEF Wanted
  <2> QED
    BY <1>1, <1>3, <2>1 DEF Full, SharesOut
<1> QED
  BY <1>2, <1>3

\* Only two events hand partitions out.
LEMMA OthersHandOutNothing ==
  ASSUME OwnersOK, [Next]_vars, ~RebalanceComplete, ~SyncGroupEvent
  PROVE  group'.state \in {group.state, "Empty", "PreparingRebalance"}
<1>1. GroupOK(group) /\ queue \in Seq(Events)
  BY DEF OwnersOK, TypeOK, GroupOK
<1>2. ASSUME NEW c \in Consumers, ConsumerJoin(c)
      PROVE  group'.state \in {group.state, "Empty", "PreparingRebalance"}
  BY <1>1, <1>2, JoinGroupIsOK DEF ConsumerJoin, RoundGoesOn, MemberIds
<1>3. ASSUME NEW c \in Consumers, ConsumerLeave(c)
      PROVE  group'.state \in {group.state, "Empty", "PreparingRebalance"}
  BY <1>1, <1>3, LeaveGroupIsOK DEF ConsumerLeave, RoundGoesOn
<1>4. ASSUME NEW c \in Consumers, ManualCommit(c)
      PROVE  group'.state = group.state
  BY <1>4, CommitIs DEF ManualCommit, SameRound
<1>5. CASE FetchRequest
  <2> DEFINE c == queue[1].consumer
  <2>1. CASE group' = group
    BY <2>1
  <2>2. CASE c \in DOMAIN group.members /\ group' = [group EXCEPT !.members[c].pollAge = 0]
    BY <1>1, <2>2, PollIsOK DEF SameRound
  <2> QED
    BY <1>5, <2>1, <2>2 DEF FetchRequest, MemberIds
<1>6. CASE HeartbeatEvent
  BY <1>1, <1>6, HeartbeatIsOK DEF HeartbeatEvent, SameRound
<1>7. CASE CommitEvent
  BY <1>7, CommitIs DEF CommitEvent, SameRound
<1>8. CASE MemberTimeout
  BY <1>1, <1>8, CheckTimeoutsIsOK DEF MemberTimeout, RoundGoesOn
<1>9. CASE Tick
  BY <1>9, TickKeepsOwners DEF SameRound
<1>10. CASE UNCHANGED group
  BY <1>10
<1>11. CASE Kernel
  BY <1>5, <1>6, <1>7, <1>8, <1>9, <1>11 DEF Kernel
<1>12. CASE Script
  BY <1>2, <1>3, <1>4, <1>10, <1>12
     DEF Script, ConsumerStall, Pause, Resume, Seek, RecordAppended, RetentionDelete
<1> QED
  BY <1>10, <1>11, <1>12 DEF Next, vars

\* The step that hands partitions out shares all of them.
LEMMA AssignmentStep ==
  ASSUME OwnersOK, [Next]_vars, AssignmentMade
  PROVE  Shared(group'.members)
<1> DEFINE n == queue[1].generation
<1>1. /\ GroupOK(group) /\ group.assignor = config.assignor
      /\ group'.state # group.state
  BY DEF OwnersOK, TypeOK, GroupOK, AssignmentMade
<1>2. ~(group'.state \in {group.state, "Empty", "PreparingRebalance"})
  BY <1>1 DEF AssignmentMade
<1>3. CASE RebalanceComplete
  <2> DEFINE r == CompleteRebalance(group, n)
  <2>1. group' = r.group /\ n \in Nat
    BY <1>3, FirstEvent DEF RebalanceComplete, Due
  <2>2. CASE group.state = "PreparingRebalance" /\ group.generationId = n
    <3>1. /\ r.group.state = "CompletingRebalance"
          /\ Eager(group.assignor) => Full(r.group.members)
      BY <1>1, <2>1, <2>2, CompleteRebalanceIsOK
    <3>2. Eager(group.assignor)
      BY <1>1, <2>1, <3>1 DEF AssignmentMade
    <3> HIDE DEF r
    <3> QED
      BY <2>1, <3>1, <3>2, FullIsShared
  <2>3. CASE ~(group.state = "PreparingRebalance" /\ group.generationId = n)
    BY <1>1, <2>1, <2>3 DEF CompleteRebalance, Result
  <2> QED
    BY <2>2, <2>3
<1>4. CASE SyncGroupEvent
  <2> DEFINE h == SyncGroup(group, n)
  <2>1. group' = h
    BY <1>4 DEF SyncGroupEvent
  <2>2. CASE group.state = "CompletingRebalance" /\ group.generationId = n
    <3>1. h.state = "Stable" /\ (~Eager(group.assignor) => Full(h.members))
      BY <1>1, <2>2, SyncGroupIsOK
    <3>2. ~Eager(group.assignor)
      BY <1>1, <2>1, <3>1 DEF AssignmentMade
    <3> HIDE DEF h
    <3> QED
      BY <2>1, <3>1, <3>2, FullIsShared
  <2>3. CASE ~(group.state = "CompletingRebalance" /\ group.generationId = n)
    BY <1>1, <2>1, <2>3 DEF SyncGroup
  <2> QED
    BY <2>2, <2>3
<1> QED
  BY <1>2, <1>3, <1>4, OthersHandOutNothing

\* Whenever a round hands partitions out - an eager one when it completes, a
\* cooperative one when it is synced - every partition of a topic that some
\* member subscribed to has an owner that did, for every assignor, and for
\* every number of members and partitions.
THEOREM HandedOutInFull == Spec => AssignmentIsFull
<1>1. ASSUME OwnersOK, [Next]_vars
      PROVE  AssignmentMade =>
               \A p \in TopicPartitions :
                 IF \E m \in MemberIds(group)' : p[1] \in Subscriptions[m]
                 THEN \E m \in Owners(p)' : p[1] \in Subscriptions[m]
                 ELSE Owners(p)' = {}
  <2>1. AssignmentMade => Shared(group'.members)
    BY <1>1, AssignmentStep
  <2> QED
    BY <2>1 DEF Shared, Owners, MemberIds
<1> QED
  BY <1>1, GroupTypeCorrect, PTL DEF Spec, AssignmentIsFull

-----------------------------------------------------------------------------
(* What is committed was read *)

\* All that is still in the log before offset x was returned by some poll.
ReadUpTo(p, x) ==
  x # None => partitions[p].logStartOffset .. x - 1 \subseteq handedOut[p]

\* No consumer stands beyond what was read, nor does any committed offset.
ReadOK ==
  config.autoOffsetReset = "earliest" =>
    \A p \in TopicPartitions :
      /\ ReadUpTo(p, group.committedOffsets[p])
      /\ \A c \in DOMAIN consumers : ReadUpTo(p, consumers[c].position[p])

\* Before the first poll nobody stands anywhere.
LEMMA ReadInit ==
  ASSUME Init
  PROVE  ReadOK
BY DEF Init, NoGroup, ReadOK, ReadUpTo

\* Only commits change the committed offsets.
LEMMA OthersCommitNothing ==
  ASSUME OwnersOK, [Next]_vars, ~CommitEvent, \A c \in Consumers : ~ManualCommit(c)
  PROVE  group'.committedOffsets = group.committedOffsets
<1> DEFINE Same == group'.committedOffsets = group.committedOffsets
<1>1. GroupOK(group) /\ queue \in Seq(Events)
  BY DEF OwnersOK, TypeOK, GroupOK
<1>2. ASSUME NEW c \in Consumers, ConsumerJoin(c)
      PROVE  Same
  BY <1>1, <1>2, JoinGroupIsOK DEF ConsumerJoin, SameGroup, MemberIds
<1>3. ASSUME NEW c \in Consumers, ConsumerLeave(c)
      PROVE  Same
  BY <1>1, <1>3, LeaveGroupIsOK DEF ConsumerLeave, SameGroup
<1>4. CASE FetchRequest
  <2> DEFINE c == queue[1].consumer
  <2>1. CASE group' = group
    BY <2>1
  <2>2. CASE c \in DOMAIN group.members /\ group' = [group EXCEPT !.members[c].pollAge = 0]
    BY <1>1, <2>2, PollIsOK
  <2> QED
    BY <1>4, <2>1, <2>2 DEF FetchRequest, MemberIds
<1>5. CASE HeartbeatEvent
  BY <1>1, <1>5, HeartbeatIsOK DEF HeartbeatEvent
<1>6. CASE RebalanceComplete
  <2> DEFINE n == queue[1].generation
             r == CompleteRebalance(group, n)
  <2>1. group' = r.group
    BY <1>6 DEF RebalanceComplete
  <2>2. CASE group.state = "PreparingRebalance" /\ group.generationId = n
    BY <1>1, <2>1, <2>2, CompleteRebalanceIsOK DEF SameGroup
  <2>3. CASE ~(group.state = "PreparingRebalance" /\ group.generationId = n)
    BY <2>1, <2>3 DEF CompleteRebalance, Result
  <2> QED
    BY <2>2, <2>3
<1>7. CASE SyncGroupEvent
  <2> DEFINE n == queue[1].generation
  <2>1. group' = SyncGroup(group, n)
    BY <1>7 DEF SyncGroupEvent
  <2>2. CASE group.state = "CompletingRebalance" /\ group.generationId = n
    BY <1>1, <2>1, <2>2, SyncGroupIsOK
  <2>3. CASE ~(group.state = "CompletingRebalance" /\ group.generationId = n)
    BY <2>1, <2>3 DEF SyncGroup
  <2> QED
    BY <2>2, <2>3
<1>8. CASE MemberTimeout
  BY <1>1, <1>8, CheckTimeoutsIsOK DEF MemberTimeout, SameGroup
<1>9. CASE Tick
  BY <1>9, TickKeepsOwners
<1>10. CASE UNCHANGED group
  BY <1>10
<1>11. CASE Kernel
  BY <1>4, <1>5, <1>6, <1>7, <1>8, <1>9, <1>11 DEF Kernel
<1>12. CASE Script
  BY <1>2, <1>3, <1>10, <1>12
     DEF Script, ConsumerStall, Pause, Resume, Seek, RecordAppended, RetentionDelete
<1> QED
  BY <1>10, <1>11, <1>12 DEF Next, vars

\* A poll reads on from where its consumer stands, or from the log start.
LEMMA FetchKeepsRead ==
  ASSUME OwnersOK, ReadOK, FetchRequest
  PROVE  ReadOK'
<1> DEFINE c == queue[1].consumer
           poll == FetchRecords(c)
<1>1. /\ group'.committedOffsets = group.committedOffsets
      /\ config' = config /\ partitions' = partitions
  <2>1. ~CommitEvent /\ \A k \in Consumers : ~ManualCommit(k)
    <3>1. CommitEvent => FALSE
      BY DEF FetchRequest, CommitEvent, Due
    <3>2. ASSUME NEW k \in Consumers, ManualCommit(k)
          PROVE  FALSE
      BY <3>2, InputsAssumption DEF FetchRequest, ManualCommit, Request, Counted, OwnersOK, TypeOK
    <3> QED
      BY <3>1, <3>2
  <2>2. [Next]_vars
    BY DEF Next, Kernel
  <2> QED
    BY <2>1, <2>2, OthersCommitNothing DEF FetchRequest
<1>2. CASE ~(c \in DOMAIN consumers /\ consumers[c].stalled = 0)
  BY <1>1, <1>2 DEF FetchRequest, ReadOK, ReadUpTo
<1>3. CASE c \in DOMAIN consumers /\ consumers[c].stalled = 0
  <2> DEFINE left == [p \in TopicPartitions |-> IF p \in Fetchable(c) THEN poll.position[p]
                                                ELSE consumers[c].position[p]]
  <2>1. /\ consumers' = [consumers EXCEPT ![c].position = left]
        /\ handedOut' = [p \in TopicPartitions |->
                           handedOut[p] \cup (IF p \in Fetchable(c) THEN poll.read[p] ELSE {})]
    BY <1>3 DEF FetchRequest
  <2>2. ASSUME config.autoOffsetReset = "earliest", NEW p \in Fetchable(c)
        PROVE  partitions[p].logStartOffset .. poll.position[p] - 1 \subseteq handedOut[p] \cup poll.read[p]
    <3> DEFINE from == ResolvePosition(consumers[c].position[p], partitions[p])
               start == partitions[p].logStartOffset
               stands == consumers[c].position[p]
    <3>1. p \in TopicPartitions
      BY FetchableAre
    <3>2. from \in Nat /\ start \in Nat /\ stands \in Nat \cup {None}
      BY <1>3, <3>1, FetchRecordsAre
         DEF OwnersOK, TypeOK, RuntimesOK, Runtime, Positions, Partition
    <3>3. PICK count \in Nat : /\ poll.read[p] = from .. from + count - 1
                               /\ poll.position[p] = from + count
      BY <1>3, FetchRecordsAre
    <3>4. from = stands \/ from = start
      BY <2>2 DEF ResolvePosition
    <3>5. from = stands => stands # None
      BY <3>2, NoneAssumption
    <3>6. start .. from - 1 \subseteq handedOut[p]
      <4>1. CASE from = start
        BY <3>2, <4>1
      <4>2. CASE from = stands
        BY <1>3, <2>2, <3>1, <3>5, <4>2 DEF ReadOK, ReadUpTo
      <4> QED
        BY <3>4, <4>1, <4>2
    <3> HIDE DEF from, start, poll
    <3>7. start .. from + count - 1 \subseteq (start .. from - 1) \cup (from .. from + count - 1)
      BY <3>2
    <3>8. start .. poll.position[p] - 1 \subseteq handedOut[p] \cup poll.read[p]
      <4>1. poll.position[p] - 1 = from + count - 1
        BY <3>2, <3>3
      <4> QED
        BY <3>3, <3>6, <3>7, <4>1
    <3> QED
      BY <3>8 DEF start, poll
  <2> HIDE DEF poll
  <2>3. SUFFICES ASSUME config.autoOffsetReset = "earliest", NEW p \in TopicPartitions
                 PROVE  /\ ReadUpTo(p, group.committedOffsets[p])'
                        /\ \A k \in DOMAIN consumers' : ReadUpTo(p, consumers[k].position[p])'
    BY <1>1 DEF ReadOK
  <2>4. \A x : ReadUpTo(p, x) => (x # None => partitions[p].logStartOffset .. x - 1 \subseteq handedOut'[p])
    BY <2>1 DEF ReadUpTo
  <2>5. ReadUpTo(p, group.committedOffsets[p])'
    BY <1>1, <2>3, <2>4 DEF ReadOK, ReadUpTo
  <2>6. ASSUME NEW k \in DOMAIN consumers'
        PROVE  ReadUpTo(p, consumers[k].position[p])'
    <3>1. k \in DOMAIN consumers /\ consumers[k] \in Runtime
      BY <2>1 DEF OwnersOK, TypeOK, RuntimesOK
    <3>2. ReadUpTo(p, consumers[k].position[p])
      BY <2>3, <3>1 DEF ReadOK
    <3>3. CASE k = c /\ p \in Fetchable(c)
      <4>1. consumers'[k].position[p] = poll.position[p]
        BY <1>3, <2>1, <3>1, <3>3 DEF Runtime
      <4>2. handedOut'[p] = handedOut[p] \cup poll.read[p]
        BY <2>1, <3>3
      <4> QED
        BY <1>1, <2>2, <2>3, <3>3, <4>1, <4>2 DEF ReadUpTo
    <3>4. CASE ~(k = c /\ p \in Fetchable(c))
      <4>1. consumers'[k].position[p] = consumers[k].position[p]
        BY <1>3, <2>1, <3>1, <3>4 DEF Runtime
      <4> QED
        BY <1>1, <2>4, <3>2, <4>1 DEF ReadUpTo
    <3> QED
      BY <3>3, <3>4
  <2> QED
    BY <2>5, <2>6
<1> QED
  BY <1>2, <1>3

\* A step that polls nothing: the log is only cut from below, a commit takes
\* over where its consumer stands, and a consumer only moves to the log start.
LEMMA ReadStays ==
  ASSUME OwnersOK, ReadOK, config' = config, handedOut' = handedOut,
         NEW c \in DOMAIN consumers \cup {None},
         \A p \in TopicPartitions :
           /\ partitions'[p].logStartOffset \in Nat
           /\ partitions[p].logStartOffset <= partitions'[p].logStartOffset
           /\ \/ group'.committedOffsets[p] = group.committedOffsets[p]
              \/ c # None /\ group'.committedOffsets[p] = consumers[c].position[p],
         \A p \in TopicPartitions, k \in DOMAIN consumers' :
           \/ k \in DOMAIN consumers /\ consumers'[k].position[p] = consumers[k].position[p]
           \/ consumers'[k].position[p] = None
           \/ consumers'[k].position[p] = partitions'[p].logStartOffset
  PROVE  ReadOK'
<1> SUFFICES ASSUME config.autoOffsetReset = "earliest", NEW p \in TopicPartitions
             PROVE  /\ ReadUpTo(p, group.committedOffsets[p])'
                    /\ \A k \in DOMAIN consumers' : ReadUpTo(p, consumers[k].position[p])'
  BY DEF ReadOK
<1>1. partitions[p].logStartOffset \in Nat
  BY DEF OwnersOK, TypeOK, Partition
<1>2. /\ group.committedOffsets[p] \in Nat \cup {None}
      /\ \A k \in DOMAIN consumers : consumers[k].position[p] \in Nat \cup {None}
  BY DEF OwnersOK, TypeOK, GroupState, RuntimesOK, Runtime, Positions
<1>3. ASSUME NEW x \in Nat \cup {None}, ReadUpTo(p, x)
      PROVE  x # None => partitions'[p].logStartOffset .. x - 1 \subseteq handedOut'[p]
  BY <1>1, <1>3 DEF ReadUpTo
<1>4. c # None => c \in DOMAIN consumers
  OBVIOUS
<1>5. ReadUpTo(p, group.committedOffsets[p])'
  <2>1. CASE group'.committedOffsets[p] = group.committedOffsets[p]
    BY <1>2, <1>3, <2>1 DEF ReadOK, ReadUpTo
  <2>2. CASE c # None /\ group'.committedOffsets[p] = consumers[c].position[p]
    <3>1. c \in DOMAIN consumers
      BY <2>2
    <3>2. consumers[c].position[p] \in Nat \cup {None} /\ ReadUpTo(p, consumers[c].position[p])
      BY <1>2, <3>1 DEF ReadOK
    <3> QED
      BY <1>3, <2>2, <3>2 DEF ReadUpTo
  <2> QED
    BY <2>1, <2>2
<1>6. ASSUME NEW k \in DOMAIN consumers'
      PROVE  ReadUpTo(p, consumers[k].position[p])'
  <2>1. CASE k \in DOMAIN consumers /\ consumers'[k].position[p] = consumers[k].position[p]
    <3>1. consumers[k].position[p] \in Nat \cup {None} /\ ReadUpTo(p, consumers[k].position[p])
      BY <1>2, <2>1 DEF ReadOK
    <3> QED
      BY <1>3, <2>1, <3>1 DEF ReadUpTo
  <2>2. CASE consumers'[k].position[p] = None
    BY <2>2 DEF ReadUpTo
  <2>3. CASE consumers'[k].position[p] = partitions'[p].logStartOffset
    <3>1. \A n \in Nat : n .. n - 1 = {}
      OBVIOUS
    <3> QED
      BY <2>3, <3>1 DEF ReadUpTo
  <2> QED
    BY <2>1, <2>2, <2>3
<1> QED
  BY <1>5, <1>6

\* Every step, when a script seeks to the earliest offset only.
LEMMA ReadStep ==
  ASSUME SeekTargets \subseteq {"earliest"}, OwnersOK, ReadOK, [Next]_vars
  PROVE  ReadOK'
<1> DEFINE KeepsLog == \A p \in TopicPartitions :
             /\ partitions'[p].logStartOffset \in Nat
             /\ partitions[p].logStartOffset <= partitions'[p].logStartOffset
           KeepsCommits == group'.committedOffsets = group.committedOffsets
           KeepsPositions == \A p \in TopicPartitions, k \in DOMAIN consumers' :
             \/ k \in DOMAIN consumers /\ consumers'[k].position[p] = consumers[k].position[p]
             \/ consumers'[k].position[p] = None
             \/ consumers'[k].position[p] = partitions'[p].logStartOffset
<1>1. \A p \in TopicPartitions : partitions[p].logStartOffset \in Nat /\ partitions[p].highWatermark \in Nat
  BY DEF OwnersOK, TypeOK, Partition
<1>2. partitions' = partitions => KeepsLog
  BY <1>1
<1>3. consumers' = consumers => KeepsPositions
  OBVIOUS
<1>4. ASSUME ~CommitEvent, \A c \in Consumers : ~ManualCommit(c),
             config' = config, handedOut' = handedOut, KeepsLog, KeepsPositions
      PROVE  ReadOK'
  <2>1. KeepsCommits
    BY <1>4, OthersCommitNothing
  <2> HIDE DEF ReadOK
  <2> QED
    BY <1>4, <2>1, ReadStays
<1>5. ASSUME NEW c \in DOMAIN consumers,
             group' = CommitOffsets(group, c, consumers[c].position),
             UNCHANGED <<config, consumers, partitions, handedOut>>
      PROVE  ReadOK'
  <2>1. \A p \in TopicPartitions :
          group'.committedOffsets[p] \in {group.committedOffsets[p], consumers[c].position[p]}
    BY <1>5, CommitIs
  <2>2. c # None
    BY KnownAre, NoneAssumption
  <2> HIDE DEF ReadOK
  <2> QED
    BY <1>2, <1>3, <1>5, <2>1, <2>2, ReadStays
<1>6. CASE CommitEvent
  <2> DEFINE c == queue[1].consumer
  <2>1. CASE c \in DOMAIN consumers
    BY <1>5, <1>6, <2>1 DEF CommitEvent
  <2>2. CASE c \notin DOMAIN consumers
    BY <1>6, <2>2 DEF CommitEvent, ReadOK, ReadUpTo
  <2> QED
    BY <2>1, <2>2
<1>7. ASSUME NEW c \in Consumers, ManualCommit(c)
      PROVE  ReadOK'
  BY <1>5, <1>7 DEF ManualCommit
<1>8. ASSUME ~CommitEvent, \A c \in Consumers : ~ManualCommit(c), ~FetchRequest
      PROVE  ReadOK'
  <2>1. config' = config /\ handedOut' = handedOut
    BY <1>8 DEF Next, vars, Script, Kernel, ConsumerJoin, ConsumerLeave, ConsumerStall, Pause,
                Resume, Seek, RecordAppended, RetentionDelete, HeartbeatEvent, RebalanceComplete,
                SyncGroupEvent, MemberTimeout, Tick
  <2>2. KeepsLog /\ KeepsPositions
    <3>1. ASSUME NEW c \in Consumers, ConsumerJoin(c)
          PROVE  KeepsLog /\ KeepsPositions
      BY <1>2, <3>1 DEF ConsumerJoin
    <3>2. ASSUME NEW c \in Consumers, ConsumerLeave(c)
          PROVE  KeepsLog /\ KeepsPositions
      BY <1>2, <3>2 DEF ConsumerLeave, Restrict
    <3>3. ASSUME NEW c \in Consumers, NEW duration \in Stalls, ConsumerStall(c, duration)
          PROVE  KeepsLog /\ KeepsPositions
      BY <1>2, <3>3 DEF ConsumerStall, OwnersOK, TypeOK, RuntimesOK, Runtime
    <3>4. ASSUME NEW c \in Consumers, NEW q \in TopicPartitions, Pause(c, q) \/ Resume(c, q)
          PROVE  KeepsLog /\ KeepsPositions
      <4>1. \E paused : consumers' = [consumers EXCEPT ![c].paused = paused]
        BY <3>4 DEF Pause, Resume
      <4>2. \A k \in DOMAIN consumers : consumers[k] \in Runtime
        BY DEF OwnersOK, TypeOK, RuntimesOK
      <4>3. KeepsPositions
        BY <4>1, <4>2 DEF Runtime
      <4>4. partitions' = partitions
        BY <3>4 DEF Pause, Resume
      <4> QED
        BY <1>2, <4>3, <4>4
    <3>5. ASSUME NEW c \in Consumers, NEW q \in TopicPartitions, NEW target \in SeekTargets,
                 Seek(c, q, target)
          PROVE  KeepsLog /\ KeepsPositions
      <4>1. /\ consumers' = [consumers EXCEPT ![c].position[q] = partitions[q].logStartOffset]
            /\ partitions' = partitions
        BY <3>5 DEF Seek, SeekOffset
      <4>2. \A k \in DOMAIN consumers : consumers[k] \in Runtime
        BY DEF OwnersOK, TypeOK, RuntimesOK
      <4>3. KeepsPositions
        BY <4>1, <4>2 DEF Runtime, Positions
      <4> QED
        BY <1>2, <4>1, <4>3
    <3>6. ASSUME NEW q \in TopicPartitions, RecordAppended(q)
          PROVE  KeepsLog /\ KeepsPositions
      <4>1. \A p \in TopicPartitions : partitions'[p].logStartOffset = partitions[p].logStartOffset
        BY <3>6 DEF RecordAppended, OwnersOK, TypeOK, Partition
      <4> QED
        BY <1>1, <1>3, <3>6, <4>1 DEF RecordAppended
    <3>7. ASSUME NEW q \in TopicPartitions, NEW offset \in Offsets, RetentionDelete(q, offset)
          PROVE  KeepsLog /\ KeepsPositions
      <4>1. offset \in Nat
        BY InputsAssumption DEF Offsets
      <4>2. \A p \in TopicPartitions :
              partitions'[p].logStartOffset = IF p = q THEN offset ELSE partitions[p].logStartOffset
        BY <3>7 DEF RetentionDelete, OwnersOK, TypeOK, Partition
      <4>3. partitions[q].logStartOffset <= offset
        BY <1>1, <3>7, <4>1 DEF RetentionDelete
      <4> QED
        BY <1>1, <1>3, <3>7, <4>1, <4>2, <4>3 DEF RetentionDelete
    <3>8. CASE Tick
      <4>1. consumers' = [c \in DOMAIN consumers |->
                            [consumers[c] EXCEPT !.stalled = IF @ = 0 THEN 0 ELSE @ - 1]]
        BY <3>8 DEF Tick
      <4>2. \A k \in DOMAIN consumers : consumers[k] \in Runtime
        BY DEF OwnersOK, TypeOK, RuntimesOK
      <4>3. KeepsPositions
        BY <4>1, <4>2 DEF Runtime
      <4> QED
        BY <1>2, <3>8, <4>3 DEF Tick
    <3>9. CASE UNCHANGED <<consumers, partitions>>
      BY <1>2, <1>3, <3>9
    <3>10. CASE Script
      BY <1>8, <3>1, <3>2, <3>3, <3>4, <3>5, <3>6, <3>7, <3>10 DEF Script
    <3>11. CASE Kernel
      BY <1>8, <3>8, <3>9, <3>11
         DEF Kernel, HeartbeatEvent, RebalanceComplete, SyncGroupEvent, MemberTimeout
    <3> QED
      BY <3>9, <3>10, <3>11 DEF Next, vars
  <2> HIDE DEF KeepsLog, KeepsPositions, ReadOK
  <2> QED
    BY <1>4, <1>8, <2>1, <2>2
<1> QED
  BY <1>6, <1>7, <1>8, FetchKeepsRead

\* With auto.offset.reset = earliest and seeks only to there, a committed
\* offset never passes over a record that is still in the log and that no poll
\* has returned, through every rebalance, stall, eviction and deletion.
THEOREM NothingIsSkipped ==
  ASSUME SeekTargets \subseteq {"earliest"}
  PROVE  Spec => []NothingCommittedUnread
<1> DEFINE IInv == OwnersOK /\ ReadOK
<1>1. Init => IInv
  BY OwnersInit, ReadInit
<1>2. IInv /\ [Next]_vars => IInv'
  BY OwnersStep, ReadStep
<1>3. IInv => NothingCommittedUnread
  BY DEF ReadOK, ReadUpTo, NothingCommittedUnread
<1> QED
  BY <1>1, <1>2, <1>3, PTL DEF Spec
=============================================================================
