----------------------------- MODULE KafkaAssignors -----------------------------
(***************************************************************************)
(* The partition assignors of                                              *)
(* src/src/brokers/kafka/engine/group/assignors.ts, as functions from the  *)
(* partitions each member owns to the partitions it is to own.             *)
(*                                                                         *)
(* The code first sorts the members by id and the partitions by (topic,    *)
(* partition); here ConsumerOrder and TopicOrder are those orders, and an  *)
(* assignment is a set, since it is sorted again at the end.               *)
(***************************************************************************)
EXTENDS Integers, FiniteSets, SequencesExt

CONSTANTS
  ConsumerOrder,   \* the consumers of the group, in the order of their ids
  TopicOrder,      \* the topics, in the order of their names
  PartitionCount,  \* how many partitions each topic has
  Subscriptions    \* KafkaConsumerSpec.subscriptions, as a set

Consumers == ToSet(ConsumerOrder)
Topics == ToSet(TopicOrder)

ASSUME OrdersAssumption ==
  /\ ConsumerOrder \in Seq(Consumers) /\ IsInjective(ConsumerOrder)
  /\ TopicOrder \in Seq(Topics) /\ IsInjective(TopicOrder)
ASSUME TopicsAssumption ==
  /\ PartitionCount \in [Topics -> Nat \ {0}]
  /\ \A m \in Consumers : Subscriptions[m] \subseteq Topics

\* A TopicPartition is <<topic, partition>>.
PartitionsOf(topic) == [i \in 1 .. PartitionCount[topic] |-> <<topic, i - 1>>]

PartitionOrder ==
  FoldLeft(LAMBDA earlier, topic : earlier \o PartitionsOf(topic), <<>>, TopicOrder)
TopicPartitions == ToSet(PartitionOrder)

\* The partitions that come before p in that order.
Before(p) ==
  LET place(q) == CHOOSE i \in DOMAIN PartitionOrder : PartitionOrder[i] = q
  IN {q \in TopicPartitions : place(q) < place(p)}

Assignors == {"range", "round-robin", "sticky", "cooperative-sticky"}

\* The elements of a sequence that are in a set, in their order.
Among(s, S) == FoldLeft(LAMBDA found, x : IF x \in S THEN Append(found, x) ELSE found, <<>>, s)

\* The members subscribed to a topic, in order.
Subscribers(topic, members) == Among(ConsumerOrder, {m \in members : topic \in Subscriptions[m]})

Lesser(i, j) == IF i <= j THEN i ELSE j

-----------------------------------------------------------------------------
(* rangeAssign *)

\* The i-th of n contiguous runs of 0 .. count - 1: the first count % n of
\* them are one longer.
RangeRun(i, n, count) ==
  LET share == count \div n
      extra == count % n
      start == (i - 1) * share + Lesser(i - 1, extra)
  IN start .. start + share + (IF i <= extra THEN 1 ELSE 0) - 1

RangeAssign(members) ==
  LET share(m, topic) ==
        LET subscribed == Subscribers(topic, members)
            i == CHOOSE j \in DOMAIN subscribed : subscribed[j] = m
        IN {topic} \X RangeRun(i, Len(subscribed), PartitionCount[topic])
  IN [m \in members |-> UNION {share(m, topic) : topic \in Subscriptions[m]}]

-----------------------------------------------------------------------------
(* The cursor that round-robin and sticky share *)

\* Where a cursor over n members stops that skips those not in open.
Turn(cursor, n, open) ==
  CHOOSE j \in cursor .. cursor + n - 1 :
    /\ (j % n) + 1 \in open
    /\ \A k \in cursor .. j - 1 : (k % n) + 1 \notin open

\* One partition is given to the member whose turn it is, if anybody is open.
Dealt(deal, takers, open, p) ==
  IF open = {}
  THEN deal
  ELSE LET j == Turn(deal.cursor, Len(takers), open)
       IN [ cursor |-> j + 1,
            given  |-> [deal.given EXCEPT ![takers[(j % Len(takers)) + 1]] = @ \cup {p}] ]

\* roundRobinAssign: one cursor over all members and all partitions, which
\* passes over the members not subscribed to the partition's topic.
RoundRobinAssign(members) ==
  LET takers == Among(ConsumerOrder, members)
      open(p) == {i \in DOMAIN takers : p[1] \in Subscriptions[takers[i]]}
      next(deal, p) == Dealt(deal, takers, open(p), p)
      start == [cursor |-> 0, given |-> [m \in members |-> {}]]
  IN FoldLeft(next, start, PartitionOrder).given

-----------------------------------------------------------------------------
(* stickyAssign *)

\* A mutant: the share rounded down.
QuotaRoundedDown(count, n) == count \div n

Quota(count, n) == (count + n - 1) \div n

\* The first k partitions of a set of one topic's partitions.
Lowest(S, k) == {p \in S : Cardinality({q \in S : q[2] < p[2]}) < k}

\* What each subscriber of the topic keeps: at most its quota, lowest first.
Retained(topic, owned, quota) ==
  [m \in DOMAIN owned |->
     IF topic \in Subscriptions[m]
     THEN Lowest({p \in owned[m] : p[1] = topic}, quota)
     ELSE {}]

\* The partitions nobody keeps go to the members below quota, in turn.
StickyDeal(topic, owned) ==
  LET takers == Subscribers(topic, DOMAIN owned)
      quota == Quota(PartitionCount[topic], Len(takers))
      kept == Retained(topic, owned, quota)
      pool == Among(PartitionsOf(topic), TopicPartitions \ UNION {kept[m] : m \in DOMAIN kept})
      open(deal) == {i \in DOMAIN takers : Cardinality(deal.given[takers[i]]) < quota}
      next(deal, p) == Dealt(deal, takers, open(deal), p)
  IN IF takers = <<>>
     THEN [m \in DOMAIN owned |-> {}]
     ELSE FoldLeft(next, [cursor |-> 0, given |-> kept], pool).given

StickyAssign(owned) ==
  [m \in DOMAIN owned |-> UNION {StickyDeal(topic, owned)[m] : topic \in Topics}]

-----------------------------------------------------------------------------

\* owned: what each member of the group has now.
Assign(assignor, owned) ==
  CASE assignor = "range" -> RangeAssign(DOMAIN owned)
    [] assignor = "round-robin" -> RoundRobinAssign(DOMAIN owned)
    [] assignor \in {"sticky", "cooperative-sticky"} -> StickyAssign(owned)

RevocationsFor(previous, next) == [m \in DOMAIN previous |-> previous[m] \ next[m]]
=============================================================================
