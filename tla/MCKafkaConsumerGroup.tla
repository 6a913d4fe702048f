-------------------------- MODULE MCKafkaConsumerGroup --------------------------
(* Instances of KafkaConsumerGroup for TLC. *)
EXTENDS KafkaConsumerGroup

CONSTANTS c1, c2, c3, orders, payments

TwoConsumers == <<c1, c2>>
ThreeConsumers == <<c1, c2, c3>>
OneTopic == <<orders>>
TwoTopics == <<orders, payments>>
TwoPartitions == orders :> 2
TwoAndOne == orders :> 2 @@ payments :> 1
BothReadOrders == c1 :> {orders} @@ c2 :> {orders}
\* c2 does not subscribe to payments.
Uneven == c1 :> {orders, payments} @@ c2 :> {orders} @@ c3 :> {orders, payments}

With(assignor, reset, auto) ==
  [assignor |-> assignor, autoOffsetReset |-> reset, enableAutoCommit |-> auto]

EveryAssignor == {With(assignor, "latest", FALSE) : assignor \in Assignors}
Cooperative == {With("cooperative-sticky", "earliest", TRUE)}
=============================================================================
