----------------------------- MODULE MCKafkaProducer -----------------------------
(* The instance of KafkaProducer for TLC: two replicas. *)
EXTENDS KafkaProducer, TLC

CONSTANTS b1, b2

TwoReplicas == {b1, b2}
Order == b1 :> 0 @@ b2 :> 1
FollowersOfTwo == {b2}

Config(minInsync, unclean) ==
  [minInsyncReplicas |-> minInsync, uncleanLeaderElection |-> unclean]

BothInsync == {Config(2, FALSE)}

Producer(acks, idempotent, serial, retries) ==
  [acks |-> acks, idempotent |-> idempotent, serial |-> serial, retries |-> retries]

\* An idempotent producer that waits for every replica, the same waiting for
\* the leader only, and a producer with one request in flight that is neither.
ThreeProducers == { Producer("all", TRUE,  FALSE, 1),
                    Producer("1",   TRUE,  FALSE, 2),
                    Producer("1",   FALSE, TRUE,  1) }
=============================================================================
