--------------------------- MODULE MCKafkaReplication ---------------------------
(* Instances of KafkaReplication for TLC: up to three replicas, b1 first. *)
EXTENDS KafkaReplication, TLC

CONSTANTS b1, b2, b3

TwoReplicas == {b1, b2}
ThreeReplicas == {b1, b2, b3}
Order == b1 :> 0 @@ b2 :> 1 @@ b3 :> 2
RankOfTwo == b1 :> 0 @@ b2 :> 1

Config(minInsync, unclean) ==
  [minInsyncReplicas |-> minInsync, uncleanLeaderElection |-> unclean]

\* Unclean election off with min.insync.replicas 2, and on with 1.
SafeAndUnclean == {Config(2, FALSE), Config(1, TRUE)}
Either == {Config(1, FALSE), Config(1, TRUE)}
=============================================================================
