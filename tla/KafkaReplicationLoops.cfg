\* Two replicas, both with a fetch loop: an online replica gets back in.
SPECIFICATION FairSpec
CONSTANTS
  b1 = b1
  b2 = b2
  b3 = b3
  Replicas <- TwoReplicas
  Rank <- RankOfTwo
  LagMax = 0
  FirstLeader = b1
  Fetchers <- TwoReplicas
  Topics <- Either
  MaxRecords = 2
  MaxFaults = 2
PROPERTIES
  StableReplicaRejoins
