\* Three producers over two replicas, three records, two armed faults.
SPECIFICATION ProducerFairSpec
CONSTANTS
  b1 = b1
  b2 = b2
  Replicas <- TwoReplicas
  Rank <- Order
  LagMax = 0
  FirstLeader = b1
  Fetchers <- FollowersOfTwo
  Topics <- BothInsync
  MaxRecords = 3
  MaxFaults = 1
  Producers <- ThreeProducers
  BatchRecords = 2
  MaxArmed = 2
INVARIANTS
  LogIsSendOrder
  OnePlaceAtATime
PROPERTIES
  AcksNeverLie
  PipelinedSendsAreAnswered
