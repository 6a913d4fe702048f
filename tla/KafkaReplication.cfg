\* Three replicas, three faults, and both policies of leader election.
SPECIFICATION Spec
CONSTANTS
  b1 = b1
  b2 = b2
  b3 = b3
  Replicas <- ThreeReplicas
  Rank <- Order
  LagMax = 0
  FirstLeader = b1
  Fetchers <- ThreeReplicas
  Topics <- SafeAndUnclean
  MaxRecords = 2
  MaxFaults = 3
INVARIANTS
  LeaderInIsr
  CommittedIsReplicated
  AckedIsCommitted
  ParkedRecordInLog
PROPERTIES
  ImplementsCommittedLog
