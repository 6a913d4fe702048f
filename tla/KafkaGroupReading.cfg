\* Two cooperative consumers that read two partitions.
SPECIFICATION FairSpec
CONSTANTS
  c1 = c1
  c2 = c2
  c3 = c3
  orders = orders
  payments = payments
  None = None
  ConsumerOrder <- TwoConsumers
  TopicOrder <- OneTopic
  PartitionCount <- TwoPartitions
  Subscriptions <- BothReadOrders
  Configs <- Cooperative
  SessionTimeout = 2
  MaxPollInterval = 1
  RebalanceTimeout = 1
  PollInterval = 1
  HeartbeatInterval = 1
  ScanInterval = 1
  AutoCommitInterval = 1
  MaxPollRecords = 1
  SeekTargets = {"earliest"}
  Stalls = {3}
  MaxCommands = 3
  MaxRequests = 1
  MaxRecords = 1
CHECK_DEADLOCK FALSE
INVARIANTS
  NothingCommittedUnread
PROPERTIES
  OwnedIsReadToTheEnd
