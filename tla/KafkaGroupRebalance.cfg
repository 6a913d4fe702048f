\* Three consumers, three partitions of two topics, every assignor.
SPECIFICATION Spec
CONSTANTS
  c1 = c1
  c2 = c2
  c3 = c3
  orders = orders
  payments = payments
  None = None
  ConsumerOrder <- ThreeConsumers
  TopicOrder <- TwoTopics
  PartitionCount <- TwoAndOne
  Subscriptions <- Uneven
  Configs <- EveryAssignor
  SessionTimeout = 2
  MaxPollInterval = 1
  RebalanceTimeout = 1
  PollInterval = 1
  HeartbeatInterval = 1
  ScanInterval = 1
  AutoCommitInterval = 1
  MaxPollRecords = 1
  SeekTargets = {}
  Stalls = {3}
  MaxCommands = 3
  MaxRequests = 0
  MaxRecords = 0
CHECK_DEADLOCK FALSE
INVARIANTS
  OwnedByOne
  WhatMustComeIsScheduled
PROPERTIES
  AssignmentIsFull
