\* The lessons, and scripts with alternatives for waiting, transactions, eviction, expiry,
\* every command, crashes and replication.
SPECIFICATION Spec
CONSTANTS
  Keys <- MCKeys
  Clients <- MCClients
  NumeralRange <- MCNumeralRange
  MemberOrder <- MCMemberOrder
  Glob <- MCGlob
  KeySlot <- MCKeySlot
  Scripts <- MCScripts
  Replicas = {"replica-1", "replica-2"}
  ServerId = "redis"
  ActiveExpireSample = 20
  TravelMs = 120
  Inputs <- MCInputs
INVARIANTS
  BooksBalance
  SleepersAreWatched
  EachCommandOnce
  WatchSeesEveryChange
  DeadKeysGoWithinACycle
  LessonsEndAsTold
PROPERTIES
  WaitersInTurn
  GrowthWithinBudget
CHECK_DEADLOCK FALSE
