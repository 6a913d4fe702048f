\* The seventeen lessons, with their seeds.
SPECIFICATION EngineSpec
CONSTANTS
  Star = "*"
  Hash = "#"
  Exchanges <- MCExchanges
  Queues <- MCQueues
  Consumers <- MCConsumers
  Keys <- MCKeys
  NoExchange = NoExchange
  NoKey = NoKey
  Inputs <- MCInputs
  Lessons <- MCLessons
INVARIANTS
  LessonsRunAsTold
CHECK_DEADLOCK FALSE
