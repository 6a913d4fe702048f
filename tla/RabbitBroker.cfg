\* Priorities, rejections, competition, replies, a retry cycle, and a crash that races an ack.
SPECIFICATION FairSpec
CONSTANTS
  c1 = c1
  c2 = c2
  main = main
  left = left
  right = right
  retry = retry
  work = work
  wait = wait
  k = k
  a = a
  b = b
  Star = Star
  Hash = Hash
  Exchanges = {main, left, right, retry}
  Queues = {work, wait}
  Consumers = {c1, c2}
  Keys = {k}
  NoExchange = NoExchange
  NoKey = NoKey
  Inputs <- SevenInputs
INVARIANTS
  EveryCopyAccounted
  NoStrandedMessage
  EveryEntryWillExpire
  RoutingIsRight
PROPERTIES
  EveryMessageSettles
CHECK_DEADLOCK FALSE
