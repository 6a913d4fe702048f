\* Crashes of a primary whose replicas lag behind it.
SPECIFICATION Spec
CONSTANTS
  Keys <- MCKeys
  Clients <- MCClients
  NumeralRange <- MCNumeralRange
  MemberOrder <- MCMemberOrder
  Glob <- MCGlob
  KeySlot <- MCKeySlot
  Scripts <- MCScripts
  Replicas = {"replica-1", "replica-2"}
  ServerId = "redis"
  ActiveExpireSample = 20
  TravelMs = 120
  Inputs <- CrashInputs
INVARIANTS
  ReplicaNeverAhead
CHECK_DEADLOCK FALSE
