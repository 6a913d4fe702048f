\* Four inputs of two brokers, three clicks, frames of two ticks; with
\* and without other events between a click and its effects.
SPECIFICATION PlaybackFairSpec
CONSTANTS
  Kinds <- Types
  Inputs <- FourInputs
  Script <- FourScripts
  Spawns <- TypesSpawned
  Invalid = {}
  Ceiling = 5
  MaxJournal = 4
  MaxTime = 3
  BrokerOf <- TwoBrokers
  Sandboxes <- TwoDrafts
  Duration = 2
  Deltas = {2}
  MaxClicks = 3
INVARIANTS
  PausedViewIsReplay
  SnapshotMatchesBroker
PROPERTIES
  PlayingEnds
CHECK_DEADLOCK FALSE
