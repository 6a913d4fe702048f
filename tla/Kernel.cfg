\* Every script of up to three lines at two times, targets up to 4, a ceiling
\* that the endless ones reach.  Every draft of nine clicks: after the last of
\* them the user stops.
SPECIFICATION KernelOrSandboxSpec
CHECK_DEADLOCK FALSE
CONSTANTS
  Kinds <- FourKinds
  Inputs <- Scripts
  Script <- OwnScript
  Spawns <- FourSpawns
  Invalid <- Rejected
  Ceiling = 8
  MaxJournal = 4
  MaxTime = 4
  MaxLines = 3
  MaxAt = 1
  MaxEdits = 9
  MaxId = 3
  MaxPublished = 2
  Times = {1}
  Rates = {0, 2}
  Second = 2
  HorizonSeconds = 1
  TopicNames = {"orders"}
  Counts = {0, 2}
INVARIANTS
  SlicingDoesNotMatter
  EachEventOnceInOrder
  DraftsStayWhole
