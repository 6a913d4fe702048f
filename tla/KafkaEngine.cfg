\* The lessons on one broker, and variations of timing on transactions, retries,
\* compaction, retention and group membership.
SPECIFICATION Spec
CONSTANTS
  Null = Null
  Utf8 <- MCUtf8
  Inputs <- MCInputs
INVARIANTS
  ReadCommittedIsStable
  ReadWithoutGaps
  LogAsKept
  NothingSentIsLost
  LessonsGoAsTold
CHECK_DEADLOCK FALSE
