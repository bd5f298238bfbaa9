\* Indexes up to 6, of which the source keeps two; the connection may break.
CONSTANTS
  Ring = 2
  Batch = 2
  Queue = 2
  IdleMax = 1
  MaxIndex = 6
  MayBreak = TRUE
SPECIFICATION FairSpec
INVARIANTS
  InOrder
  TargetAccounts
PROPERTIES
  SourceGone
  NothingComes
  QuitOnSignal
\* The workers end.
CHECK_DEADLOCK FALSE
