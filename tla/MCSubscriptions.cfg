\* Three subscriptions, two target infos, a lease of one tick.
CONSTANTS
  Infos <- MCInfos
  Lease = 1
  MaxIds = 3
SPECIFICATION SubsFairSpec
INVARIANTS
  WorkersOwned
  ExitLeavesOnlyLate
PROPERTIES
  
  ShutdownEnds
\* The process exits.
CHECK_DEADLOCK FALSE
