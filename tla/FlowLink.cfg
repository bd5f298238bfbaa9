\* Leases may run out at any moment, Stop at any moment; one fault, up to three
\* attempts.
CONSTANTS
  MaxInc = 3
  MaxIds = 3
  MaxFaults = 1
  Lease = 1
  Timely = FALSE
  MayStop = TRUE
  Infos <- MCInfos
  Answers <- MCAnswers
SPECIFICATION FairSpec
INVARIANTS
  StoppedIsClean
  OneInitiatorPerInfo
  RenewsOwnLease
PROPERTIES
  StopCompletes
  
\* The target may be stopped and its remote subscription over.
CHECK_DEADLOCK FALSE
