\* terminate() after an unexpected exit, no failed launch, no stray line.
CONSTANTS
  IsTarget = TRUE
  Carried = {0}
  Strays = FALSE
  MaxDeaths = 1
  MaxFails = 0
SPECIFICATION FairSpec
PROPERTY WorkerRetries
CHECK_DEADLOCK FALSE
