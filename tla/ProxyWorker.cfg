\* One receiving worker: two unexpected exits, one failed launch, any panic.
CONSTANTS
  IsTarget = TRUE
  Carried = {0, 2}
  Strays = TRUE
  MaxDeaths = 2
  MaxFails = 1
SPECIFICATION FairSpec
INVARIANTS
  NothingLeftBehind
  MetricsSocketOwned
  RestartsCounted
PROPERTIES
  ImplementsLife
  StopKills
  Relaunched
\* run() returns when its context is done, and the proxy may panic.
CHECK_DEADLOCK FALSE
