\* Either file may get its first contents back.
CONSTANTS
  f1 = f1
  f2 = f2
  Files <- MCFiles
  Bad <- MCBad
  Debounce = 2
  BackoffBase = 1
  BackoffMax = 3
  MaxVersion = 2
  MaxWrites = 2
  MaxFaults = 2
SPECIFICATION FairSpec
INVARIANTS
  AppliedIsLoaded
PROPERTIES
  NoRollback
  DebounceHeld
  Converges
