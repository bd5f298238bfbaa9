\* The five quantiles of the code; a buffer of eight in place of 512.
CONSTANTS
  BufferSize = 8
  Percents = {1, 10, 50, 90, 99}
  Scale = 495
  Buckets = 3
  Interval = 1
  Bursts = {0, 1, 9}
  Streams <- MCStreams
  MaxTime = 6
SPECIFICATION Spec
INVARIANTS
  WindowHeld
  RankClose
\* The clock stops at MaxTime.
CHECK_DEADLOCK FALSE
