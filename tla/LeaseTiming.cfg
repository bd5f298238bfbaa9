\* In units of 200ms: 9s, 0.2s, 5s, 3s, 2.8s, 20s and 5s.
CONSTANTS
  KeepAlive = 45
  InfoWait = 1
  CheckMax = 25
  AskMax = 15
  AnswerMax = 14
  LeaseTime = 100
  Sweep = 25
SPECIFICATION TimingSpec
INVARIANTS
  LeaseHeld
  OrphanBounded
\* The sweep ends the subscription of a target that is gone.
CHECK_DEADLOCK FALSE
