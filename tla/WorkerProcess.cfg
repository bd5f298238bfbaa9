SPECIFICATION Spec
CONSTANTS
  Clients = {c1, c2}
  c1 = c1
  c2 = c2
  MaxFds = 4
  Answer = 2
  Room = 1
INVARIANTS
  HandlesOwned
  AnswerWhole
  FdsOwned
PROPERTIES
  SignalEnds
  ScrapesAnswered
CHECK_DEADLOCK FALSE
