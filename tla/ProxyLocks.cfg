\* Two connections, four requests, two workers of which one may die.
CONSTANTS
  Clients = {c1, c2}
  Workers = {k1, k2}
  Kinds = {"health", "create", "remove", "scrape"}
  LateObserver = FALSE
  MaxRequests = 4
  MaxExits = 1
SPECIFICATION FairSpec
INVARIANT MetricsFollowTable
PROPERTIES
  RequestsEnd
  JobsEnd
CHECK_DEADLOCK FALSE
