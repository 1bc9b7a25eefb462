CONSTANTS
  Brokers = {1, 2, 3}
  Clients = {c1, c2, c3}
  c1 = c1
  c2 = c2
  c3 = c3
  Topics = {0, 1}
  NS = NS
  NULL = NULL
  ConditionTables <- Line
  MaxConvergence = 3
  SleepInWindow = FALSE
  Ping <- PingTable
  ClientTimers = {"PublishDelay"}
  MaxInFlight = 12
  MaxPublications = 3
SPECIFICATION GroupSpec
\* bounded by MaxPublications
CHECK_DEADLOCK FALSE
INVARIANTS
  Delivered
PROPERTIES
  ServesBroadcast
