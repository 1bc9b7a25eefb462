CONSTANTS
  Brokers = {1, 2, 3}
  Clients = {c1, c2}
  c1 = c1
  c2 = c2
  c3 = c3
  Topics = {0}
  NS = NS
  NULL = NULL
  ConditionTables <- Line
  MaxConvergence = 3
  SleepInWindow = FALSE
  Ping <- PingTable
  ClientTimers = {"SubscribeDelay", "UnsubscribeDelay", "PublishDelay"}
  MaxInFlight = 1
  MaxPublications = 2
SPECIFICATION GroupSpec
\* bounded by MaxPublications
CHECK_DEADLOCK FALSE
INVARIANTS
  ClocksAreSound
  InSenderOrder
  NoIdleRoute
