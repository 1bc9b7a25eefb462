CONSTANTS
  Brokers = {1, 2}
  Clients = {c1}
  c1 = c1
  c2 = c2
  c3 = c3
  Topics = {0}
  NS = NS
  NULL = NULL
  ConditionTables <- Pair12
  MaxConvergence = 3
  SleepInWindow = FALSE
  Ping <- PingTable
  ClientTimers = {"WakeUp", "Sleep", "SubscribeDelay"}
  MaxInFlight = 1
  MaxPublications = 0
SPECIFICATION FairOverlaySpec
\* bounded by MaxConvergence
CHECK_DEADLOCK FALSE
PROPERTIES
  Reattaches
