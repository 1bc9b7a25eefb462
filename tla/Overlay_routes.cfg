CONSTANTS
  Brokers = {1, 2, 3}
  Clients = {c1, c2}
  c1 = c1
  c2 = c2
  c3 = c3
  Topics = {0}
  NS = NS
  NULL = NULL
  ConditionTables <- Line
  MaxConvergence = 3
  SleepInWindow = FALSE
  Ping <- PingTable
  ClientTimers = {"WakeUp", "Sleep", "SubscribeDelay", "UnsubscribeDelay"}
  MaxInFlight = 2
  MaxPublications = 0
SPECIFICATION LineSpec
\* bounded by ClientTimers
CHECK_DEADLOCK FALSE
INVARIANTS
  OverlayTypeOK
  RoutesComplete
  RoutesAreUsed
  OneEntryPerClient
