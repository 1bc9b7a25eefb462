CONSTANTS
  Brokers = {1, 2}
  Clients = {c1}
  c1 = c1
  c2 = c2
  c3 = c3
  Topics = {0}
  NS = NS
  NULL = NULL
  ConditionTables <- Pair12
  MaxConvergence = 4
  SleepInWindow = FALSE
  Ping <- PingTable
  ClientTimers = {"WakeUp", "Sleep", "SubscribeDelay", "UnsubscribeDelay"}
  MaxInFlight = 1
  MaxPublications = 0
SPECIFICATION OverlaySpec
\* bounded by MaxConvergence
CHECK_DEADLOCK FALSE
INVARIANTS
  NoRuntimeError
  RoutesComplete
