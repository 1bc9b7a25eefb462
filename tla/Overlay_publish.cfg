CONSTANTS
  Brokers = {1, 2}
  Clients = {c1, c2}
  c1 = c1
  c2 = c2
  c3 = c3
  Topics = {0}
  NS = NS
  NULL = NULL
  ConditionTables <- Pair12
  MaxConvergence = 3
  SleepInWindow = FALSE
  Ping <- PingTable
  ClientTimers = {"WakeUp", "SubscribeDelay", "PublishDelay"}
  MaxInFlight = 0
  MaxPublications = 4
SPECIFICATION OverlaySpec
\* bounded by MaxConvergence
CHECK_DEADLOCK FALSE
INVARIANTS
  NoRuntimeError
  ClocksAreSound
