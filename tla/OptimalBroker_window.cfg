CONSTANTS
  Brokers = {1, 2, 3}
  Clients = {}
  Topics = {}
  NS = NS
  NULL = NULL
  ConditionTables <- AllTables
  MaxConvergence = 6
  SleepInWindow = TRUE
SPECIFICATION Spec
\* bounded by MaxConvergence
CHECK_DEADLOCK FALSE
PROPERTIES
  OneBrokerStays
