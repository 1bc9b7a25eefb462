CONSTANTS
  Brokers = {1, 2, 3}
  Clients = {}
  Topics = {}
  NS = NS
  NULL = NULL
  ConditionTables <- AllTables
  MaxConvergence = 5
  SleepInWindow = FALSE
SPECIFICATION FairSpec
\* bounded by MaxConvergence
CHECK_DEADLOCK FALSE
INVARIANTS
  QuietMeansSettled
PROPERTIES
  OneBrokerStays
  BuildsForest
  Converges
