CONSTANTS
  Brokers = {1, 2, 3, 4}
  Clients = {}
  Topics = {}
  NS = NS
  NULL = NULL
  ConditionTables <- SomeTables
  MaxConvergence = 5
  SleepInWindow = FALSE
SPECIFICATION Spec
\* bounded by MaxConvergence
CHECK_DEADLOCK FALSE
INVARIANTS
  TypeOK
  NoRuntimeError
  Forest
  LinksAreMutual
  MembersAreLinked
  AgreeOnLeader
  OneReportPerMember
  NoEmptyReport
  NoHopCycle
  SameRoundSameBrokers
  NoJoinIsLost
  ConvergedMeansAll
  OneLinkEach
PROPERTIES
  ConnectsInOrder
  MergesFragments
