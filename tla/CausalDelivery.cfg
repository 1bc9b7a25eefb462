CONSTANTS
  Brokers = {1}
  Clients = {c1, c2, c3}
  Topics = {0}
  NS = NS
  NULL = NULL
  Ping <- PingTable
  MaxPublications = 4
SPECIFICATION DeliverySpec
\* bounded by MaxPublications
CHECK_DEADLOCK FALSE
INVARIANTS
  AllSeen
PROPERTIES
  DeliversBroadcast
