CONSTANTS
  NULL = NULL
  NS = NS
  Brokers = {1, 2, 3}
  Clients = {c1}
  Topics = {}
  Draws = {0, 1, 2, 3, 4, 5, 6}
  Keys = {k1, k2}
  Values = {1, 2}
  MaxItems = 5
SPECIFICATION UtilitiesSpec
\* bounded by MaxItems; the table is drawn once
CHECK_DEADLOCK FALSE
INVARIANTS
  ListIsSound
  MapIsSound
  TableIsSound
PROPERTIES
  ListKeepsItems
  MapKeepsItems
