--------------------------- MODULE NeighboursMap ---------------------------
(***************************************************************************)
(* The neighbours of a broker (Nodes/Brokers/NeighboursMap): a vector of   *)
(* entries, one for each node the broker has an output gate to, with NULL  *)
(* where an entry has been removed.  An entry holds the node and the       *)
(* topics it subscribes to; the gate is identified with the node it is     *)
(* connected to.  Every look-up takes the first entry of a node.           *)
(***************************************************************************)
EXTENDS Messages, FiniteSets, FiniteSetsExt

(* The mark of a free place in the vector of an entry's topics.            *)
Free == -1

NeighbourEntry ==
    [node : Brokers \cup Clients, subscriptions : SUBSET (Topics \cup {Free})]

(* A removed entry is told from any other.                                 *)
ASSUME EntriesAssumption == NULL \notin NeighbourEntry

NeighboursVector == Seq(NeighbourEntry \cup {NULL})

(* The positions of node n, and of any node, in vector v.                  *)
Places(v, n) == {i \in {j \in DOMAIN v : v[j] # NULL} : v[i].node = n}
Used(v) == {i \in DOMAIN v : v[i] # NULL}
Holes(v) == {i \in DOMAIN v : v[i] = NULL}

Neighbours(v) == {v[i].node : i \in Used(v)}
NeighbourBrokers(v) == Neighbours(v) \cap Brokers

(* hasNode, and getOutputGate(n) # NULL *)
hasNode(v, n) == Places(v, n) # {}

(* addMapping: into the first hole, else at the end.  No check is made for *)
(* an entry of the same node.                                              *)
addMapping(v, n) ==
    LET ne == [node |-> n, subscriptions |-> {}]
    IN  IF Holes(v) # {} THEN [v EXCEPT ![Min(Holes(v))] = ne] ELSE Append(v, ne)

removeMapping(v, n) ==
    IF hasNode(v, n) THEN [v EXCEPT ![Min(Places(v, n))] = NULL] ELSE v

(* The state after removeMapping has been called for every entry in turn:  *)
(* a vector of NULLs, which nothing distinguishes from an empty one.       *)
NoNeighbours == <<>>

(* What the topic vector of the first entry of n holds (isSubscribed).     *)
TopicsOf(v, n) ==
    IF hasNode(v, n) THEN v[Min(Places(v, n))].subscriptions ELSE {}

(* removeSubscription frees the place of the topic, if it has one.         *)
removeSubscription(v, n, topic) ==
    IF topic \in TopicsOf(v, n)
    THEN [v EXCEPT ![Min(Places(v, n))].subscriptions = (@ \ {topic}) \cup {Free}]
    ELSE v

(* getSubscribers: the entries that hold the topic.                        *)
Subscribers(v, topic) == {i \in Used(v) : topic \in v[i].subscriptions}

(* getSubscriptions(): the topics with a subscriber.                       *)
AllSubscriptions(v) == (UNION {v[i].subscriptions : i \in Used(v)}) \ {Free}

(* getSubscriptions(n): NeighbourEntry::getSubscriptions starts from a     *)
(* vector of as many zeros as the entry has places, and adds the topics.   *)
SubscriptionsOf(v, n) ==
    (TopicsOf(v, n) \ {Free}) \cup (IF TopicsOf(v, n) = {} THEN {} ELSE {0})

(* How often each node occurs among the entries at the given positions:    *)
(* the number of messages a loop over these entries sends to it.           *)
Copies(v, places) ==
    [n \in Nodes |-> Cardinality(Places(v, n) \cap places)]

BrokerPlaces(v) == {i \in Used(v) : v[i].node \in Brokers}
ClientPlaces(v) == {i \in Used(v) : v[i].node \in Clients}
=============================================================================
