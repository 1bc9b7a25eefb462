--------------------------- MODULE CausalDelivery ---------------------------
(***************************************************************************)
(* What the clients' vector clocks achieve by themselves (Client.cc,       *)
(* vectorClocks): clients that all know each other and subscribe to all    *)
(* topics, over a network that loses and doubles nothing but delivers in   *)
(* any order, as routes that change do.  The overlay, whose channels keep  *)
(* the order and form a tree, is left out; a broker in between only copies *)
(* publications.                                                           *)
(***************************************************************************)
EXTENDS Client

CONSTANT
    MaxPublications     \* bound on the publications of all clients

ASSUME DeliveryBounds ==
    MaxPublications \in Nat /\ IsFiniteSet(Clients) /\ Brokers # {}

VARIABLE
    underWay            \* underWay[c]: the publications on their way to c

delivery == <<kernel, client, underWay>>

(* A client attached to some broker, in the middle of its session, at an   *)
(* event that has just been taken off the queue.                           *)
Session(c) == Begin(c, [from |-> c, msg |-> publishDelayMsg], client[c])

(* Every client has seen one publication of each of the others; the        *)
(* history begins here.                                                    *)
Acquainted(c) ==
    LET others == SetToSeq(Clients \ {c})
    IN  [InitialClient(c) EXCEPT
           !.out = CHOOSE b \in Brokers : TRUE,
           !.subscriptions = Topics,
           !.vectors = [t \in Topics |->
                          [i \in 1 .. Cardinality(Clients) |->
                             [node |-> (<<c>> \o others)[i], value |-> 1]]]]

DeliveryInit ==
    /\ KernelInit
    /\ client = [c \in Clients |-> Acquainted(c)]
    /\ underWay = [c \in Clients |-> {}]

Made == MapThenSumSet(LAMBDA c : MapThenSumSet(
                        LAMBDA t : Value(client[c].vectors[t], c) - 1, Topics), Clients)

(* A client publishes; the message starts on its way to all the others.    *)
Publishes(c) ==
    /\ Made < MaxPublications
    /\ \E t \in Topics :
         LET e == publish(Session(c), t)
         IN  /\ client' = [client EXCEPT ![c] = e.st]
             /\ underWay' = [d \in Clients |->
                               IF d = c THEN underWay[d]
                               ELSE underWay[d] \cup ToSet(e.out[e.st.out])]
    /\ UNCHANGED kernel

(* Any publication that is under way to client c arrives.                  *)
Receives(c) ==
    /\ \E m \in underWay[c] :
         /\ client' = [client EXCEPT ![c] = handlePublishMessage(Session(c), m).st]
         /\ underWay' = [underWay EXCEPT ![c] = @ \ {m}]
    /\ UNCHANGED kernel

DeliveryNext == \E c \in Clients : Publishes(c) \/ Receives(c)

DeliverySpec == DeliveryInit /\ [][DeliveryNext]_delivery

-----------------------------------------------------------------------------

(* On each topic, the clocks alone make a causal broadcast of a network    *)
(* that delivers in any order: a publication waits until those its sender  *)
(* had made or seen have been handed over.                                 *)
AnyTopic == CHOOSE t \in Topics : TRUE

OnTopic(list) ==
    FoldLeft(LAMBDA r, p : IF p.topic = AnyTopic THEN Append(r, p) ELSE r, <<>>, list)

SeenOnTopic == [c \in Clients |-> OnTopic(client[c].seen)]

Broadcast == INSTANCE CausalBroadcast WITH
    Publications <- Publication, seen <- SeenOnTopic

DeliversBroadcast == Broadcast!BroadcastSpec

(* When everything has arrived nothing is postponed any more, and all have *)
(* seen the same.                                                          *)
AllSeen ==
    (\A c \in Clients : underWay[c] = {})
      => \A c, d \in Clients :
           /\ client[c].postponedMessages = <<>>
           /\ ToSet(client[c].seen) = ToSet(client[d].seen)
=============================================================================
