--------------------------- MODULE AcyclicBroker ---------------------------
(***************************************************************************)
(* The publish/subscribe layer every broker inherits (Nodes/Brokers/       *)
(* Broker.cc, AcyclicBroker.cc): how a broker keeps the subscriptions of   *)
(* its neighbours and passes them on in an acyclic overlay.  The handlers  *)
(* are functions on effects (see Simulation).                              *)
(***************************************************************************)
EXTENDS Simulation, NeighboursMap, SequencesExt

(* A subscription a node has made.                                         *)
Subscription == [subscriber : Brokers \cup Clients, topic : Topics]

(* send(m, gate) where the gate leads to node n: a runtime error if there  *)
(* is no such gate, or if it has been disconnected.                        *)
Send(e, n, m) ==
    IF n # NULL /\ hasNode(e.st.neighboursMap, n) THEN SendTo(e, n, m) ELSE Fault(e)

(* The topics among new subscriptions subs that have to be passed on to    *)
(* neighbour n: not to the subscriber itself, and only if the subscriber's *)
(* entry does not hold the topic already.                                  *)
ToPassOn(e, subs, n) ==
    {s.topic : s \in {x \in subs : /\ x.subscriber # n
                                   /\ x.topic \notin TopicsOf(e.st.neighboursMap, x.subscriber)}}

(* AcyclicBroker::handleSubscription for each of a set of subscriptions:   *)
(* pass the new ones on to the neighbouring brokers, then store them.  The *)
(* subscription of a node that has no entry is passed on but not stored.   *)
HandleSubscriptions(e, subs) ==
    LET nm == e.st.neighboursMap
        message(n) == [type |-> "Subscription", subscriber |-> e.self,
                       topics |-> ToPassOn(e, subs, n)]
    IN  [e EXCEPT
          !.st.neighboursMap =
             [i \in DOMAIN nm |->
                IF nm[i] # NULL /\ i = Min(Places(nm, nm[i].node))
                THEN [nm[i] EXCEPT !.subscriptions =
                        @ \cup {s.topic : s \in {x \in subs : x.subscriber = nm[i].node}}]
                ELSE nm[i]],
          !.st.subscriptionMonitor =
             @ \cup UNION {ToPassOn(e, subs, n) : n \in NeighbourBrokers(nm)},
          !.out =
             [n \in Nodes |->
                IF ToPassOn(e, subs, n) = {} THEN @[n]
                ELSE @[n] \o [i \in 1 .. Copies(nm, BrokerPlaces(nm))[n] |-> message(n)]]]

(* No subscriber of the topics is left here: take back this broker's own   *)
(* subscriptions, from every neighbouring broker.                          *)
UnsubscribeFromBrokers(e, topics) ==
    LET nm == e.st.neighboursMap
        message(t) == [type |-> "Unsubscription", unsubscriber |-> e.self, topic |-> t]
    IN  FoldLeft(LAMBDA f, t : SendCopies(f, Copies(nm, BrokerPlaces(nm)), message(t)),
                 [e EXCEPT !.st.subscriptionMonitor = @ \ topics],
                 SetToSeq(topics))

Unneeded(e, topics) ==
    {t \in topics : t \in e.st.subscriptionMonitor
                      /\ Subscribers(e.st.neighboursMap, t) = {}}

(* Mutants: the brokers are told although other subscribers are left; the  *)
(* case of one broker left is forgotten.                                   *)
handleUnsubscription_NotLast(e, m) ==
    UnsubscribeFromBrokers(
      [e EXCEPT !.st.neighboursMap = removeSubscription(@, m.unsubscriber, m.topic)],
      {m.topic} \cap e.st.subscriptionMonitor)

handleUnsubscription_NotOnly(e, m) ==
    LET nm == removeSubscription(e.st.neighboursMap, m.unsubscriber, m.topic)
        e1 == [e EXCEPT !.st.neighboursMap = nm]
    IN  UnsubscribeFromBrokers(e1, Unneeded(e1, {m.topic}))

(* handleUnsubscription: a broker that is the only subscriber left need    *)
(* not send its publications here.                                         *)
handleUnsubscription(e, m) ==
    LET nm == removeSubscription(e.st.neighboursMap, m.unsubscriber, m.topic)
        e1 == [e EXCEPT !.st.neighboursMap = nm]
        left == Subscribers(nm, m.topic)
        only == nm[CHOOSE i \in left : TRUE].node
    IN  IF Unneeded(e1, {m.topic}) # {}
        THEN UnsubscribeFromBrokers(e1, {m.topic})
        ELSE IF Cardinality(left) = 1 /\ only \in Brokers
        THEN SendTo(e1, only, [m EXCEPT !.unsubscriber = e.self])
        ELSE e1

(* handleConnectionRequest: the new neighbour, if it is a broker, is told  *)
(* all the topics somebody subscribes to here.                             *)
handleConnectionRequest(e, m) ==
    LET nm == addMapping(e.st.neighboursMap, m.requester)
        e1 == [e EXCEPT !.st.neighboursMap = nm]
    IN  IF m.requester \in Brokers /\ AllSubscriptions(nm) # {}
        THEN SendTo(e1, m.requester, [type |-> "Subscription", subscriber |-> e.self,
                                      topics |-> AllSubscriptions(nm)])
        ELSE e1

(* Mutant: only what Broker::handleDisconnectionRequest does.              *)
handleDisconnectionRequest_KeepsTopics(e, m) ==
    [e EXCEPT !.st.neighboursMap = removeMapping(@, m.requester)]

(* Mutant: the entry of the node that leaves is kept.                      *)
handleDisconnectionRequest_KeepsEntry(e, m) ==
    IF hasNode(e.st.neighboursMap, m.requester)
    THEN UnsubscribeFromBrokers(e, Unneeded(e, SubscriptionsOf(e.st.neighboursMap, m.requester)))
    ELSE e

(* handleDisconnectionRequest: nothing if the node is no neighbour.        *)
handleDisconnectionRequest(e, m) ==
    LET nm == e.st.neighboursMap
        his == SubscriptionsOf(nm, m.requester)
        e1 == [e EXCEPT !.st.neighboursMap = removeMapping(nm, m.requester)]
    IN  IF hasNode(nm, m.requester)
        THEN UnsubscribeFromBrokers(e1, Unneeded(e1, his))
        ELSE e

(* Mutants: to the first subscriber only; to clients only; back to the     *)
(* sender, too.                                                            *)
handlePublish_First(e, m) ==
    LET nm == e.st.neighboursMap
        to == {i \in Subscribers(nm, m.topic) : nm[i].node # m.sender}
    IN  IF to = {} THEN e ELSE SendTo(e, nm[Min(to)].node, [m EXCEPT !.sender = e.self])

handlePublish_ToClients(e, m) ==
    LET nm == e.st.neighboursMap
        to == {i \in Subscribers(nm, m.topic) : nm[i].node \in Clients \ {m.sender}}
    IN  SendCopies(e, Copies(nm, to), [m EXCEPT !.sender = e.self])

handlePublish_SendsBack(e, m) ==
    LET nm == e.st.neighboursMap
        to == {i \in Subscribers(nm, m.topic) : nm[i].node # m.sender \/ m.sender \in Clients}
    IN  SendCopies(e, Copies(nm, to), [m EXCEPT !.sender = e.self])

(* handlePublish: on to every subscriber but the one it comes from.        *)
handlePublish(e, m) ==
    LET nm == e.st.neighboursMap
        to == {i \in Subscribers(nm, m.topic) : nm[i].node # m.sender}
    IN  SendCopies(e, Copies(nm, to), [m EXCEPT !.sender = e.self])
=============================================================================
