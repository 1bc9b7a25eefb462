------------------------------ MODULE Overlay ------------------------------
(***************************************************************************)
(* The whole network of mainTopology.ned: brokers that build the overlay   *)
(* and route on it, clients, and the name server.  The spanning tree       *)
(* protocol and the routing of publications meet in the neighbours maps of *)
(* the brokers: every convergence drops all links and all routes and sends *)
(* the clients away.                                                       *)
(***************************************************************************)
EXTENDS OptimalBroker, Client

CONSTANTS
    ClientTimers,       \* the types of client timers that may go off
    MaxInFlight,        \* bound on the messages under way when one does
    MaxPublications     \* bound on the publications of all clients

ASSUME OverlayBounds ==
    /\ ClientTimers \subseteq {"WakeUp", "Sleep", "SubscribeDelay", "UnsubscribeDelay",
                               "PublishDelay"}
    /\ MaxInFlight \in Nat
    /\ MaxPublications \in Nat

overlay == <<vars, client>>

-----------------------------------------------------------------------------
(* Brokers: what the spanning tree protocol does, and the messages of the  *)
(* publish/subscribe layer.                                                *)

BrokerStep ==
    /\ \E b \in Brokers : WakeUp(b) \/ Sleep(b) \/ Protocol(b)
    /\ UNCHANGED client

NameServerStep ==
    /\ \/ NameServerNext
       \/ handleClientRequest /\ UNCHANGED <<broker, conditionTable>>
    /\ UNCHANGED client

HandleConnectionRequest(b) ==
    /\ \E a \in Arriving(b, "Connection") :
          Finish(b, a, handleConnectionRequest(Start(b, a), a.msg))
    /\ UNCHANGED client

HandleDisconnectionRequest(b) ==
    /\ \E a \in Arriving(b, "Disconnection") :
          Finish(b, a, handleDisconnectionRequest(Start(b, a), a.msg))
    /\ UNCHANGED client

HandleSubscription(b) ==
    /\ \E a \in Arriving(b, "Subscription") :
          Finish(b, a, handleSubscription(Start(b, a), a.msg))
    /\ UNCHANGED client

HandleUnsubscription(b) ==
    /\ \E a \in Arriving(b, "Unsubscription") :
          Finish(b, a, handleUnsubscription(Start(b, a), a.msg))
    /\ UNCHANGED client

HandlePublish(b) ==
    /\ \E a \in Arriving(b, "Publish") : Finish(b, a, handlePublish(Start(b, a), a.msg))
    /\ UNCHANGED client

Routing(b) ==
    \/ HandleConnectionRequest(b)
    \/ HandleDisconnectionRequest(b)
    \/ HandleSubscription(b)
    \/ HandleUnsubscription(b)
    \/ HandlePublish(b)

-----------------------------------------------------------------------------
(* Clients.  The periods of their timers are longer than the delay of a    *)
(* link, so that only so many messages are on their way when one goes off: *)
(* MaxInFlight.                                                            *)

InFlight == MapThenSumSet(LAMBDA l : Len(chan[l[1]][l[2]]), Nodes \X Nodes)

TimerOf(c, type) ==
    IF type \in ClientTimers /\ InFlight <= MaxInFlight THEN Arriving(c, type) ELSE {}

StartClient(c, a) == Begin(c, a, client[c])

FinishClient(c, a, e) ==
    /\ client' = [client EXCEPT ![c] = e.st]
    /\ End(c, a, e)
    /\ UNCHANGED <<nameServer, broker, conditionTable>>

(* Own count of publications, over all topics.                             *)
Published(c) ==
    MapThenSumSet(LAMBDA t : Value(client[c].vectors[t], c), Topics)

(* The publications of client c that are still on their way.               *)
OwnUnderWay(c) ==
    \E s, d \in Nodes : \E i \in DOMAIN chan[s][d] :
        chan[s][d][i].type = "Publish" /\ chan[s][d][i].originalSender = c

(* A client wakes up after its last publications have arrived.  A link     *)
(* takes at most a second, ReconnectDelay at least two; WakeUpDelay may be *)
(* shorter, and more than two brokers in a row slower: that is left out.   *)
ClientWakeUp(c) ==
    /\ ~OwnUnderWay(c)
    /\ \E a \in TimerOf(c, "WakeUp") : FinishClient(c, a, Client_wakeUp(StartClient(c, a)))

GoSleep(c) ==
    \E a \in TimerOf(c, "Sleep") : FinishClient(c, a, goSleep(StartClient(c, a)))

Subscribe(c) ==
    \E a \in TimerOf(c, "SubscribeDelay"), t \in Topics :
        /\ t \in client[c].subscriptions => client[c].subscriptions = Topics
        /\ FinishClient(c, a, subscribe(StartClient(c, a), t))

Unsubscribe(c) ==
    \E a \in TimerOf(c, "UnsubscribeDelay"), t \in Topics :
        /\ t \notin client[c].subscriptions => client[c].subscriptions = {}
        /\ FinishClient(c, a, unsubscribe(StartClient(c, a), t))

Publish(c) ==
    /\ MapThenSumSet(Published, Clients) < MaxPublications
    /\ \E a \in TimerOf(c, "PublishDelay"), t \in Topics :
          /\ t \notin client[c].subscriptions => client[c].subscriptions = {}
          /\ FinishClient(c, a, publish(StartClient(c, a), t))

ClientHandleNameServerMessage(c) ==
    \E a \in Arriving(c, "NSMessage") :
        FinishClient(c, a, Client_handleNameServerMessage(StartClient(c, a), a.msg))

HandleBrokerDisconnectionRequest(c) ==
    \E a \in Arriving(c, "Disconnection") :
        FinishClient(c, a, handleBrokerDisconnectionRequest(StartClient(c, a)))

HandlePublishMessage(c) ==
    \E a \in Arriving(c, "Publish") :
        FinishClient(c, a, handlePublishMessage(StartClient(c, a), a.msg))

ClientTimer(c) ==
    \/ ClientWakeUp(c)
    \/ GoSleep(c)
    \/ Subscribe(c)
    \/ Unsubscribe(c)
    \/ Publish(c)

ClientStep(c) ==
    \/ ClientHandleNameServerMessage(c)
    \/ HandleBrokerDisconnectionRequest(c)
    \/ HandlePublishMessage(c)

-----------------------------------------------------------------------------

OverlayInit == Init /\ client = [c \in Clients |-> InitialClient(c)]

OverlayNext ==
    \/ BrokerStep
    \/ NameServerStep
    \/ \E b \in Brokers : Routing(b)
    \/ \E c \in Clients : ClientTimer(c) \/ ClientStep(c)

OverlaySpec == OverlayInit /\ [][OverlayNext]_overlay

(* The simulation goes on: an event that is due happens, and a client's    *)
(* wake-up timer goes off.  Nothing is assumed of the brokers' timers, nor *)
(* of what clients do once they are attached.                              *)
Delivery ==
    \/ \E b \in Brokers : (Protocol(b) /\ UNCHANGED client) \/ Routing(b)
    \/ NameServerStep
    \/ \E c \in Clients : ClientStep(c)

OverlayFairness ==
    /\ WF_overlay(Delivery)
    /\ \A c \in Clients : WF_overlay(ClientWakeUp(c))

FairOverlaySpec == OverlaySpec /\ OverlayFairness

-----------------------------------------------------------------------------
(* Properties.                                                             *)

(* Every variable, message and data member has its type.                   *)
OverlayTypeOK == TypeOK /\ client \in [Clients -> ClientState]

Entry(b, n) == TopicsOf(broker[b].neighboursMap, n)
SubscribersAt(b, t) ==
    {broker[b].neighboursMap[i].node : i \in Subscribers(broker[b].neighboursMap, t)}

(* The brokers on neighbour n's side of broker d.                          *)
Side(d, n) ==
    {x \in Brokers :
       \A S \in SUBSET (Brokers \ {d}) :
          n \in S /\ (\A y \in S : Linked(y) \subseteq S \cup {d}) => x \in S}

(* When all is quiet, a client's subscription is known where it has to be: *)
(* at its broker, and at every other broker for the neighbour that leads   *)
(* there, so that publications from anywhere find it.  (A client whose     *)
(* request to connect crosses its broker's leave stays with a broker that  *)
(* is not registered until that one wakes up.)                             *)
RoutesComplete ==
    Quiet =>
      \A c \in Clients : client[c].out \in RegisteredBrokers =>
        \A t \in client[c].subscriptions :
          /\ t \in Entry(client[c].out, c)
          /\ \A d \in RegisteredBrokers \ {client[c].out} :
                \E n \in Linked(d) : client[c].out \in Side(d, n) /\ t \in Entry(d, n)

(* No broker keeps a subscription nobody has any more: that of a client    *)
(* that has unsubscribed or left, or that of a neighbour with no           *)
(* subscriber at all.                                                      *)
RoutesAreUsed ==
    Quiet =>
      \A b \in RegisteredBrokers, t \in Topics : \A n \in SubscribersAt(b, t) :
        IF n \in Clients
        THEN client[n].out = b /\ t \in client[n].subscriptions
        ELSE SubscribersAt(n, t) # {}

(* As long as the tree stays, a client has one entry in the maps of all    *)
(* brokers together, however often it has come and gone: what it left      *)
(* behind at one broker is gone before it takes a gate at another.         *)
OneEntryPerClient ==
    \A c \in Clients :
      Cardinality({p \in Brokers \X (1 .. Cardinality(Nodes)) :
                     p[2] \in Places(broker[p[1]].neighboursMap, c)}) <= 1

(* "decide if we must unsubscribe to any particular topics (since we have  *)
(* no client subscribed to a given topic, if thats the case)"              *)
(* (AcyclicBroker.cc): a broker does not ask a neighbour for a topic only  *)
(* that neighbour subscribes to.                                           *)
NoIdleRoute ==
    Quiet =>
      \A b, n \in RegisteredBrokers, t \in Topics :
        SubscribersAt(b, t) = {n} => t \notin Entry(n, b)

(* What a client's clock says of another client is never ahead of what     *)
(* that client has published.                                              *)
ClocksAreSound ==
    \A c \in Clients, t \in Topics :
      LET clock == client[c].vectors[t]
      IN  \A i \in DOMAIN clock :
            clock[i].value <= Value(client[clock[i].node].vectors[t], clock[i].node)

(* The layer above sees a sender's publications on a topic in the order in *)
(* which they were made, each once, and never its own again.               *)
InSenderOrder ==
    \A c \in Clients : \A i, j \in DOMAIN client[c].seen :
      LET p == client[c].seen[i]
          q == client[c].seen[j]
      IN  i < j /\ p.topic = q.topic /\ p.originalSender = q.originalSender
            => p.number < q.number

(* Clients that stay subscribed are served a causal broadcast: whoever     *)
(* sees a publication has seen before it, on any topic, what its sender    *)
(* had made or seen, though the copies take different ways through the     *)
(* tree; nobody sees one twice, or one that was not made.                  *)
Broadcast == INSTANCE CausalBroadcast WITH
    Publications <- Publication,
    seen <- [c \in Clients |-> client[c].seen]

ServesBroadcast == Broadcast!BroadcastSpec

(* Clients that have been subscribed from the beginning see the same       *)
(* publications in the end.                                                *)
Delivered ==
    Quiet => \A c, d \in Clients : ToSet(client[c].seen) = ToSet(client[d].seen)

(* A client that has no broker gets one as long as there is one: whatever  *)
(* order its own sleep, its broker's leave and its retries come in, it is  *)
(* never left without a timer.                                             *)
Reattaches ==
    \A c \in Clients :
      client[c].out = NULL /\ RegisteredBrokers # {} ~> client[c].out # NULL
=============================================================================
