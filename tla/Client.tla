------------------------------- MODULE Client -------------------------------
(***************************************************************************)
(* A client (Nodes/Clients): it attaches to the nearest registered broker, *)
(* subscribes and unsubscribes, publishes on topics it subscribes to, and  *)
(* hands the publications it receives to the layer above in causal order,  *)
(* as far as vector clocks tell.  From time to time it goes to sleep, and  *)
(* it looks for another broker when its broker sends it away.              *)
(***************************************************************************)
EXTENDS Simulation, FiniteSetsExt, SequencesExt

CONSTANT
    Ping        \* Ping[c][b]: the delay between client c and broker b

ASSUME PingAssumption == IsPing(Ping)

VARIABLE
    client      \* client[c]: the data members of client c

(* A publication is known by its topic, its original sender and the        *)
(* sender's own count in its clock.                                        *)
Publication == [topic : Topics, originalSender : Clients, number : Nat]

(* out is the broker the gate "out" is connected to.  seen is a history    *)
(* variable, what the layer above has seen of each topic in turn: the      *)
(* publications it makes and those exportMessage hands to it.              *)
ClientState ==
    [out : Brokers \cup {NULL},
     subscriptions : SUBSET Topics,
     vectors : [Topics -> VectorClock],
     postponedMessages : Seq(PublishMessage),
     seen : Seq(Publication)]

InitialClient(c) ==
    [out |-> NULL, subscriptions |-> {},
     vectors |-> [t \in Topics |-> <<[node |-> c, value |-> 0]>>],
     postponedMessages |-> <<>>, seen |-> <<>>]

-----------------------------------------------------------------------------
(* Vector clocks                                                           *)

Knows(clock, c) == \E i \in DOMAIN clock : clock[i].node = c

(* search(c)->getValue() *)
Value(clock, c) == clock[CHOOSE i \in DOMAIN clock : clock[i].node = c].value

(* update: the larger of the two values for each node, new nodes last.     *)
merge(clock, pair) ==
    IF Knows(clock, pair.node)
    THEN [i \in DOMAIN clock |->
            IF clock[i].node = pair.node
            THEN [clock[i] EXCEPT !.value = Max({@, pair.value})] ELSE clock[i]]
    ELSE Append(clock, pair)

update(clock, other) == FoldLeft(merge, clock, other)

(* Mutant: the client's own count starts again.                            *)
OwnPart_Restarts(clock, c) == <<[node |-> c, value |-> 0]>>

(* Forget all other nodes.                                                 *)
OwnPart(clock, c) == <<[node |-> c, value |-> Value(clock, c)]>>

identity(m) ==
    [topic |-> m.topic, originalSender |-> m.originalSender,
     number |-> Value(m.timeStamp, m.originalSender)]

-----------------------------------------------------------------------------
(* Causal delivery.  These operators work on the client's data members.    *)

(* Mutant: only the sender's own pair is looked at.                        *)
Stops_Never(clock, m) == {}

(* checkReceiveCondition(m): whether m may be exported now, and whether    *)
(* its time stamp is merged.  The pairs of the time stamp are gone through *)
(* in order up to the first that is unknown or ahead; m is accepted if     *)
(* there is none or if it is unknown, but merged only if there is none.    *)
Stops(clock, m) ==
    {i \in DOMAIN m.timeStamp :
        LET pair == m.timeStamp[i]
        IN  /\ pair.node # m.originalSender
            /\ Knows(clock, pair.node) => Value(clock, pair.node) < pair.value}

Merges(clock, m) ==
    \/ ~Knows(clock, m.originalSender)
    \/ /\ Value(m.timeStamp, m.originalSender) = Value(clock, m.originalSender) + 1
       /\ Stops(clock, m) = {}

Accepts(clock, m) ==
    \/ Merges(clock, m)
    \/ /\ Value(m.timeStamp, m.originalSender) = Value(clock, m.originalSender) + 1
       /\ ~Knows(clock, m.timeStamp[Min(Stops(clock, m))].node)

(* exportMessage, after checkReceiveCondition has accepted m               *)
Export(st, m) ==
    [st EXCEPT !.seen = Append(@, identity(m)),
               !.vectors[m.topic] = IF Merges(@, m) THEN update(@, m.timeStamp) ELSE @]

(* A postponed message is exported or stays.                               *)
Examine(st, m) ==
    IF Accepts(st.vectors[m.topic], m) THEN Export(st, m)
    ELSE [st EXCEPT !.postponedMessages = Append(@, m)]

(* One pass over the postponed messages.                                   *)
Pass(st) ==
    FoldLeft(Examine, [st EXCEPT !.postponedMessages = <<>>], st.postponedMessages)

(* Mutant: one pass only.                                                  *)
checkPostponed_Once(st) == Pass(st)

(* checkPostponed: passes until one exports nothing.  A pass that exports  *)
(* nothing changes nothing, and any other leaves less to do.               *)
checkPostponed(st) == FoldLeft(LAMBDA s, m : Pass(s), st, st.postponedMessages)

flushVectorClocks(st, c) ==
    [st EXCEPT !.vectors = [t \in Topics |-> OwnPart(@[t], c)]]

(* releaseMessages: while messages are postponed, check them and flush the *)
(* clocks.  The first round may export nothing; after it every round       *)
(* exports the first message that is not the client's own.  A message that *)
(* is left after one round more than there were messages is never          *)
(* exported, and the loop never ends.                                      *)
Release(e) ==
    LET round(s, m) == IF s.postponedMessages = <<>> THEN s
                       ELSE flushVectorClocks(checkPostponed(s), e.self)
        ms == e.st.postponedMessages
        st1 == IF ms = <<>> THEN e.st ELSE FoldLeft(round, round(e.st, ms), ms)
        e1 == [e EXCEPT !.st = st1]
    IN  IF st1.postponedMessages = <<>> THEN e1 ELSE Fault(e1)

handlePublishMessage(e, m) ==
    IF Accepts(e.st.vectors[m.topic], m)
    THEN [e EXCEPT !.st = checkPostponed(Export(@, m))]
    ELSE [e EXCEPT !.st.postponedMessages = Append(@, m)]

-----------------------------------------------------------------------------
(* Handlers                                                                *)

periods == {subscribeDelayMsg, unsubscribeDelayMsg, publishDelayMsg}

(* send(m, gate("out")) *)
SendOut(e, m) == IF e.st.out = NULL THEN Fault(e) ELSE SendTo(e, e.st.out, m)

subscription(e, topics) ==
    [type |-> "Subscription", subscriber |-> e.self, topics |-> topics]

(* Mutant: the dynamic_cast of the requester fails.                        *)
Client_wakeUp_NoRequester(e) ==
    SendDirect(e, NS, [type |-> "NSRequest", requester |-> NULL])

Client_wakeUp(e) == SendDirect(e, NS, [type |-> "NSRequest", requester |-> e.self])

(* goSleep *)
goSleep(e) ==
    LET e1 == Release([Cancel(e, periods \cup {wakeUpDelayMsg}) EXCEPT !.st.subscriptions = {}])
        e2 == SendOut(e1, [type |-> "Disconnection", requester |-> e.self])
    IN  Schedule([e2 EXCEPT !.st.out = NULL], wakeUpDelayMsg)

(* Mutants: the sleep timer runs on; no attempt is made to connect again.  *)
handleBrokerDisconnectionRequest_KeepsSleep(e) ==
    LET e1 == Cancel(e, periods \cup {wakeUpDelayMsg})
    IN  Schedule(Release([e1 EXCEPT !.st.out = NULL]), wakeUpDelayMsg)

handleBrokerDisconnectionRequest_NoRetry(e) ==
    Release([Cancel(e, periods \cup {sleepDelayMsg, wakeUpDelayMsg})
               EXCEPT !.st.out = NULL])

(* handleBrokerDisconnectionRequest: keep the subscriptions, try soon.     *)
handleBrokerDisconnectionRequest(e) ==
    LET e1 == Cancel(e, periods \cup {sleepDelayMsg, wakeUpDelayMsg})
    IN  Schedule(Release([e1 EXCEPT !.st.out = NULL]), wakeUpDelayMsg)

(* Mutant: a client that was sent away does not subscribe again.           *)
Connected_NoResubscribe(e, best) ==
    LET e1 == IF e.st.out = NULL THEN [e EXCEPT !.st.out = best] ELSE Fault(e)
    IN  FoldLeft(Schedule, SendOut(e1, [type |-> "Connection", requester |-> e.self]),
          <<subscribeDelayMsg, unsubscribeDelayMsg, publishDelayMsg, sleepDelayMsg>>)

(* handleNameServerMessage: connect to the nearest broker and subscribe    *)
(* again; if there is none, ask again later.                               *)
Connected(e, best) ==
    LET e1 == IF e.st.out = NULL THEN [e EXCEPT !.st.out = best] ELSE Fault(e)
        e2 == SendOut(e1, [type |-> "Connection", requester |-> e.self])
        e3 == IF e.st.subscriptions = {} THEN e2
              ELSE SendOut(e2, subscription(e, e.st.subscriptions))
    IN  FoldLeft(Schedule, e3,
                 <<subscribeDelayMsg, unsubscribeDelayMsg, publishDelayMsg, sleepDelayMsg>>)

Client_handleNameServerMessage(e, m) ==
    LET nodes == ToSet(m.requestedNodes)
        best == CHOOSE b \in nodes : \A d \in nodes : Ping[e.self][b] <= Ping[e.self][d]
    IN  IF nodes = {} THEN Schedule(Cancel(e, {wakeUpDelayMsg}), wakeUpDelayMsg)
        ELSE Connected(e, best)

(* subscribe and unsubscribe stop for good when there is nothing to        *)
(* choose; t is the topic rand() chooses.                                  *)
subscribe(e, t) ==
    IF e.st.subscriptions = Topics THEN e
    ELSE Schedule(SendOut([e EXCEPT !.st.subscriptions = @ \cup {t}], subscription(e, {t})),
                  subscribeDelayMsg)

unsubscribe(e, t) ==
    IF e.st.subscriptions = {} THEN e
    ELSE Schedule(SendOut([e EXCEPT !.st.subscriptions = @ \ {t},
                                    !.st.vectors[t] = OwnPart(@, e.self)],
                          [type |-> "Unsubscription", unsubscriber |-> e.self, topic |-> t]),
                  unsubscribeDelayMsg)

(* publish: count the publication and send it with the clock.              *)
publish(e, t) ==
    LET clock == [i \in DOMAIN e.st.vectors[t] |->
                    IF e.st.vectors[t][i].node = e.self
                    THEN [e.st.vectors[t][i] EXCEPT !.value = @ + 1]
                    ELSE e.st.vectors[t][i]]
        m == [type |-> "Publish", topic |-> t, sender |-> e.self,
              originalSender |-> e.self, timeStamp |-> clock]
    IN  IF e.st.subscriptions = {} THEN Schedule(e, publishDelayMsg)
        ELSE Schedule(SendOut([e EXCEPT !.st.vectors[t] = clock,
                                        !.st.seen = Append(@, identity(m))], m),
                      publishDelayMsg)
=============================================================================
