--------------------------- MODULE OptimalBroker ---------------------------
(***************************************************************************)
(* The broker the network is built from (Nodes/Brokers/OptimalBroker).     *)
(* Whenever a broker wakes up or leaves, all brokers drop their links and  *)
(* build a minimum spanning tree of link delays from scratch, in the way   *)
(* of Boruvka and of Gallager, Humblet and Spira: fragments find their     *)
(* minimum weight outgoing edge (MWOE), expand over it, and merge when     *)
(* both ends of an edge ask to connect.                                    *)
(*                                                                         *)
(* handleJoinMessage ... handleSubscription are functions on effects (see  *)
(* Simulation); the actions at the end dispatch arrivals to them.          *)
(***************************************************************************)
EXTENDS AcyclicBroker, NameServer

CONSTANTS
    ConditionTables,    \* the tables of link delays to consider
    MaxConvergence,     \* bound on convergenceNumber: wake-ups and leaves
    SleepInWindow       \* may a broker fall asleep while a join it has
                        \* taken from its queue waits out ConverganceDelay?

VARIABLES
    broker,             \* broker[b]: the data members of broker b
    conditionTable      \* conditionTable[b][c]: delay between b and c

vars == <<kernel, nameServer, broker, conditionTable>>

ASSUME FiniteAssumption == IsFiniteSet(Brokers)

ASSUME TablesAssumption == \A t \in ConditionTables : IsConditionTable(t)

ASSUME BoundsAssumption == MaxConvergence \in Nat /\ SleepInWindow \in BOOLEAN

BrokerState ==
    [converged : BOOLEAN, initial : BOOLEAN,
     currentConvergence : Nat,
     componentId : Brokers \cup {NULL},
     leaderHop : Brokers \cup {NULL},
     members : SUBSET Brokers,
     availableBrokers : Seq(Brokers),
     neighboursMap : NeighboursVector,
     subscriptionMonitor : SUBSET Topics,
     sentConnects : SUBSET Brokers,
     receivedConnects : SUBSET ConnectMessage,
     receivedMWOEs : Seq(MWOEMessage),
     awaitingNSMsgs : Seq(JoinMessage),
     bufferedSubs : SUBSET Subscription]

(* The constructor sets converged and initial only.  id, componentId,      *)
(* currentConvergence and leaderHop have no value before the broker's own  *)
(* join (members is empty until then); reading them is made a fault.        *)
InitialState ==
    [converged |-> TRUE, initial |-> TRUE, currentConvergence |-> 0,
     componentId |-> NULL, leaderHop |-> NULL, members |-> {},
     availableBrokers |-> <<>>, neighboursMap |-> NoNeighbours,
     subscriptionMonitor |-> {}, sentConnects |-> {}, receivedConnects |-> {},
     receivedMWOEs |-> <<>>, awaitingNSMsgs |-> <<>>, bufferedSubs |-> {}]

-----------------------------------------------------------------------------
(* Looking for the minimum weight outgoing edge                            *)

(* Mutants: one member too few, one too many.                              *)
isConverged_Early(st) == Cardinality(st.members) + 1 >= Len(st.availableBrokers)
isConverged_Late(st) == Cardinality(st.members) > Len(st.availableBrokers)

isConverged(st) == Cardinality(st.members) = Len(st.availableBrokers)

isLeader(e) == e.st.componentId = e.self

(* The available brokers outside the fragment this broker has no link to.  *)
Candidates(e) ==
    {c \in ToSet(e.st.availableBrokers) \ (e.st.members \cup {e.self}) :
        ~hasNode(e.st.neighboursMap, c)}

(* Mutant: the comparison of delays is the wrong way round.                *)
Nearest_Farthest(b, cs) ==
    CHOOSE c \in cs : \A d \in cs : conditionTable[b][d] <= conditionTable[b][c]

Nearest(b, cs) ==
    CHOOSE c \in cs : conditionTable[b][c] = Min({conditionTable[b][d] : d \in cs})

(* Not converged: tell the leader the best edge this broker has, or that   *)
(* it has none.  A leader without an edge stores its message twice, now    *)
(* and when the self-message arrives.                                      *)
SendMWOE(e) ==
    LET cs == Candidates(e)
        m == IF cs = {}
             THEN [type |-> "MWOE", broker |-> NULL, delay |-> 0, piggyback |-> <<>>]
             ELSE [type |-> "MWOE", broker |-> Nearest(e.self, cs),
                   delay |-> conditionTable[e.self][Nearest(e.self, cs)],
                   piggyback |-> <<>>]
    IN  IF ~isLeader(e)
        THEN Send(e, e.st.leaderHop, [m EXCEPT !.piggyback = Push(@, e.self)])
        ELSE IF cs # {}
        THEN ScheduleNow(e, m)
        ELSE ScheduleNow([e EXCEPT !.st.receivedMWOEs = Append(@, m)], m)

(* Mutant: a join that waits is forgotten.                                 *)
Conclude_LosesJoin(e) ==
    [HandleSubscriptions(e, e.st.bufferedSubs)
       EXCEPT !.st.bufferedSubs = {}, !.st.awaitingNSMsgs = <<>>]

(* Converged: if another join waits, start on it once the others had time  *)
(* to converge, and forget the subscriptions that came meanwhile; if not,  *)
(* handle them.                                                            *)
Conclude(e) ==
    IF e.st.awaitingNSMsgs # <<>>
    THEN Schedule([e EXCEPT !.st.awaitingNSMsgs = Tail(@), !.st.bufferedSubs = {}],
                  Head(e.st.awaitingNSMsgs))
    ELSE [HandleSubscriptions(e, e.st.bufferedSubs) EXCEPT !.st.bufferedSubs = {}]

findAndSendMWOE(e) ==
    LET e1 == [e EXCEPT !.st.converged = isConverged(e.st)]
    IN  IF e1.st.converged THEN Conclude(e1) ELSE SendMWOE(e1)

-----------------------------------------------------------------------------
(* Choosing the fragment's edge and expanding over it                      *)

(* findBestMWOE: the first of the received edges with the least delay; the *)
(* Expand message retraces the path of the MWOE message.                   *)
findBestMWOE(e) ==
    LET ms == e.st.receivedMWOEs
        edges == {i \in DOMAIN ms : ms[i].broker # NULL}
        least == Min({ms[i].delay : i \in edges})
        best == ms[Min({i \in edges : ms[i].delay = least})]
        expand(stack) == [type |-> "Expand", broker |-> best.broker, piggyback |-> stack]
    IN  IF edges = {} THEN e
        ELSE IF best.piggyback = <<>>
        THEN ScheduleNow(e, expand(<<>>))
        ELSE Send(e, Top(best.piggyback), expand(Pop(best.piggyback)))

(* Mutant: receivedMWOEs is not emptied after the choice.                  *)
handleMWOEMessage_KeepsOld(e, m) ==
    LET e1 == [e EXCEPT !.st.receivedMWOEs = Append(@, m)]
    IN  IF ~isLeader(e)
        THEN Send(e, e.st.leaderHop, [m EXCEPT !.piggyback = Push(@, e.self)])
        ELSE IF Len(e1.st.receivedMWOEs) >= Cardinality(e1.st.members)
        THEN findBestMWOE(e1)
        ELSE e1

handleMWOEMessage(e, m) ==
    LET e1 == [e EXCEPT !.st.receivedMWOEs = Append(@, m)]
    IN  IF ~isLeader(e)
        THEN Send(e, e.st.leaderHop, [m EXCEPT !.piggyback = Push(@, e.self)])
        ELSE IF Len(e1.st.receivedMWOEs) = Cardinality(e1.st.members)
        THEN [findBestMWOE(e1) EXCEPT !.st.receivedMWOEs = <<>>]
        ELSE e1

(* Mutants: the new neighbour is taken for the way to the leader in any    *)
(* case; the leader stays the one of this side.                            *)
connect_Follows(e, con) ==
    LET members == e.st.members \cup con.members
        nm == e.st.neighboursMap
        e1 == SendCopies(e, Copies(nm, BrokerPlaces(nm)),
                [type |-> "Update", sender |-> e.self, members |-> members])
    IN  [e1 EXCEPT !.st.members = members,
                   !.st.leaderHop = con.broker,
                   !.st.componentId = Min(members \cup {@}),
                   !.st.neighboursMap = addMapping(@, con.broker)]

connect_KeepsLeader(e, con) ==
    LET members == e.st.members \cup con.members
        nm == e.st.neighboursMap
        e1 == SendCopies(e, Copies(nm, BrokerPlaces(nm)),
                [type |-> "Update", sender |-> e.self, members |-> members])
    IN  [e1 EXCEPT !.st.members = members,
                   !.st.neighboursMap = addMapping(@, con.broker)]

(* connect: merge with the fragment of the sender of Connect message con,  *)
(* tell the neighbours of this side, then add the link (one direction; the *)
(* other broker adds the other).                                           *)
connect(e, con) ==
    LET members == e.st.members \cup con.members
        leader == Min(members \cup {e.st.componentId})
        update == [type |-> "Update", sender |-> e.self, members |-> members]
        nm == e.st.neighboursMap
        e1 == SendCopies(e, Copies(nm, BrokerPlaces(nm)), update)
    IN  [e1 EXCEPT !.st.members = members,
                   !.st.leaderHop = IF leader # e.st.componentId THEN con.broker ELSE @,
                   !.st.componentId = leader,
                   !.st.neighboursMap = addMapping(@, con.broker)]

(* getReceivedConnectsForCurrentConvergence                                *)
ConnectsFrom(e, b) ==
    {con \in e.st.receivedConnects :
        con.broker = b /\ con.convergenceNumber = e.st.currentConvergence}

(* Mutant: a broker that can connect at once does not answer.              *)
sendConnection_NoAnswer(e, b) ==
    IF ConnectsFrom(e, b) # {}
    THEN findAndSendMWOE(connect(e, CHOOSE c \in ConnectsFrom(e, b) : TRUE))
    ELSE SendDirect([e EXCEPT !.st.sentConnects = @ \cup {b}], b,
           [type |-> "Connect", broker |-> e.self,
            convergenceNumber |-> e.st.currentConvergence, members |-> e.st.members])

(* sendConnection: if broker b has asked already, connect to it; in any    *)
(* case send it the members this broker had before.                        *)
sendConnection(e, b) ==
    LET con == [type |-> "Connect", broker |-> e.self,
                convergenceNumber |-> e.st.currentConvergence, members |-> e.st.members]
        e1 == IF ConnectsFrom(e, b) # {}
              THEN findAndSendMWOE(connect(e, CHOOSE c \in ConnectsFrom(e, b) : TRUE))
              ELSE [e EXCEPT !.st.sentConnects = @ \cup {b}]
    IN  SendDirect(e1, b, con)

handleExpandMessage(e, m) ==
    IF m.piggyback = <<>>
    THEN sendConnection(e, m.broker)
    ELSE Send(e, Top(m.piggyback), [m EXCEPT !.piggyback = Pop(@)])

(* Mutants: connect without having asked; forget a later convergence.      *)
handleConnectionMessage_Unasked(e, con) ==
    IF con.convergenceNumber = e.st.currentConvergence
    THEN findAndSendMWOE(connect(e, con))
    ELSE IF con.convergenceNumber > e.st.currentConvergence
    THEN [e EXCEPT !.st.receivedConnects = @ \cup {con}]
    ELSE e

handleConnectionMessage_NotLater(e, con) ==
    IF con.convergenceNumber # e.st.currentConvergence
    THEN e
    ELSE IF con.broker \in e.st.sentConnects
    THEN findAndSendMWOE(connect(e, con))
    ELSE [e EXCEPT !.st.receivedConnects = @ \cup {con}]

(* A Connect of this convergence completes the link if this broker has     *)
(* sent one too, and is kept if not; one of a later convergence is kept,   *)
(* one of an earlier convergence is dropped.                               *)
handleConnectionMessage(e, con) ==
    IF con.convergenceNumber = e.st.currentConvergence /\ con.broker \in e.st.sentConnects
    THEN findAndSendMWOE(connect(e, con))
    ELSE IF con.convergenceNumber >= e.st.currentConvergence
    THEN [e EXCEPT !.st.receivedConnects = @ \cup {con}]
    ELSE e

(* handleUpdateMessage: take over the members, follow the sender if they   *)
(* have a smaller leader, pass them on away from the sender, look again.   *)
handleUpdateMessage(e, m) ==
    LET members == e.st.members \cup m.members
        leader == Min(members \cup {e.st.componentId})
        nm == e.st.neighboursMap
        others == {i \in BrokerPlaces(nm) : nm[i].node # m.sender}
        e1 == SendCopies(e, Copies(nm, others), [m EXCEPT !.sender = e.self])
    IN  findAndSendMWOE(
          [e1 EXCEPT !.st.members = members,
                     !.st.leaderHop = IF leader = e.st.componentId THEN @
                                      ELSE IF hasNode(nm, m.sender) THEN m.sender ELSE NULL,
                     !.st.componentId = leader])

-----------------------------------------------------------------------------
(* Waking up, joining and leaving                                          *)

(* The join messages sent to every broker of a list, this one included.    *)
Announce(e, list, join) ==
    [e EXCEPT !.direct = @ \o [i \in DOMAIN list |-> [to |-> list[i], msg |-> join]]]

(* handleNameServerMessage: take over the list and ask all to restart.     *)
handleNameServerMessage(e, m) ==
    LET join == [type |-> "Join", requester |-> e.self,
                 convergenceNo |-> m.convergenceNumber, leaving |-> FALSE]
    IN  Schedule(Announce([e EXCEPT !.st.availableBrokers = m.requestedNodes,
                                    !.st.initial = @ \/ m.requestedNodes # <<>>],
                          m.requestedNodes, join),
                 sleepDelayMsg)

(* Mutant: a broker without a neighbouring broker sleeps, too.             *)
CanSleep_Alone(st) == st.converged

CanSleep(st) == st.converged /\ BrokerPlaces(st.neighboursMap) # {}

(* sleep: tell all brokers, this one included, that it is leaving.         *)
sleep(e) ==
    IF CanSleep(e.st)
    THEN Announce(e, e.st.availableBrokers,
                  [type |-> "Join", requester |-> e.self,
                   convergenceNo |-> e.st.currentConvergence + 1, leaving |-> TRUE])
    ELSE Schedule(e, sleepDelayMsg)

AcceptsJoin(st, m) ==
    st.converged /\ (m.convergenceNo = st.currentConvergence + 1 \/ st.initial)

(* Send the neighbouring clients away and drop all links.                  *)
DropNeighbours(e) ==
    LET nm == e.st.neighboursMap
        disconnection == [type |-> "Disconnection", requester |-> e.self]
    IN  [SendCopies(e, Copies(nm, ClientPlaces(nm)), disconnection)
           EXCEPT !.st.neighboursMap = NoNeighbours]

(* Mutants: the leader, or the members, of the last convergence are kept.  *)
initiateProtocol_KeepsLeader(e) ==
    findAndSendMWOE(
      [e EXCEPT !.st.converged = FALSE,
                !.st.leaderHop = NULL, !.st.members = {e.self},
                !.st.sentConnects = {},
                !.st.receivedConnects =
                   {con \in @ : con.convergenceNumber >= e.st.currentConvergence}])

initiateProtocol_KeepsMembers(e) ==
    findAndSendMWOE(
      [e EXCEPT !.st.converged = FALSE, !.st.componentId = e.self,
                !.st.leaderHop = NULL, !.st.members = @ \cup {e.self},
                !.st.sentConnects = {},
                !.st.receivedConnects =
                   {con \in @ : con.convergenceNumber >= e.st.currentConvergence}])

(* initiateProtocol: a fragment of its own, with the Connect messages of   *)
(* earlier convergences forgotten.  receivedMWOEs and bufferedSubs stay.   *)
initiateProtocol(e) ==
    findAndSendMWOE(
      [e EXCEPT !.st.converged = FALSE, !.st.componentId = e.self,
                !.st.leaderHop = NULL, !.st.members = {e.self},
                !.st.sentConnects = {},
                !.st.receivedConnects =
                   {con \in @ : con.convergenceNumber >= e.st.currentConvergence}])

(* Mutant: a broker that joins is not added to the list.                   *)
Restart_KeepsList(e, m) ==
    LET list == e.st.availableBrokers
    IN  initiateProtocol(
          [DropNeighbours(e) EXCEPT
             !.st.initial = FALSE,
             !.st.availableBrokers =
                IF m.leaving THEN RemoveFirst(list, m.requester) ELSE list,
             !.st.currentConvergence = m.convergenceNo])

(* handleJoinMessage, another broker joins or leaves or this one joins:    *)
(* restart.  removeNode reads the first available broker without a check.  *)
Restart(e, m) ==
    LET list == e.st.availableBrokers
        e1 == IF m.leaving /\ list = <<>> THEN Fault(e) ELSE e
    IN  initiateProtocol(
          [DropNeighbours(e1) EXCEPT
             !.st.initial = FALSE,
             !.st.availableBrokers =
                IF m.requester = e.self THEN list
                ELSE IF m.leaving THEN RemoveFirst(list, m.requester)
                ELSE Append(list, m.requester),
             !.st.currentConvergence = m.convergenceNo])

(* handleJoinMessage, this broker leaves.                                  *)
Leave(e, m) ==
    Schedule(DropNeighbours(SendDirect([e EXCEPT !.st.initial = FALSE], NS,
               [type |-> "Disconnection", requester |-> e.self])),
             wakeUpDelayMsg)

(* Mutant: a join that comes too early is dropped.                         *)
handleJoinMessage_NotQueued(e, m) ==
    IF ~AcceptsJoin(e.st, m) THEN e
    ELSE IF m.leaving /\ m.requester = e.self THEN Leave(e, m)
    ELSE Restart(e, m)

handleJoinMessage(e, m) ==
    IF ~AcceptsJoin(e.st, m) THEN [e EXCEPT !.st.awaitingNSMsgs = Append(@, m)]
    ELSE IF m.leaving /\ m.requester = e.self THEN Leave(e, m)
    ELSE Restart(e, m)

(* handleSubscription: while this broker converges, keep the subscription  *)
(* of a neighbour for later and drop that of any other node.               *)
handleSubscription(e, m) ==
    LET subs == {[subscriber |-> m.subscriber, topic |-> t] : t \in m.topics}
    IN  IF e.st.converged
        THEN HandleSubscriptions(e, subs)
        ELSE IF hasNode(e.st.neighboursMap, m.subscriber)
        THEN [e EXCEPT !.st.bufferedSubs = @ \cup subs]
        ELSE e

(* Mutant: the dynamic_cast of the requester fails.                        *)
wakeUp_NoRequester(e) == SendDirect(e, NS, [type |-> "NSRequest", requester |-> NULL])

(* wakeUp: register with the name server.                                  *)
wakeUp(e) == SendDirect(e, NS, [type |-> "NSRequest", requester |-> e.self])

-----------------------------------------------------------------------------
(* The actions: handleMessage dispatches what arrives at broker b by type. *)

ReadsUninitialized(b, m) ==
    broker[b].members = {} /\ m.type \in {"MWOE", "Expand", "Connect", "Update"}

Start(b, a) == Begin(b, a, broker[b])

Finish(b, a, effect) ==
    \E e \in {IF ReadsUninitialized(b, a.msg) THEN Fault(Start(b, a)) ELSE effect} :
        /\ broker' = [broker EXCEPT ![b] = e.st]
        /\ End(b, a, e)
        /\ UNCHANGED <<nameServer, conditionTable>>

(* The model stops after MaxConvergence wake-ups and leaves.               *)
WakeUp(b) ==
    /\ convergenceNumber <= MaxConvergence
    /\ \E a \in Arriving(b, "WakeUp") : Finish(b, a, wakeUp(Start(b, a)))

Sleep(b) ==
    /\ convergenceNumber <= MaxConvergence
    /\ SleepInWindow \/ \A m \in timers[b] : m.type # "Join"
    /\ \E a \in Arriving(b, "Sleep") : Finish(b, a, sleep(Start(b, a)))

HandleNameServerMessage(b) ==
    \E a \in Arriving(b, "NSMessage") :
        Finish(b, a, handleNameServerMessage(Start(b, a), a.msg))

HandleJoinMessage(b) ==
    \E a \in Arriving(b, "Join") : Finish(b, a, handleJoinMessage(Start(b, a), a.msg))

HandleMWOEMessage(b) ==
    \E a \in Arriving(b, "MWOE") : Finish(b, a, handleMWOEMessage(Start(b, a), a.msg))

HandleExpandMessage(b) ==
    \E a \in Arriving(b, "Expand") : Finish(b, a, handleExpandMessage(Start(b, a), a.msg))

HandleConnectionMessage(b) ==
    \E a \in Arriving(b, "Connect") :
        Finish(b, a, handleConnectionMessage(Start(b, a), a.msg))

HandleUpdateMessage(b) ==
    \E a \in Arriving(b, "Update") : Finish(b, a, handleUpdateMessage(Start(b, a), a.msg))

HandleBrokerRequest == handleBrokerRequest /\ UNCHANGED <<broker, conditionTable>>
HandleUnregisterRequest == handleUnregisterRequest /\ UNCHANGED <<broker, conditionTable>>

(* What the protocol does by itself once a broker has woken up or left.    *)
Protocol(b) ==
    \/ HandleNameServerMessage(b)
    \/ HandleJoinMessage(b)
    \/ HandleMWOEMessage(b)
    \/ HandleExpandMessage(b)
    \/ HandleConnectionMessage(b)
    \/ HandleUpdateMessage(b)

NameServerNext == HandleBrokerRequest \/ HandleUnregisterRequest

Init ==
    /\ KernelInit
    /\ NSInit
    /\ broker = [b \in Brokers |-> InitialState]
    /\ conditionTable \in ConditionTables

Next ==
    \/ \E b \in Brokers : WakeUp(b) \/ Sleep(b) \/ Protocol(b)
    \/ NameServerNext

(* The simulation goes on: while messages are on their way or joins wait,  *)
(* one of them is handled eventually.  Nothing is assumed of the order,    *)
(* nor of the wake-up and sleep timers.                                    *)
Fairness == WF_vars(NameServerNext \/ \E b \in Brokers : Protocol(b))

Spec == Init /\ [][Next]_vars

FairSpec == Spec /\ Fairness

-----------------------------------------------------------------------------
(* Properties.  A broker is in the convergence Round(b) it last started;   *)
(* Links(r) are the links made in convergence r.  Idle: no event without   *)
(* delay is due, so that no handler is half way through a handshake.       *)

Round(b) == broker[b].currentConvergence
Available(b) == ToSet(broker[b].availableBrokers)
Members(b) == broker[b].members
Linked(b) == NeighbourBrokers(broker[b].neighboursMap)
Idle == now = <<>>

Links(r) ==
    {{p[1], p[2]} : p \in {q \in Brokers \X Brokers :
                             Round(q[1]) = r /\ q[2] \in Linked(q[1])}}

(* Every variable, message and data member has its type.                   *)
TypeOK ==
    /\ KernelTypeOK
    /\ NSTypeOK
    /\ broker \in [Brokers -> BrokerState]
    /\ IsConditionTable(conditionTable)

(* No handler sends over a gate that is NULL or disconnected (a stale      *)
(* leaderHop, an Expand whose path is gone), reads a data member that has  *)
(* no value yet, schedules a timer that is set, or dereferences NULL.      *)
NoRuntimeError == ~crashed

(* The links of a convergence never contain a cycle, at any moment of its  *)
(* construction: publications are forwarded on every link but the one they *)
(* came from, so a cycle would multiply them for ever.                     *)
Acyclic(links) ==
    \A S \in SUBSET Brokers :
        S # {} => Cardinality({l \in links : l \subseteq S}) < Cardinality(S)

Forest == \A b \in Brokers : Acyclic(Links(Round(b)))

(* connect takes an output gate here and an input gate at the other broker *)
(* without looking whether there is one left ("to do"), and addMapping     *)
(* without looking for an entry of the same node.  A broker never has two  *)
(* links to another one, not even of two convergences: it needs one gate   *)
(* in each direction for every other broker, and no more.                  *)
OneLinkEach ==
    \A b, c \in Brokers : Cardinality(Places(broker[b].neighboursMap, c)) <= 1

(* connect makes one direction of a link; the handshake with Connect       *)
(* messages makes both or none.                                            *)
LinksAreMutual ==
    Idle => \A b, c \in RegisteredBrokers :
              Round(b) = Round(c) => (c \in Linked(b) <=> b \in Linked(c))

(* A broker counts another one as a member of its fragment only if links   *)
(* of this convergence lead there: no Connect or Update message of an      *)
(* earlier convergence has added to members.  (Unless a member has gone on *)
(* to the next convergence, or to sleep, and has dropped its links.)       *)
Closed(S, r) == \A l \in Links(r) : l \cap S # {} => l \subseteq S

MembersAreLinked ==
    \A b \in Brokers :
      (\A c \in Members(b) : Round(c) = Round(b) /\ c \in RegisteredBrokers)
        => \A S \in SUBSET Brokers : b \in S /\ Closed(S, Round(b)) => Members(b) \subseteq S

(* Brokers that know the same members agree on the leader, by themselves   *)
(* and whatever the order in which they heard of the members: there is     *)
(* never more than one broker that chooses the edge of a fragment.         *)
AgreeOnLeader ==
    \A b, c \in Brokers :
      Members(b) # {} /\ Members(b) = Members(c)
        => /\ broker[b].componentId = broker[c].componentId
           /\ broker[b].componentId \in Members(b)

(* The edges a leader has collected come from different members of its     *)
(* present fragment: none is left over from a smaller fragment or from an  *)
(* earlier convergence, so that allMWOEReceived compares the right counts. *)
Origin(b, m) == IF m.piggyback = <<>> THEN b ELSE Last(m.piggyback)

OneReportPerMember ==
    \A b \in Brokers :
      LET ms == broker[b].receivedMWOEs
      IN  \A i \in DOMAIN ms :
            /\ Origin(b, ms[i]) \in Members(b)
            /\ \A j \in DOMAIN ms : Origin(b, ms[i]) = Origin(b, ms[j]) => i = j

(* A broker that is not converged always finds an edge: the branch of      *)
(* findAndSendMWOE that puts one message object into receivedMWOEs twice,  *)
(* to be deleted twice by findBestMWOE, is never taken.                    *)
NoEmptyReport ==
    \A b \in Brokers : \A i \in DOMAIN broker[b].receivedMWOEs :
        broker[b].receivedMWOEs[i].broker # NULL

(* Two neighbours never both take the other one for the way to the leader: *)
(* MWOE messages would run to and fro between them for ever.               *)
NoHopCycle ==
    \A b, c \in Brokers :
      Round(b) = Round(c) /\ broker[b].leaderHop = c /\ broker[c].leaderHop = b
        => b = broker[b].componentId \/ c = broker[c].componentId

(* Brokers in the same convergence build the tree over the same brokers,   *)
(* though each has kept its list by itself since it registered.            *)
SameRoundSameBrokers ==
    Idle => \A b, c \in RegisteredBrokers :
              Round(b) = Round(c) => Available(b) = Available(c)

(* A registered broker holds, in its queue or waiting out ConverganceDelay,*)
(* a join message of each number the name server has given out since the   *)
(* convergence it is in: none is lost and none is held twice.              *)
HeldJoins(b) ==
    {m \in timers[b] : m.type = "Join"} \cup ToSet(broker[b].awaitingNSMsgs)

NoJoinIsLost ==
    Idle => \A b \in RegisteredBrokers :
              /\ {m.convergenceNo : m \in HeldJoins(b)} = Round(b) + 1 .. convergenceNumber - 1
              /\ Cardinality(HeldJoins(b)) = convergenceNumber - 1 - Round(b)

(* isConverged compares two sizes; a broker that takes itself for          *)
(* converged has in fact all available brokers in its fragment, and each   *)
(* of them has started this convergence.                                   *)
ConvergedMeansAll ==
    \A b \in RegisteredBrokers :
      broker[b].converged /\ ~broker[b].initial
        => /\ Members(b) = Available(b)
           /\ \A c \in Available(b) : Round(c) >= Round(b)

(* When nothing is left to do, every registered broker has converged on    *)
(* the last number given out, with the name server's brokers as members,   *)
(* the smallest as leader, nothing held back, and the links form a tree    *)
(* that spans them; brokers that sleep have no link.                       *)
Settled(b) ==
    /\ broker[b].converged
    /\ Round(b) = convergenceNumber - 1
    /\ Available(b) = RegisteredBrokers
    /\ Members(b) = RegisteredBrokers
    /\ broker[b].componentId = Min(RegisteredBrokers)
    /\ broker[b].receivedMWOEs = <<>>

QuietMeansSettled ==
    Quiet =>
      /\ \A b \in RegisteredBrokers : Settled(b)
      /\ \A b \in Brokers \ RegisteredBrokers : Linked(b) = {}
      /\ RegisteredBrokers # {} =>
            Cardinality(Links(convergenceNumber - 1)) = Len(brokerList) - 1

(* Connect messages of one sender are stored in the order of convergences, *)
(* each once.  initiateProtocol relies on it: to delete the i-th mapping   *)
(* it calls Map::removeMapping(index), which removes the first one with    *)
(* the same key; the model removes the right one.                          *)
ConnectsInOrder ==
    [][\A b \in Brokers :
         \A new \in broker'[b].receivedConnects \ broker[b].receivedConnects :
           \A old \in broker[b].receivedConnects :
             old.broker = new.broker => old.convergenceNumber < new.convergenceNumber]_vars

(* "once more than 1 broker has been registered, it can never drop bellow  *)
(* 1" (NameServer.h)                                                       *)
OneBrokerStays == [][Len(brokerList) > 0 => Len(brokerList') > 0]_vars

(* A broker that starts a convergence converges.                           *)
Converges ==
    \A b \in Brokers : ~broker[b].converged ~> broker[b].converged

(* The protocol implements the abstract specification: a broker adds a     *)
(* link only when it is the shortest way out of the fragments of both of   *)
(* its ends as they are at that moment, whatever messages are still under  *)
(* way.                                                                    *)
Rounds == [b \in Brokers |-> Round(b)]
BuildsOver == [b \in Brokers |-> Available(b)]
LinkedTo == [b \in Brokers |-> Linked(b)]

Forests == INSTANCE SpanningForest WITH
    delay <- conditionTable, round <- Rounds, available <- BuildsOver, linked <- LinkedTo

BuildsForest == Forests!ForestSpec
=============================================================================
