------------------------ MODULE OptimalBroker_proofs ------------------------
(***************************************************************************)
(* Proofs about OptimalBroker for every set of brokers and every table of  *)
(* delays.                                                                 *)
(*                                                                         *)
(* First the types (IInv), what follows from the refinement of Fragments,  *)
(* and what each handler does.  Then how brokers register, join and leave: *)
(* the name server's list goes through a history of changes, one at a      *)
(* time, and every registered broker goes through the same changes in the  *)
(* same order, at its own pace.  JoinsOK says where in that history each   *)
(* broker is, which changes it holds back, and which phase the change that *)
(* is under way is in.                                                     *)
(***************************************************************************)
EXTENDS BrokerFragments, SequenceTheorems, FiniteSetTheorems, WellFoundedInduction, TLAPS

-----------------------------------------------------------------------------
(* The neighbours vector                                                   *)

(* A non-empty set of naturals has a smallest element, which Min chooses.  *)
LEMMA MinProperties ==
    ASSUME NEW S \in SUBSET Nat, S # {}
    PROVE  Min(S) \in S /\ \A x \in S : Min(S) <= x
<1>1. IsWellFoundedOn(OpToRel(<, Nat), Nat)
  BY NatLessThanWellFounded
<1>2. \E x \in S : \A y \in S : ~(<<y, x>> \in OpToRel(<, Nat))
  BY <1>1, WFMin, Zenon
<1>3. \E x \in S : \A y \in S : ~(y < x)
  BY <1>2, Zenon DEF OpToRel
<1>4. \E x \in S : \A y \in S : x <= y
  BY <1>3
<1> QED
  BY <1>4 DEF Min

(* The number of entries of a node is finite.                              *)
LEMMA CopiesType ==
    ASSUME NEW v \in NeighboursVector, NEW places
    PROVE  Copies(v, places) \in [Nodes -> Nat]
<1>1. v \in Seq(NeighbourEntry \cup {NULL})
  BY DEF NeighboursVector
<1>2. Len(v) \in Nat /\ DOMAIN v = 1 .. Len(v)
  BY <1>1
<1>3. IsFiniteSet(1 .. Len(v))
  BY <1>2, FS_Interval
<1>4. ASSUME NEW n \in Nodes
      PROVE  Cardinality(Places(v, n) \cap places) \in Nat
  <2>1. Places(v, n) \cap places \subseteq 1 .. Len(v)
    BY <1>2 DEF Places
  <2> QED
    BY <2>1, <1>3, FS_Subset, FS_CardinalityType
<1> QED
  BY <1>4 DEF Copies

(* Adding a node gives a vector of neighbours again.                       *)
LEMMA AddMappingType ==
    ASSUME NEW v \in NeighboursVector, NEW n \in Brokers \cup Clients
    PROVE  addMapping(v, n) \in NeighboursVector
<1> DEFINE ne == [node |-> n, subscriptions |-> {}]
           E == NeighbourEntry \cup {NULL}
<1>1. ne \in E
  BY DEF NeighbourEntry
<1>2. v \in Seq(E)
  BY DEF NeighboursVector
<1>3. addMapping(v, n) = IF Holes(v) # {} THEN [v EXCEPT ![Min(Holes(v))] = ne]
                         ELSE Append(v, ne)
  BY DEF addMapping
<1> HIDE DEF ne, E
<1>4. Append(v, ne) \in Seq(E)
  BY <1>1, <1>2, AppendProperties
<1>5. ASSUME Holes(v) # {}
      PROVE  [v EXCEPT ![Min(Holes(v))] = ne] \in Seq(E)
  <2>1. Holes(v) \in SUBSET Nat
    BY <1>2 DEF Holes
  <2>2. Min(Holes(v)) \in Holes(v)
    BY <1>5, <2>1, MinProperties
  <2>3. Min(Holes(v)) \in 1 .. Len(v)
    BY <1>2, <2>2 DEF Holes
  <2> QED
    BY <1>1, <1>2, <2>3, ExceptSeq
<1> QED
  BY <1>3, <1>4, <1>5 DEF NeighboursVector, E

-----------------------------------------------------------------------------
(* Types of effects                                                        *)

Effect ==
    [self : Brokers, st : BrokerState, direct : Seq(Event),
     out : [Nodes -> Seq(Message)], timers : SUBSET Message, fault : BOOLEAN]

LEMMA FaultType ==
    ASSUME NEW e \in Effect
    PROVE  Fault(e) \in Effect
BY DEF Effect, Fault

LEMMA SendDirectType ==
    ASSUME NEW e \in Effect, NEW n \in Nodes, NEW m \in Message
    PROVE  SendDirect(e, n, m) \in Effect
<1> DEFINE d == Append(e.direct, [to |-> n, msg |-> m])
<1>1. [to |-> n, msg |-> m] \in Event
  BY DEF Event
<1>2. e.direct \in Seq(Event)
  BY DEF Effect
<1>3. d \in Seq(Event)
  BY <1>1, <1>2, AppendProperties
<1>4. SendDirect(e, n, m) = [e EXCEPT !.direct = d]
  BY DEF SendDirect
<1> HIDE DEF d
<1> QED
  BY <1>3, <1>4 DEF Effect

LEMMA ScheduleType ==
    ASSUME NEW e \in Effect, NEW m \in Message
    PROVE  Schedule(e, m) \in Effect
BY DEF Effect, Schedule

LEMMA SendToType ==
    ASSUME NEW e \in Effect, NEW n \in Nodes, NEW m \in Message
    PROVE  SendTo(e, n, m) \in Effect
<1> DEFINE o == Append(e.out[n], m)
<1>1. e.out[n] \in Seq(Message)
  BY DEF Effect
<1>2. o \in Seq(Message)
  BY <1>1, AppendProperties
<1>3. SendTo(e, n, m) = [e EXCEPT !.out[n] = o]
  BY DEF SendTo
<1> HIDE DEF o
<1> QED
  BY <1>2, <1>3 DEF Effect

LEMMA SendCopiesType ==
    ASSUME NEW e \in Effect, NEW m \in Message, NEW count \in [Nodes -> Nat]
    PROVE  SendCopies(e, count, m) \in Effect
<1> DEFINE o == [n \in Nodes |-> e.out[n] \o [i \in 1 .. count[n] |-> m]]
<1>1. \A n \in Nodes : [i \in 1 .. count[n] |-> m] \in Seq(Message)
  OBVIOUS
<1>2. \A n \in Nodes : e.out[n] \in Seq(Message)
  BY DEF Effect
<1>3. \A n \in Nodes : e.out[n] \o [i \in 1 .. count[n] |-> m] \in Seq(Message)
  BY <1>1, <1>2, ConcatProperties
<1>4. o \in [Nodes -> Seq(Message)]
  BY <1>3
<1>5. SendCopies(e, count, m) = [e EXCEPT !.out = o]
  BY DEF SendCopies
<1> HIDE DEF o
<1> QED
  BY <1>4, <1>5 DEF Effect

LEMMA StateType ==
    ASSUME NEW e \in Effect, NEW s \in BrokerState
    PROVE  [e EXCEPT !.st = s] \in Effect
BY DEF Effect

-----------------------------------------------------------------------------
(* Handlers keep the type of an effect.  SameFragment: they also leave     *)
(* alone what this broker knows of its fragment.                           *)

SameFragment(e, f) ==
    /\ f.self = e.self
    /\ f.st.members = e.st.members
    /\ f.st.componentId = e.st.componentId

LEMMA SendPreserves ==
    ASSUME NEW e \in Effect, NEW n \in Brokers \cup {NULL}, NEW m \in Message
    PROVE  Send(e, n, m) \in Effect /\ SameFragment(e, Send(e, n, m))
<1>1. CASE n # NULL /\ hasNode(e.st.neighboursMap, n)
  <2>1. n \in Nodes
    BY <1>1 DEF Nodes
  <2>2. Send(e, n, m) = SendTo(e, n, m)
    BY <1>1 DEF Send
  <2>3. SendTo(e, n, m) \in Effect
    BY <2>1, SendToType
  <2>4. SendTo(e, n, m).st = e.st /\ SendTo(e, n, m).self = e.self
    BY DEF SendTo, Effect
  <2> QED
    BY <2>2, <2>3, <2>4 DEF SameFragment
<1>2. CASE ~(n # NULL /\ hasNode(e.st.neighboursMap, n))
  <2>1. Send(e, n, m) = Fault(e)
    BY <1>2 DEF Send
  <2> QED
    BY <2>1, FaultType DEF SameFragment, Fault, Effect
<1> QED
  BY <1>1, <1>2

LEMMA ToPassOnType ==
    ASSUME NEW e \in Effect, NEW subs \in SUBSET Subscription, NEW n
    PROVE  ToPassOn(e, subs, n) \subseteq Topics
BY DEF ToPassOn, Subscription

LEMMA AddTopicsType ==
    ASSUME NEW x \in NeighbourEntry, NEW topics \in SUBSET Topics
    PROVE  [x EXCEPT !.subscriptions = @ \cup topics] \in NeighbourEntry
BY DEF NeighbourEntry

LEMMA HandleSubscriptionsPreserves ==
    ASSUME NEW e \in Effect, NEW subs \in SUBSET Subscription
    PROVE  /\ HandleSubscriptions(e, subs) \in Effect
           /\ SameFragment(e, HandleSubscriptions(e, subs))
<1> DEFINE nm == e.st.neighboursMap
           message(n) == [type |-> "Subscription", subscriber |-> e.self,
                          topics |-> ToPassOn(e, subs, n)]
           count == Copies(nm, BrokerPlaces(nm))
           mine == [i \in DOMAIN nm |->
                      {s.topic : s \in {x \in subs : x.subscriber = nm[i].node}}]
           nm1 == [i \in DOMAIN nm |->
                     IF nm[i] # NULL /\ i = Min(Places(nm, nm[i].node))
                     THEN [nm[i] EXCEPT !.subscriptions = @ \cup mine[i]]
                     ELSE nm[i]]
           monitor == e.st.subscriptionMonitor
                        \cup UNION {ToPassOn(e, subs, n) : n \in NeighbourBrokers(nm)}
           out == [n \in Nodes |->
                     IF ToPassOn(e, subs, n) = {} THEN e.out[n]
                     ELSE e.out[n] \o [i \in 1 .. count[n] |-> message(n)]]
<1>1. HandleSubscriptions(e, subs) =
        [e EXCEPT !.st.neighboursMap = nm1, !.st.subscriptionMonitor = monitor, !.out = out]
  BY DEF HandleSubscriptions
<1>2. nm \in Seq(NeighbourEntry \cup {NULL}) /\ e.self \in Brokers
  BY DEF Effect, BrokerState, NeighboursVector
<1>3. nm1 \in NeighboursVector
  <2>1. \A i \in DOMAIN nm : mine[i] \in SUBSET Topics
    BY DEF Subscription
  <2> HIDE DEF mine
  <2>2. \A i \in DOMAIN nm : nm1[i] \in NeighbourEntry \cup {NULL}
    <3> SUFFICES ASSUME NEW i \in DOMAIN nm
                 PROVE  nm1[i] \in NeighbourEntry \cup {NULL}
      OBVIOUS
    <3>1. nm[i] \in NeighbourEntry \cup {NULL} /\ mine[i] \in SUBSET Topics
      BY <1>2, <2>1
    <3>2. nm[i] \in NeighbourEntry
            => [nm[i] EXCEPT !.subscriptions = @ \cup mine[i]] \in NeighbourEntry
      BY <3>1, AddTopicsType
    <3>3. nm1[i] = IF nm[i] # NULL /\ i = Min(Places(nm, nm[i].node))
                   THEN [nm[i] EXCEPT !.subscriptions = @ \cup mine[i]]
                   ELSE nm[i]
      OBVIOUS
    <3> HIDE DEF nm1, nm
    <3> QED
      BY <3>1, <3>2, <3>3
  <2>3. Len(nm) \in Nat /\ DOMAIN nm = 1 .. Len(nm)
    BY <1>2
  <2> HIDE DEF nm
  <2>4. nm1 \in [1 .. Len(nm) -> NeighbourEntry \cup {NULL}]
    BY <2>2, <2>3
  <2> HIDE DEF nm1
  <2> QED
    BY <2>3, <2>4 DEF NeighboursVector
<1>4. monitor \subseteq Topics
  <2>1. e.st.subscriptionMonitor \subseteq Topics
    BY DEF Effect, BrokerState
  <2> QED
    BY <2>1, ToPassOnType
<1>5. out \in [Nodes -> Seq(Message)]
  <2>1. nm \in NeighboursVector
    BY DEF Effect, BrokerState
  <2>2. count \in [Nodes -> Nat]
    BY <2>1, CopiesType
  <2> HIDE DEF count
  <2>3. ASSUME NEW n \in Nodes
        PROVE  e.out[n] \o [i \in 1 .. count[n] |-> message(n)] \in Seq(Message)
    <3>1. message(n) \in Message
      BY <1>2, ToPassOnType DEF Message, SubscriptionMessage
    <3> HIDE DEF message
    <3>2. [i \in 1 .. count[n] |-> message(n)] \in Seq(Message)
      BY <2>2, <3>1
    <3>3. e.out[n] \in Seq(Message)
      BY DEF Effect
    <3> QED
      BY <3>2, <3>3, ConcatProperties
  <2>4. \A n \in Nodes : e.out[n] \in Seq(Message)
    BY DEF Effect
  <2> QED
    BY <2>3, <2>4
<1> HIDE DEF nm, mine, count, message, nm1, monitor, out
<1> DEFINE f == [e EXCEPT !.st.neighboursMap = nm1, !.st.subscriptionMonitor = monitor,
                          !.out = out]
<1>6. f \in Effect
  BY <1>3, <1>4, <1>5 DEF Effect, BrokerState
<1>7. SameFragment(e, f)
  BY DEF Effect, BrokerState, SameFragment
<1> HIDE DEF f
<1> QED
  BY <1>1, <1>6, <1>7 DEF f

LEMMA ConcludePreserves ==
    ASSUME NEW e \in Effect
    PROVE  Conclude(e) \in Effect /\ SameFragment(e, Conclude(e))
<1>1. CASE e.st.awaitingNSMsgs # <<>>
  <2> DEFINE q == e.st.awaitingNSMsgs
             f == [e EXCEPT !.st.awaitingNSMsgs = Tail(q), !.st.bufferedSubs = {}]
  <2>1. q \in Seq(JoinMessage)
    BY DEF Effect, BrokerState
  <2>2. Head(q) \in JoinMessage /\ Tail(q) \in Seq(JoinMessage)
    BY <1>1, <2>1, HeadTailProperties
  <2>3. Head(q) \in Message
    BY <2>2 DEF Message, ProtocolMessage
  <2>4. f \in Effect /\ SameFragment(e, f)
    BY <2>2 DEF Effect, BrokerState, SameFragment
  <2>5. Conclude(e) = Schedule(f, Head(q))
    BY <1>1 DEF Conclude
  <2> HIDE DEF f, q
  <2>6. Schedule(f, Head(q)) \in Effect
    BY <2>3, <2>4, ScheduleType
  <2> QED
    BY <2>4, <2>5, <2>6 DEF SameFragment, Schedule, Effect
<1>2. CASE e.st.awaitingNSMsgs = <<>>
  <2> DEFINE f == HandleSubscriptions(e, e.st.bufferedSubs)
  <2>1. e.st.bufferedSubs \in SUBSET Subscription
    BY DEF Effect, BrokerState
  <2>2. f \in Effect /\ SameFragment(e, f)
    BY <2>1, HandleSubscriptionsPreserves
  <2>3. Conclude(e) = [f EXCEPT !.st.bufferedSubs = {}]
    BY <1>2 DEF Conclude
  <2> HIDE DEF f
  <2>4. [f EXCEPT !.st.bufferedSubs = {}] \in Effect
    BY <2>2 DEF Effect, BrokerState
  <2>5. SameFragment(f, [f EXCEPT !.st.bufferedSubs = {}])
    BY <2>2 DEF Effect, BrokerState, SameFragment
  <2> QED
    BY <2>2, <2>3, <2>4, <2>5 DEF SameFragment
<1> QED
  BY <1>1, <1>2

LEMMA NearestType ==
    ASSUME IsConditionTable(conditionTable), NEW b \in Brokers,
           NEW cs \in SUBSET Brokers, cs # {}
    PROVE  Nearest(b, cs) \in cs
<1> DEFINE delays == {conditionTable[b][d] : d \in cs}
<1>1. delays \in SUBSET Nat /\ delays # {}
  BY DEF IsConditionTable
<1>2. Min(delays) \in delays
  BY <1>1, MinProperties
<1>3. \E c \in cs : conditionTable[b][c] = Min(delays)
  BY <1>2
<1> QED
  BY <1>3 DEF Nearest

LEMMA PushType ==
    ASSUME NEW m \in MWOEMessage, NEW b \in Brokers
    PROVE  [m EXCEPT !.piggyback = Push(@, b)] \in Message
<1>1. <<b>> \in Seq(Brokers) /\ m.piggyback \in Seq(Brokers)
  BY DEF MWOEMessage
<1>2. Push(m.piggyback, b) \in Seq(Brokers)
  BY <1>1, ConcatProperties DEF Push
<1>3. [m EXCEPT !.piggyback = Push(m.piggyback, b)] \in MWOEMessage
  BY <1>2 DEF MWOEMessage
<1> QED
  BY <1>3 DEF Message, ProtocolMessage

LEMMA ScheduleNowPreserves ==
    ASSUME NEW e \in Effect, NEW m \in Message
    PROVE  ScheduleNow(e, m) \in Effect /\ SameFragment(e, ScheduleNow(e, m))
<1>1. e.self \in Nodes
  BY DEF Effect, Nodes
<1>2. SendDirect(e, e.self, m) \in Effect
  BY <1>1, SendDirectType
<1> QED
  BY <1>2 DEF ScheduleNow, SendDirect, SameFragment, Effect

LEMMA ReceiveMWOEType ==
    ASSUME NEW e \in Effect, NEW m \in MWOEMessage
    PROVE  /\ [e EXCEPT !.st.receivedMWOEs = Append(@, m)] \in Effect
           /\ SameFragment(e, [e EXCEPT !.st.receivedMWOEs = Append(@, m)])
<1> DEFINE ms == Append(e.st.receivedMWOEs, m)
<1>1. e.st.receivedMWOEs \in Seq(MWOEMessage)
  BY DEF Effect, BrokerState
<1>2. ms \in Seq(MWOEMessage)
  BY <1>1, AppendProperties
<1> HIDE DEF ms
<1>3. [e EXCEPT !.st.receivedMWOEs = ms] \in Effect
  BY <1>2 DEF Effect, BrokerState
<1>4. SameFragment(e, [e EXCEPT !.st.receivedMWOEs = ms])
  BY DEF Effect, BrokerState, SameFragment
<1> QED
  BY <1>3, <1>4 DEF ms

LEMMA SendMWOEPreserves ==
    ASSUME NEW e \in Effect, IsConditionTable(conditionTable)
    PROVE  SendMWOE(e) \in Effect /\ SameFragment(e, SendMWOE(e))
<1> DEFINE cs == Candidates(e)
           best == Nearest(e.self, cs)
           m == IF cs = {}
                THEN [type |-> "MWOE", broker |-> NULL, delay |-> 0, piggyback |-> <<>>]
                ELSE [type |-> "MWOE", broker |-> best,
                      delay |-> conditionTable[e.self][best], piggyback |-> <<>>]
           f == [e EXCEPT !.st.receivedMWOEs = Append(@, m)]
<1>1. e.self \in Brokers /\ e.st.leaderHop \in Brokers \cup {NULL}
  BY DEF Effect, BrokerState
<1>2. cs \subseteq Brokers
  <2>1. e.st.availableBrokers \in Seq(Brokers)
    BY DEF Effect, BrokerState
  <2> QED
    BY <2>1 DEF Candidates, ToSet
<1>3. m \in MWOEMessage
  <2>1. CASE cs = {}
    BY <2>1 DEF MWOEMessage
  <2>2. CASE cs # {}
    <3>1. best \in Brokers
      BY <1>1, <1>2, <2>2, NearestType
    <3>2. conditionTable[e.self][best] \in Nat
      BY <1>1, <3>1 DEF IsConditionTable
    <3> HIDE DEF best
    <3> QED
      BY <2>2, <3>1, <3>2 DEF MWOEMessage
  <2> QED
    BY <2>1, <2>2
<1> HIDE DEF cs, m
<1>4. m \in Message
  BY <1>3 DEF Message, ProtocolMessage
<1>5. f \in Effect /\ SameFragment(e, f)
  BY <1>3, ReceiveMWOEType
<1> DEFINE pushed == [m EXCEPT !.piggyback = Push(@, e.self)]
<1>6. pushed \in Message
  BY <1>1, <1>3, PushType
<1>7. SendMWOE(e) = IF ~isLeader(e) THEN Send(e, e.st.leaderHop, pushed)
                    ELSE IF cs # {} THEN ScheduleNow(e, m) ELSE ScheduleNow(f, m)
  BY DEF SendMWOE, cs, m
<1> HIDE DEF f, pushed
<1>8. Send(e, e.st.leaderHop, pushed) \in Effect
        /\ SameFragment(e, Send(e, e.st.leaderHop, pushed))
  BY <1>1, <1>6, SendPreserves
<1>9. ScheduleNow(e, m) \in Effect /\ SameFragment(e, ScheduleNow(e, m))
  BY <1>4, ScheduleNowPreserves
<1>10. ScheduleNow(f, m) \in Effect /\ SameFragment(f, ScheduleNow(f, m))
  BY <1>4, <1>5, ScheduleNowPreserves
<1> QED
  BY <1>5, <1>7, <1>8, <1>9, <1>10 DEF SameFragment

LEMMA FindAndSendMWOEPreserves ==
    ASSUME NEW e \in Effect, IsConditionTable(conditionTable)
    PROVE  findAndSendMWOE(e) \in Effect /\ SameFragment(e, findAndSendMWOE(e))
<1> DEFINE f == [e EXCEPT !.st.converged = isConverged(e.st)]
<1>1. f \in Effect /\ SameFragment(e, f)
  BY DEF Effect, BrokerState, isConverged, SameFragment
<1>2. findAndSendMWOE(e) = IF f.st.converged THEN Conclude(f) ELSE SendMWOE(f)
  BY DEF findAndSendMWOE
<1> HIDE DEF f
<1> QED
  BY <1>1, <1>2, ConcludePreserves, SendMWOEPreserves DEF SameFragment

LEMMA ExpandType ==
    ASSUME NEW b \in Brokers, NEW stack \in Seq(Brokers)
    PROVE  [type |-> "Expand", broker |-> b, piggyback |-> stack] \in Message
BY DEF Message, ProtocolMessage, ExpandMessage

LEMMA FindBestMWOEPreserves ==
    ASSUME NEW e \in Effect
    PROVE  findBestMWOE(e) \in Effect /\ SameFragment(e, findBestMWOE(e))
<1> DEFINE ms == e.st.receivedMWOEs
           edges == {i \in DOMAIN ms : ms[i].broker # NULL}
           delays == {ms[i].delay : i \in edges}
           least == Min(delays)
           bests == {i \in edges : ms[i].delay = least}
           best == ms[Min(bests)]
           here == [type |-> "Expand", broker |-> best.broker, piggyback |-> <<>>]
           there == [type |-> "Expand", broker |-> best.broker,
                     piggyback |-> Pop(best.piggyback)]
<1>1. findBestMWOE(e) =
        IF edges = {} THEN e
        ELSE IF best.piggyback = <<>> THEN ScheduleNow(e, here)
        ELSE Send(e, Top(best.piggyback), there)
  BY DEF findBestMWOE
<1>2. CASE edges = {}
  BY <1>1, <1>2 DEF SameFragment
<1>3. CASE edges # {}
  <2> HIDE DEF here, there
  <2>1. ms \in Seq(MWOEMessage)
    BY DEF Effect, BrokerState
  <2> HIDE DEF ms
  <2>2. \A i \in edges : i \in Nat /\ ms[i] \in MWOEMessage /\ ms[i].broker # NULL
    BY <2>1
  <2> HIDE DEF edges
  <2>3. delays \in SUBSET Nat /\ delays # {}
    BY <1>3, <2>2 DEF MWOEMessage
  <2>4. least \in delays
    BY <2>3, MinProperties
  <2> HIDE DEF least
  <2>5. bests \in SUBSET Nat /\ bests # {}
    BY <2>2, <2>4
  <2>6. Min(bests) \in bests
    BY <2>5, MinProperties
  <2>7. best \in MWOEMessage /\ best.broker # NULL
    BY <2>2, <2>6
  <2> HIDE DEF best
  <2>8. best.broker \in Brokers /\ best.piggyback \in Seq(Brokers)
    BY <2>7 DEF MWOEMessage
  <2>9. CASE best.piggyback = <<>>
    <3>1. here \in Message
      <4>1. <<>> \in Seq(Brokers)
        OBVIOUS
      <4> QED
        BY <2>8, <4>1, ExpandType DEF here
    <3> QED
      BY <1>1, <1>3, <2>9, <3>1, ScheduleNowPreserves
  <2>10. CASE best.piggyback # <<>>
    <3> DEFINE stack == best.piggyback
    <3>1. Head(stack) \in Brokers /\ Tail(stack) \in Seq(Brokers)
      <4> HIDE DEF stack
      <4>1. stack \in Seq(Brokers) /\ stack # <<>>
        BY <2>8, <2>10 DEF stack
      <4> QED
        BY <4>1, HeadTailProperties
    <3>2. there \in Message
      BY <2>8, <3>1, ExpandType DEF there, Pop
    <3> QED
      BY <1>1, <1>3, <2>10, <3>1, <3>2, SendPreserves DEF Top
  <2> QED
    BY <2>9, <2>10
<1> QED
  BY <1>2, <1>3

LEMMA HandleMWOEPreserves ==
    ASSUME NEW e \in Effect, NEW m \in MWOEMessage
    PROVE  handleMWOEMessage(e, m) \in Effect /\ SameFragment(e, handleMWOEMessage(e, m))
<1> DEFINE e1 == [e EXCEPT !.st.receivedMWOEs = Append(@, m)]
           pushed == [m EXCEPT !.piggyback = Push(@, e.self)]
           f == findBestMWOE(e1)
           g == [f EXCEPT !.st.receivedMWOEs = <<>>]
<1>1. e1 \in Effect /\ SameFragment(e, e1)
  BY ReceiveMWOEType
<1>2. e.self \in Brokers /\ e.st.leaderHop \in Brokers \cup {NULL}
  BY DEF Effect, BrokerState
<1>3. pushed \in Message
  BY <1>2, PushType
<1>4. Send(e, e.st.leaderHop, pushed) \in Effect
        /\ SameFragment(e, Send(e, e.st.leaderHop, pushed))
  BY <1>2, <1>3, SendPreserves
<1> HIDE DEF e1, pushed
<1>5. f \in Effect /\ SameFragment(e1, f)
  BY <1>1, FindBestMWOEPreserves
<1> HIDE DEF f
<1>6. g \in Effect
  <2>1. <<>> \in Seq(MWOEMessage)
    OBVIOUS
  <2> QED
    BY <1>5, <2>1 DEF Effect, BrokerState
<1>8. SameFragment(f, g)
  BY <1>5 DEF Effect, BrokerState, SameFragment
<1>7. handleMWOEMessage(e, m) =
        IF ~isLeader(e) THEN Send(e, e.st.leaderHop, pushed)
        ELSE IF Len(e1.st.receivedMWOEs) = Cardinality(e1.st.members) THEN g ELSE e1
  BY DEF handleMWOEMessage, e1, pushed, f
<1> HIDE DEF g
<1> QED
  BY <1>1, <1>4, <1>5, <1>6, <1>7, <1>8 DEF SameFragment

-----------------------------------------------------------------------------
(* The leader of a fragment.  Led: a broker that knows members takes the   *)
(* smallest of them for the leader.                                        *)

Led(st) ==
    st.members # {} =>
      /\ st.componentId \in st.members
      /\ \A c \in st.members : st.componentId <= c

(* A broker that has started its first convergence keeps knowing members.  *)
Member(e) == e \in Effect /\ e.st.members # {} /\ Led(e.st)

LEMMA SameFragmentMember ==
    ASSUME NEW e, NEW f \in Effect, Member(e), SameFragment(e, f)
    PROVE  Member(f)
BY DEF Member, Led, SameFragment

(* The smallest of the members and of the leader so far leads them all.    *)
LEMMA MergeLeads ==
    ASSUME NEW e, Member(e), NEW S \in SUBSET Brokers
    PROVE  LET members == e.st.members \cup S
               leader == Min(members \cup {e.st.componentId})
           IN  /\ members \in SUBSET Brokers
               /\ members # {}
               /\ leader \in members
               /\ leader \in Brokers
               /\ \A c \in members : leader <= c
<1> DEFINE members == e.st.members \cup S
<1>1. /\ e.st.members \in SUBSET Brokers
      /\ e.st.members # {}
      /\ e.st.componentId \in e.st.members
  BY DEF Member, Led, Effect, BrokerState
<1>2. members \cup {e.st.componentId} = members
  BY <1>1
<1>3. members \in SUBSET Nat /\ members # {}
  BY <1>1, BrokersAssumption
<1>4. Min(members) \in members /\ \A c \in members : Min(members) <= c
  BY <1>3, MinProperties
<1> QED
  BY <1>1, <1>2, <1>4

LEMMA UpdateNeighbours ==
    ASSUME NEW e \in Effect, NEW m \in UpdateMessage, NEW places
    PROVE  LET f == SendCopies(e, Copies(e.st.neighboursMap, places), m)
           IN  f \in Effect /\ f.st = e.st /\ f.self = e.self
<1>1. e.st.neighboursMap \in NeighboursVector
  BY DEF Effect, BrokerState
<1>2. Copies(e.st.neighboursMap, places) \in [Nodes -> Nat]
  BY <1>1, CopiesType
<1>3. m \in Message
  BY DEF Message, ProtocolMessage
<1>4. SendCopies(e, Copies(e.st.neighboursMap, places), m) \in Effect
  BY <1>2, <1>3, SendCopiesType
<1> QED
  BY <1>4 DEF SendCopies, Effect

LEMMA ConnectPreserves ==
    ASSUME NEW e, Member(e), NEW con \in ConnectMessage
    PROVE  Member(connect(e, con)) /\ connect(e, con).self = e.self
<1> DEFINE members == e.st.members \cup con.members
           leader == Min(members \cup {e.st.componentId})
           update == [type |-> "Update", sender |-> e.self, members |-> members]
           nm == e.st.neighboursMap
           e1 == SendCopies(e, Copies(nm, BrokerPlaces(nm)), update)
           hop == IF leader # e.st.componentId THEN con.broker ELSE e.st.leaderHop
           nm1 == addMapping(nm, con.broker)
           f == [e1 EXCEPT !.st.members = members, !.st.leaderHop = hop,
                           !.st.componentId = leader, !.st.neighboursMap = nm1]
<1>1. con.broker \in Brokers /\ con.members \in SUBSET Brokers
  BY DEF ConnectMessage
<1>2. /\ members \in SUBSET Brokers /\ members # {}
      /\ leader \in members /\ leader \in Brokers
      /\ \A c \in members : leader <= c
  BY <1>1, MergeLeads
<1>3. e \in Effect /\ e.self \in Brokers /\ e.st.leaderHop \in Brokers \cup {NULL}
  BY DEF Member, Effect, BrokerState
<1> HIDE DEF members, leader
<1>4. update \in UpdateMessage
  BY <1>2, <1>3 DEF UpdateMessage
<1> HIDE DEF update
<1>5. e1 \in Effect /\ e1.st = e.st /\ e1.self = e.self
  BY <1>3, <1>4, UpdateNeighbours
<1>6. nm1 \in NeighboursVector
  <2>1. nm \in NeighboursVector
    BY <1>3 DEF Effect, BrokerState
  <2> QED
    BY <1>1, <2>1, AddMappingType
<1>7. hop \in Brokers \cup {NULL}
  BY <1>1, <1>3
<1>8. connect(e, con) = f
  <2>1. e1.st.leaderHop = e.st.leaderHop /\ e1.st.componentId = e.st.componentId
          /\ e1.st.neighboursMap = nm
    BY <1>5
  <2>2. connect(e, con) =
          [e1 EXCEPT !.st.members = members,
                     !.st.leaderHop = IF leader # e.st.componentId THEN con.broker ELSE @,
                     !.st.componentId = leader,
                     !.st.neighboursMap = addMapping(@, con.broker)]
    BY DEF connect, members, leader, update
  <2> HIDE DEF e1
  <2> QED
    BY <1>5, <2>1, <2>2 DEF Effect, BrokerState
<1> HIDE DEF e1, hop, nm1, nm
<1>9. f \in Effect
  BY <1>2, <1>5, <1>6, <1>7 DEF Effect, BrokerState
<1>10. f.st.members = members /\ f.st.componentId = leader /\ f.self = e.self
  BY <1>5 DEF Effect, BrokerState
<1> HIDE DEF f
<1> QED
  BY <1>2, <1>8, <1>9, <1>10 DEF Member, Led

LEMMA FindAndSendMWOEMember ==
    ASSUME NEW e, Member(e), IsConditionTable(conditionTable)
    PROVE  Member(findAndSendMWOE(e)) /\ findAndSendMWOE(e).self = e.self
<1>1. e \in Effect
  BY DEF Member
<1>2. findAndSendMWOE(e) \in Effect /\ SameFragment(e, findAndSendMWOE(e))
  BY <1>1, FindAndSendMWOEPreserves
<1>3. findAndSendMWOE(e).self = e.self
  BY <1>2 DEF SameFragment
<1> QED
  BY <1>2, <1>3, SameFragmentMember

LEMMA SendConnectionPreserves ==
    ASSUME NEW e, Member(e), NEW b \in Brokers, IsConditionTable(conditionTable)
    PROVE  Member(sendConnection(e, b))
<1> DEFINE con == [type |-> "Connect", broker |-> e.self,
                   convergenceNumber |-> e.st.currentConvergence,
                   members |-> e.st.members]
           answered == CHOOSE c \in ConnectsFrom(e, b) : TRUE
           e1 == IF ConnectsFrom(e, b) # {} THEN findAndSendMWOE(connect(e, answered))
                 ELSE [e EXCEPT !.st.sentConnects = @ \cup {b}]
<1>1. e \in Effect
  BY DEF Member
<1>2. con \in Message
  BY <1>1 DEF Effect, BrokerState, Message, ProtocolMessage, ConnectMessage
<1>3. Member(e1)
  <2>1. CASE ConnectsFrom(e, b) # {}
    <3>1. answered \in ConnectMessage
      BY <1>1, <2>1 DEF ConnectsFrom, Effect, BrokerState
    <3> HIDE DEF answered
    <3>2. Member(connect(e, answered))
      BY <3>1, ConnectPreserves
    <3> QED
      BY <2>1, <3>2, FindAndSendMWOEMember
  <2>2. CASE ConnectsFrom(e, b) = {}
    <3> DEFINE f == [e EXCEPT !.st.sentConnects = @ \cup {b}]
    <3>1. f \in Effect /\ SameFragment(e, f)
      BY <1>1 DEF Effect, BrokerState, SameFragment
    <3>2. Member(f)
      BY <3>1, SameFragmentMember
    <3> QED
      BY <2>2, <3>2
  <2> QED
    BY <2>1, <2>2
<1>4. sendConnection(e, b) = SendDirect(e1, b, con)
  BY DEF sendConnection
<1> HIDE DEF e1, con
<1>5. SendDirect(e1, b, con) \in Effect
  BY <1>2, <1>3, SendDirectType DEF Member, Nodes
<1>6. SameFragment(e1, SendDirect(e1, b, con))
  BY <1>3 DEF Member, Effect, SendDirect, SameFragment
<1> QED
  BY <1>3, <1>4, <1>5, <1>6, SameFragmentMember

LEMMA HandleExpandPreserves ==
    ASSUME NEW e, Member(e), NEW m \in ExpandMessage, IsConditionTable(conditionTable)
    PROVE  Member(handleExpandMessage(e, m))
<1>1. CASE m.piggyback = <<>>
  <2>1. m.broker \in Brokers
    BY DEF ExpandMessage
  <2> QED
    BY <1>1, <2>1, SendConnectionPreserves DEF handleExpandMessage
<1>2. CASE m.piggyback # <<>>
  <2> DEFINE stack == m.piggyback
             next == [m EXCEPT !.piggyback = Pop(@)]
  <2>1. stack \in Seq(Brokers) /\ stack # <<>> /\ m.broker \in Brokers
    BY <1>2 DEF ExpandMessage
  <2>2. Head(stack) \in Brokers /\ Tail(stack) \in Seq(Brokers)
    <3> HIDE DEF stack
    <3> QED
      BY <2>1, HeadTailProperties
  <2>3. next = [m EXCEPT !.piggyback = Tail(stack)]
    BY DEF Pop
  <2>4. next \in Message
    <3> HIDE DEF next, stack
    <3> QED
      BY <2>2, <2>3 DEF ExpandMessage, Message, ProtocolMessage
  <2>5. handleExpandMessage(e, m) = Send(e, Head(stack), next)
    BY <1>2 DEF handleExpandMessage, Top
  <2> HIDE DEF next, stack
  <2>6. e \in Effect
    BY DEF Member
  <2>7. Send(e, Head(stack), next) \in Effect
          /\ SameFragment(e, Send(e, Head(stack), next))
    BY <2>2, <2>4, <2>6, SendPreserves
  <2> QED
    BY <2>5, <2>7, SameFragmentMember
<1> QED
  BY <1>1, <1>2

LEMMA HandleConnectionPreserves ==
    ASSUME NEW e, Member(e), NEW con \in ConnectMessage, IsConditionTable(conditionTable)
    PROVE  Member(handleConnectionMessage(e, con))
<1> DEFINE f == [e EXCEPT !.st.receivedConnects = @ \cup {con}]
<1>1. Member(findAndSendMWOE(connect(e, con)))
  BY ConnectPreserves, FindAndSendMWOEMember
<1>2. Member(f)
  <2>1. f \in Effect /\ SameFragment(e, f)
    BY DEF Member, Effect, BrokerState, SameFragment
  <2> QED
    BY <2>1, SameFragmentMember
<1> HIDE DEF f
<1>3. handleConnectionMessage(e, con) \in {findAndSendMWOE(connect(e, con)), f, e}
  BY DEF handleConnectionMessage, f
<1> QED
  BY <1>1, <1>2, <1>3

LEMMA HandleUpdatePreserves ==
    ASSUME NEW e, Member(e), NEW m \in UpdateMessage, IsConditionTable(conditionTable)
    PROVE  Member(handleUpdateMessage(e, m))
<1> DEFINE members == e.st.members \cup m.members
           leader == Min(members \cup {e.st.componentId})
           nm == e.st.neighboursMap
           others == {i \in BrokerPlaces(nm) : nm[i].node # m.sender}
           update == [m EXCEPT !.sender = e.self]
           e1 == SendCopies(e, Copies(nm, others), update)
           hop == IF leader = e.st.componentId THEN e.st.leaderHop
                  ELSE IF hasNode(nm, m.sender) THEN m.sender ELSE NULL
           f == [e1 EXCEPT !.st.members = members, !.st.leaderHop = hop,
                           !.st.componentId = leader]
<1>1. m.sender \in Brokers /\ m.members \in SUBSET Brokers
  BY DEF UpdateMessage
<1>2. /\ members \in SUBSET Brokers /\ members # {}
      /\ leader \in members /\ leader \in Brokers
      /\ \A c \in members : leader <= c
  BY <1>1, MergeLeads
<1>3. e \in Effect /\ e.self \in Brokers /\ e.st.leaderHop \in Brokers \cup {NULL}
  BY DEF Member, Effect, BrokerState
<1> HIDE DEF members, leader
<1>4. update \in UpdateMessage
  BY <1>3 DEF UpdateMessage
<1> HIDE DEF update, others
<1>5. e1 \in Effect /\ e1.st = e.st /\ e1.self = e.self
  BY <1>3, <1>4, UpdateNeighbours
<1>6. hop \in Brokers \cup {NULL}
  BY <1>1, <1>3
<1>7. handleUpdateMessage(e, m) = findAndSendMWOE(f)
  <2>1. e1.st.leaderHop = e.st.leaderHop
    BY <1>5
  <2>2. handleUpdateMessage(e, m) = findAndSendMWOE(
          [e1 EXCEPT !.st.members = members,
                     !.st.leaderHop = IF leader = e.st.componentId THEN @
                                      ELSE IF hasNode(nm, m.sender) THEN m.sender ELSE NULL,
                     !.st.componentId = leader])
    BY DEF handleUpdateMessage, members, leader, update, others
  <2> HIDE DEF e1
  <2>3. [e1 EXCEPT !.st.members = members,
                   !.st.leaderHop = IF leader = e.st.componentId THEN @
                                    ELSE IF hasNode(nm, m.sender) THEN m.sender ELSE NULL,
                   !.st.componentId = leader] = f
    BY <1>5, <2>1 DEF Effect, BrokerState
  <2> QED
    BY <2>2, <2>3
<1> HIDE DEF e1, hop, nm
<1>8. f \in Effect
  BY <1>2, <1>5, <1>6 DEF Effect, BrokerState
<1>9. f.st.members = members /\ f.st.componentId = leader
  BY <1>5 DEF Effect, BrokerState
<1> HIDE DEF f
<1>10. Member(f)
  BY <1>2, <1>8, <1>9 DEF Member, Led
<1> QED
  BY <1>7, <1>10, FindAndSendMWOEMember

-----------------------------------------------------------------------------
(* Joining and leaving                                                     *)

LEMMA AnnouncePreserves ==
    ASSUME NEW e \in Effect, NEW list \in Seq(Brokers), NEW join \in JoinMessage
    PROVE  Announce(e, list, join) \in Effect /\ SameFragment(e, Announce(e, list, join))
<1> DEFINE joins == [i \in DOMAIN list |-> [to |-> list[i], msg |-> join]]
           direct == e.direct \o joins
           f == [e EXCEPT !.direct = direct]
<1>1. \A i \in DOMAIN list : [to |-> list[i], msg |-> join] \in Event
  BY DEF Event, Nodes, Message, ProtocolMessage
<1>2. Len(list) \in Nat /\ DOMAIN list = 1 .. Len(list)
  OBVIOUS
<1>3. joins \in Seq(Event)
  BY <1>1, <1>2
<1> HIDE DEF joins
<1>4. direct \in Seq(Event)
  BY <1>3, ConcatProperties DEF Effect
<1> HIDE DEF direct
<1>5. f \in Effect /\ SameFragment(e, f)
  BY <1>4 DEF Effect, SameFragment
<1>6. Announce(e, list, join) = f
  BY DEF Announce, direct, joins
<1> QED
  BY <1>5, <1>6

LEMMA RemoveFirstType ==
    ASSUME NEW list \in Seq(Brokers), NEW b
    PROVE  RemoveFirst(list, b) \in Seq(Brokers)
<1> DEFINE places == {i \in 1 .. Len(list) : list[i] = b}
           k == Min(places)
<1>1. CASE places = {}
  BY <1>1 DEF RemoveFirst
<1>2. CASE places # {}
  <2>1. places \in SUBSET Nat
    OBVIOUS
  <2>2. k \in places
    BY <1>2, <2>1, MinProperties
  <2>3. k \in 1 .. Len(list) /\ Len(list) \in Nat
    BY <2>2
  <2>4. RemoveFirst(list, b) = SubSeq(list, 1, k - 1) \o SubSeq(list, k + 1, Len(list))
    BY <1>2 DEF RemoveFirst, RemoveAt, SelectInSeq
  <2> HIDE DEF k
  <2>5. SubSeq(list, 1, k - 1) \in Seq(Brokers)
    BY <2>3, SubSeqProperties
  <2>6. SubSeq(list, k + 1, Len(list)) \in Seq(Brokers)
    BY <2>3, SubSeqProperties
  <2> QED
    BY <2>4, <2>5, <2>6, ConcatProperties
<1> QED
  BY <1>1, <1>2

LEMMA DropNeighboursPreserves ==
    ASSUME NEW e \in Effect
    PROVE  DropNeighbours(e) \in Effect /\ SameFragment(e, DropNeighbours(e))
<1> DEFINE nm == e.st.neighboursMap
           disconnection == [type |-> "Disconnection", requester |-> e.self]
           f == SendCopies(e, Copies(nm, ClientPlaces(nm)), disconnection)
<1>1. nm \in NeighboursVector /\ e.self \in Brokers
  BY DEF Effect, BrokerState
<1>2. Copies(nm, ClientPlaces(nm)) \in [Nodes -> Nat]
  BY <1>1, CopiesType
<1>3. disconnection \in Message
  BY <1>1 DEF Message, DisconnectionRequestMessage
<1> HIDE DEF disconnection, nm
<1>4. f \in Effect
  BY <1>2, <1>3, SendCopiesType
<1>5. SameFragment(e, f)
  BY DEF SendCopies, Effect, SameFragment
<1> HIDE DEF f
<1> DEFINE g == [f EXCEPT !.st.neighboursMap = NoNeighbours]
<1>6. NoNeighbours \in NeighboursVector
  BY DEF NoNeighbours, NeighboursVector
<1>7. g \in Effect
  BY <1>4, <1>6 DEF Effect, BrokerState
<1>8. SameFragment(f, g)
  BY <1>4 DEF Effect, BrokerState, SameFragment
<1>9. DropNeighbours(e) = g
  BY DEF DropNeighbours, f, nm, disconnection
<1> HIDE DEF g
<1> QED
  BY <1>5, <1>7, <1>8, <1>9 DEF SameFragment

(* Whatever a broker knew before, it restarts as the leader of a fragment  *)
(* of its own.                                                             *)
LEMMA InitiateProtocolLeads ==
    ASSUME NEW e \in Effect, IsConditionTable(conditionTable)
    PROVE  Member(initiateProtocol(e))
<1> DEFINE kept == {con \in e.st.receivedConnects :
                       con.convergenceNumber >= e.st.currentConvergence}
           f == [e EXCEPT !.st.converged = FALSE, !.st.componentId = e.self,
                          !.st.leaderHop = NULL, !.st.members = {e.self},
                          !.st.sentConnects = {}, !.st.receivedConnects = kept]
<1>1. kept \in SUBSET ConnectMessage /\ e.self \in Brokers
  BY DEF Effect, BrokerState
<1>2. initiateProtocol(e) = findAndSendMWOE(f)
  <2>1. [e EXCEPT !.st.converged = FALSE, !.st.componentId = e.self,
                  !.st.leaderHop = NULL, !.st.members = {e.self},
                  !.st.sentConnects = {},
                  !.st.receivedConnects =
                     {con \in @ : con.convergenceNumber >= e.st.currentConvergence}] = f
    BY Zenon
  <2> QED
    BY <2>1 DEF initiateProtocol
<1> HIDE DEF kept
<1>3. f \in Effect
  BY <1>1, ZenonT(30) DEF Effect, BrokerState
<1>4. f.st.members = {e.self} /\ f.st.componentId = e.self
  BY DEF Effect, BrokerState
<1> HIDE DEF f
<1>5. Member(f)
  <2>1. e.self \in Nat
    BY <1>1, BrokersAssumption
  <2>2. \A c \in {e.self} : e.self <= c
    BY <2>1
  <2> QED
    BY <1>3, <1>4, <2>2 DEF Member, Led
<1> QED
  BY <1>2, <1>5, FindAndSendMWOEMember

LEMMA RestartLeads ==
    ASSUME NEW e \in Effect, NEW m \in JoinMessage, IsConditionTable(conditionTable)
    PROVE  Member(Restart(e, m))
<1> DEFINE list == e.st.availableBrokers
           e1 == IF m.leaving /\ list = <<>> THEN Fault(e) ELSE e
           d == DropNeighbours(e1)
           list1 == IF m.requester = e.self THEN list
                    ELSE IF m.leaving THEN RemoveFirst(list, m.requester)
                    ELSE Append(list, m.requester)
           f == [d EXCEPT !.st.initial = FALSE, !.st.availableBrokers = list1,
                          !.st.currentConvergence = m.convergenceNo]
<1>1. m.requester \in Brokers /\ m.convergenceNo \in Nat
  BY DEF JoinMessage
<1>2. list \in Seq(Brokers)
  BY DEF Effect, BrokerState
<1>3. list1 \in Seq(Brokers)
  BY <1>1, <1>2, RemoveFirstType, AppendProperties
<1>4. e1 \in Effect
  BY FaultType
<1> HIDE DEF e1
<1>5. d \in Effect
  BY <1>4, DropNeighboursPreserves
<1>6. Restart(e, m) = initiateProtocol(f)
  BY DEF Restart, e1
<1> HIDE DEF d, list1
<1>7. f \in Effect
  BY <1>1, <1>3, <1>5 DEF Effect, BrokerState
<1> HIDE DEF f
<1> QED
  BY <1>6, <1>7, InitiateProtocolLeads

LEMMA LeavePreserves ==
    ASSUME NEW e \in Effect, NEW m
    PROVE  Leave(e, m) \in Effect /\ SameFragment(e, Leave(e, m))
<1> DEFINE request == [type |-> "Disconnection", requester |-> e.self]
           f == [e EXCEPT !.st.initial = FALSE]
           g == SendDirect(f, NS, request)
           d == DropNeighbours(g)
<1>1. request \in Message
  BY DEF Effect, Message, DisconnectionRequestMessage
<1>2. f \in Effect /\ SameFragment(e, f)
  BY DEF Effect, BrokerState, SameFragment
<1> HIDE DEF f, request
<1>3. g \in Effect
  BY <1>1, <1>2, SendDirectType DEF Nodes
<1>4. SameFragment(f, g)
  BY <1>2 DEF SendDirect, Effect, SameFragment
<1> HIDE DEF g
<1>5. d \in Effect /\ SameFragment(g, d)
  BY <1>3, DropNeighboursPreserves
<1> HIDE DEF d
<1>6. wakeUpDelayMsg \in Message
  BY DEF Message
<1>7. Schedule(d, wakeUpDelayMsg) \in Effect
  BY <1>5, <1>6, ScheduleType
<1>8. SameFragment(d, Schedule(d, wakeUpDelayMsg))
  BY <1>5 DEF Schedule, Effect, SameFragment
<1>9. Leave(e, m) = Schedule(d, wakeUpDelayMsg)
  BY DEF Leave, d, g, f, request
<1> QED
  BY <1>2, <1>4, <1>5, <1>7, <1>8, <1>9 DEF SameFragment

(* An effect whose state has its type and takes the smallest member for    *)
(* the leader.                                                             *)
Good(e) == e \in Effect /\ Led(e.st)

LEMMA SameFragmentGood ==
    ASSUME NEW e, NEW f \in Effect, Good(e), SameFragment(e, f)
    PROVE  Good(f)
BY DEF Good, Led, SameFragment

LEMMA HandleJoinPreserves ==
    ASSUME NEW e, Good(e), NEW m \in JoinMessage, IsConditionTable(conditionTable)
    PROVE  Good(handleJoinMessage(e, m))
<1> DEFINE f == [e EXCEPT !.st.awaitingNSMsgs = Append(@, m)]
<1>1. e \in Effect
  BY DEF Good
<1>2. Good(f)
  <2> DEFINE q == Append(e.st.awaitingNSMsgs, m)
  <2>1. q \in Seq(JoinMessage)
    BY <1>1, AppendProperties DEF Effect, BrokerState
  <2>2. f = [e EXCEPT !.st.awaitingNSMsgs = q]
    OBVIOUS
  <2> HIDE DEF q, f
  <2>3. f \in Effect
    BY <1>1, <2>1, <2>2 DEF Effect, BrokerState
  <2>4. SameFragment(e, f)
    BY <1>1, <2>2 DEF Effect, BrokerState, SameFragment
  <2> QED
    BY <2>3, <2>4, SameFragmentGood
<1>3. Good(Leave(e, m))
  BY <1>1, LeavePreserves, SameFragmentGood
<1>4. Good(Restart(e, m))
  BY <1>1, RestartLeads DEF Member, Good
<1> HIDE DEF f
<1>5. handleJoinMessage(e, m) \in {f, Leave(e, m), Restart(e, m)}
  BY DEF handleJoinMessage, f
<1> QED
  BY <1>2, <1>3, <1>4, <1>5

LEMMA WakeUpPreserves ==
    ASSUME NEW e, Good(e)
    PROVE  Good(wakeUp(e))
<1> DEFINE request == [type |-> "NSRequest", requester |-> e.self]
<1>1. e \in Effect
  BY DEF Good
<1>2. request \in Message
  BY <1>1 DEF Effect, Message, NSRequest
<1> HIDE DEF request
<1>3. SendDirect(e, NS, request) \in Effect
  BY <1>1, <1>2, SendDirectType DEF Nodes
<1>4. SameFragment(e, SendDirect(e, NS, request))
  BY <1>1 DEF SendDirect, Effect, SameFragment
<1>5. wakeUp(e) = SendDirect(e, NS, request)
  BY DEF wakeUp, request
<1> QED
  BY <1>3, <1>4, <1>5, SameFragmentGood

LEMMA ScheduleSleepPreserves ==
    ASSUME NEW e, Good(e)
    PROVE  Good(Schedule(e, sleepDelayMsg))
<1>1. e \in Effect /\ sleepDelayMsg \in Message
  BY DEF Good, Message
<1>2. Schedule(e, sleepDelayMsg) \in Effect
  BY <1>1, ScheduleType
<1>3. SameFragment(e, Schedule(e, sleepDelayMsg))
  BY <1>1 DEF Schedule, Effect, SameFragment
<1> QED
  BY <1>2, <1>3, SameFragmentGood

LEMMA SleepPreserves ==
    ASSUME NEW e, Good(e)
    PROVE  Good(sleep(e))
<1> DEFINE join == [type |-> "Join", requester |-> e.self,
                    convergenceNo |-> e.st.currentConvergence + 1, leaving |-> TRUE]
           list == e.st.availableBrokers
<1>1. e \in Effect
  BY DEF Good
<1>2. join \in JoinMessage /\ list \in Seq(Brokers)
  BY <1>1 DEF Effect, BrokerState, JoinMessage
<1> HIDE DEF join, list
<1>3. Good(Announce(e, list, join))
  BY <1>1, <1>2, AnnouncePreserves, SameFragmentGood
<1>4. sleep(e) \in {Announce(e, list, join), Schedule(e, sleepDelayMsg)}
  BY DEF sleep, list, join
<1> QED
  BY <1>3, <1>4, ScheduleSleepPreserves

LEMMA HandleNameServerPreserves ==
    ASSUME NEW e, Good(e), NEW m \in NSMessage
    PROVE  Good(handleNameServerMessage(e, m))
<1> DEFINE join == [type |-> "Join", requester |-> e.self,
                    convergenceNo |-> m.convergenceNumber, leaving |-> FALSE]
           started == e.st.initial \/ m.requestedNodes # <<>>
           f == [e EXCEPT !.st.availableBrokers = m.requestedNodes, !.st.initial = started]
           g == Announce(f, m.requestedNodes, join)
<1>1. e \in Effect
  BY DEF Good
<1>2. m.requestedNodes \in Seq(Brokers) /\ join \in JoinMessage
  BY <1>1 DEF NSMessage, Effect, JoinMessage
<1>3. started \in BOOLEAN
  BY <1>1 DEF Effect, BrokerState
<1>4. handleNameServerMessage(e, m) = Schedule(g, sleepDelayMsg)
  BY DEF handleNameServerMessage
<1> HIDE DEF join, started
<1>5. f \in Effect
  BY <1>1, <1>2, <1>3 DEF Effect, BrokerState
<1>6. SameFragment(e, f)
  BY <1>1 DEF Effect, BrokerState, SameFragment
<1> HIDE DEF f
<1>7. g \in Effect /\ SameFragment(f, g)
  BY <1>2, <1>5, AnnouncePreserves
<1> HIDE DEF g
<1>8. Good(g)
  BY <1>5, <1>6, <1>7, SameFragmentGood
<1> QED
  BY <1>4, <1>8, ScheduleSleepPreserves

-----------------------------------------------------------------------------
(* The kernel and the steps                                                *)

LEMMA ArrivalType ==
    ASSUME KernelTypeOK, NEW n \in Nodes, NEW a \in Arrivals(n)
    PROVE  /\ a.msg \in Message
           /\ a.from = NULL => now # <<>>
           /\ a.from \in Nodes \ {n} => chan[a.from][n] # <<>>
<1>1. NULL \notin Nodes
  BY NodesAssumption DEF Nodes
<1>2. now \in Seq(Event)
  BY DEF KernelTypeOK
<1>3. CASE now # <<>>
  <2>1. a \in {[from |-> NULL, msg |-> ev.msg] : ev \in {x \in {Head(now)} : x.to = n}}
    BY <1>3 DEF Arrivals
  <2>2. a = [from |-> NULL, msg |-> Head(now).msg]
    BY <2>1
  <2>3. Head(now) \in Event
    BY <1>2, <1>3, HeadTailProperties
  <2> QED
    BY <1>1, <1>3, <2>2, <2>3 DEF Event
<1>4. CASE now = <<>>
  <2>1. a \in {[from |-> n, msg |-> m] : m \in timers[n]}
              \cup {[from |-> s, msg |-> Head(chan[s][n])] :
                      s \in {x \in Nodes \ {n} : chan[x][n] # <<>>}}
    BY <1>4 DEF Arrivals
  <2>2. CASE a \in {[from |-> n, msg |-> m] : m \in timers[n]}
    BY <1>1, <2>2 DEF KernelTypeOK
  <2>3. CASE a \in {[from |-> s, msg |-> Head(chan[s][n])] :
                      s \in {x \in Nodes \ {n} : chan[x][n] # <<>>}}
    <3>1. PICK s \in Nodes \ {n} : /\ chan[s][n] # <<>>
                                    /\ a = [from |-> s, msg |-> Head(chan[s][n])]
      BY <2>3
    <3>2. chan[s][n] \in Seq(Message)
      BY DEF KernelTypeOK
    <3>3. Head(chan[s][n]) \in Message
      BY <3>1, <3>2, HeadTailProperties
    <3> QED
      BY <1>1, <3>1, <3>3
  <2> QED
    BY <2>1, <2>2, <2>3
<1> QED
  BY <1>3, <1>4

LEMMA EndType ==
    ASSUME KernelTypeOK, NEW n \in Nodes, NEW a \in Arrivals(n), NEW e,
           e.direct \in Seq(Event), e.out \in [Nodes -> Seq(Message)],
           e.timers \in SUBSET Message, e.fault \in BOOLEAN,
           End(n, a, e)
    PROVE  KernelTypeOK'
<1>1. now' \in Seq(Event)
  <2>1. now \in Seq(Event)
    BY DEF KernelTypeOK
  <2>2. a.from = NULL => Tail(now) \in Seq(Event)
    BY <2>1, ArrivalType, HeadTailProperties
  <2>3. now' = (IF a.from = NULL THEN Tail(now) ELSE now) \o e.direct
    BY DEF End
  <2> QED
    BY <2>1, <2>2, <2>3, ConcatProperties
<1>2. chan' \in [Nodes -> [Nodes -> Seq(Message)]]
  <2>1. ASSUME NEW s \in Nodes, NEW d \in Nodes
        PROVE  (IF s = n THEN chan[s][d] \o e.out[d]
                ELSE IF s = a.from /\ d = n THEN Tail(chan[s][d])
                ELSE chan[s][d]) \in Seq(Message)
    <3>1. chan[s][d] \in Seq(Message) /\ e.out[d] \in Seq(Message)
      BY DEF KernelTypeOK
    <3>2. chan[s][d] \o e.out[d] \in Seq(Message)
      BY <3>1, ConcatProperties
    <3>3. s # n /\ s = a.from /\ d = n => Tail(chan[s][d]) \in Seq(Message)
      BY <3>1, ArrivalType, HeadTailProperties
    <3> QED
      BY <3>1, <3>2, <3>3
  <2> QED
    BY <2>1 DEF End
<1>3. timers' \in [Nodes -> SUBSET Message]
  BY DEF End, KernelTypeOK
<1>4. crashed' \in BOOLEAN
  BY DEF End
<1> QED
  BY <1>1, <1>2, <1>3, <1>4 DEF KernelTypeOK

LEMMA MessageTypes ==
    ASSUME NEW m \in Message
    PROVE  /\ m.type = "Join" => m \in JoinMessage
           /\ m.type = "MWOE" => m \in MWOEMessage
           /\ m.type = "Expand" => m \in ExpandMessage
           /\ m.type = "Connect" => m \in ConnectMessage
           /\ m.type = "Update" => m \in UpdateMessage
           /\ m.type = "NSMessage" => m \in NSMessage
BY DEF Message, ProtocolMessage, JoinMessage, MWOEMessage, ExpandMessage, ConnectMessage,
       UpdateMessage, NSRequest, NSMessage, DisconnectionRequestMessage,
       ConnectionRequestMessage, SubscriptionMessage, UnsubscriptionMessage, PublishMessage,
       wakeUpDelayMsg, sleepDelayMsg, publishDelayMsg, subscribeDelayMsg, unsubscribeDelayMsg

(* The inductive invariant.  Typing the leader needs Led: the minimum of   *)
(* the members and of componentId is a broker only if componentId, which   *)
(* has no value before the first convergence, is one of the members by the *)
(* time members are merged.                                                *)
Leaders == \A b \in Brokers : Led(broker[b])

IInv == TypeOK /\ Leaders

LEMMA StartGood ==
    ASSUME IInv, NEW b \in Brokers, NEW a \in Arrivals(b)
    PROVE  Good(Start(b, a))
<1>1. broker[b] \in BrokerState /\ Led(broker[b])
  BY DEF IInv, TypeOK, Leaders
<1>2. timers[b] \in SUBSET Message
  BY DEF IInv, TypeOK, KernelTypeOK, Nodes
<1>3. [m \in Nodes |-> <<>>] \in [Nodes -> Seq(Message)]
  OBVIOUS
<1>4. <<>> \in Seq(Event)
  OBVIOUS
<1>5. Start(b, a).st = broker[b]
  BY DEF Start, Begin
<1>6. Start(b, a) \in Effect
  BY <1>1, <1>2, <1>3, <1>4 DEF Start, Begin, Effect
<1> QED
  BY <1>1, <1>5, <1>6 DEF Good

(* Messages that need a leader find one, or the handler faults.            *)
LEMMA StartMember ==
    ASSUME IInv, NEW b \in Brokers, NEW a \in Arrivals(b),
           ~ReadsUninitialized(b, a.msg), a.msg.type \in {"MWOE", "Expand", "Connect", "Update"}
    PROVE  Member(Start(b, a))
<1>1. Good(Start(b, a))
  BY StartGood
<1>2. Start(b, a).st.members # {}
  BY DEF ReadsUninitialized, Start, Begin
<1> QED
  BY <1>1, <1>2 DEF Member, Good

LEMMA FinishPreserves ==
    ASSUME IInv, NEW b \in Brokers, NEW a \in Arrivals(b), NEW effect,
           ~ReadsUninitialized(b, a.msg) => Good(effect),
           Finish(b, a, effect)
    PROVE  IInv'
<1>1. PICK e \in {IF ReadsUninitialized(b, a.msg) THEN Fault(Start(b, a)) ELSE effect} :
         /\ broker' = [broker EXCEPT ![b] = e.st]
         /\ End(b, a, e)
         /\ UNCHANGED <<nameServer, conditionTable>>
  BY DEF Finish
<1>2. Good(e)
  <2>1. CASE ReadsUninitialized(b, a.msg)
    <3>1. Good(Start(b, a))
      BY StartGood
    <3>2. Fault(Start(b, a)) \in Effect
      BY <3>1, FaultType DEF Good
    <3>3. SameFragment(Start(b, a), Fault(Start(b, a)))
      BY <3>1 DEF Good, Fault, Effect, SameFragment
    <3>4. Good(Fault(Start(b, a)))
      BY <3>1, <3>2, <3>3, SameFragmentGood
    <3> QED
      BY <1>1, <2>1, <3>4
  <2>2. CASE ~ReadsUninitialized(b, a.msg)
    BY <1>1, <2>2
  <2> QED
    BY <2>1, <2>2
<1>3. /\ e.st \in BrokerState /\ Led(e.st)
      /\ e.direct \in Seq(Event) /\ e.out \in [Nodes -> Seq(Message)]
      /\ e.timers \in SUBSET Message /\ e.fault \in BOOLEAN
  BY <1>2 DEF Good, Effect
<1>4. KernelTypeOK'
  <2>1. KernelTypeOK /\ b \in Nodes
    BY DEF IInv, TypeOK, Nodes
  <2> QED
    BY <1>1, <1>3, <2>1, EndType
<1>5. NSTypeOK'
  BY <1>1 DEF IInv, TypeOK, NSTypeOK, nameServer
<1>6. broker' \in [Brokers -> BrokerState]
  BY <1>1, <1>3 DEF IInv, TypeOK
<1>7. IsConditionTable(conditionTable)'
  BY <1>1 DEF IInv, TypeOK
<1>8. Leaders'
  BY <1>1, <1>3 DEF IInv, TypeOK, Leaders
<1> QED
  BY <1>4, <1>5, <1>6, <1>7, <1>8 DEF IInv, TypeOK

LEMMA BrokerStepPreserves ==
    ASSUME IInv, NEW b \in Brokers, WakeUp(b) \/ Sleep(b) \/ Protocol(b)
    PROVE  IInv'
<1>1. IsConditionTable(conditionTable)
  BY DEF IInv, TypeOK
<1>2. ASSUME NEW a \in Arrivals(b)
      PROVE  a.msg \in Message
  BY <1>2, ArrivalType DEF IInv, TypeOK, Nodes
<1>3. ASSUME WakeUp(b) PROVE IInv'
  <2>1. PICK a \in Arrivals(b) : Finish(b, a, wakeUp(Start(b, a)))
    BY <1>3 DEF WakeUp, Arriving
  <2> QED
    BY <2>1, StartGood, WakeUpPreserves, FinishPreserves
<1>4. ASSUME Sleep(b) PROVE IInv'
  <2>1. PICK a \in Arrivals(b) : Finish(b, a, sleep(Start(b, a)))
    BY <1>4 DEF Sleep, Arriving
  <2> QED
    BY <2>1, StartGood, SleepPreserves, FinishPreserves
<1>5. ASSUME HandleNameServerMessage(b) PROVE IInv'
  <2>1. PICK a \in Arrivals(b) :
           a.msg.type = "NSMessage" /\ Finish(b, a, handleNameServerMessage(Start(b, a), a.msg))
    BY <1>5 DEF HandleNameServerMessage, Arriving
  <2>2. a.msg \in NSMessage
    BY <1>2, <2>1, MessageTypes
  <2> QED
    BY <2>1, <2>2, StartGood, HandleNameServerPreserves, FinishPreserves
<1>6. ASSUME HandleJoinMessage(b) PROVE IInv'
  <2>1. PICK a \in Arrivals(b) :
           a.msg.type = "Join" /\ Finish(b, a, handleJoinMessage(Start(b, a), a.msg))
    BY <1>6 DEF HandleJoinMessage, Arriving
  <2>2. a.msg \in JoinMessage
    BY <1>2, <2>1, MessageTypes
  <2> QED
    BY <1>1, <2>1, <2>2, StartGood, HandleJoinPreserves, FinishPreserves
<1>7. ASSUME HandleMWOEMessage(b) PROVE IInv'
  <2>1. PICK a \in Arrivals(b) :
           a.msg.type = "MWOE" /\ Finish(b, a, handleMWOEMessage(Start(b, a), a.msg))
    BY <1>7 DEF HandleMWOEMessage, Arriving
  <2>2. a.msg \in MWOEMessage
    BY <1>2, <2>1, MessageTypes
  <2>3. Good(Start(b, a)) /\ Start(b, a) \in Effect
    BY StartGood DEF Good
  <2>4. Good(handleMWOEMessage(Start(b, a), a.msg))
    BY <2>2, <2>3, HandleMWOEPreserves, SameFragmentGood
  <2> QED
    BY <2>1, <2>4, FinishPreserves
<1>8. ASSUME HandleExpandMessage(b) PROVE IInv'
  <2>1. PICK a \in Arrivals(b) :
           a.msg.type = "Expand" /\ Finish(b, a, handleExpandMessage(Start(b, a), a.msg))
    BY <1>8 DEF HandleExpandMessage, Arriving
  <2>2. a.msg \in ExpandMessage
    BY <1>2, <2>1, MessageTypes
  <2>3. ~ReadsUninitialized(b, a.msg) => Good(handleExpandMessage(Start(b, a), a.msg))
    BY <1>1, <2>1, <2>2, StartMember, HandleExpandPreserves DEF Member, Good
  <2> QED
    BY <2>1, <2>3, FinishPreserves
<1>9. ASSUME HandleConnectionMessage(b) PROVE IInv'
  <2>1. PICK a \in Arrivals(b) :
           a.msg.type = "Connect" /\ Finish(b, a, handleConnectionMessage(Start(b, a), a.msg))
    BY <1>9 DEF HandleConnectionMessage, Arriving
  <2>2. a.msg \in ConnectMessage
    BY <1>2, <2>1, MessageTypes
  <2>3. ~ReadsUninitialized(b, a.msg) => Good(handleConnectionMessage(Start(b, a), a.msg))
    BY <1>1, <2>1, <2>2, StartMember, HandleConnectionPreserves DEF Member, Good
  <2> QED
    BY <2>1, <2>3, FinishPreserves
<1>10. ASSUME HandleUpdateMessage(b) PROVE IInv'
  <2>1. PICK a \in Arrivals(b) :
           a.msg.type = "Update" /\ Finish(b, a, handleUpdateMessage(Start(b, a), a.msg))
    BY <1>10 DEF HandleUpdateMessage, Arriving
  <2>2. a.msg \in UpdateMessage
    BY <1>2, <2>1, MessageTypes
  <2>3. ~ReadsUninitialized(b, a.msg) => Good(handleUpdateMessage(Start(b, a), a.msg))
    BY <1>1, <2>1, <2>2, StartMember, HandleUpdatePreserves DEF Member, Good
  <2> QED
    BY <2>1, <2>3, FinishPreserves
<1> QED
  BY <1>3, <1>4, <1>5, <1>6, <1>7, <1>8, <1>9, <1>10 DEF Protocol

LEMMA NameServerStepPreserves ==
    ASSUME IInv, NameServerNext
    PROVE  IInv'
<1>1. KernelTypeOK /\ NSTypeOK /\ NS \in Nodes
  BY DEF IInv, TypeOK, Nodes
<1>2. ASSUME NEW a \in Arrivals(NS)
      PROVE  LET e == Begin(NS, a, NULL)
             IN  /\ e.direct = <<>> /\ e.out \in [Nodes -> Seq(Message)]
                 /\ e.timers \in SUBSET Message /\ e.fault = FALSE
  <2>1. timers[NS] \in SUBSET Message
    BY <1>1 DEF KernelTypeOK
  <2>2. [m \in Nodes |-> <<>>] \in [Nodes -> Seq(Message)]
    OBVIOUS
  <2> QED
    BY <2>1, <2>2 DEF Begin
<1>3. ASSUME HandleBrokerRequest PROVE KernelTypeOK' /\ NSTypeOK'
  <2> DEFINE reply(b) == [type |-> "NSMessage", requestedNodes |-> registerBroker(b),
                          convergenceNumber |-> convergenceNumber]
             e(a) == SendDirect(Begin(NS, a, NULL), a.msg.requester, reply(a.msg.requester))
  <2>1. PICK a \in Arrivals(NS) :
           /\ a.msg.requester \in Brokers
           /\ brokerList' = registerBroker(a.msg.requester)
           /\ convergenceNumber' = convergenceNumber + 1
           /\ End(NS, a, e(a))
    BY <1>3 DEF HandleBrokerRequest, handleBrokerRequest
  <2>2. registerBroker(a.msg.requester) \in Seq(Brokers)
    BY <1>1, <2>1, AppendProperties DEF registerBroker, NSTypeOK
  <2>3. reply(a.msg.requester) \in Message
    BY <1>1, <2>2 DEF NSTypeOK, Message, NSMessage
  <2> HIDE DEF reply
  <2> DEFINE ev == [to |-> a.msg.requester, msg |-> reply(a.msg.requester)]
  <2>4. ev \in Event
    BY <2>1, <2>3 DEF Event, Nodes
  <2> HIDE DEF ev
  <2>5. <<ev>> \in Seq(Event)
    BY <2>4
  <2>6. /\ e(a).direct = <<ev>> /\ e(a).out = Begin(NS, a, NULL).out
        /\ e(a).timers = Begin(NS, a, NULL).timers /\ e(a).fault = FALSE
    BY DEF SendDirect, Begin, ev
  <2> HIDE DEF e
  <2>7. KernelTypeOK'
    BY <1>1, <1>2, <2>1, <2>5, <2>6, EndType
  <2>8. NSTypeOK'
    BY <1>1, <2>1, <2>2 DEF NSTypeOK
  <2> QED
    BY <2>7, <2>8
<1>4. ASSUME HandleUnregisterRequest PROVE KernelTypeOK' /\ NSTypeOK'
  <2> DEFINE e(a) == IF brokerList = <<>> THEN Fault(Begin(NS, a, NULL)) ELSE Begin(NS, a, NULL)
  <2>1. PICK a \in Arrivals(NS) :
           /\ brokerList' = RemoveFirst(brokerList, a.msg.requester)
           /\ convergenceNumber' = convergenceNumber + 1
           /\ End(NS, a, e(a))
    BY <1>4 DEF HandleUnregisterRequest, handleUnregisterRequest
  <2>2. NSTypeOK'
    BY <1>1, <2>1, RemoveFirstType DEF NSTypeOK
  <2>3. /\ e(a).direct = <<>> /\ e(a).out = Begin(NS, a, NULL).out
        /\ e(a).timers = Begin(NS, a, NULL).timers /\ e(a).fault \in BOOLEAN
    BY DEF Fault, Begin
  <2> HIDE DEF e
  <2>4. <<>> \in Seq(Event)
    OBVIOUS
  <2>5. KernelTypeOK'
    BY <1>1, <1>2, <2>1, <2>3, <2>4, EndType
  <2> QED
    BY <2>2, <2>5
<1>5. UNCHANGED <<broker, conditionTable>>
  BY DEF NameServerNext, HandleBrokerRequest, HandleUnregisterRequest
<1>6. KernelTypeOK' /\ NSTypeOK'
  BY <1>3, <1>4 DEF NameServerNext
<1> QED
  BY <1>5, <1>6 DEF IInv, TypeOK, Leaders

-----------------------------------------------------------------------------
LEMMA InitIInv == Init => IInv
<1> SUFFICES ASSUME Init
             PROVE  IInv
  OBVIOUS
<1>1. KernelTypeOK
  <2>1. now = <<>> /\ crashed = FALSE
    BY DEF Init, KernelInit
  <2>4. <<>> \in Seq(Event)
    OBVIOUS
  <2>2. chan \in [Nodes -> [Nodes -> Seq(Message)]]
    BY DEF Init, KernelInit
  <2>3. timers \in [Nodes -> SUBSET Message]
    BY DEF Init, KernelInit, Message
  <2> QED
    BY <2>1, <2>2, <2>3, <2>4 DEF KernelTypeOK
<1>2. NSTypeOK
  BY DEF Init, NSInit, NSTypeOK
<1>3. InitialState \in BrokerState
  BY DEF InitialState, BrokerState, NoNeighbours, NeighboursVector
<1>4. broker \in [Brokers -> BrokerState]
  BY <1>3 DEF Init
<1>5. IsConditionTable(conditionTable)
  BY TablesAssumption DEF Init
<1>6. Leaders
  BY DEF Init, Leaders, Led, InitialState
<1> QED
  BY <1>1, <1>2, <1>4, <1>5, <1>6 DEF IInv, TypeOK

LEMMA NextIInv == IInv /\ [Next]_vars => IInv'
<1> SUFFICES ASSUME IInv, [Next]_vars
             PROVE  IInv'
  OBVIOUS
<1>1. CASE \E b \in Brokers : WakeUp(b) \/ Sleep(b) \/ Protocol(b)
  BY <1>1, BrokerStepPreserves
<1>2. CASE NameServerNext
  BY <1>2, NameServerStepPreserves
<1>3. CASE UNCHANGED vars
  BY <1>3 DEF IInv, TypeOK, Leaders, KernelTypeOK, NSTypeOK, vars, kernel,
              nameServer
<1> QED
  BY <1>1, <1>2, <1>3 DEF Next

LEMMA Invariance == Spec => []IInv
BY InitIInv, NextIInv, PTL DEF Spec

(* Every variable, message and data member keeps its type: among others,   *)
(* every path on a piggyback stack is a path of brokers, and the leader of *)
(* a fragment is a broker whenever it is compared with an id.              *)
THEOREM TypeCorrect == Spec => []TypeOK
<1>1. IInv => TypeOK
  BY DEF IInv
<1> QED
  BY <1>1, Invariance, PTL

(* Brokers that know the same members agree on the leader, for every       *)
(* number of brokers and whatever the order of events.                     *)
THEOREM LeadersAgree == Spec => []AgreeOnLeader
<1>1. IInv => AgreeOnLeader
  <2> SUFFICES ASSUME IInv, NEW b \in Brokers, NEW c \in Brokers,
                      Members(b) # {}, Members(b) = Members(c)
               PROVE  /\ broker[b].componentId = broker[c].componentId
                      /\ broker[b].componentId \in Members(b)
    BY DEF AgreeOnLeader
  <2>1. Members(b) \subseteq Nat
    BY BrokersAssumption DEF IInv, TypeOK, BrokerState, Members
  <2>2. Led(broker[b]) /\ Led(broker[c])
    BY DEF IInv, Leaders
  <2> QED
    BY <2>1, <2>2 DEF Led, Members
<1> QED
  BY <1>1, Invariance, PTL

-----------------------------------------------------------------------------
(* The fragments of the brokers                                            *)

Fits == INSTANCE Fragments_proofs WITH
    None <- NULL, delay <- conditionTable, round <- Rounds, awake <- TakingPart,
    available <- BuildsOver, members <- KnownMembers, linked <- LinkedTo,
    edge <- Reported, chosen <- ToldToAsk, asked <- Asked, sent <- Asks,
    received <- KeptForLater, updates <- UnderWay

LEMMA FragmentsFits == MergesFragments => Fits!FragmentsSpec
<1>1. Frag!FragmentsInit => Fits!FragmentsInit
  BY DEF Frag!FragmentsInit, Fits!FragmentsInit
<1>2. Frag!FragmentsNext = Fits!FragmentsNext
  BY Zenon DEF Frag!FragmentsNext, Fits!FragmentsNext,
         Frag!Start, Fits!Start, Frag!Stop, Fits!Stop, Frag!Rest, Fits!Rest, Frag!Choose,
         Fits!Choose, Frag!Ask, Fits!Ask, Frag!Answer, Fits!Answer, Frag!Meet, Fits!Meet,
         Frag!Keep, Fits!Keep, Frag!Learn, Fits!Learn, Frag!Reports, Fits!Reports, Frag!Merge,
         Fits!Merge, Frag!request, Fits!request
<1>3. [Frag!FragmentsNext]_Frag!fragments => [Fits!FragmentsNext]_Fits!fragments
  BY <1>2 DEF Frag!fragments, Fits!fragments
<1> QED
  BY <1>1, <1>3, PTL DEF MergesFragments, Frag!FragmentsSpec, Fits!FragmentsSpec

(* What is proved of Fragments holds of the brokers as far as they         *)
(* implement it: fragments are nested, reports and orders to expand are up *)
(* to date, and every handshake is between the two that it was begun by.   *)
LEMMA BrokersFit == MergesFragments => []FragmentsHold
<1>1. Fits!FragmentsSpec => []Fits!FragmentsInv
  BY Fits!FragmentsFit
<1>2. Frag!FragmentsInv = Fits!FragmentsInv
  BY Zenon DEF Frag!FragmentsInv, Fits!FragmentsInv,
         Frag!FragmentsTypeOK, Fits!FragmentsTypeOK, Frag!Own, Fits!Own, Frag!Nested,
         Fits!Nested, Frag!Waits, Fits!Waits, Frag!EdgeOK, Fits!EdgeOK, Frag!ChosenOK,
         Fits!ChosenOK, Frag!PendingOK, Fits!PendingOK, Frag!SentOK, Fits!SentOK,
         Frag!ReceivedOK, Fits!ReceivedOK, Frag!UpdatesOK, Fits!UpdatesOK, Frag!LinksOK,
         Fits!LinksOK, Frag!Request, Fits!Request, Frag!Update, Fits!Update, Frag!Set, Fits!Set,
         Frag!Peers, Fits!Peers, Frag!Knows, Fits!Knows, Frag!Surpassed, Fits!Surpassed,
         Frag!Full, Fits!Full, Frag!Shortest, Fits!Shortest, Frag!Idle, Fits!Idle, Frag!Pending,
         Fits!Pending, Frag!HalfBy, Fits!HalfBy, Frag!Half, Fits!Half, Frag!Open, Fits!Open,
         Frag!Joined, Fits!Joined, Frag!OnlyOut, Fits!OnlyOut, Frag!request, Fits!request
<1>3. Fits!FragmentsInv => FragmentsHold
  BY <1>2 DEF FragmentsHold
<1> QED
  BY <1>1, <1>3, FragmentsFits, PTL

(* A link that a broker adds is the shortest way out of both fragments as  *)
(* the links make them at that moment: it is enough for that that every    *)
(* handler is a step of Fragments, in which messages do not travel.        *)
LEMMA BrokersBuildForest == MergesFragments => BuildsForest
<1>1. Fits!FragmentsSpec => Fits!BuildsForest
  BY Fits!FragmentsBuildForest
<1>2. Fits!Forests!ForestInit => Forests!ForestInit
  BY DEF Fits!Forests!ForestInit, Forests!ForestInit
<1>3. Fits!Forests!ForestNext = Forests!ForestNext
  BY Zenon DEF Fits!Forests!ForestNext, Forests!ForestNext, Fits!Forests!Learn, Forests!Learn,
        Fits!Forests!Build, Forests!Build, Fits!Forests!Leave, Forests!Leave,
        Fits!Forests!Link, Forests!Link, Fits!Forests!ShortestWayOut, Forests!ShortestWayOut,
        Fits!Forests!Fragment, Forests!Fragment, Fits!Forests!Joined, Forests!Joined
<1>4. [Fits!Forests!ForestNext]_Fits!Forests!forest => [Forests!ForestNext]_Forests!forest
  BY <1>3 DEF Fits!Forests!forest, Forests!forest
<1> QED
  BY <1>1, <1>2, <1>4, FragmentsFits, PTL
     DEF Fits!BuildsForest, Fits!Forests!ForestSpec, BuildsForest, Forests!ForestSpec

-----------------------------------------------------------------------------
(* Counting: among the brokers of a set there are fewer links than brokers.*)

Within(L, S) == {l \in L : l \subseteq S}

LEMMA LeastNumber ==
    ASSUME NEW S \in SUBSET Nat, S # {}
    PROVE  \E x \in S : \A y \in S : x <= y
<1>1. IsWellFoundedOn(OpToRel(<, Nat), Nat)
  BY NatLessThanWellFounded
<1>2. \E x \in S : \A y \in S : ~(<<y, x>> \in OpToRel(<, Nat))
  BY <1>1, WFMin, Zenon
<1>3. \E x \in S : \A y \in S : ~(y < x)
  BY <1>2, Zenon DEF OpToRel
<1> QED
  BY <1>3

LEMMA LinksAreFew ==
    ASSUME IsFiniteSet(Brokers), NEW L,
           \A l \in L : \E C \in SUBSET Brokers :
              /\ \E x \in C, y \in Brokers \ C : l = {x, y}
              /\ \A u \in C, v \in Brokers \ C : {u, v} \in L => {u, v} = l,
           NEW S \in SUBSET Brokers, S # {}
    PROVE  Cardinality(Within(L, S)) < Cardinality(S)
<1> DEFINE Few(T) == Cardinality(Within(L, T)) < Cardinality(T)
           Bad == {n \in Nat : \E T \in SUBSET Brokers : T # {} /\ ~Few(T) /\ Cardinality(T) = n}
<1>1. \A T \in SUBSET Brokers : IsFiniteSet(T) /\ Cardinality(T) \in Nat
  BY FS_Subset, FS_CardinalityType
<1>2. \A T \in SUBSET Brokers : IsFiniteSet(Within(L, T)) /\ Cardinality(Within(L, T)) \in Nat
  <2> TAKE T \in SUBSET Brokers
  <2>1. IsFiniteSet(SUBSET T)
    BY <1>1, FS_SUBSET
  <2>2. Within(L, T) \in SUBSET (SUBSET T)
    BY DEF Within
  <2> QED
    BY <2>1, <2>2, FS_Subset, FS_CardinalityType
<1> SUFFICES ASSUME ~Few(S)
             PROVE  FALSE
  OBVIOUS
<1>3. Bad \in SUBSET Nat /\ Bad # {}
  BY <1>1
<1>4. PICK n \in Bad : \A k \in Bad : n <= k
  BY <1>3, LeastNumber
<1>5. PICK T \in SUBSET Brokers : T # {} /\ ~Few(T) /\ Cardinality(T) = n
  BY <1>4
<1>6. \A R \in SUBSET Brokers : R # {} /\ Cardinality(R) < n => Few(R)
  BY <1>1, <1>4
<1> HIDE DEF Bad
<1>7. PICK l : l \in Within(L, T)
  <2>1. Cardinality(T) > 0
    BY <1>1, <1>5, FS_EmptySet
  <2>2. Within(L, T) = {} => Cardinality(Within(L, T)) = 0
    BY FS_EmptySet
  <2> QED
    BY <1>5, <2>1, <2>2
<1>8. PICK C \in SUBSET Brokers :
        /\ \E x \in C, y \in Brokers \ C : l = {x, y}
        /\ \A u \in C, v \in Brokers \ C : {u, v} \in L => {u, v} = l
  BY <1>7 DEF Within
<1>9. PICK x \in C, y \in Brokers \ C : l = {x, y}
  BY <1>8
<1> DEFINE A == T \cap C
           B == T \ C
<1>10. /\ A \in SUBSET Brokers /\ B \in SUBSET Brokers /\ x \in A /\ y \in B
       /\ A \cap B = {} /\ A \cup B = T
  BY <1>7, <1>8, <1>9 DEF Within
<1>11. Cardinality(A) + Cardinality(B) = n /\ Cardinality(A) # 0 /\ Cardinality(B) # 0
  <2>1. Cardinality(A \cup B) = Cardinality(A) + Cardinality(B)
    <3>1. Cardinality(A \cap B) = 0
      BY <1>10, FS_EmptySet
    <3>2. IsFiniteSet(A) /\ IsFiniteSet(B) /\ Cardinality(A) \in Nat /\ Cardinality(B) \in Nat
      BY <1>1, <1>10
    <3>3. Cardinality(A \cup B) = Cardinality(A) + Cardinality(B) - Cardinality(A \cap B)
      BY <3>2, FS_Union
    <3> QED
      BY <3>1, <3>2, <3>3
  <2> QED
    BY <1>1, <1>5, <1>10, <2>1, FS_EmptySet
<1>12. Few(A) /\ Few(B)
  BY <1>1, <1>6, <1>10, <1>11
<1>13. Within(L, T) \subseteq (Within(L, A) \cup Within(L, B)) \cup {l}
  <2> SUFFICES ASSUME NEW k \in Within(L, T), k \notin Within(L, A), k \notin Within(L, B)
               PROVE  k = l
    OBVIOUS
  <2>1. PICK D \in SUBSET Brokers : \E u \in D, v \in Brokers \ D : k = {u, v}
    BY DEF Within
  <2>2. PICK u \in D, v \in Brokers \ D : k = {u, v}
    BY <2>1
  <2>3. u \in T /\ v \in T /\ k \in L
    BY <2>2 DEF Within
  <2>4. ~({u, v} \subseteq A) /\ ~({u, v} \subseteq B)
    BY <2>2, <2>3 DEF Within
  <2>5. (u \in C /\ v \in Brokers \ C) \/ (v \in C /\ u \in Brokers \ C)
    BY <2>3, <2>4
  <2>6. {u, v} = {v, u}
    OBVIOUS
  <2> QED
    BY <1>8, <2>2, <2>3, <2>5, <2>6
<1> HIDE DEF A, B
<1>14. /\ IsFiniteSet(Within(L, A) \cup Within(L, B))
       /\ Cardinality(Within(L, A) \cup Within(L, B))
            <= Cardinality(Within(L, A)) + Cardinality(Within(L, B))
       /\ Cardinality(Within(L, A) \cup Within(L, B)) \in Nat
  <2>1. IsFiniteSet(Within(L, A)) /\ IsFiniteSet(Within(L, B))
    BY <1>2, <1>10
  <2>2. IsFiniteSet(Within(L, A) \cap Within(L, B))
    BY <2>1, FS_Intersection
  <2>3. /\ IsFiniteSet(Within(L, A) \cup Within(L, B))
        /\ Cardinality(Within(L, A) \cup Within(L, B))
             = Cardinality(Within(L, A)) + Cardinality(Within(L, B))
                - Cardinality(Within(L, A) \cap Within(L, B))
    BY <2>1, FS_Union
  <2>4. Cardinality(Within(L, A) \cap Within(L, B)) \in Nat
        /\ Cardinality(Within(L, A) \cup Within(L, B)) \in Nat
    BY <2>2, <2>3, FS_CardinalityType
  <2> QED
    BY <1>2, <1>10, <2>3, <2>4
<1> DEFINE W == (Within(L, A) \cup Within(L, B)) \cup {l}
<1>15. IsFiniteSet(W) /\ Cardinality(W) <= Cardinality(Within(L, A)) + Cardinality(Within(L, B)) + 1
       /\ Cardinality(W) \in Nat
  <2>1. /\ IsFiniteSet(W)
        /\ Cardinality(W) = IF l \in Within(L, A) \cup Within(L, B)
                            THEN Cardinality(Within(L, A) \cup Within(L, B))
                            ELSE Cardinality(Within(L, A) \cup Within(L, B)) + 1
    BY <1>14, FS_AddElement
  <2> QED
    BY <1>2, <1>10, <1>14, <2>1
<1>16. Cardinality(Within(L, T)) <= Cardinality(W)
  BY <1>13, <1>15, FS_Subset
<1> QED
  BY <1>1, <1>2, <1>5, <1>10, <1>11, <1>12, <1>15, <1>16

LEMMA BridgesMakeForest ==
    ASSUME Fits!Bridges
    PROVE  Forest
<1> SUFFICES ASSUME NEW b \in Brokers, NEW S \in SUBSET Brokers, S # {}
             PROVE  Cardinality({l \in Links(Round(b)) : l \subseteq S}) < Cardinality(S)
  BY DEF Forest, Acyclic
<1>1. PICK r : r = Round(b)
  OBVIOUS
<1>2. PICK L : L = Links(r)
  OBVIOUS
<1>3. ASSUME NEW x \in Brokers, NEW y \in Brokers, {x, y} \in L
      PROVE  Fits!LinkIn(x, y, r)
  <2>1. PICK p \in Brokers, q \in Brokers : Round(p) = r /\ q \in Linked(p) /\ {x, y} = {p, q}
    BY <1>2, <1>3 DEF Links
  <2>2. (x = p /\ y = q) \/ (x = q /\ y = p)
    BY <2>1
  <2> QED
    BY <2>1, <2>2 DEF Fits!LinkIn, Rounds, LinkedTo
<1>4. ASSUME NEW l \in L
      PROVE  \E C \in SUBSET Brokers :
                /\ \E x \in C, y \in Brokers \ C : l = {x, y}
                /\ \A u \in C, v \in Brokers \ C : {u, v} \in L => {u, v} = l
  <2>1. PICK x \in Brokers, y \in Brokers : Round(x) = r /\ y \in Linked(x) /\ l = {x, y}
    BY <1>2 DEF Links
  <2>2. Rounds[x] = r /\ y \in LinkedTo[x]
    BY <2>1 DEF Rounds, LinkedTo
  <2>3. PICK C \in SUBSET Brokers : Fits!Parts(C, x, y, r)
    BY <2>2 DEF Fits!Bridges
  <2> QED
    BY <1>3, <2>1, <2>3 DEF Fits!Parts
<1>5. Cardinality(Within(L, S)) < Cardinality(S)
  BY <1>4, FiniteAssumption, LinksAreFew
<1> QED
  BY <1>1, <1>2, <1>5 DEF Within

(* The links of the brokers are a forest at any moment of any convergence, *)
(* so that no publication runs in circles, as far as handlers are steps of *)
(* Fragments.                                                              *)
LEMMA BrokersKeepForest == MergesFragments => []Forest
<1>1. Fits!FragmentsSpec => []Fits!ForestInv
  BY Fits!LinksSpan
<1>2. Fits!ForestInv => Forest
  BY BridgesMakeForest DEF Fits!ForestInv
<1> QED
  BY <1>1, <1>2, FragmentsFits, PTL

Shape == INSTANCE SpanningForest_proofs WITH
    delay <- conditionTable, round <- Rounds, available <- BuildsOver, linked <- LinkedTo

(* And every link is one of a minimum spanning tree of the brokers that    *)
(* its owner builds over.                                                  *)
LEMMA BrokersLinkShortest == MergesFragments => []Forests!LinksAreShortest
<1>1. Shape!ForestSpec => []Shape!LinksAreShortest
  BY Shape!OnlyShortestLinks
<1>2. Forests!ForestInit => Shape!ForestInit
  BY DEF Forests!ForestInit, Shape!ForestInit
<1>3. Forests!ForestNext = Shape!ForestNext
  BY Zenon DEF Forests!ForestNext, Shape!ForestNext, Forests!Learn, Shape!Learn,
        Forests!Build, Shape!Build, Forests!Leave, Shape!Leave, Forests!Link, Shape!Link,
        Forests!ShortestWayOut, Shape!ShortestWayOut, Forests!Fragment, Shape!Fragment,
        Forests!Joined, Shape!Joined
<1>4. [Forests!ForestNext]_Forests!forest => [Shape!ForestNext]_Shape!forest
  BY <1>3 DEF Forests!forest, Shape!forest
<1>5. Shape!LinksAreShortest => Forests!LinksAreShortest
  BY DEF Shape!LinksAreShortest, Forests!LinksAreShortest, Shape!Shortest, Forests!Shortest
<1> QED
  BY <1>1, <1>2, <1>4, <1>5, BrokersBuildForest, PTL
     DEF BuildsForest, Forests!ForestSpec, Shape!ForestSpec

-----------------------------------------------------------------------------
(* Sequences without repetitions, and the sets of their elements.          *)

Distinct(s) == \A i, j \in DOMAIN s : s[i] = s[j] => i = j

(* The elements of a sequence.                                             *)
LEMMA ElementsType ==
    ASSUME NEW S, NEW s \in Seq(S)
    PROVE  /\ ToSet(s) \subseteq S
           /\ Len(s) \in Nat /\ DOMAIN s = 1 .. Len(s)
           /\ \A i \in DOMAIN s : s[i] \in ToSet(s)
           /\ s = <<>> <=> ToSet(s) = {}
BY DEF ToSet

(* The empty sequence has no elements, and none twice.                     *)
LEMMA NoElements == ToSet(<<>>) = {} /\ Distinct(<<>>)
BY DEF ToSet, Distinct

(* A sequence of one.                                                      *)
LEMMA OneElement ==
    ASSUME NEW x
    PROVE  ToSet(<<x>>) = {x} /\ Distinct(<<x>>)
BY DEF ToSet, Distinct

(* One sequence behind another one.                                        *)
LEMMA ConcatElements ==
    ASSUME NEW S, NEW s \in Seq(S), NEW t \in Seq(S)
    PROVE  /\ s \o t \in Seq(S)
           /\ ToSet(s \o t) = ToSet(s) \cup ToSet(t)
           /\ Distinct(s) /\ Distinct(t) /\ ToSet(s) \cap ToSet(t) = {} => Distinct(s \o t)
<1>1. /\ s \o t \in Seq(S) /\ Len(s) \in Nat /\ Len(t) \in Nat
      /\ Len(s \o t) = Len(s) + Len(t)
      /\ \A i \in 1 .. Len(s) + Len(t) :
            (s \o t)[i] = IF i <= Len(s) THEN s[i] ELSE t[i - Len(s)]
  BY ConcatProperties
<1>2. /\ DOMAIN s = 1 .. Len(s) /\ DOMAIN t = 1 .. Len(t)
      /\ DOMAIN (s \o t) = 1 .. Len(s) + Len(t)
  BY <1>1
<1> DEFINE u == s \o t
<1>3. ToSet(u) \subseteq ToSet(s) \cup ToSet(t)
  BY <1>1, <1>2 DEF ToSet
<1>4. ToSet(s) \subseteq ToSet(u)
  BY <1>1, <1>2 DEF ToSet
<1>5. ToSet(t) \subseteq ToSet(u)
  <2> SUFFICES ASSUME NEW i \in 1 .. Len(t)
               PROVE  t[i] \in ToSet(u)
    BY <1>2 DEF ToSet
  <2>1. u[Len(s) + i] = t[i] /\ Len(s) + i \in DOMAIN u
    BY <1>1, <1>2
  <2> QED
    BY <2>1 DEF ToSet
<1>6. ASSUME Distinct(s), Distinct(t), ToSet(s) \cap ToSet(t) = {}
      PROVE  Distinct(u)
  <2> SUFFICES ASSUME NEW i \in DOMAIN u, NEW j \in DOMAIN u, u[i] = u[j]
               PROVE  i = j
    BY DEF Distinct
  <2>1. CASE i <= Len(s) /\ j <= Len(s)
    BY <1>1, <1>2, <1>6, <2>1 DEF Distinct
  <2>2. CASE i > Len(s) /\ j > Len(s)
    <3>1. /\ i - Len(s) \in DOMAIN t /\ j - Len(s) \in DOMAIN t
          /\ t[i - Len(s)] = t[j - Len(s)]
      BY <1>1, <1>2, <2>2
    <3>2. i - Len(s) = j - Len(s)
      BY <1>6, <3>1 DEF Distinct
    <3> QED
      BY <1>1, <1>2, <3>2
  <2>3. CASE i <= Len(s) /\ j > Len(s)
    <3>1. i \in DOMAIN s /\ j - Len(s) \in DOMAIN t /\ s[i] = t[j - Len(s)]
      BY <1>1, <1>2, <2>3
    <3> QED
      BY <1>6, <3>1 DEF ToSet
  <2>4. CASE i > Len(s) /\ j <= Len(s)
    <3>1. j \in DOMAIN s /\ i - Len(s) \in DOMAIN t /\ s[j] = t[i - Len(s)]
      BY <1>1, <1>2, <2>4
    <3> QED
      BY <1>6, <3>1 DEF ToSet
  <2> QED
    BY <1>1, <1>2, <2>1, <2>2, <2>3, <2>4
<1> QED
  BY <1>1, <1>3, <1>4, <1>5, <1>6

(* A sequence without its first element.                                   *)
LEMMA TailElements ==
    ASSUME NEW S, NEW s \in Seq(S), s # <<>>
    PROVE  /\ Tail(s) \in Seq(S) /\ Head(s) \in ToSet(s) /\ Head(s) = s[1]
           /\ Len(Tail(s)) = Len(s) - 1
           /\ \A i \in 1 .. Len(s) - 1 : Tail(s)[i] = s[i + 1]
           /\ ToSet(Tail(s)) \subseteq ToSet(s)
           /\ Distinct(s) => /\ Distinct(Tail(s))
                             /\ ToSet(Tail(s)) = ToSet(s) \ {Head(s)}
<1> PICK t : t = Tail(s)
  OBVIOUS
<1>1. /\ t \in Seq(S) /\ Len(s) \in Nat \ {0} /\ Len(t) = Len(s) - 1 /\ Head(s) = s[1]
      /\ DOMAIN s = 1 .. Len(s) /\ DOMAIN t = 1 .. Len(s) - 1
      /\ \A i \in 1 .. Len(s) - 1 : t[i] = s[i + 1]
  BY HeadTailProperties
<1>2. Head(s) \in ToSet(s)
  BY <1>1 DEF ToSet
<1>3. ToSet(t) \subseteq ToSet(s)
  BY <1>1 DEF ToSet
<1>4. ASSUME Distinct(s)
      PROVE  Distinct(t) /\ ToSet(t) = ToSet(s) \ {Head(s)}
  <2>1. Distinct(t)
    BY <1>1, <1>4 DEF Distinct
  <2>2. Head(s) \notin ToSet(t)
    BY <1>1, <1>4 DEF Distinct, ToSet
  <2>3. ASSUME NEW x \in ToSet(s), x # Head(s)
        PROVE  x \in ToSet(t)
    <3>1. PICK i \in 1 .. Len(s) : x = s[i]
      BY <1>1 DEF ToSet
    <3>2. i - 1 \in 1 .. Len(s) - 1 /\ t[i - 1] = x
      BY <1>1, <2>3, <3>1
    <3> QED
      BY <1>1, <3>2 DEF ToSet
  <2> QED
    BY <1>3, <2>1, <2>2, <2>3
<1> QED
  BY <1>1, <1>2, <1>3, <1>4

(* A sequence with one more element.                                       *)
LEMMA AppendElements ==
    ASSUME NEW S, NEW s \in Seq(S), NEW x \in S
    PROVE  /\ Append(s, x) \in Seq(S)
           /\ Append(s, x) = s \o <<x>>
           /\ ToSet(Append(s, x)) = ToSet(s) \cup {x}
           /\ Distinct(s) /\ x \notin ToSet(s) => Distinct(Append(s, x))
<1> PICK t : t = <<x>>
  OBVIOUS
<1>1. t \in Seq(S) /\ Append(s, x) = s \o t
  BY AppendIsConcat
<1>2. ToSet(t) = {x} /\ Distinct(t)
  BY OneElement
<1>3. /\ s \o t \in Seq(S) /\ ToSet(s \o t) = ToSet(s) \cup ToSet(t)
      /\ Distinct(s) /\ Distinct(t) /\ ToSet(s) \cap ToSet(t) = {} => Distinct(s \o t)
  BY <1>1, ConcatElements, ZenonT(30)
<1> QED
  BY <1>1, <1>2, <1>3

-----------------------------------------------------------------------------
(* What is on its way                                                      *)

it(f, t, m) == [from |-> f, to |-> t, msg |-> m]

To(b, m) == [to |-> b, msg |-> m]

(* Where an arrival comes from.                                            *)
LEMMA ArrivalCases ==
    ASSUME KernelTypeOK, NEW n \in Nodes, NEW a \in Arrivals(n)
    PROVE  /\ ~crashed /\ a.msg \in Message
           /\ \/ /\ now # <<>> /\ a.from = NULL /\ Head(now) = To(n, a.msg)
              \/ /\ now = <<>> /\ a.from = n /\ a.msg \in timers[n]
              \/ /\ now = <<>> /\ a.from \in Nodes \ {n} /\ chan[a.from][n] # <<>>
                 /\ a.msg = Head(chan[a.from][n])
<1>1. ~crashed /\ a.msg \in Message
  BY ArrivalType DEF Arrivals
<1>2. now \in Seq(Event)
  BY DEF KernelTypeOK
<1>3. CASE now # <<>>
  <2>1. a \in {[from |-> NULL, msg |-> ev.msg] : ev \in {x \in {Head(now)} : x.to = n}}
    BY <1>1, <1>3 DEF Arrivals
  <2>2. a = [from |-> NULL, msg |-> Head(now).msg] /\ Head(now).to = n
    BY <2>1
  <2>3. Head(now) \in Event
    BY <1>2, <1>3, HeadTailProperties
  <2> QED
    BY <1>1, <1>3, <2>2, <2>3 DEF Event, To
<1>4. CASE now = <<>>
  <2>1. a \in {[from |-> n, msg |-> m] : m \in timers[n]}
              \cup {[from |-> s, msg |-> Head(chan[s][n])] :
                      s \in {x \in Nodes \ {n} : chan[x][n] # <<>>}}
    BY <1>1, <1>4 DEF Arrivals
  <2> QED
    BY <1>1, <1>4, <2>1
<1> QED
  BY <1>3, <1>4

-----------------------------------------------------------------------------
(* The neighbours map of a broker that has brokers as neighbours only, and *)
(* each of them once.                                                      *)

MapOK(nm) ==
    /\ Neighbours(nm) \subseteq Brokers
    /\ \A i, j \in Used(nm) : nm[i].node = nm[j].node => i = j

(* Such a map names each neighbour at one place, and every place in use is *)
(* a neighbour's.                                                          *)
LEMMA MapFacts ==
    ASSUME NEW v \in NeighboursVector, MapOK(v)
    PROVE  /\ NeighbourBrokers(v) = Neighbours(v)
           /\ \A n : hasNode(v, n) <=> n \in NeighbourBrokers(v)
           /\ \A n : hasNode(v, n) <=> \E i \in Used(v) : v[i].node = n
           /\ BrokerPlaces(v) = Used(v) /\ ClientPlaces(v) = {}
<1>1. NeighbourBrokers(v) = Neighbours(v)
  BY DEF MapOK, NeighbourBrokers
<1>2. \A n : hasNode(v, n) <=> \E i \in Used(v) : v[i].node = n
  BY DEF hasNode, Places, Used
<1>3. \A i \in Used(v) : v[i].node \in Brokers
  BY DEF MapOK, Neighbours
<1> QED
  BY <1>1, <1>2, <1>3, NodesAssumption DEF Neighbours, BrokerPlaces, ClientPlaces

(* It is so when a broker has no neighbours.                               *)
LEMMA NoMap ==
    /\ MapOK(NoNeighbours) /\ NeighbourBrokers(NoNeighbours) = {}
    /\ NoNeighbours \in NeighboursVector
BY DEF MapOK, NoNeighbours, Neighbours, NeighbourBrokers, Used, NeighboursVector

(* addMapping adds the node, in a place that was not used.                 *)
LEMMA AddMappingIs ==
    ASSUME NEW v \in NeighboursVector, MapOK(v), NEW n \in Brokers
    PROVE  /\ NeighbourBrokers(addMapping(v, n)) = NeighbourBrokers(v) \cup {n}
           /\ n \notin NeighbourBrokers(v) => MapOK(addMapping(v, n))
<1> DEFINE ne == [node |-> n, subscriptions |-> {}]
           E == NeighbourEntry \cup {NULL}
<1>1. v \in Seq(E)
  BY DEF NeighboursVector
<1>2. addMapping(v, n) = IF Holes(v) # {} THEN [v EXCEPT ![Min(Holes(v))] = ne]
                         ELSE Append(v, ne)
  BY DEF addMapping
<1>3. ne.node = n /\ ne # NULL
  <2>1. \A x : [node |-> n, subscriptions |-> x].node = n
    OBVIOUS
  <2>2. ne \in NeighbourEntry
    BY DEF NeighbourEntry
  <2>3. NULL \notin NeighbourEntry
    BY EntriesAssumption
  <2> QED
    BY <2>1, <2>2, <2>3
<1> HIDE DEF ne, E
<1> DEFINE w == addMapping(v, n)
           k == IF Holes(v) # {} THEN Min(Holes(v)) ELSE Len(v) + 1
<1>4. k \notin Used(v) /\ DOMAIN w = DOMAIN v \cup {k} /\ w[k] = ne
      /\ \A i \in DOMAIN v : i # k => w[i] = v[i]
  <2>1. DOMAIN v = 1 .. Len(v) /\ Len(v) \in Nat
    BY <1>1
  <2>2. CASE Holes(v) # {}
    <3>1. Holes(v) \in SUBSET Nat
      BY <2>1 DEF Holes
    <3>2. Min(Holes(v)) \in Holes(v)
      BY <2>2, <3>1, MinProperties
    <3>3. k \in DOMAIN v /\ v[k] = NULL /\ w = [v EXCEPT ![k] = ne]
      BY <1>2, <2>2, <3>2 DEF Holes
    <3> HIDE DEF k, w
    <3> QED
      BY <3>3 DEF Used
  <2>3. CASE Holes(v) = {}
    <3>1. w = Append(v, ne) /\ k = Len(v) + 1
      BY <1>2, <2>3
    <3> HIDE DEF k, w
    <3>2. ne \in {ne} \cup E
      OBVIOUS
    <3>3. v \in Seq({ne} \cup E)
      BY <1>1, SeqMonotonic
    <3>4. /\ Len(w) = Len(v) + 1 /\ w[k] = ne /\ w \in Seq({ne} \cup E)
          /\ \A i \in 1 .. Len(v) : w[i] = v[i]
      BY <3>1, <3>3, AppendProperties
    <3> QED
      BY <2>1, <3>1, <3>4 DEF Used
  <2> QED
    BY <2>2, <2>3
<1> HIDE DEF w, k
<1>5. Used(w) = Used(v) \cup {k} /\ \A i \in Used(v) : w[i] = v[i]
  BY <1>3, <1>4 DEF Used
<1>6. Neighbours(w) = Neighbours(v) \cup {n}
  BY <1>3, <1>4, <1>5 DEF Neighbours
<1>7. NeighbourBrokers(w) = NeighbourBrokers(v) \cup {n}
  BY <1>6 DEF NeighbourBrokers
<1>8. ASSUME n \notin NeighbourBrokers(v)
      PROVE  MapOK(w)
  <2>1. n \notin Neighbours(v) /\ Neighbours(w) \subseteq Brokers
    BY <1>6, <1>8 DEF NeighbourBrokers, MapOK
  <2>2. \A i \in Used(v) : w[i].node # n
    BY <1>5, <2>1 DEF Neighbours
  <2> QED
    BY <1>3, <1>4, <1>5, <2>1, <2>2 DEF MapOK
<1> QED
  BY <1>7, <1>8 DEF w

(* Sending over the gates of a set of places sends one message to each of  *)
(* the neighbours there.                                                   *)
LEMMA CopiesOnce ==
    ASSUME NEW v \in NeighboursVector, MapOK(v), NEW places \in SUBSET Used(v), NEW n \in Nodes
    PROVE  Copies(v, places)[n] = IF \E i \in places : v[i].node = n THEN 1 ELSE 0
<1>1. Copies(v, places)[n] = Cardinality(Places(v, n) \cap places)
  BY DEF Copies
<1>2. CASE \E i \in places : v[i].node = n
  <2>1. PICK i \in places : v[i].node = n
    BY <1>2
  <2>2. Places(v, n) \cap places = {i}
    BY <2>1 DEF MapOK, Places, Used
  <2> QED
    BY <1>1, <1>2, <2>2, FS_Singleton
<1>3. CASE ~\E i \in places : v[i].node = n
  <2>1. Places(v, n) \cap places = {}
    BY <1>3 DEF Places
  <2> QED
    BY <1>1, <1>3, <2>1, FS_EmptySet
<1> QED
  BY <1>2, <1>3

(* What a message sent once to each node of a set adds to the channels.    *)
Posted(out, S, m) == [n \in Nodes |-> IF n \in S THEN out[n] \o <<m>> ELSE out[n]]

(* Sending over the gates of a set of places posts the message once to     *)
(* each neighbour there.                                                   *)
LEMMA SendCopiesOnce ==
    ASSUME NEW e \in Effect, MapOK(e.st.neighboursMap), NEW m \in Message,
           NEW places \in SUBSET Used(e.st.neighboursMap)
    PROVE  LET nm == e.st.neighboursMap
               S == {nm[i].node : i \in places}
               f == SendCopies(e, Copies(nm, places), m)
           IN  /\ f \in Effect /\ f.st = e.st /\ f.self = e.self /\ f.direct = e.direct
               /\ f.timers = e.timers /\ f.fault = e.fault
               /\ f.out = Posted(e.out, S, m)
<1> DEFINE nm == e.st.neighboursMap
           S == {nm[i].node : i \in places}
           count == Copies(nm, places)
           f == SendCopies(e, count, m)
           o == [n \in Nodes |-> e.out[n] \o [i \in 1 .. count[n] |-> m]]
<1>1. nm \in NeighboursVector
  BY DEF Effect, BrokerState
<1>2. count \in [Nodes -> Nat]
  BY <1>1, CopiesType
<1>3. \A n \in Nodes : count[n] = IF n \in S THEN 1 ELSE 0
  BY <1>1, CopiesOnce
<1>4. f = [e EXCEPT !.out = o]
  BY DEF SendCopies
<1>5. f \in Effect
  BY <1>2, SendCopiesType
<1> HIDE DEF count
<1>6. \A n \in Nodes : o[n] = IF n \in S THEN e.out[n] \o <<m>> ELSE e.out[n]
  <2> SUFFICES ASSUME NEW n \in Nodes
               PROVE  o[n] = IF n \in S THEN e.out[n] \o <<m>> ELSE e.out[n]
    OBVIOUS
  <2>1. e.out[n] \in Seq(Message)
    BY DEF Effect
  <2>2. CASE n \in S
    <3>1. [i \in 1 .. count[n] |-> m] = <<m>>
      <4>1. count[n] = 1
        BY <1>3, <2>2
      <4>2. 1 .. 1 = {1}
        OBVIOUS
      <4>3. [i \in 1 .. 1 |-> m] = <<m>>
        BY <4>2
      <4> QED
        BY <4>1, <4>3
    <3> QED
      BY <2>2, <3>1
  <2>3. CASE n \notin S
    <3>1. [i \in 1 .. count[n] |-> m] = <<>>
      <4>1. count[n] = 0
        BY <1>3, <2>3
      <4>2. 1 .. 0 = {}
        OBVIOUS
      <4>3. [i \in 1 .. 0 |-> m] = <<>>
        BY <4>2
      <4> QED
        BY <4>1, <4>3
    <3>2. e.out[n] \o <<>> = e.out[n]
      BY <2>1, ConcatEmptySeq
    <3> QED
      BY <2>3, <3>1, <3>2
  <2> QED
    BY <2>2, <2>3
<1>7. o = Posted(e.out, S, m)
  BY <1>6 DEF Posted
<1> HIDE DEF o, f
<1>8. /\ f.st = e.st /\ f.self = e.self /\ f.direct = e.direct
      /\ f.timers = e.timers /\ f.fault = e.fault /\ f.out = o
  BY <1>4 DEF Effect
<1> QED
  BY <1>5, <1>7, <1>8 DEF f, count

-----------------------------------------------------------------------------
(* What the handlers do, effect by effect.                                 *)

(* All but what is sent is the same.                                       *)
OnlySends(e, f) == f \in Effect /\ f.self = e.self /\ f.st = e.st /\ f.timers = e.timers

(* What f has sent more than e: nothing, a message without delay, or one   *)
(* over the gate to a neighbour, which faults if there is none.            *)
SendsNothing(e, f) == f.direct = e.direct /\ f.out = e.out /\ (f.fault <=> e.fault)

SendsNow(e, f, n, m) ==
    f.direct = e.direct \o <<To(n, m)>> /\ f.out = e.out /\ (f.fault <=> e.fault)

SendsOver(e, f, n, m) ==
    LET linked == NeighbourBrokers(e.st.neighboursMap)
    IN  /\ f.direct = e.direct
        /\ n \in linked => f.out = Posted(e.out, {n}, m) /\ (f.fault <=> e.fault)
        /\ n \notin linked => f.out = e.out /\ f.fault

(* send() posts to the neighbour, and reads a gate that is not there if it *)
(* is none.                                                                *)
LEMMA SendIs ==
    ASSUME NEW e \in Effect, MapOK(e.st.neighboursMap),
           NEW n \in Brokers \cup {NULL}, NEW m \in Message
    PROVE  OnlySends(e, Send(e, n, m)) /\ SendsOver(e, Send(e, n, m), n, m)
<1> DEFINE linked == n \in NeighbourBrokers(e.st.neighboursMap)
           f == Send(e, n, m)
<1>1. e.st.neighboursMap \in NeighboursVector
  BY DEF Effect, BrokerState
<1>2. NULL \notin Brokers
  BY NodesAssumption
<1>3. hasNode(e.st.neighboursMap, n) <=> linked
  BY <1>1, MapFacts
<1>4. linked => n # NULL /\ n \in Nodes
  BY <1>2 DEF NeighbourBrokers, Nodes
<1>5. f \in Effect
  BY SendPreserves
<1>6. CASE linked
  <2> DEFINE o == [e.out EXCEPT ![n] = Append(@, m)]
  <2>1. f = [e EXCEPT !.out[n] = Append(@, m)]
    BY <1>3, <1>4, <1>6 DEF Send, SendTo
  <2>2. OnlySends(e, f) /\ f.direct = e.direct /\ f.out = o /\ f.fault = e.fault
    BY <1>5, <2>1 DEF Effect, OnlySends
  <2>3. o = Posted(e.out, {n}, m)
    <3>1. e.out \in [Nodes -> Seq(Message)]
      BY DEF Effect
    <3>2. Append(e.out[n], m) = e.out[n] \o <<m>>
      BY <1>4, <1>6, <3>1, AppendIsConcat
    <3> QED
      BY <1>4, <1>6, <3>1, <3>2 DEF Posted
  <2> HIDE DEF f, o
  <2>4. e.fault \in BOOLEAN
    BY DEF Effect
  <2> QED
    BY <1>5, <1>6, <2>2, <2>3, <2>4 DEF f, SendsOver
<1>7. CASE ~linked
  <2>1. f = [e EXCEPT !.fault = TRUE]
    BY <1>3, <1>7 DEF Send, Fault
  <2>2. OnlySends(e, f) /\ f.direct = e.direct /\ f.out = e.out /\ f.fault = TRUE
    BY <1>5, <2>1 DEF Effect, OnlySends
  <2> HIDE DEF f
  <2> QED
    BY <1>5, <1>7, <2>2 DEF f, SendsOver
<1> QED
  BY <1>6, <1>7

(* sendDirect() makes the message due at its destination at once.          *)
LEMMA SendDirectIs ==
    ASSUME NEW e \in Effect, NEW n \in Nodes, NEW m \in Message
    PROVE  OnlySends(e, SendDirect(e, n, m)) /\ SendsNow(e, SendDirect(e, n, m), n, m)
<1>1. SendDirect(e, n, m) \in Effect
  BY SendDirectType
<1>2. To(n, m) \in Event /\ e.direct \in Seq(Event)
  BY DEF To, Event, Effect
<1>3. Append(e.direct, To(n, m)) = e.direct \o <<To(n, m)>>
  BY <1>2, AppendIsConcat
<1> QED
  BY <1>1, <1>3 DEF SendDirect, Effect, OnlySends, SendsNow, To

(* scheduleAt() without delay makes it due at the broker itself.           *)
LEMMA ScheduleNowIs ==
    ASSUME NEW e \in Effect, NEW m \in Message
    PROVE  OnlySends(e, ScheduleNow(e, m)) /\ SendsNow(e, ScheduleNow(e, m), e.self, m)
<1>1. e.self \in Nodes
  BY DEF Effect, Nodes
<1> QED
  BY <1>1, SendDirectIs DEF ScheduleNow

(* scheduleAt() with a delay starts a timer, which must not be running.    *)
LEMMA ScheduleIs ==
    ASSUME NEW e \in Effect, NEW m \in Message
    PROVE  LET f == Schedule(e, m)
           IN  /\ f \in Effect /\ f.self = e.self /\ f.st = e.st
               /\ f.direct = e.direct /\ f.out = e.out
               /\ f.timers = e.timers \cup {m} /\ (f.fault <=> e.fault \/ m \in e.timers)
<1>1. Schedule(e, m) \in Effect
  BY ScheduleType
<1> QED
  BY <1>1 DEF Schedule, Effect

(* Handling no subscription changes nothing.                               *)
LEMMA NoSubscriptions ==
    ASSUME NEW e \in Effect
    PROVE  HandleSubscriptions(e, {}) = e
<1> DEFINE nm == e.st.neighboursMap
           mon == e.st.subscriptionMonitor
           map == [i \in DOMAIN nm |->
                     IF nm[i] # NULL /\ i = Min(Places(nm, nm[i].node))
                     THEN [nm[i] EXCEPT !.subscriptions =
                             @ \cup {s.topic : s \in {x \in {} : x.subscriber = nm[i].node}}]
                     ELSE nm[i]]
           monitor == mon \cup UNION {ToPassOn(e, {}, n) : n \in NeighbourBrokers(nm)}
           message(n) == [type |-> "Subscription", subscriber |-> e.self,
                          topics |-> ToPassOn(e, {}, n)]
           out == [n \in Nodes |->
                     IF ToPassOn(e, {}, n) = {} THEN e.out[n]
                     ELSE e.out[n] \o [i \in 1 .. Copies(nm, BrokerPlaces(nm))[n] |-> message(n)]]
<1>1. HandleSubscriptions(e, {}) =
        [e EXCEPT !.st.neighboursMap = map, !.st.subscriptionMonitor = monitor, !.out = out]
  BY DEF HandleSubscriptions
<1>2. \A n : ToPassOn(e, {}, n) = {}
  BY DEF ToPassOn
<1>3. out = e.out
  <2>1. e.out \in [Nodes -> Seq(Message)]
    BY DEF Effect
  <2> QED
    BY <1>2, <2>1
<1>4. monitor = mon
  BY <1>2
<1>5. map = nm
  <2>1. nm \in Seq(NeighbourEntry \cup {NULL})
    BY DEF Effect, BrokerState, NeighboursVector
  <2>2. nm = [i \in DOMAIN nm |-> nm[i]] /\ \A i \in DOMAIN nm : nm[i] \in NeighbourEntry \cup {NULL}
    BY <2>1
  <2>3. ASSUME NEW i \in DOMAIN nm
        PROVE  map[i] = nm[i]
    <3> DEFINE new == {s.topic : s \in {x \in {} : x.subscriber = nm[i].node}}
    <3>1. new = {}
      OBVIOUS
    <3>2. map[i] = IF nm[i] # NULL /\ i = Min(Places(nm, nm[i].node))
                   THEN [nm[i] EXCEPT !.subscriptions = @ \cup new]
                   ELSE nm[i]
      BY <2>3
    <3> HIDE DEF new, map
    <3>3. nm[i] \in NeighbourEntry => [nm[i] EXCEPT !.subscriptions = @ \cup {}] = nm[i]
      BY DEF NeighbourEntry
    <3> QED
      BY <2>2, <3>1, <3>2, <3>3
  <2> QED
    BY <2>2, <2>3
<1> HIDE DEF map, monitor, out
<1>6. [e EXCEPT !.st.neighboursMap = nm, !.st.subscriptionMonitor = mon, !.out = e.out] = e
  BY DEF Effect, BrokerState
<1> QED
  BY <1>1, <1>3, <1>4, <1>5, <1>6

-----------------------------------------------------------------------------
(* Looking for an edge                                                     *)

(* The report that the broker nearest to b of those in V outside M is the  *)
(* best way out.                                                           *)
reportOf(b, M, V, stack) ==
    [type |-> "MWOE", broker |-> Nearest(b, V \ M),
     delay |-> conditionTable[b][Nearest(b, V \ M)], piggyback |-> stack]

(* It is a report of the type that goes over the channels.                 *)
LEMMA ReportIs ==
    ASSUME IsConditionTable(conditionTable), NEW b \in Brokers, NEW M, NEW V \in SUBSET Brokers,
           V \ M # {}, NEW stack \in Seq(Brokers)
    PROVE  LET m == reportOf(b, M, V, stack)
           IN  /\ m \in MWOEMessage /\ m \in Message /\ m.type = "MWOE"
               /\ m.piggyback = stack
               /\ m.broker \in V \ M /\ m.broker \in Brokers
               /\ m.delay = conditionTable[b][m.broker]
               /\ \A c \in V \ M : m.delay <= conditionTable[b][c]
<1> DEFINE delays == {conditionTable[b][d] : d \in V \ M}
<1>1. Nearest(b, V \ M) \in V \ M
  BY NearestType
<1>2. delays \in SUBSET Nat /\ delays # {}
  BY DEF IsConditionTable
<1>3. Min(delays) \in delays /\ \A x \in delays : Min(delays) <= x
  BY <1>2, MinProperties
<1>4. conditionTable[b][Nearest(b, V \ M)] = Min(delays)
  <2>1. \E c \in V \ M : conditionTable[b][c] = Min(delays)
    BY <1>3
  <2> QED
    BY <2>1 DEF Nearest
<1>5. \A c \in V \ M : conditionTable[b][Nearest(b, V \ M)] <= conditionTable[b][c]
  BY <1>3, <1>4
<1>6. conditionTable[b][Nearest(b, V \ M)] \in Nat
  BY <1>1 DEF IsConditionTable
<1> QED
  BY <1>1, <1>5, <1>6 DEF reportOf, MWOEMessage, Message, ProtocolMessage

(* What a broker knows of its fragment, the joins it waits for, what it    *)
(* has asked and has been asked: handlers change some of it.               *)
SameView(s, t) ==
    /\ t.initial = s.initial /\ t.currentConvergence = s.currentConvergence
    /\ t.componentId = s.componentId /\ t.leaderHop = s.leaderHop /\ t.members = s.members
    /\ t.availableBrokers = s.availableBrokers /\ t.neighboursMap = s.neighboursMap
    /\ t.bufferedSubs = s.bufferedSubs

SameQueue(s, t) == t.converged = s.converged /\ t.awaitingNSMsgs = s.awaitingNSMsgs

SameConnects(s, t) ==
    t.sentConnects = s.sentConnects /\ t.receivedConnects = s.receivedConnects

(* A broker that looks for an edge knows itself to be a member, has links  *)
(* to members only, and members only that are available.                   *)
Searching(e) ==
    /\ e \in Effect /\ MapOK(e.st.neighboursMap) /\ e.st.bufferedSubs = {}
    /\ Distinct(e.st.availableBrokers)
    /\ e.self \in e.st.members /\ e.st.members \subseteq ToSet(e.st.availableBrokers)
    /\ NeighbourBrokers(e.st.neighboursMap) \subseteq e.st.members

Done(st) == st.members = ToSet(st.availableBrokers)

(* A sequence without repetitions is as long as it has elements.           *)
LEMMA DistinctLength ==
    ASSUME NEW S, NEW s \in Seq(S), Distinct(s)
    PROVE  IsFiniteSet(ToSet(s)) /\ Cardinality(ToSet(s)) = Len(s)
<1>1. Len(s) \in Nat /\ DOMAIN s = 1 .. Len(s)
  OBVIOUS
<1>2. IsFiniteSet(1 .. Len(s)) /\ Cardinality(1 .. Len(s)) = Len(s)
  BY <1>1, FS_Interval
<1>3. s \in Bijection(1 .. Len(s), ToSet(s))
  <2>1. s \in [1 .. Len(s) -> ToSet(s)]
    BY <1>1 DEF ToSet
  <2>2. \A i, j \in 1 .. Len(s) : s[i] = s[j] => i = j
    BY <1>1 DEF Distinct
  <2>3. \A x \in ToSet(s) : \E i \in 1 .. Len(s) : s[i] = x
    BY <1>1 DEF ToSet
  <2> QED
    BY <2>1, <2>2, <2>3 DEF Bijection, Injection, IsInjective, Surjection
<1> QED
  BY <1>2, <1>3, FS_Bijection DEF ExistsBijection

(* It is converged when its members are the available brokers.             *)
LEMMA ConvergedIsDone ==
    ASSUME NEW st \in BrokerState, Distinct(st.availableBrokers),
           st.members \subseteq ToSet(st.availableBrokers)
    PROVE  isConverged(st) <=> Done(st)
<1>1. st.availableBrokers \in Seq(Brokers)
  BY DEF BrokerState
<1>2. /\ IsFiniteSet(ToSet(st.availableBrokers))
      /\ Cardinality(ToSet(st.availableBrokers)) = Len(st.availableBrokers)
  BY <1>1, DistinctLength
<1>3. Cardinality(st.members) = Cardinality(ToSet(st.availableBrokers)) => Done(st)
  BY <1>2, FS_Subset DEF Done
<1> QED
  BY <1>2, <1>3 DEF isConverged, Done

(* findAndSendMWOE: a converged broker begins to wait for the next join,   *)
(* if it has one; another one reports its best edge.                       *)
Rests(e, f) ==
    LET q == e.st.awaitingNSMsgs
    IN  /\ f.st.converged
        /\ f.direct = e.direct /\ f.out = e.out
        /\ q = <<>> => f.st.awaitingNSMsgs = q /\ f.timers = e.timers /\ (f.fault <=> e.fault)
        /\ q # <<>> =>
             /\ f.st.awaitingNSMsgs = Tail(q) /\ f.timers = e.timers \cup {Head(q)}
             /\ (f.fault <=> e.fault \/ Head(q) \in e.timers)

Seeks(e, f) ==
    LET M == e.st.members
        V == ToSet(e.st.availableBrokers)
    IN  /\ ~f.st.converged /\ V \ M # {}
        /\ f.st.awaitingNSMsgs = e.st.awaitingNSMsgs /\ f.timers = e.timers
        /\ isLeader(e) => SendsNow(e, f, e.self, reportOf(e.self, M, V, <<>>))
        /\ ~isLeader(e) => SendsOver(e, f, e.st.leaderHop, reportOf(e.self, M, V, <<e.self>>))

Found(e, f) ==
    /\ f \in Effect /\ f.self = e.self
    /\ SameView(e.st, f.st) /\ SameConnects(e.st, f.st)
    /\ f.st.receivedMWOEs = e.st.receivedMWOEs
    /\ Done(e.st) => Rests(e, f)
    /\ ~Done(e.st) => Seeks(e, f)

(* That is what the code of findAndSendMWOE does.                          *)
LEMMA SearchIs ==
    ASSUME NEW e, Searching(e), IsConditionTable(conditionTable)
    PROVE  Found(e, findAndSendMWOE(e))
<1> DEFINE done == Done(e.st)
           q == e.st.awaitingNSMsgs
           V == ToSet(e.st.availableBrokers)
           M == e.st.members
           e1 == [e EXCEPT !.st.converged = isConverged(e.st)]
           f == findAndSendMWOE(e)
<1>1. /\ e \in Effect /\ MapOK(e.st.neighboursMap) /\ e.st.bufferedSubs = {}
      /\ Distinct(e.st.availableBrokers)
      /\ e.self \in e.st.members /\ M \subseteq V
      /\ NeighbourBrokers(e.st.neighboursMap) \subseteq M
  BY DEF Searching
<1>2. /\ e.st \in BrokerState /\ e.self \in Brokers /\ e.timers \in SUBSET Message
      /\ e.st.availableBrokers \in Seq(Brokers) /\ V \subseteq Brokers
      /\ q \in Seq(JoinMessage) /\ e.st.neighboursMap \in NeighboursVector
      /\ e.st.leaderHop \in Brokers \cup {NULL}
  BY <1>1, ElementsType DEF Effect, BrokerState
<1>3. isConverged(e.st) <=> done
  BY <1>1, <1>2, ConvergedIsDone
<1>4. /\ e1 \in Effect /\ e1.self = e.self /\ SameView(e.st, e1.st) /\ SameConnects(e.st, e1.st)
      /\ e1.st.receivedMWOEs = e.st.receivedMWOEs
      /\ e1.st.converged = done /\ e1.st.awaitingNSMsgs = q
      /\ e1.direct = e.direct /\ e1.out = e.out /\ e1.timers = e.timers /\ e1.fault = e.fault
  <2>1. e1 = [e EXCEPT !.st.converged = done]
    BY <1>3 DEF isConverged, Done
  <2>2. done \in BOOLEAN
    BY DEF Done
  <2> HIDE DEF done, e1
  <2>3. e1.st = [e.st EXCEPT !.converged = done]
    BY <1>1, <2>1 DEF Effect
  <2>4. e1 \in Effect
    BY <1>1, <2>1, <2>2 DEF Effect, BrokerState
  <2> QED
    BY <1>1, <1>2, <2>1, <2>2, <2>3, <2>4 DEF Effect, BrokerState, SameView, SameConnects
<1>5. f = IF e1.st.converged THEN Conclude(e1) ELSE SendMWOE(e1)
  BY DEF findAndSendMWOE
<1>6. e1.st.bufferedSubs = {} /\ e1.st.members = M /\ e1.st.neighboursMap = e.st.neighboursMap
      /\ e1.st.availableBrokers = e.st.availableBrokers
      /\ e1.st.leaderHop = e.st.leaderHop /\ e1.st.componentId = e.st.componentId
  BY <1>1, <1>4 DEF SameView, SameConnects
<1> HIDE DEF e1, f
<1>7. CASE done /\ q = <<>>
  <2>1. Conclude(e1) = [HandleSubscriptions(e1, {}) EXCEPT !.st.bufferedSubs = {}]
    BY <1>4, <1>6, <1>7 DEF Conclude
  <2>2. f = [e1 EXCEPT !.st.bufferedSubs = {}]
    BY <1>4, <1>5, <1>7, <2>1, NoSubscriptions
  <2>3. /\ f.self = e1.self /\ f.direct = e1.direct /\ f.out = e1.out /\ f.timers = e1.timers
        /\ (f.fault <=> e1.fault) /\ f.st = [e1.st EXCEPT !.bufferedSubs = {}]
    BY <1>4, <2>2 DEF Effect
  <2>4. f.st = e1.st /\ f \in Effect
    BY <1>4, <1>6, <2>2, <2>3 DEF Effect, BrokerState
  <2>5. e.fault \in BOOLEAN
    BY <1>1 DEF Effect
  <2> QED
    BY <1>4, <1>7, <2>3, <2>4, <2>5 DEF Found, Rests, f
<1>8. CASE done /\ q # <<>>
  <2> DEFINE e2 == [e1 EXCEPT !.st.awaitingNSMsgs = Tail(q), !.st.bufferedSubs = {}]
  <2> PICK t : t = Tail(q)
    OBVIOUS
  <2>1. t \in Seq(JoinMessage) /\ Head(q) \in JoinMessage
    BY <1>2, <1>8, HeadTailProperties
  <2>2. Head(q) \in Message
    BY <2>1 DEF Message, ProtocolMessage
  <2>3. f = Schedule(e2, Head(q))
    BY <1>4, <1>5, <1>8 DEF Conclude
  <2>4. e2 = [e1 EXCEPT !.st.awaitingNSMsgs = t, !.st.bufferedSubs = {}]
    OBVIOUS
  <2> HIDE DEF e2
  <2>5. /\ e2.self = e1.self /\ e2.direct = e1.direct /\ e2.out = e1.out /\ e2.timers = e1.timers
        /\ e2.fault = e1.fault
        /\ e2.st = [[e1.st EXCEPT !.awaitingNSMsgs = t] EXCEPT !.bufferedSubs = {}]
    BY <1>4, <2>4 DEF Effect
  <2>6. e2 \in Effect
    BY <1>4, <2>1, <2>4 DEF Effect, BrokerState
  <2>7. SameView(e1.st, e2.st) /\ SameConnects(e1.st, e2.st)
        /\ e2.st.receivedMWOEs = e1.st.receivedMWOEs
         /\ e2.st.awaitingNSMsgs = t /\ e2.st.converged = e1.st.converged
    BY <1>4, <1>6, <2>5 DEF Effect, BrokerState, SameView, SameConnects
  <2>8. /\ f \in Effect /\ f.self = e2.self /\ f.st = e2.st
        /\ f.direct = e2.direct /\ f.out = e2.out
        /\ f.timers = e2.timers \cup {Head(q)} /\ (f.fault <=> e2.fault \/ Head(q) \in e2.timers)
    BY <2>2, <2>3, <2>6, ScheduleIs
  <2>9. SameView(e.st, f.st) /\ SameConnects(e.st, f.st)
        /\ f.st.receivedMWOEs = e.st.receivedMWOEs
    BY <1>4, <2>7, <2>8 DEF SameView, SameConnects
  <2> QED
    <3>1. /\ f.st.converged /\ f.direct = e.direct /\ f.out = e.out
          /\ f.st.awaitingNSMsgs = t /\ f.timers = e.timers \cup {Head(q)}
          /\ (f.fault <=> e.fault \/ Head(q) \in e.timers)
      BY <1>4, <1>8, <2>5, <2>7, <2>8
    <3>2. Rests(e, f)
      BY <1>8, <3>1 DEF Rests
    <3> QED
      BY <1>4, <1>8, <2>5, <2>8, <2>9, <3>2 DEF Found, f
<1>9. CASE ~done
  <2> DEFINE cs == Candidates(e1)
             m == reportOf(e.self, M, V, <<>>)
             pushed == reportOf(e.self, M, V, <<e.self>>)
  <2>1. cs = V \ M
    BY <1>1, <1>2, <1>4, <1>6, MapFacts DEF Candidates
  <2>2. V \ M # {}
    BY <1>1, <1>9 DEF Done
  <2>3. <<>> \in Seq(Brokers) /\ <<e.self>> \in Seq(Brokers)
    BY <1>2
  <2>4. m \in Message /\ pushed \in Message
    <3> HIDE DEF M, V
    <3> DEFINE r(s) == reportOf(e.self, M, V, s)
    <3>1. ASSUME NEW s \in Seq(Brokers)
          PROVE  r(s) \in Message
      BY <1>2, <2>2, <3>1, ReportIs
    <3> HIDE DEF r
    <3>2. r(<<>>) \in Message /\ r(<<e.self>>) \in Message
      BY <2>3, <3>1
    <3> QED
      BY <3>2 DEF r
  <2>5. [m EXCEPT !.piggyback = Push(@, e.self)] = pushed
    <3>1. <<e.self>> \o <<>> = <<e.self>>
      BY <2>3, ConcatEmptySeq
    <3> QED
      BY <3>1 DEF Push, reportOf
  <2>6. m = [type |-> "MWOE", broker |-> Nearest(e.self, cs),
             delay |-> conditionTable[e.self][Nearest(e.self, cs)], piggyback |-> <<>>]
    BY <2>1 DEF reportOf
  <2> HIDE DEF m, pushed, cs
  <2>7. f = IF ~isLeader(e1) THEN Send(e1, e1.st.leaderHop, pushed) ELSE ScheduleNow(e1, m)
    BY <1>4, <1>5, <1>9, <2>1, <2>2, <2>5, <2>6 DEF SendMWOE, cs
  <2>8. isLeader(e1) <=> isLeader(e)
    BY <1>4, <1>6 DEF isLeader
  <2>9. CASE isLeader(e)
    <3>1. OnlySends(e1, f) /\ SendsNow(e1, f, e1.self, m)
      BY <1>4, <2>4, <2>7, <2>8, <2>9, ScheduleNowIs
    <3>2. SendsNow(e, f, e.self, m)
      BY <1>4, <3>1 DEF SendsNow
    <3>3. Seeks(e, f)
      BY <1>4, <1>9, <2>2, <2>9, <3>1, <3>2 DEF Seeks, OnlySends, m
    <3> QED
      BY <1>4, <1>9, <3>1, <3>3 DEF Found, OnlySends, f
  <2>10. CASE ~isLeader(e)
    <3> DEFINE hop == e.st.leaderHop
    <3>1. /\ hop \in Brokers \cup {NULL} /\ pushed \in Message /\ e1 \in Effect
          /\ MapOK(e1.st.neighboursMap)
          /\ f = Send(e1, hop, pushed)
      BY <1>1, <1>2, <1>4, <1>6, <2>4, <2>7, <2>8, <2>10
    <3> HIDE DEF hop
    <3>2. OnlySends(e1, f) /\ SendsOver(e1, f, hop, pushed)
      BY <3>1, SendIs
    <3>3. SendsOver(e, f, hop, pushed)
      BY <1>4, <1>6, <3>2 DEF SendsOver
    <3>4. Seeks(e, f)
      BY <1>4, <1>9, <2>2, <2>10, <3>2, <3>3 DEF Seeks, OnlySends, hop, pushed
    <3> QED
      BY <1>4, <1>9, <3>2, <3>4 DEF Found, OnlySends, f
  <2> QED
    BY <2>9, <2>10
<1> QED
  BY <1>7, <1>8, <1>9

(* An MWOE message with one more broker on its way, and an Expand message. *)
passOn(m, b) ==
    [type |-> "MWOE", broker |-> m.broker, delay |-> m.delay, piggyback |-> <<b>> \o m.piggyback]

orderOf(c, stack) == [type |-> "Expand", broker |-> c, piggyback |-> stack]

Orders(e, f, best) ==
    /\ best.piggyback = <<>> => SendsNow(e, f, e.self, orderOf(best.broker, <<>>))
    /\ best.piggyback # <<>> =>
         SendsOver(e, f, Head(best.piggyback), orderOf(best.broker, Tail(best.piggyback)))

Chooses(e, f, ms) ==
    \/ (\A i \in DOMAIN ms : ms[i].broker = NULL) /\ SendsNothing(e, f)
    \/ \E i \in DOMAIN ms :
         /\ ms[i].broker # NULL
         /\ \A j \in DOMAIN ms : ms[j].broker # NULL => ms[i].delay <= ms[j].delay
         /\ Orders(e, f, ms[i])

(* A report with another stack is the same in the rest.                    *)
LEMMA WithStack ==
    ASSUME NEW m \in MWOEMessage, NEW s
    PROVE  [m EXCEPT !.piggyback = s] =
             [type |-> "MWOE", broker |-> m.broker, delay |-> m.delay, piggyback |-> s]
BY DEF MWOEMessage

(* A report that is passed on has the broker on top of its stack.          *)
LEMMA PassOnIs ==
    ASSUME NEW m \in MWOEMessage, NEW b \in Brokers
    PROVE  /\ [m EXCEPT !.piggyback = Push(@, b)] = passOn(m, b)
           /\ passOn(m, b) \in MWOEMessage /\ passOn(m, b) \in Message
<1> PICK s : s = <<b>> \o m.piggyback
  OBVIOUS
<1>1. s \in Seq(Brokers)
  <2>1. <<b>> \in Seq(Brokers) /\ m.piggyback \in Seq(Brokers)
    BY DEF MWOEMessage
  <2> QED
    BY <2>1, ConcatProperties
<1>2. [m EXCEPT !.piggyback = Push(@, b)] = [m EXCEPT !.piggyback = s]
  BY DEF Push
<1>3. passOn(m, b) = [type |-> "MWOE", broker |-> m.broker, delay |-> m.delay, piggyback |-> s]
  BY DEF passOn
<1>4. [m EXCEPT !.piggyback = s] = [type |-> "MWOE", broker |-> m.broker, delay |-> m.delay, piggyback |-> s]
  BY WithStack
<1>5. passOn(m, b) \in MWOEMessage
  BY <1>1, <1>3 DEF MWOEMessage
<1> QED
  BY <1>2, <1>3, <1>4, <1>5 DEF Message, ProtocolMessage

(* An order to expand is a message.                                        *)
LEMMA OrderIs ==
    ASSUME NEW c \in Brokers, NEW s \in Seq(Brokers)
    PROVE  orderOf(c, s) \in ExpandMessage /\ orderOf(c, s) \in Message
BY ExpandType DEF orderOf, ExpandMessage

(* findBestMWOE: the shortest of the reports decides where to expand, and  *)
(* they are dropped.                                                       *)
LEMMA FindBestIs ==
    ASSUME NEW e \in Effect, MapOK(e.st.neighboursMap)
    PROVE  /\ OnlySends(e, findBestMWOE(e))
           /\ Chooses(e, findBestMWOE(e), e.st.receivedMWOEs)
<1> DEFINE ms == e.st.receivedMWOEs
           edges == {i \in DOMAIN ms : ms[i].broker # NULL}
           delays == {ms[i].delay : i \in edges}
           least == Min(delays)
           bests == {i \in edges : ms[i].delay = least}
           best == ms[Min(bests)]
           f == findBestMWOE(e)
<1>1. f = IF edges = {} THEN e
          ELSE IF best.piggyback = <<>> THEN ScheduleNow(e, orderOf(best.broker, <<>>))
          ELSE Send(e, Head(best.piggyback), orderOf(best.broker, Tail(best.piggyback)))
  BY DEF findBestMWOE, orderOf, Top, Pop
<1> HIDE DEF f
<1>2. CASE edges = {}
  <2>1. f = e /\ \A i \in DOMAIN ms : ms[i].broker = NULL
    BY <1>1, <1>2
  <2>2. SendsNothing(e, f)
    BY <2>1 DEF SendsNothing
  <2> QED
    BY <2>1, <2>2 DEF OnlySends, Chooses, f
<1>3. CASE edges # {}
  <2>1. ms \in Seq(MWOEMessage)
    BY DEF Effect, BrokerState
  <2> HIDE DEF ms
  <2>2. \A i \in edges : i \in Nat /\ i \in DOMAIN ms /\ ms[i] \in MWOEMessage /\ ms[i].broker # NULL
    BY <2>1
  <2>3. \A i \in DOMAIN ms : ms[i].broker # NULL => i \in edges
    OBVIOUS
  <2> HIDE DEF edges
  <2>4. delays \in SUBSET Nat /\ delays # {}
    BY <1>3, <2>2 DEF MWOEMessage
  <2>5. least \in delays /\ \A x \in delays : least <= x
    BY <2>4, MinProperties
  <2> HIDE DEF least
  <2>6. bests \in SUBSET Nat /\ bests # {}
    BY <2>2, <2>5
  <2> DEFINE k == Min(bests)
  <2>7. k \in bests
    BY <2>6, MinProperties
  <2>8. best = ms[k]
    OBVIOUS
  <2>9. k \in DOMAIN ms /\ ms[k].broker # NULL /\ ms[k] \in MWOEMessage
    BY <2>2, <2>7
  <2>10. \A j \in DOMAIN ms : ms[j].broker # NULL => ms[k].delay <= ms[j].delay
    <3>1. ms[k].delay = least
      BY <2>7
    <3> QED
      BY <2>3, <2>5, <3>1
  <2> HIDE DEF best, k, bests
  <2>11. best.broker \in Brokers /\ best.piggyback \in Seq(Brokers)
    BY <2>8, <2>9 DEF MWOEMessage
  <2>12. OnlySends(e, f) /\ Orders(e, f, best)
    <3>1. CASE best.piggyback = <<>>
      <4> PICK s : s = <<>>
        OBVIOUS
      <4>1. s \in Seq(Brokers)
        OBVIOUS
      <4>2. orderOf(best.broker, s) \in Message
        BY <2>11, <4>1, OrderIs
      <4>3. f = ScheduleNow(e, orderOf(best.broker, s))
        BY <1>1, <1>3, <3>1
      <4>4. OnlySends(e, f) /\ SendsNow(e, f, e.self, orderOf(best.broker, s))
        BY <4>2, <4>3, ScheduleNowIs
      <4> QED
        BY <3>1, <4>4 DEF Orders
    <3>2. CASE best.piggyback # <<>>
      <4> PICK s, b : s = Tail(best.piggyback) /\ b = Head(best.piggyback)
        OBVIOUS
      <4>1. s \in Seq(Brokers) /\ b \in Brokers
        BY <2>11, <3>2, HeadTailProperties
      <4>2. orderOf(best.broker, s) \in Message
        BY <2>11, <4>1, OrderIs
      <4>3. f = Send(e, b, orderOf(best.broker, s))
        BY <1>1, <1>3, <3>2
      <4>4. OnlySends(e, f) /\ SendsOver(e, f, b, orderOf(best.broker, s))
        BY <4>1, <4>2, <4>3, SendIs
      <4> QED
        BY <3>2, <4>4 DEF Orders
    <3> QED
      BY <3>1, <3>2
  <2>13. \E i \in DOMAIN ms :
           /\ ms[i].broker # NULL
           /\ \A j \in DOMAIN ms : ms[j].broker # NULL => ms[i].delay <= ms[j].delay
           /\ Orders(e, f, ms[i])
    BY <2>8, <2>9, <2>10, <2>12
  <2> QED
    BY <2>12, <2>13 DEF Chooses, ms, f
<1> QED
  BY <1>2, <1>3 DEF f

(* handleMWOEMessage: pass a report on to the leader; as the leader, keep  *)
(* it, or choose among all of them.                                        *)
Counts(e, f, m) ==
    LET ms == e.st.receivedMWOEs
        all == Len(ms) + 1 = Cardinality(e.st.members)
    IN  /\ f \in Effect /\ f.self = e.self /\ f.timers = e.timers
        /\ SameView(e.st, f.st) /\ SameQueue(e.st, f.st) /\ SameConnects(e.st, f.st)
        /\ ~isLeader(e) =>
             f.st.receivedMWOEs = ms /\ SendsOver(e, f, e.st.leaderHop, passOn(m, e.self))
        /\ isLeader(e) /\ ~all => f.st.receivedMWOEs = Append(ms, m) /\ SendsNothing(e, f)
        /\ isLeader(e) /\ all => f.st.receivedMWOEs = <<>> /\ Chooses(e, f, Append(ms, m))

(* That is what the code of handleMWOEMessage does.                        *)
LEMMA CountIs ==
    ASSUME NEW e \in Effect, MapOK(e.st.neighboursMap), NEW m \in MWOEMessage
    PROVE  Counts(e, handleMWOEMessage(e, m), m)
<1> DEFINE f == handleMWOEMessage(e, m)
           ms == e.st.receivedMWOEs
<1> PICK new : new = Append(ms, m)
  OBVIOUS
<1> DEFINE e1 == [e EXCEPT !.st.receivedMWOEs = new]
           e2 == findBestMWOE(e1)
           g == [e2 EXCEPT !.st.receivedMWOEs = <<>>]
<1>1. /\ e.st \in BrokerState /\ e.self \in Brokers /\ ms \in Seq(MWOEMessage)
      /\ e.st.leaderHop \in Brokers \cup {NULL}
  BY DEF Effect, BrokerState
<1>2. new \in Seq(MWOEMessage) /\ Len(new) = Len(ms) + 1
  BY <1>1, AppendProperties
<1>3. /\ e1.self = e.self /\ e1.timers = e.timers /\ e1.direct = e.direct /\ e1.out = e.out
      /\ e1.fault = e.fault /\ e1 \in Effect
      /\ e1.st = [e.st EXCEPT !.receivedMWOEs = new]
  BY <1>2 DEF Effect, BrokerState
<1>4. /\ SameView(e.st, e1.st) /\ SameQueue(e.st, e1.st) /\ SameConnects(e.st, e1.st)
      /\ e1.st.receivedMWOEs = new
  <2> HIDE DEF e1
  <2> QED
    BY <1>1, <1>3 DEF BrokerState, SameView, SameQueue, SameConnects
<1>5. f = IF ~isLeader(e) THEN Send(e, e.st.leaderHop, passOn(m, e.self))
          ELSE IF Len(new) = Cardinality(e1.st.members) THEN g ELSE e1
  <2>1. [e EXCEPT !.st.receivedMWOEs = Append(@, m)] = e1
    BY DEF Effect
  <2>2. handleMWOEMessage(e, m) =
          IF ~isLeader(e) THEN Send(e, e.st.leaderHop, [m EXCEPT !.piggyback = Push(@, e.self)])
          ELSE IF Len(e1.st.receivedMWOEs) = Cardinality(e1.st.members) THEN g ELSE e1
    BY <2>1 DEF handleMWOEMessage
  <2> HIDE DEF e1, g
  <2> QED
    BY <1>1, <1>4, <2>2, PassOnIs
<1>6. OnlySends(e1, e2) /\ Chooses(e1, e2, new)
  BY <1>3, <1>4, FindBestIs DEF SameView
<1>7. /\ g \in Effect /\ g.self = e2.self /\ g.timers = e2.timers /\ g.direct = e2.direct
      /\ g.out = e2.out /\ g.fault = e2.fault /\ g.st = [e2.st EXCEPT !.receivedMWOEs = <<>>]
  <2>1. e2 \in Effect
    BY <1>6 DEF OnlySends
  <2>2. <<>> \in Seq(MWOEMessage)
    OBVIOUS
  <2> HIDE DEF e2
  <2> QED
    BY <2>1, <2>2 DEF Effect, BrokerState
<1>8. /\ SameView(e.st, g.st) /\ SameQueue(e.st, g.st) /\ SameConnects(e.st, g.st)
      /\ g.st.receivedMWOEs = <<>>
  <2>1. e2.st = e1.st /\ e2.st \in BrokerState
    BY <1>6 DEF OnlySends, Effect
  <2> HIDE DEF e1, e2, g
  <2> QED
    BY <1>4, <1>7, <2>1 DEF BrokerState, SameView, SameQueue, SameConnects
<1> HIDE DEF f, e1, e2, g
<1>9. e1.st.members = e.st.members /\ e1.st.neighboursMap = e.st.neighboursMap
  BY <1>4 DEF SameView
<1>10. CASE ~isLeader(e)
  <2>1. passOn(m, e.self) \in Message
    BY <1>1, PassOnIs
  <2>2. OnlySends(e, f) /\ SendsOver(e, f, e.st.leaderHop, passOn(m, e.self))
    BY <1>1, <1>5, <1>10, <2>1, SendIs
  <2> QED
    BY <1>10, <2>2 DEF Counts, OnlySends, SameView, SameQueue, SameConnects, f
<1>11. CASE isLeader(e) /\ Len(new) # Cardinality(e.st.members)
  <2>1. f = e1
    BY <1>5, <1>9, <1>11
  <2>2. SendsNothing(e, f)
    BY <1>3, <2>1 DEF SendsNothing
  <2> QED
    BY <1>2, <1>3, <1>4, <1>11, <2>1, <2>2 DEF Counts, f
<1>12. CASE isLeader(e) /\ Len(new) = Cardinality(e.st.members)
  <2>1. f = g
    BY <1>5, <1>9, <1>12
  <2>2. ASSUME NEW n, NEW x
        PROVE  /\ SendsNow(e1, e2, n, x) => SendsNow(e, f, n, x)
               /\ SendsOver(e1, e2, n, x) => SendsOver(e, f, n, x)
    BY <1>3, <1>7, <1>9, <2>1 DEF SendsNow, SendsOver
  <2>3. SendsNothing(e1, e2) => SendsNothing(e, f)
    BY <1>3, <1>7, <2>1 DEF SendsNothing
  <2>4. \A i \in DOMAIN new : Orders(e1, e2, new[i]) => Orders(e, f, new[i])
    BY <1>3, <2>2 DEF Orders
  <2>5. Chooses(e, f, new)
    BY <1>6, <2>3, <2>4 DEF Chooses
  <2>6. e2.self = e.self /\ e2.timers = e.timers
    BY <1>3, <1>6 DEF OnlySends
  <2> QED
    BY <1>2, <1>7, <1>8, <1>12, <2>1, <2>5, <2>6 DEF Counts, f
<1> QED
  BY <1>10, <1>11, <1>12

updateOf(b, M) == [type |-> "Update", sender |-> b, members |-> M]

(* An update is a message.                                                 *)
LEMMA UpdateIs ==
    ASSUME NEW b \in Brokers, NEW M \in SUBSET Brokers
    PROVE  updateOf(b, M) \in UpdateMessage /\ updateOf(b, M) \in Message
BY DEF updateOf, UpdateMessage, Message, ProtocolMessage

(* The leader of a fragment with the members M, too.                       *)
leaderOf(st, M) == Min(st.members \cup M \cup {st.componentId})

(* What merging the fragment with members M into this one, over neighbour  *)
(* c, does not touch.                                                      *)
SameRound(s, t) ==
    /\ t.initial = s.initial /\ t.currentConvergence = s.currentConvergence
    /\ t.availableBrokers = s.availableBrokers /\ t.bufferedSubs = s.bufferedSubs
    /\ t.receivedMWOEs = s.receivedMWOEs

Merges(e, f, c, M) ==
    LET nm == e.st.neighboursMap
    IN  /\ f \in Effect /\ f.self = e.self
        /\ SameRound(e.st, f.st) /\ SameQueue(e.st, f.st) /\ SameConnects(e.st, f.st)
        /\ f.st.members = e.st.members \cup M
        /\ f.st.componentId = leaderOf(e.st, M)
        /\ f.st.leaderHop = (IF leaderOf(e.st, M) # e.st.componentId THEN c ELSE e.st.leaderHop)
        /\ NeighbourBrokers(f.st.neighboursMap) = NeighbourBrokers(nm) \cup {c}
        /\ c \notin NeighbourBrokers(nm) => MapOK(f.st.neighboursMap)
        /\ f.timers = e.timers /\ f.direct = e.direct /\ (f.fault <=> e.fault)
        /\ f.out = Posted(e.out, NeighbourBrokers(nm), updateOf(e.self, e.st.members \cup M))

Hears(e, f, c, M) ==
    LET nm == e.st.neighboursMap
    IN  /\ f \in Effect /\ f.self = e.self
        /\ SameRound(e.st, f.st) /\ SameQueue(e.st, f.st) /\ SameConnects(e.st, f.st)
        /\ f.st.members = e.st.members \cup M
        /\ f.st.componentId = leaderOf(e.st, M)
        /\ f.st.leaderHop = (IF leaderOf(e.st, M) = e.st.componentId THEN e.st.leaderHop
                             ELSE IF c \in NeighbourBrokers(nm) THEN c ELSE NULL)
        /\ f.st.neighboursMap = nm
        /\ f.timers = e.timers /\ f.direct = e.direct /\ (f.fault <=> e.fault)
        /\ f.out = Posted(e.out, NeighbourBrokers(nm) \ {c}, updateOf(e.self, M))

(* connect() merges the fragment of the broker that asks into this one.    *)
LEMMA ConnectIs ==
    ASSUME NEW e, Member(e), MapOK(e.st.neighboursMap), NEW con \in ConnectMessage
    PROVE  Merges(e, connect(e, con), con.broker, con.members)
<1> DEFINE M == e.st.members \cup con.members
           leader == leaderOf(e.st, con.members)
           update == updateOf(e.self, M)
           nm == e.st.neighboursMap
           e1 == SendCopies(e, Copies(nm, BrokerPlaces(nm)), update)
           hop == IF leader # e.st.componentId THEN con.broker ELSE e.st.leaderHop
           map == addMapping(nm, con.broker)
           f == connect(e, con)
<1>1. /\ e \in Effect /\ e.st \in BrokerState /\ e.self \in Brokers
      /\ nm \in NeighboursVector /\ e.st.leaderHop \in Brokers \cup {NULL}
      /\ con.broker \in Brokers /\ con.members \in SUBSET Brokers
  BY DEF Member, Effect, BrokerState, ConnectMessage
<1>2. /\ M \in SUBSET Brokers /\ leader \in Brokers /\ hop \in Brokers \cup {NULL}
      /\ update \in Message
  <2>1. M \in SUBSET Brokers /\ leader \in M
    BY <1>1, MergeLeads DEF leaderOf
  <2> QED
    BY <1>1, <2>1, UpdateIs
<1>3. map \in NeighboursVector
  BY <1>1, AddMappingType
<1>4. /\ NeighbourBrokers(map) = NeighbourBrokers(nm) \cup {con.broker}
      /\ con.broker \notin NeighbourBrokers(nm) => MapOK(map)
  BY <1>1, AddMappingIs
<1>5. /\ e1 \in Effect /\ e1.st = e.st /\ e1.self = e.self /\ e1.direct = e.direct
      /\ e1.timers = e.timers /\ (e1.fault <=> e.fault)
      /\ e1.out = Posted(e.out, NeighbourBrokers(nm), update)
  <2>1. BrokerPlaces(nm) = Used(nm) /\ NeighbourBrokers(nm) = Neighbours(nm)
    BY <1>1, MapFacts
  <2>2. {nm[i].node : i \in BrokerPlaces(nm)} = NeighbourBrokers(nm)
    BY <2>1 DEF Neighbours
  <2>3. BrokerPlaces(nm) \in SUBSET Used(nm)
    BY <2>1
  <2> HIDE DEF update
  <2>4. /\ e1 \in Effect /\ e1.st = e.st /\ e1.self = e.self /\ e1.direct = e.direct
        /\ e1.timers = e.timers /\ e1.fault = e.fault
        /\ e1.out = Posted(e.out, {nm[i].node : i \in BrokerPlaces(nm)}, update)
    BY <1>1, <1>2, <2>3, SendCopiesOnce
  <2> QED
    BY <2>2, <2>4
<1>6. f = [e1 EXCEPT !.st.members = M, !.st.leaderHop = hop, !.st.componentId = leader,
                     !.st.neighboursMap = map]
  <2>1. e1.st.leaderHop = e.st.leaderHop /\ e1.st.neighboursMap = nm
    BY <1>5
  <2>2. update = [type |-> "Update", sender |-> e.self, members |-> M]
    BY DEF updateOf
  <2>3. leader = Min(M \cup {e.st.componentId})
    BY DEF leaderOf
  <2>4. f = [e1 EXCEPT !.st.members = M,
                       !.st.leaderHop = IF leader # e.st.componentId THEN con.broker ELSE @,
                       !.st.componentId = leader,
                       !.st.neighboursMap = addMapping(@, con.broker)]
    BY <2>2, <2>3 DEF connect
  <2> HIDE DEF e1, leader, M, update
  <2> QED
    BY <1>5, <2>1, <2>4 DEF Effect
<1> HIDE DEF e1, leader, hop, M, f, map, update
<1>7. f \in Effect /\ f.self = e1.self /\ f.timers = e1.timers /\ f.direct = e1.direct
      /\ f.out = e1.out /\ f.fault = e1.fault
  BY <1>2, <1>3, <1>5, <1>6 DEF Effect, BrokerState
<1>8. /\ f.st.members = M /\ f.st.componentId = leader /\ f.st.leaderHop = hop
      /\ f.st.neighboursMap = map
      /\ SameRound(e.st, f.st) /\ SameQueue(e.st, f.st) /\ SameConnects(e.st, f.st)
  BY <1>5, <1>6 DEF Effect, BrokerState, SameRound, SameQueue, SameConnects
<1> QED
  BY <1>4, <1>5, <1>7, <1>8 DEF Merges, f, M, leader, hop, update

(* handleUpdateMessage merges what the neighbour tells and looks for an    *)
(* edge again.                                                             *)
LEMMA HearIs ==
    ASSUME NEW e, Member(e), MapOK(e.st.neighboursMap), NEW m \in UpdateMessage
    PROVE  \E g : /\ Hears(e, g, m.sender, m.members)
                  /\ handleUpdateMessage(e, m) = findAndSendMWOE(g)
<1> DEFINE M == e.st.members \cup m.members
           leader == leaderOf(e.st, m.members)
           update == updateOf(e.self, m.members)
           nm == e.st.neighboursMap
           others == {i \in BrokerPlaces(nm) : nm[i].node # m.sender}
           e1 == SendCopies(e, Copies(nm, others), update)
           hop == IF leader = e.st.componentId THEN e.st.leaderHop
                  ELSE IF m.sender \in NeighbourBrokers(nm) THEN m.sender ELSE NULL
           g == [e1 EXCEPT !.st.members = M, !.st.leaderHop = hop, !.st.componentId = leader]
<1>1. /\ e \in Effect /\ e.st \in BrokerState /\ e.self \in Brokers
      /\ nm \in NeighboursVector /\ e.st.leaderHop \in Brokers \cup {NULL}
      /\ m.sender \in Brokers /\ m.members \in SUBSET Brokers
  BY DEF Member, Effect, BrokerState, UpdateMessage
<1>2. /\ M \in SUBSET Brokers /\ leader \in Brokers /\ hop \in Brokers \cup {NULL}
      /\ update \in Message
  <2>1. M \in SUBSET Brokers /\ leader \in M
    BY <1>1, MergeLeads DEF leaderOf
  <2> QED
    BY <1>1, <2>1, UpdateIs
<1>3. [m EXCEPT !.sender = e.self] = update
  BY DEF UpdateMessage, updateOf
<1>4. hasNode(nm, m.sender) <=> m.sender \in NeighbourBrokers(nm)
  BY <1>1, MapFacts
<1>5. /\ e1 \in Effect /\ e1.st = e.st /\ e1.self = e.self /\ e1.direct = e.direct
      /\ e1.timers = e.timers /\ (e1.fault <=> e.fault)
      /\ e1.out = Posted(e.out, NeighbourBrokers(nm) \ {m.sender}, update)
  <2>1. BrokerPlaces(nm) = Used(nm) /\ NeighbourBrokers(nm) = Neighbours(nm)
    BY <1>1, MapFacts
  <2>2. {nm[i].node : i \in others} = NeighbourBrokers(nm) \ {m.sender}
    BY <2>1 DEF Neighbours
  <2>3. others \in SUBSET Used(nm)
    BY <2>1
  <2> HIDE DEF update, others
  <2>4. /\ e1 \in Effect /\ e1.st = e.st /\ e1.self = e.self /\ e1.direct = e.direct
        /\ e1.timers = e.timers /\ e1.fault = e.fault
        /\ e1.out = Posted(e.out, {nm[i].node : i \in others}, update)
    BY <1>1, <1>2, <2>3, SendCopiesOnce
  <2> QED
    BY <2>2, <2>4
<1>6. handleUpdateMessage(e, m) = findAndSendMWOE(g)
  <2>1. leader = Min(M \cup {e.st.componentId})
    BY DEF leaderOf
  <2>2. handleUpdateMessage(e, m) =
          findAndSendMWOE(
            [e1 EXCEPT !.st.members = M,
                       !.st.leaderHop = IF leader = e.st.componentId THEN @
                                        ELSE IF hasNode(nm, m.sender) THEN m.sender ELSE NULL,
                       !.st.componentId = leader])
    BY <1>3, <2>1 DEF handleUpdateMessage
  <2> HIDE DEF e1, leader, M, update
  <2>3. [e1 EXCEPT !.st.members = M,
                   !.st.leaderHop = IF leader = e.st.componentId THEN @
                                    ELSE IF hasNode(nm, m.sender) THEN m.sender ELSE NULL,
                   !.st.componentId = leader] = g
    BY <1>4, <1>5 DEF Effect
  <2> QED
    BY <2>2, <2>3
<1>6a. g = [e1 EXCEPT !.st.members = M, !.st.leaderHop = hop, !.st.componentId = leader]
  OBVIOUS
<1> HIDE DEF e1, leader, hop, M, g, update
<1>7. g \in Effect /\ g.self = e1.self /\ g.timers = e1.timers /\ g.direct = e1.direct
      /\ g.out = e1.out /\ g.fault = e1.fault
  BY <1>2, <1>5, <1>6a DEF Effect, BrokerState
<1>8. /\ g.st.members = M /\ g.st.componentId = leader /\ g.st.leaderHop = hop
      /\ g.st.neighboursMap = nm
      /\ SameRound(e.st, g.st) /\ SameQueue(e.st, g.st) /\ SameConnects(e.st, g.st)
  BY <1>5, <1>6a DEF Effect, BrokerState, SameRound, SameQueue, SameConnects
<1>9. Hears(e, g, m.sender, m.members)
  BY <1>5, <1>7, <1>8 DEF Hears, M, leader, hop, update
<1> QED
  BY <1>6, <1>9

(* Removing the broker from a list that has it once.                       *)
LEMMA RemoveFirstIs ==
    ASSUME NEW list \in Seq(Brokers), Distinct(list), NEW b \in ToSet(list)
    PROVE  /\ RemoveFirst(list, b) \in Seq(Brokers) /\ Distinct(RemoveFirst(list, b))
           /\ ToSet(RemoveFirst(list, b)) = ToSet(list) \ {b}
<1> DEFINE places == {i \in 1 .. Len(list) : list[i] = b}
           k == Min(places)
           u == SubSeq(list, 1, k - 1)
           v == SubSeq(list, k + 1, Len(list))
<1>1. DOMAIN list = 1 .. Len(list) /\ Len(list) \in Nat
  OBVIOUS
<1>2. places # {} /\ places \in SUBSET Nat
  BY <1>1 DEF ToSet
<1>3. k \in places
  BY <1>2, MinProperties
<1>4. k \in 1 .. Len(list) /\ list[k] = b
  BY <1>3
<1>5. RemoveFirst(list, b) = u \o v
  BY <1>2 DEF RemoveFirst, RemoveAt, SelectInSeq
<1> HIDE DEF k
<1>6. /\ u \in Seq(Brokers) /\ Len(u) = k - 1 /\ \A i \in 1 .. k - 1 : u[i] = list[i]
  BY <1>1, <1>4, SubSeqProperties
<1>7. /\ v \in Seq(Brokers) /\ Len(v) = Len(list) - k
      /\ \A i \in 1 .. Len(list) - k : v[i] = list[k + i]
  <2>1. \A i \in k + 1 .. Len(list) : list[i] \in Brokers
    BY <1>1, <1>4
  <2>2. k \in Nat /\ k + 1 \in Int /\ Len(list) \in Int /\ k <= Len(list)
    BY <1>1, <1>4
  <2>3. /\ v \in Seq(Brokers)
        /\ Len(v) = IF k + 1 <= Len(list) THEN Len(list) - (k + 1) + 1 ELSE 0
        /\ \A i \in 1 .. Len(list) - (k + 1) + 1 : v[i] = list[(k + 1) + i - 1]
    BY <2>1, <2>2, SubSeqProperties
  <2> HIDE DEF v
  <2>4. Len(v) = Len(list) - k
    BY <2>2, <2>3
  <2>5. \A i \in 1 .. Len(list) - k : v[i] = list[k + i]
    <3> SUFFICES ASSUME NEW i \in 1 .. Len(list) - k PROVE v[i] = list[k + i]
      OBVIOUS
    <3>1. i \in 1 .. Len(list) - (k + 1) + 1 /\ (k + 1) + i - 1 = k + i
      BY <2>2
    <3> QED
      BY <2>3, <3>1
  <2> QED
    BY <2>3, <2>4, <2>5
<1> HIDE DEF u, v
<1>8. DOMAIN u = 1 .. k - 1 /\ DOMAIN v = 1 .. Len(list) - k
  BY <1>4, <1>6, <1>7
<1>9. Distinct(u) /\ Distinct(v)
  <2>1. Distinct(u)
    BY <1>1, <1>4, <1>6, <1>8 DEF Distinct
  <2>2. ASSUME NEW i \in DOMAIN v, NEW j \in DOMAIN v, v[i] = v[j]
        PROVE  i = j
    <3>1. k + i \in DOMAIN list /\ k + j \in DOMAIN list /\ list[k + i] = list[k + j]
      BY <1>1, <1>4, <1>7, <1>8, <2>2
    <3>2. k + i = k + j
      BY <3>1 DEF Distinct
    <3> QED
      BY <1>4, <1>8, <3>2
  <2> QED
    BY <2>1, <2>2 DEF Distinct
<1>10. ToSet(u) \cap ToSet(v) = {}
  <2> SUFFICES ASSUME NEW i \in DOMAIN u, NEW j \in DOMAIN v, u[i] = v[j]
               PROVE  FALSE
    BY DEF ToSet
  <2>1. i \in DOMAIN list /\ k + j \in DOMAIN list /\ list[i] = list[k + j] /\ i < k
    BY <1>1, <1>4, <1>6, <1>7, <1>8
  <2>2. i = k + j
    BY <2>1 DEF Distinct
  <2> QED
    BY <1>4, <1>8, <2>1, <2>2
<1>11. ToSet(u) \cup ToSet(v) = ToSet(list) \ {b}
  <2>1. ASSUME NEW i \in DOMAIN u PROVE u[i] \in ToSet(list) \ {b}
    <3>1. i \in DOMAIN list /\ u[i] = list[i] /\ i # k
      BY <1>1, <1>4, <1>6, <1>8
    <3>2. list[i] # b
      BY <1>1, <1>4, <3>1 DEF Distinct
    <3> QED
      BY <3>1, <3>2 DEF ToSet
  <2>2. ASSUME NEW i \in DOMAIN v PROVE v[i] \in ToSet(list) \ {b}
    <3>1. k + i \in DOMAIN list /\ v[i] = list[k + i] /\ k + i # k
      BY <1>1, <1>4, <1>7, <1>8
    <3>2. list[k + i] # b
      BY <1>1, <1>4, <3>1 DEF Distinct
    <3> QED
      BY <3>1, <3>2 DEF ToSet
  <2>3. ASSUME NEW i \in DOMAIN list, list[i] # b
        PROVE  list[i] \in ToSet(u) \cup ToSet(v)
    <3>1. i # k
      BY <1>4, <2>3
    <3>2. CASE i < k
      <4>1. i \in DOMAIN u /\ u[i] = list[i]
        BY <1>1, <1>4, <1>6, <1>8, <3>2
      <4> QED
        BY <4>1 DEF ToSet
    <3>3. CASE i > k
      <4>1. i - k \in DOMAIN v /\ v[i - k] = list[i]
        BY <1>1, <1>4, <1>7, <1>8, <3>3
      <4> QED
        BY <4>1 DEF ToSet
    <3> QED
      BY <1>1, <1>4, <3>1, <3>2, <3>3
  <2> QED
    BY <2>1, <2>2, <2>3 DEF ToSet
<1>12. /\ u \o v \in Seq(Brokers) /\ ToSet(u \o v) = ToSet(u) \cup ToSet(v)
       /\ Distinct(u \o v)
  BY <1>6, <1>7, <1>9, <1>10, ConcatElements
<1> QED
  BY <1>5, <1>11, <1>12

(* Dropping the neighbours sends nothing if all of them are brokers.       *)
LEMMA DropIs ==
    ASSUME NEW e \in Effect, MapOK(e.st.neighboursMap)
    PROVE  DropNeighbours(e) = [e EXCEPT !.st.neighboursMap = NoNeighbours]
<1> DEFINE nm == e.st.neighboursMap
           disconnection == [type |-> "Disconnection", requester |-> e.self]
           f == SendCopies(e, Copies(nm, ClientPlaces(nm)), disconnection)
<1>1. nm \in NeighboursVector /\ e.self \in Brokers
  BY DEF Effect, BrokerState
<1>2. disconnection \in Message
  BY <1>1 DEF Message, DisconnectionRequestMessage
<1>3. ClientPlaces(nm) = {}
  BY <1>1, MapFacts
<1> HIDE DEF disconnection
<1>4. /\ f \in Effect /\ f.st = e.st /\ f.self = e.self /\ f.direct = e.direct
      /\ f.timers = e.timers /\ f.fault = e.fault
      /\ f.out = Posted(e.out, {nm[i].node : i \in ClientPlaces(nm)}, disconnection)
  BY <1>2, <1>3, SendCopiesOnce
<1>5. Posted(e.out, {}, disconnection) = e.out
  BY DEF Posted, Effect
<1>6. {nm[i].node : i \in ClientPlaces(nm)} = {}
  BY <1>3
<1>7. f.out = e.out
  BY <1>4, <1>5, <1>6
<1>8. f = e
  BY <1>4, <1>7 DEF Effect
<1> QED
  BY <1>8 DEF DropNeighbours, f, disconnection

(* A fragment of its own, in round n over the brokers of a list.           *)
Renews(e, g, list, n) ==
    /\ g \in Effect /\ g.self = e.self
    /\ g.timers = e.timers /\ g.direct = e.direct /\ g.out = e.out
    /\ ~g.st.converged /\ ~g.st.initial /\ g.st.currentConvergence = n
    /\ g.st.componentId = e.self /\ g.st.leaderHop = NULL /\ g.st.members = {e.self}
    /\ g.st.availableBrokers = list /\ g.st.neighboursMap = NoNeighbours
    /\ g.st.sentConnects = {}
    /\ g.st.receivedConnects = {con \in e.st.receivedConnects : con.convergenceNumber >= n}
    /\ g.st.receivedMWOEs = e.st.receivedMWOEs
    /\ g.st.awaitingNSMsgs = e.st.awaitingNSMsgs /\ g.st.bufferedSubs = e.st.bufferedSubs

RestartList(e, m) ==
    LET list == e.st.availableBrokers
    IN  IF m.requester = e.self THEN list
        ELSE IF m.leaving THEN RemoveFirst(list, m.requester) ELSE Append(list, m.requester)

(* A join that is accepted begins a fragment with the broker alone, and    *)
(* the broker looks for an edge.                                           *)
LEMMA RestartIs ==
    ASSUME NEW e \in Effect, MapOK(e.st.neighboursMap), NEW m \in JoinMessage
    PROVE  \E g : /\ Restart(e, m) = findAndSendMWOE(g)
                  /\ Renews(e, g, RestartList(e, m), m.convergenceNo)
                  /\ (g.fault <=> e.fault \/ (m.leaving /\ e.st.availableBrokers = <<>>))
<1> DEFINE list == e.st.availableBrokers
           n == m.convergenceNo
           e1 == IF m.leaving /\ list = <<>> THEN Fault(e) ELSE e
           d == DropNeighbours(e1)
           list1 == RestartList(e, m)
           f == [d EXCEPT !.st.initial = FALSE, !.st.availableBrokers = list1,
                          !.st.currentConvergence = n]
           kept == {con \in f.st.receivedConnects :
                       con.convergenceNumber >= f.st.currentConvergence}
           g == [f EXCEPT !.st.converged = FALSE, !.st.componentId = f.self,
                          !.st.leaderHop = NULL, !.st.members = {f.self},
                          !.st.sentConnects = {}, !.st.receivedConnects = kept]
<1>1. m.requester \in Brokers /\ n \in Nat /\ m.leaving \in BOOLEAN
  BY DEF JoinMessage
<1>2. list \in Seq(Brokers) /\ e.self \in Brokers /\ e.st \in BrokerState
  BY DEF Effect, BrokerState
<1>3. list1 \in Seq(Brokers)
  BY <1>1, <1>2, RemoveFirstType, AppendProperties DEF RestartList
<1>4. /\ e1 \in Effect /\ e1.st = e.st /\ e1.self = e.self /\ e1.direct = e.direct
      /\ e1.out = e.out /\ e1.timers = e.timers
      /\ (e1.fault <=> e.fault \/ (m.leaving /\ list = <<>>))
  BY FaultType DEF Fault, Effect
<1>5. d = [e1 EXCEPT !.st.neighboursMap = NoNeighbours]
  BY <1>4, DropIs
<1>6. Restart(e, m) = initiateProtocol(f)
  BY DEF Restart, e1, RestartList
<1> HIDE DEF e1, d, list1
<1>7. d \in Effect
  BY <1>4, <1>5, NoMap DEF Effect, BrokerState
<1>8. /\ d.self = e1.self /\ d.direct = e1.direct /\ d.out = e1.out /\ d.timers = e1.timers
      /\ d.fault = e1.fault /\ d.st = [e1.st EXCEPT !.neighboursMap = NoNeighbours]
  BY <1>4, <1>5 DEF Effect
<1>9. f \in Effect
  BY <1>1, <1>3, <1>7 DEF Effect, BrokerState
<1>10. /\ f.self = d.self /\ f.direct = d.direct /\ f.out = d.out /\ f.timers = d.timers
       /\ f.fault = d.fault
       /\ ~f.st.initial /\ f.st.currentConvergence = n /\ f.st.availableBrokers = list1
       /\ f.st.neighboursMap = NoNeighbours /\ f.st.receivedConnects = e.st.receivedConnects
       /\ f.st.receivedMWOEs = e.st.receivedMWOEs
       /\ f.st.awaitingNSMsgs = e.st.awaitingNSMsgs /\ f.st.bufferedSubs = e.st.bufferedSubs
  BY <1>1, <1>2, <1>4, <1>7, <1>8 DEF Effect, BrokerState
<1> HIDE DEF f
<1>11. initiateProtocol(f) = findAndSendMWOE(g)
  <2>1. [f EXCEPT !.st.converged = FALSE, !.st.componentId = f.self,
                  !.st.leaderHop = NULL, !.st.members = {f.self},
                  !.st.sentConnects = {},
                  !.st.receivedConnects =
                     {con \in @ : con.convergenceNumber >= f.st.currentConvergence}] = g
    BY Zenon
  <2> QED
    BY <2>1 DEF initiateProtocol
<1>12. kept \in SUBSET ConnectMessage /\ f.self \in Brokers
  BY <1>9 DEF Effect, BrokerState
<1>12a. kept = {con \in e.st.receivedConnects : con.convergenceNumber >= n}
  BY <1>10
<1> HIDE DEF kept
<1>13. g \in Effect
  BY <1>9, <1>12, ZenonT(30) DEF Effect, BrokerState
<1>14. /\ g.self = f.self /\ g.direct = f.direct /\ g.out = f.out /\ g.timers = f.timers
       /\ g.fault = f.fault
  BY <1>9 DEF Effect, BrokerState
<1>15. /\ ~g.st.converged /\ g.st.componentId = f.self /\ g.st.leaderHop = NULL
       /\ g.st.members = {f.self} /\ g.st.sentConnects = {} /\ g.st.receivedConnects = kept
       /\ g.st.initial = f.st.initial /\ g.st.currentConvergence = f.st.currentConvergence
       /\ g.st.availableBrokers = f.st.availableBrokers
       /\ g.st.neighboursMap = f.st.neighboursMap /\ g.st.receivedMWOEs = f.st.receivedMWOEs
       /\ g.st.awaitingNSMsgs = f.st.awaitingNSMsgs /\ g.st.bufferedSubs = f.st.bufferedSubs
  BY <1>9 DEF Effect, BrokerState
<1> HIDE DEF g
<1>16. Renews(e, g, list1, n)
  BY <1>4, <1>8, <1>10, <1>12a, <1>13, <1>14, <1>15 DEF Renews
<1> QED
  BY <1>4, <1>6, <1>8, <1>10, <1>11, <1>14, <1>16 DEF list1

(* The broker leaves.                                                      *)
LEMMA LeaveIs ==
    ASSUME NEW e \in Effect, MapOK(e.st.neighboursMap), NEW m
    PROVE  LET f == Leave(e, m)
           IN  /\ f \in Effect /\ f.self = e.self
               /\ f.st = [[e.st EXCEPT !.initial = FALSE] EXCEPT !.neighboursMap = NoNeighbours]
               /\ f.direct = e.direct \o <<To(NS, [type |-> "Disconnection", requester |-> e.self])>>
               /\ f.out = e.out /\ f.timers = e.timers \cup {wakeUpDelayMsg}
               /\ (f.fault <=> e.fault \/ wakeUpDelayMsg \in e.timers)
<1> DEFINE request == [type |-> "Disconnection", requester |-> e.self]
           f == [e EXCEPT !.st.initial = FALSE]
           g == SendDirect(f, NS, request)
           d == DropNeighbours(g)
<1>1. request \in Message
  BY DEF Effect, Message, DisconnectionRequestMessage
<1> HIDE DEF request
<1>2. /\ f \in Effect /\ f.self = e.self /\ f.direct = e.direct /\ f.out = e.out
      /\ f.timers = e.timers /\ f.fault = e.fault /\ f.st = [e.st EXCEPT !.initial = FALSE]
      /\ f.st.neighboursMap = e.st.neighboursMap
  BY DEF Effect, BrokerState
<1> HIDE DEF f
<1>3. OnlySends(f, g) /\ SendsNow(f, g, NS, request)
  BY <1>1, <1>2, SendDirectIs DEF Nodes
<1> HIDE DEF g
<1>4. g \in Effect /\ g.st = f.st
  BY <1>3 DEF OnlySends
<1>5. d = [g EXCEPT !.st.neighboursMap = NoNeighbours]
  BY <1>2, <1>4, DropIs
<1> HIDE DEF d
<1>6. /\ d \in Effect /\ d.self = g.self /\ d.direct = g.direct /\ d.out = g.out
      /\ d.timers = g.timers /\ d.fault = g.fault
      /\ d.st = [g.st EXCEPT !.neighboursMap = NoNeighbours]
  BY <1>4, <1>5, NoMap DEF Effect, BrokerState
<1>7. wakeUpDelayMsg \in Message
  BY DEF Message
<1>8. LET s == Schedule(d, wakeUpDelayMsg)
      IN  /\ s \in Effect /\ s.self = d.self /\ s.st = d.st
          /\ s.direct = d.direct /\ s.out = d.out
          /\ s.timers = d.timers \cup {wakeUpDelayMsg}
          /\ (s.fault <=> d.fault \/ wakeUpDelayMsg \in d.timers)
  BY <1>6, <1>7, ScheduleIs
<1>9. Leave(e, m) = Schedule(d, wakeUpDelayMsg)
  BY DEF Leave, d, g, f, request
<1> DEFINE h == Schedule(d, wakeUpDelayMsg)
<1>10. /\ h \in Effect /\ h.self = e.self
       /\ h.st = [[e.st EXCEPT !.initial = FALSE] EXCEPT !.neighboursMap = NoNeighbours]
       /\ h.direct = e.direct \o <<To(NS, request)>>
       /\ h.out = e.out /\ h.timers = e.timers \cup {wakeUpDelayMsg}
       /\ (h.fault <=> e.fault \/ wakeUpDelayMsg \in e.timers)
  <2> HIDE DEF h
  <2> QED
    BY <1>2, <1>3, <1>4, <1>6, <1>8 DEF OnlySends, SendsNow, h
<1> QED
  BY <1>9, <1>10 DEF request

(* The announcement of a join to the brokers of a list.                    *)
joinsTo(list, join) == [i \in DOMAIN list |-> To(list[i], join)]

(* A copy of the join for each broker of the list, in its order.           *)
LEMMA AnnounceIs ==
    ASSUME NEW e \in Effect, NEW list \in Seq(Brokers), NEW join \in JoinMessage
    PROVE  /\ OnlySends(e, Announce(e, list, join))
           /\ joinsTo(list, join) \in Seq(Event)
           /\ Announce(e, list, join).direct = e.direct \o joinsTo(list, join)
           /\ Announce(e, list, join).out = e.out
           /\ (Announce(e, list, join).fault <=> e.fault)
<1> DEFINE joins == joinsTo(list, join)
           direct == e.direct \o joins
           f == [e EXCEPT !.direct = direct]
<1>1. joins \in Seq(Event)
  <2>1. \A i \in DOMAIN list : To(list[i], join) \in Event
    BY DEF Event, Nodes, Message, ProtocolMessage, To
  <2>2. Len(list) \in Nat /\ DOMAIN list = 1 .. Len(list)
    OBVIOUS
  <2> QED
    BY <2>1, <2>2 DEF joinsTo
<1>2. Announce(e, list, join) = f
  BY DEF Announce, joinsTo, To
<1> HIDE DEF joins
<1>3. direct \in Seq(Event)
  BY <1>1, ConcatProperties DEF Effect
<1> HIDE DEF direct
<1>4. OnlySends(e, f) /\ f.direct = direct /\ f.out = e.out /\ f.fault = e.fault
  BY <1>3 DEF Effect, OnlySends
<1> QED
  BY <1>1, <1>2, <1>4 DEF direct, joins

(* Connecting to another broker                                            *)

connectOf(e) ==
    [type |-> "Connect", broker |-> e.self, convergenceNumber |-> e.st.currentConvergence,
     members |-> e.st.members]

(* A request is a message.                                                 *)
LEMMA RequestIs ==
    ASSUME NEW e \in Effect
    PROVE  connectOf(e) \in ConnectMessage /\ connectOf(e) \in Message
BY DEF connectOf, ConnectMessage, Message, ProtocolMessage, Effect, BrokerState

(* An order with another path is the same in the rest.                     *)
LEMMA WithPath ==
    ASSUME NEW m \in ExpandMessage, NEW s
    PROVE  [m EXCEPT !.piggyback = s] =
             [type |-> "Expand", broker |-> m.broker, piggyback |-> s]
BY DEF ExpandMessage

(* An order for another broker is passed on.                               *)
LEMMA PassDownIs ==
    ASSUME NEW e \in Effect, MapOK(e.st.neighboursMap), NEW m \in ExpandMessage,
           m.piggyback # <<>>
    PROVE  LET f == handleExpandMessage(e, m)
           IN  /\ OnlySends(e, f)
               /\ orderOf(m.broker, Tail(m.piggyback)) \in ExpandMessage
               /\ SendsOver(e, f, Head(m.piggyback), orderOf(m.broker, Tail(m.piggyback)))
<1> PICK t : t = Tail(m.piggyback)
  OBVIOUS
<1>1. m.piggyback \in Seq(Brokers) /\ m.broker \in Brokers
  BY DEF ExpandMessage
<1>2. t \in Seq(Brokers) /\ Head(m.piggyback) \in Brokers
  BY <1>1, HeadTailProperties
<1>3. [m EXCEPT !.piggyback = Pop(@)] = [m EXCEPT !.piggyback = t]
  BY DEF Pop
<1>4. [m EXCEPT !.piggyback = t] = orderOf(m.broker, t)
  BY WithPath DEF orderOf
<1>5. orderOf(m.broker, t) \in ExpandMessage /\ orderOf(m.broker, t) \in Message
  BY <1>1, <1>2, OrderIs
<1> DEFINE f == Send(e, Head(m.piggyback), orderOf(m.broker, t))
<1>6. handleExpandMessage(e, m) = f
  BY <1>3, <1>4 DEF handleExpandMessage, Top
<1>7. OnlySends(e, f) /\ SendsOver(e, f, Head(m.piggyback), orderOf(m.broker, t))
  BY <1>2, <1>5, SendIs
<1> QED
  BY <1>5, <1>6, <1>7

(* An order for this broker: it asks,                                      *)
Requests(e, f, c) ==
    /\ f \in Effect /\ f.self = e.self /\ f.timers = e.timers
    /\ SendsNow(e, f, c, connectOf(e))
    /\ SameView(e.st, f.st) /\ SameQueue(e.st, f.st)
    /\ f.st.receivedMWOEs = e.st.receivedMWOEs
    /\ f.st.receivedConnects = e.st.receivedConnects
    /\ f.st.sentConnects = e.st.sentConnects \cup {c}

(* it asks the broker it is told of, if that one has not asked,            *)
LEMMA AskIs ==
    ASSUME NEW e \in Effect, NEW m \in ExpandMessage, m.piggyback = <<>>,
           ConnectsFrom(e, m.broker) = {}
    PROVE  Requests(e, handleExpandMessage(e, m), m.broker)
<1> DEFINE c == m.broker
           asked == e.st.sentConnects \cup {c}
           e1 == [e EXCEPT !.st.sentConnects = asked]
           f == SendDirect(e1, c, connectOf(e))
<1>1. c \in Brokers /\ c \in Nodes
  BY DEF ExpandMessage, Nodes
<1>2. asked \in SUBSET Brokers
  BY <1>1 DEF Effect, BrokerState
<1>3. handleExpandMessage(e, m) = f
  BY DEF handleExpandMessage, sendConnection, connectOf
<1> HIDE DEF asked
<1>4. /\ e1 \in Effect /\ e1.self = e.self /\ e1.timers = e.timers /\ e1.direct = e.direct
      /\ e1.out = e.out /\ e1.fault = e.fault /\ e1.st = [e.st EXCEPT !.sentConnects = asked]
  BY <1>2 DEF Effect, BrokerState
<1>5. /\ SameView(e.st, e1.st) /\ SameQueue(e.st, e1.st)
      /\ e1.st.receivedMWOEs = e.st.receivedMWOEs
      /\ e1.st.receivedConnects = e.st.receivedConnects /\ e1.st.sentConnects = asked
  BY <1>4 DEF Effect, BrokerState, SameView, SameQueue
<1> HIDE DEF e1
<1>6. OnlySends(e1, f) /\ SendsNow(e1, f, c, connectOf(e))
  BY <1>1, <1>4, RequestIs, SendDirectIs
<1> HIDE DEF f
<1>7. f \in Effect /\ f.self = e.self /\ f.timers = e.timers /\ f.st = e1.st
  BY <1>4, <1>6 DEF OnlySends
<1>8. SendsNow(e, f, c, connectOf(e))
  BY <1>4, <1>6 DEF SendsNow
<1> QED
  BY <1>3, <1>5, <1>7, <1>8 DEF Requests, asked

(* or it connects to the broker that has asked it, and answers.            *)
LEMMA AnswerIs ==
    ASSUME NEW e, Member(e), MapOK(e.st.neighboursMap), NEW m \in ExpandMessage,
           m.piggyback = <<>>, ConnectsFrom(e, m.broker) # {}
    PROVE  \E con \in ConnectsFrom(e, m.broker) : \E g :
             /\ con \in ConnectMessage
             /\ Merges(e, g, con.broker, con.members)
             /\ handleExpandMessage(e, m) =
                  SendDirect(findAndSendMWOE(g), m.broker, connectOf(e))
<1>1. PICK con : con = CHOOSE x \in ConnectsFrom(e, m.broker) : TRUE
  OBVIOUS
<1>2. con \in ConnectsFrom(e, m.broker)
  BY <1>1
<1>3. con \in ConnectMessage
  BY <1>2 DEF ConnectsFrom, Member, Effect, BrokerState
<1>4. Merges(e, connect(e, con), con.broker, con.members)
  BY <1>3, ConnectIs
<1>5. handleExpandMessage(e, m) =
        SendDirect(findAndSendMWOE(connect(e, con)), m.broker, connectOf(e))
  BY <1>1 DEF handleExpandMessage, sendConnection, connectOf
<1> QED
  BY <1>2, <1>3, <1>4, <1>5

(* A request that arrives is answered or kept.                             *)
Fitting(e, con) ==
    con.convergenceNumber = e.st.currentConvergence /\ con.broker \in e.st.sentConnects

(* One that fits is answered,                                              *)
LEMMA MeetIs ==
    ASSUME NEW e, Member(e), MapOK(e.st.neighboursMap), NEW con \in ConnectMessage,
           Fitting(e, con)
    PROVE  \E g : /\ Merges(e, g, con.broker, con.members)
                  /\ handleConnectionMessage(e, con) = findAndSendMWOE(g)
BY ConnectIs DEF handleConnectionMessage, Fitting

Keeps(e, f, con) ==
    /\ f \in Effect /\ f.self = e.self /\ f.timers = e.timers
    /\ SendsNothing(e, f)
    /\ SameView(e.st, f.st) /\ SameQueue(e.st, f.st)
    /\ f.st.receivedMWOEs = e.st.receivedMWOEs
    /\ f.st.sentConnects = e.st.sentConnects
    /\ f.st.receivedConnects = IF con.convergenceNumber >= e.st.currentConvergence
                               THEN e.st.receivedConnects \cup {con} ELSE e.st.receivedConnects

(* another one is kept.                                                    *)
LEMMA KeepIs ==
    ASSUME NEW e \in Effect, NEW con \in ConnectMessage, ~Fitting(e, con)
    PROVE  Keeps(e, handleConnectionMessage(e, con), con)
<1> DEFINE kept == e.st.receivedConnects \cup {con}
           f == [e EXCEPT !.st.receivedConnects = kept]
<1>1. handleConnectionMessage(e, con) =
        IF con.convergenceNumber >= e.st.currentConvergence THEN f ELSE e
  BY DEF handleConnectionMessage, Fitting
<1>2. kept \in SUBSET ConnectMessage
  BY DEF Effect, BrokerState
<1>3. Keeps(e, e, con) \/ con.convergenceNumber >= e.st.currentConvergence
  BY DEF Keeps, SendsNothing, SameView, SameQueue
<1> HIDE DEF kept
<1>4. /\ f \in Effect /\ f.self = e.self /\ f.timers = e.timers /\ f.direct = e.direct
      /\ f.out = e.out /\ (f.fault <=> e.fault) /\ f.st = [e.st EXCEPT !.receivedConnects = kept]
  BY <1>2 DEF Effect, BrokerState
<1>5. /\ SameView(e.st, f.st) /\ SameQueue(e.st, f.st)
      /\ f.st.receivedMWOEs = e.st.receivedMWOEs
      /\ f.st.sentConnects = e.st.sentConnects /\ f.st.receivedConnects = kept
  BY <1>4 DEF Effect, BrokerState, SameView, SameQueue
<1> HIDE DEF f
<1>6. con.convergenceNumber >= e.st.currentConvergence => Keeps(e, f, con)
  BY <1>4, <1>5 DEF Keeps, SendsNothing, kept
<1> QED
  BY <1>1, <1>3, <1>6

-----------------------------------------------------------------------------
(* A join that has to wait, going to sleep, and the name server's answer.  *)

(* A join that cannot be accepted yet is appended to those that wait.      *)
LEMMA QueueIs ==
    ASSUME NEW e \in Effect, NEW m \in JoinMessage, ~AcceptsJoin(e.st, m)
    PROVE  LET f == handleJoinMessage(e, m)
               q == Append(e.st.awaitingNSMsgs, m)
           IN  /\ f \in Effect /\ f.self = e.self /\ f.timers = e.timers
               /\ SendsNothing(e, f)
               /\ f.st = [e.st EXCEPT !.awaitingNSMsgs = q]
               /\ q \in Seq(JoinMessage)
<1> PICK q : q = Append(e.st.awaitingNSMsgs, m)
  OBVIOUS
<1>1. q \in Seq(JoinMessage)
  <2>1. e.st.awaitingNSMsgs \in Seq(JoinMessage)
    BY DEF Effect, BrokerState
  <2> QED
    BY <2>1, AppendProperties
<1>2. handleJoinMessage(e, m) = [e EXCEPT !.st.awaitingNSMsgs = q]
  BY DEF handleJoinMessage
<1>3. [e EXCEPT !.st.awaitingNSMsgs = q] \in Effect
  BY <1>1 DEF Effect, BrokerState
<1> QED
  BY <1>1, <1>2, <1>3 DEF Effect, SendsNothing

leaveOf(e) ==
    [type |-> "Join", requester |-> e.self,
     convergenceNo |-> e.st.currentConvergence + 1, leaving |-> TRUE]

(* sleep() announces the leave to all available brokers, or schedules      *)
(* another attempt.                                                        *)
LEMMA SleepIs ==
    ASSUME NEW e \in Effect
    PROVE  LET f == sleep(e)
               list == e.st.availableBrokers
           IN  /\ leaveOf(e) \in JoinMessage
               /\ CanSleep(e.st) =>
                    /\ OnlySends(e, f) /\ f.out = e.out /\ (f.fault <=> e.fault)
                    /\ joinsTo(list, leaveOf(e)) \in Seq(Event)
                    /\ f.direct = e.direct \o joinsTo(list, leaveOf(e))
               /\ ~CanSleep(e.st) =>
                    /\ f \in Effect /\ f.self = e.self /\ f.st = e.st
                    /\ f.direct = e.direct /\ f.out = e.out
                    /\ f.timers = e.timers \cup {sleepDelayMsg}
                    /\ (f.fault <=> e.fault \/ sleepDelayMsg \in e.timers)
<1>1. leaveOf(e) \in JoinMessage
  BY DEF Effect, BrokerState, leaveOf, JoinMessage
<1>2. e.st.availableBrokers \in Seq(Brokers)
  BY DEF Effect, BrokerState
<1>3. ASSUME CanSleep(e.st)
      PROVE  sleep(e) = Announce(e, e.st.availableBrokers, leaveOf(e))
  BY <1>3 DEF sleep, leaveOf
<1>4. ASSUME ~CanSleep(e.st)
      PROVE  sleep(e) = Schedule(e, sleepDelayMsg)
  BY <1>4 DEF sleep
<1>5. sleepDelayMsg \in Message
  BY DEF Message
<1>6. ASSUME ~CanSleep(e.st)
      PROVE  LET f == Schedule(e, sleepDelayMsg)
             IN  /\ f \in Effect /\ f.self = e.self /\ f.st = e.st
                 /\ f.direct = e.direct /\ f.out = e.out
                 /\ f.timers = e.timers \cup {sleepDelayMsg}
                 /\ (f.fault <=> e.fault \/ sleepDelayMsg \in e.timers)
  BY <1>5, ScheduleIs
<1>7. /\ OnlySends(e, Announce(e, e.st.availableBrokers, leaveOf(e)))
      /\ joinsTo(e.st.availableBrokers, leaveOf(e)) \in Seq(Event)
      /\ Announce(e, e.st.availableBrokers, leaveOf(e)).direct
           = e.direct \o joinsTo(e.st.availableBrokers, leaveOf(e))
      /\ Announce(e, e.st.availableBrokers, leaveOf(e)).out = e.out
      /\ (Announce(e, e.st.availableBrokers, leaveOf(e)).fault <=> e.fault)
  BY <1>1, <1>2, AnnounceIs
<1> QED
  BY <1>1, <1>3, <1>4, <1>6, <1>7

join(x, n, leaving) ==
    [type |-> "Join", requester |-> x, convergenceNo |-> n, leaving |-> leaving]

(* What the answer of the name server makes of a broker that wakes up.     *)
LEMMA WelcomeIs ==
    ASSUME NEW e \in Effect, NEW m \in NSMessage, m.requestedNodes # <<>>
    PROVE  LET f == handleNameServerMessage(e, m)
               call == join(e.self, m.convergenceNumber, FALSE)
           IN  /\ f \in Effect /\ f.self = e.self /\ f.out = e.out
               /\ f.timers = e.timers \cup {sleepDelayMsg}
               /\ (f.fault <=> e.fault \/ sleepDelayMsg \in e.timers)
               /\ call \in JoinMessage /\ joinsTo(m.requestedNodes, call) \in Seq(Event)
               /\ f.direct = e.direct \o joinsTo(m.requestedNodes, call)
               /\ f.st.initial /\ f.st.availableBrokers = m.requestedNodes
               /\ f.st.neighboursMap = e.st.neighboursMap /\ f.st.members = e.st.members
               /\ f.st.currentConvergence = e.st.currentConvergence
               /\ f.st.bufferedSubs = e.st.bufferedSubs
               /\ f.st.receivedMWOEs = e.st.receivedMWOEs
               /\ SameQueue(e.st, f.st) /\ SameConnects(e.st, f.st)
<1> DEFINE list == m.requestedNodes
           call == join(e.self, m.convergenceNumber, FALSE)
           e1 == [e EXCEPT !.st.availableBrokers = list, !.st.initial = TRUE]
           a == Announce(e1, list, call)
           f == Schedule(a, sleepDelayMsg)
<1>1. list \in Seq(Brokers) /\ m.convergenceNumber \in Nat
  BY DEF NSMessage
<1>2. call \in JoinMessage
  BY <1>1 DEF join, JoinMessage, Effect
<1>3. handleNameServerMessage(e, m) = f
  BY DEF handleNameServerMessage, join
<1> HIDE DEF call
<1>4. /\ e1 \in Effect /\ e1.self = e.self /\ e1.out = e.out /\ e1.timers = e.timers
      /\ e1.direct = e.direct /\ e1.fault = e.fault
      /\ e1.st = [[e.st EXCEPT !.availableBrokers = list] EXCEPT !.initial = TRUE]
  BY <1>1 DEF Effect, BrokerState
<1>5. /\ e1.st.initial /\ e1.st.availableBrokers = list
      /\ e1.st.neighboursMap = e.st.neighboursMap /\ e1.st.members = e.st.members
      /\ e1.st.currentConvergence = e.st.currentConvergence
      /\ e1.st.bufferedSubs = e.st.bufferedSubs
      /\ e1.st.receivedMWOEs = e.st.receivedMWOEs
      /\ SameQueue(e.st, e1.st) /\ SameConnects(e.st, e1.st)
  BY <1>4 DEF Effect, BrokerState, SameQueue, SameConnects
<1> HIDE DEF e1
<1>6. /\ OnlySends(e1, a) /\ joinsTo(list, call) \in Seq(Event)
      /\ a.direct = e1.direct \o joinsTo(list, call) /\ a.out = e1.out
      /\ (a.fault <=> e1.fault)
  BY <1>1, <1>2, <1>4, AnnounceIs
<1> HIDE DEF a
<1>7. sleepDelayMsg \in Message
  BY DEF Message
<1>8. /\ f \in Effect /\ f.self = a.self /\ f.st = a.st
      /\ f.direct = a.direct /\ f.out = a.out
      /\ f.timers = a.timers \cup {sleepDelayMsg}
      /\ (f.fault <=> a.fault \/ sleepDelayMsg \in a.timers)
  BY <1>6, <1>7, ScheduleIs DEF OnlySends
<1> HIDE DEF f
<1>9. f.st = e1.st
  BY <1>6, <1>8 DEF OnlySends
<1>10. /\ f \in Effect /\ f.self = e.self /\ f.out = e.out
       /\ f.timers = e.timers \cup {sleepDelayMsg}
       /\ (f.fault <=> e.fault \/ sleepDelayMsg \in e.timers)
       /\ f.direct = e.direct \o joinsTo(list, call)
  BY <1>4, <1>6, <1>8 DEF OnlySends
<1> QED
  BY <1>2, <1>3, <1>5, <1>6, <1>9, <1>10 DEF call

(* Waking up.                                                              *)
LEMMA WakeIs ==
    ASSUME NEW e \in Effect
    PROVE  LET request == [type |-> "NSRequest", requester |-> e.self]
           IN  OnlySends(e, wakeUp(e)) /\ SendsNow(e, wakeUp(e), NS, request)
<1> DEFINE request == [type |-> "NSRequest", requester |-> e.self]
<1>1. request \in Message /\ NS \in Nodes
  BY DEF Effect, Message, NSRequest, Nodes
<1>2. wakeUp(e) = SendDirect(e, NS, request)
  BY DEF wakeUp
<1> HIDE DEF request
<1>3. OnlySends(e, wakeUp(e)) /\ SendsNow(e, wakeUp(e), NS, request)
  BY <1>1, <1>2, SendDirectIs
<1> QED
  BY <1>3 DEF request

-----------------------------------------------------------------------------
(* Events without delay                                                    *)

IsControl(ev) == ev.msg.type \in {"NSRequest", "NSMessage", "Disconnection", "Join"}

IsJoin(ev) == ev.msg.type = "Join"

ControlOf(s) == {ev \in ToSet(s) : IsControl(ev)}

(* A report names an edge.                                                 *)
Named(m) == m.type = "MWOE" => m.broker # NULL

Quick(ev) ==
    ev.to \in Brokers /\ ev.msg.type \in {"MWOE", "Expand", "Connect"} /\ Named(ev.msg)

(* Joins come before everything else, and together with reports of new     *)
(* fragments and the departure they lead to only; none comes twice.        *)
QueueOK(s) ==
    /\ \A i \in DOMAIN s : IsControl(s[i]) \/ Quick(s[i])
    /\ \A i, k \in DOMAIN s :
         /\ IsControl(s[i]) /\ s[i] = s[k] => i = k
         /\ IsJoin(s[k]) => /\ s[i].msg.type \in {"Join", "MWOE", "Disconnection"}
                            /\ i < k => IsJoin(s[i])

(* Nothing is due.                                                         *)
LEMMA NoQueue == QueueOK(<<>>) /\ ControlOf(<<>>) = {}
BY DEF QueueOK, ControlOf, ToSet

(* One event is due.                                                       *)
LEMMA OneInQueue ==
    ASSUME NEW ev, IsControl(ev) \/ Quick(ev)
    PROVE  QueueOK(<<ev>>) /\ ControlOf(<<ev>>) = IF IsControl(ev) THEN {ev} ELSE {}
<1> PICK s : s = <<ev>>
  OBVIOUS
<1>1. DOMAIN s = {1} /\ s[1] = ev
  <2>1. DOMAIN <<ev>> = 1 .. 1 /\ <<ev>>[1] = ev
    OBVIOUS
  <2> QED
    BY <2>1
<1>2. ToSet(s) = {ev}
  BY <1>1 DEF ToSet
<1>3. QueueOK(s)
  <2>1. IsControl(s[1]) \/ Quick(s[1])
    BY <1>1
  <2>2. IsJoin(s[1]) => s[1].msg.type \in {"Join", "MWOE", "Disconnection"}
    BY DEF IsJoin
  <2> QED
    BY <1>1, <2>1, <2>2 DEF QueueOK
<1> QED
  BY <1>2, <1>3 DEF ControlOf

(* The first event is taken.                                               *)
LEMMA QueueTail ==
    ASSUME NEW s \in Seq(Event), s # <<>>, QueueOK(s)
    PROVE  /\ Tail(s) \in Seq(Event) /\ QueueOK(Tail(s))
           /\ ControlOf(Tail(s)) = ControlOf(s) \ {Head(s)}
           /\ Head(s) \in ToSet(s) /\ (IsControl(Head(s)) \/ Quick(Head(s)))
           /\ ~IsJoin(Head(s)) => \A ev \in ToSet(s) : ~IsJoin(ev)
           /\ \A ev \in ToSet(s) : IsJoin(ev) =>
                 \A v \in ToSet(s) : v.msg.type \in {"Join", "MWOE", "Disconnection"}
<1> PICK t : t = Tail(s)
  OBVIOUS
<1>1. /\ t \in Seq(Event) /\ Len(s) \in Nat \ {0} /\ Len(t) = Len(s) - 1 /\ Head(s) = s[1]
      /\ DOMAIN s = 1 .. Len(s) /\ DOMAIN t = 1 .. Len(s) - 1
      /\ \A i \in 1 .. Len(s) - 1 : t[i] = s[i + 1]
  BY HeadTailProperties
<1>2. \A i \in DOMAIN t : i + 1 \in DOMAIN s /\ t[i] = s[i + 1]
  BY <1>1
<1>3. QueueOK(t)
  <2>1. \A i \in DOMAIN t : IsControl(t[i]) \/ Quick(t[i])
    BY <1>2 DEF QueueOK
  <2>2. ASSUME NEW i \in DOMAIN t, NEW k \in DOMAIN t
        PROVE  /\ IsControl(t[i]) /\ t[i] = t[k] => i = k
               /\ IsJoin(t[k]) => /\ t[i].msg.type \in {"Join", "MWOE", "Disconnection"}
                                  /\ i < k => IsJoin(t[i])
    <3>1. /\ i + 1 \in DOMAIN s /\ t[i] = s[i + 1] /\ k + 1 \in DOMAIN s /\ t[k] = s[k + 1]
          /\ i \in Nat /\ k \in Nat
      BY <1>1, <1>2
    <3>2. /\ IsControl(s[i + 1]) /\ s[i + 1] = s[k + 1] => i + 1 = k + 1
          /\ IsJoin(s[k + 1]) =>
               /\ s[i + 1].msg.type \in {"Join", "MWOE", "Disconnection"}
               /\ i + 1 < k + 1 => IsJoin(s[i + 1])
      BY <3>1 DEF QueueOK
    <3> QED
      BY <3>1, <3>2
  <2> QED
    BY <2>1, <2>2 DEF QueueOK
<1>4. ToSet(s) = {Head(s)} \cup ToSet(t)
  <2>1. ToSet(t) \subseteq ToSet(s) /\ Head(s) \in ToSet(s)
    BY <1>1 DEF ToSet
  <2>2. ASSUME NEW i \in DOMAIN s, i # 1
        PROVE  s[i] \in ToSet(t)
    <3>1. i - 1 \in DOMAIN t /\ t[i - 1] = s[i]
      BY <1>1, <2>2
    <3> QED
      BY <3>1 DEF ToSet
  <2> QED
    BY <1>1, <2>1, <2>2 DEF ToSet
<1>5. IsControl(Head(s)) => Head(s) \notin ToSet(t)
  BY <1>1 DEF QueueOK, ToSet
<1>6. ControlOf(t) = ControlOf(s) \ {Head(s)}
  BY <1>4, <1>5 DEF ControlOf
<1>7. IsControl(Head(s)) \/ Quick(Head(s))
  BY <1>1 DEF QueueOK
<1>8. ~IsJoin(Head(s)) => \A ev \in ToSet(s) : ~IsJoin(ev)
  <2> SUFFICES ASSUME NEW k \in DOMAIN s, IsJoin(s[k]), ~IsJoin(s[1])
               PROVE  FALSE
    BY <1>1 DEF ToSet
  <2>1. 1 \in DOMAIN s /\ k # 1 /\ 1 < k
    BY <1>1
  <2> QED
    BY <2>1 DEF QueueOK
<1>9. \A ev \in ToSet(s) : IsJoin(ev) =>
         \A v \in ToSet(s) : v.msg.type \in {"Join", "MWOE", "Disconnection"}
  BY DEF QueueOK, ToSet
<1> QED
  BY <1>1, <1>3, <1>4, <1>6, <1>7, <1>8, <1>9

(* Reports and departures may follow anything; other messages follow if no *)
(* join is due.                                                            *)
LEMMA QueueGrows ==
    ASSUME NEW s \in Seq(Event), NEW t \in Seq(Event), QueueOK(s), QueueOK(t),
           ControlOf(s) \cap ControlOf(t) = {},
           \A ev \in ToSet(t) :
              /\ ~IsJoin(ev)
              /\ \/ ev.msg.type \in {"MWOE", "Disconnection"}
                 \/ \A v \in ToSet(s) : ~IsJoin(v)
    PROVE  /\ s \o t \in Seq(Event) /\ QueueOK(s \o t)
           /\ ControlOf(s \o t) = ControlOf(s) \cup ControlOf(t)
<1> PICK u : u = s \o t
  OBVIOUS
<1>1. /\ u \in Seq(Event) /\ Len(s) \in Nat /\ Len(t) \in Nat
      /\ Len(u) = Len(s) + Len(t)
      /\ \A i \in 1 .. Len(s) + Len(t) : u[i] = IF i <= Len(s) THEN s[i] ELSE t[i - Len(s)]
  BY ConcatProperties
<1>2. /\ DOMAIN s = 1 .. Len(s) /\ DOMAIN t = 1 .. Len(t)
      /\ DOMAIN u = 1 .. Len(s) + Len(t)
  BY <1>1
<1>3. ControlOf(u) = ControlOf(s) \cup ControlOf(t)
  <2>1. ToSet(u) = ToSet(s) \cup ToSet(t)
    BY ConcatElements
  <2> QED
    BY <2>1 DEF ControlOf
<1>4. \A i \in DOMAIN u :
         \/ i \in DOMAIN s /\ u[i] = s[i]
         \/ i > Len(s) /\ i - Len(s) \in DOMAIN t /\ u[i] = t[i - Len(s)]
  BY <1>1, <1>2
<1>5. \A i \in DOMAIN u : IsControl(u[i]) \/ Quick(u[i])
  BY <1>4 DEF QueueOK
<1>6. ASSUME NEW i \in DOMAIN u, NEW k \in DOMAIN u
      PROVE  /\ IsControl(u[i]) /\ u[i] = u[k] => i = k
             /\ IsJoin(u[k]) => /\ u[i].msg.type \in {"Join", "MWOE", "Disconnection"}
                                /\ i < k => IsJoin(u[i])
  <2>1. CASE i \in DOMAIN s /\ u[i] = s[i] /\ k \in DOMAIN s /\ u[k] = s[k]
    BY <2>1 DEF QueueOK
  <2>2. CASE /\ i > Len(s) /\ i - Len(s) \in DOMAIN t /\ u[i] = t[i - Len(s)]
             /\ k > Len(s) /\ k - Len(s) \in DOMAIN t /\ u[k] = t[k - Len(s)]
    <3>1. i \in Nat /\ k \in Nat
      BY <1>1, <1>2
    <3>2. IsControl(u[i]) /\ u[i] = u[k] => i - Len(s) = k - Len(s)
      BY <2>2 DEF QueueOK
    <3>3. ~IsJoin(u[k])
      BY <2>2 DEF ToSet
    <3> QED
      BY <1>1, <3>1, <3>2, <3>3
  <2>3. CASE i \in DOMAIN s /\ u[i] = s[i] /\ k - Len(s) \in DOMAIN t /\ u[k] = t[k - Len(s)]
    <3>1. u[i] \in ToSet(s) /\ u[k] \in ToSet(t) /\ ~IsJoin(u[k])
      BY <2>3 DEF ToSet
    <3>2. IsControl(u[i]) => u[i] # u[k]
      BY <3>1 DEF ControlOf
    <3> QED
      BY <3>1, <3>2
  <2>4. CASE i > Len(s) /\ i - Len(s) \in DOMAIN t /\ u[i] = t[i - Len(s)]
             /\ k \in DOMAIN s /\ u[k] = s[k]
    <3>1. u[k] \in ToSet(s) /\ u[i] \in ToSet(t)
      BY <2>4 DEF ToSet
    <3>2. IsControl(u[i]) => u[i] # u[k]
      BY <3>1 DEF ControlOf
    <3>3. IsJoin(u[k]) => u[i].msg.type \in {"MWOE", "Disconnection"}
      BY <3>1
    <3>4. ~(i < k)
      BY <1>1, <1>2, <2>4
    <3> QED
      BY <3>2, <3>3, <3>4
  <2> QED
    BY <1>4, <2>1, <2>2, <2>3, <2>4
<1> QED
  BY <1>1, <1>3, <1>5, <1>6 DEF QueueOK

Announced(D, m) == {To(b, m) : b \in D}

(* The announcement of a join is one join for each broker.                 *)
LEMMA JoinsInQueue ==
    ASSUME NEW list \in Seq(Brokers), Distinct(list), NEW m \in JoinMessage
    PROVE  QueueOK(joinsTo(list, m)) /\ ControlOf(joinsTo(list, m)) = Announced(ToSet(list), m)
<1> DEFINE s == joinsTo(list, m)
<1>1. DOMAIN s = DOMAIN list /\ \A i \in DOMAIN s : s[i] = To(list[i], m)
  BY DEF joinsTo
<1> HIDE DEF s
<1>2. m.type = "Join"
  BY DEF JoinMessage
<1>3. \A b : To(b, m).msg.type = "Join" /\ To(b, m).to = b
  BY <1>2 DEF To
<1>4. \A i \in DOMAIN s : s[i].msg.type = "Join" /\ s[i].to = list[i]
  BY <1>1, <1>3
<1>5. QueueOK(s)
  BY <1>1, <1>4 DEF QueueOK, IsControl, IsJoin, Distinct
<1>6. ControlOf(s) = Announced(ToSet(list), m)
  <2>1. ControlOf(s) = ToSet(s)
    BY <1>4 DEF ControlOf, IsControl, ToSet
  <2>2. ToSet(s) = Announced(ToSet(list), m)
    BY <1>1 DEF ToSet, Announced
  <2> QED
    BY <2>1, <2>2
<1> QED
  BY <1>5, <1>6 DEF s

(* What is due without delay matters to who takes part only as far as it   *)
(* is about registering, joining and leaving.                              *)
Undisturbed(C, b) ==
    \A ev \in C :
        /\ ev.msg.type = "NSMessage" => ev.to # b
        /\ ev.msg.type = "Disconnection" => ev.msg.requester # b
        /\ ev.msg.type = "Join" => ~(ev.msg.leaving /\ ev.msg.requester = b)

(* Taking part depends on the control messages that are due,               *)
LEMMA UndisturbedIs ==
    ASSUME NEW s, NEW b
    PROVE  (\A i \in DOMAIN s :
              LET m == s[i].msg
              IN  /\ m.type = "NSMessage" => s[i].to # b
                  /\ m.type = "Disconnection" => m.requester # b
                  /\ m.type = "Join" => ~(m.leaving /\ m.requester = b))
             <=> Undisturbed(ControlOf(s), b)
BY DEF Undisturbed, ControlOf, IsControl, ToSet

Control == ControlOf(now)

(* before a step,                                                          *)
LEMMA AwakeIs ==
    ASSUME NEW b
    PROVE  Awake(b) <=> /\ b \in RegisteredBrokers /\ ~broker[b].initial
                        /\ Undisturbed(Control, b)
BY UndisturbedIs DEF Awake, Control

(* and after it.                                                           *)
LEMMA AwakeNextIs ==
    ASSUME NEW b
    PROVE  Awake(b)' <=> /\ b \in RegisteredBrokers' /\ ~broker'[b].initial
                         /\ Undisturbed(Control', b)
BY UndisturbedIs DEF Awake, Control

-----------------------------------------------------------------------------
(* The invariant: every broker goes through the same changes of the name   *)
(* server's list in the same order, and knows, at its own pace, the lists  *)
(* they lead to.                                                           *)

(* A history: H[n] are the brokers that are registered after change n.     *)
Histories == [Nat -> SUBSET Brokers]

(* Join message m is the change that follows change n.                     *)
IsChange(H, m, n) ==
    /\ m.convergenceNo = n + 1
    /\ IF m.leaving
       THEN m.requester \in H[n] /\ H[n + 1] = H[n] \ {m.requester}
       ELSE m.requester \notin H[n] /\ H[n + 1] = H[n] \cup {m.requester}

TimerJoins(ts) == {m \in ts : m.type = "Join"}

Held(ts) == IF TimerJoins(ts) = {} THEN 0 ELSE 1

TypesOf(ts) == {m.type : m \in ts}

ListOK(H, st) ==
    /\ Distinct(st.availableBrokers)
    /\ ToSet(st.availableBrokers) = H[st.currentConvergence]

(* The joins a broker holds are the changes that follow its convergence;   *)
(* k more are due, and the last is change L.                               *)
Waiting(H, st, ts, L, k) ==
    LET q == st.awaitingNSMsgs
        n == st.currentConvergence + Held(ts)
    IN  /\ \A m \in TimerJoins(ts) : IsChange(H, m, st.currentConvergence)
        /\ \A i \in DOMAIN q : IsChange(H, q[i], n + i - 1)
        /\ n + Len(q) + k = L

(* A broker that is registered.                                            *)
Runs(H, b, st, ts, L, k) ==
    /\ ~st.initial /\ ListOK(H, st) /\ MapOK(st.neighboursMap) /\ st.bufferedSubs = {}
    /\ TypesOf(ts) \subseteq {"Sleep", "Join"}
    /\ Waiting(H, st, ts, L, k)
    /\ \A n \in st.currentConvergence .. L : b \in H[n]
    /\ st.componentId # b => st.leaderHop \in NeighbourBrokers(st.neighboursMap)

UpState(H, b, st, ts, L, k) ==
    /\ Runs(H, b, st, ts, L, k)
    /\ st.converged =>
         /\ Done(st)
         /\ st.awaitingNSMsgs # <<>> => TimerJoins(ts) # {}
    /\ ~st.converged => TimerJoins(ts) = {}

(* A broker that sleeps, or that is about to join or has just left.        *)
DownState(H, b, st, ts, L, T) ==
    /\ st.converged /\ st.awaitingNSMsgs = <<>>
    /\ st.neighboursMap = NoNeighbours /\ st.bufferedSubs = {}
    /\ TypesOf(ts) \subseteq T
    /\ st.currentConvergence <= L
    /\ ~st.initial => ListOK(H, st) /\ Done(st) /\ b \in H[st.currentConvergence]
    /\ \A n \in st.currentConvergence + 1 .. L : b \notin H[n]

Up(H, b, L, k) == UpState(H, b, broker[b], timers[b], L, k)

Down(H, b, L, T) == DownState(H, b, broker[b], timers[b], L, T)

(* The brokers other than x, when change L is due at those of D.           *)
Others(H, x, L, D) ==
    \A b \in Brokers \ {x} :
       IF b \in RegisteredBrokers THEN Up(H, b, L, IF b \in D THEN 1 ELSE 0)
       ELSE Down(H, b, L, {"WakeUp"})

(* The phases of a change: none is under way; broker x asks the name       *)
(* server; it is answered; its join is due at the brokers of D; x leaves,  *)
(* and this is due at the brokers of D.                                    *)
Calm(H) == Control = {} /\ Others(H, NULL, convergenceNumber - 1, {})

Requesting(H, x) ==
    /\ Control = {To(NS, [type |-> "NSRequest", requester |-> x])} /\ Len(now) = 1
    /\ x \notin RegisteredBrokers
    /\ Others(H, x, convergenceNumber - 1, {}) /\ Down(H, x, convergenceNumber - 1, {})

answer(list, n) == [type |-> "NSMessage", requestedNodes |-> list, convergenceNumber |-> n]

Answering(H, x) ==
    /\ Control = {To(x, answer(brokerList, convergenceNumber - 1))} /\ Len(now) = 1
    /\ x \in RegisteredBrokers /\ convergenceNumber > 1
    /\ H[convergenceNumber - 2] = RegisteredBrokers \ {x}
    /\ Others(H, x, convergenceNumber - 1, RegisteredBrokers)
    /\ Down(H, x, convergenceNumber - 2, {})

Joining(H, x, D) ==
    /\ Control = Announced(D, join(x, convergenceNumber - 1, FALSE))
    /\ D # {} /\ D \subseteq RegisteredBrokers
    /\ x \in RegisteredBrokers /\ convergenceNumber > 1
    /\ H[convergenceNumber - 2] = RegisteredBrokers \ {x}
    /\ Others(H, x, convergenceNumber - 1, D)
    /\ x \notin D => Up(H, x, convergenceNumber - 1, 0)
    /\ x \in D =>
         /\ Down(H, x, convergenceNumber - 2, {"Sleep"})
         /\ broker[x].initial /\ broker[x].availableBrokers = brokerList

departure(x) == To(NS, [type |-> "Disconnection", requester |-> x])

Leaving(H, x, D) ==
    /\ Control = Announced(D, join(x, convergenceNumber, TRUE))
                   \cup (IF x \in D THEN {} ELSE {departure(x)})
    /\ D \subseteq RegisteredBrokers
    /\ x \in RegisteredBrokers /\ RegisteredBrokers # {x}
    /\ H[convergenceNumber] = RegisteredBrokers \ {x}
    /\ Others(H, x, convergenceNumber, D)
    /\ x \in D =>
         /\ Up(H, x, convergenceNumber - 1, 0) /\ sleepDelayMsg \notin timers[x]
         /\ broker[x].converged /\ Round(x) = convergenceNumber - 1
    /\ x \notin D => Down(H, x, convergenceNumber, {"WakeUp"})

Phase(H) ==
    \/ Calm(H)
    \/ \E x \in Brokers :
         \/ Requesting(H, x) \/ Answering(H, x)
         \/ \E D \in SUBSET Brokers : Joining(H, x, D) \/ Leaving(H, x, D)

HistoryOK(H) ==
    /\ H \in Histories
    /\ H[0] = {} /\ convergenceNumber > 0
    /\ H[convergenceNumber - 1] = RegisteredBrokers
    /\ Distinct(brokerList)

(* No broker goes on from a convergence before all the others it builds    *)
(* over have begun it.                                                     *)
Through(b, n) == n < Round(b) \/ (n = Round(b) /\ ~Awake(b))

RoundsOK(H) ==
    \A b \in Brokers : \A n \in 0 .. Round(b) :
       Through(b, n) /\ b \in H[n] => \A x \in H[n] : Round(x) >= n

OnChannel(s, m) ==
    m.type \in {"MWOE", "Expand", "Update"} /\ Named(m) /\ (m.type = "Update" => m.sender = s)

ChannelsOK ==
    /\ timers[NS] = {}
    /\ \A s, d \in Nodes : chan[s][d] # <<>> =>
         s \in Brokers /\ d \in Brokers /\ \A m \in ToSet(chan[s][d]) : OnChannel(s, m)

JoinsOK(H) ==
    HistoryOK(H) /\ Phase(H) /\ QueueOK(now) /\ RoundsOK(H) /\ ChannelsOK /\ NoEmptyReport

-----------------------------------------------------------------------------
(* What the fragments say of the brokers                                   *)

(* A broker that takes part is a member of its fragment; it is done when   *)
(* its members are all available brokers, and none of these is in an       *)
(* earlier convergence then.                                               *)
LEMMA OwnFacts ==
    ASSUME FragmentsHold, NEW b \in Brokers, Awake(b)
    PROVE  /\ b \in Members(b) /\ Members(b) \subseteq Available(b)
           /\ Linked(b) \subseteq Members(b) \ {b}
           /\ Members(b) = Available(b) => \A d \in Available(b) : Round(d) >= Round(b)
           /\ \A c \in Brokers :
                 Awake(c) /\ Round(c) = Round(b) => Available(c) = Available(b)
<1>1. Frag!Own
  BY DEF FragmentsHold, Frag!FragmentsInv
<1>2. /\ (TakingPart[b] <=> Awake(b)) /\ KnownMembers[b] = Members(b)
      /\ BuildsOver[b] = Available(b) /\ LinkedTo[b] = Linked(b)
      /\ \A c \in Brokers : Rounds[c] = Round(c)
  BY DEF TakingPart, KnownMembers, BuildsOver, LinkedTo, Rounds
<1>3. \A c \in Brokers : (TakingPart[c] <=> Awake(c)) /\ BuildsOver[c] = Available(c)
  BY DEF TakingPart, BuildsOver
<1>4. /\ b \in Members(b) /\ Members(b) \subseteq Available(b)
      /\ Linked(b) \subseteq Members(b) \ {b}
      /\ \A c \in Available(b) : \A d \in Frag!Knows(c, b) : Rounds[d] >= Rounds[b]
      /\ \A c \in Brokers : Frag!Peers(b, c) => BuildsOver[c] = BuildsOver[b]
  BY <1>1, <1>2 DEF Frag!Own
<1>5. Frag!Knows(b, b) = Members(b)
  BY <1>2 DEF Frag!Knows
<1>6. \A c \in Brokers : Awake(c) /\ Round(c) = Round(b) => Frag!Peers(b, c)
  BY <1>2, <1>3 DEF Frag!Peers
<1>7. FragmentsHold => Members(b) \subseteq Brokers
  BY <1>2 DEF FragmentsHold, Frag!FragmentsInv, Frag!FragmentsTypeOK, Frag!Set
<1> QED
  BY <1>2, <1>3, <1>4, <1>5, <1>6, <1>7

(* An update under way tells its receiver, who takes part, of members it   *)
(* does not know of.                                                       *)
LEMMA UpdateFacts ==
    ASSUME FragmentsHold, NEW s \in Brokers, NEW d \in Brokers,
           NEW m \in ToSet(chan[s][d]), m.type = "Update"
    PROVE  /\ Awake(d) /\ s \in Linked(d)
           /\ m.members \subseteq Available(d) /\ ~(m.members \subseteq Members(d))
           /\ Members(d) # Available(d)
<1> DEFINE u == Telling(s, d, m)
<1>1. u \in UnderWay
  <2>1. m \in Under("Update", s, d)
    BY DEF Under
  <2>2. u \in {Telling(s, d, x) : x \in Under("Update", s, d)}
    BY <2>1
  <2> DEFINE told(x, y) == {Telling(x, y, v) : v \in Under("Update", x, y)}
  <2>3. UnderWay = UNION {told(x, y) : x \in Brokers, y \in Brokers}
    BY DEF UnderWay
  <2>4. u \in told(s, d)
    BY <2>2
  <2> HIDE DEF u, told
  <2> QED
    BY <2>3, <2>4
<1>2. u.from = s /\ u.to = d /\ u.members = m.members
  BY DEF Telling
<1> HIDE DEF u
<1>3. Frag!UpdatesOK
  BY DEF FragmentsHold, Frag!FragmentsInv
<1>4. /\ TakingPart[d] /\ s \in LinkedTo[d]
      /\ KnownMembers[d] \subseteq u.members /\ KnownMembers[d] # u.members
      /\ u.members \subseteq BuildsOver[d]
  BY <1>1, <1>2, <1>3 DEF Frag!UpdatesOK
<1> QED
  BY <1>2, <1>4 DEF TakingPart, LinkedTo, KnownMembers, BuildsOver

(* A broker that is told to expand takes part, and is not done.            *)
LEMMA ExpandFacts ==
    ASSUME FragmentsHold, TypeOK, NEW b \in Brokers, OutExpands(b) # {}
    PROVE  /\ Awake(b) /\ Members(b) # Available(b)
           /\ ToldToAsk[b] \in Available(b) \ Members(b)
<1>3. OutExpands(b) \subseteq ExpandMessage
  <2>1. now \in Seq(Event)
    BY DEF TypeOK, KernelTypeOK
  <2>2. Due("Expand", b) \subseteq ExpandMessage
    <3> SUFFICES ASSUME NEW j \in DOMAIN now, now[j].msg.type = "Expand"
                 PROVE  now[j].msg \in ExpandMessage
      BY DEF Due
    <3>1. now[j] \in Event
      BY <2>1
    <3>2. now[j].msg \in Message
      BY <3>1 DEF Event
    <3> QED
      BY <3>2, MessageTypes
  <2>3. ASSUME NEW s \in Brokers, NEW d \in Brokers
        PROVE  Under("Expand", s, d) \subseteq ExpandMessage
    <3>1. chan[s][d] \in Seq(Message)
      BY DEF TypeOK, KernelTypeOK, Nodes
    <3> QED
      BY <3>1, ElementsType, MessageTypes DEF Under
  <2> QED
    BY <2>2, <2>3 DEF OutExpands
<1>4. ToldToAsk[b] \in Brokers
  BY <1>3 DEF ToldToAsk, About, ExpandMessage
<1>5. ToldToAsk[b] # NULL
  BY <1>4, NodesAssumption
<1>6. Frag!ChosenOK
  BY DEF FragmentsHold, Frag!FragmentsInv
<1>7. TakingPart[b] /\ ToldToAsk[b] \in BuildsOver[b] \ KnownMembers[b]
  BY <1>5, <1>6 DEF Frag!ChosenOK, Frag!Shortest
<1> QED
  BY <1>7 DEF TakingPart, BuildsOver, KnownMembers

(* A request that a broker has sent is in the fragments' view.             *)
LEMMA DueRequest ==
    ASSUME NEW b \in Brokers, NEW i \in DOMAIN now, now[i].to = b,
           now[i].msg.type = "Connect"
    PROVE  Asking(b, now[i].msg) \in Asks
BY DEF Asks, Due

(* A request that fits comes from a broker in the same convergence that is *)
(* not a member yet.                                                       *)
LEMMA ConnectFacts ==
    ASSUME FragmentsHold, TypeOK, NEW b \in Brokers, NEW i \in DOMAIN now, now[i].to = b,
           now[i].msg.type = "Connect",
           now[i].msg.convergenceNumber = Round(b),
           now[i].msg.broker \in broker[b].sentConnects
    PROVE  LET con == now[i].msg
           IN  /\ Awake(b) /\ con.broker \in Available(b) \ Members(b)
               /\ con.broker \in con.members /\ con.members \subseteq Available(b)
<1> DEFINE con == now[i].msg
           m == Asking(b, con)
           c == con.broker
<1>0. con \in ConnectMessage
  <2>1. now[i] \in Event
    BY DEF TypeOK, KernelTypeOK
  <2> QED
    BY <2>1, MessageTypes DEF Event
<1>1. m \in Asks
  BY DueRequest
<1>2. /\ m.from = c /\ m.to = b /\ m.number = con.convergenceNumber /\ m.members = con.members
      /\ c \in Brokers
  BY <1>0 DEF Asking, ConnectMessage
<1> HIDE DEF m
<1>3. Frag!SentOK /\ Frag!Own
  BY DEF FragmentsHold, Frag!FragmentsInv
<1>4. /\ (TakingPart[b] <=> Awake(b)) /\ (TakingPart[c] <=> Awake(c))
      /\ KnownMembers[b] = Members(b) /\ KnownMembers[c] = Members(c)
      /\ BuildsOver[b] = Available(b) /\ BuildsOver[c] = Available(c)
      /\ Rounds[b] = Round(b) /\ Rounds[c] = Round(c)
      /\ Asked[b] = broker[b].sentConnects
  BY <1>2 DEF TakingPart, KnownMembers, BuildsOver, Rounds, Asked
<1>5. c # b /\ (Frag!Open(m) \/ (Frag!HalfBy(m, c, b) /\ Frag!Pending(b, c)))
  BY <1>1, <1>2, <1>3 DEF Frag!SentOK
<1>6. Awake(c) => c \in Members(c) /\ Members(c) \subseteq Available(c)
  BY <1>2, OwnFacts
<1>7. CASE Frag!HalfBy(m, c, b)
  <2>1. /\ Frag!Peers(c, b)
        /\ Members(c) = Members(b) \cup con.members
        /\ c \in con.members /\ con.members \cap Members(b) = {}
    BY <1>2, <1>4, <1>7 DEF Frag!HalfBy
  <2>2. Awake(b) /\ Awake(c) /\ Round(b) = Round(c)
    BY <1>4, <2>1 DEF Frag!Peers
  <2>3. Available(c) = Available(b)
    BY <1>2, <2>2, OwnFacts
  <2> QED
    BY <1>2, <1>6, <2>1, <2>2, <2>3
<1>8. CASE Frag!Open(m)
  <2>1. /\ Frag!Pending(c, b) /\ m = Frag!request(c, b)
        /\ Frag!Peers(c, b) => c \notin Members(b)
    BY <1>2, <1>4, <1>8 DEF Frag!Open
  <2>2. con.convergenceNumber = Round(c) /\ con.members = Members(c) /\ Awake(c)
    BY <1>2, <1>4, <2>1 DEF Frag!request, Frag!Pending
  <2>3. Awake(b)
    <3> SUFFICES ASSUME ~Awake(b) PROVE FALSE
      OBVIOUS
    <3>1. Frag!PendingOK
      BY DEF FragmentsHold, Frag!FragmentsInv
    <3>2. Frag!Shortest(c, b) /\ (~Frag!Surpassed(c) \/ Frag!Half(b, c))
      BY <1>2, <2>1, <3>1 DEF Frag!PendingOK
    <3>3. ~Frag!Half(b, c)
      BY <1>4 DEF Frag!Half, Frag!HalfBy, Frag!Peers
    <3>4. b \in Available(c) \ Members(c)
      BY <1>4, <3>2 DEF Frag!Shortest
    <3>0. Round(b) \in Nat /\ Round(c) \in Nat
      BY <1>2 DEF TypeOK, BrokerState, Round
    <3>5. Frag!Knows(b, c) = Available(c)
      BY <3>0, <1>4, <2>2, <3>4 DEF Frag!Knows
    <3>6. Frag!Surpassed(c)
      BY <1>4, <1>6, <2>2, <3>4, <3>5 DEF Frag!Surpassed
    <3> QED
      BY <3>2, <3>3, <3>6
  <2>4. Frag!Peers(c, b)
    BY <1>4, <2>2, <2>3 DEF Frag!Peers
  <2>5. Available(c) = Available(b)
    BY <1>2, <2>2, <2>3, OwnFacts
  <2> QED
    BY <1>2, <1>6, <2>1, <2>2, <2>3, <2>4, <2>5
<1> QED
  BY <1>2, <1>5, <1>7, <1>8

(* A broker that requests a link after it has been told to expand asks the *)
(* broker it was told of.                                                  *)
LEMMA ToldIs ==
    ASSUME FragmentsHold, Frag!FragmentsNext \/ UNCHANGED Frag!fragments,
           NEW b \in Brokers, NEW c \in Brokers, ToldToAsk[b] # NULL,
           [from |-> b, to |-> c, number |-> Round(b), members |-> Members(b)] \in Asks'
    PROVE  c = ToldToAsk[b]
<1> DEFINE r == [from |-> b, to |-> c, number |-> Round(b), members |-> Members(b)]
<1>1. r.from = b /\ r.to = c /\ r.number = Round(b) /\ r.members = Members(b)
  OBVIOUS
<1>2. /\ (TakingPart[b] <=> Awake(b)) /\ (TakingPart[c] <=> Awake(c))
      /\ KnownMembers[b] = Members(b) /\ KnownMembers[c] = Members(c)
      /\ \A x \in Brokers : Rounds[x] = Round(x) /\ KnownMembers[x] = Members(x)
  BY DEF TakingPart, KnownMembers, Rounds
<1>3. r \in Asks'
  OBVIOUS
<1>3a. \A x, y \in Brokers : r = Frag!request(x, y) => x = b /\ y = c
  BY DEF Frag!request
<1> HIDE DEF r
<1>4. r \notin Asks
  <2> SUFFICES ASSUME r \in Asks PROVE FALSE
    OBVIOUS
  <2>1. Frag!SentOK /\ Frag!PendingOK
    BY DEF FragmentsHold, Frag!FragmentsInv
  <2>2. Frag!Open(r) \/ Frag!HalfBy(r, b, c)
    BY <1>1, <2>1 DEF Frag!SentOK
  <2>3. CASE Frag!Open(r)
    <3>1. Frag!Pending(b, c)
      BY <1>1, <2>3 DEF Frag!Open
    <3>2. \A d \in Members(b) : ToldToAsk[d] = NULL
      BY <1>2, <2>1, <3>1 DEF Frag!PendingOK
    <3>3. Awake(b)
      BY <1>2, <3>1 DEF Frag!Pending
    <3> QED
      BY <3>2, <3>3, OwnFacts
  <2>4. CASE Frag!HalfBy(r, b, c)
    <3>1. /\ Frag!Peers(b, c) /\ Members(b) = Members(c) \cup Members(b)
          /\ Members(b) \cap Members(c) = {}
      BY <1>1, <1>2, <2>4 DEF Frag!HalfBy
    <3>2. c \in Members(c)
      BY <1>2, <3>1, OwnFacts DEF Frag!Peers
    <3> QED
      BY <3>1, <3>2
  <2> QED
    BY <2>2, <2>3, <2>4
<1>5. Asks' # Asks
  BY <1>3, <1>4
<1>6. Frag!FragmentsNext
  BY <1>5 DEF Frag!fragments
<1>7. \E x \in Brokers : Frag!Ask(x) \/ Frag!Answer(x)
  <2>1. \A x \in Brokers :
           (\E V \in SUBSET Brokers : Frag!Start(x, V)) \/ Frag!Stop(x) \/ Frag!Rest(x) \/ Frag!Choose(x)
              => Asks' = Asks
    BY DEF Frag!Start, Frag!Stop, Frag!Rest, Frag!Choose
  <2>2. \A m : Frag!Meet(m) \/ Frag!Keep(m) => Asks' = Asks \ {m}
    BY DEF Frag!Meet, Frag!Keep
  <2>3. \A u : Frag!Learn(u) => Asks' = Asks
    BY DEF Frag!Learn
  <2> QED
    BY <1>3, <1>4, <1>6, <2>1, <2>2, <2>3 DEF Frag!FragmentsNext
<1>8. PICK x \in Brokers : Frag!Ask(x) \/ Frag!Answer(x)
  BY <1>7
<1>9. Asks' = Asks \cup {Frag!request(x, ToldToAsk[x])} /\ ToldToAsk[x] # NULL
  BY <1>8 DEF Frag!Ask, Frag!Answer
<1>10. ToldToAsk[x] \in Brokers
  BY <1>9 DEF FragmentsHold, Frag!FragmentsInv, Frag!FragmentsTypeOK
<1>11. r = Frag!request(x, ToldToAsk[x])
  BY <1>3, <1>4, <1>9
<1>12. x = b /\ ToldToAsk[x] = c
  BY <1>3a, <1>10, <1>11
<1> QED
  BY <1>12

(* A request that a broker can answer is one of a broker outside of its    *)
(* fragment, in the same convergence.                                      *)
Joinable(b, con) ==
    /\ Awake(b) /\ con.broker \in Available(b) \ Members(b)
    /\ con.broker \in con.members /\ con.members \subseteq Available(b)

(* So is the request of the broker that this one is told to ask.           *)
LEMMA AnswerFacts ==
    ASSUME FragmentsHold, NEW b \in Brokers,
           ToldToAsk[b] # NULL,
           NEW con \in broker[b].receivedConnects,
           con.broker = ToldToAsk[b], con.convergenceNumber = Round(b)
    PROVE  Joinable(b, con)
<1> DEFINE c == con.broker
           k == Asking(b, con)
<1>1. k.from = c /\ k.to = b /\ k.number = Round(b) /\ k.members = con.members
  BY DEF Asking
<1>2. k \in KeptForLater[b]
  BY DEF KeptForLater
<1> HIDE DEF k
<1>3. Frag!ReceivedOK /\ Frag!ChosenOK
  BY DEF FragmentsHold, Frag!FragmentsInv
<1>4. c \in Brokers
  BY DEF FragmentsHold, Frag!FragmentsInv, Frag!FragmentsTypeOK
<1> HIDE DEF c
<1>5. /\ (TakingPart[b] <=> Awake(b)) /\ (TakingPart[c] <=> Awake(c))
      /\ KnownMembers[b] = Members(b) /\ KnownMembers[c] = Members(c)
      /\ BuildsOver[b] = Available(b) /\ BuildsOver[c] = Available(c)
      /\ Rounds[b] = Round(b) /\ Rounds[c] = Round(c)
  BY <1>4 DEF TakingPart, KnownMembers, BuildsOver, Rounds
<1>6. Awake(b) /\ c \in Available(b) \ Members(b)
  BY <1>3, <1>5 DEF Frag!ChosenOK, Frag!Shortest, c
<1>7. Frag!Pending(c, b) /\ k = Frag!request(c, b)
  BY <1>1, <1>2, <1>3, <1>5, <1>6 DEF Frag!ReceivedOK
<1>8. con.members = Members(c) /\ Round(c) = Round(b) /\ Awake(c)
  BY <1>1, <1>5, <1>7 DEF Frag!request, Frag!Pending
<1>9. c \in Members(c) /\ Members(c) \subseteq Available(c) /\ Available(c) = Available(b)
  BY <1>4, <1>6, <1>8, OwnFacts
<1> QED
  BY <1>6, <1>8, <1>9 DEF Joinable, c

-----------------------------------------------------------------------------
(* Histories and the joins that wait                                       *)

(* There is only one change that follows another.                          *)
LEMMA ChangeIsOne ==
    ASSUME NEW H \in Histories, NEW n \in Nat, NEW m \in JoinMessage, NEW k \in JoinMessage,
           IsChange(H, m, n), IsChange(H, k, n)
    PROVE  m = k
<1>1. m.leaving \in BOOLEAN /\ k.leaving \in BOOLEAN /\ H[n] \in SUBSET Brokers
  BY DEF JoinMessage, Histories
<1>2. m.convergenceNo = k.convergenceNo
  BY DEF IsChange
<1>3. m.leaving <=> k.leaving
  BY <1>1 DEF IsChange
<1>4. m.requester = k.requester
  BY <1>1, <1>3 DEF IsChange
<1>5. m.leaving = k.leaving
  BY <1>1, <1>3
<1> QED
  BY <1>2, <1>4, <1>5 DEF JoinMessage

(* A broker's state and timers fit all histories that are the same so far. *)
Same(H, G, L) == \A n \in 0 .. L : G[n] = H[n]

(* For one that is up,                                                     *)
LEMMA SameUp ==
    ASSUME NEW H \in Histories, NEW G \in Histories, NEW b, NEW st \in BrokerState,
           NEW ts, NEW L \in Nat, NEW k \in Nat,
           Same(H, G, L), UpState(H, b, st, ts, L, k)
    PROVE  /\ UpState(G, b, st, ts, L, k)
           /\ st.currentConvergence \in 0 .. L
<1> DEFINE c == st.currentConvergence
           q == st.awaitingNSMsgs
           h == Held(ts)
<1>1. c \in Nat /\ q \in Seq(JoinMessage) /\ Len(q) \in Nat /\ DOMAIN q = 1 .. Len(q)
  BY DEF BrokerState
<1>2. h \in {0, 1}
  BY DEF Held
<1>3. /\ \A m \in TimerJoins(ts) : IsChange(H, m, c)
      /\ \A i \in DOMAIN q : IsChange(H, q[i], c + h + i - 1)
      /\ c + h + Len(q) + k = L
  BY DEF UpState, Runs, Waiting
<1> HIDE DEF c, q, h
<1>4. c \in 0 .. L
  BY <1>1, <1>2, <1>3
<1>5. \A n \in 0 .. L - 1 : \A m : IsChange(H, m, n) => IsChange(G, m, n)
  BY DEF Same, IsChange
<1>6. ASSUME NEW m \in TimerJoins(ts)
      PROVE  IsChange(G, m, c)
  <2>1. h = 1
    BY DEF h, Held
  <2>2. c \in 0 .. L - 1
    BY <1>1, <1>3, <2>1
  <2> QED
    BY <1>3, <1>5, <2>2
<1>7. ASSUME NEW i \in DOMAIN q
      PROVE  IsChange(G, q[i], c + h + i - 1)
  <2>1. c + h + i - 1 \in 0 .. L - 1
    BY <1>1, <1>2, <1>3
  <2> QED
    BY <1>3, <1>5, <2>1
<1>8. Waiting(G, st, ts, L, k)
  BY <1>3, <1>6, <1>7 DEF Waiting, c, q, h
<1>9. G[c] = H[c] /\ \A n \in c .. L : G[n] = H[n]
  BY <1>1, <1>4 DEF Same
<1>10. ListOK(G, st)
  BY <1>9 DEF UpState, Runs, ListOK, c
<1>11. Runs(G, b, st, ts, L, k)
  BY <1>8, <1>9, <1>10 DEF UpState, Runs, c
<1> QED
  BY <1>4, <1>11 DEF UpState, c

(* and for one that is not.                                                *)
LEMMA SameDown ==
    ASSUME NEW H \in Histories, NEW G \in Histories, NEW b, NEW st \in BrokerState,
           NEW ts, NEW L \in Nat, NEW T,
           Same(H, G, L), DownState(H, b, st, ts, L, T)
    PROVE  /\ DownState(G, b, st, ts, L, T)
           /\ st.currentConvergence \in 0 .. L
<1>1. st.currentConvergence \in Nat
  BY DEF BrokerState
<1>2. st.currentConvergence \in 0 .. L
  BY <1>1 DEF DownState
<1>3. /\ G[st.currentConvergence] = H[st.currentConvergence]
      /\ \A n \in st.currentConvergence + 1 .. L : G[n] = H[n]
  BY <1>1, <1>2 DEF Same
<1>4. ListOK(H, st) => ListOK(G, st)
  BY <1>3 DEF ListOK
<1> QED
  BY <1>2, <1>3, <1>4 DEF DownState

-----------------------------------------------------------------------------
(* What looking for an edge makes of a broker that runs.                   *)

(* Finding its fragment complete, it may begin to wait for the next join,  *)
(* which leaves its queue for a timer: no join is lost.                    *)
LEMMA SearchKeepsUp ==
    ASSUME NEW H, NEW b, NEW L, NEW k,
           NEW e, NEW f, e \in Effect, Found(e, f),
           Runs(H, b, e.st, e.timers, L, k), TimerJoins(e.timers) = {}
    PROVE  UpState(H, b, f.st, f.timers, L, k)
<1> DEFINE q == e.st.awaitingNSMsgs
           c == e.st.currentConvergence
<1>1. /\ SameView(e.st, f.st)
      /\ Done(e.st) => Rests(e, f)
      /\ ~Done(e.st) => Seeks(e, f)
  BY DEF Found
<1>2. /\ ~f.st.initial /\ f.st.currentConvergence = c
      /\ f.st.componentId = e.st.componentId /\ f.st.leaderHop = e.st.leaderHop
      /\ f.st.members = e.st.members /\ f.st.availableBrokers = e.st.availableBrokers
      /\ f.st.neighboursMap = e.st.neighboursMap /\ f.st.bufferedSubs = e.st.bufferedSubs
  BY <1>1 DEF SameView, Runs
<1>3. ListOK(H, f.st) /\ (Done(f.st) <=> Done(e.st))
  BY <1>2 DEF Runs, ListOK, Done
<1>4. /\ MapOK(f.st.neighboursMap) /\ f.st.bufferedSubs = {}
      /\ \A n \in f.st.currentConvergence .. L : b \in H[n]
      /\ f.st.componentId # b => f.st.leaderHop \in NeighbourBrokers(f.st.neighboursMap)
  BY <1>2 DEF Runs
<1>5. /\ q \in Seq(JoinMessage) /\ c \in Nat /\ Len(q) \in Nat /\ DOMAIN q = 1 .. Len(q)
      /\ e.timers \in SUBSET Message
  BY DEF Effect, BrokerState
<1>6. Held(e.timers) = 0
  BY DEF Held
<1>7. /\ \A i \in DOMAIN q : IsChange(H, q[i], c + 0 + i - 1)
      /\ c + 0 + Len(q) + k = L
  BY <1>6 DEF Runs, Waiting
<1>8. TypesOf(e.timers) \subseteq {"Sleep", "Join"}
  BY DEF Runs
<1>9. ASSUME f.timers = e.timers, f.st.awaitingNSMsgs = q
      PROVE  Runs(H, b, f.st, f.timers, L, k)
  <2>1. Waiting(H, f.st, f.timers, L, k)
    BY <1>2, <1>6, <1>7, <1>9 DEF Waiting
  <2> QED
    BY <1>2, <1>3, <1>4, <1>8, <1>9, <2>1 DEF Runs
<1>10. CASE ~Done(e.st)
  <2>1. ~f.st.converged /\ f.st.awaitingNSMsgs = q /\ f.timers = e.timers
    BY <1>1, <1>10 DEF Seeks
  <2> QED
    BY <1>9, <2>1 DEF UpState
<1>11. CASE Done(e.st) /\ q = <<>>
  <2>1. f.st.converged /\ f.st.awaitingNSMsgs = q /\ f.timers = e.timers
    BY <1>1, <1>11 DEF Rests
  <2> QED
    BY <1>3, <1>9, <1>11, <2>1 DEF UpState
<1>12. CASE Done(e.st) /\ q # <<>>
  <2>1. /\ f.st.converged /\ f.st.awaitingNSMsgs = Tail(q)
        /\ f.timers = e.timers \cup {Head(q)}
    BY <1>1, <1>12 DEF Rests
  <2> PICK t : t = Tail(q)
    OBVIOUS
  <2>2. /\ t \in Seq(JoinMessage) /\ Len(t) = Len(q) - 1 /\ Head(q) = q[1]
        /\ Head(q) \in JoinMessage
        /\ DOMAIN t = 1 .. Len(q) - 1 /\ Len(q) >= 1
        /\ \A i \in 1 .. Len(q) - 1 : t[i] = q[i + 1]
    BY <1>5, <1>12, HeadTailProperties
  <2>3. Head(q).type = "Join"
    BY <2>2 DEF JoinMessage
  <2>4. TimerJoins(f.timers) = {Head(q)} /\ Held(f.timers) = 1
    BY <2>1, <2>3 DEF TimerJoins, Held
  <2>5. TypesOf(f.timers) \subseteq {"Sleep", "Join"}
    BY <1>8, <2>1, <2>3 DEF TypesOf
  <2>6. IsChange(H, Head(q), c)
    <3>1. 1 \in DOMAIN q /\ c + 0 + 1 - 1 = c
      BY <1>5, <2>2
    <3> QED
      BY <1>7, <2>2, <3>1
  <2>7. \A i \in DOMAIN t : IsChange(H, t[i], c + 1 + i - 1)
    <3> SUFFICES ASSUME NEW i \in DOMAIN t PROVE IsChange(H, t[i], c + 1 + i - 1)
      OBVIOUS
    <3>1. i + 1 \in DOMAIN q /\ t[i] = q[i + 1] /\ c + 0 + (i + 1) - 1 = c + 1 + i - 1
      BY <1>5, <2>2, SMTT(30)
    <3> QED
      BY <1>7, <3>1
  <2>8. c + 1 + Len(t) + k = L
    BY <1>5, <1>7, <2>2
  <2>9. Waiting(H, f.st, f.timers, L, k)
    BY <1>2, <2>1, <2>4, <2>6, <2>7, <2>8 DEF Waiting
  <2>10. Runs(H, b, f.st, f.timers, L, k)
    BY <1>2, <1>3, <1>4, <2>5, <2>9 DEF Runs
  <2> QED
    BY <1>3, <1>12, <2>1, <2>4, <2>10 DEF UpState
<1> QED
  BY <1>10, <1>11, <1>12

-----------------------------------------------------------------------------
(* A step of broker b: arrival a has been handled with effect e.           *)

Acts(b, a, e) ==
    /\ a \in Arrivals(b) /\ e \in Effect
    /\ broker' = [broker EXCEPT ![b] = e.st]
    /\ End(b, a, e)
    /\ UNCHANGED <<nameServer, conditionTable>>

(* What else is due without delay.                                         *)
rest(a) == IF a.from = NULL THEN Tail(now) ELSE now

(* A handler begins with the broker's state; a message from itself was a   *)
(* timer.                                                                  *)
LEMMA StartIs ==
    ASSUME IInv, NEW b \in Brokers, NEW a \in Arrivals(b)
    PROVE  LET s == Start(b, a)
           IN  /\ s \in Effect /\ s.self = b /\ s.st = broker[b] /\ s.direct = <<>>
               /\ s.out = [n \in Nodes |-> <<>>] /\ ~s.fault
               /\ s.timers = IF a.from = b THEN timers[b] \ {a.msg} ELSE timers[b]
BY StartGood DEF Good, Start, Begin

(* What a step changes: the broker's own state, what is due, and the       *)
(* brokers' channels.                                                      *)
LEMMA StepFacts ==
    ASSUME IInv, QueueOK(now), NEW b \in Brokers, NEW a, NEW e, Acts(b, a, e)
    PROVE  /\ now' = rest(a) \o e.direct
           /\ rest(a) \in Seq(Event) /\ QueueOK(rest(a))
           /\ ControlOf(rest(a)) = Control \ {To(b, a.msg)}
           /\ ToSet(rest(a)) \subseteq ToSet(now)
           /\ broker'[b] = e.st /\ timers'[b] = e.timers
           /\ \A c \in Brokers \ {b} : broker'[c] = broker[c] /\ timers'[c] = timers[c]
           /\ timers'[NS] = timers[NS]
           /\ RegisteredBrokers' = RegisteredBrokers
           /\ brokerList' = brokerList /\ convergenceNumber' = convergenceNumber
           /\ e.st \in BrokerState /\ e.timers \in SUBSET Message
<1>0. /\ KernelTypeOK /\ b \in Nodes /\ NULL \notin Nodes /\ now \in Seq(Event)
      /\ timers \in [Nodes -> SUBSET Message] /\ broker \in [Brokers -> BrokerState]
      /\ NS \in Nodes /\ NS # b
  BY NodesAssumption DEF IInv, TypeOK, KernelTypeOK, Nodes
<1>1. \/ /\ now # <<>> /\ a.from = NULL /\ Head(now) = To(b, a.msg)
      \/ now = <<>> /\ a.from # NULL
  BY <1>0, ArrivalCases DEF Acts
<1>2. now' = rest(a) \o e.direct
  BY DEF Acts, End, rest
<1>3. /\ rest(a) \in Seq(Event) /\ QueueOK(rest(a))
      /\ ControlOf(rest(a)) = Control \ {To(b, a.msg)}
      /\ ToSet(rest(a)) \subseteq ToSet(now)
  <2>1. CASE now # <<>> /\ a.from = NULL /\ Head(now) = To(b, a.msg)
    <3>1. rest(a) = Tail(now)
      BY <2>1 DEF rest
    <3>2. /\ Tail(now) \in Seq(Event) /\ QueueOK(Tail(now))
          /\ ControlOf(Tail(now)) = ControlOf(now) \ {Head(now)}
      BY <1>0, <2>1, QueueTail
    <3>3. ToSet(Tail(now)) \subseteq ToSet(now)
      BY <1>0, <2>1, TailElements
    <3> QED
      BY <2>1, <3>1, <3>2, <3>3 DEF Control
  <2>2. CASE now = <<>> /\ a.from # NULL
    BY <1>0, <2>2, NoQueue DEF rest, Control
  <2> QED
    BY <1>1, <2>1, <2>2
<1>4. /\ timers'[b] = e.timers /\ timers'[NS] = timers[NS]
      /\ \A c \in Brokers \ {b} : timers'[c] = timers[c]
  BY <1>0 DEF Acts, End, Nodes
<1>5. broker'[b] = e.st /\ \A c \in Brokers \ {b} : broker'[c] = broker[c]
  BY <1>0 DEF Acts
<1>6. /\ brokerList' = brokerList /\ convergenceNumber' = convergenceNumber
      /\ RegisteredBrokers' = RegisteredBrokers
  BY DEF Acts, nameServer, RegisteredBrokers
<1>7. e.st \in BrokerState /\ e.timers \in SUBSET Message
  BY DEF Acts, Effect
<1> QED
  BY <1>2, <1>3, <1>4, <1>5, <1>6, <1>7

(* What a broker puts on the channels.                                     *)
WellSent(b, out) ==
    \A d \in Nodes : out[d] # <<>> => d \in Brokers /\ \A m \in ToSet(out[d]) : OnChannel(b, m)

(* Nothing at all is fine.                                                 *)
LEMMA NothingSent ==
    ASSUME NEW b
    PROVE  WellSent(b, [n \in Nodes |-> <<>>])
BY DEF WellSent

(* So is a message that belongs there, to any brokers,                     *)
LEMMA PostedWell ==
    ASSUME NEW b, NEW out \in [Nodes -> Seq(Message)], WellSent(b, out),
           NEW S \in SUBSET Brokers, NEW m \in Message, OnChannel(b, m)
    PROVE  WellSent(b, Posted(out, S, m))
<1> SUFFICES ASSUME NEW d \in Nodes, Posted(out, S, m)[d] # <<>>
             PROVE  d \in Brokers /\ \A x \in ToSet(Posted(out, S, m)[d]) : OnChannel(b, x)
  BY DEF WellSent
<1>1. CASE d \in S
  <2> PICK t : t = <<m>>
    OBVIOUS
  <2>1. t \in Seq(Message) /\ ToSet(t) = {m}
    BY OneElement
  <2>2. ToSet(out[d] \o t) = ToSet(out[d]) \cup {m}
    <3>1. out[d] \in Seq(Message)
      OBVIOUS
    <3>2. ToSet(out[d] \o t) = ToSet(out[d]) \cup ToSet(t)
      BY <2>1, <3>1, ConcatElements
    <3> QED
      BY <2>1, <3>2
  <2>3. Posted(out, S, m)[d] = out[d] \o t
    BY <1>1 DEF Posted
  <2>4. \A x \in ToSet(out[d]) : OnChannel(b, x)
    <3>1. CASE out[d] = <<>>
      BY <3>1, NoElements
    <3>2. CASE out[d] # <<>>
      BY <3>2 DEF WellSent
    <3> QED
      BY <3>1, <3>2
  <2>5. \A x \in ToSet(out[d]) \cup {m} : OnChannel(b, x)
    BY <2>4
  <2> QED
    BY <1>1, <2>2, <2>3, <2>5
<1>2. CASE d \notin S
  BY <1>2 DEF Posted, WellSent
<1> QED
  BY <1>1, <1>2

(* and one over the gate to a neighbour.                                   *)
LEMMA SentOverWell ==
    ASSUME NEW b, NEW e \in Effect, NEW f, WellSent(b, e.out),
           NEW n, NEW m \in Message, OnChannel(b, m), SendsOver(e, f, n, m)
    PROVE  WellSent(b, f.out)
<1>1. CASE n \in NeighbourBrokers(e.st.neighboursMap)
  <2>1. {n} \in SUBSET Brokers
    BY <1>1 DEF NeighbourBrokers
  <2>2. f.out = Posted(e.out, {n}, m)
    BY <1>1 DEF SendsOver
  <2>3. e.out \in [Nodes -> Seq(Message)]
    BY DEF Effect
  <2> QED
    BY <2>1, <2>2, <2>3, PostedWell
<1>2. CASE n \notin NeighbourBrokers(e.st.neighboursMap)
  BY <1>2 DEF SendsOver
<1> QED
  BY <1>1, <1>2

(* The channels keep what belongs there.                                   *)
LEMMA ChannelsStep ==
    ASSUME IInv, QueueOK(now), ChannelsOK, NEW b \in Brokers, NEW a, NEW e, Acts(b, a, e),
           WellSent(b, e.out)
    PROVE  ChannelsOK'
<1>1. timers'[NS] = {}
  BY StepFacts DEF ChannelsOK
<1>2. ASSUME NEW s \in Nodes, NEW d \in Nodes, chan'[s][d] # <<>>
      PROVE  s \in Brokers /\ d \in Brokers /\ \A m \in ToSet(chan'[s][d]) : OnChannel(s, m)
  <2>1. chan[s][d] \in Seq(Message) /\ e.out[d] \in Seq(Message)
    BY DEF IInv, TypeOK, KernelTypeOK, Acts, Effect
  <2>2. chan'[s][d] = IF s = b THEN chan[s][d] \o e.out[d]
                      ELSE IF s = a.from /\ d = b THEN Tail(chan[s][d]) ELSE chan[s][d]
    BY DEF Acts, End
  <2>3. chan[s][d] # <<>> =>
          s \in Brokers /\ d \in Brokers /\ \A m \in ToSet(chan[s][d]) : OnChannel(s, m)
    BY DEF ChannelsOK
  <2>4. CASE s = b
    <3>1. ToSet(chan[s][d] \o e.out[d]) = ToSet(chan[s][d]) \cup ToSet(e.out[d])
      BY <2>1, ConcatElements
    <3>2. \A m \in ToSet(e.out[d]) : d \in Brokers /\ OnChannel(s, m)
      BY <2>4 DEF WellSent, ToSet
    <3>3. \A m \in ToSet(chan[s][d]) : d \in Brokers /\ OnChannel(s, m)
      BY <2>3 DEF ToSet
    <3>4. ToSet(chan'[s][d]) # {}
      <4>1. chan'[s][d] \in Seq(Message)
        BY <2>1, <2>2, <2>4, ConcatProperties
      <4> QED
        BY <1>2, <4>1, ElementsType
    <3> QED
      BY <2>2, <2>4, <3>1, <3>2, <3>3, <3>4
  <2>5. CASE s # b /\ s = a.from /\ d = b
    <3>1. chan[s][d] # <<>>
      BY <2>5, ArrivalType DEF Acts, IInv, TypeOK, Nodes
    <3>2. ToSet(Tail(chan[s][d])) \subseteq ToSet(chan[s][d])
      BY <2>1, <3>1, TailElements
    <3> QED
      BY <2>2, <2>3, <2>5, <3>1, <3>2
  <2>6. CASE s # b /\ ~(s = a.from /\ d = b)
    BY <1>2, <2>2, <2>3, <2>6
  <2> QED
    BY <2>4, <2>5, <2>6
<1> QED
  BY <1>1, <1>2 DEF ChannelsOK

(* Reports name edges.                                                     *)
ReportsNamed(ms) == \A i \in DOMAIN ms : ms[i].broker # NULL

(* The reports that a leader collects name edges after a step if the       *)
(* handler leaves it so.                                                   *)
LEMMA ReportsStep ==
    ASSUME IInv, QueueOK(now), NoEmptyReport, NEW b \in Brokers, NEW a, NEW e, Acts(b, a, e),
           ReportsNamed(e.st.receivedMWOEs)
    PROVE  NoEmptyReport'
<1>1. broker'[b] = e.st /\ \A c \in Brokers \ {b} : broker'[c] = broker[c]
  BY StepFacts
<1> QED
  BY <1>1 DEF NoEmptyReport, ReportsNamed

-----------------------------------------------------------------------------
(* Steps in which nobody registers, restarts or leaves                     *)

(* A step that keeps every broker at its place in its history, and adds    *)
(* nothing that is about registering, joining or leaving.                  *)
LEMMA QuietStep ==
    ASSUME IInv, NEW H, JoinsOK(H), NEW b \in Brokers, NEW a, NEW e, Acts(b, a, e),
           a.msg.type \in {"MWOE", "Expand", "Connect", "Update"},
           WellSent(b, e.out), \A ev \in ToSet(e.direct) : Quick(ev),
           e.st.initial = broker[b].initial,
           e.st.currentConvergence = broker[b].currentConvergence,
           \A L, k : Up(H, b, L, k) => UpState(H, b, e.st, e.timers, L, k),
           \A L, T : Down(H, b, L, T) => DownState(H, b, e.st, e.timers, L, T),
           ReportsNamed(e.st.receivedMWOEs)
    PROVE  JoinsOK(H)'
<1>0. /\ HistoryOK(H) /\ Phase(H) /\ QueueOK(now) /\ RoundsOK(H) /\ ChannelsOK /\ NoEmptyReport
  BY DEF JoinsOK
<1>1. /\ now' = rest(a) \o e.direct
      /\ rest(a) \in Seq(Event) /\ QueueOK(rest(a))
      /\ ControlOf(rest(a)) = Control \ {To(b, a.msg)}
      /\ ToSet(rest(a)) \subseteq ToSet(now)
      /\ broker'[b] = e.st /\ timers'[b] = e.timers
      /\ \A c \in Brokers \ {b} : broker'[c] = broker[c] /\ timers'[c] = timers[c]
      /\ RegisteredBrokers' = RegisteredBrokers
      /\ brokerList' = brokerList /\ convergenceNumber' = convergenceNumber
  BY <1>0, StepFacts
<1>2. To(b, a.msg) \notin Control
  BY DEF Control, ControlOf, IsControl, To
<1>3. /\ \A ev \in ToSet(now) : ~IsJoin(ev)
      /\ now = <<>> \/ (now # <<>> /\ Head(now) = To(b, a.msg))
  <2>1. /\ KernelTypeOK /\ b \in Nodes
    BY DEF IInv, TypeOK, Nodes
  <2>2. now = <<>> \/ (now # <<>> /\ Head(now) = To(b, a.msg))
    BY <2>1, ArrivalCases DEF Acts
  <2>3. now = <<>> => ToSet(now) = {}
    BY NoElements
  <2>4. now # <<>> /\ Head(now) = To(b, a.msg) => \A ev \in ToSet(now) : ~IsJoin(ev)
    <3>1. ~IsJoin(To(b, a.msg))
      BY DEF IsJoin, To
    <3>2. now \in Seq(Event)
      BY <2>1 DEF KernelTypeOK
    <3> QED
      BY <1>0, <3>1, <3>2, QueueTail
  <2> QED
    BY <2>2, <2>3, <2>4
<1>4. QueueOK(now') /\ Control' = Control
  <2>1. e.direct \in Seq(Event)
    BY DEF Acts, Effect
  <2>2. \A ev : Quick(ev) => ~IsControl(ev) /\ ~IsJoin(ev)
    BY DEF Quick, IsControl, IsJoin
  <2>3. QueueOK(e.direct) /\ ControlOf(e.direct) = {}
    <3>1. \A i \in DOMAIN e.direct : Quick(e.direct[i])
      BY DEF ToSet
    <3> QED
      BY <2>2, <3>1 DEF QueueOK, ControlOf
  <2>4. \A ev \in ToSet(rest(a)) : ~IsJoin(ev)
    BY <1>1, <1>3
  <2>5. /\ QueueOK(rest(a) \o e.direct)
        /\ ControlOf(rest(a) \o e.direct) = ControlOf(rest(a)) \cup {}
    BY <1>1, <2>1, <2>2, <2>3, <2>4, QueueGrows
  <2> QED
    BY <1>1, <1>2, <2>5 DEF Control
<1>5. \A c \in Brokers : Round(c)' = Round(c)
  BY <1>1 DEF Round
<1>6. \A c \in Brokers : Awake(c)' <=> Awake(c)
  <2>1. \A c \in Brokers : broker'[c].initial = broker[c].initial
    BY <1>1
  <2> QED
    BY <1>1, <1>4, <2>1, AwakeIs, AwakeNextIs
<1>7. RoundsOK(H)'
  <2> SUFFICES ASSUME NEW c \in Brokers, NEW n \in 0 .. Round(c)', Through(c, n)',
                      c \in H[n], NEW x \in H[n]
               PROVE  Round(x)' >= n
    BY DEF RoundsOK
  <2>1. n \in 0 .. Round(c) /\ Through(c, n)
    BY <1>5, <1>6 DEF Through
  <2>2. Round(x) >= n
    BY <1>0, <2>1 DEF RoundsOK
  <2>3. x \in Brokers
    BY <1>0 DEF HistoryOK, Histories, IInv, TypeOK, RoundsOK
  <2> QED
    BY <1>5, <2>2, <2>3
<1>8. HistoryOK(H)'
  BY <1>0, <1>1 DEF HistoryOK
<1>9. Phase(H)'
  <2>1. \A x, L, D : Others(H, x, L, D) => Others(H, x, L, D)'
    <3> SUFFICES ASSUME NEW x, NEW L, NEW D, Others(H, x, L, D), NEW c \in Brokers \ {x}
                 PROVE  IF c \in RegisteredBrokers'
                        THEN UpState(H, c, broker'[c], timers'[c], L, IF c \in D THEN 1 ELSE 0)
                        ELSE DownState(H, c, broker'[c], timers'[c], L, {"WakeUp"})
      BY DEF Others, Up, Down
    <3>1. IF c \in RegisteredBrokers
          THEN UpState(H, c, broker[c], timers[c], L, IF c \in D THEN 1 ELSE 0)
          ELSE DownState(H, c, broker[c], timers[c], L, {"WakeUp"})
      BY DEF Others, Up, Down
    <3>2. CASE c = b
      BY <1>1, <3>1, <3>2 DEF Up, Down
    <3>3. CASE c # b
      BY <1>1, <3>1, <3>3
    <3> QED
      BY <3>2, <3>3
  <2>2. \A x \in Brokers : \A L, T : Down(H, x, L, T) => Down(H, x, L, T)'
    BY <1>1 DEF Down
  <2>3. CASE Calm(H)
    BY <1>1, <1>4, <2>1, <2>3 DEF Calm, Phase
  <2>4. ASSUME NEW x \in Brokers, NEW D \in SUBSET Brokers, Leaving(H, x, D)
        PROVE  Phase(H)'
    <3>1. D = {}
      <4> SUFFICES ASSUME NEW d \in D PROVE FALSE
        OBVIOUS
      <4>1. To(d, join(x, convergenceNumber, TRUE)) \in Control
        BY <2>4 DEF Leaving, Announced
      <4>2. IsJoin(To(d, join(x, convergenceNumber, TRUE)))
        BY DEF IsJoin, To, join
      <4> QED
        BY <1>3, <4>1, <4>2 DEF Control, ControlOf
    <3>2. Leaving(H, x, {})'
      BY <1>1, <1>4, <2>1, <2>2, <2>4, <3>1 DEF Leaving
    <3> QED
      BY <3>2 DEF Phase
  <2>5. ASSUME NEW x \in Brokers, NEW D \in SUBSET Brokers, Joining(H, x, D)
        PROVE  FALSE
    <3>1. PICK d \in D : TRUE
      BY <2>5 DEF Joining
    <3>2. To(d, join(x, convergenceNumber - 1, FALSE)) \in Control
      BY <2>5 DEF Joining, Announced
    <3>3. IsJoin(To(d, join(x, convergenceNumber - 1, FALSE)))
      BY DEF IsJoin, To, join
    <3> QED
      BY <1>3, <3>2, <3>3 DEF Control, ControlOf
  <2>6. ASSUME NEW ev, Control = {ev}, Len(now) = 1
        PROVE  FALSE
    <3>1. now # <<>> /\ Head(now) = To(b, a.msg) /\ ev \in ToSet(now)
      BY <1>3, <2>6, SMTT(30) DEF Control, ControlOf
    <3>2. DOMAIN now = {1} /\ Head(now) = now[1]
      <4>1. now \in Seq(Event)
        BY DEF IInv, TypeOK, KernelTypeOK
      <4> QED
        BY <2>6, <3>1, <4>1
    <3>3. ev = To(b, a.msg)
      BY <3>1, <3>2 DEF ToSet
    <3> QED
      BY <1>2, <2>6, <3>3
  <2> QED
    BY <1>0, <2>3, <2>4, <2>5, <2>6 DEF Phase, Requesting, Answering
<1>10. ChannelsOK' /\ NoEmptyReport'
  BY <1>0, ChannelsStep, ReportsStep
<1> QED
  BY <1>4, <1>7, <1>8, <1>9, <1>10 DEF JoinsOK

(* In every phase a broker is one that runs, or one that does not.         *)
LEMMA UpOrDown ==
    ASSUME NEW H, JoinsOK(H), NEW b \in Brokers
    PROVE  \/ b \in RegisteredBrokers /\ \E L : \E k \in {0, 1} : Up(H, b, L, k)
           \/ \E L, T : Down(H, b, L, T) /\ T \subseteq {"WakeUp", "Sleep"} /\ ~Awake(b)
<1>0. NULL \notin Brokers
  BY NodesAssumption
<1>1. \A x : ~(x \in RegisteredBrokers) => ~Awake(x)
  BY DEF Awake
<1>2. ASSUME NEW x, NEW L, NEW D, Others(H, x, L, D), b # x
      PROVE  \/ b \in RegisteredBrokers /\ \E M : \E k \in {0, 1} : Up(H, b, M, k)
             \/ Down(H, b, L, {"WakeUp"}) /\ ~Awake(b)
  <2>1. IF b \in RegisteredBrokers THEN Up(H, b, L, IF b \in D THEN 1 ELSE 0)
        ELSE Down(H, b, L, {"WakeUp"})
    BY <1>2 DEF Others
  <2> QED
    BY <1>1, <2>1
<1>3. CASE Calm(H)
  <2>1. Others(H, NULL, convergenceNumber - 1, {}) /\ b # NULL
    BY <1>0, <1>3 DEF Calm
  <2> QED
    BY <1>2, <2>1
<1>4. ASSUME NEW x \in Brokers, Requesting(H, x)
      PROVE  \/ b \in RegisteredBrokers /\ \E L : \E k \in {0, 1} : Up(H, b, L, k)
             \/ \E L, T : Down(H, b, L, T) /\ T \subseteq {"WakeUp", "Sleep"} /\ ~Awake(b)
  <2>1. CASE b = x
    BY <1>1, <1>4, <2>1 DEF Requesting
  <2>2. CASE b # x
    BY <1>2, <1>4, <2>2 DEF Requesting
  <2> QED
    BY <2>1, <2>2
<1>5. ASSUME NEW x \in Brokers, Answering(H, x)
      PROVE  \/ b \in RegisteredBrokers /\ \E L : \E k \in {0, 1} : Up(H, b, L, k)
             \/ \E L, T : Down(H, b, L, T) /\ T \subseteq {"WakeUp", "Sleep"} /\ ~Awake(b)
  <2>1. CASE b = x
    <3>1. To(b, answer(brokerList, convergenceNumber - 1)) \in Control
      BY <1>5, <2>1 DEF Answering
    <3>2. ~Undisturbed(Control, b)
      BY <3>1 DEF Undisturbed, To, answer
    <3>3. ~Awake(b)
      BY <3>2, AwakeIs
    <3> QED
      BY <1>5, <2>1, <3>3 DEF Answering
  <2>2. CASE b # x
    BY <1>2, <1>5, <2>2 DEF Answering
  <2> QED
    BY <2>1, <2>2
<1>6. ASSUME NEW x \in Brokers, NEW D \in SUBSET Brokers, Joining(H, x, D)
      PROVE  \/ b \in RegisteredBrokers /\ \E L : \E k \in {0, 1} : Up(H, b, L, k)
             \/ \E L, T : Down(H, b, L, T) /\ T \subseteq {"WakeUp", "Sleep"} /\ ~Awake(b)
  <2>1. CASE b = x /\ x \in D
    <3>1. ~Awake(b)
      BY <1>6, <2>1 DEF Joining, Awake
    <3> QED
      BY <1>6, <2>1, <3>1 DEF Joining
  <2>2. CASE b = x /\ x \notin D
    BY <1>6, <2>2 DEF Joining
  <2>3. CASE b # x
    BY <1>2, <1>6, <2>3 DEF Joining
  <2> QED
    BY <2>1, <2>2, <2>3
<1>7. ASSUME NEW x \in Brokers, NEW D \in SUBSET Brokers, Leaving(H, x, D)
      PROVE  \/ b \in RegisteredBrokers /\ \E L : \E k \in {0, 1} : Up(H, b, L, k)
             \/ \E L, T : Down(H, b, L, T) /\ T \subseteq {"WakeUp", "Sleep"} /\ ~Awake(b)
  <2>1. CASE b = x /\ x \in D
    BY <1>7, <2>1 DEF Leaving
  <2>2. CASE b = x /\ x \notin D
    <3>1. departure(b) \in Control
      BY <1>7, <2>2 DEF Leaving
    <3>2. ~Undisturbed(Control, b)
      BY <3>1 DEF Undisturbed, To, departure
    <3>3. ~Awake(b)
      BY <3>2, AwakeIs
    <3> QED
      BY <1>7, <2>2, <3>3 DEF Leaving
  <2>3. CASE b # x
    BY <1>2, <1>7, <2>3 DEF Leaving
  <2> QED
    BY <2>1, <2>2, <2>3
<1> QED
  BY <1>3, <1>4, <1>5, <1>6, <1>7 DEF JoinsOK, Phase

(* The messages by which a tree is built come from other brokers, or       *)
(* without delay.                                                          *)
LEMMA WorkArrives ==
    ASSUME IInv, NEW H, JoinsOK(H), NEW b \in Brokers, NEW a \in Arrivals(b),
           a.msg.type \in {"MWOE", "Expand", "Connect", "Update"}
    PROVE  /\ MapOK(broker[b].neighboursMap)
           /\ a.msg \in Message /\ Named(a.msg)
           /\ Start(b, a).timers = timers[b]
           /\ a.msg.type \in {"Expand", "Connect"} =>
                \/ \E i \in DOMAIN now : now[i] = To(b, a.msg)
                \/ /\ a.msg.type = "Expand"
                   /\ \E s \in Brokers : a.msg \in ToSet(chan[s][b])
           /\ a.msg.type = "Update" =>
                \E s \in Brokers : a.msg \in ToSet(chan[s][b]) /\ a.msg.sender = s
<1>0. /\ KernelTypeOK /\ b \in Nodes /\ now \in Seq(Event) /\ NULL \notin Nodes
      /\ chan \in [Nodes -> [Nodes -> Seq(Message)]] /\ QueueOK(now) /\ ChannelsOK
  BY NodesAssumption DEF IInv, TypeOK, KernelTypeOK, Nodes, JoinsOK
<1>1. /\ MapOK(broker[b].neighboursMap)
      /\ TypesOf(timers[b]) \subseteq {"WakeUp", "Sleep", "Join"}
  <2>1. \A L, k : Up(H, b, L, k) => /\ MapOK(broker[b].neighboursMap)
                                    /\ TypesOf(timers[b]) \subseteq {"Sleep", "Join"}
    BY DEF Up, UpState, Runs
  <2>2. \A L, T : Down(H, b, L, T) => /\ MapOK(broker[b].neighboursMap)
                                      /\ TypesOf(timers[b]) \subseteq T
    BY NoMap DEF Down, DownState
  <2> QED
    BY <2>1, <2>2, UpOrDown
<1>2. a.msg \in Message
  BY <1>0, ArrivalCases
<1>3. ASSUME now # <<>>, a.from = NULL, Head(now) = To(b, a.msg)
      PROVE  /\ Named(a.msg) /\ a.msg.type # "Update"
             /\ \E i \in DOMAIN now : now[i] = To(b, a.msg)
  <2>1. IsControl(To(b, a.msg)) \/ Quick(To(b, a.msg))
    BY <1>0, <1>3, QueueTail
  <2>2. ~IsControl(To(b, a.msg))
    BY DEF IsControl, To
  <2>3. Named(a.msg) /\ a.msg.type # "Update"
    BY <2>1, <2>2 DEF Quick, To
  <2>4. 1 \in DOMAIN now /\ now[1] = Head(now)
    BY <1>0, <1>3
  <2> QED
    BY <1>3, <2>3, <2>4
<1>4. ASSUME a.from \in Nodes \ {b}, chan[a.from][b] # <<>>, a.msg = Head(chan[a.from][b])
      PROVE  /\ Named(a.msg) /\ a.msg.type # "Connect"
             /\ a.from \in Brokers /\ a.msg \in ToSet(chan[a.from][b])
             /\ a.msg.type = "Update" => a.msg.sender = a.from
  <2>1. a.from \in Brokers /\ \A m \in ToSet(chan[a.from][b]) : OnChannel(a.from, m)
    BY <1>0, <1>4 DEF ChannelsOK
  <2>2. a.msg \in ToSet(chan[a.from][b])
    BY <1>0, <1>4, TailElements
  <2>3. OnChannel(a.from, a.msg)
    BY <2>1, <2>2
  <2> QED
    BY <2>1, <2>2, <2>3 DEF OnChannel
<1>5. ~(a.from = b /\ a.msg \in timers[b])
  BY <1>1 DEF TypesOf
<1>6. Start(b, a).timers = timers[b]
  <2>1. a.from # b
    BY <1>0, <1>5, ArrivalCases
  <2> QED
    BY <2>1, StartIs
<1>7. \/ now # <<>> /\ a.from = NULL /\ Head(now) = To(b, a.msg)
      \/ a.from \in Nodes \ {b} /\ chan[a.from][b] # <<>> /\ a.msg = Head(chan[a.from][b])
  BY <1>0, <1>5, ArrivalCases
<1> QED
  BY <1>1, <1>2, <1>3, <1>4, <1>6, <1>7

(* A handler that changes nothing of what a broker knows.                  *)
LEMMA ViewKeepsPlace ==
    ASSUME NEW H, NEW b, NEW s, NEW t, SameView(s, t), SameQueue(s, t), NEW ts
    PROVE  /\ \A L, k : UpState(H, b, s, ts, L, k) => UpState(H, b, t, ts, L, k)
           /\ \A L, T : DownState(H, b, s, ts, L, T) => DownState(H, b, t, ts, L, T)
<1>1. /\ t.initial = s.initial /\ t.currentConvergence = s.currentConvergence
      /\ t.componentId = s.componentId /\ t.leaderHop = s.leaderHop /\ t.members = s.members
      /\ t.availableBrokers = s.availableBrokers /\ t.neighboursMap = s.neighboursMap
      /\ t.bufferedSubs = s.bufferedSubs
      /\ t.converged = s.converged /\ t.awaitingNSMsgs = s.awaitingNSMsgs
  BY DEF SameView, SameQueue
<1>2. (ListOK(H, s) <=> ListOK(H, t)) /\ (Done(s) <=> Done(t))
  BY <1>1 DEF ListOK, Done
<1>3. \A L, k : Waiting(H, s, ts, L, k) <=> Waiting(H, t, ts, L, k)
  BY <1>1 DEF Waiting
<1>4. \A L, k : Runs(H, b, s, ts, L, k) <=> Runs(H, b, t, ts, L, k)
  BY <1>1, <1>2, <1>3 DEF Runs
<1>5. \A L, k : UpState(H, b, s, ts, L, k) => UpState(H, b, t, ts, L, k)
  BY <1>1, <1>2, <1>4 DEF UpState
<1>6. \A L, T : DownState(H, b, s, ts, L, T) => DownState(H, b, t, ts, L, T)
  BY <1>1, <1>2 DEF DownState
<1> QED
  BY <1>5, <1>6

(* What is due without delay at the end of a handler.                      *)
WellDue(e) == \A ev \in ToSet(e.direct) : Quick(ev)

(* One event more is due.                                                  *)
LEMMA SentNow ==
    ASSUME NEW e \in Effect, NEW f, NEW n \in Nodes, NEW m \in Message, SendsNow(e, f, n, m)
    PROVE  ToSet(f.direct) = ToSet(e.direct) \cup {To(n, m)}
<1> PICK t : t = <<To(n, m)>>
  OBVIOUS
<1>1. To(n, m) \in Event
  BY DEF To, Event
<1>2. t \in Seq(Event) /\ ToSet(t) = {To(n, m)}
  BY <1>1, OneElement
<1>3. e.direct \in Seq(Event)
  BY DEF Effect
<1>4. ToSet(e.direct \o t) = ToSet(e.direct) \cup ToSet(t)
  BY <1>2, <1>3, ConcatElements
<1>5. f.direct = e.direct \o t
  BY DEF SendsNow
<1> QED
  BY <1>2, <1>4, <1>5

(* It is fine if it is not about registering, joining or leaving.          *)
LEMMA SentNowWell ==
    ASSUME NEW e \in Effect, WellDue(e), NEW f, NEW n \in Brokers, NEW m \in Message,
           SendsNow(e, f, n, m), Quick(To(n, m))
    PROVE  WellDue(f)
<1>1. n \in Nodes
  BY DEF Nodes
<1> QED
  BY <1>1, SentNow DEF WellDue

(* What looking for an edge sends.                                         *)
LEMMA FoundWell ==
    ASSUME IsConditionTable(conditionTable), NEW e \in Effect, NEW f, Found(e, f),
           e.self \in Brokers, WellDue(e), WellSent(e.self, e.out)
    PROVE  WellDue(f) /\ WellSent(e.self, f.out)
<1>1. CASE Done(e.st)
  <2>1. f.direct = e.direct /\ f.out = e.out
    BY <1>1 DEF Found, Rests
  <2> QED
    BY <2>1 DEF WellDue
<1>2. CASE ~Done(e.st)
  <2> DEFINE M == e.st.members
             V == ToSet(e.st.availableBrokers)
  <2>1. /\ V \ M # {}
        /\ isLeader(e) => SendsNow(e, f, e.self, reportOf(e.self, M, V, <<>>))
        /\ ~isLeader(e) => SendsOver(e, f, e.st.leaderHop, reportOf(e.self, M, V, <<e.self>>))
    BY <1>2 DEF Found, Seeks
  <2>2. e.st.availableBrokers \in Seq(Brokers)
    BY DEF Effect, BrokerState
  <2>3. V \in SUBSET Brokers
    BY <2>2, ElementsType
  <2>4. \A s \in Seq(Brokers) :
           LET m == reportOf(e.self, M, V, s)
           IN  m \in Message /\ m.type = "MWOE" /\ m.broker \in Brokers
    BY <2>1, <2>3, ReportIs
  <2> HIDE DEF M, V
  <2>5. CASE isLeader(e)
    <3>1. <<>> \in Seq(Brokers)
      OBVIOUS
    <3> PICK m : m = reportOf(e.self, M, V, <<>>)
      OBVIOUS
    <3>2. m \in Message /\ m.type = "MWOE" /\ m.broker \in Brokers
      BY <2>4, <3>1
    <3>3. Quick(To(e.self, m))
      BY <3>2, NodesAssumption DEF Quick, To, Named
    <3>4. SendsNow(e, f, e.self, m)
      BY <2>1, <2>5
    <3>5. f.out = e.out
      BY <3>4 DEF SendsNow
    <3> QED
      BY <3>2, <3>3, <3>4, <3>5, SentNowWell
  <2>6. CASE ~isLeader(e)
    <3>1. <<e.self>> \in Seq(Brokers)
      OBVIOUS
    <3> PICK m : m = reportOf(e.self, M, V, <<e.self>>)
      OBVIOUS
    <3>2. m \in Message /\ m.type = "MWOE" /\ m.broker \in Brokers
      BY <2>4, <3>1
    <3>3. OnChannel(e.self, m)
      BY <3>2, NodesAssumption DEF OnChannel, Named
    <3>4. SendsOver(e, f, e.st.leaderHop, m)
      BY <2>1, <2>6
    <3>5. f.direct = e.direct
      BY <3>4 DEF SendsOver
    <3> QED
      BY <3>2, <3>3, <3>4, <3>5, SentOverWell DEF WellDue
  <2> QED
    BY <2>5, <2>6
<1> QED
  BY <1>1, <1>2

(* A handler begins with nothing sent.                                     *)
LEMMA StartWell ==
    ASSUME IInv, NEW H, JoinsOK(H), NEW b \in Brokers, NEW a \in Arrivals(b)
    PROVE  LET e == Start(b, a)
           IN  /\ e \in Effect /\ e.self = b /\ e.st = broker[b]
               /\ WellDue(e) /\ WellSent(b, e.out) /\ ReportsNamed(e.st.receivedMWOEs)
               /\ ~e.fault
<1> DEFINE e == Start(b, a)
<1>1. /\ e \in Effect /\ e.self = b /\ e.st = broker[b] /\ e.direct = <<>>
      /\ e.out = [n \in Nodes |-> <<>>] /\ ~e.fault
  BY StartIs
<1> HIDE DEF e
<1>2. WellDue(e)
  BY <1>1, NoElements DEF WellDue
<1>3. WellSent(b, e.out)
  BY <1>1, NothingSent
<1>4. ReportsNamed(e.st.receivedMWOEs)
  BY <1>1 DEF JoinsOK, NoEmptyReport, ReportsNamed
<1>5. e \in Effect /\ e.self = b /\ e.st = broker[b] /\ ~e.fault
  BY <1>1
<1> QED
  BY <1>2, <1>3, <1>4, <1>5 DEF e

(* Steps that leave what a broker knows as it is.                          *)
LEMMA ViewStep ==
    ASSUME IInv, NEW H, JoinsOK(H), NEW b \in Brokers, NEW a, NEW f, Acts(b, a, f),
           a.msg.type \in {"MWOE", "Expand", "Connect", "Update"},
           SameView(broker[b], f.st), SameQueue(broker[b], f.st), f.timers = timers[b],
           WellSent(b, f.out), WellDue(f), ReportsNamed(f.st.receivedMWOEs)
    PROVE  JoinsOK(H)'
<1>1. /\ \A L, k : Up(H, b, L, k) => UpState(H, b, f.st, f.timers, L, k)
      /\ \A L, T : Down(H, b, L, T) => DownState(H, b, f.st, f.timers, L, T)
  BY ViewKeepsPlace DEF Up, Down
<1>2. f.st.initial = broker[b].initial /\ f.st.currentConvergence = broker[b].currentConvergence
  BY DEF SameView
<1> QED
  BY <1>1, <1>2, QuietStep DEF WellDue

(* Reading a member that has no value.                                     *)
LEMMA FaultedStep ==
    ASSUME IInv, NEW H, JoinsOK(H), NEW b \in Brokers, NEW a \in Arrivals(b),
           a.msg.type \in {"MWOE", "Expand", "Connect", "Update"},
           Acts(b, a, Fault(Start(b, a)))
    PROVE  JoinsOK(H)'
<1> DEFINE e == Start(b, a)
           f == Fault(e)
<1>1. /\ e \in Effect /\ e.st = broker[b]
      /\ WellDue(e) /\ WellSent(b, e.out) /\ ReportsNamed(e.st.receivedMWOEs)
      /\ e.timers = timers[b]
  BY StartWell, WorkArrives
<1>2. f.st = e.st /\ f.out = e.out /\ f.direct = e.direct /\ f.timers = e.timers
  BY <1>1 DEF Fault, Effect
<1>3. Acts(b, a, f)
  OBVIOUS
<1> HIDE DEF e, f
<1>4. SameView(broker[b], f.st) /\ SameQueue(broker[b], f.st)
  BY <1>1, <1>2 DEF SameView, SameQueue
<1>5. WellSent(b, f.out) /\ WellDue(f) /\ ReportsNamed(f.st.receivedMWOEs) /\ f.timers = timers[b]
  BY <1>1, <1>2 DEF WellDue
<1> QED
  BY <1>3, <1>4, <1>5, ViewStep

(* The effect that a step ends with.                                       *)
LEMMA FinishActs ==
    ASSUME NEW b \in Brokers, NEW a \in Arrivals(b), NEW f, Finish(b, a, f),
           f \in Effect, Start(b, a) \in Effect
    PROVE  \/ broker[b].members # {} /\ Acts(b, a, f)
           \/ a.msg.type \notin {"MWOE", "Expand", "Connect", "Update"} /\ Acts(b, a, f)
           \/ /\ a.msg.type \in {"MWOE", "Expand", "Connect", "Update"}
              /\ Acts(b, a, Fault(Start(b, a)))
<1>1. Fault(Start(b, a)) \in Effect
  BY FaultType
<1> QED
  BY <1>1 DEF Finish, Acts, ReadsUninitialized

(* A report is passed on or counted.                                       *)
LEMMA ReportStep ==
    ASSUME IInv, NEW H, JoinsOK(H), NEW b \in Brokers, HandleMWOEMessage(b)
    PROVE  JoinsOK(H)'
<1> PICK a \in Arrivals(b) :
         a.msg.type = "MWOE" /\ Finish(b, a, handleMWOEMessage(Start(b, a), a.msg))
  BY DEF HandleMWOEMessage, Arriving
<1> DEFINE e == Start(b, a)
           f == handleMWOEMessage(e, a.msg)
<1>1. /\ e \in Effect /\ e.self = b /\ e.st = broker[b]
      /\ WellDue(e) /\ WellSent(b, e.out) /\ ReportsNamed(e.st.receivedMWOEs)
      /\ e.timers = timers[b] /\ MapOK(e.st.neighboursMap)
      /\ a.msg \in MWOEMessage /\ a.msg.broker # NULL
  BY StartWell, WorkArrives, MessageTypes DEF Named
<1>2. Counts(e, f, a.msg)
  BY <1>1, CountIs
<1>3. Acts(b, a, f) \/ Acts(b, a, Fault(e))
  <2>1. f \in Effect
    BY <1>2 DEF Counts
  <2> QED
    BY <1>1, <2>1, FinishActs
<1>4. Acts(b, a, Fault(e)) => JoinsOK(H)'
  BY FaultedStep
<1> HIDE DEF e, f
<1>5. /\ SameView(broker[b], f.st) /\ SameQueue(broker[b], f.st) /\ f.timers = timers[b]
  BY <1>1, <1>2 DEF Counts
<1> DEFINE ms == e.st.receivedMWOEs
           m == a.msg
<1>6. ms \in Seq(MWOEMessage) /\ b \in Nodes /\ b \in Brokers
      /\ e.st.leaderHop \in Brokers \cup {NULL}
  BY <1>1 DEF Effect, BrokerState, Nodes
<1>7. ReportsNamed(Append(ms, m)) /\ Append(ms, m) \in Seq(MWOEMessage)
  BY <1>1, <1>6 DEF ReportsNamed
<1>8. ReportsNamed(f.st.receivedMWOEs)
  <2>1. ReportsNamed(<<>>)
    BY DEF ReportsNamed
  <2>2. f.st.receivedMWOEs \in {ms, Append(ms, m), <<>>}
    BY <1>2 DEF Counts
  <2> QED
    BY <1>1, <1>7, <2>1, <2>2
<1>9. ASSUME SendsNothing(e, f)
      PROVE  WellDue(f) /\ WellSent(b, f.out)
  BY <1>1, <1>9 DEF SendsNothing, WellDue
<1>10. ASSUME ~isLeader(e)
       PROVE  WellDue(f) /\ WellSent(b, f.out)
  <2> DEFINE p == passOn(m, e.self)
  <2>1. p \in Message /\ SendsOver(e, f, e.st.leaderHop, p)
    BY <1>1, <1>2, <1>10, PassOnIs DEF Counts
  <2>2. OnChannel(b, p)
    BY <1>1 DEF OnChannel, passOn, Named
  <2> HIDE DEF p
  <2>3. WellSent(b, f.out)
    BY <1>1, <2>1, <2>2, SentOverWell
  <2>4. f.direct = e.direct
    BY <2>1 DEF SendsOver
  <2> QED
    BY <1>1, <2>3, <2>4 DEF WellDue
<1>11. ASSUME NEW best \in MWOEMessage, best.broker # NULL, Orders(e, f, best)
       PROVE  WellDue(f) /\ WellSent(b, f.out)
  <2>1. best.broker \in Brokers /\ best.piggyback \in Seq(Brokers)
    BY <1>11 DEF MWOEMessage
  <2>2. CASE best.piggyback = <<>>
    <3>1. <<>> \in Seq(Brokers)
      OBVIOUS
    <3> PICK o : o = orderOf(best.broker, <<>>)
      OBVIOUS
    <3>2. o \in Message
      BY <2>1, <3>1, OrderIs
    <3>3. SendsNow(e, f, b, o)
      BY <1>1, <1>11, <2>2 DEF Orders
    <3>4. Quick(To(b, o))
      BY DEF Quick, To, Named, orderOf
    <3>5. f.out = e.out
      BY <3>3 DEF SendsNow
    <3> QED
      BY <1>1, <3>2, <3>3, <3>4, <3>5, SentNowWell
  <2>3. CASE best.piggyback # <<>>
    <3>1. Tail(best.piggyback) \in Seq(Brokers)
      BY <2>1, <2>3
    <3> PICK o : o = orderOf(best.broker, Tail(best.piggyback))
      OBVIOUS
    <3>2. o \in Message
      BY <2>1, <3>1, OrderIs
    <3>3. SendsOver(e, f, Head(best.piggyback), o)
      BY <1>11, <2>3 DEF Orders
    <3>4. OnChannel(b, o)
      BY DEF OnChannel, Named, orderOf
    <3>5. f.direct = e.direct
      BY <3>3 DEF SendsOver
    <3>6. WellSent(b, f.out)
      BY <1>1, <3>2, <3>3, <3>4, SentOverWell
    <3> QED
      BY <1>1, <3>5, <3>6 DEF WellDue
  <2> QED
    BY <2>2, <2>3
<1>12. ASSUME NEW qs \in Seq(MWOEMessage), Chooses(e, f, qs)
       PROVE  WellDue(f) /\ WellSent(b, f.out)
  BY <1>9, <1>11, <1>12 DEF Chooses
<1>13. WellDue(f) /\ WellSent(b, f.out)
  <2>1. CASE isLeader(e) /\ Len(ms) + 1 = Cardinality(e.st.members)
    <3>1. Chooses(e, f, Append(ms, m))
      BY <1>2, <2>1 DEF Counts
    <3> QED
      BY <1>7, <1>12, <3>1
  <2>2. CASE isLeader(e) /\ ~(Len(ms) + 1 = Cardinality(e.st.members))
    <3>1. SendsNothing(e, f)
      BY <1>2, <2>2 DEF Counts
    <3> QED
      BY <1>9, <3>1
  <2> QED
    BY <1>10, <2>1, <2>2
<1> HIDE DEF ms, m
<1>14. Acts(b, a, f) => JoinsOK(H)'
  BY <1>5, <1>8, <1>13, ViewStep
<1> QED
  BY <1>3, <1>4, <1>14

(* A broker that takes part runs, and has not converged unless it is done. *)
LEMMA AwakeRuns ==
    ASSUME FragmentsHold, NEW H, JoinsOK(H), NEW b \in Brokers, Awake(b)
    PROVE  /\ \E L, k : Up(H, b, L, k)
           /\ ListOK(H, broker[b]) /\ MapOK(broker[b].neighboursMap)
           /\ broker[b].bufferedSubs = {} /\ ~broker[b].initial
           /\ broker[b].componentId # b => broker[b].leaderHop \in Linked(b)
           /\ Members(b) # Available(b) =>
                 /\ ~broker[b].converged /\ TimerJoins(timers[b]) = {}
                 /\ \A L, T : ~Down(H, b, L, T)
<1>1. PICK L, k : Up(H, b, L, k)
  BY UpOrDown
<1>2. Runs(H, b, broker[b], timers[b], L, k)
  BY <1>1 DEF Up, UpState
<1>3. ASSUME Members(b) # Available(b)
      PROVE  /\ ~broker[b].converged /\ TimerJoins(timers[b]) = {}
             /\ \A M, T : ~Down(H, b, M, T)
  <2>1. ~Done(broker[b])
    BY <1>3 DEF Done, Members, Available
  <2>2. ~broker[b].initial
    BY DEF Awake
  <2> QED
    BY <1>1, <2>1, <2>2 DEF Up, UpState, Down, DownState
<1> QED
  BY <1>1, <1>2, <1>3 DEF Runs, Linked

(* Its fragment has grown, and it looks for an edge again.                 *)
Grown(e, g) ==
    LET linked == NeighbourBrokers(g.st.neighboursMap)
    IN  /\ g \in Effect /\ g.self = e.self
        /\ SameRound(e.st, g.st) /\ SameQueue(e.st, g.st)
        /\ g.timers = e.timers /\ g.direct = e.direct /\ WellSent(e.self, g.out)
        /\ MapOK(g.st.neighboursMap)
        /\ e.self \in g.st.members /\ linked \subseteq g.st.members
        /\ g.st.members \subseteq ToSet(g.st.availableBrokers)
        /\ g.st.componentId # e.self => g.st.leaderHop \in linked

(* What it does then sends nothing wrong and keeps its place.              *)
LEMMA GrownStep ==
    ASSUME IInv, FragmentsHold, NEW H, JoinsOK(H), NEW b \in Brokers, Awake(b),
           Members(b) # Available(b),
           NEW e, e \in Effect, e.self = b, e.st = broker[b], e.timers = timers[b],
           WellDue(e), ReportsNamed(e.st.receivedMWOEs), NEW g, Grown(e, g),
           NEW f, f = findAndSendMWOE(g)
    PROVE  /\ f \in Effect /\ f.self = b /\ WellDue(f) /\ WellSent(b, f.out)
           /\ f.st.initial = broker[b].initial
           /\ f.st.currentConvergence = broker[b].currentConvergence
           /\ ReportsNamed(f.st.receivedMWOEs)
           /\ \A L, k : Up(H, b, L, k) => UpState(H, b, f.st, f.timers, L, k)
           /\ \A L, T : ~Down(H, b, L, T)
<1>1. /\ ListOK(H, broker[b]) /\ broker[b].bufferedSubs = {} /\ ~broker[b].initial
      /\ ~broker[b].converged /\ TimerJoins(timers[b]) = {}
      /\ \A L, T : ~Down(H, b, L, T)
  BY AwakeRuns
<1>2. /\ g \in Effect /\ g.self = b /\ MapOK(g.st.neighboursMap)
      /\ g.st.initial = broker[b].initial
      /\ g.st.currentConvergence = broker[b].currentConvergence
      /\ g.st.availableBrokers = broker[b].availableBrokers
      /\ g.st.bufferedSubs = broker[b].bufferedSubs
      /\ g.st.receivedMWOEs = broker[b].receivedMWOEs
      /\ g.st.converged = broker[b].converged
      /\ g.st.awaitingNSMsgs = broker[b].awaitingNSMsgs
      /\ g.timers = timers[b] /\ g.direct = e.direct /\ WellSent(b, g.out)
      /\ b \in g.st.members /\ NeighbourBrokers(g.st.neighboursMap) \subseteq g.st.members
      /\ g.st.members \subseteq ToSet(g.st.availableBrokers)
      /\ g.st.componentId # b => g.st.leaderHop \in NeighbourBrokers(g.st.neighboursMap)
  BY DEF Grown, SameRound, SameQueue
<1>3. Distinct(g.st.availableBrokers) /\ ListOK(H, g.st)
  BY <1>1, <1>2 DEF ListOK
<1>4. Searching(g)
  BY <1>1, <1>2, <1>3 DEF Searching
<1>5. IsConditionTable(conditionTable)
  BY DEF IInv, TypeOK
<1>6. Found(g, f)
  BY <1>4, <1>5, SearchIs
<1>7. WellDue(g)
  BY <1>2 DEF WellDue
<1>8. WellDue(f) /\ WellSent(b, f.out)
  BY <1>2, <1>5, <1>6, <1>7, FoundWell
<1>9. /\ f \in Effect /\ f.self = b /\ SameView(g.st, f.st)
      /\ f.st.receivedMWOEs = g.st.receivedMWOEs
  BY <1>2, <1>6 DEF Found
<1>10. ASSUME NEW L, NEW k, Up(H, b, L, k)
       PROVE  UpState(H, b, f.st, f.timers, L, k)
  <2>1. Runs(H, b, broker[b], timers[b], L, k)
    BY <1>10 DEF Up, UpState
  <2>2. Waiting(H, g.st, g.timers, L, k)
    BY <1>2, <2>1 DEF Runs, Waiting
  <2>3. Runs(H, b, g.st, g.timers, L, k)
    BY <1>2, <1>3, <2>1, <2>2 DEF Runs
  <2>4. TimerJoins(g.timers) = {}
    BY <1>1, <1>2
  <2> QED
    BY <1>2, <1>6, <2>3, <2>4, SearchKeepsUp
<1>11. /\ f.st.initial = broker[b].initial
       /\ f.st.currentConvergence = broker[b].currentConvergence
       /\ ReportsNamed(f.st.receivedMWOEs)
  BY <1>2, <1>9 DEF SameView
<1> QED
  BY <1>1, <1>8, <1>9, <1>10, <1>11

(* A broker sends updates to its neighbours.                               *)
LEMMA UpdatesWell ==
    ASSUME NEW b \in Brokers, NEW out \in [Nodes -> Seq(Message)], WellSent(b, out),
           NEW S \in SUBSET Brokers, NEW M \in SUBSET Brokers
    PROVE  WellSent(b, Posted(out, S, updateOf(b, M)))
<1> DEFINE u == updateOf(b, M)
<1>1. u \in Message
  BY UpdateIs
<1>2. OnChannel(b, u)
  BY DEF OnChannel, updateOf, Named
<1> HIDE DEF u
<1>3. WellSent(b, Posted(out, S, u))
  BY <1>1, <1>2, PostedWell
<1> QED
  BY <1>3 DEF u

(* A request that is answered makes the fragment grow,                     *)
LEMMA MergeGrows ==
    ASSUME IInv, FragmentsHold, NEW H, JoinsOK(H), NEW b \in Brokers, Awake(b),
           NEW e, e \in Effect, e.self = b, e.st = broker[b], WellSent(b, e.out),
           NEW c \in Available(b) \ Members(b), NEW M \in SUBSET Available(b), c \in M,
           NEW g, Merges(e, g, c, M)
    PROVE  Grown(e, g)
<1>1. /\ b \in Members(b) /\ Members(b) \subseteq Available(b)
      /\ Linked(b) \subseteq Members(b) \ {b}
  BY OwnFacts
<1>2. broker[b].componentId # b => broker[b].leaderHop \in Linked(b)
  BY AwakeRuns
<1>3. /\ g \in Effect /\ g.self = b
      /\ SameRound(broker[b], g.st) /\ SameQueue(broker[b], g.st)
      /\ g.st.members = Members(b) \cup M
      /\ g.st.componentId = leaderOf(broker[b], M)
      /\ g.st.leaderHop = (IF leaderOf(broker[b], M) # broker[b].componentId THEN c
                           ELSE broker[b].leaderHop)
      /\ NeighbourBrokers(g.st.neighboursMap) = Linked(b) \cup {c}
      /\ c \notin Linked(b) => MapOK(g.st.neighboursMap)
      /\ g.timers = e.timers /\ g.direct = e.direct
      /\ g.out = Posted(e.out, Linked(b), updateOf(b, Members(b) \cup M))
  BY DEF Merges, Members, Linked
<1>4. g.st.availableBrokers = broker[b].availableBrokers
  BY <1>3 DEF SameRound
<1>5. MapOK(g.st.neighboursMap)
  BY <1>1, <1>3
<1>6. broker[b].availableBrokers \in Seq(Brokers)
  BY DEF IInv, TypeOK, BrokerState
<1>7. Available(b) \subseteq Brokers
  BY <1>6, ElementsType DEF Available
<1>8. WellSent(b, g.out)
  <2>1. Linked(b) \in SUBSET Brokers /\ Members(b) \cup M \in SUBSET Brokers
    BY <1>1, <1>7
  <2>2. e.out \in [Nodes -> Seq(Message)]
    BY DEF Effect
  <2> QED
    BY <1>3, <2>1, <2>2, UpdatesWell
<1>9. g.st.componentId # b => g.st.leaderHop \in Linked(b) \cup {c}
  BY <1>2, <1>3
<1>10. g.st.members \subseteq ToSet(g.st.availableBrokers)
  BY <1>1, <1>3, <1>4 DEF Available
<1> QED
  BY <1>1, <1>3, <1>5, <1>8, <1>9, <1>10 DEF Grown

(* and so does an update.                                                  *)
LEMMA HearGrows ==
    ASSUME IInv, FragmentsHold, NEW H, JoinsOK(H), NEW b \in Brokers, Awake(b),
           NEW e, e \in Effect, e.self = b, e.st = broker[b], WellSent(b, e.out),
           NEW c \in Linked(b), NEW M \in SUBSET Available(b),
           NEW g, Hears(e, g, c, M)
    PROVE  Grown(e, g)
<1>1. /\ b \in Members(b) /\ Members(b) \subseteq Available(b)
      /\ Linked(b) \subseteq Members(b) \ {b}
  BY OwnFacts
<1>2. /\ broker[b].componentId # b => broker[b].leaderHop \in Linked(b)
      /\ MapOK(broker[b].neighboursMap)
  BY AwakeRuns
<1>3. /\ g \in Effect /\ g.self = b
      /\ SameRound(broker[b], g.st) /\ SameQueue(broker[b], g.st)
      /\ g.st.members = Members(b) \cup M
      /\ g.st.componentId = leaderOf(broker[b], M)
      /\ g.st.leaderHop = (IF leaderOf(broker[b], M) = broker[b].componentId
                           THEN broker[b].leaderHop ELSE c)
      /\ g.st.neighboursMap = broker[b].neighboursMap
      /\ g.timers = e.timers /\ g.direct = e.direct
      /\ g.out = Posted(e.out, Linked(b) \ {c}, updateOf(b, M))
  BY DEF Hears, Members, Linked
<1>4. g.st.availableBrokers = broker[b].availableBrokers
  BY <1>3 DEF SameRound
<1>5. broker[b].availableBrokers \in Seq(Brokers)
  BY DEF IInv, TypeOK, BrokerState
<1>6. Available(b) \subseteq Brokers
  BY <1>5, ElementsType DEF Available
<1>7. WellSent(b, g.out)
  <2>1. Linked(b) \ {c} \in SUBSET Brokers /\ M \in SUBSET Brokers
    BY <1>1, <1>6
  <2>2. e.out \in [Nodes -> Seq(Message)]
    BY DEF Effect
  <2> QED
    BY <1>3, <2>1, <2>2, UpdatesWell
<1>8. g.st.componentId # b => g.st.leaderHop \in NeighbourBrokers(g.st.neighboursMap)
  BY <1>2, <1>3 DEF Linked
<1>9. g.st.members \subseteq ToSet(g.st.availableBrokers)
  BY <1>1, <1>3, <1>4 DEF Available
<1>10. NeighbourBrokers(g.st.neighboursMap) \subseteq g.st.members
  BY <1>1, <1>3 DEF Linked
<1> QED
  BY <1>1, <1>2, <1>3, <1>7, <1>8, <1>9, <1>10 DEF Grown

(* A step that ends with a search in a larger fragment.                    *)
LEMMA GrowingStep ==
    ASSUME IInv, FragmentsHold, NEW H, JoinsOK(H), NEW b \in Brokers, Awake(b),
           Members(b) # Available(b), NEW a \in Arrivals(b),
           a.msg.type \in {"MWOE", "Expand", "Connect", "Update"},
           NEW g, Grown(Start(b, a), g),
           NEW f, f = findAndSendMWOE(g), Acts(b, a, f)
    PROVE  JoinsOK(H)'
<1> DEFINE e == Start(b, a)
<1>1. /\ e \in Effect /\ e.self = b /\ e.st = broker[b] /\ e.timers = timers[b]
      /\ WellDue(e) /\ ReportsNamed(e.st.receivedMWOEs)
  BY StartWell, WorkArrives
<1>2. Grown(e, g)
  OBVIOUS
<1> HIDE DEF e
<1>3. /\ WellDue(f) /\ WellSent(b, f.out)
      /\ f.st.initial = broker[b].initial
      /\ f.st.currentConvergence = broker[b].currentConvergence
      /\ ReportsNamed(f.st.receivedMWOEs)
      /\ \A L, k : Up(H, b, L, k) => UpState(H, b, f.st, f.timers, L, k)
      /\ \A L, T : ~Down(H, b, L, T)
  BY <1>1, <1>2, GrownStep
<1> QED
  BY <1>3, QuietStep DEF WellDue

(* A request is answered or kept.                                          *)
LEMMA ConnectStep ==
    ASSUME IInv, FragmentsHold, NEW H, JoinsOK(H), NEW b \in Brokers,
           HandleConnectionMessage(b)
    PROVE  JoinsOK(H)'
<1> PICK a \in Arrivals(b) :
         a.msg.type = "Connect" /\ Finish(b, a, handleConnectionMessage(Start(b, a), a.msg))
  BY DEF HandleConnectionMessage, Arriving
<1> DEFINE e == Start(b, a)
           con == a.msg
           f == handleConnectionMessage(e, con)
<1>1. /\ e \in Effect /\ e.self = b /\ e.st = broker[b] /\ e.timers = timers[b]
      /\ WellDue(e) /\ WellSent(b, e.out) /\ ReportsNamed(e.st.receivedMWOEs)
      /\ MapOK(e.st.neighboursMap) /\ con \in ConnectMessage
  BY StartWell, WorkArrives, MessageTypes
<1>2. PICK i \in DOMAIN now : now[i] = To(b, con)
  BY WorkArrives
<1>3. Acts(b, a, Fault(e)) => JoinsOK(H)'
  BY FaultedStep
<1>4. CASE ~Fitting(e, con)
  <2>1. Keeps(e, f, con)
    BY <1>1, <1>4, KeepIs
  <2>2. Acts(b, a, f) \/ Acts(b, a, Fault(e))
    <3>1. f \in Effect
      BY <2>1 DEF Keeps
    <3> QED
      BY <1>1, <3>1, FinishActs
  <2> HIDE DEF e, f, con
  <2>3. /\ SameView(broker[b], f.st) /\ SameQueue(broker[b], f.st) /\ f.timers = timers[b]
        /\ f.st.receivedMWOEs = e.st.receivedMWOEs /\ SendsNothing(e, f)
    BY <1>1, <2>1 DEF Keeps
  <2>4. WellDue(f) /\ WellSent(b, f.out)
    BY <1>1, <2>3 DEF SendsNothing, WellDue
  <2>5. a.msg.type \in {"MWOE", "Expand", "Connect", "Update"}
    OBVIOUS
  <2>6. ReportsNamed(f.st.receivedMWOEs)
    BY <1>1, <2>3
  <2>7. Acts(b, a, f) => JoinsOK(H)'
    BY <2>3, <2>4, <2>5, <2>6, ViewStep
  <2> QED
    BY <1>3, <2>2, <2>7
<1>5. CASE Fitting(e, con)
  <2>1. /\ con.convergenceNumber = Round(b) /\ con.broker \in broker[b].sentConnects
    BY <1>1, <1>5 DEF Fitting, Round
  <2>2. now[i].to = b /\ now[i].msg = con
    BY <1>2 DEF To
  <2>3. TypeOK
    BY DEF IInv
  <2>4. /\ Awake(b) /\ con.broker \in Available(b) \ Members(b)
        /\ con.broker \in con.members /\ con.members \subseteq Available(b)
    BY <2>1, <2>2, <2>3, ConnectFacts
  <2>5. b \in Members(b) /\ Members(b) # Available(b)
    BY <2>4, OwnFacts
  <2>6. Member(e)
    <3>1. Good(e)
      BY StartGood
    <3> QED
      BY <1>1, <2>5, <3>1 DEF Member, Good, Members
  <2>7. PICK g : Merges(e, g, con.broker, con.members) /\ f = findAndSendMWOE(g)
    BY <1>1, <1>5, <2>6, MeetIs
  <2>8. Grown(e, g)
    BY <1>1, <2>4, <2>7, MergeGrows
  <2>9. f \in Effect
    BY <1>1, <2>4, <2>5, <2>7, <2>8, GrownStep
  <2>10. Acts(b, a, f) \/ Acts(b, a, Fault(e))
    BY <1>1, <2>9, FinishActs
  <2>11. Acts(b, a, f) => JoinsOK(H)'
    BY <2>4, <2>5, <2>7, <2>8, GrowingStep
  <2> QED
    BY <1>3, <2>10, <2>11
<1> QED
  BY <1>4, <1>5

(* An update is taken over.                                                *)
LEMMA UpdateStep ==
    ASSUME IInv, FragmentsHold, NEW H, JoinsOK(H), NEW b \in Brokers,
           HandleUpdateMessage(b)
    PROVE  JoinsOK(H)'
<1> PICK a \in Arrivals(b) :
         a.msg.type = "Update" /\ Finish(b, a, handleUpdateMessage(Start(b, a), a.msg))
  BY DEF HandleUpdateMessage, Arriving
<1> DEFINE e == Start(b, a)
           m == a.msg
           f == handleUpdateMessage(e, m)
<1>1. /\ e \in Effect /\ e.self = b /\ e.st = broker[b] /\ e.timers = timers[b]
      /\ WellDue(e) /\ WellSent(b, e.out) /\ ReportsNamed(e.st.receivedMWOEs)
      /\ MapOK(e.st.neighboursMap) /\ m \in UpdateMessage
  BY StartWell, WorkArrives, MessageTypes
<1>2. PICK s \in Brokers : m \in ToSet(chan[s][b]) /\ m.sender = s
  BY WorkArrives
<1>3. Acts(b, a, Fault(e)) => JoinsOK(H)'
  BY FaultedStep
<1>4. /\ Awake(b) /\ s \in Linked(b) /\ m.members \subseteq Available(b)
      /\ Members(b) # Available(b)
  BY <1>2, UpdateFacts
<1>5. b \in Members(b)
  BY <1>4, OwnFacts
<1>6. Member(e)
  <2>1. Good(e)
    BY StartGood
  <2> QED
    BY <1>1, <1>5, <2>1 DEF Member, Good, Members
<1>7. PICK g : Hears(e, g, m.sender, m.members) /\ f = findAndSendMWOE(g)
  BY <1>1, <1>6, HearIs
<1>8. Grown(e, g)
  BY <1>1, <1>2, <1>4, <1>7, HearGrows
<1>9. f \in Effect
  BY <1>1, <1>4, <1>7, <1>8, GrownStep
<1>10. Acts(b, a, f) \/ Acts(b, a, Fault(e))
  BY <1>1, <1>9, FinishActs
<1>11. Acts(b, a, f) => JoinsOK(H)'
  BY <1>4, <1>7, <1>8, GrowingStep
<1> QED
  BY <1>3, <1>10, <1>11

(* A request that is sent is under way.                                    *)
LEMMA AskingNow ==
    ASSUME IInv, NEW H, JoinsOK(H), NEW b \in Brokers, NEW a, NEW f, Acts(b, a, f),
           NEW c \in Brokers, NEW con \in Message, con.type = "Connect",
           To(c, con) \in ToSet(f.direct)
    PROVE  Asking(c, con) \in Asks'
<1> DEFINE v == To(c, con)
<1>1. v \in ToSet(f.direct)
  OBVIOUS
<1> HIDE DEF v
<1>2. f.direct \in Seq(Event)
  BY DEF Acts, Effect
<1>3. now' = rest(a) \o f.direct /\ rest(a) \in Seq(Event)
  <2>1. QueueOK(now)
    BY DEF JoinsOK
  <2> QED
    BY <2>1, StepFacts
<1>4. v \in ToSet(now')
  <2>1. ToSet(rest(a) \o f.direct) = ToSet(rest(a)) \cup ToSet(f.direct)
    BY <1>2, <1>3, ConcatElements
  <2> QED
    BY <1>1, <1>3, <2>1
<1>5. PICK i \in DOMAIN now' : now'[i] = v
  BY <1>4 DEF ToSet
<1>6. now'[i].to = c /\ now'[i].msg = con
  BY <1>5 DEF To, v
<1>7. con \in Due("Connect", c)'
  BY <1>5, <1>6 DEF Due
<1> QED
  BY <1>7 DEF Asks

(* An order to expand is passed on, or carried out.                        *)
LEMMA ExpandStep ==
    ASSUME IInv, FragmentsHold, Frag!FragmentsNext \/ UNCHANGED Frag!fragments,
           NEW H, JoinsOK(H), NEW b \in Brokers, HandleExpandMessage(b)
    PROVE  JoinsOK(H)'
<1> PICK a \in Arrivals(b) :
         a.msg.type = "Expand" /\ Finish(b, a, handleExpandMessage(Start(b, a), a.msg))
  BY DEF HandleExpandMessage, Arriving
<1> DEFINE e == Start(b, a)
           m == a.msg
           f == handleExpandMessage(e, m)
           c == m.broker
<1>1. /\ e \in Effect /\ e.self = b /\ e.st = broker[b] /\ e.timers = timers[b]
      /\ WellDue(e) /\ WellSent(b, e.out) /\ ReportsNamed(e.st.receivedMWOEs)
      /\ MapOK(e.st.neighboursMap) /\ m \in ExpandMessage /\ ~e.fault
  BY StartWell, WorkArrives, MessageTypes
<1>2. Acts(b, a, Fault(e)) => JoinsOK(H)'
  BY FaultedStep
<1>3. c \in Brokers /\ c \in Nodes /\ b \in Nodes
  BY <1>1 DEF ExpandMessage, Nodes
<1>4. connectOf(e) \in Message /\ connectOf(e).type = "Connect"
  BY <1>1, RequestIs DEF connectOf
<1>5. Quick(To(c, connectOf(e)))
  BY <1>3 DEF Quick, To, Named, connectOf
<1>6. CASE m.piggyback # <<>>
  <2>1. /\ OnlySends(e, f)
        /\ orderOf(c, Tail(m.piggyback)) \in ExpandMessage
        /\ SendsOver(e, f, Head(m.piggyback), orderOf(c, Tail(m.piggyback)))
    BY <1>1, <1>6, PassDownIs
  <2>2. Acts(b, a, f) \/ Acts(b, a, Fault(e))
    <3>1. f \in Effect
      BY <2>1 DEF OnlySends
    <3> QED
      BY <1>1, <3>1, FinishActs
  <2> PICK o : o = orderOf(c, Tail(m.piggyback))
    OBVIOUS
  <2>3. o \in Message /\ OnChannel(b, o)
    <3>1. o \in Message
      <4>1. Tail(m.piggyback) \in Seq(Brokers)
        BY <1>1, <1>6 DEF ExpandMessage
      <4> QED
        BY <1>3, <4>1, OrderIs
    <3> QED
      BY <3>1 DEF OnChannel, Named, orderOf
  <2>4. SendsOver(e, f, Head(m.piggyback), o)
    BY <2>1
  <2> HIDE DEF e, f
  <2>5. WellSent(b, f.out)
    BY <1>1, <2>3, <2>4, SentOverWell
  <2>6. f.direct = e.direct /\ f.st = broker[b] /\ f.timers = timers[b]
    BY <1>1, <2>1, <2>4 DEF SendsOver, OnlySends
  <2>7. WellDue(f) /\ ReportsNamed(f.st.receivedMWOEs)
    BY <1>1, <2>6 DEF WellDue
  <2>8. SameView(broker[b], f.st) /\ SameQueue(broker[b], f.st)
    BY <2>6 DEF SameView, SameQueue
  <2>9. Acts(b, a, f) => JoinsOK(H)'
    BY <2>5, <2>6, <2>7, <2>8, ViewStep
  <2> QED
    BY <1>2, <2>2, <2>9
<1>7. CASE m.piggyback = <<>> /\ ConnectsFrom(e, c) = {}
  <2>1. Requests(e, f, c)
    BY <1>1, <1>7, AskIs
  <2>2. Acts(b, a, f) \/ Acts(b, a, Fault(e))
    <3>1. f \in Effect
      BY <2>1 DEF Requests
    <3> QED
      BY <1>1, <3>1, FinishActs
  <2> PICK r : r = connectOf(e)
    OBVIOUS
  <2>3. r \in Message /\ Quick(To(c, r)) /\ SendsNow(e, f, c, r)
    BY <1>4, <1>5, <2>1 DEF Requests
  <2> HIDE DEF e, f, c
  <2>4. /\ SameView(broker[b], f.st) /\ SameQueue(broker[b], f.st) /\ f.timers = timers[b]
        /\ f.st.receivedMWOEs = e.st.receivedMWOEs
    BY <1>1, <2>1 DEF Requests
  <2>5. WellDue(f)
    BY <1>1, <1>3, <2>3, SentNowWell
  <2>6. WellSent(b, f.out) /\ ReportsNamed(f.st.receivedMWOEs)
    BY <1>1, <2>3, <2>4 DEF SendsNow
  <2>7. Acts(b, a, f) => JoinsOK(H)'
    BY <2>4, <2>5, <2>6, ViewStep
  <2> QED
    BY <1>2, <2>2, <2>7
<1>8. CASE m.piggyback = <<>> /\ ConnectsFrom(e, c) # {} /\ Acts(b, a, f)
  <2>1. OutExpands(b) # {}
    <3>1. CASE \E i \in DOMAIN now : now[i] = To(b, m)
      <4>1. PICK i \in DOMAIN now : now[i] = To(b, m)
        BY <3>1
      <4>2. now[i].to = b /\ now[i].msg = m
        BY <4>1 DEF To
      <4>3. m \in Due("Expand", b)
        BY <4>2 DEF Due
      <4> QED
        BY <4>3 DEF OutExpands
    <3>2. CASE \E s \in Brokers : m \in ToSet(chan[s][b])
      <4>1. PICK s \in Brokers : m \in ToSet(chan[s][b])
        BY <3>2
      <4>2. m \in {v \in Under("Expand", s, b) : Destination(b, v) = b}
        BY <1>8, <4>1 DEF Under, Destination
      <4> DEFINE orders(x, y) == {v \in Under("Expand", x, y) : Destination(y, v) = b}
      <4>3. m \in orders(s, b)
        BY <4>2
      <4>4. OutExpands(b) = Due("Expand", b) \cup UNION {orders(x, y) : x \in Brokers, y \in Brokers}
        BY DEF OutExpands
      <4> HIDE DEF orders
      <4> QED
        BY <4>3, <4>4
    <3> QED
      BY <3>1, <3>2, WorkArrives
  <2>2. /\ Awake(b) /\ Members(b) # Available(b) /\ ToldToAsk[b] \in Available(b) \ Members(b)
    BY <2>1, ExpandFacts DEF IInv
  <2>3. b \in Members(b) /\ Members(b) \subseteq Available(b) /\ Available(b) \subseteq Brokers
    <3>1. broker[b].availableBrokers \in Seq(Brokers)
      BY DEF IInv, TypeOK, BrokerState
    <3> QED
      BY <2>2, <3>1, OwnFacts, ElementsType DEF Available
  <2>4. Member(e)
    <3>1. Good(e)
      BY StartGood
    <3> QED
      BY <1>1, <2>3, <3>1 DEF Member, Good, Members
  <2>5. PICK con \in ConnectsFrom(e, c) : \E g :
             /\ con \in ConnectMessage
             /\ Merges(e, g, con.broker, con.members)
             /\ handleExpandMessage(e, m) = SendDirect(findAndSendMWOE(g), c, connectOf(e))
    BY <1>1, <1>8, <2>4, AnswerIs
  <2>6. PICK g : /\ con \in ConnectMessage
                 /\ Merges(e, g, con.broker, con.members)
                 /\ f = SendDirect(findAndSendMWOE(g), c, connectOf(e))
    BY <2>5
  <2>7. /\ con \in broker[b].receivedConnects /\ con.broker = c
        /\ con.convergenceNumber = Round(b)
    BY <1>1 DEF ConnectsFrom, Round
  <2> PICK r : r = connectOf(e)
    OBVIOUS
  <2> PICK h : h = findAndSendMWOE(g)
    OBVIOUS
  <2>8. h \in Effect /\ f = SendDirect(h, c, r)
    <3>1. g \in Effect
      BY <2>6 DEF Merges
    <3> QED
      BY <2>6, <3>1, FindAndSendMWOEPreserves DEF IInv, TypeOK
  <2>9. /\ OnlySends(h, f) /\ SendsNow(h, f, c, r)
    BY <1>3, <1>4, <2>8, SendDirectIs
  <2>10. r \in Message /\ Quick(To(c, r)) /\ r.type = "Connect"
    BY <1>4, <1>5
  <2>11. Asking(c, r) = [from |-> b, to |-> c, number |-> Round(b), members |-> Members(b)]
    BY <1>1 DEF Asking, connectOf, Round, Members
  <2> HIDE DEF e, f, m
  <2>12. Asking(c, r) \in Asks'
    <3>1. ToSet(f.direct) = ToSet(h.direct) \cup {To(c, r)}
      <4>1. h \in Effect /\ c \in Nodes /\ r \in Message /\ SendsNow(h, f, c, r)
        BY <1>3, <2>8, <2>9, <2>10
      <4> HIDE DEF c
      <4> QED
        BY <4>1, SentNow
    <3> QED
      BY <1>3, <1>8, <2>10, <3>1, AskingNow
  <2>13. ToldToAsk[b] # NULL
    BY <2>2, <2>3, NodesAssumption
  <2>14. c = ToldToAsk[b]
    BY <1>3, <2>11, <2>12, <2>13, ToldIs
  <2>15. Joinable(b, con)
    BY <2>7, <2>13, <2>14, AnswerFacts
  <2>16. Grown(e, g)
    BY <1>1, <2>2, <2>6, <2>15, MergeGrows DEF Joinable
  <2>17. /\ h.self = b /\ WellDue(h) /\ WellSent(b, h.out)
         /\ h.st.initial = broker[b].initial
         /\ h.st.currentConvergence = broker[b].currentConvergence
         /\ ReportsNamed(h.st.receivedMWOEs)
         /\ \A L, k : Up(H, b, L, k) => UpState(H, b, h.st, h.timers, L, k)
         /\ \A L, T : ~Down(H, b, L, T)
    BY <1>1, <2>2, <2>16, GrownStep
  <2>18. WellDue(f)
    BY <1>3, <2>8, <2>9, <2>10, <2>17, SentNowWell
  <2>19. f.st = h.st /\ f.timers = h.timers /\ f.out = h.out
    BY <2>9 DEF OnlySends, SendsNow
  <2>20. a.msg.type \in {"MWOE", "Expand", "Connect", "Update"}
    BY DEF m
  <2> QED
    BY <1>8, <2>17, <2>18, <2>19, <2>20, QuietStep DEF WellDue
<1>9. CASE m.piggyback = <<>> /\ ConnectsFrom(e, c) # {}
  <2>1. Acts(b, a, f) \/ Acts(b, a, Fault(e))
    <3>1. CASE ReadsUninitialized(b, m)
      <4>1. Fault(e) \in Effect
        BY <1>1, FaultType
      <4> QED
        BY <3>1, <4>1 DEF Finish, Acts
    <3>2. CASE ~ReadsUninitialized(b, m)
      <4>1. Member(e)
        BY <3>2, StartMember
      <4>2. f \in Effect
        BY <1>1, <4>1, HandleExpandPreserves DEF IInv, TypeOK, Member
      <4> QED
        BY <3>2, <4>2 DEF Finish, Acts
    <3> QED
      BY <3>1, <3>2
  <2> QED
    BY <1>2, <1>8, <1>9, <2>1
<1> QED
  BY <1>6, <1>7, <1>9

-----------------------------------------------------------------------------
(* Where the messages come from by which brokers register, join and leave. *)

(* The timers that a broker has.                                           *)
LEMMA TimerTypes ==
    ASSUME NEW H, JoinsOK(H), NEW b \in Brokers
    PROVE  TypesOf(timers[b]) \subseteq {"WakeUp", "Sleep", "Join"}
<1>1. \A L, k : Up(H, b, L, k) => TypesOf(timers[b]) \subseteq {"Sleep", "Join"}
  BY DEF Up, UpState, Runs
<1>2. \A L, T : Down(H, b, L, T) => TypesOf(timers[b]) \subseteq T
  BY DEF Down, DownState
<1> QED
  BY <1>1, <1>2, UpOrDown

(* Messages about registering, joining and leaving are first in the queue; *)
(* nothing else is due when a timer fires.                                 *)
LEMMA ControlArrives ==
    ASSUME IInv, NEW H, JoinsOK(H), NEW b \in Brokers \cup {NS}, NEW a \in Arrivals(b),
           a.msg.type \in {"NSRequest", "NSMessage", "Disconnection", "Join", "WakeUp", "Sleep"}
    PROVE  /\ ~crashed
           /\ \/ /\ now # <<>> /\ a.from = NULL /\ Head(now) = To(b, a.msg)
                 /\ a.msg.type \in {"NSRequest", "NSMessage", "Disconnection", "Join"}
                 /\ To(b, a.msg) \in Control
              \/ /\ now = <<>> /\ a.from = b /\ a.msg \in timers[b] /\ b \in Brokers
                 /\ a.msg.type \in {"Join", "WakeUp", "Sleep"}
<1>0. /\ KernelTypeOK /\ now \in Seq(Event) /\ NULL \notin Nodes
      /\ chan \in [Nodes -> [Nodes -> Seq(Message)]] /\ QueueOK(now) /\ ChannelsOK
      /\ b \in Nodes
  BY NodesAssumption DEF IInv, TypeOK, KernelTypeOK, Nodes, JoinsOK
<1>1. ASSUME now # <<>>, a.from = NULL, Head(now) = To(b, a.msg)
      PROVE  /\ a.msg.type \in {"NSRequest", "NSMessage", "Disconnection", "Join"}
             /\ To(b, a.msg) \in Control
  <2>1. IsControl(To(b, a.msg)) \/ Quick(To(b, a.msg))
    BY <1>0, <1>1, QueueTail
  <2>2. ~Quick(To(b, a.msg))
    BY DEF Quick, To
  <2>3. IsControl(To(b, a.msg))
    BY <2>1, <2>2
  <2>4. To(b, a.msg) \in ToSet(now)
    BY <1>0, <1>1, QueueTail
  <2> QED
    BY <2>3, <2>4 DEF IsControl, To, Control, ControlOf
<1>2. ~(a.from \in Nodes \ {b} /\ chan[a.from][b] # <<>> /\ a.msg = Head(chan[a.from][b]))
  <2> SUFFICES ASSUME a.from \in Nodes \ {b}, chan[a.from][b] # <<>>,
                      a.msg = Head(chan[a.from][b])
               PROVE  FALSE
    OBVIOUS
  <2>1. \A m \in ToSet(chan[a.from][b]) : OnChannel(a.from, m)
    BY <1>0 DEF ChannelsOK
  <2>2. a.msg \in ToSet(chan[a.from][b])
    BY <1>0, TailElements
  <2>3. OnChannel(a.from, a.msg)
    BY <2>1, <2>2
  <2> QED
    BY <2>3 DEF OnChannel
<1>3. ASSUME a.from = b, a.msg \in timers[b]
      PROVE  b \in Brokers /\ a.msg.type \in {"Join", "WakeUp", "Sleep"}
  <2>1. b # NS
    BY <1>0, <1>3 DEF ChannelsOK
  <2>2. CASE b \in Brokers
    <3>1. TypesOf(timers[b]) \subseteq {"WakeUp", "Sleep", "Join"}
      BY <2>2, TimerTypes
    <3> QED
      BY <1>3, <2>2, <3>1 DEF TypesOf
  <2> QED
    BY <2>1, <2>2
<1> QED
  BY <1>0, <1>1, <1>2, <1>3, ArrivalCases

(* No change is under way when nothing is due without delay.               *)
LEMMA CalmWhenIdle ==
    ASSUME NEW H, JoinsOK(H), now = <<>>
    PROVE  Calm(H)
<1>1. Control = {}
  BY NoQueue DEF Control
<1>2. \A x : ~Requesting(H, x) /\ ~Answering(H, x)
  BY <1>1 DEF Requesting, Answering
<1>3. \A x, D : ~Joining(H, x, D)
  BY <1>1 DEF Joining, Announced
<1>4. \A x, D : ~Leaving(H, x, D)
  BY <1>1, ZenonT(30) DEF Leaving, Announced
<1> QED
  BY <1>2, <1>3, <1>4 DEF JoinsOK, Phase

(* The messages of the two timers carry nothing.                           *)
LEMMA DelayMessages ==
    ASSUME NEW m \in Message
    PROVE  /\ m.type = "WakeUp" => m = wakeUpDelayMsg
           /\ m.type = "Sleep" => m = sleepDelayMsg
BY DEF Message, ProtocolMessage, JoinMessage, MWOEMessage, ExpandMessage, ConnectMessage,
       UpdateMessage, NSRequest, NSMessage, DisconnectionRequestMessage,
       ConnectionRequestMessage, SubscriptionMessage, UnsubscriptionMessage, PublishMessage,
       wakeUpDelayMsg, sleepDelayMsg, publishDelayMsg, subscribeDelayMsg, unsubscribeDelayMsg

-----------------------------------------------------------------------------
(* What a step keeps of the brokers that take no step                      *)

Place(H, b, L, D) ==
    IF b \in RegisteredBrokers THEN Up(H, b, L, IF b \in D THEN 1 ELSE 0)
    ELSE Down(H, b, L, {"WakeUp"})

(* All brokers but x are at their places.                                  *)
LEMMA OthersPlace ==
    ASSUME NEW H, NEW x, NEW L, NEW D
    PROVE  /\ Others(H, x, L, D) <=> \A b \in Brokers \ {x} : Place(H, b, L, D)
           /\ Others(H, x, L, D)' <=> \A b \in Brokers \ {x} : Place(H, b, L, D)'
BY DEF Others, Place

(* A broker that takes no step keeps its place.                            *)
LEMMA PlaceKept ==
    ASSUME NEW H, NEW b, NEW L, NEW D, NEW E, Place(H, b, L, D),
           broker'[b] = broker[b], timers'[b] = timers[b],
           b \in RegisteredBrokers' <=> b \in RegisteredBrokers, b \in D <=> b \in E
    PROVE  Place(H, b, L, E)'
BY DEF Place, Up, Down

(* The rounds, if brokers only go on, and only over those that have.       *)
LEMMA RoundsStep ==
    ASSUME TypeOK, NEW H \in Histories, NEW G \in Histories, RoundsOK(H),
           \A x \in Brokers : Round(x)' \in Nat /\ Round(x)' >= Round(x),
           \A c \in Brokers : \A n \in 0 .. Round(c)' :
              Through(c, n)' /\ c \in G[n] =>
                \/ n <= Round(c) /\ Through(c, n) /\ G[n] = H[n]
                \/ \A x \in G[n] : Round(x) >= n
    PROVE  RoundsOK(G)'
<1> SUFFICES ASSUME NEW c \in Brokers, NEW n \in 0 .. Round(c)', Through(c, n)', c \in G[n],
                    NEW x \in G[n]
             PROVE  Round(x)' >= n
  BY DEF RoundsOK
<1>1. n \in Nat
  OBVIOUS
<1>2. Round(c) \in Nat
  BY DEF TypeOK, BrokerState, Round
<1>3. x \in Brokers
  BY <1>1 DEF Histories
<1>4. Round(x) >= n
  <2>1. CASE n <= Round(c) /\ Through(c, n) /\ G[n] = H[n]
    <3>1. n \in 0 .. Round(c)
      BY <1>1, <1>2, <2>1
    <3> QED
      BY <2>1, <3>1 DEF RoundsOK
  <2>2. CASE \A y \in G[n] : Round(y) >= n
    BY <2>2
  <2> QED
    BY <2>1, <2>2
<1>5. Round(x) \in Nat
  BY <1>3 DEF TypeOK, BrokerState, Round
<1> QED
  BY <1>1, <1>3, <1>4, <1>5

(* None goes on.                                                           *)
LEMMA RoundsKept ==
    ASSUME TypeOK, NEW H \in Histories, NEW G \in Histories, RoundsOK(H),
           \A x \in Brokers : Round(x)' = Round(x),
           \A c \in Brokers : Awake(c) => Awake(c)',
           \A c \in Brokers : \A n \in 0 .. Round(c) : G[n] = H[n]
    PROVE  RoundsOK(G)'
<1>1. \A x \in Brokers : Round(x) \in Nat
  BY DEF TypeOK, BrokerState, Round
<1>2. ASSUME NEW c \in Brokers, NEW n \in 0 .. Round(c)', Through(c, n)'
      PROVE  n <= Round(c) /\ Through(c, n) /\ G[n] = H[n]
  BY <1>1, <1>2 DEF Through
<1> QED
  BY <1>1, <1>2, RoundsStep

(* The only event without delay.                                           *)
LEMMA SingleEvent ==
    ASSUME NEW ev \in Event, NEW d, d = <<>> \o <<ev>>
    PROVE  /\ d \in Seq(Event) /\ Len(d) = 1 /\ Head(d) = ev /\ ToSet(d) = {ev} /\ Tail(d) = <<>>
           /\ IsControl(ev) => QueueOK(d) /\ ControlOf(d) = {ev}
<1> PICK t : t = <<ev>>
  OBVIOUS
<1>1. d = t
  OBVIOUS
<1>2. IsControl(ev) => QueueOK(t) /\ ControlOf(t) = {ev}
  BY OneInQueue
<1>3. t \in Seq(Event) /\ Len(t) = 1 /\ Head(t) = ev /\ ToSet(t) = {ev} /\ Tail(t) = <<>>
  BY OneElement
<1> QED
  BY <1>1, <1>2, <1>3

(* What holds of H and G alike at a step of broker b.                      *)
LEMMA ChannelsAndReports ==
    ASSUME IInv, NEW H, JoinsOK(H), NEW b \in Brokers, NEW a, NEW e, Acts(b, a, e),
           WellSent(b, e.out), ReportsNamed(e.st.receivedMWOEs)
    PROVE  ChannelsOK' /\ NoEmptyReport'
BY ChannelsStep, ReportsStep DEF JoinsOK

(* A broker wakes up.                                                      *)
LEMMA WakeStep ==
    ASSUME IInv, NEW H, JoinsOK(H), NEW b \in Brokers, WakeUp(b)
    PROVE  JoinsOK(H)'
<1> PICK a \in Arrivals(b) : a.msg.type = "WakeUp" /\ Finish(b, a, wakeUp(Start(b, a)))
  BY DEF WakeUp, Arriving
<1> DEFINE e == Start(b, a)
           f == wakeUp(e)
           request == [type |-> "NSRequest", requester |-> b]
           ev == To(NS, request)
<1>1. /\ e \in Effect /\ e.self = b /\ e.st = broker[b] /\ WellSent(b, e.out)
      /\ ReportsNamed(e.st.receivedMWOEs) /\ e.direct = <<>>
      /\ e.timers = IF a.from = b THEN timers[b] \ {a.msg} ELSE timers[b]
  BY StartWell, StartIs
<1>2. OnlySends(e, f) /\ SendsNow(e, f, NS, request)
  BY <1>1, WakeIs
<1>3. Acts(b, a, f)
  <2>1. f \in Effect
    BY <1>2 DEF OnlySends
  <2> QED
    BY <1>1, <2>1, FinishActs
<1>4. /\ now = <<>> /\ a.from = b /\ a.msg \in timers[b] /\ a.msg = wakeUpDelayMsg
      /\ timers[b] \in SUBSET Message
  <2>1. now = <<>> /\ a.from = b /\ a.msg \in timers[b]
    BY ControlArrives
  <2>2. timers[b] \in SUBSET Message
    BY DEF IInv, TypeOK, KernelTypeOK, Nodes
  <2> QED
    BY <2>1, <2>2, DelayMessages
<1>5. Calm(H) /\ HistoryOK(H) /\ QueueOK(now) /\ RoundsOK(H)
  BY <1>4, CalmWhenIdle DEF JoinsOK
<1>6. request \in Message /\ ev \in Event /\ IsControl(ev)
  BY DEF Message, ProtocolMessage, NSRequest, To, Event, Nodes, IsControl
<1>7. f.direct = <<>> \o <<ev>>
  BY <1>1, <1>2 DEF SendsNow
<1> HIDE DEF e, f, ev
<1>8. /\ now' = rest(a) \o f.direct
      /\ broker'[b] = broker[b] /\ timers'[b] = timers[b] \ {a.msg}
      /\ \A c \in Brokers \ {b} : broker'[c] = broker[c] /\ timers'[c] = timers[c]
      /\ RegisteredBrokers' = RegisteredBrokers
      /\ brokerList' = brokerList /\ convergenceNumber' = convergenceNumber
  BY <1>1, <1>2, <1>3, <1>4, <1>5, StepFacts DEF OnlySends
<1>9. now' = f.direct
  <2>1. rest(a) = <<>>
    BY <1>4, NodesAssumption DEF rest
  <2>2. f.direct \in Seq(Event)
    BY <1>6, <1>7, SingleEvent
  <2> QED
    BY <1>8, <2>1, <2>2
<1>10. Len(now') = 1 /\ QueueOK(now') /\ Control' = {ev}
  BY <1>6, <1>7, <1>9, SingleEvent DEF Control
<1>11. \A c \in Brokers : Round(c)' = Round(c)
  BY <1>8 DEF Round
<1>12. \A c \in Brokers : Awake(c) => Awake(c)'
  <2>1. \A c \in Brokers : broker'[c].initial = broker[c].initial
    BY <1>8
  <2>2. \A c \in Brokers : Undisturbed(Control', c)
    BY <1>10 DEF Undisturbed, ev, To
  <2> QED
    BY <1>8, <2>1, <2>2, AwakeIs, AwakeNextIs
<1>13. RoundsOK(H)' /\ HistoryOK(H)'
  <2>1. H \in Histories
    BY <1>5 DEF HistoryOK
  <2>2. RoundsOK(H)'
    BY <1>5, <1>11, <1>12, <2>1, RoundsKept DEF IInv
  <2> QED
    BY <1>5, <1>8, <2>2 DEF HistoryOK
<1>14. Phase(H)'
  <2> DEFINE L == convergenceNumber - 1
  <2>1. \A c \in Brokers : Place(H, c, L, {})
    <3>1. \A c \in Brokers \ {NULL} : Place(H, c, L, {})
      BY <1>5, OthersPlace DEF Calm
    <3> QED
      BY <3>1, NodesAssumption
  <2>2. b \notin RegisteredBrokers /\ Down(H, b, L, {"WakeUp"})
    <3>1. Place(H, b, L, {})
      BY <2>1
    <3>2. "WakeUp" \in TypesOf(timers[b])
      BY <1>4 DEF TypesOf
    <3>3. \A k : ~Up(H, b, L, k)
      BY <3>2 DEF Up, UpState, Runs
    <3> QED
      BY <3>1, <3>3 DEF Place
  <2>3. Down(H, b, L, {})'
    <3>1. TypesOf(timers[b] \ {a.msg}) \subseteq {}
      <4>1. TypesOf(timers[b]) \subseteq {"WakeUp"}
        BY <2>2 DEF Down, DownState
      <4>2. \A m \in timers[b] \ {a.msg} : m.type # "WakeUp"
        BY <1>4, DelayMessages
      <4> QED
        BY <4>1, <4>2 DEF TypesOf
    <3>2. DownState(H, b, broker[b], timers[b], L, {"WakeUp"})
      BY <2>2 DEF Down
    <3>3. DownState(H, b, broker[b], timers[b] \ {a.msg}, L, {})
      BY <3>1, <3>2 DEF DownState
    <3> QED
      BY <1>8, <3>3 DEF Down
  <2>4. Others(H, b, L, {})'
    <3>1. \A c \in Brokers \ {b} : Place(H, c, L, {})'
      BY <1>8, <2>1, PlaceKept
    <3> QED
      BY <3>1, OthersPlace
  <2>5. Requesting(H, b)'
    BY <1>8, <1>10, <2>2, <2>3, <2>4 DEF Requesting, ev
  <2> QED
    BY <2>5 DEF Phase
<1>15. ChannelsOK' /\ NoEmptyReport'
  BY <1>1, <1>2, <1>3, ChannelsAndReports DEF OnlySends, SendsNow
<1> QED
  BY <1>10, <1>13, <1>14, <1>15 DEF JoinsOK

(* The place of a broker, for histories that agree so far, and after one   *)
(* more change.                                                            *)
LEMMA PlaceSame ==
    ASSUME TypeOK, NEW H \in Histories, NEW G \in Histories, NEW L \in Nat, Same(H, G, L),
           NEW c \in Brokers, NEW D, Place(H, c, L, D)
    PROVE  Place(G, c, L, D) /\ Round(c) \in 0 .. L
<1>1. broker[c] \in BrokerState
  BY DEF TypeOK
<1>2. CASE c \in RegisteredBrokers
  <2>1. PICK k \in Nat : k = IF c \in D THEN 1 ELSE 0
    OBVIOUS
  <2>2. UpState(H, c, broker[c], timers[c], L, k)
    BY <1>2, <2>1 DEF Place, Up
  <2>3. UpState(G, c, broker[c], timers[c], L, k) /\ Round(c) \in 0 .. L
    BY <1>1, <2>2, SameUp DEF Round
  <2> QED
    BY <1>2, <2>1, <2>3 DEF Place, Up
<1>3. CASE c \notin RegisteredBrokers
  <2>1. DownState(H, c, broker[c], timers[c], L, {"WakeUp"})
    BY <1>3 DEF Place, Down
  <2>2. DownState(G, c, broker[c], timers[c], L, {"WakeUp"}) /\ Round(c) \in 0 .. L
    BY <1>1, <2>1, SameDown DEF Round
  <2> QED
    BY <1>3, <2>2 DEF Place, Down
<1> QED
  BY <1>2, <1>3

(* One more change is due at a broker that is up,                          *)
LEMMA UpNext ==
    ASSUME NEW G, NEW b, NEW st \in BrokerState, NEW ts, NEW L \in Nat,
           UpState(G, b, st, ts, L, 0), b \in G[L + 1]
    PROVE  UpState(G, b, st, ts, L + 1, 1)
<1>1. st.currentConvergence \in Nat /\ st.awaitingNSMsgs \in Seq(JoinMessage)
  BY DEF BrokerState
<1>2. Runs(G, b, st, ts, L, 0)
  BY DEF UpState
<1>3. Waiting(G, st, ts, L + 1, 1)
  <2>1. Held(ts) \in Nat /\ Len(st.awaitingNSMsgs) \in Nat
    BY <1>1 DEF Held
  <2> QED
    BY <1>1, <1>2, <2>1 DEF Runs, Waiting
<1>4. \A n \in st.currentConvergence .. L + 1 : b \in G[n]
  <2> SUFFICES ASSUME NEW n \in st.currentConvergence .. L + 1 PROVE b \in G[n]
    OBVIOUS
  <2>1. n = L + 1 \/ n \in st.currentConvergence .. L
    BY <1>1
  <2> QED
    BY <1>2, <2>1 DEF Runs
<1>5. Runs(G, b, st, ts, L + 1, 1)
  BY <1>2, <1>3, <1>4 DEF Runs
<1> QED
  BY <1>5 DEF UpState

(* and passes one by that is not.                                          *)
LEMMA DownNext ==
    ASSUME NEW G, NEW b, NEW st \in BrokerState, NEW ts, NEW L \in Nat, NEW T,
           DownState(G, b, st, ts, L, T), b \notin G[L + 1]
    PROVE  DownState(G, b, st, ts, L + 1, T)
<1>1. st.currentConvergence \in Nat /\ st.currentConvergence <= L
  BY DEF BrokerState, DownState
<1>2. \A n \in st.currentConvergence + 1 .. L + 1 : b \notin G[n]
  <2> SUFFICES ASSUME NEW n \in st.currentConvergence + 1 .. L + 1 PROVE b \notin G[n]
    OBVIOUS
  <2>1. n = L + 1 \/ n \in st.currentConvergence + 1 .. L
    BY <1>1
  <2> QED
    BY <2>1 DEF DownState
<1>3. st.currentConvergence <= L + 1
  BY <1>1
<1> QED
  BY <1>2, <1>3 DEF DownState

(* So the brokers keep their places when a change begins.                  *)
LEMMA PlaceNext ==
    ASSUME TypeOK, NEW H \in Histories, NEW G \in Histories, NEW L \in Nat, Same(H, G, L),
           NEW c \in Brokers, NEW D, Place(H, c, L, {}),
           c \in RegisteredBrokers => c \in D, c \in G[L + 1] <=> c \in RegisteredBrokers,
           broker'[c] = broker[c], timers'[c] = timers[c],
           c \in RegisteredBrokers' <=> c \in RegisteredBrokers
    PROVE  Place(G, c, L + 1, D)'
<1>1. Place(G, c, L, {})
  BY PlaceSame
<1>2. broker[c] \in BrokerState
  BY DEF TypeOK
<1>3. CASE c \in RegisteredBrokers
  <2>1. UpState(G, c, broker[c], timers[c], L + 1, 1)
    BY <1>1, <1>2, <1>3, UpNext DEF Place, Up
  <2> QED
    BY <1>3, <2>1 DEF Place, Up
<1>4. CASE c \notin RegisteredBrokers
  <2>1. DownState(G, c, broker[c], timers[c], L + 1, {"WakeUp"})
    BY <1>1, <1>2, <1>4, DownNext DEF Place, Down
  <2> QED
    BY <1>4, <2>1 DEF Place, Down
<1> QED
  BY <1>3, <1>4

(* Which change is under way when a control message m for t arrives.       *)
Belongs(H, t, m) ==
    /\ m.type = "NSRequest" =>
         \E x \in Brokers : /\ Requesting(H, x)
                            /\ To(t, m) = To(NS, [type |-> "NSRequest", requester |-> x])
    /\ m.type = "NSMessage" =>
         \E x \in Brokers : /\ Answering(H, x)
                            /\ To(t, m) = To(x, answer(brokerList, convergenceNumber - 1))
    /\ m.type = "Disconnection" =>
         \E x \in Brokers : \E D \in SUBSET Brokers :
            Leaving(H, x, D) /\ x \notin D /\ To(t, m) = departure(x)
    /\ m.type = "Join" =>
         \E x \in Brokers : \E D \in SUBSET Brokers :
            /\ t \in D
            /\ \/ Joining(H, x, D) /\ m = join(x, convergenceNumber - 1, FALSE)
               \/ Leaving(H, x, D) /\ m = join(x, convergenceNumber, TRUE)

(* Every control message belongs to the change that is under way.          *)
LEMMA PhaseOf ==
    ASSUME NEW H, Phase(H), NEW t, NEW m, To(t, m) \in Control
    PROVE  Belongs(H, t, m)
<1>0. \A u, k : To(u, k).to = u /\ To(u, k).msg = k
  BY DEF To
<1>1. ~Calm(H)
  BY DEF Calm
<1>2. ASSUME NEW x \in Brokers, Requesting(H, x)
      PROVE  /\ m.type = "NSRequest"
             /\ To(t, m) = To(NS, [type |-> "NSRequest", requester |-> x])
  <2>1. To(t, m) = To(NS, [type |-> "NSRequest", requester |-> x])
    BY <1>2 DEF Requesting
  <2> QED
    BY <1>0, <2>1
<1>3. ASSUME NEW x \in Brokers, Answering(H, x)
      PROVE  /\ m.type = "NSMessage"
             /\ To(t, m) = To(x, answer(brokerList, convergenceNumber - 1))
  <2>1. To(t, m) = To(x, answer(brokerList, convergenceNumber - 1))
    BY <1>3 DEF Answering
  <2> QED
    BY <1>0, <2>1 DEF answer
<1>4. ASSUME NEW x \in Brokers, NEW D \in SUBSET Brokers, Joining(H, x, D)
      PROVE  m.type = "Join" /\ t \in D /\ m = join(x, convergenceNumber - 1, FALSE)
  <2>1. To(t, m) \in Announced(D, join(x, convergenceNumber - 1, FALSE))
    BY <1>4 DEF Joining
  <2>2. PICK d \in D : To(t, m) = To(d, join(x, convergenceNumber - 1, FALSE))
    BY <2>1 DEF Announced
  <2> QED
    BY <1>0, <2>2 DEF join
<1>5. ASSUME NEW x \in Brokers, NEW D \in SUBSET Brokers, Leaving(H, x, D)
      PROVE  \/ m.type = "Join" /\ t \in D /\ m = join(x, convergenceNumber, TRUE)
             \/ m.type = "Disconnection" /\ x \notin D /\ To(t, m) = departure(x)
  <2>1. \/ To(t, m) \in Announced(D, join(x, convergenceNumber, TRUE))
        \/ x \notin D /\ To(t, m) = departure(x)
    BY <1>5 DEF Leaving
  <2>2. CASE To(t, m) \in Announced(D, join(x, convergenceNumber, TRUE))
    <3>1. PICK d \in D : To(t, m) = To(d, join(x, convergenceNumber, TRUE))
      BY <2>2 DEF Announced
    <3> QED
      BY <1>0, <3>1 DEF join
  <2>3. CASE x \notin D /\ To(t, m) = departure(x)
    <3>1. m.type = "Disconnection"
      BY <1>0, <2>3 DEF departure
    <3> QED
      BY <2>3, <3>1
  <2> QED
    BY <2>1, <2>2, <2>3
<1>6. \/ \E x \in Brokers : Requesting(H, x) \/ Answering(H, x)
      \/ \E x \in Brokers : \E D \in SUBSET Brokers : Joining(H, x, D) \/ Leaving(H, x, D)
  BY <1>1 DEF Phase
<1>7. CASE \E x \in Brokers : Requesting(H, x) \/ Answering(H, x)
  BY <1>2, <1>3, <1>7 DEF Belongs
<1>8. CASE \E x \in Brokers : \E D \in SUBSET Brokers : Joining(H, x, D) \/ Leaving(H, x, D)
  BY <1>4, <1>5, <1>8 DEF Belongs
<1> QED
  BY <1>6, <1>7, <1>8

(* A step of the name server.                                              *)
LEMMA NameServerFacts ==
    ASSUME IInv, NEW H, JoinsOK(H), NEW a \in Arrivals(NS),
           a.msg.type \in {"NSRequest", "Disconnection"},
           NEW e, End(NS, a, e), e.out = [n \in Nodes |-> <<>>],
           e.timers = IF a.from = NS THEN timers[NS] \ {a.msg} ELSE timers[NS],
           broker' = broker
    PROVE  /\ now # <<>> /\ Head(now) = To(NS, a.msg) /\ To(NS, a.msg) \in Control
           /\ now' = Tail(now) \o e.direct
           /\ timers' = timers
           /\ ChannelsOK' /\ NoEmptyReport'
           /\ \A c \in Brokers : Round(c)' = Round(c)
<1>0. /\ now \in Seq(Event) /\ timers \in [Nodes -> SUBSET Message] /\ NS \in Nodes
      /\ chan \in [Nodes -> [Nodes -> Seq(Message)]] /\ ChannelsOK /\ NoEmptyReport
      /\ NULL # NS /\ NULL \notin Nodes
  BY NodesAssumption DEF IInv, TypeOK, KernelTypeOK, Nodes, JoinsOK
<1>1. now # <<>> /\ a.from = NULL /\ Head(now) = To(NS, a.msg) /\ To(NS, a.msg) \in Control
  BY <1>0, ControlArrives
<1>2. now' = Tail(now) \o e.direct
  BY <1>1 DEF End
<1>3. timers' = timers
  BY <1>0, <1>1 DEF End
<1>4. \A s, d \in Nodes : chan'[s][d] = chan[s][d]
  <2> SUFFICES ASSUME NEW s \in Nodes, NEW d \in Nodes PROVE chan'[s][d] = chan[s][d]
    OBVIOUS
  <2>1. chan'[s][d] = IF s = NS THEN chan[s][d] \o e.out[d]
                      ELSE IF s = a.from /\ d = NS THEN Tail(chan[s][d]) ELSE chan[s][d]
    BY DEF End
  <2>2. s # a.from
    BY <1>0, <1>1
  <2>3. chan[s][d] \in Seq(Message) /\ chan[s][d] \o <<>> = chan[s][d]
    BY <1>0
  <2> QED
    BY <2>1, <2>2, <2>3
<1>5. ChannelsOK'
  BY <1>0, <1>3, <1>4 DEF ChannelsOK
<1>6. NoEmptyReport' /\ \A c \in Brokers : Round(c)' = Round(c)
  BY <1>0 DEF NoEmptyReport, Round
<1> QED
  BY <1>1, <1>2, <1>3, <1>5, <1>6

(* Nothing follows the only element.                                       *)
LEMMA TailOfOne ==
    ASSUME NEW S, NEW s \in Seq(S), Len(s) = 1
    PROVE  Tail(s) = <<>>
<1>1. s # <<>>
  OBVIOUS
<1> PICK t : t = Tail(s)
  OBVIOUS
<1>2. t \in Seq(S) /\ Len(t) = 0
  BY <1>1, HeadTailProperties
<1> QED
  BY <1>2, EmptySeq

(* The name server registers a broker.                                     *)
LEMMA RegisterStep ==
    ASSUME IInv, NEW H, JoinsOK(H), HandleBrokerRequest
    PROVE  \E G : JoinsOK(G)'
<1> PICK a \in Arrivals(NS) :
         /\ a.msg.type = "NSRequest" /\ a.msg.requester \in Brokers
         /\ LET b == a.msg.requester
                reply == [type |-> "NSMessage", requestedNodes |-> registerBroker(b),
                          convergenceNumber |-> convergenceNumber]
            IN  /\ brokerList' = registerBroker(b)
                /\ convergenceNumber' = convergenceNumber + 1
                /\ End(NS, a, SendDirect(Begin(NS, a, NULL), b, reply))
  BY DEF HandleBrokerRequest, handleBrokerRequest
<1> DEFINE x == a.msg.requester
           reply == answer(registerBroker(x), convergenceNumber)
           e == Begin(NS, a, NULL)
           f == SendDirect(e, x, reply)
           ev == To(x, reply)
<1> PICK L : L = convergenceNumber - 1
  OBVIOUS
<1> PICK D : D = RegisteredBrokers \cup {x}
  OBVIOUS
<1> PICK G : G = [H EXCEPT ![convergenceNumber] = D]
  OBVIOUS
<1>1. /\ x \in Brokers /\ brokerList' = registerBroker(x)
      /\ convergenceNumber' = convergenceNumber + 1 /\ End(NS, a, f)
      /\ UNCHANGED <<broker, conditionTable>>
  BY DEF HandleBrokerRequest, answer
<1>2. /\ f.out = [n \in Nodes |-> <<>>] /\ f.direct = Append(<<>>, ev)
      /\ f.timers = IF a.from = NS THEN timers[NS] \ {a.msg} ELSE timers[NS]
  BY DEF SendDirect, Begin, To
<1>3. /\ HistoryOK(H) /\ Phase(H) /\ QueueOK(now) /\ RoundsOK(H)
      /\ TypeOK /\ brokerList \in Seq(Brokers) /\ convergenceNumber \in Nat
      /\ H \in Histories /\ convergenceNumber > 0 /\ L \in Nat
  BY DEF JoinsOK, IInv, TypeOK, NSTypeOK, HistoryOK
<1> HIDE DEF f, e
<1>4. /\ now # <<>> /\ Head(now) = To(NS, a.msg) /\ To(NS, a.msg) \in Control
      /\ now' = Tail(now) \o f.direct /\ timers' = timers
      /\ ChannelsOK' /\ NoEmptyReport'
      /\ \A c \in Brokers : Round(c)' = Round(c)
  BY <1>1, <1>2, NameServerFacts
<1>5. Requesting(H, x)
  <2>1. PICK y \in Brokers :
             /\ Requesting(H, y)
             /\ To(NS, a.msg) = To(NS, [type |-> "NSRequest", requester |-> y])
    <3>1. Belongs(H, NS, a.msg)
      BY <1>3, <1>4, PhaseOf
    <3> QED
      BY <3>1 DEF Belongs
  <2>2. a.msg = [type |-> "NSRequest", requester |-> y]
    BY <2>1 DEF To
  <2>3. x = y
    BY <2>2
  <2> QED
    BY <2>1, <2>3
<1>6. x \notin RegisteredBrokers /\ Len(now) = 1
  BY <1>5 DEF Requesting
<1>7. /\ brokerList' = Append(brokerList, x) /\ reply = answer(Append(brokerList, x), convergenceNumber)
      /\ RegisteredBrokers = ToSet(brokerList) /\ RegisteredBrokers' = ToSet(brokerList')
  BY <1>1, <1>6 DEF registerBroker, RegisteredBrokers, ToSet
<1>8. RegisteredBrokers' = D /\ D = RegisteredBrokers \cup {x} /\ Distinct(brokerList')
  <2>1. x \in Brokers /\ brokerList \in Seq(Brokers) /\ Distinct(brokerList)
        /\ x \notin ToSet(brokerList)
    BY <1>1, <1>3, <1>6, <1>7 DEF HistoryOK
  <2> HIDE DEF x
  <2>2. /\ ToSet(Append(brokerList, x)) = ToSet(brokerList) \cup {x}
        /\ Distinct(Append(brokerList, x))
    BY <2>1, AppendElements, ZenonT(30)
  <2> QED
    BY <1>7, <2>2
<1> HIDE DEF x
<1>9. /\ G \in Histories /\ Same(H, G, L) /\ G[convergenceNumber] = D
      /\ \A n \in Nat : n # convergenceNumber => G[n] = H[n]
  <2>1. RegisteredBrokers \subseteq Brokers
    BY <1>3, <1>7, ElementsType
  <2> QED
    BY <1>1, <1>3, <2>1 DEF Histories, Same
<1>10. HistoryOK(G)'
  <2>1. G[0] = H[0] /\ convergenceNumber' - 1 = convergenceNumber /\ convergenceNumber' > 0
    BY <1>1, <1>3, <1>9
  <2> QED
    BY <1>3, <1>8, <1>9, <2>1 DEF HistoryOK
<1>11. ev \in Event /\ IsControl(ev)
  <2>1. Append(brokerList, x) \in Seq(Brokers)
    BY <1>1, <1>3
  <2>2. reply \in NSMessage
    BY <1>3, <1>7, <2>1 DEF answer, NSMessage
  <2>3. reply \in Message
    BY <2>2 DEF Message, ProtocolMessage
  <2> QED
    BY <1>1, <2>3 DEF Event, To, IsControl, Nodes, answer
<1>12. Len(now') = 1 /\ QueueOK(now') /\ Control' = {ev}
  <2>1. now \in Seq(Event) /\ Tail(now) = <<>>
    <3>1. now \in Seq(Event)
      BY <1>3 DEF TypeOK, KernelTypeOK
    <3> QED
      BY <1>4, <1>6, <3>1, TailOfOne
  <2> HIDE DEF ev
  <2>2. now' = <<>> \o <<ev>>
    <3>1. Append(<<>>, ev) = <<ev>>
      OBVIOUS
    <3>2. <<ev>> = <<>> \o <<ev>>
      OBVIOUS
    <3> QED
      BY <1>2, <1>4, <2>1, <3>1, <3>2
  <2> QED
    BY <1>11, <2>2, SingleEvent DEF Control
<1>13. ev = To(x, answer(brokerList', convergenceNumber' - 1))
  BY <1>1, <1>3, <1>7
<1> HIDE DEF ev
<1>14. \A c \in Brokers \ {x} : Place(H, c, L, {}) /\ Round(c) \in 0 .. L
  <2>1. \A c \in Brokers \ {x} : Place(H, c, L, {})
    BY <1>5, OthersPlace DEF Requesting
  <2>2. Same(H, H, L)
    BY DEF Same
  <2> QED
    BY <1>3, <2>1, <2>2, PlaceSame
<1>15. DownState(G, x, broker[x], timers[x], L, {}) /\ Round(x) \in 0 .. L
  <2>1. DownState(H, x, broker[x], timers[x], L, {}) /\ broker[x] \in BrokerState
    BY <1>1, <1>3, <1>5 DEF Requesting, Down, TypeOK
  <2> QED
    BY <1>3, <1>9, <2>1, SameDown DEF Round
<1>16. RoundsOK(G)'
  <2>1. \A c \in Brokers : Awake(c) => Awake(c)'
    <3> SUFFICES ASSUME NEW c \in Brokers, Awake(c) PROVE Awake(c)'
      OBVIOUS
    <3>1. c \in RegisteredBrokers /\ ~broker[c].initial
      BY DEF Awake
    <3>2. c # x
      BY <1>6, <3>1
    <3>3. Undisturbed(Control', c)
      BY <1>12, <1>13, <3>2 DEF Undisturbed, To, answer
    <3> QED
      BY <1>1, <1>8, <3>1, <3>3, AwakeNextIs
  <2>2. \A c \in Brokers : \A n \in 0 .. Round(c) : G[n] = H[n]
    <3>1. \A c \in Brokers : Round(c) \in 0 .. L
      BY <1>14, <1>15
    <3> QED
      BY <1>3, <1>9, <3>1
  <2> QED
    BY <1>3, <1>4, <1>9, <2>1, <2>2, RoundsKept
<1>17. Others(G, x, L + 1, D)'
  <2> SUFFICES ASSUME NEW c \in Brokers \ {x}
               PROVE  Place(G, c, L + 1, D)'
    BY OthersPlace
  <2>1. /\ c \in RegisteredBrokers' <=> c \in RegisteredBrokers
        /\ c \in G[L + 1] <=> c \in RegisteredBrokers
    BY <1>3, <1>8, <1>9
  <2>2. broker'[c] = broker[c] /\ timers'[c] = timers[c]
    BY <1>1, <1>4
  <2>3. c \in RegisteredBrokers => c \in D
    BY <1>8
  <2> QED
    BY <1>3, <1>9, <1>14, <2>1, <2>2, <2>3, PlaceNext
<1>18. Answering(G, x)'
  <2>1. /\ convergenceNumber' - 1 = L + 1 /\ convergenceNumber' - 2 = L
        /\ convergenceNumber' > 1
    BY <1>1, <1>3
  <2>2. G[L] = RegisteredBrokers' \ {x}
    BY <1>3, <1>6, <1>8, <1>9 DEF HistoryOK
  <2>3. x \in RegisteredBrokers'
    BY <1>8
  <2>4. Down(G, x, L, {})'
    BY <1>1, <1>4, <1>15 DEF Down
  <2>5. Control' = {To(x, answer(brokerList, convergenceNumber - 1))}'
    BY <1>12, <1>13 DEF To, answer
  <2>6. Others(G, x, convergenceNumber - 1, RegisteredBrokers)'
    BY <1>8, <1>17, <2>1 DEF Others
  <2> QED
    BY <1>12, <2>1, <2>2, <2>3, <2>4, <2>5, <2>6 DEF Answering
<1>19. Phase(G)'
  BY <1>1, <1>18 DEF Phase
<1>20. JoinsOK(G)'
  BY <1>4, <1>10, <1>12, <1>16, <1>19 DEF JoinsOK
<1> QED
  BY <1>20

(* What the answer of the name server makes of an effect.                  *)
Welcomes(e, f, list, call) ==
    /\ f \in Effect /\ f.self = e.self /\ f.out = e.out
    /\ f.timers = e.timers \cup {sleepDelayMsg}
    /\ call \in JoinMessage /\ joinsTo(list, call) \in Seq(Event)
    /\ f.direct = e.direct \o joinsTo(list, call)
    /\ f.st.initial /\ f.st.availableBrokers = list
    /\ f.st.neighboursMap = e.st.neighboursMap
    /\ f.st.currentConvergence = e.st.currentConvergence
    /\ f.st.bufferedSubs = e.st.bufferedSubs
    /\ f.st.receivedMWOEs = e.st.receivedMWOEs
    /\ SameQueue(e.st, f.st)

(* That is what the code of handleNameServerMessage does.                  *)
LEMMA WelcomesIs ==
    ASSUME NEW e \in Effect, NEW m \in NSMessage, m.requestedNodes # <<>>
    PROVE  Welcomes(e, handleNameServerMessage(e, m), m.requestedNodes,
                    join(e.self, m.convergenceNumber, FALSE))
BY WelcomeIs DEF Welcomes

(* An empty sequence in front adds nothing.                                *)
LEMMA EmptyFront ==
    ASSUME NEW S, NEW s \in Seq(S), NEW t, t = <<>>
    PROVE  t \o s = s
OBVIOUS

(* A broker is told which brokers are registered, and calls on them all.   *)
LEMMA WelcomeStep ==
    ASSUME IInv, NEW H, JoinsOK(H), NEW b \in Brokers, HandleNameServerMessage(b)
    PROVE  JoinsOK(H)'
<1> PICK a \in Arrivals(b) :
         a.msg.type = "NSMessage" /\ Finish(b, a, handleNameServerMessage(Start(b, a), a.msg))
  BY DEF HandleNameServerMessage, Arriving
<1> DEFINE e == Start(b, a)
           m == a.msg
           f == handleNameServerMessage(e, m)
<1>1. /\ e \in Effect /\ e.self = b /\ e.st = broker[b] /\ WellSent(b, e.out)
      /\ ReportsNamed(e.st.receivedMWOEs) /\ e.direct = <<>>
      /\ e.timers = IF a.from = b THEN timers[b] \ {a.msg} ELSE timers[b]
  BY StartWell, StartIs
<1>2. /\ HistoryOK(H) /\ Phase(H) /\ QueueOK(now) /\ RoundsOK(H)
      /\ TypeOK /\ brokerList \in Seq(Brokers) /\ convergenceNumber \in Nat
      /\ H \in Histories /\ NULL \notin Brokers /\ now \in Seq(Event) /\ Distinct(brokerList)
  BY NodesAssumption DEF JoinsOK, IInv, TypeOK, NSTypeOK, HistoryOK, KernelTypeOK
<1>3. now # <<>> /\ a.from = NULL /\ Head(now) = To(b, m) /\ To(b, m) \in Control
  BY ControlArrives
<1>4. Answering(H, b) /\ m = answer(brokerList, convergenceNumber - 1)
  <2>1. Belongs(H, b, m)
    BY <1>2, <1>3, PhaseOf
  <2>2. PICK y \in Brokers :
             Answering(H, y) /\ To(b, m) = To(y, answer(brokerList, convergenceNumber - 1))
    BY <2>1 DEF Belongs
  <2>3. b = y /\ m = answer(brokerList, convergenceNumber - 1)
    BY <2>2 DEF To
  <2> QED
    BY <2>2, <2>3
<1>5. /\ Len(now) = 1 /\ b \in RegisteredBrokers /\ convergenceNumber > 1
      /\ H[convergenceNumber - 2] = RegisteredBrokers \ {b}
      /\ Others(H, b, convergenceNumber - 1, RegisteredBrokers)
      /\ Down(H, b, convergenceNumber - 2, {})
  BY <1>4 DEF Answering
<1>6. /\ m.requestedNodes = brokerList /\ m.convergenceNumber = convergenceNumber - 1
      /\ m \in NSMessage /\ brokerList # <<>> /\ ToSet(brokerList) = RegisteredBrokers
  <2>1. m.requestedNodes = brokerList /\ m.convergenceNumber = convergenceNumber - 1
    BY <1>4 DEF answer
  <2>2. m \in Message
    BY ArrivalCases DEF IInv, TypeOK, Nodes
  <2>3. m \in NSMessage
    BY <2>2, MessageTypes
  <2>4. ToSet(brokerList) = RegisteredBrokers
    BY DEF RegisteredBrokers, ToSet
  <2>5. brokerList # <<>>
    BY <1>5, <2>4, NoElements
  <2> QED
    BY <2>1, <2>3, <2>4, <2>5
<1> PICK call : call = join(b, convergenceNumber - 1, FALSE)
  OBVIOUS
<1> PICK calls : calls = joinsTo(brokerList, call)
  OBVIOUS
<1>7. /\ f \in Effect /\ f.self = e.self /\ f.out = e.out
      /\ f.timers = e.timers \cup {sleepDelayMsg}
      /\ call \in JoinMessage /\ calls \in Seq(Event)
      /\ f.direct = e.direct \o calls
      /\ f.st.initial /\ f.st.availableBrokers = brokerList
      /\ f.st.neighboursMap = e.st.neighboursMap
      /\ f.st.currentConvergence = e.st.currentConvergence
      /\ f.st.bufferedSubs = e.st.bufferedSubs
      /\ f.st.receivedMWOEs = e.st.receivedMWOEs
      /\ SameQueue(e.st, f.st)
  <2>1. Welcomes(e, f, m.requestedNodes, join(e.self, m.convergenceNumber, FALSE))
    BY <1>1, <1>6, WelcomesIs
  <2>2. join(e.self, m.convergenceNumber, FALSE) = call
    BY <1>1, <1>6
  <2>3. Welcomes(e, f, brokerList, call)
    BY <1>6, <2>1, <2>2
  <2> QED
    BY <2>3 DEF Welcomes
<1>8. Acts(b, a, f)
  BY <1>1, <1>7, FinishActs
<1> HIDE DEF e, f
<1>9. /\ now' = rest(a) \o f.direct
      /\ broker'[b] = f.st /\ timers'[b] = f.timers
      /\ \A c \in Brokers \ {b} : broker'[c] = broker[c] /\ timers'[c] = timers[c]
      /\ RegisteredBrokers' = RegisteredBrokers
      /\ brokerList' = brokerList /\ convergenceNumber' = convergenceNumber
  BY <1>2, <1>8, StepFacts
<1>10. now' = calls
  <2>1. rest(a) = <<>>
    BY <1>2, <1>3, <1>5, TailOfOne DEF rest
  <2>2. f.direct = calls
    BY <1>1, <1>7, EmptyFront
  <2>3. now' = rest(a) \o calls
    BY <1>9, <2>2
  <2> QED
    BY <1>7, <2>1, <2>3, EmptyFront
<1>11. QueueOK(now') /\ Control' = Announced(RegisteredBrokers, call)
  BY <1>2, <1>6, <1>7, <1>10, JoinsInQueue DEF Control
<1>12. \A c \in Brokers : Round(c)' = Round(c)
  BY <1>1, <1>7, <1>9 DEF Round
<1>13. \A c \in Brokers : Awake(c) => Awake(c)'
  <2> SUFFICES ASSUME NEW c \in Brokers, Awake(c) PROVE Awake(c)'
    OBVIOUS
  <2>1. c \in RegisteredBrokers /\ ~broker[c].initial /\ Undisturbed(Control, c)
    BY AwakeIs
  <2>2. c # b
    BY <1>3, <1>4, <2>1 DEF Undisturbed, To, answer
  <2>3. Undisturbed(Control', c)
    <3>1. \A ev \in Control' : ev.msg.type = "Join" /\ ~ev.msg.leaving
      BY <1>11 DEF Announced, join, To
    <3> QED
      BY <3>1 DEF Undisturbed
  <2> QED
    BY <1>9, <2>1, <2>2, <2>3, AwakeNextIs
<1>14. RoundsOK(H)' /\ HistoryOK(H)'
  <2>1. RoundsOK(H)'
    BY <1>2, <1>12, <1>13, RoundsKept
  <2> QED
    BY <1>2, <1>9, <2>1 DEF HistoryOK
<1>15. Joining(H, b, RegisteredBrokers)'
  <2>1. Others(H, b, convergenceNumber - 1, RegisteredBrokers)'
    <3> PICK L : L = convergenceNumber - 1
      OBVIOUS
    <3> PICK D : D = RegisteredBrokers
      OBVIOUS
    <3>1. \A c \in Brokers \ {b} : Place(H, c, L, D)
      BY <1>5, OthersPlace
    <3>2. \A c \in Brokers \ {b} : Place(H, c, L, D)'
      BY <1>9, <3>1, PlaceKept
    <3>3. Others(H, b, L, D)'
      BY <3>2, OthersPlace
    <3> QED
      BY <1>9, <3>3 DEF Others
  <2>2. Down(H, b, convergenceNumber - 2, {"Sleep"})'
    <3>1. DownState(H, b, broker[b], timers[b], convergenceNumber - 2, {})
      BY <1>5 DEF Down
    <3>2. f.timers = timers[b] \cup {sleepDelayMsg}
      <4>1. b # NULL
        BY <1>2
      <4> QED
        BY <1>1, <1>3, <1>7, <4>1
    <3>3. TypesOf(f.timers) \subseteq {"Sleep"}
      <4>1. TypesOf(timers[b]) \subseteq {}
        BY <3>1 DEF DownState
      <4>2. sleepDelayMsg.type = "Sleep"
        BY DEF sleepDelayMsg
      <4> QED
        BY <3>2, <4>1, <4>2 DEF TypesOf
    <3>4. DownState(H, b, f.st, f.timers, convergenceNumber - 2, {"Sleep"})
      BY <1>1, <1>7, <3>1, <3>3 DEF DownState, SameQueue
    <3> QED
      BY <1>9, <3>4 DEF Down
  <2>3. Control' = Announced(RegisteredBrokers, join(b, convergenceNumber - 1, FALSE))'
    BY <1>9, <1>11 DEF Announced, join, To
  <2> QED
    BY <1>5, <1>7, <1>9, <2>1, <2>2, <2>3 DEF Joining
<1>16. Phase(H)'
  <2> PICK D : D = RegisteredBrokers
    OBVIOUS
  <2>1. D \in SUBSET Brokers
    BY <1>2, <1>6, ElementsType
  <2>2. Joining(H, b, D)'
    BY <1>9, <1>15 DEF Joining
  <2> QED
    BY <2>1, <2>2 DEF Phase
<1>17. ChannelsOK' /\ NoEmptyReport'
  BY <1>1, <1>7, <1>8, ChannelsAndReports
<1> QED
  BY <1>11, <1>14, <1>16, <1>17 DEF JoinsOK

(* A broker that may fall asleep is in the last convergence, has converged *)
(* on all registered brokers, and is not alone.                            *)
LEMMA SleeperFacts ==
    ASSUME IInv, FragmentsHold, NEW H, JoinsOK(H), Calm(H), NEW b \in Brokers,
           sleepDelayMsg \in timers[b], TimerJoins(timers[b]) = {}, CanSleep(broker[b])
    PROVE  /\ b \in RegisteredBrokers /\ RegisteredBrokers # {b}
           /\ Up(H, b, convergenceNumber - 1, 0)
           /\ broker[b].converged /\ Round(b) = convergenceNumber - 1
           /\ Distinct(broker[b].availableBrokers)
           /\ ToSet(broker[b].availableBrokers) = RegisteredBrokers
           /\ \A d \in RegisteredBrokers : Round(d) >= Round(b)
<1>1. /\ broker[b] \in BrokerState /\ convergenceNumber \in Nat /\ convergenceNumber > 0
      /\ H[convergenceNumber - 1] = RegisteredBrokers
  BY DEF IInv, TypeOK, NSTypeOK, JoinsOK, HistoryOK
<1> PICK L : L = convergenceNumber - 1
  OBVIOUS
<1>2. L \in Nat /\ H[L] = RegisteredBrokers
  BY <1>1
<1>3. b \in RegisteredBrokers /\ Up(H, b, L, 0)
  <2>1. \A c \in Brokers \ {NULL} : Place(H, c, L, {})
    BY OthersPlace DEF Calm
  <2>2. Place(H, b, L, {})
    BY <2>1, NodesAssumption
  <2>3. "Sleep" \in TypesOf(timers[b])
    BY DEF TypesOf, sleepDelayMsg
  <2>4. ~Down(H, b, L, {"WakeUp"})
    BY <2>3 DEF Down, DownState
  <2> QED
    BY <2>2, <2>4 DEF Place
<1>4. /\ Runs(H, b, broker[b], timers[b], L, 0)
      /\ broker[b].converged /\ Done(broker[b]) /\ broker[b].awaitingNSMsgs = <<>>
  BY <1>3 DEF Up, UpState, CanSleep
<1>5. Round(b) = L
  <2>1. Round(b) + 0 + Len(broker[b].awaitingNSMsgs) + 0 = L
    BY <1>4 DEF Runs, Waiting, Held, Round
  <2>2. Len(broker[b].awaitingNSMsgs) = 0
    BY <1>4
  <2>3. Round(b) \in Nat
    BY <1>1 DEF Round, BrokerState
  <2> QED
    BY <2>1, <2>2, <2>3
<1>6. Distinct(broker[b].availableBrokers) /\ Available(b) = RegisteredBrokers
  BY <1>2, <1>4, <1>5 DEF Runs, ListOK, Available, Round
<1>7. Awake(b)
  <2>1. Undisturbed(Control, b)
    BY DEF Calm, Undisturbed
  <2> QED
    BY <1>3, <1>4, <2>1, AwakeIs DEF Runs
<1>8. /\ Linked(b) \subseteq RegisteredBrokers \ {b}
      /\ \A d \in RegisteredBrokers : Round(d) >= Round(b)
  <2>1. Members(b) = Available(b)
    BY <1>4 DEF Done, Members, Available
  <2> QED
    BY <1>6, <1>7, <2>1, OwnFacts
<1>9. Linked(b) # {}
  <2> PICK v : v = broker[b].neighboursMap
    OBVIOUS
  <2>1. v \in NeighboursVector /\ MapOK(v) /\ BrokerPlaces(v) # {}
    BY <1>1, <1>4 DEF BrokerState, Runs, CanSleep
  <2>2. PICK i : i \in Used(v)
    BY <2>1, MapFacts
  <2>3. v[i].node \in NeighbourBrokers(v)
    BY <2>1, <2>2, MapFacts
  <2> QED
    BY <2>3 DEF Linked
<1> QED
  BY <1>3, <1>4, <1>5, <1>6, <1>8, <1>9 DEF Available

(* A broker whose timers lose the call to sleep keeps its place.           *)
LEMMA UpWithoutSleep ==
    ASSUME NEW H, NEW b, NEW st, NEW ts, NEW us, us = ts \ {sleepDelayMsg}, NEW L, NEW k,
           UpState(H, b, st, ts, L, k)
    PROVE  UpState(H, b, st, us, L, k)
<1>1. TimerJoins(us) = TimerJoins(ts)
  BY DEF TimerJoins, sleepDelayMsg
<1>2. TypesOf(us) \subseteq TypesOf(ts)
  BY DEF TypesOf
<1>3. Held(us) = Held(ts)
  BY <1>1 DEF Held
<1>4. Waiting(H, st, ts, L, k) <=> Waiting(H, st, us, L, k)
  BY <1>1, <1>3 DEF Waiting
<1>5. Runs(H, b, st, us, L, k)
  BY <1>2, <1>4 DEF UpState, Runs
<1> QED
  BY <1>1, <1>5 DEF UpState

(* A broker calls on all to let it leave.                                  *)
LEMMA SleepStep ==
    ASSUME IInv, FragmentsHold, ~SleepInWindow, NEW H, JoinsOK(H), NEW b \in Brokers, Sleep(b)
    PROVE  \E G : JoinsOK(G)'
<1> PICK a \in Arrivals(b) : a.msg.type = "Sleep" /\ Finish(b, a, sleep(Start(b, a)))
  BY DEF Sleep, Arriving
<1> DEFINE e == Start(b, a)
           f == sleep(e)
<1>1. /\ e \in Effect /\ e.self = b /\ e.st = broker[b] /\ WellSent(b, e.out)
      /\ ReportsNamed(e.st.receivedMWOEs) /\ e.direct = <<>>
      /\ e.timers = IF a.from = b THEN timers[b] \ {a.msg} ELSE timers[b]
  BY StartWell, StartIs
<1>2. /\ now = <<>> /\ a.from = b /\ a.msg \in timers[b] /\ a.msg = sleepDelayMsg
      /\ timers[b] \in SUBSET Message
  <2>1. now = <<>> /\ a.from = b /\ a.msg \in timers[b]
    BY ControlArrives
  <2>2. timers[b] \in SUBSET Message
    BY DEF IInv, TypeOK, KernelTypeOK, Nodes
  <2> QED
    BY <2>1, <2>2, DelayMessages
<1>3. /\ Calm(H) /\ HistoryOK(H) /\ QueueOK(now) /\ RoundsOK(H) /\ TypeOK
      /\ H \in Histories /\ convergenceNumber \in Nat /\ convergenceNumber > 0
  BY <1>2, CalmWhenIdle DEF JoinsOK, IInv, TypeOK, NSTypeOK, HistoryOK
<1>4. e.timers = timers[b] \ {sleepDelayMsg}
  BY <1>1, <1>2
<1>5. f \in Effect /\ f.st = broker[b] /\ f.out = e.out
  BY <1>1, SleepIs DEF OnlySends
<1>6. Acts(b, a, f)
  BY <1>1, <1>5, FinishActs
<1>7. rest(a) = <<>>
  BY <1>2, NodesAssumption DEF rest
<1>8. ChannelsOK' /\ NoEmptyReport'
  BY <1>1, <1>5, <1>6, ChannelsAndReports
<1>9. TimerJoins(timers[b]) = {}
  BY DEF Sleep, TimerJoins
<1> PICK L : L = convergenceNumber - 1
  OBVIOUS
<1>10. \A c \in Brokers : Place(H, c, L, {}) /\ Round(c) \in 0 .. L
  <2>1. \A c \in Brokers \ {NULL} : Place(H, c, L, {})
    BY <1>3, OthersPlace DEF Calm
  <2>2. Same(H, H, L) /\ L \in Nat
    BY <1>3 DEF Same
  <2> QED
    BY <1>3, <2>1, <2>2, PlaceSame, NodesAssumption
<1> HIDE DEF e, f
<1>11. /\ now' = rest(a) \o f.direct
       /\ broker'[b] = broker[b] /\ timers'[b] = f.timers
       /\ \A c \in Brokers \ {b} : broker'[c] = broker[c] /\ timers'[c] = timers[c]
       /\ RegisteredBrokers' = RegisteredBrokers
       /\ brokerList' = brokerList /\ convergenceNumber' = convergenceNumber
  BY <1>3, <1>5, <1>6, StepFacts
<1>12. \A c \in Brokers : Round(c)' = Round(c) /\ broker'[c] = broker[c]
  BY <1>11 DEF Round
<1>13. CASE ~CanSleep(broker[b])
  <2>1. f.direct = <<>> /\ f.timers = timers[b]
    <3>1. /\ f.direct = e.direct
          /\ f.timers = e.timers \cup {sleepDelayMsg}
      BY <1>1, <1>13, SleepIs DEF f
    <3> QED
      BY <1>1, <1>2, <1>4, <3>1
  <2>2. now' = <<>>
    BY <1>7, <1>11, <2>1
  <2>3. QueueOK(now') /\ Control' = {} /\ Control = {}
    BY <1>2, <2>2, NoQueue DEF Control
  <2>4. \A c \in Brokers : Awake(c) => Awake(c)'
    BY <1>11, <1>12, <2>3, AwakeIs, AwakeNextIs
  <2>5. RoundsOK(H)'
    BY <1>3, <1>12, <2>4, RoundsKept
  <2>6. HistoryOK(H)'
    BY <1>3, <1>11 DEF HistoryOK
  <2>7. \A c \in Brokers \ {NULL} : Place(H, c, L, {})'
    BY <1>10, <1>11, <1>12, <2>1, PlaceKept
  <2>8. Others(H, NULL, L, {})'
    BY <2>7, OthersPlace
  <2>9. Calm(H)'
    BY <1>11, <2>3, <2>8 DEF Calm, Others
  <2>10. JoinsOK(H)'
    BY <1>8, <2>3, <2>5, <2>6, <2>9 DEF JoinsOK, Phase
  <2> QED
    BY <2>10
<1>14. CASE CanSleep(broker[b])
  <2> PICK R : R = RegisteredBrokers
    OBVIOUS
  <2> PICK G : G = [H EXCEPT ![convergenceNumber] = R \ {b}]
    OBVIOUS
  <2> PICK call : call = join(b, convergenceNumber, TRUE)
    OBVIOUS
  <2> PICK list : list = broker[b].availableBrokers
    OBVIOUS
  <2>1. /\ b \in R /\ R # {b} /\ Up(H, b, L, 0)
        /\ broker[b].converged /\ Round(b) = L
        /\ Distinct(list) /\ ToSet(list) = R
        /\ \A d \in R : Round(d) >= Round(b)
    BY <1>2, <1>3, <1>9, <1>14, SleeperFacts
  <2>2. list \in Seq(Brokers) /\ R \subseteq Brokers
    BY <1>3, <2>1, ElementsType DEF TypeOK, BrokerState
  <2>3. leaveOf(e) = call
    <3>1. broker[b].currentConvergence + 1 = convergenceNumber
      BY <1>3, <2>1 DEF Round
    <3> QED
      BY <1>1, <3>1 DEF leaveOf, join
  <2>4. /\ call \in JoinMessage /\ f.direct = <<>> \o joinsTo(list, call)
        /\ joinsTo(list, call) \in Seq(Event) /\ f.timers = e.timers
    BY <1>1, <1>14, <2>3, SleepIs DEF f, OnlySends
  <2> PICK calls : calls = joinsTo(list, call)
    OBVIOUS
  <2>5. now' = calls
    <3>1. f.direct = calls /\ calls \in Seq(Event)
      BY <2>4, EmptyFront
    <3>2. now' = rest(a) \o calls
      BY <1>11, <3>1
    <3> QED
      BY <1>7, <3>1, <3>2, EmptyFront
  <2>6. QueueOK(now') /\ Control' = Announced(R, call)
    BY <2>1, <2>2, <2>4, <2>5, JoinsInQueue DEF Control
  <2>7. /\ G \in Histories /\ Same(H, G, L) /\ G[convergenceNumber] = R \ {b}
        /\ \A n \in Nat : n # convergenceNumber => G[n] = H[n]
    BY <1>3, <2>2 DEF Histories, Same
  <2>8. HistoryOK(G)'
    <3>1. G[0] = H[0]
      BY <1>3, <2>7
    <3>2. G[convergenceNumber - 1] = H[convergenceNumber - 1]
      BY <1>3, <2>7
    <3> QED
      BY <1>3, <1>11, <2>7, <3>1, <3>2 DEF HistoryOK
  <2>9. \A c \in Brokers \ {b} : Awake(c) => Awake(c)'
    <3> SUFFICES ASSUME NEW c \in Brokers \ {b}, Awake(c) PROVE Awake(c)'
      OBVIOUS
    <3>1. Undisturbed(Control', c)
      BY <2>6 DEF Undisturbed, Announced, join, To
    <3> QED
      BY <1>11, <1>12, <3>1, AwakeIs, AwakeNextIs
  <2>10. RoundsOK(G)'
    <3>1. \A x \in Brokers : Round(x)' \in Nat /\ Round(x)' >= Round(x) /\ Round(x) \in Nat
      BY <1>3, <1>10, <1>12
    <3>2. ASSUME NEW c \in Brokers, NEW n \in 0 .. Round(c)', Through(c, n)', c \in G[n]
          PROVE  \/ n <= Round(c) /\ Through(c, n) /\ G[n] = H[n]
                 \/ \A x \in G[n] : Round(x) >= n
      <4>1. n \in 0 .. Round(c) /\ Round(c) \in 0 .. L /\ Round(c)' = Round(c)
        BY <1>10, <1>12, <3>2
      <4>2. n # convergenceNumber /\ n \in Nat
        BY <1>3, <4>1
      <4>3. G[n] = H[n] /\ n <= Round(c)
        BY <2>7, <4>1, <4>2
      <4>4. n < Round(c) \/ (n = Round(c) /\ ~Awake(c)')
        BY <3>2, <4>1 DEF Through
      <4>5. CASE Through(c, n)
        BY <4>3, <4>5
      <4>6. CASE ~Through(c, n)
        <5>1. n = Round(c) /\ c = b
          BY <2>9, <4>4, <4>6 DEF Through
        <5>2. n = L /\ G[n] = R
          BY <1>3, <2>1, <4>3, <5>1 DEF HistoryOK
        <5> QED
          BY <2>1, <5>1, <5>2
      <4> QED
        BY <4>5, <4>6
    <3> QED
      BY <1>3, <2>7, <3>1, <3>2, RoundsStep
  <2>11. Others(G, b, L + 1, R)'
    <3> SUFFICES ASSUME NEW c \in Brokers \ {b}
                 PROVE  Place(G, c, L + 1, R)'
      BY OthersPlace
    <3>1. /\ c \in RegisteredBrokers' <=> c \in RegisteredBrokers
          /\ c \in G[L + 1] <=> c \in RegisteredBrokers
          /\ L \in Nat
      BY <1>3, <1>11, <2>7
    <3>2. broker'[c] = broker[c] /\ timers'[c] = timers[c]
      BY <1>11
    <3> QED
      BY <1>3, <1>10, <2>7, <3>1, <3>2, PlaceNext
  <2>12. Up(G, b, L, 0)' /\ sleepDelayMsg \notin timers'[b]
    <3>1. UpState(H, b, broker[b], timers[b], L, 0) /\ broker[b] \in BrokerState /\ L \in Nat
      BY <1>3, <2>1 DEF Up, TypeOK
    <3>2. UpState(G, b, broker[b], timers[b], L, 0)
      BY <1>3, <2>7, <3>1, SameUp
    <3>3. f.timers = timers[b] \ {sleepDelayMsg}
      BY <1>4, <2>4
    <3>4. UpState(G, b, broker[b], f.timers, L, 0)
      BY <3>2, <3>3, UpWithoutSleep
    <3> QED
      BY <1>11, <3>3, <3>4 DEF Up
  <2>13. Leaving(G, b, R)'
    <3>1. Control' = Announced(R, join(b, convergenceNumber, TRUE))'
      BY <1>11, <2>6 DEF Announced, join, To
    <3>2. R \subseteq RegisteredBrokers' /\ b \in RegisteredBrokers' /\ RegisteredBrokers' # {b}
      BY <1>11, <2>1
    <3>3. G[convergenceNumber'] = RegisteredBrokers' \ {b}
      BY <1>11, <2>7
    <3>4. Others(G, b, convergenceNumber, R)'
      <4>1. convergenceNumber' = L + 1
        BY <1>3, <1>11
      <4> QED
        BY <2>11, <4>1 DEF Others
    <3>5. Up(G, b, convergenceNumber - 1, 0)' /\ broker'[b].converged
          /\ Round(b)' = convergenceNumber' - 1
      BY <1>11, <1>12, <2>1, <2>12 DEF Up
    <3> QED
      BY <2>1, <2>12, <3>1, <3>2, <3>3, <3>4, <3>5 DEF Leaving
  <2>14. Phase(G)'
    BY <2>2, <2>13 DEF Phase
  <2>15. JoinsOK(G)'
    BY <1>8, <2>6, <2>8, <2>10, <2>14 DEF JoinsOK
  <2> QED
    BY <2>15
<1> QED
  BY <1>13, <1>14

(* What a broker schedules or sends at once when it starts a convergence:  *)
(* reports.                                                                *)
OnlyReports(e) ==
    /\ e.direct \in Seq(Event)
    /\ \A ev \in ToSet(e.direct) : Quick(ev) /\ ev.msg.type = "MWOE"

(* A search by the leader of a fragment reports to itself at once.         *)
LEMMA SearchReports ==
    ASSUME IsConditionTable(conditionTable), NEW g \in Effect, NEW f, Found(g, f),
           g.self \in Brokers, g.direct = <<>>, isLeader(g)
    PROVE  OnlyReports(f)
<1>1. f \in Effect /\ f.direct \in Seq(Event)
  BY DEF Found, Effect
<1>2. CASE Done(g.st)
  <2>1. f.direct = <<>>
    BY <1>2 DEF Found, Rests
  <2> QED
    BY <1>1, <2>1, NoElements DEF OnlyReports
<1>3. CASE ~Done(g.st)
  <2> PICK M : M = g.st.members
    OBVIOUS
  <2> PICK V : V = ToSet(g.st.availableBrokers)
    OBVIOUS
  <2> PICK r : r = reportOf(g.self, M, V, <<>>)
    OBVIOUS
  <2>1. V \ M # {} /\ SendsNow(g, f, g.self, r)
    BY <1>3 DEF Found, Seeks
  <2>2. V \in SUBSET Brokers
    <3>1. g.st.availableBrokers \in Seq(Brokers)
      BY DEF Effect, BrokerState
    <3> QED
      BY <3>1, ElementsType
  <2>3. r \in Message /\ r.type = "MWOE" /\ r.broker \in Brokers
    <3>1. <<>> \in Seq(Brokers)
      OBVIOUS
    <3>2. \A s \in Seq(Brokers) :
             LET t == reportOf(g.self, M, V, s)
             IN  t \in Message /\ t.type = "MWOE" /\ t.broker \in Brokers
      BY <2>1, <2>2, ReportIs
    <3> QED
      BY <3>1, <3>2
  <2>4. ToSet(f.direct) = {To(g.self, r)}
    <3> PICK v : v = To(g.self, r)
      OBVIOUS
    <3>1. f.direct = <<>> \o <<v>>
      BY <2>1 DEF SendsNow
    <3>2. v \in Event
      BY <2>3 DEF To, Event, Nodes
    <3> QED
      BY <3>1, <3>2, SingleEvent
  <2>5. Quick(To(g.self, r)) /\ To(g.self, r).msg.type = "MWOE"
    BY <2>3, NodesAssumption DEF Quick, To, Named
  <2> QED
    BY <1>1, <2>4, <2>5 DEF OnlyReports
<1> QED
  BY <1>2, <1>3

(* A broker that accepts a change is up, in the convergence of its number. *)
Restarts(H, e, f, n, L, k) ==
    /\ f \in Effect /\ f.self = e.self
    /\ UpState(H, e.self, f.st, f.timers, L, k)
    /\ OnlyReports(f) /\ WellSent(e.self, f.out)
    /\ ReportsNamed(f.st.receivedMWOEs)
    /\ ~f.st.initial /\ f.st.currentConvergence = n

(* It is so after the restart and the search that follows it.              *)
LEMMA RestartUp ==
    ASSUME IsConditionTable(conditionTable), NEW H, NEW L \in Nat, NEW k \in Nat,
           NEW e \in Effect, e.self \in Brokers, MapOK(e.st.neighboursMap),
           e.st.bufferedSubs = {}, e.direct = <<>>, WellSent(e.self, e.out),
           ReportsNamed(e.st.receivedMWOEs),
           TypesOf(e.timers) \subseteq {"Sleep", "Join"}, TimerJoins(e.timers) = {},
           NEW m \in JoinMessage, NEW list, list = RestartList(e, m),
           Distinct(list), ToSet(list) = H[m.convergenceNo],
           m.convergenceNo + Len(e.st.awaitingNSMsgs) + k = L,
           \A i \in DOMAIN e.st.awaitingNSMsgs :
              IsChange(H, e.st.awaitingNSMsgs[i], m.convergenceNo + i - 1),
           \A n \in m.convergenceNo .. L : e.self \in H[n]
    PROVE  Restarts(H, e, Restart(e, m), m.convergenceNo, L, k)
<1> PICK n : n = m.convergenceNo
  OBVIOUS
<1> PICK q : q = e.st.awaitingNSMsgs
  OBVIOUS
<1> PICK b : b = e.self
  OBVIOUS
<1>0. n \in Nat /\ q \in Seq(JoinMessage) /\ b \in Brokers
  BY DEF JoinMessage, Effect, BrokerState
<1>1. PICK g : Restart(e, m) = findAndSendMWOE(g) /\ Renews(e, g, list, n)
  BY RestartIs
<1> PICK f : f = findAndSendMWOE(g)
  OBVIOUS
<1>2. /\ g \in Effect /\ g.self = b
      /\ g.timers = e.timers /\ g.direct = <<>> /\ g.out = e.out
      /\ ~g.st.initial /\ g.st.currentConvergence = n
      /\ g.st.componentId = b /\ g.st.members = {b}
      /\ g.st.availableBrokers = list /\ g.st.neighboursMap = NoNeighbours
      /\ g.st.receivedMWOEs = e.st.receivedMWOEs
      /\ g.st.awaitingNSMsgs = q /\ g.st.bufferedSubs = {}
  BY <1>1 DEF Renews
<1>3. b \in ToSet(list)
  <2>1. Len(q) \in Nat
    BY <1>0
  <2>2. n \in n .. L
    BY <1>0, <2>1
  <2> QED
    BY <2>2
<1>4. Searching(g)
  BY <1>2, <1>3, NoMap DEF Searching
<1>5. Found(g, f)
  BY <1>4, SearchIs
<1>6. Runs(H, b, g.st, g.timers, L, k)
  <2>1. ListOK(H, g.st)
    BY <1>2 DEF ListOK
  <2>2. Waiting(H, g.st, g.timers, L, k)
    <3>1. TimerJoins(g.timers) = {} /\ Held(g.timers) = 0
      BY <1>2 DEF Held
    <3>2. g.st.currentConvergence + Held(g.timers) = n
      BY <1>0, <1>2, <3>1
    <3>3. n + Len(q) + k = L
      OBVIOUS
    <3>4. \A i \in DOMAIN q : IsChange(H, q[i], n + i - 1)
      OBVIOUS
    <3> QED
      BY <1>2, <3>1, <3>2, <3>3, <3>4 DEF Waiting
  <2>3. \A j \in g.st.currentConvergence .. L : b \in H[j]
    BY <1>2
  <2>4. TypesOf(g.timers) \subseteq {"Sleep", "Join"}
    BY <1>2
  <2> QED
    BY <1>2, <2>1, <2>2, <2>3, <2>4, NoMap DEF Runs
<1>7. UpState(H, b, f.st, f.timers, L, k)
  BY <1>2, <1>5, <1>6, SearchKeepsUp
<1>8. OnlyReports(f)
  BY <1>0, <1>2, <1>5, SearchReports DEF isLeader
<1>9. WellSent(b, f.out)
  <2>1. WellDue(g)
    BY <1>2, NoElements DEF WellDue
  <2> QED
    BY <1>0, <1>2, <1>5, <2>1, FoundWell
<1>10. /\ f \in Effect /\ f.self = b /\ ~f.st.initial /\ f.st.currentConvergence = n
       /\ f.st.receivedMWOEs = e.st.receivedMWOEs
  BY <1>2, <1>5 DEF Found, SameView
<1> QED
  BY <1>1, <1>7, <1>8, <1>9, <1>10 DEF Restarts

(* One more element that is not there yet.                                 *)
LEMMA AppendOne ==
    ASSUME NEW S, NEW s \in Seq(S), NEW x \in S, Distinct(s), x \notin ToSet(s)
    PROVE  ToSet(Append(s, x)) = ToSet(s) \cup {x} /\ Distinct(Append(s, x))
BY AppendElements, ZenonT(30)

(* The list of a broker that accepts a change of another one.              *)
LEMMA ChangedList ==
    ASSUME NEW H \in Histories, NEW e \in Effect, NEW m \in JoinMessage,
           m.requester # e.self, ListOK(H, e.st), IsChange(H, m, e.st.currentConvergence)
    PROVE  /\ Distinct(RestartList(e, m))
           /\ ToSet(RestartList(e, m)) = H[m.convergenceNo]
<1> PICK list : list = e.st.availableBrokers
  OBVIOUS
<1> PICK x : x = m.requester
  OBVIOUS
<1>1. list \in Seq(Brokers) /\ x \in Brokers
  BY DEF Effect, BrokerState, JoinMessage
<1>2. Distinct(list) /\ ToSet(list) = H[e.st.currentConvergence]
  BY DEF ListOK
<1>3. CASE m.leaving
  <2>1. x \in ToSet(list) /\ H[m.convergenceNo] = ToSet(list) \ {x}
    BY <1>2, <1>3 DEF IsChange
  <2>2. RestartList(e, m) = RemoveFirst(list, x)
    BY <1>3 DEF RestartList
  <2>3. /\ Distinct(RemoveFirst(list, x))
        /\ ToSet(RemoveFirst(list, x)) = ToSet(list) \ {x}
    BY <1>1, <1>2, <2>1, RemoveFirstIs
  <2> QED
    BY <2>1, <2>2, <2>3
<1>4. CASE ~m.leaving
  <2>1. x \notin ToSet(list) /\ H[m.convergenceNo] = ToSet(list) \cup {x}
    BY <1>2, <1>4 DEF IsChange
  <2>2. RestartList(e, m) = Append(list, x)
    BY <1>4 DEF RestartList
  <2>3. ToSet(Append(list, x)) = ToSet(list) \cup {x} /\ Distinct(Append(list, x))
    <3>1. list \in Seq(Brokers) /\ x \in Brokers /\ Distinct(list) /\ x \notin ToSet(list)
      BY <1>1, <1>2, <2>1
    <3> QED
      BY <3>1, AppendOne
  <2> QED
    BY <2>1, <2>2, <2>3
<1> QED
  BY <1>3, <1>4

(* The reports a broker sends at once come after all other control         *)
(* messages, and add none.                                                 *)
LEMMA ReportsInQueue ==
    ASSUME NEW e, OnlyReports(e), NEW s \in Seq(Event), QueueOK(s)
    PROVE  QueueOK(s \o e.direct) /\ ControlOf(s \o e.direct) = ControlOf(s)
<1> PICK t : t = e.direct
  OBVIOUS
<1>1. /\ t \in Seq(Event)
      /\ \A ev \in ToSet(t) : Quick(ev) /\ ev.msg.type = "MWOE"
  BY DEF OnlyReports
<1>2. \A i \in DOMAIN t : Quick(t[i]) /\ t[i].msg.type = "MWOE"
  BY <1>1, ElementsType
<1>3. \A i \in DOMAIN t : ~IsControl(t[i]) /\ ~IsJoin(t[i])
  BY <1>2 DEF IsControl, IsJoin
<1>4. QueueOK(t)
  BY <1>2, <1>3 DEF QueueOK
<1>5. ControlOf(t) = {}
  BY <1>1 DEF ControlOf, IsControl
<1>6. \A ev \in ToSet(t) : ~IsJoin(ev) /\ ev.msg.type \in {"MWOE", "Disconnection"}
  BY <1>1 DEF IsJoin
<1>7. /\ QueueOK(s \o t)
      /\ ControlOf(s \o t) = ControlOf(s) \cup ControlOf(t)
  BY <1>1, <1>4, <1>5, <1>6, QueueGrows
<1> QED
  BY <1>5, <1>7

(* How a broker that is up takes change n + 1 in the convergence before.   *)
LEMMA AcceptChange ==
    ASSUME IInv, NEW H, JoinsOK(H), NEW b \in Brokers, NEW L \in Nat, NEW k \in Nat, NEW k2 \in Nat,
           NEW a \in Arrivals(b), NEW m \in JoinMessage, m = a.msg,
           Runs(H, b, broker[b], timers[b], L, k2), m.requester # b,
           IsChange(H, m, Round(b)),
           TimerJoins(Start(b, a).timers) = {},
           m.convergenceNo + Len(broker[b].awaitingNSMsgs) + k = L,
           \A i \in DOMAIN broker[b].awaitingNSMsgs :
              IsChange(H, broker[b].awaitingNSMsgs[i], m.convergenceNo + i - 1)
    PROVE  Restarts(H, Start(b, a), Restart(Start(b, a), m), Round(b) + 1, L, k)
<1> PICK e : e = Start(b, a)
  OBVIOUS
<1>1. /\ e \in Effect /\ e.self = b /\ e.st = broker[b] /\ WellSent(b, e.out)
      /\ ReportsNamed(e.st.receivedMWOEs) /\ e.direct = <<>>
      /\ e.timers \subseteq timers[b]
  <2>1. /\ Start(b, a) \in Effect /\ Start(b, a).self = b /\ Start(b, a).st = broker[b]
        /\ WellSent(b, Start(b, a).out)
        /\ ReportsNamed(Start(b, a).st.receivedMWOEs)
    BY StartWell
  <2>2. /\ Start(b, a).direct = <<>>
        /\ Start(b, a).timers = IF a.from = b THEN timers[b] \ {a.msg} ELSE timers[b]
    BY StartIs
  <2> QED
    BY <2>1, <2>2
<1>2. /\ MapOK(broker[b].neighboursMap) /\ broker[b].bufferedSubs = {}
      /\ TypesOf(timers[b]) \subseteq {"Sleep", "Join"} /\ ListOK(H, broker[b])
      /\ \A n \in Round(b) .. L : b \in H[n]
      /\ Round(b) \in Nat
  BY DEF Runs, Round, IInv, TypeOK, BrokerState
<1>3. TypesOf(e.timers) \subseteq {"Sleep", "Join"}
  BY <1>1, <1>2 DEF TypesOf
<1>4. m.convergenceNo = Round(b) + 1
  BY DEF IsChange
<1> PICK list : list = RestartList(e, m)
  OBVIOUS
<1>5. Distinct(list) /\ ToSet(list) = H[m.convergenceNo]
  <2>1. H \in Histories
    BY DEF JoinsOK, HistoryOK
  <2>2. ListOK(H, e.st) /\ IsChange(H, m, e.st.currentConvergence) /\ m.requester # e.self
    BY <1>1, <1>2 DEF Round
  <2> QED
    BY <1>1, <2>1, <2>2, ChangedList
<1>6. \A n \in m.convergenceNo .. L : b \in H[n]
  BY <1>2, <1>4
<1>7. IsConditionTable(conditionTable)
  BY DEF IInv, TypeOK
<1>8. Restarts(H, e, Restart(e, m), m.convergenceNo, L, k)
  BY <1>1, <1>2, <1>3, <1>5, <1>6, <1>7, RestartUp
<1> QED
  BY <1>4, <1>8

(* A broker goes on to the convergence that follows its own.               *)
LEMMA RoundsGrow ==
    ASSUME TypeOK, FragmentsHold, NEW H \in Histories, RoundsOK(H), NEW b \in Brokers,
           Awake(b), Done(broker[b]), ListOK(H, broker[b]),
           Round(b)' = Round(b) + 1, Awake(b)',
           \A c \in Brokers \ {b} : Round(c)' = Round(c),
           \A c \in Brokers \ {b} : Awake(c) => Awake(c)'
    PROVE  RoundsOK(H)'
<1>1. \A c \in Brokers : Round(c) \in Nat
  BY DEF TypeOK, BrokerState, Round
<1>2. \A x \in Brokers : Round(x)' \in Nat /\ Round(x)' >= Round(x)
  BY <1>1
<1>3. ASSUME NEW c \in Brokers, NEW n \in 0 .. Round(c)', Through(c, n)', c \in H[n]
      PROVE  \/ n <= Round(c) /\ Through(c, n) /\ H[n] = H[n]
             \/ \A x \in H[n] : Round(x) >= n
  <2>1. n < Round(c)' \/ (n = Round(c)' /\ ~Awake(c)')
    BY <1>3 DEF Through
  <2>2. CASE c # b
    <3>1. n < Round(c) \/ (n = Round(c) /\ ~Awake(c))
      BY <2>1, <2>2
    <3> QED
      BY <1>1, <3>1 DEF Through
  <2>3. CASE c = b
    <3>1. n < Round(b) + 1
      BY <2>1, <2>3
    <3>2. CASE n < Round(b)
      BY <1>1, <2>3, <3>2 DEF Through
    <3>3. CASE n = Round(b)
      <4>1. H[n] = Available(b) /\ Members(b) = Available(b)
        BY <3>3 DEF ListOK, Done, Available, Members, Round
      <4> QED
        BY <3>3, <4>1, OwnFacts
    <3> QED
      BY <1>1, <2>3, <3>1, <3>2, <3>3
  <2> QED
    BY <2>2, <2>3
<1> QED
  BY <1>2, <1>3, RoundsStep

(* A change that waited out its delay begins.                              *)
LEMMA DelayedJoinStep ==
    ASSUME IInv, FragmentsHold, NEW H, JoinsOK(H), NEW b \in Brokers, HandleJoinMessage(b),
           now = <<>>
    PROVE  JoinsOK(H)'
<1> PICK a \in Arrivals(b) :
         a.msg.type = "Join" /\ Finish(b, a, handleJoinMessage(Start(b, a), a.msg))
  BY DEF HandleJoinMessage, Arriving
<1> PICK m : m = a.msg
  OBVIOUS
<1> PICK L : L = convergenceNumber - 1
  OBVIOUS
<1>1. /\ now = <<>> /\ a.from = b /\ m \in timers[b] /\ m \in JoinMessage
      /\ timers[b] \in SUBSET Message
  <2>1. now = <<>> /\ a.from = b /\ m \in timers[b]
    BY ControlArrives
  <2>2. timers[b] \in SUBSET Message
    BY DEF IInv, TypeOK, KernelTypeOK, Nodes
  <2> QED
    BY <2>1, <2>2, MessageTypes
<1>2. /\ Calm(H) /\ HistoryOK(H) /\ QueueOK(now) /\ RoundsOK(H) /\ TypeOK
      /\ H \in Histories /\ convergenceNumber \in Nat /\ convergenceNumber > 0
      /\ L \in Nat /\ broker[b] \in BrokerState /\ Control = {}
  BY <1>1, CalmWhenIdle DEF JoinsOK, IInv, TypeOK, NSTypeOK, HistoryOK, Calm
<1>3. \A c \in Brokers : Place(H, c, L, {})
  <2>1. \A c \in Brokers \ {NULL} : Place(H, c, L, {})
    BY <1>2, OthersPlace DEF Calm
  <2> QED
    BY <2>1, NodesAssumption
<1>4. b \in RegisteredBrokers /\ Up(H, b, L, 0)
  <2>1. "Join" \in TypesOf(timers[b])
    BY <1>1 DEF TypesOf
  <2>2. ~Down(H, b, L, {"WakeUp"})
    BY <2>1 DEF Down, DownState
  <2> QED
    BY <1>3, <2>2 DEF Place
<1>5. m \in TimerJoins(timers[b])
  BY <1>1 DEF TimerJoins
<1>6. /\ Runs(H, b, broker[b], timers[b], L, 0)
      /\ broker[b].converged /\ Done(broker[b])
  BY <1>4, <1>5 DEF Up, UpState
<1> PICK q : q = broker[b].awaitingNSMsgs
  OBVIOUS
<1>7. Held(timers[b]) = 1 /\ Round(b) \in Nat /\ q \in Seq(JoinMessage) /\ Len(q) \in Nat
  BY <1>2, <1>5 DEF Held, Round, BrokerState
<1>8. /\ IsChange(H, m, Round(b)) /\ m.convergenceNo = Round(b) + 1
      /\ m.convergenceNo + Len(q) + 0 = L
      /\ \A i \in DOMAIN q : IsChange(H, q[i], m.convergenceNo + i - 1)
  <2>1. Waiting(H, broker[b], timers[b], L, 0)
    BY <1>6 DEF Runs
  <2>2. IsChange(H, m, Round(b))
    BY <1>5, <2>1 DEF Waiting, Round
  <2>3. m.convergenceNo = Round(b) + 1
    BY <2>2 DEF IsChange
  <2>4. m.convergenceNo = Round(b) + Held(timers[b])
    BY <1>7, <2>3
  <2> QED
    BY <2>1, <2>2, <2>3, <2>4 DEF Waiting, Round
<1>9. b \in H[Round(b)] /\ b \in H[Round(b) + 1] /\ ListOK(H, broker[b]) /\ ~broker[b].initial
  <2>1. Round(b) \in Round(b) .. L /\ Round(b) + 1 \in Round(b) .. L
    BY <1>2, <1>7, <1>8
  <2> QED
    BY <1>6, <2>1 DEF Runs, Round
<1>10. m.requester # b
  BY <1>8, <1>9 DEF IsChange
<1> PICK e : e = Start(b, a)
  OBVIOUS
<1>11. e \in Effect /\ e.self = b /\ e.st = broker[b] /\ e.timers = timers[b] \ {m}
  <2>1. /\ Start(b, a) \in Effect /\ Start(b, a).self = b /\ Start(b, a).st = broker[b]
        /\ Start(b, a).timers = IF a.from = b THEN timers[b] \ {a.msg} ELSE timers[b]
    BY StartIs
  <2> QED
    BY <1>1, <2>1
<1>12. TimerJoins(e.timers) = {}
  <2> SUFFICES ASSUME NEW j \in TimerJoins(timers[b]) PROVE j = m
    BY <1>11 DEF TimerJoins
  <2>1. j \in JoinMessage
    BY <1>1, MessageTypes DEF TimerJoins
  <2>2. IsChange(H, j, Round(b))
    BY <1>6 DEF Runs, Waiting, Round
  <2> QED
    BY <1>1, <1>2, <1>7, <1>8, <2>1, <2>2, ChangeIsOne
<1> PICK f : f = Restart(e, m)
  OBVIOUS
<1>13. handleJoinMessage(e, m) = f
  <2>1. AcceptsJoin(broker[b], m)
    BY <1>6, <1>8 DEF AcceptsJoin, Round
  <2> QED
    BY <1>10, <1>11, <2>1 DEF handleJoinMessage
<1>14. Restarts(H, e, f, Round(b) + 1, L, 0)
  BY <1>1, <1>2, <1>6, <1>8, <1>10, <1>12, AcceptChange
<1>15. /\ f \in Effect /\ f.self = b /\ UpState(H, b, f.st, f.timers, L, 0)
       /\ OnlyReports(f) /\ WellSent(b, f.out) /\ ReportsNamed(f.st.receivedMWOEs)
       /\ ~f.st.initial /\ f.st.currentConvergence = Round(b) + 1
  BY <1>11, <1>14 DEF Restarts
<1>16. Acts(b, a, f)
  BY <1>11, <1>13, <1>15, FinishActs
<1>17. /\ now' = rest(a) \o f.direct
       /\ broker'[b] = f.st /\ timers'[b] = f.timers
       /\ \A c \in Brokers \ {b} : broker'[c] = broker[c] /\ timers'[c] = timers[c]
       /\ RegisteredBrokers' = RegisteredBrokers
       /\ brokerList' = brokerList /\ convergenceNumber' = convergenceNumber
       /\ rest(a) \in Seq(Event) /\ QueueOK(rest(a))
  BY <1>2, <1>16, StepFacts, ZenonT(30)
<1>18. QueueOK(now') /\ Control' = {}
  <2>1. rest(a) = <<>>
    BY <1>1, NodesAssumption DEF rest
  <2>2. ControlOf(rest(a)) = {}
    BY <2>1, NoQueue
  <2> QED
    BY <1>15, <1>17, <2>2, ReportsInQueue DEF Control
<1>19. \A c \in Brokers : Undisturbed(Control, c) /\ Undisturbed(Control', c)
  BY <1>2, <1>18 DEF Undisturbed
<1>20. RoundsOK(H)'
  <2>1. Awake(b) /\ Awake(b)'
    BY <1>4, <1>9, <1>15, <1>17, <1>19, AwakeIs, AwakeNextIs
  <2>2. \A c \in Brokers \ {b} : Awake(c) => Awake(c)'
    BY <1>17, <1>19, AwakeIs, AwakeNextIs
  <2>3. \A c \in Brokers \ {b} : Round(c)' = Round(c)
    BY <1>17 DEF Round
  <2>4. Round(b)' = Round(b) + 1
    BY <1>15, <1>17 DEF Round
  <2> QED
    BY <1>2, <1>6, <1>9, <2>1, <2>2, <2>3, <2>4, RoundsGrow
<1>21. HistoryOK(H)'
  BY <1>2, <1>17 DEF HistoryOK
<1>22. Calm(H)'
  <2>1. ASSUME NEW c \in Brokers \ {NULL} PROVE Place(H, c, L, {})'
    <3>1. CASE c # b
      BY <1>3, <1>17, <3>1, PlaceKept
    <3>2. CASE c = b
      <4>1. Up(H, b, L, 0)'
        BY <1>15, <1>17 DEF Up
      <4> QED
        BY <1>4, <1>17, <3>2, <4>1 DEF Place
    <3> QED
      BY <3>1, <3>2
  <2>2. Others(H, NULL, L, {})'
    BY <2>1, OthersPlace
  <2>3. convergenceNumber' - 1 = L
    BY <1>17
  <2> QED
    BY <1>18, <2>2, <2>3 DEF Calm, Others
<1>23. ChannelsOK' /\ NoEmptyReport'
  BY <1>15, <1>16, ChannelsAndReports
<1> QED
  BY <1>18, <1>20, <1>21, <1>22, <1>23 DEF JoinsOK, Phase

(* A change that reaches a broker that is up: it is taken up at once, or   *)
(* held back behind the others.                                            *)
Takes(H, e, f, n, L) ==
    /\ f \in Effect /\ f.self = e.self
    /\ UpState(H, e.self, f.st, f.timers, L, 0)
    /\ OnlyReports(f) /\ WellSent(e.self, f.out)
    /\ ReportsNamed(f.st.receivedMWOEs)
    /\ ~f.st.initial
    /\ \/ f.st.currentConvergence = n
       \/ f.st.currentConvergence = n + 1 /\ e.st.converged

(* One change more is held, one less is due.                               *)
LEMMA OneMore ==
    ASSUME NEW n \in Nat, NEW h \in Nat, NEW l \in Nat, NEW L \in Nat, n + h + l + 1 = L
    PROVE  n + h + (l + 1) - 1 = L - 1 /\ n + h + (l + 1) + 0 = L
OBVIOUS

queued(st, m) == [st EXCEPT !.awaitingNSMsgs = Append(st.awaitingNSMsgs, m)]

(* It is held in the queue if the broker is busy with an earlier one.      *)
LEMMA QueueChange ==
    ASSUME NEW H, NEW b, NEW st \in BrokerState, NEW ts, NEW L \in Nat,
           UpState(H, b, st, ts, L, 1), NEW m \in JoinMessage, IsChange(H, m, L - 1),
           ~AcceptsJoin(st, m)
    PROVE  UpState(H, b, queued(st, m), ts, L, 0)
<1>a. PICK t : t = queued(st, m)
  OBVIOUS
<1>b. PICK q : q = Append(st.awaitingNSMsgs, m)
  OBVIOUS
<1>c. PICK p : p = st.awaitingNSMsgs
  OBVIOUS
<1>d. PICK n : n = st.currentConvergence
  OBVIOUS
<1>e. PICK h : h = Held(ts)
  OBVIOUS
<1>1. /\ p \in Seq(JoinMessage) /\ Len(p) \in Nat /\ n \in Nat /\ h \in Nat
      /\ (h = 0 <=> TimerJoins(ts) = {})
  BY <1>c, <1>d, <1>e DEF BrokerState, Held
<1>2. Runs(H, b, st, ts, L, 1) /\ Waiting(H, st, ts, L, 1)
  BY DEF UpState, Runs
<1>3. /\ \A j \in TimerJoins(ts) : IsChange(H, j, n)
      /\ \A i \in DOMAIN p : IsChange(H, p[i], n + h + i - 1)
      /\ n + h + Len(p) + 1 = L
  BY <1>2, <1>c, <1>d, <1>e DEF Waiting
<1>4. /\ t.initial = st.initial /\ t.converged = st.converged
      /\ t.currentConvergence = n /\ t.availableBrokers = st.availableBrokers
      /\ t.neighboursMap = st.neighboursMap /\ t.bufferedSubs = st.bufferedSubs
      /\ t.componentId = st.componentId /\ t.leaderHop = st.leaderHop
      /\ t.members = st.members /\ t.awaitingNSMsgs = q
  BY <1>a, <1>b, <1>d DEF BrokerState, queued
<1>5. /\ Len(q) = Len(p) + 1 /\ q # <<>>
      /\ \A i \in DOMAIN q : q[i] = IF i = Len(p) + 1 THEN m ELSE p[i]
      /\ \A i \in DOMAIN q : i # Len(p) + 1 => i \in DOMAIN p
  BY <1>1, <1>b, <1>c
<1>6. Waiting(H, t, ts, L, 0)
  <2>1. \A i \in DOMAIN q : IsChange(H, q[i], n + h + i - 1)
    <3> SUFFICES ASSUME NEW i \in DOMAIN q PROVE IsChange(H, q[i], n + h + i - 1)
      OBVIOUS
    <3>1. CASE i = Len(p) + 1
      <4>1. n + h + i - 1 = L - 1 /\ q[i] = m
        <5>1. n + h + (Len(p) + 1) - 1 = L - 1
          BY <1>1, <1>3, OneMore
        <5>2. n + h + i - 1 = L - 1
          BY <3>1, <5>1
        <5> QED
          BY <1>5, <3>1, <5>2
      <4> QED
        BY <4>1
    <3>2. CASE i # Len(p) + 1
      BY <1>3, <1>5, <3>2
    <3> QED
      BY <3>1, <3>2
  <2>2. n + h + Len(q) + 0 = L
    <3>1. n + h + (Len(p) + 1) + 0 = L
      BY <1>1, <1>3, OneMore
    <3>2. Len(q) = Len(p) + 1
      BY <1>5
    <3> QED
      BY <3>1, <3>2
  <2> QED
    BY <1>3, <1>4, <1>e, <2>1, <2>2 DEF Waiting
<1>7. Runs(H, b, t, ts, L, 0)
  <2>1. ListOK(H, t) <=> ListOK(H, st)
    BY <1>4, <1>d DEF ListOK
  <2> QED
    BY <1>2, <1>4, <1>6, <1>d, <2>1 DEF Runs
<1>8. t.converged => Done(t) /\ TimerJoins(ts) # {}
  <2> SUFFICES ASSUME st.converged PROVE Done(t) /\ TimerJoins(ts) # {}
    BY <1>4
  <2>1. Done(st) /\ (p # <<>> => TimerJoins(ts) # {})
    BY <1>c DEF UpState
  <2>2. Done(t)
    BY <1>4, <2>1 DEF Done
  <2>3. m.convergenceNo = L
    <3>1. m.convergenceNo = L - 1 + 1
      BY DEF IsChange
    <3> QED
      BY <3>1
  <2>4. L # n + 1
    BY <1>d, <2>3 DEF AcceptsJoin
  <2>5. TimerJoins(ts) # {}
    <3> SUFFICES ASSUME TimerJoins(ts) = {} PROVE FALSE
      OBVIOUS
    <3>1. h = 0 /\ p = <<>>
      BY <1>1, <2>1
    <3>2. Len(p) = 0
      BY <3>1
    <3> QED
      BY <1>1, <1>3, <2>4, <3>1, <3>2
  <2> QED
    BY <2>2, <2>5
<1>9. ~t.converged => TimerJoins(ts) = {}
  BY <1>4 DEF UpState
<1> QED
  BY <1>7, <1>8, <1>9, <1>a DEF UpState

(* A handler of an event without delay begins with the timers as they are. *)
LEMMA StartNow ==
    ASSUME IInv, NEW H, JoinsOK(H), NEW b \in Brokers, NEW a \in Arrivals(b), a.from = NULL
    PROVE  LET e == Start(b, a)
           IN  /\ e \in Effect /\ e.self = b /\ e.st = broker[b] /\ WellSent(b, e.out)
               /\ ReportsNamed(e.st.receivedMWOEs) /\ e.direct = <<>>
               /\ e.timers = timers[b]
<1>1. /\ Start(b, a) \in Effect /\ Start(b, a).self = b /\ Start(b, a).st = broker[b]
      /\ WellSent(b, Start(b, a).out)
      /\ ReportsNamed(Start(b, a).st.receivedMWOEs)
  BY StartWell
<1>2. /\ Start(b, a).direct = <<>>
      /\ Start(b, a).timers = IF a.from = b THEN timers[b] \ {a.msg} ELSE timers[b]
  BY StartIs
<1> QED
  BY <1>1, <1>2, NodesAssumption

(* That is what handleJoinMessage does with a change of another broker.    *)
LEMMA TakesChange ==
    ASSUME IInv, NEW H, JoinsOK(H), NEW b \in Brokers, NEW L \in Nat,
           Up(H, b, L, 1), NEW a \in Arrivals(b), a.from = NULL,
           NEW m \in JoinMessage, m = a.msg, m.requester # b, IsChange(H, m, L - 1)
    PROVE  Takes(H, Start(b, a), handleJoinMessage(Start(b, a), m), Round(b), L)
<1> PICK e : e = Start(b, a)
  OBVIOUS
<1> PICK f : f = handleJoinMessage(e, m)
  OBVIOUS
<1>1. /\ e \in Effect /\ e.self = b /\ e.st = broker[b] /\ WellSent(b, e.out)
      /\ ReportsNamed(e.st.receivedMWOEs) /\ e.direct = <<>>
      /\ e.timers = timers[b]
  BY StartNow
<1>2. broker[b] \in BrokerState /\ Round(b) \in Nat /\ UpState(H, b, broker[b], timers[b], L, 1)
  BY DEF IInv, TypeOK, BrokerState, Round, Up
<1>3. Runs(H, b, broker[b], timers[b], L, 1) /\ ~broker[b].initial
  BY <1>2 DEF UpState, Runs
<1>4. m.convergenceNo = L
  <2>1. m.convergenceNo = L - 1 + 1
    BY DEF IsChange
  <2> QED
    BY <2>1
<1>5. CASE AcceptsJoin(broker[b], m)
  <2>1. broker[b].converged /\ L = Round(b) + 1
    BY <1>3, <1>4, <1>5 DEF AcceptsJoin, Round
  <2> PICK q : q = broker[b].awaitingNSMsgs
    OBVIOUS
  <2>2. /\ Held(timers[b]) \in Nat /\ (Held(timers[b]) = 0 <=> TimerJoins(timers[b]) = {})
        /\ q \in Seq(JoinMessage) /\ Len(q) \in Nat
    BY <1>2 DEF Held, BrokerState
  <2>3. Round(b) + Held(timers[b]) + Len(q) + 1 = L
    BY <1>3 DEF Runs, Waiting, Round
  <2>4. Held(timers[b]) = 0 /\ Len(q) = 0
    BY <1>2, <2>1, <2>2, <2>3
  <2>5. TimerJoins(e.timers) = {} /\ DOMAIN q = {}
    BY <1>1, <2>2, <2>4
  <2>6. m.convergenceNo + Len(q) + 0 = L
    BY <1>4, <2>4
  <2>7. IsChange(H, m, Round(b))
    <3>1. L - 1 = Round(b)
      BY <1>2, <2>1
    <3> QED
      BY <3>1
  <2>8. Restarts(H, e, Restart(e, m), Round(b) + 1, L, 0)
    BY <1>3, <2>5, <2>6, <2>7, AcceptChange
  <2>9. f = Restart(e, m)
    BY <1>1, <1>5 DEF handleJoinMessage
  <2> QED
    BY <1>1, <2>1, <2>8, <2>9 DEF Restarts, Takes
<1>6. CASE ~AcceptsJoin(broker[b], m)
  <2> PICK q : q = Append(broker[b].awaitingNSMsgs, m)
    OBVIOUS
  <2>1. /\ f \in Effect /\ f.self = b /\ f.timers = timers[b] /\ SendsNothing(e, f)
        /\ f.st = [broker[b] EXCEPT !.awaitingNSMsgs = q]
    <3>1. ~AcceptsJoin(e.st, m)
      BY <1>1, <1>6
    <3>2. /\ f \in Effect /\ f.self = e.self /\ f.timers = e.timers /\ SendsNothing(e, f)
          /\ f.st = [e.st EXCEPT !.awaitingNSMsgs = Append(e.st.awaitingNSMsgs, m)]
      BY <1>1, <3>1, QueueIs
    <3> QED
      BY <1>1, <3>2
  <2>2. UpState(H, b, f.st, timers[b], L, 0)
    <3> PICK st : st = broker[b]
      OBVIOUS
    <3> PICK ts : ts = timers[b]
      OBVIOUS
    <3> PICK t : t = f.st
      OBVIOUS
    <3>1. /\ st \in BrokerState /\ UpState(H, b, st, ts, L, 1) /\ ~AcceptsJoin(st, m)
          /\ t = queued(st, m)
      BY <1>2, <1>6, <2>1 DEF queued
    <3>2. UpState(H, b, queued(st, m), ts, L, 0)
      BY <3>1, QueueChange
    <3> QED
      BY <3>1, <3>2
  <2>3. /\ f.st.initial = broker[b].initial
        /\ f.st.receivedMWOEs = broker[b].receivedMWOEs
        /\ f.st.currentConvergence = Round(b)
    BY <1>2, <2>1 DEF BrokerState, Round
  <2>4. f.direct = <<>> /\ f.out = e.out
    BY <1>1, <2>1 DEF SendsNothing
  <2>5. OnlyReports(f)
    BY <2>1, <2>4, NoElements DEF OnlyReports, Effect
  <2> QED
    BY <1>1, <1>3, <2>1, <2>2, <2>3, <2>4, <2>5 DEF Takes
<1> QED
  BY <1>5, <1>6

(* The broker that wakes up takes its own join.                            *)
LEMMA TakesOwnJoin ==
    ASSUME IInv, NEW H, JoinsOK(H), NEW b \in Brokers, NEW L \in Nat,
           Down(H, b, L - 1, {"Sleep"}), broker[b].initial,
           Distinct(broker[b].availableBrokers), ToSet(broker[b].availableBrokers) = H[L],
           b \in H[L], NEW a \in Arrivals(b), a.from = NULL,
           NEW m \in JoinMessage, m = a.msg,
           m.requester = b, m.convergenceNo = L, m.leaving = FALSE
    PROVE  Restarts(H, Start(b, a), handleJoinMessage(Start(b, a), m), L, L, 0)
<1> PICK e : e = Start(b, a)
  OBVIOUS
<1> PICK f : f = handleJoinMessage(e, m)
  OBVIOUS
<1>1. /\ e \in Effect /\ e.self = b /\ e.st = broker[b] /\ WellSent(b, e.out)
      /\ ReportsNamed(e.st.receivedMWOEs) /\ e.direct = <<>>
      /\ e.timers = timers[b]
  BY StartNow
<1>2. /\ broker[b].converged /\ broker[b].awaitingNSMsgs = <<>>
      /\ broker[b].neighboursMap = NoNeighbours /\ broker[b].bufferedSubs = {}
      /\ TypesOf(timers[b]) \subseteq {"Sleep"}
  BY DEF Down, DownState
<1>3. m.requester = b /\ m.convergenceNo = L /\ m.leaving = FALSE
  OBVIOUS
<1>4. f = Restart(e, m)
  BY <1>1, <1>2, <1>3 DEF handleJoinMessage, AcceptsJoin
<1> PICK list : list = RestartList(e, m)
  OBVIOUS
<1>5. list = broker[b].availableBrokers
  BY <1>1, <1>3 DEF RestartList
<1>6. TypesOf(e.timers) \subseteq {"Sleep", "Join"} /\ TimerJoins(e.timers) = {}
  BY <1>1, <1>2 DEF TypesOf, TimerJoins
<1>7. /\ DOMAIN e.st.awaitingNSMsgs = {} /\ Len(e.st.awaitingNSMsgs) = 0
      /\ m.convergenceNo + Len(e.st.awaitingNSMsgs) + 0 = L
  <2>1. e.st.awaitingNSMsgs = <<>>
    BY <1>1, <1>2
  <2>2. DOMAIN e.st.awaitingNSMsgs = {} /\ Len(e.st.awaitingNSMsgs) = 0
    BY <2>1
  <2>3. m.convergenceNo = L /\ L + 0 + 0 = L
    BY <1>3
  <2> QED
    BY <2>2, <2>3
<1>8. \A n \in m.convergenceNo .. L : e.self \in H[n]
  <2>1. \A n \in L .. L : n = L
    OBVIOUS
  <2>2. e.self \in H[L]
    BY <1>1
  <2>3. m.convergenceNo = L
    BY <1>3
  <2> QED
    BY <2>1, <2>2, <2>3
<1>9. MapOK(e.st.neighboursMap) /\ e.st.bufferedSubs = {}
  BY <1>1, <1>2, NoMap
<1>10. IsConditionTable(conditionTable)
  BY DEF IInv, TypeOK
<1>11. Distinct(list) /\ ToSet(list) = H[m.convergenceNo]
  BY <1>3, <1>5
<1>12. \A i \in DOMAIN e.st.awaitingNSMsgs :
          IsChange(H, e.st.awaitingNSMsgs[i], m.convergenceNo + i - 1)
  BY <1>7
<1>13. Restarts(H, e, Restart(e, m), m.convergenceNo, L, 0)
  BY <1>1, <1>6, <1>7, <1>8, <1>9, <1>10, <1>11, <1>12, RestartUp, SMTT(30)
<1> QED
  BY <1>3, <1>4, <1>13

(* What a step of broker b leaves as it is.                                *)
Alone(b) ==
    /\ \A c \in Brokers \ {b} : broker'[c] = broker[c] /\ timers'[c] = timers[c]
    /\ RegisteredBrokers' = RegisteredBrokers
    /\ brokerList' = brokerList /\ convergenceNumber' = convergenceNumber

(* A step that answers message m of the queue with reports.                *)
Served(H, b, m) ==
    /\ QueueOK(now') /\ Control' = Control \ {To(b, m)}
    /\ RoundsOK(H)' /\ HistoryOK(H)' /\ ChannelsOK' /\ NoEmptyReport'
    /\ Alone(b)

(* A change under way reaches a broker it is not about.                    *)
LEMMA TakeStep ==
    ASSUME IInv, FragmentsHold, NEW H, JoinsOK(H), NEW b \in RegisteredBrokers,
           b \in Brokers, NEW L \in Nat, Up(H, b, L, 1), Undisturbed(Control, b),
           NEW a \in Arrivals(b), a.from = NULL, a.msg.type = "Join",
           NEW m \in JoinMessage, m = a.msg, m.requester # b, IsChange(H, m, L - 1),
           Finish(b, a, handleJoinMessage(Start(b, a), a.msg))
    PROVE  Served(H, b, m) /\ Up(H, b, L, 0)'
<1>a. PICK e : e = Start(b, a)
  OBVIOUS
<1>b. PICK f : f = handleJoinMessage(e, m)
  OBVIOUS
<1>1. e \in Effect /\ e.st = broker[b] /\ e.self = b
  BY <1>a, StartNow
<1>2. Takes(H, e, f, Round(b), L)
  BY <1>a, <1>b, TakesChange
<1>3. /\ f \in Effect /\ UpState(H, b, f.st, f.timers, L, 0)
      /\ OnlyReports(f) /\ WellSent(b, f.out) /\ ReportsNamed(f.st.receivedMWOEs)
      /\ ~f.st.initial
      /\ \/ f.st.currentConvergence = Round(b)
         \/ f.st.currentConvergence = Round(b) + 1 /\ broker[b].converged
  BY <1>1, <1>2 DEF Takes
<1>4. Acts(b, a, f)
  BY <1>1, <1>3, <1>a, <1>b, FinishActs
<1>5. HistoryOK(H) /\ QueueOK(now) /\ RoundsOK(H) /\ TypeOK /\ H \in Histories
  BY DEF JoinsOK, IInv, HistoryOK
<1>6. /\ now' = rest(a) \o f.direct /\ rest(a) \in Seq(Event) /\ QueueOK(rest(a))
      /\ ControlOf(rest(a)) = Control \ {To(b, m)}
      /\ broker'[b] = f.st /\ timers'[b] = f.timers /\ Alone(b)
  BY <1>4, <1>5, StepFacts DEF Alone
<1>7. QueueOK(now') /\ Control' = Control \ {To(b, m)}
  BY <1>3, <1>6, ReportsInQueue DEF Control
<1>8. \A c \in Brokers : Undisturbed(Control, c) => Undisturbed(Control', c)
  BY <1>7 DEF Undisturbed
<1>9. UpState(H, b, broker[b], timers[b], L, 1) /\ Runs(H, b, broker[b], timers[b], L, 1)
  BY DEF Up, UpState
<1>10. Awake(b) /\ Awake(b)'
  <2>1. ~broker[b].initial
    BY <1>9 DEF Runs
  <2> QED
    BY <1>3, <1>6, <1>8, <2>1, AwakeIs, AwakeNextIs DEF Alone
<1>11. \A c \in Brokers \ {b} : (Awake(c) => Awake(c)') /\ Round(c)' = Round(c)
  BY <1>6, <1>8, AwakeIs, AwakeNextIs DEF Alone, Round
<1>12. RoundsOK(H)'
  <2>1. CASE f.st.currentConvergence = Round(b)
    <3>1. \A c \in Brokers : Round(c)' = Round(c)
      BY <1>6, <1>11, <2>1 DEF Round
    <3>2. \A c \in Brokers : Awake(c) => Awake(c)'
      BY <1>10, <1>11
    <3> QED
      BY <1>5, <3>1, <3>2, RoundsKept
  <2>2. CASE f.st.currentConvergence = Round(b) + 1 /\ broker[b].converged
    <3>1. Round(b)' = Round(b) + 1
      BY <1>6, <2>2 DEF Round
    <3>2. Done(broker[b]) /\ ListOK(H, broker[b])
      BY <1>9, <2>2 DEF UpState, Runs
    <3> QED
      BY <1>5, <1>10, <1>11, <3>1, <3>2, RoundsGrow
  <2> QED
    BY <1>3, <2>1, <2>2
<1>13. HistoryOK(H)'
  BY <1>5, <1>6 DEF HistoryOK, Alone
<1>14. ChannelsOK' /\ NoEmptyReport'
  BY <1>3, <1>4, ChannelsAndReports
<1> QED
  BY <1>3, <1>6, <1>7, <1>12, <1>13, <1>14 DEF Served, Up

(* One copy less of an announcement is due.                                *)
LEMMA AnnouncedLess ==
    ASSUME NEW D, NEW b, NEW m
    PROVE  Announced(D, m) \ {To(b, m)} = Announced(D \ {b}, m)
BY DEF Announced, To

(* The change of one broker at another, when b has taken it.               *)
LEMMA OthersTake ==
    ASSUME NEW H, NEW x \in Brokers, NEW L, NEW D, Others(H, x, L, D),
           NEW b \in RegisteredBrokers, b \in Brokers, b # x, Alone(b), Up(H, b, L, 0)'
    PROVE  Others(H, x, L, D \ {b})'
<1> SUFFICES ASSUME NEW c \in Brokers \ {x} PROVE Place(H, c, L, D \ {b})'
  BY OthersPlace
<1>1. Place(H, c, L, D)
  BY OthersPlace
<1>2. CASE c = b
  BY <1>2 DEF Place, Alone
<1>3. CASE c # b
  <2>1. /\ broker'[c] = broker[c] /\ timers'[c] = timers[c]
        /\ c \in RegisteredBrokers' <=> c \in RegisteredBrokers
        /\ c \in D <=> c \in D \ {b}
    BY <1>3 DEF Alone
  <2> QED
    BY <1>1, <2>1, PlaceKept
<1> QED
  BY <1>2, <1>3

(* The same when it is broker x itself that takes the change.              *)
LEMMA OthersStay ==
    ASSUME NEW H, NEW x \in Brokers, NEW L, NEW D, Others(H, x, L, D), Alone(x)
    PROVE  Others(H, x, L, D \ {x})'
<1> SUFFICES ASSUME NEW c \in Brokers \ {x} PROVE Place(H, c, L, D \ {x})'
  BY OthersPlace
<1>1. Place(H, c, L, D)
  BY OthersPlace
<1>2. /\ broker'[c] = broker[c] /\ timers'[c] = timers[c]
      /\ c \in RegisteredBrokers' <=> c \in RegisteredBrokers
      /\ c \in D <=> c \in D \ {x}
  BY DEF Alone
<1> QED
  BY <1>1, <1>2, PlaceKept

(* The join of broker x is due at the brokers left, or it is over.         *)
LEMMA JoiningGoesOn ==
    ASSUME TypeOK, NEW H, NEW x \in Brokers, NEW D \in SUBSET Brokers, Joining(H, x, D), NEW b \in D,
           NEW L, L = convergenceNumber - 1,
           Control' = Control \ {To(b, join(x, L, FALSE))}, Alone(b),
           Others(H, x, L, D \ {b})',
           b # x => broker'[x] = broker[x] /\ timers'[x] = timers[x],
           b = x => Up(H, x, L, 0)'
    PROVE  Phase(H)'
<1>1. /\ Control = Announced(D, join(x, L, FALSE))
      /\ D \subseteq RegisteredBrokers /\ x \in RegisteredBrokers
      /\ convergenceNumber > 1 /\ H[convergenceNumber - 2] = RegisteredBrokers \ {x}
      /\ x \notin D => Up(H, x, L, 0)
      /\ x \in D => /\ Down(H, x, convergenceNumber - 2, {"Sleep"})
                    /\ broker[x].initial /\ broker[x].availableBrokers = brokerList
  BY DEF Joining
<1>a. PICK E \in SUBSET Brokers : E = D \ {b}
  OBVIOUS
<1>2. Control' = Announced(E, join(x, L, FALSE))
  <2>a. PICK m : m = join(x, L, FALSE)
    OBVIOUS
  <2>1. Control' = Announced(D, m) \ {To(b, m)}
    BY <1>1, <2>a
  <2>2. Announced(D, m) \ {To(b, m)} = Announced(D \ {b}, m)
    BY AnnouncedLess
  <2> QED
    BY <1>a, <2>1, <2>2, <2>a
<1>3. /\ RegisteredBrokers' = RegisteredBrokers /\ brokerList' = brokerList
      /\ convergenceNumber' = convergenceNumber
  BY DEF Alone
<1>4. x \notin E => Up(H, x, L, 0)'
  BY <1>1, <1>a DEF Up
<1>5. Others(H, x, L, E)'
  BY <1>a
<1>6. CASE E = {}
  <2>1. Control' = {}
    BY <1>2, <1>6 DEF Announced
  <2>2. Others(H, NULL, L, {})'
    <3> SUFFICES ASSUME NEW c \in Brokers \ {NULL} PROVE Place(H, c, L, {})'
      BY OthersPlace
    <3>1. CASE c # x
      <4>1. Others(H, x, L, {})'
        BY <1>5, <1>6
      <4> QED
        BY <3>1, <4>1, OthersPlace
    <3>2. CASE c = x
      BY <1>1, <1>3, <1>4, <1>6, <3>2 DEF Place
    <3> QED
      BY <3>1, <3>2
  <2>3. Others(H, NULL, convergenceNumber - 1, {})'
    BY <1>3, <2>2 DEF Others
  <2> QED
    BY <2>1, <2>3 DEF Phase, Calm
<1>7. CASE E # {}
  <2>1. Joining(H, x, E)'
    <3>1. Control' = Announced(E, join(x, convergenceNumber - 1, FALSE))'
      BY <1>2, <1>3 DEF Announced, To, join
    <3>2. Others(H, x, convergenceNumber - 1, E)'
      BY <1>3, <1>5 DEF Others
    <3>3. x \in E => /\ Down(H, x, convergenceNumber - 2, {"Sleep"})'
                     /\ broker'[x].initial /\ broker'[x].availableBrokers = brokerList'
      BY <1>1, <1>3, <1>a DEF Down
    <3>4. x \notin E => Up(H, x, convergenceNumber - 1, 0)'
      BY <1>3, <1>4 DEF Up
    <3> QED
      BY <1>1, <1>3, <1>7, <1>a, <3>1, <3>2, <3>3, <3>4 DEF Joining
  <2> QED
    BY <2>1 DEF Phase
<1> QED
  BY <1>6, <1>7

(* A join is told from others by its broker, its number and its kind.      *)
LEMMA JoinIs ==
    ASSUME NEW m \in JoinMessage
    PROVE  m = join(m.requester, m.convergenceNo, m.leaving)
BY DEF JoinMessage, join

(* The change before the change after.                                     *)
LEMMA BackAndForth == \A L \in Nat : L - 1 + 1 = L
OBVIOUS

(* The join of broker x reaches another broker.                            *)
LEMMA JoinTaken ==
    ASSUME IInv, FragmentsHold, NEW H, JoinsOK(H), NEW x \in Brokers, NEW D \in SUBSET Brokers,
           Joining(H, x, D), NEW b \in D, b # x,
           NEW a \in Arrivals(b), a.from = NULL, a.msg.type = "Join",
           NEW m \in JoinMessage, m = a.msg,
           m.requester = x, m.convergenceNo = convergenceNumber - 1, m.leaving = FALSE,
           Finish(b, a, handleJoinMessage(Start(b, a), a.msg))
    PROVE  JoinsOK(H)'
<1>a. PICK L : L = convergenceNumber - 1
  OBVIOUS
<1>1. /\ Control = Announced(D, join(x, L, FALSE))
      /\ D \subseteq RegisteredBrokers /\ x \in RegisteredBrokers
      /\ convergenceNumber > 1 /\ H[convergenceNumber - 2] = RegisteredBrokers \ {x}
      /\ Others(H, x, L, D)
  BY <1>a DEF Joining
<1>2. convergenceNumber \in Nat /\ H[convergenceNumber - 1] = RegisteredBrokers /\ TypeOK
  BY DEF IInv, TypeOK, NSTypeOK, JoinsOK, HistoryOK
<1>3. L \in Nat /\ H[L] = RegisteredBrokers /\ H[L - 1] = RegisteredBrokers \ {x}
  <2>1. L - 1 = convergenceNumber - 2 /\ L \in Nat
    BY <1>1, <1>2, <1>a
  <2> QED
    BY <1>1, <1>2, <1>a, <2>1
<1>4. m.requester = x /\ m.convergenceNo = L /\ m.leaving = FALSE
  BY <1>a
<1>5. IsChange(H, m, L - 1)
  <2>0. L - 1 + 1 = L
    BY <1>3, BackAndForth
  <2>1. m.convergenceNo = L - 1 + 1 /\ L - 1 + 1 = L
    BY <1>4, <2>0
  <2> QED
    <3>1. m.convergenceNo = (L - 1) + 1 /\ ~m.leaving /\ m.requester \notin H[L - 1]
      BY <1>3, <1>4, <2>1
    <3>2. H[(L - 1) + 1] = H[L - 1] \cup {m.requester}
      <4>1. RegisteredBrokers = (RegisteredBrokers \ {x}) \cup {x}
        BY <1>1
      <4>2. H[(L - 1) + 1] = RegisteredBrokers
        BY <1>3, <2>1
      <4> QED
        BY <1>3, <1>4, <4>1, <4>2
    <3> QED
      BY <3>1, <3>2 DEF IsChange
<1>6. b \in RegisteredBrokers /\ b \in Brokers
  BY <1>1
<1>7. Up(H, b, L, 1)
  <2>1. Place(H, b, L, D)
    BY <1>1, <1>6, OthersPlace
  <2> QED
    BY <1>6, <2>1 DEF Place
<1>8. Undisturbed(Control, b)
  BY <1>1 DEF Undisturbed, Announced, join, To
<1>9. m.requester # b
  BY <1>4
<1>10. Served(H, b, m) /\ Up(H, b, L, 0)'
  BY <1>3, <1>5, <1>6, <1>7, <1>8, <1>9, TakeStep
<1>11. /\ QueueOK(now') /\ Control' = Control \ {To(b, m)}
       /\ RoundsOK(H)' /\ HistoryOK(H)' /\ ChannelsOK' /\ NoEmptyReport'
       /\ Alone(b)
  BY <1>10 DEF Served
<1>12. Others(H, x, L, D \ {b})'
  BY <1>1, <1>6, <1>10, <1>11, OthersTake
<1>13. Control' = Control \ {To(b, join(x, L, FALSE))}
  <2>1. m = join(x, L, FALSE)
    BY <1>4, JoinIs
  <2> QED
    BY <1>11, <2>1
<1>14. b # x => broker'[x] = broker[x] /\ timers'[x] = timers[x]
  BY <1>11 DEF Alone
<1>15. Phase(H)'
  BY <1>2, <1>11, <1>12, <1>13, <1>14, <1>a, JoiningGoesOn
<1> QED
  BY <1>11, <1>15 DEF JoinsOK

(* The rounds, when a broker that was away comes back in the last one.     *)
LEMMA RoundsReturn ==
    ASSUME TypeOK, NEW H \in Histories, RoundsOK(H), NEW x \in Brokers, NEW L \in Nat,
           DownState(H, x, broker[x], timers[x], L - 1, {"Sleep"}), broker[x].initial,
           Round(x)' = L, Awake(x)',
           \A c \in Brokers \ {x} : Round(c)' = Round(c) /\ (Awake(c) => Awake(c)')
    PROVE  RoundsOK(H)'
<1>1. \A c \in Brokers : Round(c) \in Nat
  BY DEF TypeOK, BrokerState, Round
<1>2. Round(x) <= L - 1 /\ \A n \in Round(x) + 1 .. L - 1 : x \notin H[n]
  BY DEF DownState, Round
<1>3. \A y \in Brokers : Round(y)' \in Nat /\ Round(y)' >= Round(y)
  BY <1>1, <1>2
<1>4. ~Awake(x)
  BY AwakeIs
<1>5. ASSUME NEW c \in Brokers, NEW n \in 0 .. Round(c)', Through(c, n)', c \in H[n]
      PROVE  \/ n <= Round(c) /\ Through(c, n) /\ H[n] = H[n]
             \/ \A y \in H[n] : Round(y) >= n
  <2>1. n < Round(c)' \/ (n = Round(c)' /\ ~Awake(c)')
    BY <1>5 DEF Through
  <2>2. CASE c # x
    <3>1. n < Round(c) \/ (n = Round(c) /\ ~Awake(c))
      BY <2>1, <2>2
    <3> QED
      BY <1>1, <3>1 DEF Through
  <2>3. CASE c = x
    <3>1. n < L /\ n \in Nat
      BY <2>1, <2>3
    <3>2. n <= Round(x)
      <4>1. n \notin Round(x) + 1 .. L - 1
        BY <1>2, <1>5, <2>3
      <4> QED
        BY <1>1, <3>1, <4>1
    <3> QED
      BY <1>1, <1>4, <2>3, <3>1, <3>2 DEF Through
  <2> QED
    BY <2>2, <2>3
<1> QED
  BY <1>3, <1>5, RoundsStep

(* The join of broker x comes back to it.                                  *)
LEMMA OwnJoinTaken ==
    ASSUME IInv, FragmentsHold, NEW H, JoinsOK(H), NEW x \in Brokers, NEW D \in SUBSET Brokers,
           Joining(H, x, D), x \in D,
           NEW a \in Arrivals(x), a.from = NULL, a.msg.type = "Join",
           NEW m \in JoinMessage, m = a.msg,
           m.requester = x, m.convergenceNo = convergenceNumber - 1, m.leaving = FALSE,
           Finish(x, a, handleJoinMessage(Start(x, a), a.msg))
    PROVE  JoinsOK(H)'
<1>a. PICK L : L = convergenceNumber - 1
  OBVIOUS
<1>1. /\ Control = Announced(D, join(x, L, FALSE))
      /\ x \in RegisteredBrokers /\ convergenceNumber > 1
      /\ Others(H, x, L, D)
      /\ Down(H, x, convergenceNumber - 2, {"Sleep"})
      /\ broker[x].initial /\ broker[x].availableBrokers = brokerList
  BY <1>a DEF Joining
<1>2. /\ convergenceNumber \in Nat /\ H[convergenceNumber - 1] = RegisteredBrokers /\ TypeOK
      /\ Distinct(brokerList) /\ HistoryOK(H) /\ QueueOK(now) /\ RoundsOK(H) /\ H \in Histories
  BY DEF IInv, TypeOK, NSTypeOK, JoinsOK, HistoryOK
<1>3. L \in Nat /\ H[L] = RegisteredBrokers /\ Down(H, x, L - 1, {"Sleep"})
  <2>1. L - 1 = convergenceNumber - 2 /\ L \in Nat
    BY <1>1, <1>2, <1>a
  <2> QED
    BY <1>1, <1>2, <1>a, <2>1
<1>4. m.requester = x /\ m.convergenceNo = L /\ m.leaving = FALSE
  BY <1>a
<1>5. /\ Distinct(broker[x].availableBrokers)
      /\ ToSet(broker[x].availableBrokers) = H[L]
  BY <1>1, <1>2, <1>3 DEF RegisteredBrokers, ToSet
<1>b. PICK e : e = Start(x, a)
  OBVIOUS
<1>c. PICK f : f = handleJoinMessage(e, m)
  OBVIOUS
<1>6. Restarts(H, e, f, L, L, 0)
  <2>1. x \in H[L]
    BY <1>1, <1>3
  <2>2. Restarts(H, Start(x, a), handleJoinMessage(Start(x, a), m), L, L, 0)
    BY <1>1, <1>3, <1>4, <1>5, <2>1, TakesOwnJoin
  <2> QED
    BY <2>2, <1>b, <1>c
<1>7. e \in Effect /\ e.st = broker[x] /\ e.self = x
  BY <1>b, StartNow
<1>8. /\ f \in Effect /\ UpState(H, x, f.st, f.timers, L, 0)
      /\ OnlyReports(f) /\ WellSent(x, f.out) /\ ReportsNamed(f.st.receivedMWOEs)
      /\ ~f.st.initial /\ f.st.currentConvergence = L
  BY <1>6, <1>7 DEF Restarts
<1>9. Acts(x, a, f)
  BY <1>7, <1>8, <1>b, <1>c, FinishActs
<1>10. /\ now' = rest(a) \o f.direct /\ rest(a) \in Seq(Event) /\ QueueOK(rest(a))
       /\ ControlOf(rest(a)) = Control \ {To(x, m)}
       /\ broker'[x] = f.st /\ timers'[x] = f.timers /\ Alone(x)
  <2>1. QueueOK(now)
    BY <1>2
  <2>2. To(x, m) = To(x, a.msg)
    OBVIOUS
  <2>3. /\ now' = rest(a) \o f.direct /\ rest(a) \in Seq(Event) /\ QueueOK(rest(a))
        /\ ControlOf(rest(a)) = Control \ {To(x, a.msg)}
        /\ broker'[x] = f.st /\ timers'[x] = f.timers
        /\ \A c \in Brokers \ {x} : broker'[c] = broker[c] /\ timers'[c] = timers[c]
        /\ RegisteredBrokers' = RegisteredBrokers
        /\ brokerList' = brokerList /\ convergenceNumber' = convergenceNumber
    BY <1>9, <2>1, StepFacts
  <2>4. Alone(x)
    BY <2>3 DEF Alone
  <2> QED
    BY <2>2, <2>3, <2>4
<1>11. QueueOK(now') /\ Control' = Control \ {To(x, m)}
  BY <1>8, <1>10, ReportsInQueue DEF Control
<1>12. \A c \in Brokers : Undisturbed(Control, c) /\ Undisturbed(Control', c)
  BY <1>1, <1>11 DEF Undisturbed, Announced, join, To
<1>13. RoundsOK(H)'
  <2>1. Awake(x)'
    BY <1>1, <1>8, <1>10, <1>12, AwakeNextIs DEF Alone
  <2>2. \A c \in Brokers \ {x} : Round(c)' = Round(c) /\ (Awake(c) => Awake(c)')
    BY <1>10, <1>12, AwakeIs, AwakeNextIs DEF Alone, Round
  <2>3. Round(x)' = L
    BY <1>8, <1>10 DEF Round
  <2> QED
    BY <1>1, <1>2, <1>3, <2>1, <2>2, <2>3, RoundsReturn DEF Down
<1>14. HistoryOK(H)'
  BY <1>2, <1>10 DEF HistoryOK, Alone
<1>15. ChannelsOK' /\ NoEmptyReport'
  BY <1>8, <1>9, ChannelsAndReports
<1>16. Up(H, x, L, 0)'
  BY <1>8, <1>10 DEF Up
<1>17. Others(H, x, L, D \ {x})'
  BY <1>1, <1>10, OthersStay
<1>18. Control' = Control \ {To(x, join(x, L, FALSE))}
  <2>1. m = join(x, L, FALSE)
    BY <1>4, JoinIs
  <2> QED
    BY <1>11, <2>1
<1>19. Phase(H)'
  BY <1>2, <1>10, <1>16, <1>17, <1>18, <1>a, JoiningGoesOn
<1> QED
  BY <1>11, <1>13, <1>14, <1>15, <1>19 DEF JoinsOK

(* What is under way while broker x leaves, once b has been told.          *)
LEMMA LeavingLess ==
    ASSUME NEW x, NEW D, NEW b, NEW j, j.type = "Join", NEW C,
           C = Announced(D, j) \cup (IF x \in D THEN {} ELSE {departure(x)}), b # x
    PROVE  C \ {To(b, j)}
             = Announced(D \ {b}, j) \cup (IF x \in D \ {b} THEN {} ELSE {departure(x)})
<1>1. To(b, j) # departure(x)
  <2>1. To(b, j).msg.type = "Join" /\ departure(x).msg.type = "Disconnection"
    BY DEF To, departure
  <2> QED
    BY <2>1
<1>2. x \in D <=> x \in D \ {b}
  OBVIOUS
<1>3. Announced(D, j) \ {To(b, j)} = Announced(D \ {b}, j)
  BY AnnouncedLess
<1> QED
  BY <1>1, <1>2, <1>3

(* The leave of broker x reaches another broker.                           *)
LEMMA LeaveTaken ==
    ASSUME IInv, FragmentsHold, NEW H, JoinsOK(H), NEW x \in Brokers, NEW D \in SUBSET Brokers,
           Leaving(H, x, D), NEW b \in D, b # x,
           NEW a \in Arrivals(b), a.from = NULL, a.msg.type = "Join",
           NEW m \in JoinMessage, m = a.msg,
           m.requester = x, m.convergenceNo = convergenceNumber, m.leaving = TRUE,
           Finish(b, a, handleJoinMessage(Start(b, a), a.msg))
    PROVE  JoinsOK(H)'
<1>a. PICK L : L = convergenceNumber
  OBVIOUS
<1>1. /\ Control = Announced(D, join(x, L, TRUE))
                     \cup (IF x \in D THEN {} ELSE {departure(x)})
      /\ D \subseteq RegisteredBrokers /\ x \in RegisteredBrokers
      /\ RegisteredBrokers # {x}
      /\ H[L] = RegisteredBrokers \ {x}
      /\ Others(H, x, L, D)
      /\ x \in D => /\ Up(H, x, L - 1, 0) /\ sleepDelayMsg \notin timers[x]
                    /\ broker[x].converged /\ Round(x) = L - 1
      /\ x \notin D => Down(H, x, L, {"WakeUp"})
  BY <1>a DEF Leaving
<1>2. L \in Nat /\ H[L - 1] = RegisteredBrokers /\ TypeOK
  BY <1>a DEF IInv, TypeOK, NSTypeOK, JoinsOK, HistoryOK
<1>3. m.requester = x /\ m.convergenceNo = L /\ m.leaving = TRUE
  BY <1>a
<1>4. IsChange(H, m, L - 1)
  <2>0. L - 1 + 1 = L
    BY <1>2, BackAndForth
  <2>1. m.convergenceNo = (L - 1) + 1 /\ m.leaving /\ m.requester \in H[L - 1]
    BY <1>1, <1>2, <1>3, <2>0
  <2>2. H[(L - 1) + 1] = H[L - 1] \ {m.requester}
    BY <1>1, <1>2, <1>3, <2>0
  <2> QED
    BY <2>1, <2>2 DEF IsChange
<1>5. b \in RegisteredBrokers /\ b \in Brokers
  BY <1>1
<1>6. Up(H, b, L, 1)
  <2>1. Place(H, b, L, D)
    BY <1>1, <1>5, OthersPlace
  <2> QED
    BY <1>5, <2>1 DEF Place
<1>7. Undisturbed(Control, b)
  BY <1>1 DEF Undisturbed, Announced, join, To, departure
<1>8. m.requester # b
  BY <1>3
<1>9. Served(H, b, m) /\ Up(H, b, L, 0)'
  BY <1>2, <1>4, <1>5, <1>6, <1>7, <1>8, TakeStep
<1>10. /\ QueueOK(now') /\ Control' = Control \ {To(b, m)}
       /\ RoundsOK(H)' /\ HistoryOK(H)' /\ ChannelsOK' /\ NoEmptyReport'
       /\ Alone(b)
  BY <1>9 DEF Served
<1>b. PICK E \in SUBSET Brokers : E = D \ {b}
  OBVIOUS
<1>11. Others(H, x, L, E)'
  BY <1>1, <1>5, <1>9, <1>10, <1>b, OthersTake
<1>12. Control' = Announced(E, join(x, L, TRUE)) \cup (IF x \in E THEN {} ELSE {departure(x)})
  <2>1. m = join(x, L, TRUE)
    BY <1>3, JoinIs
  <2>2. Control' = Control \ {To(b, join(x, L, TRUE))}
    BY <1>10, <2>1
  <2>a. PICK C : C = Control
    OBVIOUS
  <2>b. PICK j : j = join(x, L, TRUE)
    OBVIOUS
  <2>3. C = Announced(D, j) \cup (IF x \in D THEN {} ELSE {departure(x)})
    BY <1>1, <2>a, <2>b
  <2>4. j.type = "Join"
    BY <2>b DEF join
  <2>5. C \ {To(b, j)}
          = Announced(D \ {b}, j) \cup (IF x \in D \ {b} THEN {} ELSE {departure(x)})
    BY <2>3, <2>4, LeavingLess
  <2> QED
    BY <1>b, <2>2, <2>5, <2>a, <2>b
<1>13. /\ RegisteredBrokers' = RegisteredBrokers /\ convergenceNumber' = L
       /\ broker'[x] = broker[x] /\ timers'[x] = timers[x]
  BY <1>10, <1>a DEF Alone
<1>14. Leaving(H, x, E)'
  <2>1. Control' = (Announced(E, join(x, convergenceNumber, TRUE))
                      \cup (IF x \in E THEN {} ELSE {departure(x)}))'
    BY <1>12, <1>13 DEF Announced, To, join, departure
  <2>2. Others(H, x, convergenceNumber, E)'
    BY <1>11, <1>13 DEF Others
  <2>3. x \in E => x \in D
    BY <1>b
  <2>4. x \in E => /\ Up(H, x, convergenceNumber - 1, 0)' /\ sleepDelayMsg \notin timers'[x]
                   /\ broker'[x].converged /\ Round(x)' = convergenceNumber' - 1
    BY <1>1, <1>13, <2>3 DEF Up, Round
  <2>5. x \notin E => Down(H, x, convergenceNumber, {"WakeUp"})'
    BY <1>1, <1>13, <1>b DEF Down
  <2> QED
    BY <1>1, <1>13, <1>b, <2>1, <2>2, <2>4, <2>5 DEF Leaving
<1>15. Phase(H)'
  BY <1>14 DEF Phase
<1> QED
  BY <1>10, <1>15 DEF JoinsOK

(* A broker that has reached its own leave has nothing left to do.         *)
LEMMA LeaverFacts ==
    ASSUME NEW H, NEW b, NEW st \in BrokerState, NEW ts \in SUBSET Message, NEW L \in Nat,
           UpState(H, b, st, ts, L - 1, 0), sleepDelayMsg \notin ts,
           st.converged, st.currentConvergence = L - 1, b \notin H[L],
           NEW t, t = [[st EXCEPT !.initial = FALSE] EXCEPT !.neighboursMap = NoNeighbours]
    PROVE  DownState(H, b, t, ts \cup {wakeUpDelayMsg}, L, {"WakeUp"})
<1>1. /\ Runs(H, b, st, ts, L - 1, 0) /\ Done(st)
      /\ st.awaitingNSMsgs # <<>> => TimerJoins(ts) # {}
  BY DEF UpState
<1>2. /\ Held(ts) \in Nat /\ (Held(ts) = 0 <=> TimerJoins(ts) = {})
      /\ Len(st.awaitingNSMsgs) \in Nat
      /\ (L - 1) + Held(ts) + Len(st.awaitingNSMsgs) + 0 = L - 1
  BY <1>1 DEF Held, BrokerState, Runs, Waiting
<1>3. TimerJoins(ts) = {} /\ st.awaitingNSMsgs = <<>>
  <2>1. Held(ts) = 0
    BY <1>2
  <2> QED
    BY <1>1, <1>2, <2>1
<1>4. TypesOf(ts) = {}
  <2> SUFFICES ASSUME NEW m \in ts PROVE FALSE
    BY DEF TypesOf
  <2>1. m.type \in {"Sleep", "Join"}
    BY <1>1 DEF Runs, TypesOf
  <2>2. m.type # "Join"
    BY <1>3 DEF TimerJoins
  <2>3. m = sleepDelayMsg
    BY <2>1, <2>2, DelayMessages
  <2> QED
    BY <2>3
<1>5. TypesOf(ts \cup {wakeUpDelayMsg}) \subseteq {"WakeUp"}
  <2>1. wakeUpDelayMsg.type = "WakeUp"
    BY DEF wakeUpDelayMsg
  <2> QED
    BY <1>4, <2>1 DEF TypesOf
<1>6. /\ t.converged = st.converged /\ t.awaitingNSMsgs = st.awaitingNSMsgs
      /\ t.neighboursMap = NoNeighbours /\ t.bufferedSubs = st.bufferedSubs
      /\ t.currentConvergence = st.currentConvergence
      /\ t.availableBrokers = st.availableBrokers /\ t.members = st.members
  BY DEF BrokerState
<1>7. ListOK(H, t) /\ Done(t)
  BY <1>1, <1>6 DEF Runs, ListOK, Done
<1>8. b \in H[t.currentConvergence]
  <2>1. st.currentConvergence \in st.currentConvergence .. L - 1
    BY DEF BrokerState
  <2> QED
    BY <1>1, <1>6, <2>1 DEF Runs
<1>9. \A n \in t.currentConvergence + 1 .. L : b \notin H[n]
  <2> SUFFICES ASSUME NEW n \in t.currentConvergence + 1 .. L PROVE b \notin H[n]
    OBVIOUS
  <2>1. n = L
    BY <1>6
  <2> QED
    BY <2>1
<1>10. t.currentConvergence <= L
  BY <1>6
<1>11. t.bufferedSubs = {}
  BY <1>1, <1>6 DEF Runs
<1> QED
  BY <1>3, <1>5, <1>6, <1>7, <1>8, <1>9, <1>10, <1>11 DEF DownState

(* One more control message, behind joins.                                 *)
LEMMA DepartureInQueue ==
    ASSUME NEW s \in Seq(Event), QueueOK(s), NEW ev \in Event, ev.msg.type = "Disconnection",
           ev \notin ControlOf(s), NEW t, t = <<>> \o <<ev>>
    PROVE  QueueOK(s \o t) /\ ControlOf(s \o t) = ControlOf(s) \cup {ev}
<1>1. IsControl(ev) /\ ~IsJoin(ev)
  BY DEF IsControl, IsJoin
<1>2. /\ t \in Seq(Event) /\ ToSet(t) = {ev} /\ QueueOK(t) /\ ControlOf(t) = {ev}
  BY <1>1, SingleEvent
<1>3. ControlOf(s) \cap ControlOf(t) = {}
  BY <1>2
<1>4. \A v \in ToSet(t) : ~IsJoin(v) /\ v.msg.type \in {"MWOE", "Disconnection"}
  BY <1>1, <1>2
<1>5. QueueOK(s \o t) /\ ControlOf(s \o t) = ControlOf(s) \cup ControlOf(t)
  BY <1>2, <1>3, <1>4, QueueGrows
<1> QED
  BY <1>2, <1>5

(* The leave of broker x comes back to it.                                 *)
LEMMA OwnLeaveTaken ==
    ASSUME IInv, NEW H, JoinsOK(H), NEW x \in Brokers, NEW D \in SUBSET Brokers,
           Leaving(H, x, D), x \in D,
           NEW a \in Arrivals(x), a.from = NULL, a.msg.type = "Join",
           NEW m \in JoinMessage, m = a.msg,
           m.requester = x, m.convergenceNo = convergenceNumber, m.leaving = TRUE,
           Finish(x, a, handleJoinMessage(Start(x, a), a.msg))
    PROVE  JoinsOK(H)'
<1>a. PICK L : L = convergenceNumber
  OBVIOUS
<1>j. PICK j : j = join(x, L, TRUE)
  OBVIOUS
<1>1. /\ Control = Announced(D, j)
      /\ D \subseteq RegisteredBrokers /\ x \in RegisteredBrokers
      /\ RegisteredBrokers # {x}
      /\ H[L] = RegisteredBrokers \ {x}
      /\ Others(H, x, L, D)
      /\ Up(H, x, L - 1, 0) /\ sleepDelayMsg \notin timers[x]
      /\ broker[x].converged /\ Round(x) = L - 1
  BY <1>a, <1>j DEF Leaving
<1>2. /\ L \in Nat /\ L - 1 + 1 = L /\ TypeOK /\ HistoryOK(H) /\ QueueOK(now) /\ RoundsOK(H)
      /\ H \in Histories /\ broker[x] \in BrokerState /\ timers[x] \in SUBSET Message
  <2>1. L \in Nat
    BY <1>a DEF IInv, TypeOK, NSTypeOK
  <2> QED
    BY <2>1, BackAndForth DEF IInv, TypeOK, KernelTypeOK, JoinsOK, HistoryOK, Nodes
<1>3. m.requester = x /\ m.convergenceNo = L /\ m.leaving = TRUE
  BY <1>a
<1>4. m = j
  BY <1>3, <1>j, JoinIs
<1>b. PICK e : e = Start(x, a)
  OBVIOUS
<1>c. PICK f : f = handleJoinMessage(e, m)
  OBVIOUS
<1>5. /\ e \in Effect /\ e.self = x /\ e.st = broker[x] /\ WellSent(x, e.out)
      /\ ReportsNamed(e.st.receivedMWOEs) /\ e.direct = <<>>
      /\ e.timers = timers[x]
  BY <1>b, StartNow
<1>6. f = Leave(e, m)
  <2>1. AcceptsJoin(e.st, m)
    BY <1>1, <1>2, <1>3, <1>5 DEF AcceptsJoin, Round
  <2> QED
    BY <1>3, <1>5, <1>c, <2>1 DEF handleJoinMessage
<1>d. PICK ev : ev = departure(x)
  OBVIOUS
<1>7. /\ f \in Effect
      /\ f.st = [[broker[x] EXCEPT !.initial = FALSE] EXCEPT !.neighboursMap = NoNeighbours]
      /\ f.direct = <<>> \o <<ev>>
      /\ f.out = e.out /\ f.timers = timers[x] \cup {wakeUpDelayMsg}
  <2>1. Runs(H, x, broker[x], timers[x], L - 1, 0)
    BY <1>1 DEF Up, UpState
  <2>2. MapOK(e.st.neighboursMap)
    BY <1>5, <2>1 DEF Runs
  <2>3. /\ f \in Effect
        /\ f.st = [[e.st EXCEPT !.initial = FALSE] EXCEPT !.neighboursMap = NoNeighbours]
        /\ f.direct = e.direct \o <<To(NS, [type |-> "Disconnection", requester |-> e.self])>>
        /\ f.out = e.out /\ f.timers = e.timers \cup {wakeUpDelayMsg}
    BY <1>5, <1>6, <2>2, LeaveIs
  <2>4. To(NS, [type |-> "Disconnection", requester |-> e.self]) = ev
    BY <1>5, <1>d DEF departure
  <2> QED
    BY <1>5, <2>3, <2>4
<1>8. /\ f.st.initial = FALSE /\ f.st.receivedMWOEs = broker[x].receivedMWOEs
      /\ f.st.currentConvergence = Round(x)
  BY <1>2, <1>7 DEF BrokerState, Round
<1>9. Acts(x, a, f)
  BY <1>5, <1>7, <1>b, <1>c, FinishActs
<1>10. /\ now' = rest(a) \o f.direct /\ rest(a) \in Seq(Event) /\ QueueOK(rest(a))
       /\ ControlOf(rest(a)) = Control \ {To(x, m)}
       /\ broker'[x] = f.st /\ timers'[x] = f.timers /\ Alone(x)
  BY <1>2, <1>9, StepFacts DEF Alone
<1>11. /\ ev \in Event /\ ev.msg.type = "Disconnection" /\ ev.msg.requester = x
       /\ ev \notin Control
  <2>1. [type |-> "Disconnection", requester |-> x] \in Message
    BY DEF Message, ProtocolMessage, DisconnectionRequestMessage, Nodes
  <2>2. ev \in Event /\ ev.msg.type = "Disconnection" /\ ev.msg.requester = x
    BY <1>d, <2>1 DEF departure, To, Event, Nodes
  <2>3. \A v \in Control : v.msg.type = "Join"
    BY <1>1, <1>j DEF Announced, To, join
  <2> QED
    BY <2>2, <2>3
<1>k. PICK E \in SUBSET Brokers : E = D \ {x}
  OBVIOUS
<1>12. QueueOK(now') /\ Control' = Announced(E, j) \cup {ev}
  <2>1. ev \notin ControlOf(rest(a))
    BY <1>10, <1>11
  <2>2. /\ QueueOK(rest(a) \o f.direct)
        /\ ControlOf(rest(a) \o f.direct) = ControlOf(rest(a)) \cup {ev}
    BY <1>7, <1>10, <1>11, <2>1, DepartureInQueue
  <2>3. Announced(D, j) \ {To(x, j)} = Announced(D \ {x}, j)
    BY AnnouncedLess
  <2>4. ControlOf(rest(a)) = Announced(E, j)
    BY <1>1, <1>4, <1>10, <1>k, <2>3
  <2> QED
    BY <1>10, <2>2, <2>4 DEF Control
<1>13. \A c \in Brokers : Round(c)' = Round(c)
  BY <1>8, <1>10 DEF Alone, Round
<1>14. ASSUME NEW c \in Brokers, Awake(c) PROVE Awake(c)'
  <2>1. c # x
    <3>1. To(x, j) \in Control
      BY <1>1 DEF Announced
    <3>2. ~Undisturbed(Control, x)
      BY <1>3, <1>4, <3>1 DEF Undisturbed, To
    <3>3. Undisturbed(Control, c)
      BY <1>14, AwakeIs
    <3> QED
      BY <3>2, <3>3
  <2>2. Undisturbed(Control', c)
    BY <1>11, <1>12, <1>j, <2>1 DEF Undisturbed, Announced, To, join
  <2> QED
    BY <1>10, <1>14, <2>1, <2>2, AwakeIs, AwakeNextIs DEF Alone
<1>15. RoundsOK(H)'
  BY <1>2, <1>13, <1>14, RoundsKept
<1>16. HistoryOK(H)'
  BY <1>2, <1>10 DEF HistoryOK, Alone
<1>17. ChannelsOK' /\ NoEmptyReport'
  <2>1. ReportsNamed(f.st.receivedMWOEs) /\ WellSent(x, f.out)
    BY <1>5, <1>7, <1>8
  <2> QED
    BY <1>9, <2>1, ChannelsAndReports
<1>18. Down(H, x, L, {"WakeUp"})'
  <2>a. PICK st \in BrokerState : st = broker[x]
    BY <1>2
  <2>b. PICK ts \in SUBSET Message : ts = timers[x]
    BY <1>2
  <2>c. PICK t : t = f.st
    OBVIOUS
  <2>1. /\ UpState(H, x, st, ts, L - 1, 0) /\ sleepDelayMsg \notin ts
        /\ st.converged /\ st.currentConvergence = L - 1 /\ x \notin H[L]
    BY <1>1, <2>a, <2>b DEF Up, Round
  <2>2. t = [[st EXCEPT !.initial = FALSE] EXCEPT !.neighboursMap = NoNeighbours]
    BY <1>7, <2>a, <2>c
  <2>3. DownState(H, x, t, ts \cup {wakeUpDelayMsg}, L, {"WakeUp"})
    BY <1>2, <2>1, <2>2, LeaverFacts
  <2> QED
    BY <1>7, <1>10, <2>3, <2>b, <2>c DEF Down
<1>19. Others(H, x, L, E)'
  BY <1>1, <1>10, <1>k, OthersStay
<1>20. RegisteredBrokers' = RegisteredBrokers /\ convergenceNumber' = L
  BY <1>10, <1>a DEF Alone
<1>21. Leaving(H, x, E)'
  <2>1. Control' = (Announced(E, join(x, convergenceNumber, TRUE))
                      \cup (IF x \in E THEN {} ELSE {departure(x)}))'
    BY <1>12, <1>20, <1>d, <1>j, <1>k DEF Announced, To, join, departure
  <2>2. Others(H, x, convergenceNumber, E)'
    BY <1>19, <1>20 DEF Others
  <2>3. Down(H, x, convergenceNumber, {"WakeUp"})'
    BY <1>18, <1>20 DEF Down
  <2> QED
    BY <1>1, <1>20, <1>k, <2>1, <2>2, <2>3 DEF Leaving
<1>22. Phase(H)'
  BY <1>21 DEF Phase
<1> QED
  BY <1>12, <1>15, <1>16, <1>17, <1>22 DEF JoinsOK

(* A broker handles a join, one that arrives or one it has held back.      *)
LEMMA JoinStep ==
    ASSUME IInv, FragmentsHold, NEW H, JoinsOK(H), NEW b \in Brokers, HandleJoinMessage(b)
    PROVE  JoinsOK(H)'
<1>1. CASE now = <<>>
  BY <1>1, DelayedJoinStep
<1>2. CASE now # <<>>
  <2> PICK a \in Arrivals(b) :
           a.msg.type = "Join" /\ Finish(b, a, handleJoinMessage(Start(b, a), a.msg))
    BY DEF HandleJoinMessage, Arriving
  <2>1. a.from = NULL /\ To(b, a.msg) \in Control
    BY <1>2, ControlArrives
  <2>2. a.msg \in JoinMessage
    <3>1. a.msg \in Message
      BY ArrivalCases DEF IInv, TypeOK, Nodes
    <3> QED
      BY <3>1, MessageTypes
  <2>3. Belongs(H, b, a.msg)
    BY <2>1, PhaseOf DEF JoinsOK
  <2>4. PICK x \in Brokers : \E D \in SUBSET Brokers :
           /\ b \in D
           /\ \/ Joining(H, x, D) /\ a.msg = join(x, convergenceNumber - 1, FALSE)
              \/ Leaving(H, x, D) /\ a.msg = join(x, convergenceNumber, TRUE)
    BY <2>3 DEF Belongs
  <2>5. PICK D \in SUBSET Brokers :
           /\ b \in D
           /\ \/ Joining(H, x, D) /\ a.msg = join(x, convergenceNumber - 1, FALSE)
              \/ Leaving(H, x, D) /\ a.msg = join(x, convergenceNumber, TRUE)
    BY <2>4
  <2>6. CASE Joining(H, x, D) /\ a.msg = join(x, convergenceNumber - 1, FALSE)
    <3>1. /\ a.msg.requester = x /\ a.msg.convergenceNo = convergenceNumber - 1
          /\ a.msg.leaving = FALSE
      BY <2>6 DEF join
    <3>2. Joining(H, x, D)
      BY <2>6
    <3>a. PICK m \in JoinMessage : m = a.msg
      BY <2>2
    <3>3. /\ m.requester = x /\ m.convergenceNo = convergenceNumber - 1
          /\ m.leaving = FALSE
      BY <3>1, <3>a
    <3>4. CASE b = x
      BY <2>1, <2>5, <3>2, <3>3, <3>4, <3>a, OwnJoinTaken
    <3>5. CASE b # x
      BY <2>1, <2>5, <3>2, <3>3, <3>5, <3>a, JoinTaken
    <3> QED
      BY <3>4, <3>5
  <2>7. CASE Leaving(H, x, D) /\ a.msg = join(x, convergenceNumber, TRUE)
    <3>1. /\ a.msg.requester = x /\ a.msg.convergenceNo = convergenceNumber
          /\ a.msg.leaving = TRUE
      BY <2>7 DEF join
    <3>2. Leaving(H, x, D)
      BY <2>7
    <3>a. PICK m \in JoinMessage : m = a.msg
      BY <2>2
    <3>3. /\ m.requester = x /\ m.convergenceNo = convergenceNumber
          /\ m.leaving = TRUE
      BY <3>1, <3>a
    <3>4. CASE b = x
      BY <2>1, <2>5, <3>2, <3>3, <3>4, <3>a, OwnLeaveTaken
    <3>5. CASE b # x
      BY <2>1, <2>5, <3>2, <3>3, <3>5, <3>a, LeaveTaken
    <3> QED
      BY <3>4, <3>5
  <2> QED
    BY <2>5, <2>6, <2>7
<1> QED
  BY <1>1, <1>2

(* An empty sequence behind adds nothing.                                  *)
LEMMA EmptyBack ==
    ASSUME NEW S, NEW s \in Seq(S), NEW t, t = <<>>
    PROVE  s \o t = s
OBVIOUS

(* The name server takes a broker off its list, once all the others have   *)
(* heard that it leaves.                                                   *)
LEMMA UnregisterStep ==
    ASSUME IInv, NEW H, JoinsOK(H), HandleUnregisterRequest
    PROVE  JoinsOK(H)'
<1> PICK a \in Arrivals(NS) :
         /\ a.msg.type = "Disconnection" /\ a.msg.requester \in Brokers
         /\ brokerList' = RemoveFirst(brokerList, a.msg.requester)
         /\ convergenceNumber' = convergenceNumber + 1
         /\ LET e == Begin(NS, a, NULL)
            IN  End(NS, a, IF brokerList = <<>> THEN Fault(e) ELSE e)
  BY DEF HandleUnregisterRequest, handleUnregisterRequest
<1> DEFINE x == a.msg.requester
           e == Begin(NS, a, NULL)
           f == IF brokerList = <<>> THEN Fault(e) ELSE e
<1>n. PICK n : n = convergenceNumber
  OBVIOUS
<1>1. /\ x \in Brokers /\ brokerList' = RemoveFirst(brokerList, x)
      /\ convergenceNumber' = n + 1 /\ End(NS, a, f)
      /\ UNCHANGED <<broker, conditionTable>>
  BY <1>n DEF HandleUnregisterRequest
<1>2. /\ f.out = [d \in Nodes |-> <<>>] /\ f.direct = <<>>
      /\ f.timers = IF a.from = NS THEN timers[NS] \ {a.msg} ELSE timers[NS]
  BY DEF Fault, Begin
<1>3. /\ HistoryOK(H) /\ Phase(H) /\ QueueOK(now) /\ RoundsOK(H)
      /\ TypeOK /\ brokerList \in Seq(Brokers) /\ n \in Nat
      /\ H \in Histories /\ n > 0 /\ Distinct(brokerList)
      /\ now \in Seq(Event) /\ NULL \notin Brokers
  BY <1>n, NodesAssumption DEF JoinsOK, IInv, TypeOK, NSTypeOK, HistoryOK, KernelTypeOK
<1> HIDE DEF f, e
<1>4. /\ now # <<>> /\ Head(now) = To(NS, a.msg) /\ To(NS, a.msg) \in Control
      /\ now' = Tail(now) \o f.direct /\ timers' = timers
      /\ ChannelsOK' /\ NoEmptyReport'
      /\ \A c \in Brokers : Round(c)' = Round(c)
  BY <1>1, <1>2, NameServerFacts
<1>5. PICK D \in SUBSET Brokers : Leaving(H, x, D) /\ x \notin D
  <2>1. Belongs(H, NS, a.msg)
    BY <1>3, <1>4, PhaseOf
  <2>2. PICK y \in Brokers : \E D \in SUBSET Brokers :
           Leaving(H, y, D) /\ y \notin D /\ To(NS, a.msg) = departure(y)
    BY <2>1 DEF Belongs
  <2>3. a.msg = [type |-> "Disconnection", requester |-> y]
    BY <2>2 DEF To, departure
  <2>4. x = y
    BY <2>3
  <2> QED
    BY <2>2, <2>4
<1> HIDE DEF x
<1>j. PICK j : j = join(x, n, TRUE)
  OBVIOUS
<1>6. /\ Control = Announced(D, j) \cup {departure(x)}
      /\ x \in RegisteredBrokers
      /\ H[n] = RegisteredBrokers \ {x}
      /\ Others(H, x, n, D)
      /\ Down(H, x, n, {"WakeUp"})
  BY <1>5, <1>n, <1>j DEF Leaving
<1>7. D = {}
  <2> SUFFICES ASSUME NEW d \in D PROVE FALSE
    OBVIOUS
  <2>1. To(d, j) \in Control
    BY <1>6 DEF Announced
  <2>2. To(d, j) \in ToSet(now) /\ IsJoin(To(d, j))
    BY <2>1, <1>j DEF Control, ControlOf, IsJoin, To, join
  <2>3. ~IsJoin(Head(now))
    BY <1>4 DEF IsJoin, To
  <2> QED
    BY <1>3, <1>4, <2>2, <2>3, QueueTail
<1>8. QueueOK(now') /\ Control' = {}
  <2>1. now' = Tail(now)
    <3>1. Tail(now) \in Seq(Event)
      BY <1>3, <1>4, QueueTail
    <3> QED
      BY <1>2, <1>4, <3>1, EmptyBack
  <2>2. QueueOK(Tail(now)) /\ ControlOf(Tail(now)) = Control \ {Head(now)}
    BY <1>3, <1>4, QueueTail DEF Control
  <2>3. Control = {departure(x)}
    BY <1>6, <1>7 DEF Announced
  <2>4. Head(now) = departure(x)
    BY <1>4, <2>3
  <2> QED
    BY <2>1, <2>2, <2>3, <2>4 DEF Control
<1>9. /\ Distinct(brokerList') /\ ToSet(brokerList') = ToSet(brokerList) \ {x}
  <2>1. x \in ToSet(brokerList)
    BY <1>6 DEF RegisteredBrokers, ToSet
  <2> QED
    BY <1>1, <1>3, <2>1, RemoveFirstIs
<1>10. RegisteredBrokers' = RegisteredBrokers \ {x}
  BY <1>9 DEF RegisteredBrokers, ToSet
<1>11. HistoryOK(H)'
  <2>1. H[0] = {} /\ convergenceNumber' - 1 = n /\ convergenceNumber' > 0
    BY <1>1, <1>3 DEF HistoryOK
  <2> QED
    BY <1>3, <1>6, <1>9, <1>10, <2>1 DEF HistoryOK
<1>12. RoundsOK(H)'
  <2>1. \A c \in Brokers : Awake(c) => Awake(c)'
    <3> SUFFICES ASSUME NEW c \in Brokers, Awake(c) PROVE Awake(c)'
      OBVIOUS
    <3>1. c \in RegisteredBrokers /\ ~broker[c].initial /\ Undisturbed(Control, c)
      BY AwakeIs
    <3>2. c # x
      <4>1. departure(x) \in Control
        BY <1>6
      <4>2. departure(x).msg.type = "Disconnection" /\ departure(x).msg.requester = x
        BY DEF departure, To
      <4> QED
        BY <3>1, <4>1, <4>2 DEF Undisturbed
    <3>3. Undisturbed(Control', c)
      BY <1>8 DEF Undisturbed
    <3> QED
      BY <1>1, <1>10, <3>1, <3>2, <3>3, AwakeNextIs
  <2> QED
    BY <1>3, <1>4, <2>1, RoundsKept
<1>13. Others(H, NULL, n, {})'
  <2> SUFFICES ASSUME NEW c \in Brokers \ {NULL}
               PROVE  Place(H, c, n, {})'
    BY OthersPlace
  <2>1. broker'[c] = broker[c] /\ timers'[c] = timers[c]
    BY <1>1, <1>4
  <2>2. CASE c = x
    <3>1. x \notin RegisteredBrokers'
      BY <1>10
    <3> QED
      BY <1>6, <2>1, <2>2, <3>1 DEF Place, Down
  <2>3. CASE c # x
    <3>1. Place(H, c, n, D)
      BY <1>6, <2>3, OthersPlace
    <3>2. c \in RegisteredBrokers' <=> c \in RegisteredBrokers
      BY <1>10, <2>3
    <3> QED
      BY <1>7, <2>1, <3>1, <3>2, PlaceKept
  <2> QED
    BY <2>2, <2>3
<1>14. Phase(H)'
  <2>1. convergenceNumber' - 1 = n
    BY <1>1, <1>3
  <2>2. Others(H, NULL, convergenceNumber - 1, {})'
    BY <1>13, <2>1 DEF Others
  <2> QED
    BY <1>8, <2>2 DEF Phase, Calm
<1> QED
  BY <1>4, <1>8, <1>11, <1>12, <1>14 DEF JoinsOK

(* Between two changes every registered broker runs.                       *)
LEMMA IdleMeansUp ==
    ASSUME IInv, NEW H, JoinsOK(H), Idle, NEW b \in RegisteredBrokers
    PROVE  b \in Brokers /\ Up(H, b, convergenceNumber - 1, 0) /\ Awake(b)
<1>1. Calm(H)
  BY CalmWhenIdle DEF Idle
<1>2. b \in Brokers /\ b # NULL
  BY NodesAssumption DEF IInv, TypeOK, NSTypeOK, RegisteredBrokers
<1>3. Up(H, b, convergenceNumber - 1, 0)
  BY <1>1, <1>2 DEF Calm, Others
<1>4. ~broker[b].initial
  BY <1>3 DEF Up, UpState, Runs
<1>5. Undisturbed(Control, b)
  BY <1>1 DEF Calm, Undisturbed
<1> QED
  BY <1>2, <1>3, <1>4, <1>5, AwakeIs

(* The list that a broker builds over is the one of its round in the       *)
(* history: two brokers in the same round have the same.                   *)
LEMMA SameBrokers ==
    ASSUME IInv, NEW H, JoinsOK(H)
    PROVE  SameRoundSameBrokers
<1> SUFFICES ASSUME Idle, NEW b \in RegisteredBrokers, NEW c \in RegisteredBrokers,
                    Round(b) = Round(c)
             PROVE  Available(b) = Available(c)
  BY DEF SameRoundSameBrokers
<1>1. Up(H, b, convergenceNumber - 1, 0) /\ Up(H, c, convergenceNumber - 1, 0)
  BY IdleMeansUp
<1>2. ListOK(H, broker[b]) /\ ListOK(H, broker[c])
  BY <1>1 DEF Up, UpState, Runs
<1> QED
  BY <1>2 DEF ListOK, Round, Available

(* A link of which only one end is left would be one to a broker that has  *)
(* gone on, or left; no broker goes on before the others are done with its *)
(* links.                                                                  *)
LEMMA Mutual ==
    ASSUME IInv, FragmentsHold, NEW H, JoinsOK(H)
    PROVE  LinksAreMutual
<1>1. ASSUME Idle, NEW b \in RegisteredBrokers, NEW c \in RegisteredBrokers,
             Round(b) = Round(c), c \in Linked(b)
      PROVE  b \in Linked(c)
  <2>1. b \in Brokers /\ c \in Brokers /\ Awake(b) /\ Awake(c)
    BY <1>1, IdleMeansUp
  <2>2. Asks = {}
    <3>1. \A d \in Brokers : Due("Connect", d) = {}
      BY <1>1 DEF Idle, Due
    <3> QED
      BY <3>1 DEF Asks
  <2>3. ~Frag!Half(c, b)
    BY <2>2 DEF Frag!Half, Frag!HalfBy
  <2>4. Frag!Peers(b, c)
    BY <1>1, <2>1 DEF Frag!Peers, TakingPart, Rounds
  <2>5. Frag!LinksOK
    BY DEF FragmentsHold, Frag!FragmentsInv
  <2>6. TakingPart[b] /\ c \in LinkedTo[b]
    BY <1>1, <2>1 DEF TakingPart, LinkedTo
  <2>7. b \in LinkedTo[c] \/ Frag!Half(b, c) \/ Frag!Half(c, b)
    BY <2>1, <2>4, <2>5, <2>6 DEF Frag!LinksOK
  <2>8. ~Frag!Half(b, c)
    BY <2>2 DEF Frag!Half, Frag!HalfBy
  <2> QED
    BY <2>1, <2>3, <2>7, <2>8 DEF LinkedTo
<1> QED
  BY <1>1 DEF LinksAreMutual

(* The neighbours map names each neighbour once.                           *)
LEMMA OneLink ==
    ASSUME TypeOK, NEW H, JoinsOK(H)
    PROVE  OneLinkEach
<1> SUFFICES ASSUME NEW b \in Brokers, NEW c \in Brokers
             PROVE  Cardinality(Places(broker[b].neighboursMap, c)) <= 1
  BY DEF OneLinkEach
<1> PICK nm : nm = broker[b].neighboursMap
  OBVIOUS
<1>1. MapOK(nm)
  <2>1. \A L, k : Up(H, b, L, k) => MapOK(nm)
    BY DEF Up, UpState, Runs
  <2>2. \A L, T : Down(H, b, L, T) => MapOK(nm)
    BY NoMap DEF Down, DownState
  <2> QED
    BY <2>1, <2>2, UpOrDown
<1> PICK S : S = Places(nm, c)
  OBVIOUS
<1>2. \A i, j \in S : i = j
  BY <1>1 DEF MapOK, Places, Used
<1>3. CASE S = {}
  BY <1>3, FS_EmptySet
<1>4. CASE S # {}
  <2>1. PICK i : S = {i}
    BY <1>2, <1>4
  <2> QED
    BY <2>1, FS_Singleton
<1> QED
  BY <1>3, <1>4

(* A broker that has converged knows all the available brokers as members. *)
LEMMA DoneMeansAll ==
    ASSUME IInv, FragmentsHold, NEW H, JoinsOK(H)
    PROVE  ConvergedMeansAll
<1> SUFFICES ASSUME NEW b \in RegisteredBrokers, broker[b].converged, ~broker[b].initial
             PROVE  /\ Members(b) = Available(b)
                    /\ \A c \in Available(b) : Round(c) >= Round(b)
  BY DEF ConvergedMeansAll
<1>1. b \in Brokers /\ TypeOK
  BY DEF IInv, TypeOK, NSTypeOK, RegisteredBrokers
<1>2. Done(broker[b]) /\ ListOK(H, broker[b])
  <2>1. \A L, k : Up(H, b, L, k) => Done(broker[b]) /\ ListOK(H, broker[b])
    BY DEF Up, UpState, Runs
  <2>2. \A L, T : Down(H, b, L, T) => Done(broker[b]) /\ ListOK(H, broker[b])
    BY DEF Down, DownState
  <2> QED
    BY <1>1, <2>1, <2>2, UpOrDown
<1>3. Members(b) = Available(b) /\ Available(b) = H[Round(b)]
  BY <1>2 DEF Done, ListOK, Members, Available, Round
<1>4. CASE Awake(b)
  BY <1>1, <1>3, <1>4, OwnFacts
<1>5. CASE ~Awake(b)
  <2>1. Round(b) \in Nat
    BY <1>1 DEF TypeOK, BrokerState, Round
  <2>2. b \in H[Round(b)]
    <3>1. ASSUME NEW L, NEW k \in {0, 1}, Up(H, b, L, k)
          PROVE  b \in H[Round(b)]
      <4>1. Runs(H, b, broker[b], timers[b], L, k) /\ broker[b] \in BrokerState
        BY <1>1, <3>1 DEF Up, UpState, TypeOK
      <4>2. Round(b) + Held(timers[b]) + Len(broker[b].awaitingNSMsgs) + k = L
        BY <4>1 DEF Runs, Waiting, Round
      <4>3. Held(timers[b]) \in Nat /\ Len(broker[b].awaitingNSMsgs) \in Nat
        BY <4>1 DEF Held, BrokerState
      <4>4. Round(b) \in Round(b) .. L
        BY <2>1, <4>2, <4>3
      <4> QED
        BY <4>1, <4>4 DEF Runs, Round
    <3>2. \A L, T : Down(H, b, L, T) => b \in H[Round(b)]
      BY DEF Down, DownState, Round
    <3> QED
      BY <1>1, <3>1, <3>2, UpOrDown
  <2>3. Round(b) \in 0 .. Round(b) /\ Through(b, Round(b))
    BY <1>5, <2>1 DEF Through
  <2>4. \A x \in H[Round(b)] : Round(x) >= Round(b)
    BY <1>1, <2>2, <2>3 DEF JoinsOK, RoundsOK
  <2> QED
    BY <1>3, <2>4
<1> QED
  BY <1>3, <1>4, <1>5

(* The place in the queue of a change with a number.                       *)
LEMMA Offset ==
    \A r, h, l \in Nat : \A n \in 1 + r + h .. r + h + l :
       /\ r + h + (n - r - h) = n
       /\ n - r - h >= 1 /\ n - r - h <= l
OBVIOUS

(* The joins a broker holds are the changes after its convergence, one     *)
(* each.                                                                   *)
LEMMA HeldAreChanges ==
    ASSUME NEW H \in Histories, NEW st \in BrokerState, NEW ts \in SUBSET Message, NEW L \in Nat,
           Waiting(H, st, ts, L, 0),
           NEW r \in Nat, r = st.currentConvergence,
           NEW S, S = TimerJoins(ts) \cup ToSet(st.awaitingNSMsgs)
    PROVE  /\ \A m \in S : m \in JoinMessage /\ m.convergenceNo \in r + 1 .. L
                           /\ IsChange(H, m, m.convergenceNo - 1)
           /\ \A n \in r + 1 .. L : \E m \in S : m.convergenceNo = n
<1>q. PICK q \in Seq(JoinMessage) : q = st.awaitingNSMsgs
  BY DEF BrokerState
<1>h. PICK h \in {0, 1} : h = Held(ts)
  BY DEF Held
<1>1. /\ \A m \in TimerJoins(ts) : IsChange(H, m, r)
      /\ \A i \in DOMAIN q : IsChange(H, q[i], r + h + i - 1)
      /\ r + h + Len(q) = L
      /\ Len(q) \in Nat /\ DOMAIN q = 1 .. Len(q)
  <2>1. Len(q) \in Nat /\ DOMAIN q = 1 .. Len(q) /\ r + h + Len(q) + 0 = r + h + Len(q)
    OBVIOUS
  <2> QED
    BY <1>q, <1>h, <2>1 DEF Waiting
<1>2. ASSUME NEW m \in TimerJoins(ts)
      PROVE  /\ m \in JoinMessage /\ m.convergenceNo = r + 1 /\ h = 1
             /\ IsChange(H, m, r)
  <2>1. m \in Message /\ m.type = "Join"
    BY DEF TimerJoins
  <2>2. m \in JoinMessage
    BY <2>1, MessageTypes
  <2>3. h = 1
    BY <1>h DEF Held
  <2> QED
    BY <1>1, <2>2, <2>3 DEF IsChange
<1>3. ASSUME NEW i \in DOMAIN q
      PROVE  /\ q[i] \in JoinMessage /\ q[i].convergenceNo = r + h + i
             /\ IsChange(H, q[i], r + h + i - 1)
  <2>1. q[i] \in JoinMessage /\ IsChange(H, q[i], r + h + i - 1)
    BY <1>1
  <2>2. r + h + i - 1 + 1 = r + h + i
    BY <1>1
  <2> QED
    BY <2>1, <2>2 DEF IsChange
<1>4. ASSUME NEW m \in S
      PROVE  /\ m \in JoinMessage /\ m.convergenceNo \in r + 1 .. L
             /\ IsChange(H, m, m.convergenceNo - 1)
  <2>1. CASE m \in TimerJoins(ts)
    <3>1. r + 1 - 1 = r /\ r + 1 \in r + 1 .. L
      BY <1>1, <1>2, <2>1
    <3> QED
      BY <1>2, <2>1, <3>1
  <2>2. CASE m \in ToSet(st.awaitingNSMsgs)
    <3>1. PICK i \in DOMAIN q : m = q[i]
      BY <1>q, <2>2 DEF ToSet
    <3>2. r + h + i \in r + 1 .. L
      BY <1>1, <3>1
    <3> QED
      BY <1>3, <3>1, <3>2
  <2> QED
    BY <2>1, <2>2
<1>5. ASSUME NEW n \in r + 1 .. L
      PROVE  \E m \in S : m.convergenceNo = n
  <2>1. CASE n \in 1 + r + h .. L
    <3>h. h \in Nat
      OBVIOUS
    <3>i. PICK i \in Int : i = n - r - h
      BY <3>h
    <3>l. PICK l \in Nat : l = Len(q)
      BY <1>1
    <3>m. r + h + l = L
      BY <1>1, <3>l
    <3>n. r + h + i = n /\ i >= 1 /\ i <= l
      <4>1. n \in 1 + r + h .. r + h + l
        BY <2>1, <3>m
      <4>2. r + h + (n - r - h) = n /\ n - r - h >= 1 /\ n - r - h <= l
        BY <3>h, <4>1, Offset
      <4> QED
        BY <3>i, <4>2
    <3>1. i \in 1 .. Len(q) /\ r + h + i = n
      BY <3>l, <3>n
    <3>2. q[i] \in S
      BY <1>1, <1>q, <3>1 DEF ToSet
    <3> QED
      BY <1>1, <1>3, <3>1, <3>2
  <2>2. CASE n \notin 1 + r + h .. L
    <3>1. h = 1 /\ n = r + 1
      BY <2>2
    <3>2. TimerJoins(ts) # {}
      BY <1>h, <3>1 DEF Held
    <3>3. PICK m \in TimerJoins(ts) : TRUE
      BY <3>2
    <3>4. m.convergenceNo = n
      BY <1>2, <3>1
    <3> QED
      BY <3>4
  <2> QED
    BY <2>1, <2>2
<1> QED
  BY <1>4, <1>5

(* So they are as many as the numbers between its round and the last       *)
(* change.                                                                 *)
LEMMA NoneLost ==
    ASSUME IInv, NEW H, JoinsOK(H)
    PROVE  NoJoinIsLost
<1> SUFFICES ASSUME Idle, NEW b \in RegisteredBrokers
             PROVE  /\ {m.convergenceNo : m \in HeldJoins(b)}
                         = Round(b) + 1 .. convergenceNumber - 1
                    /\ Cardinality(HeldJoins(b)) = convergenceNumber - 1 - Round(b)
  BY DEF NoJoinIsLost
<1>1. b \in Brokers /\ Up(H, b, convergenceNumber - 1, 0)
  BY IdleMeansUp
<1>s. PICK st \in BrokerState : st = broker[b]
  BY <1>1 DEF IInv, TypeOK
<1>t. PICK ts \in SUBSET Message : ts = timers[b]
  BY <1>1 DEF IInv, TypeOK, KernelTypeOK, Nodes
<1>r. PICK r \in Nat : r = Round(b)
  BY <1>s DEF BrokerState, Round
<1>L. PICK L \in Nat : L = convergenceNumber - 1
  BY DEF JoinsOK, HistoryOK, IInv, TypeOK, NSTypeOK
<1>S. PICK S : S = HeldJoins(b)
  OBVIOUS
<1>2. Waiting(H, st, ts, L, 0) /\ r = st.currentConvergence /\ H \in Histories
      /\ S = TimerJoins(ts) \cup ToSet(st.awaitingNSMsgs)
  BY <1>1, <1>s, <1>t, <1>r, <1>L, <1>S
     DEF Up, UpState, Runs, Round, HeldJoins, TimerJoins, JoinsOK, HistoryOK
<1>3. /\ \A m \in S : m \in JoinMessage /\ m.convergenceNo \in r + 1 .. L
                      /\ IsChange(H, m, m.convergenceNo - 1)
      /\ \A n \in r + 1 .. L : \E m \in S : m.convergenceNo = n
  BY <1>2, HeldAreChanges
<1>4. {m.convergenceNo : m \in S} = r + 1 .. L
  BY <1>3
<1>5. \A m, k \in S : m.convergenceNo = k.convergenceNo => m = k
  <2> SUFFICES ASSUME NEW m \in S, NEW k \in S, m.convergenceNo = k.convergenceNo
               PROVE  m = k
    OBVIOUS
  <2>1. PICK n : n = m.convergenceNo - 1
    OBVIOUS
  <2>2. n \in Nat
    BY <1>3, <2>1
  <2> QED
    BY <1>2, <1>3, <2>1, <2>2, ChangeIsOne
<1>6. Cardinality(S) = L - r
  <2> DEFINE f == [m \in S |-> m.convergenceNo]
  <2>1. f \in Bijection(S, r + 1 .. L)
    BY <1>3, <1>5 DEF Bijection, Injection, Surjection, IsInjective
  <2>2. IsFiniteSet(r + 1 .. L) /\ Cardinality(r + 1 .. L) = L - r
    <3>1. r <= L
      BY <1>s, <1>2 DEF Waiting, Held, BrokerState
    <3>2. Cardinality(r + 1 .. L) = IF r + 1 > L THEN 0 ELSE L - (r + 1) + 1
      BY FS_Interval
    <3>3. IsFiniteSet(r + 1 .. L)
      BY FS_Interval
    <3> QED
      BY <3>1, <3>2, <3>3
  <2>3. f \in Surjection(S, r + 1 .. L) /\ f \in Injection(S, r + 1 .. L)
    BY <2>1 DEF Bijection
  <2>4. /\ IsFiniteSet(S)
        /\ Cardinality(S) = Cardinality(r + 1 .. L) <=> f \in Surjection(S, r + 1 .. L)
    BY <2>2, <2>3, FS_Injection
  <2> QED
    BY <2>2, <2>3, <2>4
<1> QED
  BY <1>r, <1>L, <1>S, <1>4, <1>6

(* In the beginning no change has been made, and no broker is registered.  *)
LEMMA InitJoins ==
    ASSUME Init
    PROVE  \E H : JoinsOK(H)
<1>H. PICK H : H = [n \in Nat |-> {}]
  OBVIOUS
<1>1. /\ now = <<>> /\ chan = [n \in Nodes |-> [m \in Nodes |-> <<>>]]
      /\ timers = [n \in Nodes |-> IF n = NS THEN {} ELSE {wakeUpDelayMsg}]
      /\ brokerList = <<>> /\ convergenceNumber = 1
      /\ broker = [b \in Brokers |-> InitialState]
  BY DEF Init, KernelInit, NSInit
<1>2. RegisteredBrokers = {} /\ ToSet(brokerList) = {} /\ Distinct(brokerList)
  BY <1>1, NoElements DEF RegisteredBrokers
<1>3. HistoryOK(H)
  BY <1>H, <1>1, <1>2 DEF HistoryOK, Histories
<1>4. QueueOK(now) /\ Control = {}
  BY <1>1, NoQueue DEF Control
<1>5. ASSUME NEW b \in Brokers PROVE Down(H, b, 0, {"WakeUp"})
  <2>1. timers[b] = {wakeUpDelayMsg}
    BY <1>1, NodesAssumption DEF Nodes
  <2>2. TypesOf(timers[b]) \subseteq {"WakeUp"}
    BY <2>1 DEF TypesOf, wakeUpDelayMsg
  <2>3. /\ broker[b].converged /\ broker[b].awaitingNSMsgs = <<>>
        /\ broker[b].neighboursMap = NoNeighbours /\ broker[b].bufferedSubs = {}
        /\ broker[b].currentConvergence = 0 /\ broker[b].initial
    BY <1>1 DEF InitialState
  <2> QED
    BY <1>H, <2>2, <2>3 DEF Down, DownState
<1>6. Calm(H)
  <2>1. \A b \in Brokers : Down(H, b, convergenceNumber - 1, {"WakeUp"})
    BY <1>1, <1>5
  <2> QED
    BY <1>2, <1>4, <2>1 DEF Calm, Others
<1>7. RoundsOK(H)
  BY <1>H, <1>1 DEF RoundsOK, Round, InitialState
<1>8. ChannelsOK
  BY <1>1, NodesAssumption DEF ChannelsOK, Nodes
<1>9. NoEmptyReport
  BY <1>1 DEF NoEmptyReport, InitialState
<1> QED
  BY <1>3, <1>4, <1>6, <1>7, <1>8, <1>9 DEF JoinsOK, Phase

(* A step of nothing keeps it.                                             *)
LEMMA StutterJoins ==
    ASSUME NEW H, JoinsOK(H), UNCHANGED vars
    PROVE  JoinsOK(H)'
<1>1. /\ now' = now /\ chan' = chan /\ timers' = timers /\ brokerList' = brokerList
      /\ convergenceNumber' = convergenceNumber /\ broker' = broker
  BY DEF vars, kernel, nameServer
<1>2. RegisteredBrokers' = RegisteredBrokers /\ Control' = Control
  BY <1>1 DEF RegisteredBrokers, Control
<1>3. \A b : Round(b)' = Round(b) /\ (Awake(b)' <=> Awake(b))
  BY <1>1, <1>2, AwakeIs, AwakeNextIs DEF Round
<1>4. \A b, n : Through(b, n)' <=> Through(b, n)
  BY <1>3 DEF Through
<1>5. RoundsOK(H)'
  BY <1>3, <1>4 DEF JoinsOK, RoundsOK
<1>6. /\ \A b, L, k : Up(H, b, L, k)' <=> Up(H, b, L, k)
      /\ \A b, L, T : Down(H, b, L, T)' <=> Down(H, b, L, T)
  BY <1>1 DEF Up, Down
<1>7. \A x, L, D : Others(H, x, L, D)' <=> Others(H, x, L, D)
  BY <1>2, <1>6 DEF Others
<1>8. Phase(H)'
  <2>1. Calm(H)' <=> Calm(H)
    BY <1>1, <1>2, <1>7 DEF Calm
  <2>2. \A x : Requesting(H, x)' <=> Requesting(H, x)
    BY <1>1, <1>2, <1>6, <1>7 DEF Requesting, To
  <2>3. \A x : Answering(H, x)' <=> Answering(H, x)
    BY <1>1, <1>2, <1>6, <1>7 DEF Answering, To, answer
  <2>4. \A x, D : Joining(H, x, D)' <=> Joining(H, x, D)
    BY <1>1, <1>2, <1>6, <1>7 DEF Joining, Announced, To, join
  <2>5. \A x, D : Leaving(H, x, D)' <=> Leaving(H, x, D)
    BY <1>1, <1>2, <1>3, <1>6, <1>7 DEF Leaving, Announced, To, join, departure
  <2> QED
    BY <2>1, <2>2, <2>3, <2>4, <2>5 DEF JoinsOK, Phase
<1>9. HistoryOK(H)' /\ QueueOK(now)' /\ ChannelsOK' /\ NoEmptyReport'
  BY <1>1, <1>2 DEF JoinsOK, HistoryOK, ChannelsOK, NoEmptyReport
<1> QED
  BY <1>5, <1>8, <1>9 DEF JoinsOK

(* Every step keeps the brokers in step with the changes.                  *)
LEMMA NextJoins ==
    ASSUME IInv, FragmentsHold, Frag!FragmentsNext \/ UNCHANGED Frag!fragments, ~SleepInWindow,
           NEW H, JoinsOK(H), [Next]_vars
    PROVE  \E G : JoinsOK(G)'
<1>1. ASSUME NEW b \in Brokers, WakeUp(b) \/ Sleep(b) \/ Protocol(b)
      PROVE  \E G : JoinsOK(G)'
  <2>1. CASE WakeUp(b)
    BY <2>1, WakeStep
  <2>2. CASE Sleep(b)
    BY <2>2, SleepStep
  <2>3. CASE HandleNameServerMessage(b)
    BY <2>3, WelcomeStep
  <2>4. CASE HandleJoinMessage(b)
    BY <2>4, JoinStep
  <2>5. CASE HandleMWOEMessage(b)
    BY <2>5, ReportStep
  <2>6. CASE HandleExpandMessage(b)
    BY <2>6, ExpandStep
  <2>7. CASE HandleConnectionMessage(b)
    BY <2>7, ConnectStep
  <2>8. CASE HandleUpdateMessage(b)
    BY <2>8, UpdateStep
  <2> QED
    BY <1>1, <2>1, <2>2, <2>3, <2>4, <2>5, <2>6, <2>7, <2>8 DEF Protocol
<1>2. CASE HandleBrokerRequest
  BY <1>2, RegisterStep
<1>3. CASE HandleUnregisterRequest
  BY <1>3, UnregisterStep
<1>4. CASE UNCHANGED vars
  BY <1>4, StutterJoins
<1> QED
  BY <1>1, <1>2, <1>3, <1>4 DEF Next, NameServerNext

(* Only the name server changes its list, and a broker is taken off it     *)
(* when another one is left on it.                                         *)
LEMMA OneStays ==
    ASSUME IInv, NEW H, JoinsOK(H), [Next]_vars
    PROVE  Len(brokerList) > 0 => Len(brokerList') > 0
<1>0. brokerList \in Seq(Brokers)
  BY DEF IInv, TypeOK, NSTypeOK
<1>1. CASE brokerList' = brokerList
  BY <1>1
<1>2. CASE HandleBrokerRequest
  <2>1. PICK b \in Brokers : brokerList' = registerBroker(b)
    BY <1>2 DEF HandleBrokerRequest, handleBrokerRequest
  <2>2. brokerList' = brokerList \/ brokerList' = Append(brokerList, b)
    BY <2>1 DEF registerBroker
  <2>3. brokerList' = Append(brokerList, b) => Len(brokerList') = Len(brokerList) + 1
    BY <1>0, AppendProperties
  <2> QED
    BY <1>0, <2>2, <2>3
<1>3. CASE HandleUnregisterRequest
  <2>1. PICK a \in Arrivals(NS) :
           /\ a.msg.type = "Disconnection" /\ a.msg.requester \in Brokers
           /\ brokerList' = RemoveFirst(brokerList, a.msg.requester)
    BY <1>3 DEF HandleUnregisterRequest, handleUnregisterRequest
  <2>2. To(NS, a.msg) \in Control
    BY <2>1, ControlArrives, NodesAssumption DEF Nodes
  <2>3. Belongs(H, NS, a.msg)
    BY <2>2, PhaseOf DEF JoinsOK
  <2>4. PICK x \in Brokers : \E D \in SUBSET Brokers :
           Leaving(H, x, D) /\ To(NS, a.msg) = departure(x)
    BY <2>1, <2>3 DEF Belongs
  <2>5. x \in RegisteredBrokers /\ RegisteredBrokers # {x}
    BY <2>4 DEF Leaving
  <2>6. a.msg.requester = x
    BY <2>4 DEF To, departure
  <2>7. RegisteredBrokers = ToSet(brokerList) /\ Distinct(brokerList)
    BY DEF RegisteredBrokers, ToSet, JoinsOK, HistoryOK
  <2>8. /\ brokerList' \in Seq(Brokers)
        /\ ToSet(brokerList') = ToSet(brokerList) \ {x}
    BY <1>0, <2>1, <2>5, <2>6, <2>7, RemoveFirstIs
  <2>9. ToSet(brokerList') # {}
    BY <2>5, <2>7, <2>8
  <2> QED
    BY <2>8, <2>9, ElementsType
<1>4. brokerList' = brokerList \/ HandleBrokerRequest \/ HandleUnregisterRequest
  <2>1. ASSUME NEW b \in Brokers, WakeUp(b) \/ Sleep(b) \/ Protocol(b)
        PROVE  brokerList' = brokerList
    BY <2>1 DEF Protocol, WakeUp, Sleep, HandleNameServerMessage, HandleJoinMessage,
                HandleMWOEMessage, HandleExpandMessage, HandleConnectionMessage,
                HandleUpdateMessage, Finish, nameServer
  <2>2. UNCHANGED vars => brokerList' = brokerList
    BY DEF vars, nameServer
  <2> QED
    BY <2>1, <2>2 DEF Next, NameServerNext
<1> QED
  BY <1>1, <1>2, <1>3, <1>4

(* A Connect message is told from others by what it asks.                  *)
LEMMA AskingIs ==
    ASSUME NEW b, NEW con \in ConnectMessage, NEW old \in ConnectMessage
    PROVE  Asking(b, con) = Asking(b, old) => con = old
<1>1. Asking(b, con) = Asking(b, old) =>
        /\ con.broker = old.broker /\ con.convergenceNumber = old.convergenceNumber
        /\ con.members = old.members
  BY DEF Asking
<1> QED
  BY <1>1 DEF ConnectMessage

(* A request is kept for later only if it is later than those kept.        *)
LEMMA KeptLater ==
    ASSUME FragmentsHold, Frag!FragmentsNext, NEW b \in Brokers,
           NEW m, m \in KeptForLater'[b], m \notin KeptForLater[b],
           NEW k \in KeptForLater[b], k.from = m.from
    PROVE  k.number < m.number
<1>0. /\ KeptForLater \in [Brokers -> SUBSET Frag!Request] /\ Frag!SentOK
      /\ DOMAIN KeptForLater = Brokers
  BY DEF FragmentsHold, Frag!FragmentsInv, Frag!FragmentsTypeOK
<1>1. PICK r \in Asks : Frag!Keep(r)
  <2>1. ASSUME NEW c \in Brokers, NEW V, Frag!Start(c, V) PROVE FALSE
    <3>1. KeptForLater' =
            [KeptForLater EXCEPT ![c] = {r \in KeptForLater[c] : r.number >= Rounds'[c]}]
      BY <2>1 DEF Frag!Start
    <3>2. KeptForLater'[b] \subseteq KeptForLater[b]
      BY <1>0, <3>1
    <3> QED
      BY <3>2
  <2>2. ASSUME KeptForLater' = KeptForLater PROVE FALSE
    BY <2>2
  <2>3. ASSUME NEW c \in Brokers,
               \/ Frag!Stop(c) \/ Frag!Rest(c) \/ Frag!Choose(c) \/ Frag!Ask(c)
               \/ Frag!Answer(c)
        PROVE  KeptForLater' = KeptForLater
    BY <2>3 DEF Frag!Stop, Frag!Rest, Frag!Choose, Frag!Ask, Frag!Answer
  <2>4. ASSUME NEW r \in Asks, Frag!Meet(r) PROVE KeptForLater' = KeptForLater
    BY <2>4 DEF Frag!Meet
  <2>5. ASSUME NEW u \in UnderWay, Frag!Learn(u) PROVE KeptForLater' = KeptForLater
    BY <2>5 DEF Frag!Learn
  <2> QED
    BY <2>1, <2>2, <2>3, <2>4, <2>5 DEF Frag!FragmentsNext
<1>2. ~(r.number = Rounds[r.to] /\ r.from \in Asked[r.to])
  BY <1>1 DEF Frag!Keep
<1>3. r = m /\ r.to = b
  <2>1. KeptForLater' = [KeptForLater EXCEPT ![r.to] = KeptForLater[r.to] \cup {r}]
    BY <1>1 DEF Frag!Keep
  <2>2. \A c \in Brokers : KeptForLater'[c] = IF c = r.to THEN KeptForLater[c] \cup {r}
                                              ELSE KeptForLater[c]
    BY <1>0, <2>1
  <2> QED
    BY <2>2
<1>4. CASE Frag!Open(r)
  BY <1>3, <1>4 DEF Frag!Open
<1>5. CASE Frag!HalfBy(r, r.from, r.to) /\ Frag!Pending(r.to, r.from)
  BY <1>2, <1>5 DEF Frag!HalfBy, Frag!Pending
<1> QED
  BY <1>0, <1>4, <1>5 DEF Frag!SentOK

(* Requests of the same broker are kept in the order of their              *)
(* convergences.                                                           *)
LEMMA InOrder ==
    ASSUME IInv, IInv', FragmentsHold, Frag!FragmentsNext \/ UNCHANGED Frag!fragments,
           NEW b \in Brokers,
           NEW new \in broker'[b].receivedConnects \ broker[b].receivedConnects,
           NEW old \in broker[b].receivedConnects, old.broker = new.broker
    PROVE  old.convergenceNumber < new.convergenceNumber
<1>1. /\ broker[b].receivedConnects \subseteq ConnectMessage
      /\ broker'[b].receivedConnects \subseteq ConnectMessage
  BY DEF IInv, TypeOK, BrokerState
<1>2. /\ KeptForLater[b] = {Asking(b, con) : con \in broker[b].receivedConnects}
      /\ KeptForLater'[b] = {Asking(b, con) : con \in broker'[b].receivedConnects}
  BY DEF KeptForLater, Asking
<1>m. PICK m : m = Asking(b, new)
  OBVIOUS
<1>k. PICK k : k = Asking(b, old)
  OBVIOUS
<1>3. m \in KeptForLater'[b] /\ m \notin KeptForLater[b] /\ k \in KeptForLater[b]
  BY <1>1, <1>2, <1>m, <1>k, AskingIs
<1>4. k.from = m.from /\ k.number = old.convergenceNumber /\ m.number = new.convergenceNumber
  BY <1>m, <1>k DEF Asking
<1>5. CASE Frag!FragmentsNext
  <2>1. k.number < m.number
    BY <1>3, <1>4, <1>5, KeptLater
  <2> QED
    BY <1>4, <2>1
<1>6. CASE UNCHANGED Frag!fragments
  <2>1. KeptForLater' = KeptForLater
    BY <1>6 DEF Frag!fragments
  <2> QED
    BY <1>3, <2>1
<1> QED
  BY <1>5, <1>6
=============================================================================
