----------------------------- MODULE MCOverlay -----------------------------
(***************************************************************************)
(* Instances of Overlay for model checking: from scratch, and from states  *)
(* in which three brokers have built a line and stay awake.                *)
(***************************************************************************)
EXTENDS Overlay

CONSTANTS c1, c2, c3

(* The nearest broker of c1 is broker 1, that of c2 is 2, and so on.       *)
Home == c1 :> 1 @@ c2 :> 2 @@ c3 :> 3

PingTable == [c \in Clients |-> [b \in Brokers |-> IF b = Home[c] THEN 0 ELSE b]]

(* Two brokers, and three whose tree is the line 1 -- 2 -- 3.              *)
Pair12 == {<< <<0, 1>>, <<1, 0>> >>}
Line == {<< <<0, 1, 3>>, <<1, 0, 2>>, <<3, 2, 0>> >>}

-----------------------------------------------------------------------------
(* The state the brokers of the line are in after they have woken up one   *)
(* after the other, each when the others had converged.                    *)

(* Subscribers beyond neighbour n of broker b, if home are all of them.    *)
Beyond(b, n, home) ==
    UNION {ToSet(home[d]) : d \in {d \in Brokers \ {b} : (d > b) = (n > b)}}

Entries(b, ns, home) ==
    [i \in DOMAIN ns |-> [node |-> ns[i],
                          subscriptions |-> IF Beyond(b, ns[i], home) = {} THEN {} ELSE Topics]]
      \o [i \in DOMAIN home[b] |-> [node |-> home[b][i], subscriptions |-> Topics]]

(* A broker has passed on the subscriptions of its clients, and those of a *)
(* neighbour if it has another one.                                        *)
LineBroker(b, hop, ns, home, sent, received) ==
    [InitialState EXCEPT
       !.initial = FALSE, !.currentConvergence = 3,
       !.componentId = 1, !.leaderHop = hop, !.members = {1, 2, 3},
       !.availableBrokers = <<1, 2, 3>>,
       !.neighboursMap = Entries(b, ns, home),
       !.subscriptionMonitor =
          IF home[b] # <<>> \/ (Len(ns) > 1 /\ \E d \in Brokers : home[d] # <<>>)
          THEN Topics ELSE {},
       !.sentConnects = sent, !.receivedConnects = received]

LineIsBuilt(home) ==
    /\ now = <<>> /\ crashed = FALSE
    /\ chan = [n \in Nodes |-> [m \in Nodes |-> <<>>]]
    /\ brokerList = <<1, 2, 3>> /\ convergenceNumber = 4
    /\ broker = << LineBroker(1, NULL, <<2>>, home, {2}, {}),
                   LineBroker(2, 1, <<1, 3>>, home, {1},
                     {[type |-> "Connect", broker |-> 3, convergenceNumber |-> 3,
                       members |-> {3}]}),
                   LineBroker(3, 2, <<2>>, home, {2}, {}) >>
    /\ conditionTable \in ConditionTables

(* No client has woken up.                                                 *)
ClientsAsleep ==
    /\ LineIsBuilt([b \in Brokers |-> <<>>])
    /\ timers = [n \in Nodes |-> CASE n \in Brokers -> {sleepDelayMsg}
                                   [] n \in Clients -> {wakeUpDelayMsg}
                                   [] OTHER -> {}]
    /\ client = [c \in Clients |-> InitialClient(c)]

LineSpec == ClientsAsleep /\ [][OverlayNext]_overlay

(* Every client is attached to its nearest broker and subscribes to all    *)
(* topics, and all brokers know.                                           *)
ClientsSubscribed ==
    /\ LineIsBuilt([b \in Brokers |-> SetToSeq({c \in Clients : Home[c] = b})])
    /\ timers = [n \in Nodes |-> CASE n \in Brokers -> {sleepDelayMsg}
                                   [] n \in Clients -> periods \cup {sleepDelayMsg}
                                   [] OTHER -> {}]
    /\ client = [c \in Clients |-> [InitialClient(c) EXCEPT !.out = Home[c],
                                                            !.subscriptions = Topics]]

GroupSpec == ClientsSubscribed /\ [][OverlayNext]_overlay

=============================================================================
