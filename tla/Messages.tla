------------------------------ MODULE Messages ------------------------------
(***************************************************************************)
(* The nodes of the overlay and the messages they exchange                 *)
(* (Messages/*, Nodes/_STNode).  A broker is identified by the id the      *)
(* simulator gives it (cModule::getId), a natural number, because the      *)
(* protocol elects the smallest id as the leader of a fragment.            *)
(*                                                                         *)
(* Subscriptions that leave a broker together travel over the same channel *)
(* with the same delay, so they are handled back to back at the other end; *)
(* a SubscriptionMessage therefore carries the set of their topics.        *)
(***************************************************************************)
EXTENDS Pointers, Integers, Sequences

CONSTANTS
    Brokers,    \* ids of the broker modules ("borkers" in mainTopology.ned)
    Clients,    \* the client modules
    NS,         \* the name server module
    Topics      \* the topics 0 .. NR_TOPICS - 1

ASSUME BrokersAssumption == Brokers \subseteq Nat

ASSUME TopicsAssumption == Topics \subseteq Nat

ASSUME NodesAssumption ==
    /\ Clients \cap Brokers = {}
    /\ NS \notin Brokers \cup Clients
    /\ NULL \notin Brokers \cup Clients \cup {NS}

Nodes == Brokers \cup Clients \cup {NS}

(* What the nodes may expect of the delays between brokers and of those    *)
(* between clients and brokers, which NetworkConditionTable draws: they    *)
(* are the same in both directions, and no two links have the same.  Only  *)
(* their order matters.                                                    *)
IsConditionTable(t) ==
    /\ t \in [Brokers -> [Brokers -> Nat]]
    /\ \A b, c \in Brokers : t[b][c] = t[c][b]
    /\ \A b, c, d, f \in Brokers :
          b # c /\ t[b][c] = t[d][f] => {b, c} = {d, f}

IsPing(p) ==
    /\ p \in [Clients -> [Brokers -> Nat]]
    /\ \A c \in Clients : \A b, d \in Brokers : p[c][b] = p[c][d] => b = d

-----------------------------------------------------------------------------
(* The piggyback stack of MWOE and Expand messages, topmost element first. *)

Push(stack, b) == <<b>> \o stack
Top(stack) == Head(stack)
Pop(stack) == Tail(stack)

(* The messages of the spanning tree protocol.  UpdateMessage.componentId  *)
(* is written by the sender and read by nobody; it is left out.            *)

JoinMessage ==
    [type : {"Join"}, requester : Brokers, convergenceNo : Nat, leaving : BOOLEAN]

MWOEMessage ==
    [type : {"MWOE"}, broker : Brokers \cup {NULL}, delay : Nat, piggyback : Seq(Brokers)]

ExpandMessage ==
    [type : {"Expand"}, broker : Brokers, piggyback : Seq(Brokers)]

ConnectMessage ==
    [type : {"Connect"}, broker : Brokers, convergenceNumber : Nat, members : SUBSET Brokers]

UpdateMessage ==
    [type : {"Update"}, sender : Brokers, members : SUBSET Brokers]

ProtocolMessage ==
    JoinMessage \cup MWOEMessage \cup ExpandMessage \cup ConnectMessage \cup UpdateMessage

(* A request to the name server and its answer.                            *)

NSRequest ==
    [type : {"NSRequest"}, requester : Brokers \cup Clients]

NSMessage ==
    [type : {"NSMessage"}, requestedNodes : Seq(Brokers), convergenceNumber : Nat]

DisconnectionRequestMessage ==
    [type : {"Disconnection"}, requester : Brokers \cup Clients]

(* Messages of the publish/subscribe layer.                                *)

ConnectionRequestMessage ==
    [type : {"Connection"}, requester : Brokers \cup Clients]

SubscriptionMessage ==
    [type : {"Subscription"}, subscriber : Brokers \cup Clients, topics : SUBSET Topics]

UnsubscriptionMessage ==
    [type : {"Unsubscription"}, unsubscriber : Brokers \cup Clients, topic : Topics]

(* A vector clock: a list of pairs of a node and a number, one for each    *)
(* node heard of, in the order in which they were heard of.                *)

Pair == [node : Clients, value : Nat]
VectorClock == Seq(Pair)

PublishMessage ==
    [type : {"Publish"}, topic : Topics, sender : Brokers \cup Clients,
     originalSender : Clients, timeStamp : VectorClock]

(* The two self-messages every node owns (STNode::STNode), and the three   *)
(* of a client.                                                            *)

wakeUpDelayMsg == [type |-> "WakeUp"]
sleepDelayMsg == [type |-> "Sleep"]
publishDelayMsg == [type |-> "PublishDelay"]
subscribeDelayMsg == [type |-> "SubscribeDelay"]
unsubscribeDelayMsg == [type |-> "UnsubscribeDelay"]

Message ==
    ProtocolMessage \cup NSRequest \cup NSMessage \cup DisconnectionRequestMessage
      \cup ConnectionRequestMessage \cup SubscriptionMessage \cup UnsubscriptionMessage
      \cup PublishMessage
      \cup {wakeUpDelayMsg, sleepDelayMsg,
            publishDelayMsg, subscribeDelayMsg, unsubscribeDelayMsg}
=============================================================================
