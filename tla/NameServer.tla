----------------------------- MODULE NameServer -----------------------------
(***************************************************************************)
(* The name server (Nodes/NameServer): it keeps the list of the brokers    *)
(* that are awake and numbers the changes of that list.  A broker that     *)
(* registers is told the list, itself included, and the number under which *)
(* all brokers of the list have to build a new spanning tree.              *)
(***************************************************************************)
EXTENDS Simulation, SequencesExt

VARIABLES
    brokerList,         \* registered brokers, in the order of registration
    convergenceNumber   \* number of the next change

nameServer == <<brokerList, convergenceNumber>>

NSTypeOK ==
    /\ brokerList \in Seq(Brokers)
    /\ convergenceNumber \in Nat

NSInit ==
    /\ brokerList = <<>>
    /\ convergenceNumber = 1

RegisteredBrokers == {brokerList[i] : i \in DOMAIN brokerList}

(* registerBroker: a broker that is in the list already is not added.      *)
registerBroker(b) ==
    IF b \in RegisteredBrokers THEN brokerList ELSE Append(brokerList, b)

(* handleBrokerRequest: register the broker, answer with the whole list    *)
(* and the current number, use up the number.                              *)
handleBrokerRequest ==
    \E a \in Arrivals(NS) :
      /\ a.msg.type = "NSRequest"
      /\ a.msg.requester \in Brokers
      /\ LET b == a.msg.requester
             reply == [type |-> "NSMessage", requestedNodes |-> registerBroker(b),
                       convergenceNumber |-> convergenceNumber]
         IN  /\ brokerList' = registerBroker(b)
             /\ convergenceNumber' = convergenceNumber + 1
             /\ End(NS, a, SendDirect(Begin(NS, a, NULL), b, reply))

(* handleUnregisterRequest: a number is used up even if the broker is not  *)
(* in the list.  removeNode reads the first node of the list without       *)
(* checking that there is one.                                             *)
handleUnregisterRequest ==
    \E a \in Arrivals(NS) :
      /\ a.msg.type = "Disconnection"
      /\ a.msg.requester \in Brokers
      /\ brokerList' = RemoveFirst(brokerList, a.msg.requester)
      /\ convergenceNumber' = convergenceNumber + 1
      /\ LET e == Begin(NS, a, NULL)
         IN  End(NS, a, IF brokerList = <<>> THEN Fault(e) ELSE e)

(* handleClientRequest: the list as it is.  The number of the request is   *)
(* never set; no client reads it.                                          *)
handleClientRequest ==
    \E a \in Arrivals(NS) :
      /\ a.msg.type = "NSRequest"
      /\ a.msg.requester \in Clients
      /\ UNCHANGED nameServer
      /\ LET reply == [type |-> "NSMessage", requestedNodes |-> brokerList,
                       convergenceNumber |-> 0]
         IN  End(NS, a, SendDirect(Begin(NS, a, NULL), a.msg.requester, reply))
=============================================================================
