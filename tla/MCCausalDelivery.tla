-------------------------- MODULE MCCausalDelivery --------------------------
(***************************************************************************)
(* An instance of CausalDelivery for model checking.                       *)
(***************************************************************************)
EXTENDS CausalDelivery

PingTable == [c \in Clients |-> [b \in Brokers |-> b]]
=============================================================================
