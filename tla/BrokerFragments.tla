--------------------------- MODULE BrokerFragments ---------------------------
(***************************************************************************)
(* OptimalBroker implements Fragments: the brokers' data members and the   *)
(* messages on their way, read as fragments, reports, requests, updates.   *)
(***************************************************************************)
EXTENDS OptimalBroker

(* Broker b takes part from its own join on and until it leaves: it is     *)
(* registered, and neither its join nor the order to leave is due.         *)
Awake(b) ==
    /\ b \in RegisteredBrokers /\ ~broker[b].initial
    /\ \A i \in DOMAIN now :
          LET m == now[i].msg
          IN  /\ m.type = "NSMessage" => now[i].to # b
              /\ m.type = "Disconnection" => m.requester # b
              /\ m.type = "Join" => ~(m.leaving /\ m.requester = b)

(* The messages of a type that are due at broker b, or on a channel to it. *)
Due(type, b) ==
    {now[i].msg : i \in {j \in DOMAIN now : now[j].msg.type = type /\ now[j].to = b}}

Under(type, s, d) == {m \in ToSet(chan[s][d]) : m.type = type}

(* The reports that b has made in its present fragment and that have not   *)
(* been counted, wherever they are: due, on their way, or collected.       *)
OutReports(b) ==
    Due("MWOE", b)
      \cup (UNION {{m \in Under("MWOE", s, d) : Last(m.piggyback) = b} :
                      s \in Brokers, d \in Brokers})
      \cup (UNION {{m \in ToSet(broker[c].receivedMWOEs) : Origin(c, m) = b} : c \in Brokers})

(* The orders to expand that are on their way back to b.                   *)
Destination(d, m) == IF m.piggyback = <<>> THEN d ELSE Last(m.piggyback)

OutExpands(b) ==
    Due("Expand", b)
      \cup (UNION {{m \in Under("Expand", s, d) : Destination(d, m) = b} :
                      s \in Brokers, d \in Brokers})

(* The broker that the messages ms, all alike, are about.                  *)
About(ms) == IF ms = {} THEN NULL ELSE (CHOOSE m \in ms : TRUE).broker

(* A Connect message for broker b as a request.                            *)
Asking(b, con) ==
    [from |-> con.broker, to |-> b, number |-> con.convergenceNumber, members |-> con.members]

Telling(s, d, m) == [from |-> s, to |-> d, members |-> m.members]

TakingPart == [b \in Brokers |-> Awake(b)]
KnownMembers == [b \in Brokers |-> Members(b)]
Reported == [b \in Brokers |-> About(OutReports(b))]
ToldToAsk == [b \in Brokers |-> About(OutExpands(b))]
Asked == [b \in Brokers |-> broker[b].sentConnects]
Asks == UNION {{Asking(b, con) : con \in Due("Connect", b)} : b \in Brokers}
KeptForLater == [b \in Brokers |-> {Asking(b, con) : con \in broker[b].receivedConnects}]
UnderWay == UNION {{Telling(s, d, m) : m \in Under("Update", s, d)} : s \in Brokers, d \in Brokers}

Frag == INSTANCE Fragments WITH
    None <- NULL, delay <- conditionTable, round <- Rounds, awake <- TakingPart,
    available <- BuildsOver, members <- KnownMembers, linked <- LinkedTo,
    edge <- Reported, chosen <- ToldToAsk, asked <- Asked, sent <- Asks,
    received <- KeptForLater, updates <- UnderWay

(* Every handler of the brokers is a step of Fragments or none: reports    *)
(* are counted only when the whole fragment has made them, the edge that   *)
(* is expanded over is the best of all, and a broker links only to one     *)
(* that has asked it and whom it has asked in the same convergence.        *)
MergesFragments == Frag!FragmentsSpec

(* What Fragments_proofs proves of all fragments holds of the brokers'.    *)
FragmentsHold == Frag!FragmentsInv
=============================================================================
