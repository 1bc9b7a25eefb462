--------------------------- MODULE SpanningForest ---------------------------
(***************************************************************************)
(* What the spanning tree protocol promises, with no word of how brokers   *)
(* come to it: an abstract specification that OptimalBroker implements.    *)
(*                                                                         *)
(* Brokers build in rounds.  In a round a broker has a set of brokers to   *)
(* link up with, starts without links, and only ever adds one that is the  *)
(* shortest way out of the fragment at either end.  Each end of a link     *)
(* adds it for itself, one after the other.                                *)
(***************************************************************************)
EXTENDS Naturals

CONSTANT Brokers

VARIABLES
    delay,      \* delay[b][c]: the length of a link between b and c
    round,      \* round[b]: the round broker b is in
    available,  \* available[b]: the brokers it builds over
    linked      \* linked[b]: the brokers it has a link to

forest == <<delay, round, available, linked>>

(* Is there a link between brokers b and c, of a round they are both in?   *)
Joined(b, c) == round[b] = round[c] /\ (c \in linked[b] \/ b \in linked[c])

(* The fragment of broker b: the brokers its links lead to.                *)
Fragment(b) ==
    {c \in Brokers :
       \A S \in SUBSET Brokers :
          b \in S /\ (\A x \in S, y \in Brokers : Joined(x, y) => y \in S) => c \in S}

(* No link out of fragment F to a broker of V is shorter than {b, c}.      *)
ShortestWayOut(b, c, F, V) ==
    /\ b \in F /\ c \in V \ F
    /\ \A x \in F, y \in V \ F : delay[b][c] <= delay[x][y]

-----------------------------------------------------------------------------

ForestInit ==
    /\ delay \in [Brokers -> [Brokers -> Nat]]
    /\ \A b, c \in Brokers : delay[b][c] = delay[c][b]
    /\ round = [b \in Brokers |-> 0]
    /\ available = [b \in Brokers |-> {}]
    /\ linked = [b \in Brokers |-> {}]

(* A broker without links is told of others.                               *)
Learn(b) ==
    /\ linked[b] = {}
    /\ \E V \in SUBSET Brokers : available' = [available EXCEPT ![b] = V]
    /\ UNCHANGED <<delay, round, linked>>

(* A broker drops its links and goes on to a later round.                  *)
Build(b) ==
    /\ round' = [round EXCEPT ![b] = round'[b]]
    /\ round'[b] \in Nat /\ round'[b] > round[b]
    /\ \E V \in SUBSET Brokers : b \in V /\ available' = [available EXCEPT ![b] = V]
    /\ linked' = [linked EXCEPT ![b] = {}]
    /\ UNCHANGED delay

Leave(b) ==
    /\ linked' = [linked EXCEPT ![b] = {}]
    /\ UNCHANGED <<delay, round, available>>

(* Broker b adds a link to c: the first half of it only if it is the       *)
(* shortest way out for both fragments, the second half always.            *)
Link(b, c) ==
    /\ round[b] = round[c] /\ available[b] = available[c]
    /\ {b, c} \subseteq available[b]
    /\ \/ b \in linked[c]
       \/ /\ ShortestWayOut(b, c, Fragment(b), available[b])
          /\ ShortestWayOut(c, b, Fragment(c), available[c])
    /\ linked' = [linked EXCEPT ![b] = @ \cup {c}]
    /\ UNCHANGED <<delay, round, available>>

ForestNext ==
    \E b \in Brokers :
       \/ Learn(b)
       \/ Build(b)
       \/ Leave(b)
       \/ \E c \in Brokers : Link(b, c)

ForestSpec == ForestInit /\ [][ForestNext]_forest

-----------------------------------------------------------------------------
(* What follows.                                                           *)

(* Every link belongs to a minimum spanning tree of the brokers its owner  *)
(* builds over: it is a shortest one over some cut between them.           *)
Shortest(b, c, V) ==
    \E S \in SUBSET V :
        /\ b \in S /\ c \in V \ S
        /\ \A x \in S, y \in V \ S : delay[b][c] <= delay[x][y]

LinksAreShortest ==
    \A b \in Brokers : \A c \in linked[b] : Shortest(b, c, available[b])

(* The links never close a cycle: every link is a bridge, the only one     *)
(* between two sets of brokers.                                            *)
Bridge(b, c) ==
    \E S \in SUBSET Brokers :
        /\ b \in S /\ c \notin S
        /\ \A x \in S, y \in Brokers \ S : Joined(x, y) => x = b /\ y = c

NoCycle == \A b, c \in Brokers : Joined(b, c) => Bridge(b, c)

=============================================================================
