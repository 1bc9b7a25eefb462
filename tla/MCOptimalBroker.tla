-------------------------- MODULE MCOptimalBroker --------------------------
(***************************************************************************)
(* Instances of OptimalBroker for model checking.                          *)
(***************************************************************************)
EXTENDS BrokerFragments

(* All ways to order the delays of the links between the brokers.          *)
Pairs == {p \in SUBSET Brokers : Cardinality(p) = 2}

Rankings == {r \in [Pairs -> 1 .. Cardinality(Pairs)] :
                \A p, q \in Pairs : r[p] = r[q] => p = q}

AllTables ==
    {[b \in Brokers |-> [c \in Brokers |-> IF b = c THEN 0 ELSE r[{b, c}]]] : r \in Rankings}

(* Some orders for four brokers 1 .. 4: a line whose cheapest link is in   *)
(* the middle, one whose cheapest link is at an end, a star, two pairs.    *)
Table(d12, d13, d14, d23, d24, d34) ==
    << <<0, d12, d13, d14>>, <<d12, 0, d23, d24>>,
       <<d13, d23, 0, d34>>, <<d14, d24, d34, 0>> >>

SomeTables ==
    {Table(2, 4, 5, 1, 6, 3), Table(1, 4, 5, 2, 6, 3),
     Table(4, 5, 1, 6, 2, 3), Table(1, 4, 3, 5, 6, 2)}
=============================================================================
