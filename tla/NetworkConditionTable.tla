----------------------- MODULE NetworkConditionTable -----------------------
(***************************************************************************)
(* How the table of delays is drawn (Utilities/NetworkConditionTable):     *)
(* row after row, and each row a Map from nodes to delays.  The brokers'   *)
(* rows are filled in two turns, and registered in the table twice.        *)
(*                                                                         *)
(* A delay is drawn again until isUnique takes it; a draw that is refused  *)
(* leaves no trace.                                                        *)
(***************************************************************************)
EXTENDS Messages, Map, SequencesExt

CONSTANT
    Draws       \* the delays rand() may give

ASSUME DrawsAssumption == Draws \subseteq Nat

(* The modules of the simulation are finitely many.                        *)
ASSUME RowsAssumption == IsFiniteSet(Brokers) /\ IsFiniteSet(Clients)

VARIABLES
    values,     \* the delays that have been given out
    rows,       \* rows[n]: the Map that is the row of node n
    table,      \* a Map from nodes to rows; a row is known by its node
    todo        \* the rows still to be filled, with the loop that does it

conditions == <<values, rows, table, todo>>

(* The submodules in the order of their index.                             *)
BrokerList == SetToSeq(Brokers)
ClientList == SetToSeq(Clients)

getDelay(n1, n2) == getValue(rows[getValue(table, n1)], n2)

(* Mutant: a delay of zero is taken.                                       *)
isUnique_Zero(delay, taken) == delay \notin taken

isUnique(delay, taken) == delay # 0 /\ delay \notin taken

(* The ways to draw n delays one after the other.                          *)
Drawn(n) ==
    {ds \in [1 .. n -> Draws] :
       \A i \in 1 .. n : isUnique(ds[i], values \cup {ds[j] : j \in 1 .. i - 1})}

SetPair(row, pair) == setMapping(row, pair.key, pair.value)

(* Row m with a mapping for each of nodes.                                 *)
Filled(m, nodes, delays) ==
    FoldLeft(SetPair, m, [i \in DOMAIN nodes |-> [key |-> nodes[i], value |-> delays[i]]])

-----------------------------------------------------------------------------

Jobs ==
    [i \in DOMAIN ClientList |-> <<"draw", ClientList[i]>>]
      \o [i \in DOMAIN BrokerList |-> <<"copy", BrokerList[i]>>]
      \o [i \in DOMAIN BrokerList |-> <<"complete", BrokerList[i]>>]

TableInit ==
    /\ values = {} /\ table = EmptyMap
    /\ rows = [n \in Clients \cup Brokers |-> EmptyMap]
    /\ todo = Jobs

(* The row of node n is filled up and registered.                          *)
Row(n, nodes, delays) ==
    /\ rows' = [rows EXCEPT ![n] = Filled(@, nodes, delays)]
    /\ table' = setMapping(table, n, n)
    /\ todo' = Tail(todo)

(* Client-broker relation.                                                 *)
DrawRow(c) ==
    \E ds \in Drawn(Len(BrokerList)) :
        /\ Row(c, BrokerList, ds)
        /\ values' = values \cup ToSet(ds)

(* Broker-client relation: copies of the clients' delays.                  *)
CopyRow(b) ==
    /\ Row(b, ClientList, [j \in DOMAIN ClientList |-> getDelay(ClientList[j], b)])
    /\ UNCHANGED values

(* Broker-broker relation: the delays to the brokers that follow are       *)
(* drawn, those to the ones before are copies, and that to itself is zero. *)
CompleteRow(b) ==
    LET i == CHOOSE i \in DOMAIN BrokerList : BrokerList[i] = b
    IN  \E ds \in Drawn(Len(BrokerList) - i) :
          /\ Row(getValue(table, b), BrokerList,
                 [j \in DOMAIN BrokerList |->
                    IF i < j THEN ds[j - i]
                    ELSE IF i > j THEN getDelay(BrokerList[j], b) ELSE 0])
          /\ values' = values \cup ToSet(ds)

TableNext ==
    /\ todo # <<>>
    /\ LET n == Head(todo)[2]
       IN  \/ Head(todo)[1] = "draw" /\ DrawRow(n)
           \/ Head(todo)[1] = "copy" /\ CopyRow(n)
           \/ Head(todo)[1] = "complete" /\ CompleteRow(n)

TableSpec == TableInit /\ [][TableNext]_conditions

-----------------------------------------------------------------------------

(* The finished table is what the protocol, and the clients' choice of the *)
(* nearest broker, rely on, read through getDelay, which takes the first   *)
(* of several mappings; and a client and a broker see the same delay.      *)
TableIsSound ==
    todo = <<>> =>
      /\ IsConditionTable([b \in Brokers |-> [c \in Brokers |-> getDelay(b, c)]])
      /\ IsPing([c \in Clients |-> [b \in Brokers |-> getDelay(c, b)]])
      /\ \A c \in Clients, b \in Brokers : getDelay(c, b) = getDelay(b, c)
=============================================================================
