----------------------------- MODULE Containers -----------------------------
(***************************************************************************)
(* The containers of Utilities in use: one LinkedList and one Map, any     *)
(* calls of their methods in any order, and the two loops in which         *)
(* OptimalBroker goes through a Map while it changes or searches it.       *)
(***************************************************************************)
EXTENDS LinkedList, Map

CONSTANTS
    Keys,       \* the keys of the map: pointers to nodes
    Values,     \* what both hold; for OptimalBroker's map, numbers of convergences
    MaxItems    \* bound on the size of each

(* NULL is no key, no number and no address.                                *)
ASSUME ContainersAssumption ==
    /\ Values \subseteq Nat /\ NULL \notin Keys \cup Nat
    /\ MaxItems \in Nat

VARIABLES
    list, listCall,     \* a LinkedList and the last call of one of its methods
    map, mapCall        \* a Map, likewise

containers == <<list, listCall, map, mapCall>>

Call(call, argument, result) ==
    [call |-> call, argument |-> argument, result |-> result]

-----------------------------------------------------------------------------
(* The list                                                                *)

Content(t) == [key |-> t, value |-> t]

ListAddToFront(t) ==
    /\ list.size < MaxItems
    /\ list' = addToFront(list, t)
    /\ listCall' = Call("addToFront", Content(t), NULL)

ListAddToBack(t) ==
    /\ list.size < MaxItems
    /\ list' = addToBack(list, t)
    /\ listCall' = Call("addToBack", Content(t), NULL)

ListRemoveFromFront ==
    /\ list' = removeFromFront(list).list
    /\ listCall' = Call("removeFromFront", NULL, removeFromFront(list).ret)

(* Callers have to see to it that there is a first node.                   *)
ListRemoveNode(t) ==
    /\ list.start # NULL
    /\ list' = removeNode(list, t).list
    /\ listCall' = Call("remove", t, removeNode(list, t).ret)

ListFind(t) ==
    /\ listCall' = Call("find", Content(t), IF Holding(list, t) = {} THEN NULL ELSE t)
    /\ UNCHANGED list

ListRemoveAll == list' = removeAll(list) /\ listCall' = Call("clear", NULL, NULL)

ListNext ==
    \/ \E t \in Values : ListAddToFront(t) \/ ListAddToBack(t) \/ ListRemoveNode(t) \/ ListFind(t)
    \/ ListRemoveFromFront \/ ListRemoveAll

-----------------------------------------------------------------------------
(* The map                                                                 *)

SetMapping(k, v) ==
    /\ map.length < MaxItems
    /\ map' = setMapping(map, k, v)
    /\ mapCall' = Call("addToBack", [key |-> k, value |-> v], NULL)

RemoveMapping(k) ==
    /\ map' = removeMapping(map, k).map
    /\ mapCall' = Call("remove", k, removeMapping(map, k).ret)

RemoveMappingAt(i) ==
    /\ map' = removeMappingAt(map, i)
    /\ mapCall' = Call("removeAt", i + 1, NULL)

RemoveLastMapping ==
    /\ map' = removeLastMapping(map).map
    /\ mapCall' = Call("removeLast", NULL, removeLastMapping(map).ret)

RemoveAll == map' = EmptyMap /\ mapCall' = Call("clear", NULL, NULL)

GetValue(k) == mapCall' = Call("get", k, getValue(map, k)) /\ UNCHANGED map

MapMethod ==
    \/ \E k \in Keys : RemoveMapping(k) \/ GetValue(k)
    \/ \E k \in Keys, v \in Values : SetMapping(k, v)
    \/ \E i \in 0 .. map.length - 1 : RemoveMappingAt(i)
    \/ RemoveLastMapping \/ RemoveAll

-----------------------------------------------------------------------------
(* The loops over the map                                                  *)

(* Mutant: the counter is not taken back after a removal.                  *)
DropRound_Skips(s, v) ==
    IF s.i >= s.map.length THEN s
    ELSE IF s.map.mappings[s.i].value < v
    THEN [map |-> removeMappingAt(s.map, s.i), i |-> s.i + 1]
    ELSE [map |-> s.map, i |-> s.i + 1]

(* A round of the loop of OptimalBroker::initiateProtocol: remove the      *)
(* mapping in slot i if it is below v and stay there, or else go on.       *)
DropRound(s, v) ==
    IF s.i >= s.map.length THEN s
    ELSE IF s.map.mappings[s.i].value < v
    THEN [map |-> removeMappingAt(s.map, s.i), i |-> s.i]
    ELSE [map |-> s.map, i |-> s.i + 1]

(* There are as many rounds as there were mappings.                        *)
Dropped(m, v) ==
    FoldLeft(DropRound, [map |-> m, i |-> 0], [j \in 1 .. m.length |-> v]).map

(* What Connect messages keep to (OptimalBroker!ConnectsInOrder): those of *)
(* one sender come in the order of their convergences.                     *)
InOrder(m) ==
    \A i, j \in 0 .. m.length - 1 :
        i < j /\ m.mappings[i].key = m.mappings[j].key
          => m.mappings[i].value < m.mappings[j].value

DropOld(v) ==
    /\ InOrder(map)
    /\ map' = Dropped(map, v)
    /\ mapCall' = Call("drop", v, NULL)

(* A round of the loop of getReceivedConnectsForCurrentConvergence: go on  *)
(* to the next mapping of the key unless this one has the value.           *)
SearchRound(s, v) ==
    IF s.i = -1 THEN s
    ELSE IF s.map.mappings[s.i].value = v THEN s
    ELSE [s EXCEPT !.i = getIndex(s.map, s.key, s.i + 1)]

Found(m, k, v) ==
    LET start == [map |-> m, key |-> k, i |-> getIndex(m, k, 0)]
        last == FoldLeft(SearchRound, start, [j \in 1 .. m.length |-> v])
    IN  IF last.i = -1 THEN NULL ELSE m.mappings[last.i].value

Search(k, v) ==
    /\ mapCall' = Call("find", [key |-> k, value |-> v], Found(map, k, v))
    /\ UNCHANGED map

MapLoop ==
    \/ \E v \in Values : DropOld(v)
    \/ \E k \in Keys, v \in Values : Search(k, v)

MapNext == MapMethod \/ MapLoop

-----------------------------------------------------------------------------

ContainersInit ==
    /\ list = EmptyList /\ listCall = Call("new", NULL, NULL)
    /\ map = EmptyMap /\ mapCall = Call("new", NULL, NULL)

ContainersNext ==
    \/ ListNext /\ UNCHANGED <<map, mapCall>>
    \/ MapNext /\ UNCHANGED <<list, listCall>>

ContainersSpec == ContainersInit /\ [][ContainersNext]_containers

-----------------------------------------------------------------------------
(* Properties                                                              *)

(* The nodes from start to end are all the nodes there are: none has been  *)
(* lost, no pointer leads to one that has been deleted, and end and size   *)
(* are the last of them and their number.                                  *)
ListIsSound ==
    /\ ToSet(Path(list)) = DOMAIN list.heap
    /\ Len(Path(list)) = list.size
    /\ IF list.size = 0
       THEN list.start = NULL /\ list.end = NULL
       ELSE list.end = Last(Path(list)) /\ list.heap[list.end].next = NULL

(* Whatever has been set and removed before, the mappings are within the   *)
(* array, and none of them is a slot that has not been written.            *)
MapIsSound ==
    /\ map.length \in 0 .. map.physicalLength
    /\ DOMAIN map.mappings = 0 .. map.physicalLength - 1
    /\ \A i \in 0 .. map.length - 1 : map.mappings[i] \in [key : Keys, value : Values]

(* The list, the map, and the loops over the map, implement a list of      *)
(* items: every call has the effect on it, and the result, that it should. *)
ItemsOf(l) == [i \in DOMAIN ContentsOf(l) |-> Content(ContentsOf(l)[i])]

ListItems == INSTANCE ItemList WITH
    Keys <- Values, items <- ItemsOf(list), called <- listCall

MapItems == INSTANCE ItemList WITH items <- Stored(map), called <- mapCall

ListKeepsItems == ListItems!ItemsSpec
MapKeepsItems == MapItems!ItemsSpec
=============================================================================
