------------------------------ MODULE ItemList ------------------------------
(***************************************************************************)
(* What a container promises: a list of items, each a value with a key,    *)
(* without nodes, pointers or arrays.  An abstract specification;          *)
(* LinkedList implements it with items that are their own keys, Map with   *)
(* its mappings.  What a call was and what it returned is on record, so    *)
(* that no call can pass for another one.                                  *)
(***************************************************************************)
EXTENDS Naturals, Sequences

CONSTANTS Keys, Values, NULL

VARIABLES
    items,
    called      \* the last call, its argument and what it returned

Item == [key : Keys, value : Values]

Returns(call, argument, result) ==
    /\ called'.call = call
    /\ called' = [call |-> call, argument |-> argument, result |-> result]

(* The list without the item in place i.                                   *)
Except(i) == [j \in 1 .. Len(items) - 1 |-> items[IF j < i THEN j ELSE j + 1]]

IsFirst(i, k) ==
    /\ i \in DOMAIN items /\ items[i].key = k
    /\ \A j \in 1 .. i - 1 : items[j].key # k

Has(k) == \E i \in DOMAIN items : items[i].key = k

-----------------------------------------------------------------------------

ItemsInit ==
    items = <<>> /\ called = [call |-> "new", argument |-> NULL, result |-> NULL]

AddToFront(x) == Returns("addToFront", x, NULL) /\ items' = <<x>> \o items

AddToBack(x) == Returns("addToBack", x, NULL) /\ items' = Append(items, x)

RemoveFromFront ==
    /\ Returns("removeFromFront", NULL, IF items = <<>> THEN NULL ELSE items[1].value)
    /\ items' = IF items = <<>> THEN items ELSE Except(1)

RemoveLast ==
    /\ Returns("removeLast", NULL, IF items = <<>> THEN NULL ELSE items[Len(items)].value)
    /\ items' = IF items = <<>> THEN items ELSE Except(Len(items))

(* The first item of key k goes.                                           *)
Remove(k) ==
    /\ called'.call = "remove"
    /\ \/ ~Has(k) /\ Returns("remove", k, NULL) /\ UNCHANGED items
       \/ \E i \in DOMAIN items :
             /\ IsFirst(i, k)
             /\ Returns("remove", k, items[i].value)
             /\ items' = Except(i)

(* The same for the key of item n; nothing is returned.                    *)
RemoveAt(n) ==
    /\ Returns("removeAt", n, NULL)
    /\ \E i \in DOMAIN items : IsFirst(i, items[n].key) /\ items' = Except(i)

Clear == Returns("clear", NULL, NULL) /\ items' = <<>>

(* All items below v go; the others stay in their order.                   *)
Drop(v) ==
    /\ Returns("drop", v, NULL)
    /\ \E place \in [1 .. Len(items') -> DOMAIN items] :
          /\ \A i, j \in DOMAIN place : i < j => place[i] < place[j]
          /\ {place[i] : i \in DOMAIN place} = {i \in DOMAIN items : items[i].value >= v}
          /\ items' = [i \in DOMAIN place |-> items[place[i]]]

Get(k) ==
    /\ called'.call = "get"
    /\ \/ ~Has(k) /\ Returns("get", k, NULL)
       \/ \E i \in DOMAIN items : IsFirst(i, k) /\ Returns("get", k, items[i].value)
    /\ UNCHANGED items

(* Is there an item x?                                                     *)
Find(x) ==
    /\ called'.call = "find"
    /\ Returns("find", x, IF \E i \in DOMAIN items : items[i] = x THEN x.value ELSE NULL)
    /\ UNCHANGED items

ItemsNext ==
    \/ \E x \in Item : AddToFront(x) \/ AddToBack(x) \/ Find(x)
    \/ \E k \in Keys : Remove(k) \/ Get(k)
    \/ \E n \in DOMAIN items : RemoveAt(n)
    \/ \E v \in Values : Drop(v)
    \/ RemoveFromFront \/ RemoveLast \/ Clear

ItemsSpec == ItemsInit /\ [][ItemsNext]_<<items, called>>
=============================================================================
