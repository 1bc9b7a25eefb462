----------------------------- MODULE LinkedList -----------------------------
(***************************************************************************)
(* LinkedList<T> (Utilities/LinkedList): nodes in a chain, with pointers   *)
(* to the first and to the last one and a size that is kept apart.         *)
(* GenericQueue and Stack only pass their calls on to it.                  *)
(*                                                                         *)
(* A list is a record of its data members and of the nodes that have been  *)
(* allocated for it and not deleted.  A method that removes something      *)
(* gives the list after the call and the content it returns.               *)
(***************************************************************************)
EXTENDS Pointers, Naturals, SequencesExt

EmptyList == [heap |-> <<>>, start |-> NULL, end |-> NULL, size |-> 0]

(* The address new gives: memory that has been deleted is used again.      *)
Fresh(l) == CHOOSE a \in 1 .. Cardinality(DOMAIN l.heap) + 1 : a \notin DOMAIN l.heap

NewNode(t, next) == [content |-> t, next |-> next]

(* The nodes once new has given node the address a.                        *)
With(heap, a, node) == [b \in DOMAIN heap \cup {a} |-> IF b = a THEN node ELSE heap[b]]

(* The nodes a loop from start up to end visits; it goes on to NULL if     *)
(* end is not on the way.                                                  *)
Path(l) ==
    LET next == [a \in DOMAIN l.heap \cup {NULL} |->
                   IF a = NULL THEN NULL ELSE l.heap[a].next]
        at[i \in 1 .. Cardinality(DOMAIN l.heap) + 1] ==
          IF i = 1 THEN l.start ELSE next[at[i - 1]]
        stops == {i \in DOMAIN at : at[i] = l.end} \cup {i - 1 : i \in {i \in DOMAIN at : at[i] = NULL}}
    IN  [i \in 1 .. Min(stops) |-> at[i]]

ContentsOf(l) ==
    LET path == Path(l) IN [i \in DOMAIN path |-> l.heap[path[i]].content]

-----------------------------------------------------------------------------

addToFront(l, t) ==
    IF l.start = NULL \/ l.end = NULL
    THEN [l EXCEPT !.heap = With(l.heap, Fresh(l), NewNode(t, NULL)),
                   !.start = Fresh(l), !.end = Fresh(l), !.size = @ + 1]
    ELSE [l EXCEPT !.heap = With(l.heap, Fresh(l), NewNode(t, l.start)),
                   !.start = Fresh(l), !.size = @ + 1]

(* Mutant: end stays where it was.                                         *)
addToBack_KeepsEnd(l, t) ==
    IF l.start = NULL /\ l.end = NULL
    THEN addToFront(l, t)
    ELSE [l EXCEPT !.heap = With([l.heap EXCEPT ![l.end].next = Fresh(l)], Fresh(l), NewNode(t, NULL)),
                   !.size = @ + 1]

addToBack(l, t) ==
    IF l.start = NULL /\ l.end = NULL
    THEN [l EXCEPT !.heap = With(l.heap, Fresh(l), NewNode(t, NULL)),
                   !.start = Fresh(l), !.end = Fresh(l), !.size = @ + 1]
    ELSE [l EXCEPT !.heap = With([l.heap EXCEPT ![l.end].next = Fresh(l)], Fresh(l), NewNode(t, NULL)),
                   !.end = Fresh(l), !.size = @ + 1]

Delete(heap, a) == Restrict(heap, DOMAIN heap \ {a})

removeFromFront(l) ==
    IF l.start = NULL \/ l.end = NULL THEN [list |-> l, ret |-> NULL]
    ELSE [ret |-> l.heap[l.start].content,
          list |-> [heap |-> Delete(l.heap, l.start), size |-> l.size - 1,
                    start |-> IF l.start = l.end THEN NULL ELSE l.heap[l.start].next,
                    end |-> IF l.start = l.end THEN NULL ELSE l.end]]

(* find: the places on the way that hold t; the loop returns the first.    *)
Holding(l, t) ==
    LET contents == ContentsOf(l) IN {i \in DOMAIN contents : contents[i] = t}

(* Mutant: end is not moved back when the last node goes.                  *)
removeNode_KeepsEnd(l, t) ==
    LET i == Min(Holding(l, t))
        before == Path(l)[i - 1]
        temp == Path(l)[i]
    IN  IF l.heap[l.start].content = t THEN removeFromFront(l)
        ELSE IF Holding(l, t) = {} THEN [list |-> l, ret |-> NULL]
        ELSE [ret |-> l.heap[temp].content,
              list |-> [heap |-> Delete([l.heap EXCEPT ![before].next = l.heap[temp].next], temp),
                        start |-> l.start, end |-> l.end, size |-> l.size - 1]]

(* removeNode, with findBefore: take the first node that holds t out of    *)
(* the chain.  The list must not be empty.                                 *)
removeNode(l, t) ==
    LET i == Min(Holding(l, t))
        before == Path(l)[i - 1]
        temp == Path(l)[i]
    IN  IF l.heap[l.start].content = t THEN removeFromFront(l)
        ELSE IF Holding(l, t) = {} THEN [list |-> l, ret |-> NULL]
        ELSE [ret |-> l.heap[temp].content,
              list |-> [heap |-> Delete([l.heap EXCEPT ![before].next = l.heap[temp].next], temp),
                        start |-> l.start, end |-> IF l.end = temp THEN before ELSE l.end,
                        size |-> l.size - 1]]

(* removeAll: remove from the front until nothing is returned.             *)
removeAll(l) == FoldLeft(LAMBDA k, i : removeFromFront(k).list, l, [i \in 1 .. l.size |-> i])
=============================================================================
