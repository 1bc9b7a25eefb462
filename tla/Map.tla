-------------------------------- MODULE Map --------------------------------
(***************************************************************************)
(* Map<A, B> (Utilities/NetworkConditionTable): an array of mappings in    *)
(* the order in which they were set.  It doubles when it is full, and is   *)
(* cut in half by a removal that finds it half full.  A key may have       *)
(* several mappings.                                                       *)
(*                                                                         *)
(* A map is a record of its data members.  A slot no mapping has been      *)
(* written to, or whose mapping has been deleted, holds NULL; in the       *)
(* program it holds anything.                                              *)
(***************************************************************************)
EXTENDS Pointers, Integers, Sequences

EmptyMap == [mappings |-> <<>>, length |-> 0, physicalLength |-> 0]

(* An array of n slots with the elements of list s, as far as they fit.    *)
Array(n, s) == [i \in 0 .. n - 1 |-> IF i < Len(s) THEN s[i + 1] ELSE NULL]

Stored(m) == [i \in 1 .. m.length |-> m.mappings[i - 1]]

(* The places that hold a mapping of key, and the first of a set.          *)
PlacesOf(m, key) == {i \in 0 .. m.length - 1 : m.mappings[i].key = key}
Least(places) == CHOOSE i \in places : \A j \in places : i <= j

-----------------------------------------------------------------------------

(* Mutant: the array is extended too late.                                 *)
setMapping_Late(m, key, value) ==
    LET pair == [key |-> key, value |-> value]
    IN  IF m.physicalLength = 0
        THEN [mappings |-> Array(4, <<pair>>), length |-> 1, physicalLength |-> 4]
        ELSE IF m.length > m.physicalLength
        THEN [mappings |-> Array(2 * m.physicalLength, Append(Stored(m), pair)),
              length |-> m.length + 1, physicalLength |-> 2 * m.physicalLength]
        ELSE [m EXCEPT !.mappings = [i \in DOMAIN @ |-> IF i = m.length THEN pair ELSE @[i]],
                       !.length = @ + 1]

setMapping(m, key, value) ==
    LET pair == [key |-> key, value |-> value]
    IN  IF m.physicalLength = 0
        THEN [mappings |-> Array(4, <<pair>>), length |-> 1, physicalLength |-> 4]
        ELSE IF m.length >= m.physicalLength
        THEN [mappings |-> Array(2 * m.physicalLength, Append(Stored(m), pair)),
              length |-> m.length + 1, physicalLength |-> 2 * m.physicalLength]
        ELSE [m EXCEPT !.mappings = [i \in DOMAIN @ |-> IF i = m.length THEN pair ELSE @[i]],
                       !.length = @ + 1]

(* The physical length once a mapping has been removed.                    *)
Shrunk(m) ==
    IF m.length = m.physicalLength \div 2 THEN m.physicalLength \div 2 ELSE m.physicalLength

(* Map m without the mapping in slot i, the ones behind it moved up.       *)
Without(m, i) ==
    [mappings |-> Array(Shrunk(m), [j \in 1 .. m.length - 1 |->
                                      m.mappings[IF j - 1 < i THEN j - 1 ELSE j]]),
     length |-> m.length - 1,
     physicalLength |-> Shrunk(m)]

(* removeMapping(key): the first mapping of the key.                       *)
removeMapping(m, key) ==
    IF PlacesOf(m, key) = {} THEN [map |-> m, ret |-> NULL]
    ELSE [map |-> Without(m, Least(PlacesOf(m, key))),
          ret |-> m.mappings[Least(PlacesOf(m, key))].value]

(* removeMapping(index): the first mapping with the key of that one.  It   *)
(* returns NULL in any case.                                               *)
removeMappingAt(m, index) ==
    IF index < m.length THEN removeMapping(m, m.mappings[index].key).map ELSE m

removeLastMapping(m) ==
    IF m.length = 0 THEN [map |-> m, ret |-> NULL]
    ELSE [map |-> Without(m, m.length - 1), ret |-> m.mappings[m.length - 1].value]

(* getValue(key): that of the first mapping of the key.                    *)
getValue(m, key) ==
    IF PlacesOf(m, key) = {} THEN NULL ELSE m.mappings[Least(PlacesOf(m, key))].value

(* getIndex(key, i): the first mapping of the key from slot i on.          *)
getIndex(m, key, i) ==
    LET places == {j \in PlacesOf(m, key) : j >= i}
    IN  IF places = {} THEN -1 ELSE Least(places)
=============================================================================
