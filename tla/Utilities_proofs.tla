-------------------------- MODULE Utilities_proofs --------------------------
(***************************************************************************)
(* Proofs about Map, LinkedList and NetworkConditionTable: the array       *)
(* always has room for what is stored, the nodes always form a chain, the  *)
(* methods of both do what a list of items promises, and the table that is *)
(* drawn with them is what the protocol relies on.                         *)
(***************************************************************************)
EXTENDS Containers, NetworkConditionTable, WellFoundedInduction, FiniteSetTheorems, TLAPS

Mapping == [key : Keys, value : Values]

(* A map that holds mappings of a set S.                                   *)
IsMapOf(m, S) ==
    /\ m = [mappings |-> m.mappings, length |-> m.length, physicalLength |-> m.physicalLength]
    /\ m.physicalLength \in Nat
    /\ m.length \in 0 .. m.physicalLength
    /\ DOMAIN m.mappings = 0 .. m.physicalLength - 1
    /\ \A i \in 0 .. m.length - 1 : m.mappings[i] \in S

IsMap(m) == IsMapOf(m, Mapping)

-----------------------------------------------------------------------------
(* Sequences given by a function                                           *)

(* A function on 1 .. n is a sequence of length n.                         *)
LEMMA LengthOf ==
    ASSUME NEW n \in Nat, NEW e, e = [j \in 1 .. n |-> e[j]]
    PROVE  /\ Len(e) = n
           /\ DOMAIN e = 1 .. n
<1>1. DOMAIN e = 1 .. n
  OBVIOUS
<1>2. e \in Seq({e[j] : j \in 1 .. n})
  OBVIOUS
<1> QED BY <1>1, <1>2

LEMMA IsSequence ==
    ASSUME NEW n \in Nat, NEW T, NEW e, e = [j \in 1 .. n |-> e[j]],
           \A j \in 1 .. n : e[j] \in T
    PROVE  e \in Seq(T)
  OBVIOUS

LEMMA AppendIs ==
    ASSUME NEW T, NEW s \in Seq(T), NEW x \in T
    PROVE  /\ Len(Append(s, x)) = Len(s) + 1
           /\ Append(s, x)[Len(s) + 1] = x
           /\ \A j \in 1 .. Len(s) : Append(s, x)[j] = s[j]
           /\ \A j \in 1 .. Len(s) + 1 : Append(s, x)[j] \in T
<1>1. Len(s) \in Nat /\ \A j \in 1 .. Len(s) : s[j] \in T
  OBVIOUS
<1>2. Append(s, x) \in Seq(T) /\ Len(Append(s, x)) = Len(s) + 1
  OBVIOUS
<1>3. Append(s, x)[Len(s) + 1] = x
  OBVIOUS
<1>4. \A j \in 1 .. Len(s) : Append(s, x)[j] = s[j]
  OBVIOUS
<1> QED BY <1>1, <1>2, <1>3, <1>4

LEMMA ArrayIs ==
    ASSUME NEW n \in Nat, NEW s, Len(s) \in Nat
    PROVE  /\ DOMAIN Array(n, s) = 0 .. n - 1
           /\ \A i \in 1 .. n : i <= Len(s) => Array(n, s)[i - 1] = s[i]
  BY DEF Array

(* What is stored, as a sequence of mappings.                              *)
LEMMA StoredOf ==
    ASSUME NEW S, NEW m, IsMapOf(m, S)
    PROVE  /\ m.length \in Nat /\ m.physicalLength \in Nat
           /\ Stored(m) = [j \in 1 .. m.length |-> Stored(m)[j]]
           /\ Len(Stored(m)) = m.length
           /\ DOMAIN Stored(m) = 1 .. m.length
           /\ Stored(m) \in Seq(S)
           /\ \A j \in 1 .. m.length : Stored(m)[j] = m.mappings[j - 1]
<1> DEFINE s == Stored(m)
<1>1. m.length \in Nat /\ m.physicalLength \in Nat
  BY DEF IsMapOf
<1>2. s = [j \in 1 .. m.length |-> s[j]] /\ \A j \in 1 .. m.length : s[j] = m.mappings[j - 1]
  BY DEF Stored
<1>3. \A j \in 1 .. m.length : s[j] \in S
  BY <1>1 DEF IsMapOf, Stored
<1>4. Len(s) = m.length /\ DOMAIN s = 1 .. m.length
  <2> HIDE DEF s
  <2> QED BY <1>1, <1>2, LengthOf
<1>5. s \in Seq(S)
  <2> HIDE DEF s
  <2> QED BY <1>1, <1>2, <1>3, IsSequence
<1> QED BY <1>1, <1>2, <1>4, <1>5

LEMMA StoredIs ==
    ASSUME NEW m, IsMap(m)
    PROVE  /\ m.length \in Nat /\ m.physicalLength \in Nat
           /\ Stored(m) = [j \in 1 .. m.length |-> Stored(m)[j]]
           /\ Len(Stored(m)) = m.length
           /\ DOMAIN Stored(m) = 1 .. m.length
           /\ Stored(m) \in Seq(Mapping)
           /\ \A j \in 1 .. m.length : Stored(m)[j] = m.mappings[j - 1]
  BY StoredOf DEF IsMap

(* The least of a set of numbers exists.                                   *)
LEMMA LeastIs ==
    ASSUME NEW S, S \subseteq Nat, S # {}
    PROVE  Least(S) \in S /\ \A j \in S : Least(S) <= j
<1> DEFINE R == OpToRel(<, Nat)
<1>1. PICK i \in S : \A j \in S : <<j, i>> \notin R
  BY NatLessThanWellFounded, WFMin
<1>2. \A j, k \in Nat : j < k => <<j, k>> \in R
  BY Zenon DEF OpToRel
<1>3. \A j \in S : i <= j
  <2> HIDE DEF R
  <2>1. \A j \in S : ~(j < i)
    BY <1>1, <1>2, Zenon
  <2> QED BY <2>1
<1> QED BY <1>3 DEF Least

LEMMA EmptyOf ==
    ASSUME NEW S
    PROVE  IsMapOf(EmptyMap, S) /\ Stored(EmptyMap) = <<>>
  BY DEF IsMapOf, EmptyMap, Stored

LEMMA EmptyIsMap == IsMap(EmptyMap) /\ Stored(EmptyMap) = <<>>
  BY EmptyOf DEF IsMap

-----------------------------------------------------------------------------
(* The methods                                                             *)

LEMMA SetKeepsOf ==
    ASSUME NEW S, NEW m, IsMapOf(m, S), NEW k, NEW v, [key |-> k, value |-> v] \in S
    PROVE  /\ IsMapOf(setMapping(m, k, v), S)
           /\ Stored(setMapping(m, k, v)) = Append(Stored(m), [key |-> k, value |-> v])
<1> DEFINE pair == [key |-> k, value |-> v]
           n == setMapping(m, k, v)
           s == Append(Stored(m), pair)
<1>1. pair \in S
  OBVIOUS
<1>2. /\ Len(s) = m.length + 1
      /\ s[m.length + 1] = pair
      /\ \A j \in 1 .. m.length : s[j] = m.mappings[j - 1]
      /\ \A j \in 1 .. m.length + 1 : s[j] \in S
  <2> HIDE DEF pair
  <2> QED BY <1>1, StoredOf, AppendIs
<1>4. s = [j \in 1 .. m.length + 1 |-> s[j]]
  <2> HIDE DEF pair
  <2>1. s \in Seq(S)
    BY <1>1, StoredOf
  <2> HIDE DEF s
  <2> QED BY <2>1, <1>2
<1>3. m.length \in Nat /\ m.physicalLength \in Nat /\ m.length <= m.physicalLength
  BY DEF IsMapOf
<1>5. CASE m.physicalLength = 0
  <2>1. n = [mappings |-> Array(4, <<pair>>), length |-> 1, physicalLength |-> 4]
    BY <1>5 DEF setMapping
  <2>2. Array(4, <<pair>>)[0] = pair /\ DOMAIN Array(4, <<pair>>) = 0 .. 3
    BY DEF Array
  <2>3. IsMapOf(n, S)
    BY <2>1, <2>2, <1>1 DEF IsMapOf
  <2>4. m.length = 0
    BY <1>3, <1>5
  <2>5. Stored(n) = [j \in 1 .. 1 |-> pair]
    BY <2>1, <2>2 DEF Stored
  <2>6. s = [j \in 1 .. 1 |-> pair]
    BY <2>4, <1>2, <1>4
  <2> QED BY <2>3, <2>5, <2>6
<1>6. CASE m.physicalLength # 0 /\ m.length >= m.physicalLength
  <2> DEFINE a == Array(2 * m.physicalLength, s)
  <2>1. n = [mappings |-> a, length |-> m.length + 1, physicalLength |-> 2 * m.physicalLength]
    BY <1>6, <1>3 DEF setMapping
  <2>2. /\ DOMAIN a = 0 .. 2 * m.physicalLength - 1
        /\ \A i \in 1 .. m.length + 1 : a[i - 1] = s[i]
    <3>1. 2 * m.physicalLength \in Nat /\ m.length + 1 <= 2 * m.physicalLength /\ Len(s) \in Nat
      BY <1>2, <1>3, <1>6
    <3> HIDE DEF s
    <3>2. DOMAIN a = 0 .. 2 * m.physicalLength - 1
      BY <3>1, ArrayIs
    <3>3. \A i \in 1 .. 2 * m.physicalLength : i <= Len(s) => a[i - 1] = s[i]
      BY <3>1, ArrayIs
    <3> QED BY <3>1, <3>2, <3>3, <1>2, <1>3
  <2>3. \A i \in 0 .. m.length : i + 1 \in 1 .. m.length + 1 /\ a[i] = s[i + 1] /\ a[i] \in S
    <3> HIDE DEF a, s
    <3> TAKE i \in 0 .. m.length
    <3>1. i + 1 \in 1 .. m.length + 1 /\ (i + 1) - 1 = i
      BY <1>3
    <3>2. a[(i + 1) - 1] = s[i + 1] /\ s[i + 1] \in S
      BY <3>1, <2>2, <1>2, Zenon
    <3> QED BY <3>1, <3>2
  <2>4. IsMapOf(n, S)
    <3> HIDE DEF a, s
    <3> QED BY <2>1, <2>2, <2>3, <1>3, <1>6 DEF IsMapOf
  <2>5. Stored(n) = [j \in 1 .. m.length + 1 |-> s[j]]
    <3> HIDE DEF a, s
    <3> QED BY <2>1, <2>2, <1>3 DEF Stored
  <2> QED BY <2>4, <2>5, <1>4
<1>7. CASE m.physicalLength # 0 /\ ~(m.length >= m.physicalLength)
  <2> DEFINE a == [i \in DOMAIN m.mappings |-> IF i = m.length THEN pair ELSE m.mappings[i]]
  <2>1. n = [mappings |-> a, length |-> m.length + 1, physicalLength |-> m.physicalLength]
    BY <1>7 DEF setMapping, IsMapOf
  <2>2. /\ DOMAIN a = 0 .. m.physicalLength - 1
        /\ a[m.length] = pair
        /\ \A i \in 0 .. m.length - 1 : a[i] = m.mappings[i] /\ a[i] \in S
    BY <1>3, <1>7 DEF IsMapOf
  <2>3. IsMapOf(n, S)
    <3> HIDE DEF a, pair
    <3> QED BY <2>1, <2>2, <1>1, <1>3, <1>7 DEF IsMapOf
  <2>4. \A j \in 1 .. m.length + 1 : a[j - 1] = s[j]
    <3> HIDE DEF a, s, pair
    <3> TAKE j \in 1 .. m.length + 1
    <3>1. CASE j = m.length + 1
      BY <3>1, <2>2, <1>2, <1>3
    <3>2. CASE j # m.length + 1
      <4>1. j \in 1 .. m.length /\ j - 1 \in 0 .. m.length - 1
        BY <3>2, <1>3
      <4> QED BY <4>1, <2>2, <1>2
    <3> QED BY <3>1, <3>2
  <2>5. Stored(n) = [j \in 1 .. m.length + 1 |-> s[j]]
    <3> HIDE DEF a, s, pair
    <3> QED BY <2>1, <2>4, <1>3 DEF Stored
  <2> QED BY <2>3, <2>5, <1>4
<1> QED BY <1>5, <1>6, <1>7

LEMMA SetKeeps ==
    ASSUME NEW m, IsMap(m), NEW k \in Keys, NEW v \in Values
    PROVE  /\ IsMap(setMapping(m, k, v))
           /\ Stored(setMapping(m, k, v)) = Append(Stored(m), [key |-> k, value |-> v])
<1>1. [key |-> k, value |-> v] \in Mapping
  BY DEF Mapping
<1> QED
  BY <1>1, SetKeepsOf DEF IsMap

(* Taking the mapping in slot i out of the map takes element i + 1 out of  *)
(* the list, and the array is cut in half only if the rest fits.           *)
LEMMA WithoutKeeps ==
    ASSUME NEW m, IsMap(m), NEW i \in 0 .. m.length - 1
    PROVE  /\ IsMap(Without(m, i))
           /\ Stored(Without(m, i)) =
                [j \in 1 .. Len(Stored(m)) - 1 |-> Stored(m)[IF j < i + 1 THEN j ELSE j + 1]]
<1> DEFINE e == [j \in 1 .. m.length - 1 |-> m.mappings[IF j - 1 < i THEN j - 1 ELSE j]]
           n == Without(m, i)
           a == Array(Shrunk(m), e)
<1>1. m.length \in Nat \ {0} /\ m.physicalLength \in Nat /\ m.length <= m.physicalLength
  BY DEF IsMap, IsMapOf
<1>2. Shrunk(m) \in Nat /\ m.length - 1 <= Shrunk(m)
  BY <1>1 DEF Shrunk
<1>3. Len(e) = m.length - 1
  <2>1. e = [j \in 1 .. m.length - 1 |-> e[j]]
    OBVIOUS
  <2> HIDE DEF e
  <2> QED BY <1>1, <2>1, LengthOf
<1>4. \A j \in 1 .. m.length - 1 : e[j] \in Mapping
  BY <1>1 DEF IsMap, IsMapOf
<1>5. n = [mappings |-> a, length |-> m.length - 1, physicalLength |-> Shrunk(m)]
  BY DEF Without
<1>6. /\ DOMAIN a = 0 .. Shrunk(m) - 1
      /\ \A j \in 1 .. m.length - 1 : a[j - 1] = e[j]
  <2> HIDE DEF e
  <2>1. DOMAIN a = 0 .. Shrunk(m) - 1
    BY <1>1, <1>2, <1>3, ArrayIs
  <2>2. \A j \in 1 .. Shrunk(m) : j <= Len(e) => a[j - 1] = e[j]
    BY <1>1, <1>2, <1>3, ArrayIs
  <2> QED BY <2>1, <2>2, <1>1, <1>2, <1>3
<1>7. IsMap(n)
  <2>1. \A j \in 0 .. m.length - 2 : a[j] \in Mapping
    <3> HIDE DEF a, e
    <3> TAKE j \in 0 .. m.length - 2
    <3>1. j + 1 \in 1 .. m.length - 1 /\ (j + 1) - 1 = j
      BY <1>1
    <3>2. a[(j + 1) - 1] = e[j + 1] /\ e[j + 1] \in Mapping
      BY <3>1, <1>4, <1>6, Zenon
    <3> QED BY <3>1, <3>2
  <2>2. (m.length - 1) - 1 = m.length - 2
    BY <1>1
  <2> HIDE DEF a, e
  <2> QED BY <1>1, <1>2, <1>5, <1>6, <2>1, <2>2 DEF IsMap, IsMapOf
<1>8. Stored(n) = [j \in 1 .. m.length - 1 |-> e[j]]
  <2> HIDE DEF a, e
  <2> QED BY <1>1, <1>5, <1>6 DEF Stored
<1>9. \A j \in 1 .. m.length - 1 : e[j] = Stored(m)[IF j < i + 1 THEN j ELSE j + 1]
  BY <1>1, StoredIs
<1> QED BY <1>7, <1>8, <1>9, StoredIs

-----------------------------------------------------------------------------
(* Soundness of the map                                                    *)

LEMMA PlacesAreSlots ==
    ASSUME NEW m, IsMap(m), NEW k, PlacesOf(m, k) # {}
    PROVE  /\ Least(PlacesOf(m, k)) \in 0 .. m.length - 1
           /\ Least(PlacesOf(m, k)) \in PlacesOf(m, k)
           /\ \A j \in PlacesOf(m, k) : Least(PlacesOf(m, k)) <= j
<1>1. PlacesOf(m, k) \subseteq 0 .. m.length - 1 /\ 0 .. m.length - 1 \subseteq Nat
  BY DEF PlacesOf, IsMap, IsMapOf
<1> QED BY <1>1, LeastIs

(* What is done to the map, whichever method it is.                        *)
LEMMA MethodsKeepMap ==
    ASSUME IsMap(map), MapMethod
    PROVE  IsMap(map')
<1>1. ASSUME NEW k \in Keys, RemoveMapping(k)
      PROVE  IsMap(map')
  BY <1>1, PlacesAreSlots, WithoutKeeps DEF RemoveMapping, removeMapping
<1>2. ASSUME NEW k \in Keys, GetValue(k)
      PROVE  IsMap(map')
  BY <1>2 DEF GetValue
<1>3. ASSUME NEW k \in Keys, NEW v \in Values, SetMapping(k, v)
      PROVE  IsMap(map')
  BY <1>3, SetKeeps DEF SetMapping
<1>4. ASSUME NEW i \in 0 .. map.length - 1, RemoveMappingAt(i)
      PROVE  IsMap(map')
  BY <1>4, PlacesAreSlots, WithoutKeeps DEF RemoveMappingAt, removeMappingAt, removeMapping
<1>5. CASE RemoveLastMapping
  <2>1. map.length \in Nat
    BY DEF IsMap, IsMapOf
  <2>2. map.length # 0 => map.length - 1 \in 0 .. map.length - 1
    BY <2>1
  <2> QED BY <1>5, <2>2, WithoutKeeps DEF RemoveLastMapping, removeLastMapping
<1>6. CASE RemoveAll
  BY <1>6, EmptyIsMap DEF RemoveAll
<1> QED BY <1>1, <1>2, <1>3, <1>4, <1>5, <1>6 DEF MapMethod

MapInv == IsMap(map)

LEMMA InvIsSound == MapInv => MapIsSound
  BY DEF IsMap, IsMapOf, MapInv, MapIsSound, Mapping

-----------------------------------------------------------------------------
(* The map implements a list of items                                      *)

(* The first place of a key in the array is that of its first item.        *)
LEMMA FirstPlace ==
    ASSUME IsMap(map), NEW k, PlacesOf(map, k) # {}
    PROVE  /\ Least(PlacesOf(map, k)) + 1 \in DOMAIN Stored(map)
           /\ MapItems!IsFirst(Least(PlacesOf(map, k)) + 1, k)
           /\ Stored(map)[Least(PlacesOf(map, k)) + 1] = map.mappings[Least(PlacesOf(map, k))]
<1> DEFINE p == Least(PlacesOf(map, k))
<1>1. /\ p \in 0 .. map.length - 1 /\ map.mappings[p].key = k
      /\ \A j \in PlacesOf(map, k) : p <= j
  BY PlacesAreSlots DEF PlacesOf
<1>2. map.length \in Nat
  BY StoredIs
<1>3. p + 1 \in 1 .. map.length /\ (p + 1) - 1 = p
  BY <1>1, <1>2
<1>4. Stored(map)[p + 1] = map.mappings[p]
  BY <1>3 DEF Stored
<1>5. ASSUME NEW j \in 1 .. (p + 1) - 1
      PROVE  Stored(map)[j].key # k
  <2>1. j \in 1 .. map.length /\ j - 1 \in 0 .. map.length - 1 /\ ~(p <= j - 1)
    BY <1>1, <1>2
  <2>2. j - 1 \notin PlacesOf(map, k)
    BY <2>1, <1>1
  <2>3. map.mappings[j - 1].key # k
    BY <2>1, <2>2 DEF PlacesOf
  <2> QED BY <2>1, <2>3 DEF Stored
<1>6. p + 1 \in DOMAIN Stored(map)
  BY <1>3, StoredIs
<1> QED BY <1>1, <1>4, <1>5, <1>6 DEF MapItems!IsFirst

LEMMA NoPlace ==
    ASSUME IsMap(map), NEW k, PlacesOf(map, k) = {}
    PROVE  ~MapItems!Has(k)
<1> SUFFICES ASSUME NEW j \in DOMAIN Stored(map), Stored(map)[j].key = k
             PROVE  FALSE
  BY DEF MapItems!Has
<1>1. map.length \in Nat /\ j \in 1 .. map.length
  BY StoredIs
<1>2. j - 1 \in 0 .. map.length - 1 /\ Stored(map)[j] = map.mappings[j - 1]
  BY <1>1 DEF Stored
<1> QED BY <1>2 DEF PlacesOf

(* Taking out the first mapping of a key takes out its first item.         *)
LEMMA WithoutFirst ==
    ASSUME IsMap(map), NEW k, PlacesOf(map, k) # {},
           map' = Without(map, Least(PlacesOf(map, k)))
    PROVE  \E i \in DOMAIN Stored(map) :
              /\ MapItems!IsFirst(i, k)
              /\ Stored(map)[i] = map.mappings[Least(PlacesOf(map, k))]
              /\ Stored(map') = MapItems!Except(i)
<1> DEFINE p == Least(PlacesOf(map, k))
<1>1. p \in 0 .. map.length - 1
  BY PlacesAreSlots
<1>2. Stored(map') = MapItems!Except(p + 1)
  BY <1>1, WithoutKeeps DEF MapItems!Except
<1> QED BY <1>2, FirstPlace

(* Every method has the effect and the result that a list of items has.    *)
LEMMA MethodsImplementItems ==
    ASSUME IsMap(map), MapMethod
    PROVE  MapItems!ItemsNext
<1>1. ASSUME NEW k \in Keys, RemoveMapping(k)
      PROVE  MapItems!Remove(k)
  <2>1. CASE PlacesOf(map, k) = {}
    <3>1. map' = map /\ mapCall' = Call("remove", k, NULL)
      BY <1>1, <2>1 DEF RemoveMapping, removeMapping
    <3> QED BY <3>1, <2>1, NoPlace DEF MapItems!Remove, MapItems!Returns, Call
  <2>2. CASE PlacesOf(map, k) # {}
    <3> DEFINE p == Least(PlacesOf(map, k))
    <3>1. map' = Without(map, p) /\ mapCall' = Call("remove", k, map.mappings[p].value)
      BY <1>1, <2>2 DEF RemoveMapping, removeMapping
    <3> QED BY <3>1, <2>2, WithoutFirst DEF MapItems!Remove, MapItems!Returns, Call
  <2> QED BY <2>1, <2>2
<1>2. ASSUME NEW k \in Keys, GetValue(k)
      PROVE  MapItems!Get(k)
  <2>1. CASE PlacesOf(map, k) = {}
    BY <1>2, <2>1, NoPlace
    DEF GetValue, getValue, MapItems!Get, MapItems!Returns, Call
  <2>2. CASE PlacesOf(map, k) # {}
    BY <1>2, <2>2, FirstPlace
    DEF GetValue, getValue, MapItems!Get, MapItems!Returns, Call
  <2> QED BY <2>1, <2>2
<1>3. ASSUME NEW k \in Keys, NEW v \in Values, SetMapping(k, v)
      PROVE  MapItems!AddToBack([key |-> k, value |-> v])
  BY <1>3, SetKeeps DEF SetMapping, MapItems!AddToBack, MapItems!Returns, Call
<1>4. ASSUME NEW i \in 0 .. map.length - 1, RemoveMappingAt(i)
      PROVE  MapItems!RemoveAt(i + 1) /\ i + 1 \in DOMAIN Stored(map)
  <2>1. map.length \in Nat /\ i < map.length /\ i + 1 \in 1 .. map.length
    BY StoredIs
  <2>2. Stored(map)[i + 1] = map.mappings[i]
    BY <2>1 DEF Stored
  <2> DEFINE k == map.mappings[i].key
  <2>3. PlacesOf(map, k) # {}
    BY <2>1 DEF PlacesOf
  <2>4. map' = Without(map, Least(PlacesOf(map, k)))
    BY <1>4, <2>1, <2>3 DEF RemoveMappingAt, removeMappingAt, removeMapping
  <2>5. \E j \in DOMAIN Stored(map) :
           MapItems!IsFirst(j, Stored(map)[i + 1].key) /\ Stored(map') = MapItems!Except(j)
    BY <2>2, <2>3, <2>4, WithoutFirst
  <2>6. MapItems!Returns("removeAt", i + 1, NULL)
    BY <1>4 DEF RemoveMappingAt, MapItems!Returns, Call
  <2> QED BY <2>1, <2>5, <2>6, StoredIs DEF MapItems!RemoveAt
<1>5. ASSUME RemoveLastMapping
      PROVE  MapItems!RemoveLast
  <2>1. map.length \in Nat /\ Len(Stored(map)) = map.length
    BY StoredIs
  <2>2. CASE map.length = 0
    <3>1. Stored(map) = <<>>
      BY <2>2 DEF Stored
    <3> QED BY <1>5, <2>2, <3>1
        DEF RemoveLastMapping, removeLastMapping, MapItems!RemoveLast, MapItems!Returns, Call
  <2>3. CASE map.length # 0
    <3>1. map.length - 1 \in 0 .. map.length - 1 /\ (map.length - 1) + 1 = map.length
      BY <2>1, <2>3
    <3>2. Stored(map') = MapItems!Except(Len(Stored(map)))
      <4>1. map' = Without(map, map.length - 1)
        BY <1>5, <2>3 DEF RemoveLastMapping, removeLastMapping
      <4>2. Stored(map') = MapItems!Except((map.length - 1) + 1)
        BY <3>1, <4>1, WithoutKeeps DEF MapItems!Except
      <4> QED BY <2>1, <3>1, <4>2
    <3>3. Stored(map) # <<>> /\ Stored(map)[map.length] = map.mappings[map.length - 1]
      BY <2>1, <2>3, StoredIs
    <3>4. mapCall' = Call("removeLast", NULL, map.mappings[map.length - 1].value)
      BY <1>5, <2>3 DEF RemoveLastMapping, removeLastMapping
    <3> QED BY <2>1, <3>2, <3>3, <3>4 DEF MapItems!RemoveLast, MapItems!Returns, Call
  <2> QED BY <2>2, <2>3
<1>6. ASSUME RemoveAll
      PROVE  MapItems!Clear
  BY <1>6, EmptyIsMap DEF RemoveAll, MapItems!Clear, MapItems!Returns, Call
<1>7. \A k \in Keys, v \in Values : [key |-> k, value |-> v] \in MapItems!Item
  BY DEF MapItems!Item
<1> QED BY <1>1, <1>2, <1>3, <1>4, <1>5, <1>6, <1>7 DEF MapMethod, MapItems!ItemsNext

-----------------------------------------------------------------------------
(* The nodes of a list                                                     *)

FirstGone(l, i) == removeFromFront(l).list

Emptying == INSTANCE Folding WITH Op <- FirstGone

(* p is the way through the nodes of list l: it starts at start, follows   *)
(* next, ends at end, and comes to every node once.                        *)
IsChain(l, p) ==
    /\ l = [heap |-> l.heap, start |-> l.start, end |-> l.end, size |-> l.size]
    /\ l.size \in Nat
    /\ IsFiniteSet(DOMAIN l.heap) /\ Cardinality(DOMAIN l.heap) = l.size
    /\ DOMAIN l.heap \subseteq Nat
    /\ \A a \in DOMAIN l.heap : l.heap[a] = NewNode(l.heap[a].content, l.heap[a].next)
    /\ p = [i \in 1 .. l.size |-> p[i]]
    /\ \A i \in 1 .. l.size : p[i] \in DOMAIN l.heap
    /\ \A i, j \in 1 .. l.size : p[i] = p[j] => i = j
    /\ \A a \in DOMAIN l.heap : \E i \in 1 .. l.size : p[i] = a
    /\ l.size = 0 => l.start = NULL /\ l.end = NULL
    /\ l.size # 0 => l.start = p[1] /\ l.end = p[l.size]
    /\ \A i \in 1 .. l.size : l.heap[p[i]].content \in Values
    /\ \A i \in 1 .. l.size - 1 : l.heap[p[i]].next = p[i + 1]
    /\ l.size # 0 => l.heap[p[l.size]].next = NULL

IsList(l) == \E p : IsChain(l, p)

Steps(l, f) ==
    f = [i \in 1 .. Cardinality(DOMAIN l.heap) + 1 |->
           IF i = 1 THEN l.start
           ELSE [a \in DOMAIN l.heap \cup {NULL} |->
                   IF a = NULL THEN NULL ELSE l.heap[a].next][f[i - 1]]]

Ends(l, f) ==
    {i \in DOMAIN f : f[i] = l.end} \cup {i - 1 : i \in {i \in DOMAIN f : f[i] = NULL}}

LEMMA PathFollows ==
    ASSUME NEW l
    PROVE  Path(l) = [i \in 1 .. Min(Ends(l, CHOOSE f : Steps(l, f))) |-> (CHOOSE f : Steps(l, f))[i]]
BY Zenon DEF Path, Steps, Ends

LEMMA PathIs ==
    ASSUME NEW l, NEW p, IsChain(l, p)
    PROVE  Path(l) = p
<1> DEFINE n == l.size
           g == [i \in 1 .. n + 1 |-> IF i <= n THEN p[i] ELSE NULL]
           next == [a \in DOMAIN l.heap \cup {NULL} |-> IF a = NULL THEN NULL ELSE l.heap[a].next]
<1>1. n \in Nat /\ Cardinality(DOMAIN l.heap) = n
  BY DEF IsChain
<1>2. \A i \in 1 .. n : p[i] \in DOMAIN l.heap /\ p[i] # NULL
  BY ContainersAssumption DEF IsChain
<1>3. \A i \in 1 .. n : next[p[i]] = IF i = n THEN NULL ELSE p[i + 1]
  <2> SUFFICES ASSUME NEW i \in 1 .. n
               PROVE  next[p[i]] = IF i = n THEN NULL ELSE p[i + 1]
    OBVIOUS
  <2>1. next[p[i]] = l.heap[p[i]].next
    BY <1>2
  <2>2. CASE i = n
    BY <2>1, <2>2, <1>1 DEF IsChain
  <2>3. CASE i # n
    <3>1. i \in 1 .. n - 1
      BY <2>3, <1>1
    <3> QED
      BY <2>1, <2>3, <3>1 DEF IsChain
  <2> QED
    BY <2>2, <2>3
<1>4. l.start = g[1]
  BY <1>1 DEF IsChain
<1>5. \A i \in 2 .. n + 1 : g[i] = next[g[i - 1]]
  <2> SUFFICES ASSUME NEW i \in 2 .. n + 1
               PROVE  g[i] = next[g[i - 1]]
    OBVIOUS
  <2>1. i - 1 \in 1 .. n /\ (i - 1) + 1 = i /\ i \in 1 .. n + 1 /\ i - 1 \in 1 .. n + 1
    BY <1>1
  <2>2. g[i - 1] = p[i - 1]
    BY <2>1
  <2> HIDE DEF next
  <2>3. next[p[i - 1]] = IF i - 1 = n THEN NULL ELSE p[i]
    BY <1>3, <2>1
  <2>4. g[i] = IF i - 1 = n THEN NULL ELSE p[i]
    BY <2>1, <1>1
  <2> QED
    BY <2>2, <2>3, <2>4
<1>6. \E f : Steps(l, f)
  <2>1. g = [i \in 1 .. n + 1 |-> IF i = 1 THEN l.start ELSE next[g[i - 1]]]
    <3> DEFINE h == [i \in 1 .. n + 1 |-> IF i = 1 THEN l.start ELSE next[g[i - 1]]]
    <3>1. ASSUME NEW i \in 1 .. n + 1
          PROVE  g[i] = h[i]
      <4>1. CASE i = 1
        BY <4>1, <1>4
      <4>2. CASE i # 1
        <5>1. i \in 2 .. n + 1
          BY <4>2, <1>1
        <5> HIDE DEF g, next
        <5> QED
          BY <5>1, <1>5, <4>2
      <4> QED
        BY <4>1, <4>2
    <3>2. DOMAIN g = 1 .. n + 1 /\ DOMAIN h = 1 .. n + 1
      OBVIOUS
    <3> QED
      BY <3>1, <3>2
  <2> HIDE DEF g
  <2>2. Steps(l, g)
    BY <2>1, <1>1 DEF Steps
  <2> QED
    BY <2>2
<1>6a. PICK f : f = CHOOSE h : Steps(l, h)
  OBVIOUS
<1>7. f = (CHOOSE h : Steps(l, h)) /\ Path(l) = [i \in 1 .. Min(Ends(l, f)) |-> f[i]]
  BY PathFollows, <1>6a
<1>8. Steps(l, f)
  BY <1>6, <1>7
<1> HIDE DEF n
<1>9. f = [i \in 1 .. n + 1 |-> IF i = 1 THEN l.start ELSE next[f[i - 1]]]
  BY <1>1, <1>8 DEF Steps
<1> HIDE DEF g, next
<1>10. \A i \in 1 .. n + 1 : f[i] = g[i]
  <2> DEFINE T == {k \in Nat : k + 1 <= n + 1 => f[k + 1] = g[k + 1]}
  <2>1. 0 \in T
    BY <1>1, <1>4, <1>9
  <2>2. ASSUME NEW k \in Nat, k \in T
        PROVE  k + 1 \in T
    <3> SUFFICES ASSUME (k + 1) + 1 <= n + 1
                 PROVE  f[(k + 1) + 1] = g[(k + 1) + 1]
      OBVIOUS
    <3>1. k + 1 <= n + 1 /\ (k + 1) + 1 \in 2 .. n + 1 /\ (k + 1) + 1 \in 1 .. n + 1
          /\ ((k + 1) + 1) - 1 = k + 1 /\ (k + 1) + 1 # 1
      BY <1>1
    <3>2. f[k + 1] = g[k + 1]
      BY <2>2, <3>1
    <3>3. f[(k + 1) + 1] = next[f[k + 1]]
      BY <1>9, <3>1
    <3>4. g[(k + 1) + 1] = next[g[k + 1]]
      BY <1>5, <3>1
    <3> QED
      BY <3>2, <3>3, <3>4
  <2> HIDE DEF T
  <2>3. Nat \subseteq T
    BY <2>1, <2>2, Emptying!NumberInduction
  <2> SUFFICES ASSUME NEW i \in 1 .. n + 1
               PROVE  f[i] = g[i]
    OBVIOUS
  <2>4. i - 1 \in Nat /\ (i - 1) + 1 = i /\ i <= n + 1
    BY <1>1
  <2>5. i - 1 \in T
    BY <2>3, <2>4
  <2> QED
    BY <2>4, <2>5 DEF T
<1>11. \A i \in 1 .. n : g[i] = p[i]
  BY <1>1 DEF g
<1>12. g[n + 1] = NULL
  BY <1>1 DEF g
<1>13. DOMAIN f = 1 .. n + 1
  BY <1>9
<1>14. Min(Ends(l, f)) = n
  <2>1. n \in Ends(l, f)
    <3>1. n + 1 \in {i \in DOMAIN f : f[i] = NULL} /\ (n + 1) - 1 = n
      BY <1>1, <1>10, <1>12, <1>13
    <3> QED
      BY <3>1 DEF Ends
  <2>2. ASSUME NEW e \in Ends(l, f)
        PROVE  e \in Int /\ n <= e
    <3>1. CASE e \in DOMAIN f /\ f[e] = l.end
      <4>1. CASE n = 0
        BY <4>1, <3>1, <1>13
      <4>2. CASE n # 0 /\ e <= n
        <5>1. e \in 1 .. n /\ n \in 1 .. n /\ f[e] = p[e] /\ l.end = p[n]
          BY <1>1, <4>2, <3>1, <1>10, <1>11, <1>13 DEF IsChain, n
        <5>2. e = n
          BY <3>1, <5>1 DEF IsChain, n
        <5> QED
          BY <5>2, <1>1
      <4>3. CASE ~(e <= n)
        BY <3>1, <4>3, <1>1, <1>13
      <4> QED
        BY <4>1, <4>2, <4>3
    <3>2. CASE \E i \in DOMAIN f : f[i] = NULL /\ e = i - 1
      <4>1. PICK i \in DOMAIN f : f[i] = NULL /\ e = i - 1
        BY <3>2
      <4>2. i \in 1 .. n => f[i] # NULL
        BY <1>1, <1>2, <1>10, <1>11
      <4>3. i = n + 1
        BY <4>1, <4>2, <1>1, <1>13
      <4> QED
        BY <4>1, <4>3, <1>1
    <3> QED
      BY <3>1, <3>2 DEF Ends
  <2>3. n \in Int
    BY <1>1
  <2>4. \E x \in Ends(l, f) : \A y \in Ends(l, f) : x <= y
    BY <2>1, <2>2
  <2>5. Min(Ends(l, f)) \in Ends(l, f) /\ \A y \in Ends(l, f) : Min(Ends(l, f)) <= y
    BY <2>4 DEF Min
  <2>6. Min(Ends(l, f)) <= n /\ n <= Min(Ends(l, f)) /\ Min(Ends(l, f)) \in Int
    BY <2>1, <2>2, <2>5
  <2> QED
    BY <2>3, <2>6
<1>15. Path(l) = [i \in 1 .. n |-> f[i]]
  BY <1>7, <1>14
<1>16. \A i \in 1 .. n : f[i] = p[i]
  BY <1>1, <1>10, <1>11
<1>17. p = [i \in 1 .. n |-> p[i]]
  BY DEF IsChain, n
<1> QED
  BY <1>15, <1>16, <1>17

LEMMA ContentsAre ==
    ASSUME NEW l, NEW p, IsChain(l, p)
    PROVE  /\ ContentsOf(l) = [i \in 1 .. l.size |-> l.heap[p[i]].content]
           /\ \A i \in 1 .. l.size : ContentsOf(l)[i] \in Values
           /\ l.size \in Nat
<1>1. Path(l) = p /\ DOMAIN p = 1 .. l.size
  BY PathIs DEF IsChain
<1>2. ContentsOf(l) = [i \in 1 .. l.size |-> l.heap[p[i]].content]
  BY <1>1 DEF ContentsOf
<1> QED
  BY <1>2 DEF IsChain

(* The address new gives is none of those in use.                          *)
LEMMA FreshIs ==
    ASSUME NEW l, NEW p, IsChain(l, p)
    PROVE  Fresh(l) \in Nat /\ Fresh(l) \notin DOMAIN l.heap
<1> DEFINE n == l.size
<1>1. n \in Nat /\ IsFiniteSet(DOMAIN l.heap) /\ Cardinality(DOMAIN l.heap) = n
  BY DEF IsChain
<1>2. Cardinality(1 .. n + 1) = n + 1
  <2>1. ~(1 > n + 1) /\ (n + 1) - 1 + 1 = n + 1 /\ n + 1 \in Int /\ 1 \in Int
    BY <1>1
  <2> HIDE DEF n
  <2> QED
    BY <2>1, FS_Interval
<1>3. ~(1 .. n + 1 \subseteq DOMAIN l.heap)
  <2> SUFFICES ASSUME 1 .. n + 1 \in SUBSET DOMAIN l.heap
               PROVE  FALSE
    OBVIOUS
  <2>1. Cardinality(1 .. n + 1) <= Cardinality(DOMAIN l.heap)
    BY <1>1, FS_Subset
  <2> QED
    BY <1>1, <1>2, <2>1
<1>4. \E a \in 1 .. n + 1 : a \notin DOMAIN l.heap
  BY <1>3
<1>5. Fresh(l) \in 1 .. n + 1 /\ Fresh(l) \notin DOMAIN l.heap
  BY <1>1, <1>4 DEF Fresh
<1> QED
  BY <1>1, <1>5

(* Chain p with address a in front of it, and behind it.                   *)
InFront(p, n, a) == [i \in 1 .. n + 1 |-> IF i = 1 THEN a ELSE p[i - 1]]
Behind(p, n, a) == [i \in 1 .. n + 1 |-> IF i <= n THEN p[i] ELSE a]

(* An added node is one node more.                                         *)
LEMMA OneMore ==
    ASSUME NEW l, NEW p, IsChain(l, p), NEW heap, DOMAIN heap = DOMAIN l.heap \cup {Fresh(l)}
    PROVE  /\ IsFiniteSet(DOMAIN heap) /\ Cardinality(DOMAIN heap) = l.size + 1
           /\ DOMAIN heap \subseteq Nat
<1>1. Fresh(l) \in Nat /\ Fresh(l) \notin DOMAIN l.heap
  BY FreshIs
<1>2. IsFiniteSet(DOMAIN l.heap) /\ Cardinality(DOMAIN l.heap) = l.size /\ DOMAIN l.heap \subseteq Nat
  BY DEF IsChain
<1> QED
  BY <1>1, <1>2, FS_AddElement

LEMMA FrontKeeps ==
    ASSUME NEW l, NEW p, IsChain(l, p), NEW t \in Values
    PROVE  LET n == addToFront(l, t)
               q == InFront(p, l.size, Fresh(l))
           IN  /\ IsChain(n, q) /\ n.size = l.size + 1
               /\ n.heap[q[1]].content = t
               /\ \A i \in 1 .. l.size : n.heap[q[i + 1]].content = l.heap[p[i]].content
<1> DEFINE a == Fresh(l)
           node == NewNode(t, IF l.size = 0 THEN NULL ELSE l.start)
           heap == With(l.heap, a, node)
           n == addToFront(l, t)
           q == InFront(p, l.size, a)
<1>1. a \in Nat /\ a \notin DOMAIN l.heap /\ l.size \in Nat
  <2>1. l.size \in Nat
    BY DEF IsChain
  <2> QED
    BY <2>1, FreshIs
<1>2. l.start = NULL \/ l.end = NULL <=> l.size = 0
  <2>1. ASSUME l.size # 0
        PROVE  l.start # NULL /\ l.end # NULL
    <3>1. 1 \in 1 .. l.size /\ l.size \in 1 .. l.size
      BY <1>1, <2>1
    <3>2. p[1] \in Nat /\ p[l.size] \in Nat
      BY <3>1 DEF IsChain
    <3> QED
      BY <2>1, <3>2, ContainersAssumption DEF IsChain
  <2> QED
    BY <2>1 DEF IsChain
<1>3. n = [heap |-> heap, start |-> a, end |-> IF l.size = 0 THEN a ELSE l.end, size |-> l.size + 1]
  <2>1. l = [heap |-> l.heap, start |-> l.start, end |-> l.end, size |-> l.size]
    BY DEF IsChain
  <2> HIDE DEF a
  <2> QED
    BY <1>2, <2>1 DEF addToFront, a
<1>4. /\ DOMAIN heap = DOMAIN l.heap \cup {a}
      /\ heap[a] = node
      /\ \A b \in DOMAIN l.heap : heap[b] = l.heap[b]
  <2> HIDE DEF a, node
  <2> QED
    BY <1>1 DEF With
<1>5. IsFiniteSet(DOMAIN heap) /\ Cardinality(DOMAIN heap) = l.size + 1 /\ DOMAIN heap \subseteq Nat
  <2> HIDE DEF heap
  <2> QED
    BY <1>4, OneMore
<1>6. /\ q = [i \in 1 .. l.size + 1 |-> q[i]]
      /\ q[1] = a
      /\ \A i \in 1 .. l.size : q[i + 1] = p[i]
  BY <1>1 DEF InFront
<1>7. \A i \in 1 .. l.size + 1 : i = 1 \/ (i - 1 \in 1 .. l.size /\ i = (i - 1) + 1)
  BY <1>1
<1>8. \A i \in 1 .. l.size : p[i] \in DOMAIN l.heap /\ p[i] # a
  BY <1>1 DEF IsChain
<1>9. /\ n.heap = heap /\ n.start = a /\ n.size = l.size + 1
      /\ n.end = IF l.size = 0 THEN a ELSE l.end
      /\ n = [heap |-> n.heap, start |-> n.start, end |-> n.end, size |-> n.size]
  BY <1>3
<1>10. l.size # 0 => l.start = p[1] /\ l.end = p[l.size]
  BY DEF IsChain
<1>11. node.content = t /\ node.next = IF l.size = 0 THEN NULL ELSE l.start
  BY DEF NewNode
<1>11a. node = NewNode(node.content, node.next)
  BY DEF NewNode
<1> HIDE DEF n, q, a, node, heap
<1>12. \A i \in 1 .. n.size : q[i] \in DOMAIN n.heap
  <2> SUFFICES ASSUME NEW i \in 1 .. l.size + 1
               PROVE  q[i] \in DOMAIN heap
    BY <1>9
  <2>1. CASE i = 1
    BY <2>1, <1>4, <1>6
  <2>2. CASE i # 1
    <3>1. i - 1 \in 1 .. l.size /\ q[i] = p[i - 1]
      BY <2>2, <1>6, <1>7
    <3> QED
      BY <3>1, <1>4, <1>8
  <2> QED
    BY <2>1, <2>2
<1>13. \A i, j \in 1 .. n.size : q[i] = q[j] => i = j
  <2> SUFFICES ASSUME NEW i \in 1 .. l.size + 1, NEW j \in 1 .. l.size + 1, q[i] = q[j]
               PROVE  i = j
    BY <1>9
  <2>1. CASE i = 1 /\ j # 1
    BY <2>1, <1>6, <1>7, <1>8
  <2>2. CASE i # 1 /\ j = 1
    BY <2>2, <1>6, <1>7, <1>8
  <2>3. CASE i # 1 /\ j # 1
    <3>1. p[i - 1] = p[j - 1] /\ i - 1 \in 1 .. l.size /\ j - 1 \in 1 .. l.size
      BY <2>3, <1>6, <1>7
    <3>2. i - 1 = j - 1
      BY <3>1 DEF IsChain
    <3> QED
      BY <3>2
  <2> QED
    BY <2>1, <2>2, <2>3
<1>14. \A b \in DOMAIN n.heap : \E i \in 1 .. n.size : q[i] = b
  <2> SUFFICES ASSUME NEW b \in DOMAIN n.heap
               PROVE  \E i \in 1 .. l.size + 1 : q[i] = b
    BY <1>9
  <2>1. CASE b = a
    <3>1. 1 \in 1 .. l.size + 1
      BY <1>1
    <3> QED
      BY <2>1, <3>1, <1>6
  <2>2. CASE b # a
    <3>1. PICK i \in 1 .. l.size : p[i] = b
      BY <2>2, <1>4, <1>9 DEF IsChain
    <3>2. i + 1 \in 1 .. l.size + 1
      BY <1>1
    <3> QED
      BY <3>1, <3>2, <1>6
  <2> QED
    BY <2>1, <2>2
<1>15. n.size # 0 /\ n.start = q[1] /\ n.end = q[n.size]
  <2>1. l.size # 0 => l.size \in 1 .. l.size /\ q[l.size + 1] = p[l.size]
    BY <1>1, <1>6
  <2>2. l.size = 0 => l.size + 1 = 1
    OBVIOUS
  <2> QED
    BY <1>1, <1>6, <1>9, <1>10, <2>1, <2>2
<1>16. \A i \in 1 .. l.size : n.heap[q[i + 1]] = l.heap[p[i]]
  BY <1>4, <1>6, <1>8, <1>9
<1>17. n.heap[q[1]] = node
  BY <1>4, <1>6, <1>9
<1>18. \A i \in 1 .. n.size : n.heap[q[i]].content \in Values
  <2>1. \A i \in 1 .. l.size : l.heap[p[i]].content \in Values
    BY DEF IsChain
  <2> QED
    BY <2>1, <1>7, <1>9, <1>11, <1>16, <1>17
<1>19. \A i \in 1 .. n.size - 1 : n.heap[q[i]].next = q[i + 1]
  <2> SUFFICES ASSUME NEW i \in 1 .. l.size
               PROVE  n.heap[q[i]].next = q[i + 1]
    <3>1. n.size - 1 = l.size
      BY <1>1, <1>9
    <3> QED
      BY <3>1
  <2>1. CASE i = 1
    <3>1. l.size # 0 /\ 1 \in 1 .. l.size
      BY <1>1
    <3>2. q[1 + 1] = p[1]
      BY <3>1, <1>6
    <3> QED
      BY <2>1, <3>1, <3>2, <1>10, <1>11, <1>17
  <2>2. CASE i # 1
    <3>1. i - 1 \in 1 .. l.size /\ i - 1 \in 1 .. l.size - 1 /\ (i - 1) + 1 = i
      BY <2>2, <1>1
    <3>2. n.heap[q[i]] = l.heap[p[i - 1]]
      BY <3>1, <1>16
    <3>3. l.heap[p[i - 1]].next = p[i]
      BY <3>1 DEF IsChain
    <3> QED
      BY <3>2, <3>3, <1>6
  <2> QED
    BY <2>1, <2>2
<1>20. n.heap[q[n.size]].next = NULL
  <2>1. CASE l.size = 0
    BY <2>1, <1>9, <1>11, <1>17
  <2>2. CASE l.size # 0
    <3>1. l.size \in 1 .. l.size
      BY <2>2, <1>1
    <3>2. n.heap[q[l.size + 1]] = l.heap[p[l.size]]
      BY <3>1, <1>16
    <3> QED
      BY <2>2, <3>2, <1>9 DEF IsChain
  <2> QED
    BY <2>1, <2>2
<1>21. n.size \in Nat
  BY <1>1, <1>9
<1>22. IsFiniteSet(DOMAIN n.heap) /\ Cardinality(DOMAIN n.heap) = n.size /\ DOMAIN n.heap \subseteq Nat
  BY <1>5, <1>9
<1>22a. \A b \in DOMAIN n.heap : n.heap[b] = NewNode(n.heap[b].content, n.heap[b].next)
  <2> SUFFICES ASSUME NEW b \in DOMAIN n.heap
               PROVE  n.heap[b] = NewNode(n.heap[b].content, n.heap[b].next)
    OBVIOUS
  <2>1. CASE b = a
    BY <2>1, <1>4, <1>9, <1>11a
  <2>2. CASE b # a
    <3>1. b \in DOMAIN l.heap /\ n.heap[b] = l.heap[b]
      BY <2>2, <1>4, <1>9
    <3> QED
      BY <3>1 DEF IsChain
  <2> QED
    BY <2>1, <2>2
<1>23. IsChain(n, q)
  BY <1>22a, <1>6, <1>9, <1>12, <1>13, <1>14, <1>15, <1>18, <1>19, <1>20, <1>21, <1>22 DEF IsChain
<1>24. /\ n.heap[q[1]].content = t
       /\ \A i \in 1 .. l.size : n.heap[q[i + 1]].content = l.heap[p[i]].content
  BY <1>11, <1>16, <1>17
<1> QED
  BY <1>9, <1>23, <1>24 DEF n, q, a

LEMMA BackKeeps ==
    ASSUME NEW l, NEW p, IsChain(l, p), NEW t \in Values
    PROVE  LET n == addToBack(l, t)
               q == Behind(p, l.size, Fresh(l))
           IN  /\ IsChain(n, q) /\ n.size = l.size + 1
               /\ n.heap[q[n.size]].content = t
               /\ \A i \in 1 .. l.size : n.heap[q[i]].content = l.heap[p[i]].content
<1> DEFINE a == Fresh(l)
           node == NewNode(t, NULL)
           heap == With([l.heap EXCEPT ![l.end].next = a], a, node)
           n == addToBack(l, t)
           q == Behind(p, l.size, a)
<1>1. a \in Nat /\ a \notin DOMAIN l.heap /\ l.size \in Nat
  <2>1. l.size \in Nat
    BY DEF IsChain
  <2> QED
    BY <2>1, FreshIs
<1>2. CASE l.size = 0
  <2>1. l.start = NULL /\ l.end = NULL
    BY <1>2 DEF IsChain
  <2>2. n = addToFront(l, t)
    BY <2>1 DEF addToBack, addToFront
  <2>3. q = InFront(p, l.size, a) /\ l.size + 1 = 1
    BY <1>2 DEF Behind, InFront
  <2> HIDE DEF n, q, a
  <2>4. IsChain(n, q) /\ n.size = l.size + 1 /\ n.heap[q[1]].content = t
    BY <2>2, <2>3, FrontKeeps DEF a
  <2>5. \A i \in 1 .. l.size : FALSE
    BY <1>2
  <2> QED
    BY <2>3, <2>4, <2>5 DEF n, q, a
<1>3. CASE l.size # 0
  <2>1. l.size \in 1 .. l.size
    BY <1>1, <1>3
  <2>2. l.end = p[l.size] /\ l.end \in DOMAIN l.heap /\ l.end # NULL /\ l.end # a /\ l.start = p[1]
    BY <1>1, <1>3, <2>1, ContainersAssumption DEF IsChain
  <2>3. n = [heap |-> heap, start |-> l.start, end |-> a, size |-> l.size + 1]
    <3>1. l = [heap |-> l.heap, start |-> l.start, end |-> l.end, size |-> l.size]
      BY DEF IsChain
    <3> HIDE DEF a
    <3> QED
      BY <2>2, <3>1 DEF addToBack, a
  <2>4. /\ n.heap = heap /\ n.start = p[1] /\ n.size = l.size + 1 /\ n.end = a
        /\ n = [heap |-> n.heap, start |-> n.start, end |-> n.end, size |-> n.size]
    BY <2>2, <2>3
  <2>5. l.heap[l.end] = NewNode(l.heap[l.end].content, l.heap[l.end].next)
    BY <2>2 DEF IsChain
  <2>6. /\ DOMAIN heap = DOMAIN l.heap \cup {a}
        /\ heap[a] = node
        /\ heap[l.end] = NewNode(l.heap[l.end].content, a)
        /\ \A b \in DOMAIN l.heap : b # l.end => heap[b] = l.heap[b]
    <3> HIDE DEF a, node
    <3> QED
      BY <1>1, <2>2, <2>5 DEF With, NewNode
  <2>7. IsFiniteSet(DOMAIN heap) /\ Cardinality(DOMAIN heap) = l.size + 1 /\ DOMAIN heap \subseteq Nat
    <3> HIDE DEF heap
    <3> QED
      BY <2>6, OneMore
  <2>8. /\ q = [i \in 1 .. l.size + 1 |-> q[i]]
        /\ q[l.size + 1] = a
        /\ \A i \in 1 .. l.size : q[i] = p[i]
    BY <1>1 DEF Behind
  <2>9. \A i \in 1 .. l.size + 1 : i \in 1 .. l.size \/ i = l.size + 1
    BY <1>1
  <2>10. \A i \in 1 .. l.size : p[i] \in DOMAIN l.heap /\ p[i] # a
    BY <1>1 DEF IsChain
  <2>11. node.content = t /\ node.next = NULL /\ node = NewNode(node.content, node.next)
    BY DEF NewNode
  <2> HIDE DEF n, q, a, node, heap
  <2>12. \A i \in 1 .. n.size : q[i] \in DOMAIN n.heap
    BY <2>4, <2>6, <2>8, <2>9, <2>10
  <2>13. \A i, j \in 1 .. n.size : q[i] = q[j] => i = j
    <3> SUFFICES ASSUME NEW i \in 1 .. l.size + 1, NEW j \in 1 .. l.size + 1, q[i] = q[j]
                 PROVE  i = j
      BY <2>4
    <3>1. CASE i \in 1 .. l.size /\ j \in 1 .. l.size
      <4>1. p[i] = p[j]
        BY <3>1, <2>8
      <4> QED
        BY <3>1, <4>1 DEF IsChain
    <3>2. CASE i = l.size + 1 /\ j \in 1 .. l.size
      BY <3>2, <2>8, <2>10
    <3>3. CASE j = l.size + 1 /\ i \in 1 .. l.size
      BY <3>3, <2>8, <2>10
    <3> QED
      BY <3>1, <3>2, <3>3, <2>9
  <2>14. \A b \in DOMAIN n.heap : \E i \in 1 .. n.size : q[i] = b
    <3> SUFFICES ASSUME NEW b \in DOMAIN n.heap
                 PROVE  \E i \in 1 .. l.size + 1 : q[i] = b
      BY <2>4
    <3>1. CASE b = a
      <4>1. l.size + 1 \in 1 .. l.size + 1
        BY <1>1
      <4> QED
        BY <3>1, <4>1, <2>8
    <3>2. CASE b # a
      <4>1. PICK i \in 1 .. l.size : p[i] = b
        BY <3>2, <2>4, <2>6 DEF IsChain
      <4>2. i \in 1 .. l.size + 1
        BY <1>1
      <4> QED
        BY <4>1, <4>2, <2>8
    <3> QED
      BY <3>1, <3>2
  <2>15. n.size # 0 /\ n.start = q[1] /\ n.end = q[n.size] /\ n.size \in Nat
    <3>1. 1 \in 1 .. l.size /\ l.size + 1 # 0 /\ l.size + 1 \in Nat
      BY <1>1, <1>3
    <3> QED
      BY <3>1, <2>4, <2>8
  <2>16. \A i \in 1 .. l.size : i # l.size => n.heap[q[i]] = l.heap[p[i]]
    <3> SUFFICES ASSUME NEW i \in 1 .. l.size, i # l.size
                 PROVE  n.heap[q[i]] = l.heap[p[i]]
      OBVIOUS
    <3>1. p[i] # l.end
      BY <2>1, <2>2 DEF IsChain
    <3> QED
      BY <3>1, <2>4, <2>6, <2>8, <2>10
  <2>17. n.heap[q[l.size]] = NewNode(l.heap[p[l.size]].content, a) /\ n.heap[q[l.size + 1]] = node
    BY <2>1, <2>2, <2>4, <2>6, <2>8
  <2>18. \A i \in 1 .. l.size : n.heap[q[i]].content = l.heap[p[i]].content
    BY <2>16, <2>17 DEF NewNode
  <2>19. \A i \in 1 .. n.size : n.heap[q[i]].content \in Values
    <3>1. \A i \in 1 .. l.size : l.heap[p[i]].content \in Values
      BY DEF IsChain
    <3> QED
      BY <3>1, <2>4, <2>9, <2>11, <2>17, <2>18
  <2>20. \A i \in 1 .. n.size - 1 : n.heap[q[i]].next = q[i + 1]
    <3> SUFFICES ASSUME NEW i \in 1 .. l.size
                 PROVE  n.heap[q[i]].next = q[i + 1]
      <4>1. n.size - 1 = l.size
        BY <1>1, <2>4
      <4> QED
        BY <4>1
    <3>1. CASE i = l.size
      BY <3>1, <2>8, <2>17 DEF NewNode
    <3>2. CASE i # l.size
      <4>1. i \in 1 .. l.size - 1 /\ i + 1 \in 1 .. l.size
        BY <3>2, <1>1
      <4>2. l.heap[p[i]].next = p[i + 1]
        BY <4>1 DEF IsChain
      <4> QED
        BY <3>2, <4>1, <4>2, <2>8, <2>16
    <3> QED
      BY <3>1, <3>2
  <2>21. n.heap[q[n.size]].next = NULL
    BY <2>4, <2>11, <2>17
  <2>22. \A b \in DOMAIN n.heap : n.heap[b] = NewNode(n.heap[b].content, n.heap[b].next)
    <3> SUFFICES ASSUME NEW b \in DOMAIN n.heap
                 PROVE  n.heap[b] = NewNode(n.heap[b].content, n.heap[b].next)
      OBVIOUS
    <3>1. CASE b = a
      BY <3>1, <2>4, <2>6, <2>11
    <3>2. CASE b = l.end
      BY <3>2, <2>4, <2>6 DEF NewNode
    <3>3. CASE b # a /\ b # l.end
      <4>1. b \in DOMAIN l.heap /\ n.heap[b] = l.heap[b]
        BY <3>3, <2>4, <2>6
      <4> QED
        BY <4>1 DEF IsChain
    <3> QED
      BY <3>1, <3>2, <3>3
  <2>23. IsFiniteSet(DOMAIN n.heap) /\ Cardinality(DOMAIN n.heap) = n.size /\ DOMAIN n.heap \subseteq Nat
    BY <2>4, <2>7
  <2>24. IsChain(n, q)
    BY <2>4, <2>8, <2>12, <2>13, <2>14, <2>15, <2>19, <2>20, <2>21, <2>22, <2>23 DEF IsChain
  <2>25. n.heap[q[n.size]].content = t
    BY <2>4, <2>11, <2>17
  <2> QED
    BY <2>4, <2>18, <2>24, <2>25 DEF n, q, a
<1> QED
  BY <1>2, <1>3

(* Chain p without its place k.                                            *)
Skip(p, n, k) == [i \in 1 .. n - 1 |-> p[IF i < k THEN i ELSE i + 1]]

(* m is list l without the node in place k of its chain.                   *)
IsWithout(m, l, p, k) ==
    /\ m = [heap |-> m.heap, start |-> m.start, end |-> m.end, size |-> m.size]
    /\ m.size = l.size - 1
    /\ DOMAIN m.heap = DOMAIN l.heap \ {p[k]}
    /\ \A i \in 1 .. l.size :
          i # k => m.heap[p[i]] = NewNode(l.heap[p[i]].content,
                     IF i = k - 1 THEN l.heap[p[k]].next ELSE l.heap[p[i]].next)
    /\ l.size = 1 => m.start = NULL /\ m.end = NULL
    /\ l.size # 1 => /\ m.start = IF k = 1 THEN p[2] ELSE p[1]
                     /\ m.end = IF k = l.size THEN p[l.size - 1] ELSE p[l.size]

LEMMA WithoutIsChain ==
    ASSUME NEW l, NEW p, IsChain(l, p), NEW k \in 1 .. l.size, NEW m, IsWithout(m, l, p, k)
    PROVE  LET q == Skip(p, l.size, k)
           IN  /\ IsChain(m, q) /\ m.size = l.size - 1
               /\ \A i \in 1 .. m.size :
                     m.heap[q[i]].content = l.heap[p[IF i < k THEN i ELSE i + 1]].content
<1> DEFINE n == l.size
           q == Skip(p, n, k)
           at(i) == IF i < k THEN i ELSE i + 1
<1>1. n \in Nat /\ n # 0 /\ m.size = n - 1 /\ n - 1 \in Nat
  BY DEF IsChain, IsWithout
<1>2. \A i \in 1 .. n - 1 : at(i) \in 1 .. n /\ at(i) # k /\ q[i] = p[at(i)]
  BY <1>1 DEF Skip
<1>3. \A i, j \in 1 .. n - 1 : at(i) = at(j) => i = j
  BY <1>1
<1>4. \A j \in 1 .. n : j # k => \E i \in 1 .. n - 1 : at(i) = j
  <2> SUFFICES ASSUME NEW j \in 1 .. n, j # k
               PROVE  \E i \in 1 .. n - 1 : at(i) = j
    OBVIOUS
  <2>1. CASE j < k
    <3>1. j \in 1 .. n - 1 /\ at(j) = j
      BY <2>1, <1>1
    <3> QED
      BY <3>1
  <2>2. CASE ~(j < k)
    <3>1. j - 1 \in 1 .. n - 1 /\ at(j - 1) = j
      BY <2>2, <1>1
    <3> QED
      BY <3>1
  <2> QED
    BY <2>1, <2>2
<1>5. q = [i \in 1 .. m.size |-> q[i]]
  BY <1>1 DEF Skip
<1>6. \A i, j \in 1 .. n : p[i] = p[j] => i = j
  BY DEF IsChain
<1>7. IsFiniteSet(DOMAIN m.heap) /\ Cardinality(DOMAIN m.heap) = m.size /\ DOMAIN m.heap \subseteq Nat
  <2>1. /\ IsFiniteSet(DOMAIN l.heap) /\ Cardinality(DOMAIN l.heap) = n /\ DOMAIN l.heap \subseteq Nat
        /\ p[k] \in DOMAIN l.heap
    BY DEF IsChain
  <2>2. DOMAIN m.heap = DOMAIN l.heap \ {p[k]}
    BY DEF IsWithout
  <2>3. /\ IsFiniteSet(DOMAIN l.heap \ {p[k]})
        /\ Cardinality(DOMAIN l.heap \ {p[k]}) = Cardinality(DOMAIN l.heap) - 1
    BY <2>1, FS_RemoveElement
  <2> QED
    BY <1>1, <2>1, <2>2, <2>3
<1>8. \A i \in 1 .. n : p[i] \in DOMAIN l.heap
  BY DEF IsChain
<1>9. \A i \in 1 .. n :
         i # k => m.heap[p[i]] = NewNode(l.heap[p[i]].content,
                    IF i = k - 1 THEN l.heap[p[k]].next ELSE l.heap[p[i]].next)
  BY DEF IsWithout
<1>9a. \A i \in 1 .. n :
         i # k => /\ m.heap[p[i]].content = l.heap[p[i]].content
                  /\ m.heap[p[i]] = NewNode(m.heap[p[i]].content, m.heap[p[i]].next)
  <2> SUFFICES ASSUME NEW i \in 1 .. n, i # k
               PROVE  /\ m.heap[p[i]].content = l.heap[p[i]].content
                      /\ m.heap[p[i]] = NewNode(m.heap[p[i]].content, m.heap[p[i]].next)
    OBVIOUS
  <2> DEFINE to == IF i = k - 1 THEN l.heap[p[k]].next ELSE l.heap[p[i]].next
  <2>1. m.heap[p[i]] = NewNode(l.heap[p[i]].content, to)
    BY <1>9
  <2> HIDE DEF to, n
  <2> QED
    BY <2>1 DEF NewNode
<1>9b. k \in 1 .. n
  OBVIOUS
<1>10. \A i \in 1 .. n - 1 : l.heap[p[i]].next = p[i + 1]
  BY DEF IsChain
<1>11. l.heap[p[n]].next = NULL
  BY <1>1 DEF IsChain
<1>12. DOMAIN m.heap = DOMAIN l.heap \ {p[k]}
  BY DEF IsWithout
<1> HIDE DEF n, q
<1>13. \A i \in 1 .. m.size : q[i] \in DOMAIN m.heap
  <2> SUFFICES ASSUME NEW i \in 1 .. n - 1
               PROVE  q[i] \in DOMAIN m.heap
    BY <1>1
  <2> DEFINE j == at(i)
  <2>1. j \in 1 .. n /\ j # k /\ q[i] = p[j]
    BY <1>2
  <2> HIDE DEF j
  <2>2. p[j] # p[k]
    BY <2>1, <1>6 DEF n
  <2> QED
    BY <2>1, <2>2, <1>8, <1>12
<1>14. \A i, j \in 1 .. m.size : q[i] = q[j] => i = j
  <2> SUFFICES ASSUME NEW i \in 1 .. n - 1, NEW j \in 1 .. n - 1, q[i] = q[j]
               PROVE  i = j
    BY <1>1
  <2>1. at(i) = at(j)
    <3> HIDE DEF at
    <3> QED
      BY <1>2, <1>6
  <2> QED
    BY <2>1, <1>3
<1>15. \A b \in DOMAIN m.heap : \E i \in 1 .. m.size : q[i] = b
  <2> SUFFICES ASSUME NEW b \in DOMAIN m.heap
               PROVE  \E i \in 1 .. n - 1 : q[i] = b
    BY <1>1
  <2>1. PICK j \in 1 .. n : p[j] = b
    BY <1>12 DEF IsChain, n
  <2>2. j # k
    BY <2>1, <1>12
  <2>3. PICK i \in 1 .. n - 1 : at(i) = j
    BY <2>2, <1>4
  <2> QED
    BY <2>1, <2>3, <1>2
<1>16. \A i \in 1 .. m.size : m.heap[q[i]].content = l.heap[p[at(i)]].content
  <2> SUFFICES ASSUME NEW i \in 1 .. n - 1
               PROVE  m.heap[q[i]].content = l.heap[p[at(i)]].content
    BY <1>1
  <2> HIDE DEF at
  <2> QED
    BY <1>2, <1>9a
<1>17. \A i \in 1 .. m.size : m.heap[q[i]].content \in Values
  <2>1. \A i \in 1 .. n : l.heap[p[i]].content \in Values
    BY DEF IsChain, n
  <2> HIDE DEF at
  <2> QED
    BY <2>1, <1>1, <1>2, <1>16
<1>18. \A i \in 1 .. m.size - 1 : m.heap[q[i]].next = q[i + 1]
  <2> SUFFICES ASSUME NEW i \in 1 .. n - 1 - 1
               PROVE  m.heap[q[i]].next = q[i + 1]
    BY <1>1
  <2>1. i \in 1 .. n - 1 /\ i + 1 \in 1 .. n - 1
    BY <1>1
  <2>2. CASE i < k - 1
    <3>1. at(i) = i /\ at(i + 1) = i + 1 /\ i # k - 1 /\ i \in 1 .. n /\ i # k
      BY <2>1, <2>2, <1>1
    <3>2. m.heap[p[i]] = NewNode(l.heap[p[i]].content, l.heap[p[i]].next)
      BY <3>1, <1>9
    <3> QED
      BY <2>1, <3>1, <3>2, <1>2, <1>10 DEF NewNode
  <2>3. CASE i = k - 1
    <3>1. at(i) = i /\ at(i + 1) = k + 1 /\ k \in 1 .. n - 1 /\ i \in 1 .. n /\ i # k
      BY <2>1, <2>3, <1>1
    <3>2. m.heap[p[i]] = NewNode(l.heap[p[i]].content, l.heap[p[k]].next)
      BY <2>3, <3>1, <1>9
    <3> QED
      BY <2>1, <3>1, <3>2, <1>2, <1>10 DEF NewNode
  <2>4. CASE i > k - 1
    <3>1. at(i) = i + 1 /\ at(i + 1) = (i + 1) + 1 /\ i + 1 # k - 1 /\ i + 1 # k /\ i + 1 \in 1 .. n
      BY <2>1, <2>4, <1>1
    <3>2. m.heap[p[i + 1]] = NewNode(l.heap[p[i + 1]].content, l.heap[p[i + 1]].next)
      BY <3>1, <1>9
    <3>3. q[i] = p[i + 1] /\ q[i + 1] = p[(i + 1) + 1]
      BY <2>1, <3>1, <1>2
    <3> QED
      BY <2>1, <3>2, <3>3, <1>10 DEF NewNode
  <2> QED
    BY <2>2, <2>3, <2>4, <1>1
<1>19. m.size # 0 => m.heap[q[m.size]].next = NULL
  <2> SUFFICES ASSUME n - 1 # 0
               PROVE  m.heap[q[n - 1]].next = NULL
    BY <1>1
  <2>1. n - 1 \in 1 .. n - 1
    BY <1>1
  <2>2. CASE k = n
    <3>1. at(n - 1) = n - 1 /\ n - 1 \in 1 .. n /\ n - 1 # k /\ n - 1 = k - 1
      BY <2>1, <2>2, <1>1
    <3>2. m.heap[p[n - 1]] = NewNode(l.heap[p[n - 1]].content, l.heap[p[k]].next)
      BY <3>1, <1>9
    <3>3. q[n - 1] = p[n - 1]
      <4> HIDE DEF at
      <4> QED
        BY <2>1, <3>1, <1>2
    <3>4. m.heap[p[n - 1]].next = l.heap[p[k]].next
      <4> HIDE DEF n
      <4> QED
        BY <3>2 DEF NewNode
    <3> QED
      BY <2>2, <3>3, <3>4, <1>11
  <2>3. CASE k # n
    <3>1. at(n - 1) = n /\ n \in 1 .. n /\ n # k /\ n # k - 1
      BY <2>1, <2>3, <1>1, <1>9b
    <3>2. m.heap[p[n]] = NewNode(l.heap[p[n]].content, l.heap[p[n]].next)
      BY <3>1, <1>9
    <3> QED
      BY <2>1, <3>1, <3>2, <1>2, <1>11 DEF NewNode
  <2> QED
    BY <2>2, <2>3
<1>20. \A b \in DOMAIN m.heap : m.heap[b] = NewNode(m.heap[b].content, m.heap[b].next)
  <2> SUFFICES ASSUME NEW b \in DOMAIN m.heap
               PROVE  m.heap[b] = NewNode(m.heap[b].content, m.heap[b].next)
    OBVIOUS
  <2>1. PICK j \in 1 .. n : p[j] = b
    BY <1>12 DEF IsChain, n
  <2>2. j # k
    BY <2>1, <1>12
  <2> QED
    BY <2>1, <2>2, <1>9a
<1>21. m.size = 0 => m.start = NULL /\ m.end = NULL
  BY <1>1 DEF IsWithout, n
<1>22. m.size # 0 => m.start = q[1] /\ m.end = q[m.size]
  <2> SUFFICES ASSUME n - 1 # 0
               PROVE  m.start = q[1] /\ m.end = q[n - 1]
    BY <1>1
  <2>1. 1 \in 1 .. n - 1 /\ n - 1 \in 1 .. n - 1 /\ n # 1
    BY <1>1
  <2>2. m.start = IF k = 1 THEN p[2] ELSE p[1]
    BY <2>1 DEF IsWithout, n
  <2>3. m.end = IF k = n THEN p[n - 1] ELSE p[n]
    BY <2>1 DEF IsWithout, n
  <2>4. at(1) = IF k = 1 THEN 2 ELSE 1
    BY <1>1, <1>9b
  <2>5. at(n - 1) = IF k = n THEN n - 1 ELSE n
    BY <1>1, <1>9b
  <2> HIDE DEF at
  <2> QED
    BY <2>1, <2>2, <2>3, <2>4, <2>5, <1>2
<1>23. m = [heap |-> m.heap, start |-> m.start, end |-> m.end, size |-> m.size]
  BY DEF IsWithout
<1>24. IsChain(m, q)
  BY <1>1, <1>5, <1>7, <1>13, <1>14, <1>15, <1>17, <1>18, <1>19, <1>20, <1>21, <1>22, <1>23 DEF IsChain
<1> QED
  BY <1>1, <1>16, <1>24 DEF n, q

(* removeFromFront takes out the first node, if there is one, ...          *)
LEMMA RemoveFrontKeeps ==
    ASSUME NEW l, NEW p, IsChain(l, p)
    PROVE  LET m == removeFromFront(l).list
           IN  /\ l.size = 0 => m = l /\ removeFromFront(l).ret = NULL
               /\ l.size # 0 => /\ IsChain(m, Skip(p, l.size, 1)) /\ m.size = l.size - 1
                                /\ IsWithout(m, l, p, 1)
                                /\ removeFromFront(l).ret = l.heap[p[1]].content
<1>1. l.size \in Nat
  BY DEF IsChain
<1>2. CASE l.size = 0
  <2>1. l.start = NULL
    BY <1>2 DEF IsChain
  <2> QED
    BY <1>2, <2>1 DEF removeFromFront
<1>3. CASE l.size # 0
  <2> DEFINE r == removeFromFront(l)
             m == r.list
  <2>1. 1 \in 1 .. l.size /\ l.size \in 1 .. l.size
    BY <1>1, <1>3
  <2>2. l.start = p[1] /\ l.end = p[l.size] /\ p[1] \in DOMAIN l.heap /\ p[l.size] \in DOMAIN l.heap
    BY <1>3, <2>1 DEF IsChain
  <2>3. l.start # NULL /\ l.end # NULL
    BY <2>2, ContainersAssumption DEF IsChain
  <2>4. l.start = l.end <=> l.size = 1
    BY <2>1, <2>2 DEF IsChain
  <2>5. r = [ret |-> l.heap[l.start].content,
             list |-> [heap |-> Delete(l.heap, l.start), size |-> l.size - 1,
                       start |-> IF l.start = l.end THEN NULL ELSE l.heap[l.start].next,
                       end |-> IF l.start = l.end THEN NULL ELSE l.end]]
    BY <2>3 DEF removeFromFront
  <2>6. /\ r.ret = l.heap[p[1]].content
        /\ m.heap = Delete(l.heap, p[1]) /\ m.size = l.size - 1
        /\ m.start = IF l.size = 1 THEN NULL ELSE l.heap[p[1]].next
        /\ m.end = IF l.size = 1 THEN NULL ELSE p[l.size]
        /\ m = [heap |-> m.heap, start |-> m.start, end |-> m.end, size |-> m.size]
    BY <2>2, <2>4, <2>5
  <2>7. DOMAIN m.heap = DOMAIN l.heap \ {p[1]} /\ \A b \in DOMAIN m.heap : m.heap[b] = l.heap[b]
    BY <2>6 DEF Delete, Restrict
  <2>8. ASSUME NEW i \in 1 .. l.size, i # 1
        PROVE  m.heap[p[i]] = NewNode(l.heap[p[i]].content,
                                IF i = 1 - 1 THEN l.heap[p[1]].next ELSE l.heap[p[i]].next)
    <3>1. p[i] \in DOMAIN l.heap /\ p[i] # p[1] /\ i # 1 - 1
      BY <2>1, <2>8 DEF IsChain
    <3>2. m.heap[p[i]] = l.heap[p[i]]
      BY <2>7, <3>1
    <3>3. l.heap[p[i]] = NewNode(l.heap[p[i]].content, l.heap[p[i]].next)
      BY <3>1 DEF IsChain
    <3> QED
      BY <3>1, <3>2, <3>3
  <2>9. l.size # 1 => l.heap[p[1]].next = p[2]
    <3> SUFFICES ASSUME l.size # 1
                 PROVE  l.heap[p[1]].next = p[2]
      OBVIOUS
    <3>1. 1 \in 1 .. l.size - 1 /\ 1 + 1 = 2
      BY <1>1, <1>3
    <3> QED
      BY <3>1 DEF IsChain
  <2> HIDE DEF r, m
  <2>10. IsWithout(m, l, p, 1)
    <3>1. m.end = IF l.size = 1 THEN NULL ELSE IF 1 = l.size THEN p[l.size - 1] ELSE p[l.size]
      BY <2>6
    <3> QED
      BY <2>6, <2>7, <2>8, <2>9, <3>1 DEF IsWithout
  <2>11. IsChain(m, Skip(p, l.size, 1)) /\ m.size = l.size - 1
    BY <2>1, <2>10, WithoutIsChain
  <2> QED
    BY <1>3, <2>6, <2>10, <2>11 DEF m, r
<1> QED
  BY <1>2, <1>3

(* ... and removeNode the first node that holds t.                         *)
LEMMA RemoveNodeKeeps ==
    ASSUME NEW l, NEW p, IsChain(l, p), l.size # 0, NEW t
    PROVE  LET m == removeNode(l, t).list
           IN  \/ /\ \A i \in 1 .. l.size : l.heap[p[i]].content # t
                  /\ m = l /\ removeNode(l, t).ret = NULL
               \/ \E k \in 1 .. l.size :
                     /\ IsWithout(m, l, p, k)
                     /\ l.heap[p[k]].content = t
                     /\ \A i \in 1 .. k - 1 : l.heap[p[i]].content # t
                     /\ removeNode(l, t).ret = t
<1> DEFINE r == removeNode(l, t)
           m == r.list
           n == l.size
<1>1. n \in Nat /\ n # 0 /\ 1 \in 1 .. n /\ n \in 1 .. n
  BY DEF IsChain
<1>2. Path(l) = p
  BY PathIs
<1>3. /\ ContentsOf(l) = [i \in 1 .. n |-> l.heap[p[i]].content]
  BY ContentsAre
<1>4. Holding(l, t) = {i \in 1 .. n : l.heap[p[i]].content = t}
  BY <1>3 DEF Holding
<1>5. l.start = p[1] /\ l.end = p[n]
  BY <1>1 DEF IsChain
<1>6. CASE l.heap[l.start].content = t
  <2>1. r = removeFromFront(l)
    BY <1>6 DEF removeNode
  <2>2. IsWithout(m, l, p, 1) /\ r.ret = t
    BY <1>1, <1>5, <1>6, <2>1, RemoveFrontKeeps
  <2>3. \A i \in 1 .. 1 - 1 : l.heap[p[i]].content # t
    OBVIOUS
  <2> QED
    BY <1>1, <1>5, <1>6, <2>2, <2>3
<1>7. CASE l.heap[l.start].content # t /\ Holding(l, t) = {}
  <2>1. r = [list |-> l, ret |-> NULL]
    BY <1>7 DEF removeNode
  <2>2. \A i \in 1 .. n : l.heap[p[i]].content # t
    BY <1>4, <1>7
  <2>3. m = l /\ r.ret = NULL
    BY <2>1
  <2> HIDE DEF m, r
  <2> QED
    BY <2>2, <2>3 DEF m, r
<1>8. CASE l.heap[l.start].content # t /\ Holding(l, t) # {}
  <2> DEFINE k == Min(Holding(l, t))
             heap == [l.heap EXCEPT ![p[k - 1]].next = l.heap[p[k]].next]
  <2>1. k \in 1 .. n /\ l.heap[p[k]].content = t /\ \A i \in 1 .. n : l.heap[p[i]].content = t => k <= i
    <3>1. Holding(l, t) \subseteq Nat
      BY <1>4
    <3>2. Least(Holding(l, t)) \in Holding(l, t) /\ \A j \in Holding(l, t) : Least(Holding(l, t)) <= j
      BY <1>8, <3>1, LeastIs
    <3>3. k \in Holding(l, t) /\ \A j \in Holding(l, t) : k <= j
      BY <3>2 DEF Min
    <3> HIDE DEF k
    <3> QED
      BY <1>4, <3>3
  <2>2. k # 1
    BY <1>5, <1>8, <2>1
  <2>3. r = [ret |-> l.heap[p[k]].content,
             list |-> [heap |-> Delete(heap, p[k]), start |-> l.start,
                       end |-> IF l.end = p[k] THEN p[k - 1] ELSE l.end, size |-> l.size - 1]]
    BY <1>2, <1>8 DEF removeNode
  <2> HIDE DEF k
  <2>5. /\ m.heap = Delete(heap, p[k]) /\ m.start = p[1] /\ m.size = n - 1
        /\ m.end = IF p[n] = p[k] THEN p[k - 1] ELSE p[n]
        /\ m = [heap |-> m.heap, start |-> m.start, end |-> m.end, size |-> m.size]
    <3>1. m = [heap |-> Delete(heap, p[k]), start |-> l.start,
               end |-> IF l.end = p[k] THEN p[k - 1] ELSE l.end, size |-> l.size - 1]
      <4> HIDE DEF heap
      <4> QED
        BY <2>3
    <3> HIDE DEF heap, m
    <3> QED
      BY <1>5, <3>1
  <2>6. r.ret = t
    BY <2>1, <2>3
  <2>7. k - 1 \in 1 .. n /\ k - 1 \in 1 .. n - 1 /\ (k - 1) + 1 = k
    BY <1>1, <2>1, <2>2
  <2>8. p[k - 1] \in DOMAIN l.heap /\ p[k] \in DOMAIN l.heap /\ p[k - 1] # p[k]
    BY <2>1, <2>7 DEF IsChain
  <2>9. l.heap[p[k - 1]] = NewNode(l.heap[p[k - 1]].content, l.heap[p[k - 1]].next)
    BY <2>8 DEF IsChain
  <2>10. /\ DOMAIN heap = DOMAIN l.heap
         /\ heap[p[k - 1]] = NewNode(l.heap[p[k - 1]].content, l.heap[p[k]].next)
         /\ \A b \in DOMAIN l.heap : b # p[k - 1] => heap[b] = l.heap[b]
    BY <2>8, <2>9 DEF NewNode
  <2> HIDE DEF heap, m, r
  <2>11. DOMAIN m.heap = DOMAIN l.heap \ {p[k]} /\ \A b \in DOMAIN m.heap : m.heap[b] = heap[b]
    BY <2>5, <2>10 DEF Delete, Restrict
  <2>12. ASSUME NEW i \in 1 .. n, i # k
         PROVE  m.heap[p[i]] = NewNode(l.heap[p[i]].content,
                                 IF i = k - 1 THEN l.heap[p[k]].next ELSE l.heap[p[i]].next)
    <3>1. p[i] \in DOMAIN l.heap /\ p[i] # p[k]
      BY <2>1, <2>12 DEF IsChain
    <3>2. m.heap[p[i]] = heap[p[i]]
      BY <2>11, <3>1
    <3>3. CASE i = k - 1
      BY <3>2, <3>3, <2>10
    <3>4. CASE i # k - 1
      <4>1. p[i] # p[k - 1]
        BY <3>4, <2>7 DEF IsChain
      <4>2. l.heap[p[i]] = NewNode(l.heap[p[i]].content, l.heap[p[i]].next)
        BY <3>1 DEF IsChain
      <4> QED
        BY <3>1, <3>2, <3>4, <4>1, <4>2, <2>10
    <3> QED
      BY <3>3, <3>4
  <2>13. p[n] = p[k] <=> n = k
    BY <1>1, <2>1 DEF IsChain
  <2>14. n # 1
    BY <1>1, <2>1, <2>2
  <2>15. IsWithout(m, l, p, k)
    BY <2>2, <2>5, <2>11, <2>12, <2>13, <2>14 DEF IsWithout
  <2>16. \A i \in 1 .. k - 1 : l.heap[p[i]].content # t
    BY <1>1, <2>1
  <2> QED
    BY <2>1, <2>6, <2>15, <2>16 DEF m, r
<1> QED
  BY <1>6, <1>7, <1>8

LEMMA EmptyIsChain == IsChain(EmptyList, <<>>)
  BY FS_EmptySet DEF IsChain, EmptyList

(* removeAll leaves nothing.                                               *)
LEMMA RemoveAllKeeps ==
    ASSUME NEW l, IsList(l)
    PROVE  IsList(removeAll(l)) /\ removeAll(l).size = 0
<1> DEFINE F(s) == Emptying!Fold(l, s)
           left(k) == IF k <= l.size THEN l.size - k ELSE 0
           T == {s \in Seq(Nat) : IsList(F(s)) /\ F(s).size = left(Len(s))}
           s == [i \in 1 .. l.size |-> i]
<1>1. l.size \in Nat
  BY DEF IsList, IsChain
<1>2. removeAll(l) = F(s)
  BY DEF removeAll, FirstGone, Emptying!Fold, FoldLeft, MapThenFoldSet, Emptying!FoldLeft,
         Emptying!MapThenFoldSet, Max, Emptying!Max
<1>3. <<>> \in T
  <2>1. F(<<>>) = l
    BY Emptying!FoldEmpty
  <2>2. <<>> \in Seq(Nat) /\ Len(<<>>) = 0
    OBVIOUS
  <2>3. left(0) = l.size
    BY <1>1
  <2> HIDE DEF F, left
  <2> QED
    BY <2>1, <2>2, <2>3
<1>4. ASSUME NEW r \in Seq(Nat), NEW x \in Nat, r \in T
      PROVE  Append(r, x) \in T
  <2>1. F(Append(r, x)) = FirstGone(F(r), x)
    BY Emptying!FoldAppend
  <2>2. Append(r, x) \in Seq(Nat) /\ Len(Append(r, x)) = Len(r) + 1 /\ Len(r) \in Nat
    OBVIOUS
  <2>3. IsList(F(r)) /\ F(r).size = left(Len(r))
    BY <1>4
  <2> HIDE DEF F
  <2>4. PICK p : IsChain(F(r), p)
    BY <2>3 DEF IsList
  <2>5. left(Len(r) + 1) = IF left(Len(r)) = 0 THEN 0 ELSE left(Len(r)) - 1
    BY <1>1, <2>2
  <2> HIDE DEF left
  <2>6. CASE F(r).size = 0
    <3>1. FirstGone(F(r), x) = F(r)
      BY <2>4, <2>6, RemoveFrontKeeps DEF FirstGone
    <3> QED
      BY <2>1, <2>2, <2>3, <2>5, <2>6, <3>1
  <2>7. CASE F(r).size # 0
    <3>1. IsList(FirstGone(F(r), x)) /\ FirstGone(F(r), x).size = F(r).size - 1
      BY <2>4, <2>7, RemoveFrontKeeps DEF FirstGone, IsList
    <3> QED
      BY <2>1, <2>2, <2>3, <2>5, <2>7, <3>1
  <2> QED
    BY <2>6, <2>7
<1> HIDE DEF T
<1>5. Seq(Nat) \subseteq T
  BY <1>3, <1>4, Emptying!SequenceInduction
<1>6. s \in Seq(Nat) /\ Len(s) = l.size
  <2>1. s \in Seq(Nat) /\ s = [j \in 1 .. l.size |-> s[j]]
    BY <1>1
  <2> HIDE DEF s
  <2> QED
    BY <1>1, <2>1, LengthOf
<1>7. IsList(F(s)) /\ F(s).size = left(l.size)
  <2> HIDE DEF F, left, s
  <2> QED
    BY <1>5, <1>6 DEF T
<1> QED
  BY <1>1, <1>2, <1>7

-----------------------------------------------------------------------------
(* Soundness of the list                                                   *)

LEMMA ListMethodsKeep ==
    ASSUME IsList(list), ListNext
    PROVE  IsList(list')
<1>1. PICK p : IsChain(list, p)
  BY DEF IsList
<1>2. ASSUME NEW t \in Values, ListAddToFront(t)
      PROVE  IsList(list')
  BY <1>1, <1>2, FrontKeeps DEF ListAddToFront, IsList
<1>3. ASSUME NEW t \in Values, ListAddToBack(t)
      PROVE  IsList(list')
  BY <1>1, <1>3, BackKeeps DEF ListAddToBack, IsList
<1>4. ASSUME NEW t \in Values, ListRemoveNode(t)
      PROVE  IsList(list')
  <2>1. list.size # 0
    BY <1>1, <1>4 DEF ListRemoveNode, IsChain
  <2>2. CASE list' = list
    BY <2>2
  <2>3. CASE \E k \in 1 .. list.size : IsWithout(list', list, p, k)
    BY <1>1, <2>3, WithoutIsChain DEF IsList
  <2> QED
    BY <1>1, <1>4, <2>1, <2>2, <2>3, RemoveNodeKeeps DEF ListRemoveNode
<1>5. ASSUME NEW t \in Values, ListFind(t)
      PROVE  IsList(list')
  BY <1>5 DEF ListFind
<1>6. CASE ListRemoveFromFront
  <2>1. CASE list.size = 0
    BY <1>1, <1>6, <2>1, RemoveFrontKeeps DEF ListRemoveFromFront
  <2>2. CASE list.size # 0
    BY <1>1, <1>6, <2>2, RemoveFrontKeeps DEF ListRemoveFromFront, IsList
  <2> QED
    BY <2>1, <2>2
<1>7. CASE ListRemoveAll
  BY <1>7, RemoveAllKeeps DEF ListRemoveAll
<1> QED
  BY <1>2, <1>3, <1>4, <1>5, <1>6, <1>7 DEF ListNext

ListInv == IsList(list)

LEMMA ListInvIsSound == ListInv => ListIsSound
<1> SUFFICES ASSUME ListInv
             PROVE  ListIsSound
  OBVIOUS
<1>1. PICK p : IsChain(list, p)
  BY DEF ListInv, IsList
<1>2. Path(list) = p
  BY <1>1, PathIs
<1>3. list.size \in Nat /\ p = [i \in 1 .. list.size |-> p[i]]
  BY <1>1 DEF IsChain
<1>4. Len(p) = list.size /\ DOMAIN p = 1 .. list.size
  BY <1>3, LengthOf
<1>5. ToSet(p) = DOMAIN list.heap
  BY <1>1, <1>4 DEF ToSet, IsChain
<1>6. list.size # 0 => list.end = Last(p) /\ list.heap[list.end].next = NULL
  BY <1>1, <1>4 DEF IsChain, Last
<1>7. list.size = 0 => list.start = NULL /\ list.end = NULL
  BY <1>1 DEF IsChain
<1> QED
  BY <1>2, <1>4, <1>5, <1>6, <1>7 DEF ListIsSound

-----------------------------------------------------------------------------
(* The list implements a list of items                                     *)

LEMMA ItemsAre ==
    ASSUME NEW l, NEW p, IsChain(l, p)
    PROVE  /\ ItemsOf(l) = [i \in 1 .. l.size |-> Content(l.heap[p[i]].content)]
           /\ Len(ItemsOf(l)) = l.size /\ DOMAIN ItemsOf(l) = 1 .. l.size
           /\ ItemsOf(l) \in Seq([key : Values, value : Values])
           /\ l.size \in Nat
<1>1. /\ ContentsOf(l) = [i \in 1 .. l.size |-> l.heap[p[i]].content]
      /\ \A i \in 1 .. l.size : ContentsOf(l)[i] \in Values
      /\ l.size \in Nat
  BY ContentsAre
<1>2. ItemsOf(l) = [i \in 1 .. l.size |-> Content(l.heap[p[i]].content)]
  BY <1>1 DEF ItemsOf
<1>3. \A i \in 1 .. l.size : ItemsOf(l)[i] \in [key : Values, value : Values]
  <2>1. \A i \in 1 .. l.size : l.heap[p[i]].content \in Values
    BY DEF IsChain
  <2>2. \A t \in Values : Content(t) \in [key : Values, value : Values]
    BY DEF Content
  <2> QED
    BY <1>2, <2>1, <2>2
<1>4. ItemsOf(l) = [i \in 1 .. l.size |-> ItemsOf(l)[i]]
  BY <1>2
<1>5. Len(ItemsOf(l)) = l.size /\ DOMAIN ItemsOf(l) = 1 .. l.size
  BY <1>1, <1>4, LengthOf
<1>6. ItemsOf(l) \in Seq([key : Values, value : Values])
  BY <1>1, <1>3, <1>4, IsSequence
<1> QED
  BY <1>1, <1>2, <1>5, <1>6

LEMMA InFrontIs ==
    ASSUME NEW T, NEW s \in Seq(T), NEW x \in T, NEW r,
           r = [i \in 1 .. Len(s) + 1 |-> IF i = 1 THEN x ELSE s[i - 1]]
    PROVE  r = <<x>> \o s
<1>1. Len(s) \in Nat /\ Len(<<x>>) = 1 /\ <<x>>[1] = x
  OBVIOUS
<1>2. \A i \in 1 .. Len(s) + 1 : i <= 1 <=> i = 1
  BY <1>1
<1>3. <<x>> \o s = [i \in 1 .. 1 + Len(s) |-> IF i <= 1 THEN <<x>>[i] ELSE s[i - 1]]
  BY <1>1 DEF \o
<1> QED
  BY <1>1, <1>2, <1>3

LEMMA BehindIs ==
    ASSUME NEW T, NEW s \in Seq(T), NEW x \in T, NEW r,
           r = [i \in 1 .. Len(s) + 1 |-> IF i <= Len(s) THEN s[i] ELSE x]
    PROVE  r = Append(s, x)
<1>1. Len(s) \in Nat
  OBVIOUS
<1> DEFINE e == Append(s, x)
<1>2. e = [i \in 1 .. Len(s) + 1 |-> e[i]]
  <2>1. e \in Seq(T) /\ Len(e) = Len(s) + 1
    OBVIOUS
  <2> HIDE DEF e
  <2> QED
    BY <2>1
<1>3. \A i \in 1 .. Len(s) + 1 : e[i] = r[i]
  BY <1>1
<1> HIDE DEF e
<1>4. e = r
  BY <1>2, <1>3
<1> QED
  BY <1>4 DEF e

(* A node less is an item less.                                            *)
LEMMA WithoutIsExcept ==
    ASSUME NEW p, IsChain(list, p), NEW k \in 1 .. list.size, IsWithout(list', list, p, k)
    PROVE  ItemsOf(list') = ListItems!Except(k)
<1> DEFINE n == list.size
           q == Skip(p, n, k)
           c(i) == Content(list.heap[p[i]].content)
<1>1. /\ IsChain(list', q) /\ list'.size = n - 1
      /\ \A i \in 1 .. list'.size :
            list'.heap[q[i]].content = list.heap[p[IF i < k THEN i ELSE i + 1]].content
  BY WithoutIsChain
<1>2. ItemsOf(list) = [i \in 1 .. n |-> c(i)] /\ Len(ItemsOf(list)) = n /\ n \in Nat
  BY ItemsAre
<1> HIDE DEF q
<1>3. ItemsOf(list') = [i \in 1 .. n - 1 |-> Content(list'.heap[q[i]].content)]
  BY <1>1, ItemsAre
<1>4. \A i \in 1 .. n - 1 : Content(list'.heap[q[i]].content) = c(IF i < k THEN i ELSE i + 1)
  BY <1>1
<1>5. \A i \in 1 .. n - 1 : (IF i < k THEN i ELSE i + 1) \in 1 .. n
  BY <1>2
<1> HIDE DEF n, c
<1>6. ItemsOf(list') = [i \in 1 .. n - 1 |-> ItemsOf(list)[IF i < k THEN i ELSE i + 1]]
  BY <1>2, <1>3, <1>4, <1>5
<1> QED
  BY <1>2, <1>6 DEF ListItems!Except

LEMMA ListMethodsImplementItems ==
    ASSUME IsList(list), ListNext
    PROVE  ListItems!ItemsNext
<1> DEFINE X == [key : Values, value : Values]
           n == list.size
<1>1. PICK p : IsChain(list, p)
  BY DEF IsList
<1>2. /\ ItemsOf(list) = [i \in 1 .. n |-> Content(list.heap[p[i]].content)]
      /\ Len(ItemsOf(list)) = n /\ DOMAIN ItemsOf(list) = 1 .. n
      /\ ItemsOf(list) \in Seq(X) /\ n \in Nat
  BY <1>1, ItemsAre
<1>3. \A t \in Values : Content(t) \in X /\ Content(t) \in ListItems!Item
  BY DEF Content, ListItems!Item
<1>4. ASSUME NEW t \in Values, ListAddToFront(t)
      PROVE  ListItems!AddToFront(Content(t))
  <2> DEFINE m == addToFront(list, t)
             q == InFront(p, n, Fresh(list))
  <2>1. /\ list' = m /\ listCall' = Call("addToFront", Content(t), NULL)
        /\ IsChain(m, q) /\ m.size = n + 1
        /\ m.heap[q[1]].content = t
        /\ \A i \in 1 .. n : m.heap[q[i + 1]].content = list.heap[p[i]].content
    BY <1>1, <1>4, FrontKeeps DEF ListAddToFront
  <2> HIDE DEF m, q
  <2>2. ItemsOf(m) = [i \in 1 .. n + 1 |-> Content(m.heap[q[i]].content)]
    BY <2>1, ItemsAre
  <2>3. \A i \in 1 .. n + 1 : Content(m.heap[q[i]].content) = IF i = 1 THEN Content(t) ELSE ItemsOf(list)[i - 1]
    <3> SUFFICES ASSUME NEW i \in 1 .. n + 1, i # 1
                 PROVE  Content(m.heap[q[i]].content) = ItemsOf(list)[i - 1]
      BY <2>1
    <3>1. i - 1 \in 1 .. n /\ (i - 1) + 1 = i
      BY <1>2
    <3>2. m.heap[q[i]].content = list.heap[p[i - 1]].content
      BY <2>1, <3>1
    <3> QED
      BY <1>2, <3>1, <3>2
  <2>4. ItemsOf(m) = [i \in 1 .. Len(ItemsOf(list)) + 1 |-> IF i = 1 THEN Content(t) ELSE ItemsOf(list)[i - 1]]
    BY <1>2, <2>2, <2>3
  <2>5. ItemsOf(m) = <<Content(t)>> \o ItemsOf(list)
    BY <1>2, <1>3, <2>4, InFrontIs
  <2> QED
    BY <2>1, <2>5 DEF ListItems!AddToFront, ListItems!Returns, Call
<1>5. ASSUME NEW t \in Values, ListAddToBack(t)
      PROVE  ListItems!AddToBack(Content(t))
  <2> DEFINE m == addToBack(list, t)
             q == Behind(p, n, Fresh(list))
  <2>1. /\ list' = m /\ listCall' = Call("addToBack", Content(t), NULL)
        /\ IsChain(m, q) /\ m.size = n + 1
        /\ m.heap[q[n + 1]].content = t
        /\ \A i \in 1 .. n : m.heap[q[i]].content = list.heap[p[i]].content
    BY <1>1, <1>5, BackKeeps DEF ListAddToBack
  <2> HIDE DEF m, q
  <2>2. ItemsOf(m) = [i \in 1 .. n + 1 |-> Content(m.heap[q[i]].content)]
    BY <2>1, ItemsAre
  <2>3. \A i \in 1 .. n + 1 : Content(m.heap[q[i]].content) = IF i <= n THEN ItemsOf(list)[i] ELSE Content(t)
    <3>1. \A i \in 1 .. n + 1 : i \in 1 .. n \/ (i = n + 1 /\ ~(i <= n))
      BY <1>2
    <3> QED
      BY <1>2, <2>1, <3>1
  <2>4. ItemsOf(m) = [i \in 1 .. Len(ItemsOf(list)) + 1 |-> IF i <= Len(ItemsOf(list)) THEN ItemsOf(list)[i] ELSE Content(t)]
    BY <1>2, <2>2, <2>3
  <2>5. ItemsOf(m) = Append(ItemsOf(list), Content(t))
    BY <1>2, <1>3, <2>4, BehindIs
  <2> QED
    BY <2>1, <2>5 DEF ListItems!AddToBack, ListItems!Returns, Call
<1>6. ASSUME NEW t \in Values, ListRemoveNode(t)
      PROVE  ListItems!Remove(t)
  <2>1. n # 0
    BY <1>1, <1>6 DEF ListRemoveNode, IsChain
  <2>2. list' = removeNode(list, t).list /\ listCall' = Call("remove", t, removeNode(list, t).ret)
    BY <1>6 DEF ListRemoveNode
  <2>3. CASE /\ \A i \in 1 .. n : list.heap[p[i]].content # t
             /\ list' = list /\ removeNode(list, t).ret = NULL
    <3>1. ~ListItems!Has(t)
      BY <1>2, <2>3 DEF ListItems!Has, Content
    <3> QED
      BY <2>2, <2>3, <3>1 DEF ListItems!Remove, ListItems!Returns, Call
  <2>4. CASE \E k \in 1 .. n :
                /\ IsWithout(list', list, p, k)
                /\ list.heap[p[k]].content = t
                /\ \A i \in 1 .. k - 1 : list.heap[p[i]].content # t
                /\ removeNode(list, t).ret = t
    <3>1. PICK k \in 1 .. n :
             /\ IsWithout(list', list, p, k)
             /\ list.heap[p[k]].content = t
             /\ \A i \in 1 .. k - 1 : list.heap[p[i]].content # t
             /\ removeNode(list, t).ret = t
      BY <2>4
    <3>2. ItemsOf(list') = ListItems!Except(k)
      BY <1>1, <3>1, WithoutIsExcept
    <3>3. k \in DOMAIN ItemsOf(list) /\ ItemsOf(list)[k] = Content(t) /\ 1 .. k - 1 \subseteq 1 .. n
      BY <1>2, <3>1
    <3>4. ListItems!IsFirst(k, t)
      BY <1>2, <3>1, <3>3 DEF ListItems!IsFirst, Content
    <3>5. listCall' = Call("remove", t, t) /\ ItemsOf(list)[k].value = t
      BY <2>2, <3>1, <3>3 DEF Content
    <3> QED
      BY <3>2, <3>3, <3>4, <3>5 DEF ListItems!Remove, ListItems!Returns, Call
  <2> QED
    BY <1>1, <2>1, <2>2, <2>3, <2>4, RemoveNodeKeeps
<1>7. ASSUME NEW t \in Values, ListFind(t)
      PROVE  ListItems!Find(Content(t))
  <2>1. Holding(list, t) = {i \in 1 .. n : list.heap[p[i]].content = t}
    BY <1>1, ContentsAre DEF Holding
  <2>2. Holding(list, t) # {} <=> \E i \in DOMAIN ItemsOf(list) : ItemsOf(list)[i] = Content(t)
    <3>1. \A i \in 1 .. n : list.heap[p[i]].content = t <=> ItemsOf(list)[i] = Content(t)
      BY <1>2 DEF Content
    <3> QED
      BY <1>2, <2>1, <3>1
  <2>3. Content(t).value = t
    BY DEF Content
  <2> QED
    BY <1>7, <2>2, <2>3 DEF ListFind, ListItems!Find, ListItems!Returns, Call
<1>8. ASSUME ListRemoveFromFront
      PROVE  ListItems!RemoveFromFront
  <2>1. list' = removeFromFront(list).list
        /\ listCall' = Call("removeFromFront", NULL, removeFromFront(list).ret)
    BY <1>8 DEF ListRemoveFromFront
  <2>2. CASE n = 0
    <3>1. list' = list /\ removeFromFront(list).ret = NULL
      BY <1>1, <2>1, <2>2, RemoveFrontKeeps
    <3>2. ItemsOf(list) = <<>>
      BY <1>2, <2>2
    <3> QED
      BY <2>1, <3>1, <3>2 DEF ListItems!RemoveFromFront, ListItems!Returns, Call
  <2>3. CASE n # 0
    <3>1. IsWithout(list', list, p, 1) /\ removeFromFront(list).ret = list.heap[p[1]].content
      BY <1>1, <2>1, <2>3, RemoveFrontKeeps
    <3>2. 1 \in 1 .. n
      BY <1>2, <2>3
    <3>3. ItemsOf(list') = ListItems!Except(1)
      BY <1>1, <3>1, <3>2, WithoutIsExcept
    <3>4. ItemsOf(list) # <<>> /\ ItemsOf(list)[1].value = list.heap[p[1]].content
      BY <1>2, <2>3, <3>2 DEF Content
    <3> QED
      BY <2>1, <3>1, <3>3, <3>4 DEF ListItems!RemoveFromFront, ListItems!Returns, Call
  <2> QED
    BY <2>2, <2>3
<1>9. ASSUME ListRemoveAll
      PROVE  ListItems!Clear
  <2>1. PICK q : IsChain(list', q) /\ list'.size = 0
    BY <1>9, RemoveAllKeeps DEF ListRemoveAll, IsList
  <2>2. ItemsOf(list') = [i \in 1 .. 0 |-> Content(list'.heap[q[i]].content)]
    BY <2>1, ItemsAre
  <2>3. ItemsOf(list') = <<>>
    BY <2>2
  <2> QED
    BY <1>9, <2>3 DEF ListRemoveAll, ListItems!Clear, ListItems!Returns, Call
<1> QED
  BY <1>3, <1>4, <1>5, <1>6, <1>7, <1>8, <1>9 DEF ListNext, ListItems!ItemsNext

-----------------------------------------------------------------------------
(* The loops over the map                                                  *)

Dropping == INSTANCE Folding WITH Op <- DropRound
Searching == INSTANCE Folding WITH Op <- SearchRound

(* Of the first n mappings of m, the list of s up to slot i holds those in *)
(* the given places, which are the ones that are not below v.              *)
Keeps(m, v, s, n, place) ==
    /\ place \in [1 .. s.i -> 1 .. n]
    /\ \A i, j \in 1 .. s.i : i < j => place[i] < place[j]
    /\ \A i \in 1 .. s.i : /\ m.mappings[place[i] - 1].value >= v
                           /\ s.map.mappings[i - 1] = m.mappings[place[i] - 1]
    /\ \A k \in 1 .. n : m.mappings[k - 1].value >= v => \E i \in 1 .. s.i : place[i] = k

(* After n rounds the first n mappings of m have been seen, and those of   *)
(* them that are not below v are still there, before the mappings that     *)
(* have not been seen.                                                     *)
Seen(m, v, s, n) ==
    /\ s = [map |-> s.map, i |-> s.i]
    /\ IsMap(s.map)
    /\ s.i \in 0 .. n
    /\ s.map.length = s.i + (m.length - n)
    /\ \A j \in 1 .. m.length - n : s.map.mappings[s.i + j - 1] = m.mappings[n + j - 1]
    /\ \E place : Keeps(m, v, s, n, place)

LEMMA WithoutIs ==
    ASSUME NEW m, IsMap(m), NEW i \in 0 .. m.length - 1
    PROVE  \A j \in 0 .. m.length - 2 :
              Without(m, i).mappings[j] = m.mappings[IF j < i THEN j ELSE j + 1]
<1> DEFINE w == Without(m, i)
<1>1. IsMap(w) /\ w.length = m.length - 1 /\ m.length \in Nat
  BY WithoutKeeps, StoredIs DEF Without
<1>2. Stored(w) = [j \in 1 .. Len(Stored(m)) - 1 |-> Stored(m)[IF j < i + 1 THEN j ELSE j + 1]]
  BY WithoutKeeps
<1>3. /\ Len(Stored(m)) = m.length
      /\ \A j \in 1 .. m.length : Stored(m)[j] = m.mappings[j - 1]
      /\ \A j \in 1 .. w.length : Stored(w)[j] = w.mappings[j - 1]
  BY <1>1, StoredIs
<1> HIDE DEF w
<1> SUFFICES ASSUME NEW j \in 0 .. m.length - 2
             PROVE  w.mappings[j] = m.mappings[IF j < i THEN j ELSE j + 1]
  BY DEF w
<1> DEFINE h == IF j + 1 < i + 1 THEN j + 1 ELSE j + 2
<1>4. /\ h \in 1 .. m.length /\ h - 1 = IF j < i THEN j ELSE j + 1
      /\ j + 1 \in 1 .. m.length - 1 /\ (j + 1) - 1 = j /\ (j + 1) + 1 = j + 2
  BY <1>1
<1>5. Stored(w)[j + 1] = Stored(m)[h]
  BY <1>2, <1>3, <1>4
<1> HIDE DEF h
<1>6. Stored(w)[j + 1] = w.mappings[j] /\ Stored(m)[h] = m.mappings[h - 1]
  BY <1>1, <1>3, <1>4
<1> QED
  BY <1>4, <1>5, <1>6

(* Because of the order, no mapping before the one in slot i has its key   *)
(* if that one is below v.                                                 *)
LEMMA OldestOfKey ==
    ASSUME NEW m, IsMap(m), InOrder(m), NEW v \in Values, NEW n \in 0 .. m.length - 1,
           NEW s, Seen(m, v, s, n), m.mappings[n].value < v
    PROVE  /\ s.i \in 0 .. s.map.length - 1
           /\ s.map.mappings[s.i] = m.mappings[n]
           /\ PlacesOf(s.map, m.mappings[n].key) # {}
           /\ Least(PlacesOf(s.map, m.mappings[n].key)) = s.i
<1> DEFINE k == m.mappings[n].key
<1>1. m.length \in Nat /\ s.i \in Nat /\ n \in Nat /\ n < m.length
  BY StoredIs DEF Seen
<1>2. s.map.length = s.i + (m.length - n) /\ IsMap(s.map)
  BY DEF Seen
<1>3. s.i \in 0 .. s.map.length - 1
  BY <1>1, <1>2
<1>4. s.map.mappings[s.i] = m.mappings[n]
  <2>1. 1 \in 1 .. m.length - n /\ s.i + 1 - 1 = s.i /\ n + 1 - 1 = n
    BY <1>1
  <2>2. s.map.mappings[s.i + 1 - 1] = m.mappings[n + 1 - 1]
    BY <2>1 DEF Seen
  <2> QED
    BY <2>1, <2>2
<1>5. s.i \in PlacesOf(s.map, k)
  BY <1>3, <1>4 DEF PlacesOf
<1>6. ASSUME NEW j \in 0 .. s.i - 1
      PROVE  j \notin PlacesOf(s.map, k)
  <2>1. PICK place \in [1 .. s.i -> 1 .. n] :
           \A i \in 1 .. s.i : /\ m.mappings[place[i] - 1].value >= v
                               /\ s.map.mappings[i - 1] = m.mappings[place[i] - 1]
    BY DEF Seen, Keeps
  <2>2. j + 1 \in 1 .. s.i /\ (j + 1) - 1 = j
    BY <1>1
  <2> DEFINE p == place[j + 1] - 1
  <2>3. m.mappings[p].value >= v /\ s.map.mappings[j] = m.mappings[p] /\ p \in 0 .. n - 1
    BY <1>1, <2>1, <2>2
  <2> HIDE DEF p
  <2>4. p \in 0 .. m.length - 1 /\ p < n /\ n \in 0 .. m.length - 1
    BY <1>1, <2>3
  <2>5. m.mappings[p].value \in Nat /\ m.mappings[n].value \in Nat /\ v \in Nat
    BY <2>4, ContainersAssumption DEF IsMap, IsMapOf, Mapping
  <2>6. ~(m.mappings[p].value < m.mappings[n].value)
    BY <2>3, <2>5
  <2>7. m.mappings[p].key # m.mappings[n].key
    BY <2>4, <2>6 DEF InOrder
  <2> QED
    BY <2>3, <2>7 DEF PlacesOf
<1>7. PlacesOf(s.map, k) \subseteq Nat
  BY <1>2, StoredIs DEF PlacesOf
<1>8. Least(PlacesOf(s.map, k)) \in PlacesOf(s.map, k) /\ Least(PlacesOf(s.map, k)) <= s.i
  BY <1>5, <1>7, LeastIs
<1>9. Least(PlacesOf(s.map, k)) \in Nat /\ ~(Least(PlacesOf(s.map, k)) < s.i)
  BY <1>1, <1>6, <1>7, <1>8
<1> QED
  BY <1>1, <1>3, <1>4, <1>5, <1>8, <1>9

LEMMA RoundSees ==
    ASSUME NEW m, IsMap(m), InOrder(m), NEW v \in Values, NEW n \in 0 .. m.length - 1,
           NEW s, Seen(m, v, s, n)
    PROVE  Seen(m, v, DropRound(s, v), n + 1)
<1> DEFINE t == DropRound(s, v)
           N == m.length
<1>1. N \in Nat /\ s.i \in Nat /\ n \in Nat /\ n < N /\ IsMap(s.map) /\ s.i <= n
  BY StoredIs DEF Seen
<1>2. s.map.length = s.i + (N - n) /\ s.map.length \in Nat
  BY <1>1, StoredIs DEF Seen
<1>2a. \A j \in 1 .. N - n : s.map.mappings[s.i + j - 1] = m.mappings[n + j - 1]
  BY DEF Seen
<1>3. ~(s.i >= s.map.length)
  BY <1>1, <1>2
<1>4. s.map.mappings[s.i] = m.mappings[n]
  <2>1. 1 \in 1 .. N - n /\ s.i + 1 - 1 = s.i /\ n + 1 - 1 = n
    BY <1>1
  <2> QED
    BY <2>1, <1>2a
<1>5a. PICK place : Keeps(m, v, s, n, place)
  BY DEF Seen
<1>5. /\ place \in [1 .. s.i -> 1 .. n]
      /\ \A i, j \in 1 .. s.i : i < j => place[i] < place[j]
      /\ \A i \in 1 .. s.i : /\ m.mappings[place[i] - 1].value >= v
                             /\ s.map.mappings[i - 1] = m.mappings[place[i] - 1]
      /\ \A k \in 1 .. n : m.mappings[k - 1].value >= v => \E i \in 1 .. s.i : place[i] = k
  BY <1>5a DEF Keeps
<1>6. m.mappings[n].value \in Nat /\ v \in Nat
  BY <1>1, ContainersAssumption DEF IsMap, IsMapOf, Mapping
<1>7. \A j \in 1 .. N - (n + 1) : j + 1 \in 1 .. N - n /\ n + (j + 1) - 1 = (n + 1) + j - 1
  BY <1>1
<1>8. CASE m.mappings[n].value < v
  <2> DEFINE w == Without(s.map, s.i)
  <2>1. t = [map |-> w, i |-> s.i]
    <3>1. /\ s.i \in 0 .. s.map.length - 1 /\ PlacesOf(s.map, m.mappings[n].key) # {}
          /\ Least(PlacesOf(s.map, m.mappings[n].key)) = s.i
      BY <1>8, OldestOfKey
    <3>2. removeMappingAt(s.map, s.i) = w
      BY <1>2, <1>4, <3>1 DEF removeMappingAt, removeMapping
    <3> QED
      BY <1>3, <1>4, <1>8, <3>2 DEF DropRound
  <2>2. s.i \in 0 .. s.map.length - 1
    BY <1>1, <1>3, <1>2
  <2>3. IsMap(w) /\ w.length = s.map.length - 1
    BY <1>1, <2>2, WithoutKeeps DEF Without
  <2>4. \A j \in 0 .. s.map.length - 2 : w.mappings[j] = s.map.mappings[IF j < s.i THEN j ELSE j + 1]
    BY <1>1, <2>2, WithoutIs
  <2> HIDE DEF w
  <2>5. w.length = s.i + (N - (n + 1))
    BY <1>1, <1>2, <2>3
  <2>6. ASSUME NEW j \in 1 .. N - (n + 1)
        PROVE  w.mappings[s.i + j - 1] = m.mappings[(n + 1) + j - 1]
    <3> DEFINE h == s.i + j - 1
    <3>1. h \in 0 .. s.map.length - 2 /\ ~(h < s.i) /\ h + 1 = s.i + (j + 1) - 1
      BY <1>1, <1>2
    <3>2. w.mappings[h] = s.map.mappings[h + 1]
      <4> HIDE DEF h
      <4> QED
        BY <2>4, <3>1
    <3>3. s.map.mappings[s.i + (j + 1) - 1] = m.mappings[n + (j + 1) - 1]
      BY <1>2a, <1>7
    <3> QED
      BY <1>7, <3>1, <3>2, <3>3
  <2>7. \A i \in 1 .. s.i : w.mappings[i - 1] = s.map.mappings[i - 1]
    <3>1. \A i \in 1 .. s.i : i - 1 \in 0 .. s.map.length - 2 /\ i - 1 < s.i
      BY <1>1, <1>2
    <3> QED
      BY <2>4, <3>1
  <2>8. place \in [1 .. s.i -> 1 .. n + 1]
    BY <1>1, <1>5
  <2>9. \A k \in 1 .. n + 1 : m.mappings[k - 1].value >= v => k \in 1 .. n
    <3>1. \A k \in 1 .. n + 1 : k \in 1 .. n \/ k - 1 = n
      BY <1>1
    <3>2. ~(m.mappings[n].value >= v)
      BY <1>6, <1>8
    <3> QED
      BY <3>1, <3>2
  <2>10. t.map = w /\ t.i = s.i /\ t = [map |-> t.map, i |-> t.i] /\ t.i \in 0 .. n + 1
    BY <1>1, <2>1
  <2> HIDE DEF t, N
  <2>11. Keeps(m, v, t, n + 1, place)
    BY <1>5, <2>7, <2>8, <2>9, <2>10 DEF Keeps
  <2>12. \A j \in 1 .. m.length - (n + 1) : t.map.mappings[t.i + j - 1] = m.mappings[(n + 1) + j - 1]
    BY <2>6, <2>10 DEF N
  <2>13. t.map.length = t.i + (m.length - (n + 1)) /\ IsMap(t.map)
    BY <2>3, <2>5, <2>10 DEF N
  <2>14. Seen(m, v, t, n + 1)
    BY <2>10, <2>11, <2>12, <2>13 DEF Seen
  <2> QED
    BY <2>14 DEF t
<1>9. CASE ~(m.mappings[n].value < v)
  <2>1. t = [map |-> s.map, i |-> s.i + 1]
    BY <1>3, <1>4, <1>9 DEF DropRound
  <2>2. t.map = s.map /\ t.i = s.i + 1 /\ t = [map |-> t.map, i |-> t.i] /\ t.i \in 0 .. n + 1
    BY <1>1, <2>1
  <2> DEFINE q == [i \in 1 .. s.i + 1 |-> IF i <= s.i THEN place[i] ELSE n + 1]
  <2>3. \A i \in 1 .. s.i + 1 : i \in 1 .. s.i \/ (i = s.i + 1 /\ ~(i <= s.i))
    BY <1>1
  <2>4. q[s.i + 1] = n + 1 /\ \A i \in 1 .. s.i : q[i] = place[i] /\ q[i] \in 1 .. n
    <3>1. s.i + 1 \in 1 .. s.i + 1 /\ ~(s.i + 1 <= s.i)
      BY <1>1
    <3>2. \A i \in 1 .. s.i : i \in 1 .. s.i + 1 /\ i <= s.i
      BY <1>1
    <3>3. \A i \in 1 .. s.i : place[i] \in 1 .. n
      BY <1>5
    <3> QED
      BY <3>1, <3>2, <3>3
  <2>5. q \in [1 .. s.i + 1 -> 1 .. n + 1]
    <3>1. n + 1 \in 1 .. n + 1 /\ 1 .. n \subseteq 1 .. n + 1
      BY <1>1
    <3>2. \A i \in 1 .. s.i + 1 : q[i] \in 1 .. n + 1
      BY <2>3, <2>4, <3>1
    <3>3. q = [i \in 1 .. s.i + 1 |-> q[i]]
      OBVIOUS
    <3> HIDE DEF q
    <3> QED
      BY <3>2, <3>3
  <2> HIDE DEF q, t, N
  <2>6. \A i, j \in 1 .. s.i + 1 : i < j => q[i] < q[j]
    <3> SUFFICES ASSUME NEW i \in 1 .. s.i + 1, NEW j \in 1 .. s.i + 1, i < j
                 PROVE  q[i] < q[j]
      OBVIOUS
    <3>1. i \in 1 .. s.i
      BY <1>1
    <3>2. CASE j \in 1 .. s.i
      BY <1>5, <2>4, <3>1, <3>2
    <3>3. CASE j = s.i + 1
      BY <1>1, <2>4, <3>1, <3>3
    <3> QED
      BY <2>3, <3>2, <3>3
  <2>7. \A i \in 1 .. s.i + 1 : /\ m.mappings[q[i] - 1].value >= v
                                /\ s.map.mappings[i - 1] = m.mappings[q[i] - 1]
    <3> SUFFICES ASSUME NEW i \in 1 .. s.i + 1
                 PROVE  /\ m.mappings[q[i] - 1].value >= v
                        /\ s.map.mappings[i - 1] = m.mappings[q[i] - 1]
      OBVIOUS
    <3>1. CASE i \in 1 .. s.i
      BY <1>5, <2>4, <3>1
    <3>2. CASE i = s.i + 1
      <4>1. q[i] - 1 = n /\ i - 1 = s.i
        BY <1>1, <2>4, <3>2
      <4>2. m.mappings[n].value >= v
        BY <1>6, <1>9
      <4> QED
        BY <1>4, <4>1, <4>2
    <3> QED
      BY <2>3, <3>1, <3>2
  <2>8. \A k \in 1 .. n + 1 : m.mappings[k - 1].value >= v => \E i \in 1 .. s.i + 1 : q[i] = k
    <3> SUFFICES ASSUME NEW k \in 1 .. n + 1, m.mappings[k - 1].value >= v
                 PROVE  \E i \in 1 .. s.i + 1 : q[i] = k
      OBVIOUS
    <3>1. CASE k \in 1 .. n
      <4>1. PICK i \in 1 .. s.i : place[i] = k
        BY <1>5, <3>1
      <4>2. i \in 1 .. s.i + 1
        BY <1>1
      <4> QED
        BY <2>4, <4>1, <4>2
    <3>2. CASE k = n + 1
      <4>1. s.i + 1 \in 1 .. s.i + 1
        BY <1>1
      <4> QED
        BY <2>4, <3>2, <4>1
    <3> QED
      BY <1>1, <3>1, <3>2
  <2>9. Keeps(m, v, t, n + 1, q)
    BY <2>2, <2>5, <2>6, <2>7, <2>8 DEF Keeps
  <2>10. \A j \in 1 .. N - (n + 1) : t.map.mappings[t.i + j - 1] = m.mappings[(n + 1) + j - 1]
    <3> SUFFICES ASSUME NEW j \in 1 .. N - (n + 1)
                 PROVE  s.map.mappings[(s.i + 1) + j - 1] = m.mappings[(n + 1) + j - 1]
      BY <2>2
    <3>1. s.map.mappings[s.i + (j + 1) - 1] = m.mappings[n + (j + 1) - 1]
      BY <1>2a, <1>7
    <3>2. s.i + (j + 1) - 1 = (s.i + 1) + j - 1
      BY <1>1
    <3> QED
      BY <1>7, <3>1, <3>2
  <2>11. t.map.length = t.i + (N - (n + 1)) /\ IsMap(t.map)
    BY <1>1, <1>2, <2>2
  <2>12. Seen(m, v, t, n + 1)
    BY <2>2, <2>9, <2>10, <2>11 DEF Seen, N
  <2> QED
    BY <2>12 DEF t
<1> QED
  BY <1>8, <1>9

(* As many rounds as there are mappings see them all.                      *)
LEMMA DroppedIs ==
    ASSUME NEW m, IsMap(m), InOrder(m), NEW v \in Values
    PROVE  \E place : /\ IsMap(Dropped(m, v))
                      /\ place \in [1 .. Dropped(m, v).length -> 1 .. m.length]
                      /\ Keeps(m, v, [map |-> Dropped(m, v), i |-> Dropped(m, v).length], m.length, place)
<1> DEFINE base == [map |-> m, i |-> 0]
           N == m.length
           vs == [j \in 1 .. N |-> v]
           F(s) == Dropping!Fold(base, s)
           T == {s \in Seq({v}) : Len(s) <= N => Seen(m, v, F(s), Len(s))}
<1>1. N \in Nat
  BY StoredIs
<1>2. Dropped(m, v) = F(vs).map
  BY DEF Dropped, Dropping!Fold, FoldLeft, MapThenFoldSet, Dropping!FoldLeft,
         Dropping!MapThenFoldSet, Max, Dropping!Max
<1>3. <<>> \in T
  <2>1. F(<<>>) = base /\ Len(<<>>) = 0 /\ <<>> \in Seq({v})
    BY Dropping!FoldEmpty
  <2>2. Keeps(m, v, base, 0, <<>>)
    BY DEF Keeps
  <2>3. /\ base = [map |-> base.map, i |-> base.i] /\ base.map = m /\ base.i = 0
        /\ N = 0 + (N - 0) /\ \A j \in 1 .. N - 0 : 0 + j - 1 = 0 + j - 1
    BY <1>1
  <2> HIDE DEF base
  <2>4. Seen(m, v, base, 0)
    BY <2>2, <2>3 DEF Seen
  <2> HIDE DEF F
  <2> QED
    BY <2>1, <2>4
<1>4. ASSUME NEW r \in Seq({v}), NEW x \in {v}, r \in T
      PROVE  Append(r, x) \in T
  <2>1. F(Append(r, x)) = DropRound(F(r), v)
    BY Dropping!FoldAppend
  <2>2. Append(r, x) \in Seq({v}) /\ Len(Append(r, x)) = Len(r) + 1 /\ Len(r) \in Nat
    OBVIOUS
  <2> SUFFICES ASSUME Len(r) + 1 <= N
               PROVE  Seen(m, v, F(Append(r, x)), Len(r) + 1)
    BY <2>2
  <2> HIDE DEF F
  <2>3. Len(r) \in 0 .. m.length - 1 /\ Seen(m, v, F(r), Len(r))
    BY <1>1, <1>4, <2>2
  <2> QED
    BY <2>1, <2>3, RoundSees
<1> HIDE DEF T
<1>5. Seq({v}) \subseteq T
  BY <1>3, <1>4, Dropping!SequenceInduction
<1>6. vs \in Seq({v}) /\ Len(vs) = N
  <2>1. vs \in Seq({v}) /\ vs = [j \in 1 .. N |-> vs[j]]
    BY <1>1
  <2> HIDE DEF vs, N
  <2> QED
    BY <1>1, <2>1, LengthOf
<1> HIDE DEF F, vs
<1>7. Seen(m, v, F(vs), N)
  BY <1>1, <1>5, <1>6 DEF T
<1>8. PICK s : s = F(vs)
  OBVIOUS
<1>9. PICK place : Keeps(m, v, s, N, place)
  BY <1>7, <1>8 DEF Seen
<1>10. s.map = Dropped(m, v) /\ IsMap(s.map) /\ s.i = s.map.length
  <2>1. s.map = Dropped(m, v) /\ Seen(m, v, s, N)
    BY <1>2, <1>7, <1>8
  <2>2. IsMap(s.map) /\ s.i \in Nat /\ s.map.length = s.i + (N - N)
    BY <1>1, <2>1 DEF Seen
  <2> QED
    BY <1>1, <2>1, <2>2
<1>11. Keeps(m, v, [map |-> Dropped(m, v), i |-> Dropped(m, v).length], N, place)
  BY <1>9, <1>10 DEF Keeps
<1> QED
  BY <1>9, <1>10, <1>11 DEF Keeps

(* The loop that drops mappings implements the dropping of items.          *)
LEMMA DropImplements ==
    ASSUME IsMap(map), NEW v \in Values, DropOld(v)
    PROVE  IsMap(map') /\ MapItems!Drop(v)
<1> DEFINE N == map.length
           L == map'.length
<1>1. map' = Dropped(map, v) /\ InOrder(map) /\ mapCall' = Call("drop", v, NULL)
  BY DEF DropOld
<1>2. PICK place : /\ IsMap(map') /\ place \in [1 .. L -> 1 .. N]
                   /\ Keeps(map, v, [map |-> map', i |-> L], N, place)
  BY <1>1, DroppedIs
<1>3. /\ Len(Stored(map)) = N /\ DOMAIN Stored(map) = 1 .. N
      /\ \A j \in 1 .. N : Stored(map)[j] = map.mappings[j - 1]
  BY StoredIs
<1>4. /\ Len(Stored(map')) = L /\ Stored(map') = [j \in 1 .. L |-> Stored(map')[j]]
      /\ \A j \in 1 .. L : Stored(map')[j] = map'.mappings[j - 1]
  BY <1>2, StoredIs
<1>5. /\ \A i, j \in 1 .. L : i < j => place[i] < place[j]
      /\ \A i \in 1 .. L : /\ map.mappings[place[i] - 1].value >= v
                           /\ map'.mappings[i - 1] = map.mappings[place[i] - 1]
      /\ \A k \in 1 .. N : map.mappings[k - 1].value >= v => \E i \in 1 .. L : place[i] = k
  BY <1>2 DEF Keeps
<1> HIDE DEF N, L
<1>6. \A i \in 1 .. L : /\ place[i] \in 1 .. N
                        /\ Stored(map')[i] = Stored(map)[place[i]]
                        /\ Stored(map)[place[i]].value >= v
  BY <1>2, <1>3, <1>4, <1>5
<1>7. {place[i] : i \in 1 .. L} = {i \in 1 .. N : Stored(map)[i].value >= v}
  BY <1>3, <1>5, <1>6
<1>8. Stored(map') = [i \in 1 .. L |-> Stored(map)[place[i]]]
  BY <1>4, <1>6
<1>9. DOMAIN place = 1 .. L
  BY <1>2
<1>10. place \in [1 .. Len(Stored(map')) -> DOMAIN Stored(map)]
  BY <1>2, <1>3, <1>4
<1>11. \A i, j \in DOMAIN place : i < j => place[i] < place[j]
  BY <1>5, <1>9
<1>12. {place[i] : i \in DOMAIN place} = {i \in DOMAIN Stored(map) : Stored(map)[i].value >= v}
  BY <1>3, <1>7, <1>9
<1>13. Stored(map') = [i \in DOMAIN place |-> Stored(map)[place[i]]]
  BY <1>8, <1>9
<1>14. MapItems!Returns("drop", v, NULL)
  BY <1>1 DEF MapItems!Returns, Call
<1>15. MapItems!Drop(v)
  BY Zenon, <1>10, <1>11, <1>12, <1>13, <1>14 DEF MapItems!Drop
<1> QED
  BY <1>2, <1>15

-----------------------------------------------------------------------------
(* The search                                                              *)

LEMMA IndexIs ==
    ASSUME NEW m, IsMap(m), NEW k, NEW i \in Nat
    PROVE  \/ /\ getIndex(m, k, i) = -1
              /\ \A j \in PlacesOf(m, k) : j < i
           \/ /\ getIndex(m, k, i) \in PlacesOf(m, k)
              /\ getIndex(m, k, i) >= i
              /\ \A j \in PlacesOf(m, k) : j < i \/ j >= getIndex(m, k, i)
<1> DEFINE places == {j \in PlacesOf(m, k) : j >= i}
<1>1. PlacesOf(m, k) \subseteq Nat
  BY StoredIs DEF PlacesOf
<1>2. getIndex(m, k, i) = IF places = {} THEN -1 ELSE Least(places)
  BY DEF getIndex
<1>3. CASE places = {}
  BY <1>1, <1>2, <1>3
<1>4. CASE places # {}
  <2>1. places \subseteq Nat
    BY <1>1
  <2>2. Least(places) \in places /\ \A j \in places : Least(places) <= j
    BY <1>4, <2>1, LeastIs
  <2> QED
    BY <1>1, <1>2, <1>4, <2>2
<1> QED
  BY <1>3, <1>4

(* After n rounds, no place of the key before slot i has value v; slot i   *)
(* has it, or n places of the key have been passed.                        *)
SearchedTo(m, k, v, s, n) ==
    /\ s = [map |-> m, key |-> k, i |-> s.i]
    /\ \/ /\ s.i = -1
          /\ \A j \in PlacesOf(m, k) : m.mappings[j].value # v
       \/ /\ s.i \in PlacesOf(m, k)
          /\ \A j \in PlacesOf(m, k) : j < s.i => m.mappings[j].value # v
          /\ m.mappings[s.i].value = v \/ s.i >= n

LEMMA SearchedToIs ==
    ASSUME NEW m, NEW k, NEW v, NEW n, NEW i,
           \/ /\ i = -1
              /\ \A j \in PlacesOf(m, k) : m.mappings[j].value # v
           \/ /\ i \in PlacesOf(m, k)
              /\ \A j \in PlacesOf(m, k) : j < i => m.mappings[j].value # v
              /\ m.mappings[i].value = v \/ i >= n
    PROVE  SearchedTo(m, k, v, [map |-> m, key |-> k, i |-> i], n)
<1> DEFINE t == [map |-> m, key |-> k, i |-> i]
<1>1. t.i = i /\ t = [map |-> m, key |-> k, i |-> t.i]
  OBVIOUS
<1> HIDE DEF t
<1> QED
  BY <1>1 DEF SearchedTo

LEMMA RoundSearches ==
    ASSUME NEW m, IsMap(m), NEW k, NEW v, NEW n \in Nat, NEW s, SearchedTo(m, k, v, s, n)
    PROVE  SearchedTo(m, k, v, SearchRound(s, v), n + 1)
<1> DEFINE t == SearchRound(s, v)
<1>1. s = [map |-> m, key |-> k, i |-> s.i] /\ s.map = m /\ s.key = k
  BY DEF SearchedTo
<1>2. PlacesOf(m, k) \subseteq Nat
  BY StoredIs DEF PlacesOf
<1>3. CASE s.i = -1
  <2>1. t = s
    BY <1>3 DEF SearchRound
  <2>2. -1 \notin Nat
    OBVIOUS
  <2> QED
    BY <1>2, <1>3, <2>1, <2>2 DEF SearchedTo
<1>4. CASE s.i # -1 /\ m.mappings[s.i].value = v
  <2>1. t = s
    BY <1>1, <1>4 DEF SearchRound
  <2> QED
    BY <1>4, <2>1 DEF SearchedTo
<1>5. CASE s.i # -1 /\ m.mappings[s.i].value # v
  <2>1. /\ s.i \in PlacesOf(m, k) /\ s.i \in Nat /\ s.i >= n
        /\ \A j \in PlacesOf(m, k) : j < s.i => m.mappings[j].value # v
    BY <1>2, <1>5 DEF SearchedTo
  <2> DEFINE i == getIndex(m, k, s.i + 1)
  <2>2. t = [map |-> m, key |-> k, i |-> i]
    <3>1. t = [s EXCEPT !.i = i]
      BY <1>1, <1>5 DEF SearchRound
    <3> HIDE DEF i, t
    <3> QED
      BY <1>1, <3>1
  <2>3. t.i = i /\ t = [map |-> m, key |-> k, i |-> t.i]
    BY <2>2
  <2>4. \/ i = -1 /\ \A j \in PlacesOf(m, k) : j < s.i + 1
        \/ /\ i \in PlacesOf(m, k) /\ i >= s.i + 1
           /\ \A j \in PlacesOf(m, k) : j < s.i + 1 \/ j >= i
    BY <2>1, IndexIs
  <2>5. \A j \in PlacesOf(m, k) : j < s.i + 1 => m.mappings[j].value # v
    <3>1. \A j \in PlacesOf(m, k) : j < s.i + 1 => j < s.i \/ j = s.i
      BY <1>2, <2>1
    <3> QED
      BY <1>5, <2>1, <3>1
  <2> HIDE DEF i, t
  <2>6. CASE i = -1 /\ \A j \in PlacesOf(m, k) : j < s.i + 1
    <3>1. \A j \in PlacesOf(m, k) : m.mappings[j].value # v
      BY <2>5, <2>6
    <3> QED
      BY <2>2, <2>6, <3>1, SearchedToIs DEF t
  <2>7. CASE /\ i \in PlacesOf(m, k) /\ i >= s.i + 1
             /\ \A j \in PlacesOf(m, k) : j < s.i + 1 \/ j >= i
    <3>1. \A j \in PlacesOf(m, k) : j < i => m.mappings[j].value # v
      <4>1. \A j \in PlacesOf(m, k) : j < i => j < s.i + 1
        BY <1>2, <2>7
      <4> QED
        BY <2>5, <4>1
    <3>2. i >= n + 1
      <4>1. i \in Nat /\ i >= s.i + 1 /\ s.i \in Nat /\ s.i >= n
        BY <1>2, <2>1, <2>7
      <4> QED
        BY <4>1
    <3>3. SearchedTo(m, k, v, [map |-> m, key |-> k, i |-> i], n + 1)
      BY <2>7, <3>1, <3>2, SearchedToIs
    <3> QED
      BY <2>2, <3>3 DEF t
  <2> QED
    BY <2>4, <2>6, <2>7
<1> QED
  BY <1>3, <1>4, <1>5

LEMMA FoundIs ==
    ASSUME NEW m, IsMap(m), NEW k, NEW v
    PROVE  Found(m, k, v) = IF \E j \in PlacesOf(m, k) : m.mappings[j].value = v THEN v ELSE NULL
<1> DEFINE base == [map |-> m, key |-> k, i |-> getIndex(m, k, 0)]
           N == m.length
           vs == [j \in 1 .. N |-> v]
           F(s) == Searching!Fold(base, s)
           T == {s \in Seq({v}) : SearchedTo(m, k, v, F(s), Len(s))}
           last == F(vs)
<1>1. N \in Nat /\ PlacesOf(m, k) \subseteq Nat
  BY StoredIs DEF PlacesOf
<1>2. Found(m, k, v) = IF last.i = -1 THEN NULL ELSE m.mappings[last.i].value
  BY DEF Found, Searching!Fold, FoldLeft, MapThenFoldSet, Searching!FoldLeft,
         Searching!MapThenFoldSet, Max, Searching!Max
<1>3. <<>> \in T
  <2>1. F(<<>>) = base /\ Len(<<>>) = 0 /\ <<>> \in Seq({v})
    BY Searching!FoldEmpty
  <2>2. base = [map |-> m, key |-> k, i |-> base.i] /\ base.i = getIndex(m, k, 0)
    OBVIOUS
  <2> HIDE DEF base
  <2>3. \/ /\ base.i = -1
           /\ \A j \in PlacesOf(m, k) : j < 0
        \/ /\ base.i \in PlacesOf(m, k) /\ base.i >= 0
           /\ \A j \in PlacesOf(m, k) : j < 0 \/ j >= base.i
    BY <2>2, IndexIs, 0 \in Nat
  <2>4. SearchedTo(m, k, v, base, 0)
    BY <1>1, <2>2, <2>3 DEF SearchedTo
  <2> HIDE DEF F
  <2> QED
    BY <2>1, <2>4
<1>4. ASSUME NEW r \in Seq({v}), NEW x \in {v}, r \in T
      PROVE  Append(r, x) \in T
  <2>1. F(Append(r, x)) = SearchRound(F(r), v)
    BY Searching!FoldAppend
  <2>2. Append(r, x) \in Seq({v}) /\ Len(Append(r, x)) = Len(r) + 1 /\ Len(r) \in Nat
    OBVIOUS
  <2> HIDE DEF F
  <2> QED
    BY <1>4, <2>1, <2>2, RoundSearches
<1> HIDE DEF T
<1>5. Seq({v}) \subseteq T
  BY <1>3, <1>4, Searching!SequenceInduction
<1>6. vs \in Seq({v}) /\ Len(vs) = N
  <2>1. vs \in Seq({v}) /\ vs = [j \in 1 .. N |-> vs[j]]
    BY <1>1
  <2> HIDE DEF vs, N
  <2> QED
    BY <1>1, <2>1, LengthOf
<1> HIDE DEF F, vs
<1>7. SearchedTo(m, k, v, last, N)
  BY <1>5, <1>6 DEF T
<1> HIDE DEF last
<1>8. CASE last.i = -1
  <2>1. \A j \in PlacesOf(m, k) : m.mappings[j].value # v
    BY <1>1, <1>7, <1>8 DEF SearchedTo
  <2> QED
    BY <1>2, <1>8, <2>1
<1>9. CASE last.i # -1
  <2>1. last.i \in PlacesOf(m, k) /\ (m.mappings[last.i].value = v \/ last.i >= N)
    BY <1>7, <1>9 DEF SearchedTo
  <2>2. ~(last.i >= N)
    BY <1>1, <2>1 DEF PlacesOf
  <2> QED
    BY <1>2, <1>9, <2>1, <2>2
<1> QED
  BY <1>8, <1>9

LEMMA SearchImplements ==
    ASSUME IsMap(map), NEW k, NEW v, Search(k, v)
    PROVE  map' = map /\ MapItems!Find([key |-> k, value |-> v])
<1> DEFINE x == [key |-> k, value |-> v]
<1>1. map' = map /\ mapCall' = Call("find", x, Found(map, k, v))
  BY DEF Search
<1>2. /\ DOMAIN Stored(map) = 1 .. map.length /\ map.length \in Nat
      /\ \A j \in 1 .. map.length : Stored(map)[j] = map.mappings[j - 1]
  BY StoredIs
<1>3. \A i \in 0 .. map.length - 1 :
         map.mappings[i].key = k /\ map.mappings[i].value = v <=> map.mappings[i] = x
  BY DEF IsMap, IsMapOf, Mapping
<1>4. (\E j \in PlacesOf(map, k) : map.mappings[j].value = v)
        <=> \E j \in DOMAIN Stored(map) : Stored(map)[j] = x
  <2>1. ASSUME NEW j \in PlacesOf(map, k), map.mappings[j].value = v
        PROVE  \E h \in DOMAIN Stored(map) : Stored(map)[h] = x
    <3>1. j \in 0 .. map.length - 1 /\ map.mappings[j] = x
      BY <1>3, <2>1 DEF PlacesOf
    <3>2. j + 1 \in 1 .. map.length /\ (j + 1) - 1 = j
      BY <1>2, <3>1
    <3>3. Stored(map)[j + 1] = x
      <4> HIDE DEF x
      <4> QED
        BY <1>2, <3>1, <3>2
    <3> QED
      BY <1>2, <3>2, <3>3
  <2>2. ASSUME NEW j \in DOMAIN Stored(map), Stored(map)[j] = x
        PROVE  \E h \in PlacesOf(map, k) : map.mappings[h].value = v
    <3>1. j - 1 \in 0 .. map.length - 1 /\ map.mappings[j - 1] = x
      BY <1>2, <2>2
    <3> QED
      BY <3>1 DEF PlacesOf
  <2> QED
    BY <2>1, <2>2
<1>5. x.value = v
  OBVIOUS
<1> HIDE DEF x
<1>6. Found(map, k, v) = IF \E j \in DOMAIN Stored(map) : Stored(map)[j] = x THEN v ELSE NULL
  BY <1>4, FoundIs
<1>7. MapItems!Find(x)
  BY <1>1, <1>5, <1>6 DEF MapItems!Find, MapItems!Returns, Call
<1> QED
  BY <1>1, <1>7 DEF x

-----------------------------------------------------------------------------
(* Theorems                                                                *)

(* Every step is one of the methods or loops, or leaves things alone.      *)
LEMMA StepIs ==
    ASSUME [ContainersNext]_containers
    PROVE  /\ ListNext \/ UNCHANGED <<list, listCall>>
           /\ MapMethod \/ MapLoop \/ UNCHANGED <<map, mapCall>>
  BY DEF ContainersNext, MapNext, containers

LEMMA MapLoopImplementsItems ==
    ASSUME IsMap(map), MapLoop
    PROVE  IsMap(map') /\ MapItems!ItemsNext
<1>1. ASSUME NEW v \in Values, DropOld(v)
      PROVE  IsMap(map') /\ MapItems!Drop(v)
  BY <1>1, DropImplements
<1>2. ASSUME NEW k \in Keys, NEW v \in Values, Search(k, v)
      PROVE  IsMap(map') /\ \E x \in MapItems!Item : MapItems!Find(x)
  <2>1. [key |-> k, value |-> v] \in MapItems!Item
    BY DEF MapItems!Item
  <2> QED
    BY <1>2, <2>1, SearchImplements
<1> QED
  BY <1>1, <1>2 DEF MapLoop, MapItems!ItemsNext

LEMMA MapInvHolds == ContainersSpec => []MapInv
<1>1. ContainersInit => MapInv
  BY EmptyIsMap DEF ContainersInit, MapInv
<1>2. MapInv /\ [ContainersNext]_containers => MapInv'
  BY StepIs, MethodsKeepMap, MapLoopImplementsItems DEF MapInv
<1> QED
  BY <1>1, <1>2, PTL DEF ContainersSpec

LEMMA ListInvHolds == ContainersSpec => []ListInv
<1>1. ContainersInit => ListInv
  BY EmptyIsChain DEF ContainersInit, ListInv, IsList
<1>2. ListInv /\ [ContainersNext]_containers => ListInv'
  BY StepIs, ListMethodsKeep DEF ListInv
<1> QED
  BY <1>1, <1>2, PTL DEF ContainersSpec

(* Map: whatever is called, in whatever order, the mappings are within the *)
(* array and each of its slots in use has been written.                    *)
THEOREM ArrayHasRoom == ContainersSpec => []MapIsSound
<1> QED
  BY MapInvHolds, InvIsSound, PTL

(* Map: whatever its methods, and the loops over it, are called with, in   *)
(* whatever order, each has the effect on the stored mappings, and the     *)
(* result, that a list of items promises.                                  *)
THEOREM MethodsKeepItems == ContainersSpec => MapKeepsItems
<1>1. ContainersInit => MapItems!ItemsInit
  BY EmptyIsMap DEF ContainersInit, MapItems!ItemsInit, Call
<1>2. MapInv /\ [ContainersNext]_containers => [MapItems!ItemsNext]_<<Stored(map), mapCall>>
  BY StepIs, MethodsImplementItems, MapLoopImplementsItems DEF MapInv
<1> QED
  BY <1>1, <1>2, MapInvHolds, PTL DEF ContainersSpec, MapKeepsItems, MapItems!ItemsSpec

(* LinkedList: whatever its methods are called with, in whatever order,    *)
(* the nodes from start to end are all the nodes that have been allocated  *)
(* and not deleted.                                                        *)
THEOREM NodesFormAChain == ContainersSpec => []ListIsSound
<1> QED
  BY ListInvHolds, ListInvIsSound, PTL

(* LinkedList: whatever its methods are called with, in whatever order,    *)
(* each has the effect on the contents, and the result, that a list of     *)
(* items promises.                                                         *)
THEOREM NodesKeepItems == ContainersSpec => ListKeepsItems
<1>1. ContainersInit => ListItems!ItemsInit
  <2>1. ItemsOf(EmptyList) = <<>>
    <3>1. ItemsOf(EmptyList) = [i \in 1 .. 0 |-> Content(EmptyList.heap[<<>>[i]].content)]
      BY EmptyIsChain, ItemsAre DEF EmptyList
    <3> QED
      BY <3>1
  <2> QED
    BY <2>1 DEF ContainersInit, ListItems!ItemsInit, Call
<1>2. ListInv /\ [ContainersNext]_containers
        => [ListItems!ItemsNext]_<<ItemsOf(list), listCall>>
  BY StepIs, ListMethodsImplementItems DEF ListInv
<1> QED
  BY <1>1, <1>2, ListInvHolds, PTL DEF ContainersSpec, ListKeepsItems, ListItems!ItemsSpec

-----------------------------------------------------------------------------
(* Looking things up in a row                                              *)

Modules == Clients \cup Brokers

Filling == INSTANCE Folding WITH Op <- SetPair

Holds(m, x) == PlacesOf(m, x) # {}

(* A mapping that is set is found unless there is an older one of its key. *)
LEMMA SetGives ==
    ASSUME NEW S, NEW m, IsMapOf(m, S), NEW k, NEW v, [key |-> k, value |-> v] \in S, NEW x
    PROVE  /\ Holds(setMapping(m, k, v), x) <=> Holds(m, x) \/ x = k
           /\ getValue(setMapping(m, k, v), x) =
                IF Holds(m, x) THEN getValue(m, x) ELSE IF x = k THEN v ELSE NULL
<1> DEFINE pair == [key |-> k, value |-> v]
           n == setMapping(m, k, v)
           P == PlacesOf(m, x)
           Q == PlacesOf(n, x)
           L == m.length
<1>1. /\ IsMapOf(n, S) /\ Stored(n) = Append(Stored(m), pair)
      /\ Len(Stored(m)) = L /\ L \in Nat /\ Stored(m) \in Seq(S)
      /\ \A j \in 1 .. L : Stored(m)[j] = m.mappings[j - 1]
  BY SetKeepsOf, StoredOf
<1>2. /\ n.length = L + 1
      /\ \A j \in 1 .. L + 1 : Stored(n)[j] = n.mappings[j - 1]
  <2>1. /\ Len(Stored(n)) = n.length
        /\ \A j \in 1 .. n.length : Stored(n)[j] = n.mappings[j - 1]
    BY <1>1, StoredOf
  <2>2. Len(Append(Stored(m), pair)) = L + 1
    BY <1>1, AppendIs
  <2> HIDE DEF n, pair, L
  <2> QED
    BY <1>1, <2>1, <2>2
<1>3. \A i \in 0 .. L - 1 : n.mappings[i] = m.mappings[i]
  <2> HIDE DEF n, pair, L
  <2> TAKE i \in 0 .. L - 1
  <2>1. i + 1 \in 1 .. L /\ i + 1 \in 1 .. L + 1 /\ (i + 1) - 1 = i
    BY <1>1
  <2>2. pair \in S
    BY DEF pair
  <2>3. Append(Stored(m), pair)[i + 1] = Stored(m)[i + 1]
    BY <1>1, <2>1, <2>2, AppendIs
  <2> QED
    BY <1>1, <1>2, <2>1, <2>3
<1>4. n.mappings[L] = pair
  <2>1. pair \in S
    OBVIOUS
  <2> HIDE DEF n, pair, L
  <2>2. L + 1 \in 1 .. L + 1 /\ (L + 1) - 1 = L
    BY <1>1
  <2>3. Append(Stored(m), pair)[L + 1] = pair
    BY <1>1, <2>1, AppendIs
  <2> QED
    BY <1>1, <1>2, <2>2, <2>3
<1>5. Q = P \cup (IF x = k THEN {L} ELSE {})
  <2>1. pair.key = k
    OBVIOUS
  <2>2. 0 .. n.length - 1 = (0 .. L - 1) \cup {L}
    <3> HIDE DEF n, L
    <3> QED
      BY <1>1, <1>2
  <2> HIDE DEF n, pair, L
  <2> QED
    BY <1>3, <1>4, <2>1, <2>2 DEF PlacesOf, L
<1>6. P \subseteq 0 .. L - 1 /\ P \subseteq Nat /\ Q \subseteq Nat
  <2>1. P \subseteq 0 .. L - 1
    BY DEF PlacesOf
  <2> HIDE DEF n, P, Q, L
  <2> QED
    BY <1>1, <1>5, <2>1
<1>7. getValue(n, x) = IF Q = {} THEN NULL ELSE n.mappings[Least(Q)].value
  BY DEF getValue
<1>8. getValue(m, x) = IF P = {} THEN NULL ELSE m.mappings[Least(P)].value
  BY DEF getValue
<1>9. CASE P # {}
  <2>1. /\ Least(P) \in P /\ \A j \in P : Least(P) <= j
        /\ Least(Q) \in Q /\ \A j \in Q : Least(Q) <= j
        /\ Q # {}
    <3>1. Q # {}
      BY <1>5, <1>9
    <3> HIDE DEF P, Q
    <3>2. Least(P) \in P /\ \A j \in P : Least(P) <= j
      BY <1>6, <1>9, LeastIs
    <3>3. Least(Q) \in Q /\ \A j \in Q : Least(Q) <= j
      BY <1>6, <3>1, LeastIs
    <3> QED
      BY <3>1, <3>2, <3>3
  <2>2. Least(Q) = Least(P) /\ Least(P) \in 0 .. L - 1
    <3> HIDE DEF P, Q, n, L
    <3>1. Least(P) \in 0 .. L - 1 /\ Least(P) \in Q
      BY <1>5, <1>6, <2>1
    <3>2. Least(Q) # L
      BY <1>1, <2>1, <3>1
    <3>3. Least(Q) \in P
      BY <1>5, <2>1, <3>2
    <3>4. Least(P) \in Nat /\ Least(Q) \in Nat /\ Least(P) <= Least(Q) /\ Least(Q) <= Least(P)
      BY <1>6, <2>1, <3>1, <3>3
    <3>5. Least(P) = Least(Q)
      BY <3>4
    <3> QED
      BY <3>1, <3>5
  <2> HIDE DEF P, Q, n, L
  <2>3. getValue(n, x) = getValue(m, x)
    <3>1. n.mappings[Least(P)] = m.mappings[Least(P)]
      BY <1>3, <2>2
    <3> QED
      BY Zenon, <1>7, <1>8, <1>9, <2>1, <2>2, <3>1
  <2> QED
    BY <1>9, <2>1, <2>3 DEF Holds, P, Q, n
<1>10. CASE P = {} /\ x = k
  <2>1. Q = {L}
    BY <1>5, <1>10
  <2>2. Least({L}) = L
    <3> HIDE DEF L
    <3>1. {L} \subseteq Nat /\ {L} # {}
      BY <1>1
    <3>2. Least({L}) \in {L}
      BY <3>1, LeastIs
    <3> QED
      BY <3>2
  <2>3. pair.value = v
    OBVIOUS
  <2> HIDE DEF P, Q, n, L, pair
  <2>4. getValue(n, x) = v
    BY <1>4, <1>7, <2>1, <2>2, <2>3
  <2> QED
    BY <1>10, <2>1, <2>4 DEF Holds, P, Q, n
<1>11. CASE P = {} /\ x # k
  <2>1. Q = {}
    BY <1>5, <1>11
  <2> HIDE DEF P, Q, n, L, pair
  <2> QED
    BY <1>7, <1>11, <2>1 DEF Holds, P, Q, n
<1> QED
  BY <1>9, <1>10, <1>11

(* After the pairs s have been set in turn, a row m that is now r holds    *)
(* their keys, too; what it held before has not changed.                   *)
FilledTo(m, K, V, s, r) ==
    /\ IsMapOf(r, [key : K, value : V])
    /\ \A x \in K : /\ Holds(r, x) <=> Holds(m, x) \/ \E i \in 1 .. Len(s) : s[i].key = x
                    /\ Holds(m, x) => getValue(r, x) = getValue(m, x)
    /\ \A i \in 1 .. Len(s) : ~Holds(m, s[i].key) => getValue(r, s[i].key) = s[i].value

OneEach(s) == \A i, j \in 1 .. Len(s) : s[i].key = s[j].key => i = j

LEMMA OneMorePair ==
    ASSUME NEW m, NEW K, NEW V, NEW s \in Seq([key : K, value : V]), NEW r, FilledTo(m, K, V, s, r),
           NEW p \in [key : K, value : V], OneEach(Append(s, p))
    PROVE  FilledTo(m, K, V, Append(s, p), SetPair(r, p))
<1> DEFINE t == Append(s, p)
           n == SetPair(r, p)
           N == Len(s)
<1>1. /\ N \in Nat /\ Len(t) = N + 1 /\ t[N + 1] = p
      /\ \A i \in 1 .. N : t[i] = s[i] /\ s[i] \in [key : K, value : V]
  <2> DEFINE S == [key : K, value : V]
  <2>1. s \in Seq(S) /\ p \in S
    OBVIOUS
  <2> HIDE DEF S
  <2>2. /\ N \in Nat /\ Len(t) = N + 1 /\ t[N + 1] = p
        /\ \A i \in 1 .. N : t[i] = s[i] /\ s[i] \in S
    BY <2>1, AppendIs
  <2> QED
    BY <2>2 DEF S
<1>2. p = [key |-> p.key, value |-> p.value] /\ p.key \in K
  OBVIOUS
<1>3. IsMapOf(r, [key : K, value : V]) /\ IsMapOf(n, [key : K, value : V])
  BY <1>2, SetKeepsOf DEF SetPair, FilledTo
<1>4. ASSUME NEW x \in K
      PROVE  /\ Holds(n, x) <=> Holds(r, x) \/ x = p.key
             /\ getValue(n, x) =
                  IF Holds(r, x) THEN getValue(r, x) ELSE IF x = p.key THEN p.value ELSE NULL
  <2> DEFINE S == [key : K, value : V]
  <2>1. [key |-> p.key, value |-> p.value] \in S /\ IsMapOf(r, S)
    BY <1>2, <1>3
  <2> HIDE DEF S
  <2> QED
    BY <2>1, SetGives DEF SetPair
<1>5. \A i \in 1 .. N + 1 : i = N + 1 \/ i \in 1 .. N
  BY <1>1
<1>6. N + 1 \in 1 .. N + 1 /\ \A i \in 1 .. N : i \in 1 .. N + 1 /\ i # N + 1
  BY <1>1
<1> HIDE DEF t, n, N
<1>7. \A x \in K : (\E i \in 1 .. N + 1 : t[i].key = x) <=> (\E i \in 1 .. N : s[i].key = x) \/ x = p.key
  BY <1>1, <1>5, <1>6
<1>8. \A x \in K : Holds(n, x) <=> Holds(m, x) \/ \E i \in 1 .. N + 1 : t[i].key = x
  <2> TAKE x \in K
  <2>1. Holds(r, x) <=> Holds(m, x) \/ \E i \in 1 .. N : s[i].key = x
    BY DEF FilledTo, N
  <2> QED
    BY <1>4, <1>7, <2>1
<1>9. \A x \in K : Holds(m, x) => getValue(n, x) = getValue(m, x)
  BY <1>4 DEF FilledTo
<1>10. ASSUME NEW i \in 1 .. N + 1, ~Holds(m, t[i].key)
       PROVE  getValue(n, t[i].key) = t[i].value
  <2>1. CASE i \in 1 .. N
    <3>1. t[i] = s[i] /\ s[i].key \in K /\ ~Holds(m, s[i].key)
      BY <1>1, <1>10, <2>1
    <3>2. getValue(r, s[i].key) = s[i].value /\ Holds(r, s[i].key)
      BY <2>1, <3>1 DEF FilledTo, N
    <3> QED
      BY <1>4, <3>1, <3>2
  <2>2. CASE i = N + 1
    <3>1. ~Holds(r, p.key)
      <4> SUFFICES ASSUME Holds(r, p.key)
                   PROVE  FALSE
        OBVIOUS
      <4>1. PICK j \in 1 .. N : s[j].key = p.key
        BY <1>1, <1>2, <1>10, <2>2 DEF FilledTo, N
      <4>2. t[j].key = t[N + 1].key /\ j \in 1 .. N + 1 /\ j # N + 1
        BY <1>1, <1>6, <4>1
      <4> QED
        BY <1>1, <1>6, <4>2 DEF OneEach, t
    <3> QED
      BY <1>1, <1>2, <1>4, <2>2, <3>1
  <2> QED
    BY <1>5, <2>1, <2>2
<1> QED
  BY <1>1, <1>3, <1>8, <1>9, <1>10 DEF FilledTo, t, n

(* A row that was old has been filled with the delays to the nodes.        *)
IsFilled(old, new, N, nodes, delays) ==
    /\ IsMapOf(new, [key : Modules, value : Nat])
    /\ \A x \in Modules :
         /\ Holds(new, x) <=> Holds(old, x) \/ \E i \in 1 .. N : nodes[i] = x
         /\ Holds(old, x) => getValue(new, x) = getValue(old, x)
    /\ \A i \in 1 .. N : ~Holds(old, nodes[i]) => getValue(new, nodes[i]) = delays[i]

LEMMA FilledIs ==
    ASSUME NEW m, IsMapOf(m, [key : Modules, value : Nat]),
           NEW N \in Nat, NEW nodes, DOMAIN nodes = 1 .. N, NEW delays,
           \A i \in 1 .. N : nodes[i] \in Modules /\ delays[i] \in Nat,
           \A i, j \in 1 .. N : nodes[i] = nodes[j] => i = j
    PROVE  IsFilled(m, Filled(m, nodes, delays), N, nodes, delays)
<1> DEFINE S == [key : Modules, value : Nat]
           ps == [i \in 1 .. N |-> [key |-> nodes[i], value |-> delays[i]]]
           F(s) == Filling!Fold(m, s)
           T == {s \in Seq(S) : OneEach(s) => FilledTo(m, Modules, Nat, s, F(s))}
<1>1. Filled(m, nodes, delays) = F(ps)
  BY DEF Filled, Filling!Fold, FoldLeft, MapThenFoldSet, Filling!FoldLeft,
         Filling!MapThenFoldSet, Max, Filling!Max
<1>2. <<>> \in T
  <2>1. F(<<>>) = m /\ Len(<<>>) = 0 /\ <<>> \in Seq(S)
    BY Filling!FoldEmpty
  <2> HIDE DEF F
  <2>2. FilledTo(m, Modules, Nat, <<>>, m)
    BY <2>1 DEF FilledTo
  <2> QED
    BY <2>1, <2>2
<1>3. ASSUME NEW s \in Seq(S), NEW p \in S, s \in T
      PROVE  Append(s, p) \in T
  <2>1. F(Append(s, p)) = SetPair(F(s), p)
    <3> HIDE DEF S
    <3> QED
      BY Filling!FoldAppend
  <2>2. Append(s, p) \in Seq(S)
    OBVIOUS
  <2> SUFFICES ASSUME OneEach(Append(s, p))
               PROVE  FilledTo(m, Modules, Nat, Append(s, p), F(Append(s, p)))
    BY <2>2
  <2>3. OneEach(s)
    <3>1. /\ Len(s) \in Nat /\ Len(Append(s, p)) = Len(s) + 1
          /\ \A i \in 1 .. Len(s) : Append(s, p)[i] = s[i] /\ i \in 1 .. Len(s) + 1
      BY AppendIs
    <3> QED
      BY <3>1 DEF OneEach
  <2> HIDE DEF F
  <2>4. FilledTo(m, Modules, Nat, s, F(s))
    BY <1>3, <2>3
  <2> QED
    BY <2>1, <2>4, OneMorePair
<1> HIDE DEF T
<1>4. Seq(S) \subseteq T
  BY <1>2, <1>3, Filling!SequenceInduction
<1>5. ps \in Seq(S) /\ Len(ps) = N
  <2>1. /\ ps = [i \in 1 .. N |-> ps[i]]
        /\ \A i \in 1 .. N : ps[i] \in S
    OBVIOUS
  <2> HIDE DEF ps, S
  <2> QED
    BY <2>1, LengthOf, IsSequence
<1>6. \A i \in 1 .. N : ps[i].key = nodes[i] /\ ps[i].value = delays[i]
  OBVIOUS
<1> HIDE DEF F, ps
<1>7. OneEach(ps)
  BY <1>5, <1>6 DEF OneEach
<1>8. FilledTo(m, Modules, Nat, ps, F(ps))
  BY <1>4, <1>5, <1>7 DEF T
<1> QED
  BY <1>1, <1>5, <1>6, <1>8 DEF FilledTo, IsFilled

-----------------------------------------------------------------------------
(* The order of the submodules                                             *)

(* SetToSeq gives every element of a finite set one place.                 *)
LEMMA ListIs ==
    ASSUME NEW S, IsFiniteSet(S)
    PROVE  /\ Len(SetToSeq(S)) \in Nat /\ DOMAIN SetToSeq(S) = 1 .. Len(SetToSeq(S))
           /\ \A i \in 1 .. Len(SetToSeq(S)) : SetToSeq(S)[i] \in S
           /\ \A i, j \in 1 .. Len(SetToSeq(S)) : SetToSeq(S)[i] = SetToSeq(S)[j] => i = j
           /\ \A x \in S : \E i \in 1 .. Len(SetToSeq(S)) : SetToSeq(S)[i] = x
<1> DEFINE n == Cardinality(S)
           f == SetToSeq(S)
<1>1. n \in Nat /\ ExistsBijection(1 .. n, S)
  BY FS_CardinalityType
<1>2. PICK g \in [1 .. n -> S] : \A i, j \in 1 .. n : g[i] = g[j] => i = j
  BY <1>1 DEF ExistsBijection, Bijection, Injection, IsInjective
<1>3. f \in [1 .. n -> S] /\ \A i, j \in 1 .. n : f[i] = f[j] => i = j
  <2>1. \E h \in [1 .. n -> S] : IsInjective(h)
    BY <1>2 DEF IsInjective
  <2>2. f \in [1 .. n -> S] /\ IsInjective(f)
    BY <2>1 DEF SetToSeq
  <2> HIDE DEF f
  <2> QED
    BY <2>2 DEF IsInjective
<1> HIDE DEF f
<1>4. f = [i \in 1 .. n |-> f[i]] /\ Len(f) = n /\ DOMAIN f = 1 .. n
  <2>1. f = [i \in 1 .. n |-> f[i]]
    BY <1>3
  <2> QED
    BY <1>1, <2>1, LengthOf
<1>5. ASSUME NEW x \in S
      PROVE  \E i \in 1 .. n : f[i] = x
  <2>1. f \in Injection(1 .. n, S)
    BY <1>3 DEF Injection, IsInjective
  <2>2. IsFiniteSet(1 .. n) /\ Cardinality(1 .. n) = n
    BY <1>1, FS_Interval
  <2>3. f \in Surjection(1 .. n, S)
    BY <2>1, <2>2, FS_Injection
  <2> QED
    BY <2>3 DEF Surjection
<1> QED
  BY <1>1, <1>3, <1>4, <1>5 DEF f

NC == Len(ClientList)
NB == Len(BrokerList)
NJ == NC + NB + NB

LEMMA ListsAre ==
    /\ NC \in Nat /\ DOMAIN ClientList = 1 .. NC
    /\ NB \in Nat /\ DOMAIN BrokerList = 1 .. NB
    /\ NJ \in Nat
    /\ \A i \in 1 .. NC : ClientList[i] \in Clients
    /\ \A i \in 1 .. NB : BrokerList[i] \in Brokers
    /\ \A i, j \in 1 .. NC : ClientList[i] = ClientList[j] => i = j
    /\ \A i, j \in 1 .. NB : BrokerList[i] = BrokerList[j] => i = j
    /\ \A c \in Clients : \E i \in 1 .. NC : ClientList[i] = c
    /\ \A b \in Brokers : \E i \in 1 .. NB : BrokerList[i] = b
    /\ \A c \in Clients, b \in Brokers : c # b
<1>1. IsFiniteSet(Brokers) /\ IsFiniteSet(Clients)
  BY RowsAssumption
<1>2. NC \in Nat /\ NB \in Nat
  BY <1>1, ListIs DEF ClientList, BrokerList, NC, NB
<1>3. NJ \in Nat
  BY <1>2 DEF NJ
<1>4. \A c \in Clients, b \in Brokers : c # b
  BY NodesAssumption
<1>5. /\ DOMAIN ClientList = 1 .. NC
      /\ \A i \in 1 .. NC : ClientList[i] \in Clients
      /\ \A i, j \in 1 .. NC : ClientList[i] = ClientList[j] => i = j
      /\ \A c \in Clients : \E i \in 1 .. NC : ClientList[i] = c
  BY <1>1, ListIs DEF ClientList, NC
<1>6. /\ DOMAIN BrokerList = 1 .. NB
      /\ \A i \in 1 .. NB : BrokerList[i] \in Brokers
      /\ \A i, j \in 1 .. NB : BrokerList[i] = BrokerList[j] => i = j
      /\ \A b \in Brokers : \E i \in 1 .. NB : BrokerList[i] = b
  BY <1>1, ListIs DEF BrokerList, NB
<1> QED
  BY <1>2, <1>3, <1>4, <1>5, <1>6

Job(i) ==
    IF i <= NC THEN <<"draw", ClientList[i]>>
    ELSE IF i <= NC + NB THEN <<"copy", BrokerList[i - NC]>>
    ELSE <<"complete", BrokerList[i - NC - NB]>>

LEMMA JoinedIs ==
    ASSUME NEW T, NEW r \in Seq(T), NEW s \in Seq(T), NEW u, u = r \o s
    PROVE  /\ u \in Seq(T) /\ Len(u) = Len(r) + Len(s)
           /\ \A i \in 1 .. Len(r) + Len(s) :
                 u[i] = IF i <= Len(r) THEN r[i] ELSE s[i - Len(r)]
  OBVIOUS

LEMMA JobsAre == Jobs = [i \in 1 .. NJ |-> Job(i)]
<1> DEFINE T == {"draw", "copy", "complete"} \X Modules
           x == [i \in 1 .. NC |-> <<"draw", ClientList[i]>>]
           y == [i \in 1 .. NB |-> <<"copy", BrokerList[i]>>]
           z == [i \in 1 .. NB |-> <<"complete", BrokerList[i]>>]
<1>1. /\ NC \in Nat /\ NB \in Nat
      /\ \A i \in 1 .. NC : ClientList[i] \in Modules
      /\ \A i \in 1 .. NB : BrokerList[i] \in Modules
  BY ListsAre DEF Modules
<1>2. Jobs = (x \o y) \o z
  <2>1. DOMAIN ClientList = 1 .. NC /\ DOMAIN BrokerList = 1 .. NB
    BY ListsAre
  <2> QED
    BY <2>1 DEF Jobs
<1>3. /\ x = [i \in 1 .. NC |-> x[i]] /\ \A i \in 1 .. NC : x[i] \in T
      /\ y = [i \in 1 .. NB |-> y[i]] /\ \A i \in 1 .. NB : y[i] \in T
      /\ z = [i \in 1 .. NB |-> z[i]] /\ \A i \in 1 .. NB : z[i] \in T
  BY <1>1
<1>4. /\ \A i \in 1 .. NC : x[i] = <<"draw", ClientList[i]>>
      /\ \A i \in 1 .. NB : y[i] = <<"copy", BrokerList[i]>>
      /\ \A i \in 1 .. NB : z[i] = <<"complete", BrokerList[i]>>
  OBVIOUS
<1> HIDE DEF x, y, z, T
<1>5. /\ Len(x) = NC /\ x \in Seq(T)
      /\ Len(y) = NB /\ y \in Seq(T)
      /\ Len(z) = NB /\ z \in Seq(T)
  BY <1>1, <1>3, LengthOf, IsSequence
<1>6. PICK u : u = x \o y
  OBVIOUS
<1>6a. /\ u \in Seq(T) /\ Len(u) = NC + NB
       /\ \A i \in 1 .. NC + NB : u[i] = IF i <= NC THEN x[i] ELSE y[i - NC]
  <2>1. /\ u \in Seq(T) /\ Len(u) = Len(x) + Len(y)
        /\ \A i \in 1 .. Len(x) + Len(y) : u[i] = IF i <= Len(x) THEN x[i] ELSE y[i - Len(x)]
    <3>1. x \in Seq(T) /\ y \in Seq(T)
      BY <1>5
    <3> QED
      BY <1>6, <3>1, JoinedIs
  <2> QED
    BY <1>5, <2>1
<1>7. /\ Jobs \in Seq(T) /\ Len(Jobs) = NJ
      /\ \A i \in 1 .. NJ : Jobs[i] = IF i <= NC + NB THEN u[i] ELSE z[i - (NC + NB)]
  <2>1. Jobs = u \o z
    BY <1>2, <1>6
  <2> QED
    BY <1>5, <1>6a, <2>1, JoinedIs DEF NJ
<1>8. ASSUME NEW i \in 1 .. NJ
      PROVE  Jobs[i] = Job(i)
  <2>1. CASE i <= NC
    <3>1. i \in 1 .. NC /\ i \in 1 .. NC + NB /\ i <= NC + NB
      BY <1>1, <2>1
    <3> QED
      BY <1>4, <1>6a, <1>7, <2>1, <3>1 DEF Job
  <2>2. CASE ~(i <= NC) /\ i <= NC + NB
    <3>1. i \in 1 .. NC + NB /\ i - NC \in 1 .. NB
      BY <1>1, <2>2
    <3> QED
      BY <1>4, <1>6a, <1>7, <2>2, <3>1 DEF Job
  <2>3. CASE ~(i <= NC) /\ ~(i <= NC + NB)
    <3>1. i - (NC + NB) \in 1 .. NB /\ i - (NC + NB) = i - NC - NB
      BY <1>1, <2>3 DEF NJ
    <3> QED
      BY <1>4, <1>7, <2>3, <3>1 DEF Job
  <2> QED
    BY <2>1, <2>2, <2>3
<1>9. Jobs = [i \in 1 .. NJ |-> Jobs[i]]
  BY <1>7
<1> QED
  BY <1>8, <1>9

-----------------------------------------------------------------------------
(* The table while it is drawn                                             *)

(* Has row n been registered when p jobs are done?                         *)
Registered(n, p) ==
    \/ \E i \in 1 .. NC : i <= p /\ ClientList[i] = n
    \/ \E i \in 1 .. NB : NC + i <= p /\ BrokerList[i] = n

TodoAt(p) == p \in 0 .. NJ /\ todo = [i \in 1 .. NJ - p |-> Job(p + i)]

TableAt(p) ==
    /\ IsMapOf(table, [key : Modules, value : Modules])
    /\ \A n \in Modules : /\ Holds(table, n) <=> Registered(n, p)
                          /\ Holds(table, n) => getValue(table, n) = n

AreRows ==
    /\ rows = [n \in Modules |-> rows[n]]
    /\ \A n \in Modules : IsMapOf(rows[n], [key : Modules, value : Nat])

Delay(n, x) == getValue(rows[n], x)

ClientRows(p) ==
    \A i \in 1 .. NC :
      /\ i > p => \A x \in Modules : ~Holds(rows[ClientList[i]], x)
      /\ i <= p => \A b \in Brokers :
           /\ Holds(rows[ClientList[i]], b)
           /\ Delay(ClientList[i], b) \in Nat
           /\ \A d \in Brokers : Delay(ClientList[i], b) = Delay(ClientList[i], d) => b = d

CopiedRows(p) ==
    \A i \in 1 .. NB :
      /\ NC + i > p => \A x \in Modules : ~Holds(rows[BrokerList[i]], x)
      /\ NC + i <= p => \A c \in Clients :
           /\ Holds(rows[BrokerList[i]], c)
           /\ Delay(BrokerList[i], c) = Delay(c, BrokerList[i])

(* The delays between brokers, of which the row of the first one is full.  *)
CompleteRows(p) ==
    \A i, j \in 1 .. NB :
      /\ Holds(rows[BrokerList[i]], BrokerList[j]) <=> NC + NB + i <= p
      /\ NC + NB + i <= p =>
           /\ i = j => Delay(BrokerList[i], BrokerList[j]) = 0
           /\ i < j => Delay(BrokerList[i], BrokerList[j]) \in values \ {0}
           /\ i > j => Delay(BrokerList[i], BrokerList[j]) = Delay(BrokerList[j], BrokerList[i])

NoneTwice(p) ==
    \A i, j, k, l \in 1 .. NB :
      i < j /\ k < l /\ NC + NB + i <= p /\ NC + NB + k <= p
        /\ Delay(BrokerList[i], BrokerList[j]) = Delay(BrokerList[k], BrokerList[l])
        => i = k /\ j = l

DrawnTo(p) ==
    /\ TodoAt(p) /\ TableAt(p) /\ AreRows /\ values \subseteq Nat
    /\ ClientRows(p) /\ CopiedRows(p) /\ CompleteRows(p) /\ NoneTwice(p)

TableInv == \E p \in Nat : DrawnTo(p)

LEMMA NothingHeld ==
    ASSUME NEW x
    PROVE  ~Holds(EmptyMap, x)
  BY DEF Holds, PlacesOf, EmptyMap

LEMMA InitDrawn == TableInit => TableInv
<1> SUFFICES ASSUME TableInit
             PROVE  DrawnTo(0)
  BY DEF TableInv
<1>1. NC \in Nat /\ NB \in Nat /\ NJ \in Nat
  BY ListsAre
<1>2. todo = [i \in 1 .. NJ - 0 |-> Job(0 + i)]
  <2>1. todo = [i \in 1 .. NJ |-> Job(i)]
    BY JobsAre DEF TableInit
  <2>2. NJ - 0 = NJ /\ \A i \in 1 .. NJ : 0 + i = i
    BY <1>1
  <2> QED
    BY <2>1, <2>2
<1>3. TodoAt(0)
  BY <1>1, <1>2 DEF TodoAt
<1>4. \A i \in 1 .. NC : ~(i <= 0) /\ i > 0
  BY <1>1
<1>5. \A i \in 1 .. NB : ~(NC + i <= 0) /\ ~(NC + NB + i <= 0) /\ NC + i > 0
  BY <1>1
<1>6. TableAt(0)
  BY <1>4, <1>5, EmptyOf, NothingHeld DEF TableInit, TableAt, Registered
<1>7. rows = [n \in Modules |-> EmptyMap]
  BY DEF TableInit, Modules
<1>8. AreRows
  BY <1>7, EmptyOf DEF AreRows
<1>9. \A n, x \in Modules : ~Holds(rows[n], x)
  BY <1>7, NothingHeld
<1>10. /\ \A i \in 1 .. NC : ClientList[i] \in Modules
       /\ \A i \in 1 .. NB : BrokerList[i] \in Modules
  BY ListsAre DEF Modules
<1>11. ClientRows(0) /\ CopiedRows(0) /\ CompleteRows(0) /\ NoneTwice(0)
  <2>1. ClientRows(0)
    BY <1>4, <1>9, <1>10 DEF ClientRows
  <2>2. CopiedRows(0)
    BY <1>5, <1>9, <1>10 DEF CopiedRows
  <2>3. CompleteRows(0)
    BY <1>5, <1>9, <1>10 DEF CompleteRows
  <2>4. NoneTwice(0)
    BY <1>5 DEF NoneTwice
  <2> QED
    BY <2>1, <2>2, <2>3, <2>4
<1> QED
  BY <1>3, <1>6, <1>8, <1>11 DEF DrawnTo, TableInit

LEMMA TailIs ==
    ASSUME NEW T, NEW s \in Seq(T), s # <<>>
    PROVE  Tail(s) = [i \in 1 .. Len(s) - 1 |-> s[i + 1]]
<1>1. Tail(s) \in Seq(T) /\ Len(Tail(s)) = Len(s) - 1
  OBVIOUS
<1>2. \A i \in 1 .. Len(s) - 1 : Tail(s)[i] = s[i + 1]
  OBVIOUS
<1>3. PICK t : t = Tail(s)
  OBVIOUS
<1>4. t = [i \in 1 .. Len(t) |-> t[i]]
  <2>1. t \in Seq(T)
    BY <1>1, <1>3
  <2> QED
    BY <2>1
<1> QED
  BY <1>1, <1>2, <1>3, <1>4

LEMMA NextJob ==
    ASSUME NEW p \in Nat, TodoAt(p), todo # <<>>
    PROVE  /\ p + 1 \in 1 .. NJ
           /\ Head(todo) = Job(p + 1)
           /\ Tail(todo) = [i \in 1 .. NJ - (p + 1) |-> Job(p + 1 + i)]
<1> DEFINE n == NJ - p
<1>1. NJ \in Nat /\ p <= NJ /\ n \in Nat
  BY ListsAre DEF TodoAt
<1>2. todo = [i \in 1 .. n |-> Job(p + i)]
  BY DEF TodoAt
<1>3. n # 0
  BY <1>2
<1>4. Len(todo) = n /\ 1 \in 1 .. n
  <2>1. todo = [i \in 1 .. n |-> todo[i]]
    BY <1>2
  <2> HIDE DEF n
  <2> QED
    BY <1>1, <1>3, <2>1, LengthOf
<1>5. Head(todo) = Job(p + 1)
  BY <1>2, <1>4
<1>6. NJ - (p + 1) = n - 1 /\ \A i \in 1 .. n - 1 : i + 1 \in 1 .. n /\ p + 1 + i = p + (i + 1)
  BY <1>1
<1> HIDE DEF n
<1>7. Tail(todo) = [i \in 1 .. n - 1 |-> todo[i + 1]]
  <2>1. Tail(todo) = [i \in 1 .. Len(todo) - 1 |-> todo[i + 1]]
    <3> DEFINE S == {todo[i] : i \in 1 .. n}
    <3>1. todo = [i \in 1 .. n |-> todo[i]] /\ \A i \in 1 .. n : todo[i] \in S
      BY <1>2
    <3> HIDE DEF S
    <3>2. todo \in Seq(S)
      BY <1>1, <3>1, IsSequence
    <3> QED
      BY <3>2, TailIs
  <2> QED
    BY <1>4, <2>1
<1>8. \A i \in 1 .. n - 1 : todo[i + 1] = Job(p + 1 + i)
  BY <1>2, <1>6
<1>9. Tail(todo) = [i \in 1 .. NJ - (p + 1) |-> Job(p + 1 + i)]
  BY <1>6, <1>7, <1>8
<1> QED
  BY <1>1, <1>3, <1>5, <1>9 DEF n

LEMMA RowIs ==
    ASSUME NEW p \in Nat, TodoAt(p), TableAt(p), AreRows, todo # <<>>,
           NEW n \in Modules, NEW N \in Nat, NEW nodes, DOMAIN nodes = 1 .. N, NEW delays,
           \A i \in 1 .. N : nodes[i] \in Modules /\ delays[i] \in Nat,
           \A i, j \in 1 .. N : nodes[i] = nodes[j] => i = j,
           Row(n, nodes, delays),
           \A m \in Modules : Registered(m, p + 1) <=> Registered(m, p) \/ m = n
    PROVE  /\ TodoAt(p + 1)' /\ TableAt(p + 1)' /\ AreRows'
           /\ \A m \in Modules : m # n => rows'[m] = rows[m]
           /\ IsFilled(rows[n], rows'[n], N, nodes, delays)
<1> DEFINE r == Filled(rows[n], nodes, delays)
<1>1. rows' = [rows EXCEPT ![n] = r] /\ table' = setMapping(table, n, n) /\ todo' = Tail(todo)
  BY DEF Row
<1>2. TodoAt(p + 1)'
  <2>1. p + 1 \in 0 .. NJ /\ todo' = [i \in 1 .. NJ - (p + 1) |-> Job(p + 1 + i)]
    BY <1>1, NextJob
  <2> QED
    BY <2>1 DEF TodoAt
<1>3. TableAt(p + 1)'
  <2> DEFINE S == [key : Modules, value : Modules]
  <2>1. [key |-> n, value |-> n] \in S /\ IsMapOf(table, S)
    BY DEF TableAt
  <2>2. IsMapOf(table', S)
    <3> HIDE DEF S
    <3> QED
      BY <1>1, <2>1, SetKeepsOf
  <2>3. ASSUME NEW m \in Modules
        PROVE  /\ Holds(table', m) <=> Holds(table, m) \/ m = n
               /\ getValue(table', m) =
                    IF Holds(table, m) THEN getValue(table, m) ELSE IF m = n THEN n ELSE NULL
    <3> HIDE DEF S
    <3> QED
      BY <1>1, <2>1, SetGives
  <2>4. \A m \in Modules : /\ Holds(table', m) <=> Registered(m, p + 1)
                           /\ Holds(table', m) => getValue(table', m) = m
    BY <2>3 DEF TableAt
  <2> QED
    BY <2>2, <2>4 DEF TableAt, Registered
<1>4. IsFilled(rows[n], r, N, nodes, delays)
  <2>1. IsMapOf(rows[n], [key : Modules, value : Nat])
    BY DEF AreRows
  <2> QED
    BY <2>1, FilledIs
<1> HIDE DEF r
<1>5. rows'[n] = r /\ \A m \in Modules : m # n => rows'[m] = rows[m]
  BY <1>1 DEF AreRows
<1>6. AreRows'
  <2>1. rows' = [m \in Modules |-> rows'[m]]
    BY <1>1 DEF AreRows
  <2>2. \A m \in Modules : IsMapOf(rows'[m], [key : Modules, value : Nat])
    BY <1>4, <1>5 DEF AreRows, IsFilled
  <2> QED
    BY <2>1, <2>2 DEF AreRows
<1> QED
  BY <1>2, <1>3, <1>4, <1>5, <1>6

(* Draws are new to the table and to each other.                           *)
LEMMA DrawnAre ==
    ASSUME NEW n \in Nat, NEW ds \in Drawn(n)
    PROVE  /\ \A i \in 1 .. n : ds[i] \in Nat \ {0} /\ ds[i] \notin values /\ ds[i] \in ToSet(ds)
           /\ \A i, j \in 1 .. n : ds[i] = ds[j] => i = j
           /\ ToSet(ds) \subseteq Nat
<1>1. /\ ds \in [1 .. n -> Draws]
      /\ \A i \in 1 .. n : ds[i] # 0 /\ ds[i] \notin values \cup {ds[j] : j \in 1 .. i - 1}
  BY DEF Drawn, isUnique
<1>2. \A i, j \in 1 .. n : i < j => ds[i] # ds[j]
  <2> TAKE i, j \in 1 .. n
  <2> HAVE i < j
  <2>1. i \in 1 .. j - 1
    OBVIOUS
  <2> QED
    BY <1>1, <2>1
<1>3. \A i, j \in 1 .. n : i < j \/ j < i \/ i = j
  OBVIOUS
<1>4. \A i, j \in 1 .. n : ds[i] = ds[j] => i = j
  BY <1>2, <1>3
<1>5. ToSet(ds) = {ds[i] : i \in 1 .. n}
  BY <1>1 DEF ToSet
<1>6. \A i \in 1 .. n : ds[i] \in Nat
  BY <1>1, DrawsAssumption
<1> QED
  BY <1>1, <1>4, <1>5, <1>6

LEMMA GivenDelay ==
    ASSUME NEW p \in Nat, TableAt(p), NEW n \in Modules, Registered(n, p), NEW x
    PROVE  getDelay(n, x) = Delay(n, x)
  BY DEF TableAt, getDelay, Delay

LEMMA DrawKeeps ==
    ASSUME NEW p \in Nat, DrawnTo(p), todo # <<>>, p + 1 <= NC, DrawRow(ClientList[p + 1])
    PROVE  DrawnTo(p + 1)'
<1> DEFINE c == ClientList[p + 1]
<1>1. /\ NC \in Nat /\ NB \in Nat
      /\ DOMAIN BrokerList = 1 .. NB
      /\ \A i \in 1 .. NC : ClientList[i] \in Clients
      /\ \A i \in 1 .. NB : BrokerList[i] \in Brokers
      /\ \A i, j \in 1 .. NC : ClientList[i] = ClientList[j] => i = j
      /\ \A i, j \in 1 .. NB : BrokerList[i] = BrokerList[j] => i = j
      /\ \A b \in Brokers : \E i \in 1 .. NB : BrokerList[i] = b
      /\ \A x \in Clients, b \in Brokers : x # b
      /\ Clients \subseteq Modules /\ Brokers \subseteq Modules
  BY ListsAre DEF Modules
<1>2. p + 1 \in 1 .. NC /\ c \in Clients
  BY <1>1
<1>3. PICK ds \in Drawn(NB) : Row(c, BrokerList, ds) /\ values' = values \cup ToSet(ds)
  BY DEF DrawRow, NB
<1>4. /\ \A i \in 1 .. NB : ds[i] \in Nat \ {0} /\ ds[i] \notin values
      /\ \A i, j \in 1 .. NB : ds[i] = ds[j] => i = j
      /\ ToSet(ds) \subseteq Nat
  BY <1>1, DrawnAre
<1>5. \A m \in Modules : Registered(m, p + 1) <=> Registered(m, p) \/ m = c
  <2>1. \A i \in 1 .. NB : ~(NC + i <= p + 1) /\ ~(NC + i <= p)
    BY <1>1
  <2>2. \A i \in 1 .. NC : i <= p + 1 <=> i <= p \/ i = p + 1
    BY <1>1
  <2> QED
    BY <1>1, <1>2, <2>1, <2>2 DEF Registered
<1>6. /\ TodoAt(p) /\ TableAt(p) /\ AreRows /\ values \subseteq Nat
      /\ ClientRows(p) /\ CopiedRows(p) /\ CompleteRows(p) /\ NoneTwice(p)
  BY DEF DrawnTo
<1> HIDE DEF c
<1>7. /\ TodoAt(p + 1)' /\ TableAt(p + 1)' /\ AreRows'
      /\ \A m \in Modules : m # c => rows'[m] = rows[m]
      /\ IsFilled(rows[c], rows'[c], NB, BrokerList, ds)
  <2>1. \A i \in 1 .. NB : BrokerList[i] \in Modules /\ ds[i] \in Nat
    BY <1>1, <1>4
  <2>2. c \in Modules
    BY <1>1, <1>2
  <2> QED
    BY <1>1, <1>3, <1>5, <1>6, <2>1, <2>2, RowIs
<1>8. \A i \in 1 .. NB : NC + i > p + 1 /\ NC + i > p /\ ~(NC + i <= p + 1)
                         /\ ~(NC + NB + i <= p + 1) /\ ~(NC + NB + i <= p)
  BY <1>1
<1>9. \A i \in 1 .. NB : rows'[BrokerList[i]] = rows[BrokerList[i]]
  BY <1>1, <1>2, <1>7
<1>10. CopiedRows(p + 1)'
  BY <1>6, <1>8, <1>9 DEF CopiedRows
<1>11. CompleteRows(p + 1)' /\ NoneTwice(p + 1)'
  BY <1>6, <1>8, <1>9 DEF CompleteRows, NoneTwice
<1>12. ClientRows(p + 1)'
  <2> SUFFICES ASSUME NEW i \in 1 .. NC
               PROVE  /\ i > p + 1 => \A x \in Modules : ~Holds(rows'[ClientList[i]], x)
                      /\ i <= p + 1 => \A b \in Brokers :
                           /\ Holds(rows'[ClientList[i]], b)
                           /\ getValue(rows'[ClientList[i]], b) \in Nat
                           /\ \A d \in Brokers :
                                getValue(rows'[ClientList[i]], b) = getValue(rows'[ClientList[i]], d)
                                  => b = d
    BY DEF ClientRows, Delay
  <2>1. CASE i = p + 1
    <3>1. ClientList[i] = c /\ ~(i > p + 1)
      BY <1>1, <2>1 DEF c
    <3>2. \A x \in Modules : ~Holds(rows[c], x)
      <4>1. p + 1 > p
        OBVIOUS
      <4> QED
        BY <1>2, <1>6, <4>1 DEF ClientRows, c
    <3>3. \A j \in 1 .. NB : getValue(rows'[c], BrokerList[j]) = ds[j]
      BY <1>1, <1>7, <3>2 DEF IsFilled
    <3>4. \A b \in Brokers : Holds(rows'[c], b)
      BY <1>1, <1>7 DEF IsFilled
    <3>5. \A b, d \in Brokers :
            getValue(rows'[c], b) \in Nat /\ (getValue(rows'[c], b) = getValue(rows'[c], d) => b = d)
      BY <1>1, <1>4, <3>3
    <3> QED
      BY <3>1, <3>4, <3>5
  <2>2. CASE i # p + 1
    <3>1. ClientList[i] # c /\ ClientList[i] \in Modules
      BY <1>1, <1>2, <2>2 DEF c
    <3>2. rows'[ClientList[i]] = rows[ClientList[i]]
      BY <1>7, <3>1
    <3>3. (i > p + 1 => i > p) /\ (i <= p + 1 => i <= p)
      BY <1>1, <2>2
    <3> QED
      BY <1>6, <3>2, <3>3 DEF ClientRows, Delay
  <2> QED
    BY <2>1, <2>2
<1>13. values' \subseteq Nat
  BY <1>3, <1>4, <1>6
<1> QED
  BY <1>7, <1>10, <1>11, <1>12, <1>13 DEF DrawnTo

LEMMA CopyKeeps ==
    ASSUME NEW p \in Nat, DrawnTo(p), todo # <<>>, NC < p + 1, p + 1 <= NC + NB,
           CopyRow(BrokerList[p + 1 - NC])
    PROVE  DrawnTo(p + 1)'
<1> DEFINE b == BrokerList[p + 1 - NC]
           ds == [j \in DOMAIN ClientList |-> getDelay(ClientList[j], b)]
<1>1. /\ NC \in Nat /\ NB \in Nat
      /\ DOMAIN ClientList = 1 .. NC
      /\ \A i \in 1 .. NC : ClientList[i] \in Clients
      /\ \A i \in 1 .. NB : BrokerList[i] \in Brokers
      /\ \A i, j \in 1 .. NC : ClientList[i] = ClientList[j] => i = j
      /\ \A i, j \in 1 .. NB : BrokerList[i] = BrokerList[j] => i = j
      /\ \A c \in Clients : \E i \in 1 .. NC : ClientList[i] = c
      /\ \A x \in Clients, d \in Brokers : x # d
      /\ Clients \subseteq Modules /\ Brokers \subseteq Modules
  BY ListsAre DEF Modules
<1>2. p + 1 - NC \in 1 .. NB /\ b \in Brokers
  BY <1>1
<1>3. Row(b, ClientList, ds) /\ values' = values
  BY DEF CopyRow
<1>4. /\ TodoAt(p) /\ TableAt(p) /\ AreRows /\ values \subseteq Nat
      /\ ClientRows(p) /\ CopiedRows(p) /\ CompleteRows(p) /\ NoneTwice(p)
  BY DEF DrawnTo
<1>5. \A i \in 1 .. NC : i <= p /\ i <= p + 1 /\ ~(i > p) /\ ~(i > p + 1)
  BY <1>1
<1>6. \A i \in 1 .. NB : ~(NC + NB + i <= p + 1) /\ ~(NC + NB + i <= p)
  BY <1>1
<1>7. \A i \in 1 .. NB : (NC + i <= p + 1 <=> NC + i <= p \/ i = p + 1 - NC)
                         /\ (NC + i > p + 1 <=> NC + i > p /\ i # p + 1 - NC)
  BY <1>1
<1>8. \A m \in Modules : Registered(m, p + 1) <=> Registered(m, p) \/ m = b
  BY <1>2, <1>5, <1>7 DEF Registered
<1>9. \A i \in 1 .. NC : ds[i] = Delay(ClientList[i], b) /\ ds[i] \in Nat
  <2> TAKE i \in 1 .. NC
  <2>1. ClientList[i] \in Modules /\ Registered(ClientList[i], p)
    BY <1>1, <1>5 DEF Registered
  <2>2. ds[i] = getDelay(ClientList[i], b)
    BY <1>1
  <2>3. Delay(ClientList[i], b) \in Nat
    BY <1>2, <1>4, <1>5 DEF ClientRows
  <2> HIDE DEF ds, b
  <2>4. getDelay(ClientList[i], b) = Delay(ClientList[i], b)
    BY <1>4, <2>1, GivenDelay
  <2> QED
    BY <2>2, <2>3, <2>4
<1> HIDE DEF b, ds
<1>10. /\ TodoAt(p + 1)' /\ TableAt(p + 1)' /\ AreRows'
       /\ \A m \in Modules : m # b => rows'[m] = rows[m]
       /\ IsFilled(rows[b], rows'[b], NC, ClientList, ds)
  <2>1. \A i \in 1 .. NC : ClientList[i] \in Modules /\ ds[i] \in Nat
    BY <1>1, <1>9
  <2>2. b \in Modules
    BY <1>1, <1>2
  <2> QED
    BY <1>1, <1>3, <1>4, <1>8, <2>1, <2>2, RowIs
<1>11. \A c \in Clients : rows'[c] = rows[c]
  BY <1>1, <1>2, <1>10
<1>12. ClientRows(p + 1)'
  BY <1>1, <1>4, <1>5, <1>11 DEF ClientRows, Delay
<1>13. \A i \in 1 .. NB : i # p + 1 - NC => rows'[BrokerList[i]] = rows[BrokerList[i]]
  BY <1>1, <1>2, <1>10 DEF b
<1>14. \A i \in 1 .. NB, d \in Brokers :
         Holds(rows'[BrokerList[i]], d) <=> Holds(rows[BrokerList[i]], d)
  <2> TAKE i \in 1 .. NB, d \in Brokers
  <2>1. CASE i = p + 1 - NC
    BY <1>1, <1>10, <2>1 DEF IsFilled, b
  <2>2. CASE i # p + 1 - NC
    BY <1>13, <2>2
  <2> QED
    BY <2>1, <2>2
<1>15. CompleteRows(p + 1)' /\ NoneTwice(p + 1)'
  <2>1. CompleteRows(p + 1)'
    BY <1>1, <1>4, <1>6, <1>14 DEF CompleteRows
  <2>2. NoneTwice(p + 1)'
    BY <1>6 DEF NoneTwice
  <2> QED
    BY <2>1, <2>2
<1>16. CopiedRows(p + 1)'
  <2> SUFFICES ASSUME NEW i \in 1 .. NB
               PROVE  /\ NC + i > p + 1 => \A x \in Modules : ~Holds(rows'[BrokerList[i]], x)
                      /\ NC + i <= p + 1 => \A c \in Clients :
                           /\ Holds(rows'[BrokerList[i]], c)
                           /\ getValue(rows'[BrokerList[i]], c) = getValue(rows'[c], BrokerList[i])
    BY DEF CopiedRows, Delay
  <2>1. CASE i = p + 1 - NC
    <3>1. BrokerList[i] = b /\ ~(NC + i > p + 1)
      BY <1>7, <2>1 DEF b
    <3>2. \A x \in Modules : ~Holds(rows[b], x)
      <4>1. NC + i > p
        BY <1>1, <2>1
      <4> QED
        BY <1>4, <3>1, <4>1 DEF CopiedRows
    <3>3. \A j \in 1 .. NC : getValue(rows'[b], ClientList[j]) = ds[j] /\ Holds(rows'[b], ClientList[j])
      BY <1>1, <1>10, <3>2 DEF IsFilled
    <3>4. \A c \in Clients : /\ Holds(rows'[b], c)
                             /\ getValue(rows'[b], c) = getValue(rows'[c], b)
      BY <1>1, <1>9, <1>11, <3>3 DEF Delay
    <3> QED
      BY <3>1, <3>4
  <2>2. CASE i # p + 1 - NC
    BY <1>4, <1>7, <1>11, <1>13, <2>2 DEF CopiedRows, Delay
  <2> QED
    BY <2>1, <2>2
<1> QED
  BY <1>3, <1>4, <1>10, <1>12, <1>15, <1>16 DEF DrawnTo

LEMMA CompleteKeeps ==
    ASSUME NEW p \in Nat, DrawnTo(p), todo # <<>>, NC + NB < p + 1, p + 1 <= NJ,
           CompleteRow(BrokerList[p + 1 - NC - NB])
    PROVE  DrawnTo(p + 1)'
<1> DEFINE k == p + 1 - NC - NB
           b == BrokerList[k]
           e(ds) == [j \in DOMAIN BrokerList |->
                       IF k < j THEN ds[j - k] ELSE IF k > j THEN getDelay(BrokerList[j], b) ELSE 0]
<1>1. /\ NC \in Nat /\ NB \in Nat
      /\ DOMAIN BrokerList = 1 .. NB
      /\ \A i \in 1 .. NC : ClientList[i] \in Clients
      /\ \A i \in 1 .. NB : BrokerList[i] \in Brokers
      /\ \A i, j \in 1 .. NB : BrokerList[i] = BrokerList[j] => i = j
      /\ \A x \in Clients, d \in Brokers : x # d
      /\ Clients \subseteq Modules /\ Brokers \subseteq Modules
  BY ListsAre DEF Modules
<1>2. k \in 1 .. NB /\ b \in Brokers
  <2>1. k \in 1 .. NB
    BY <1>1 DEF NJ
  <2> HIDE DEF k
  <2> QED
    BY <1>1, <2>1
<1>3. /\ TodoAt(p) /\ TableAt(p) /\ AreRows /\ values \subseteq Nat
      /\ ClientRows(p) /\ CopiedRows(p) /\ CompleteRows(p) /\ NoneTwice(p)
  BY DEF DrawnTo
<1>4. \A i \in 1 .. NC : i <= p /\ i <= p + 1 /\ ~(i > p) /\ ~(i > p + 1)
  BY <1>1
<1>5. \A i \in 1 .. NB : NC + i <= p /\ NC + i <= p + 1 /\ ~(NC + i > p) /\ ~(NC + i > p + 1)
  BY <1>1
<1>6. \A i \in 1 .. NB : (NC + NB + i <= p <=> i < k) /\ (NC + NB + i <= p + 1 <=> i <= k)
  BY <1>1
<1>7. (CHOOSE i \in DOMAIN BrokerList : BrokerList[i] = b) = k
  <2> HIDE DEF k
  <2> QED
    BY <1>1, <1>2
<1>8. Registered(b, p) /\ \A j \in 1 .. NB : Registered(BrokerList[j], p)
  BY <1>2, <1>5 DEF Registered
<1>9. getValue(table, b) = b
  BY <1>1, <1>2, <1>3, <1>8 DEF TableAt
<1>10. NB - k \in Nat
  BY <1>1, <1>2
<1>11. PICK ds \in Drawn(NB - k) : Row(b, BrokerList, e(ds)) /\ values' = values \cup ToSet(ds)
  <2> DEFINE n == getValue(table, b)
             C == CHOOSE i \in DOMAIN BrokerList : BrokerList[i] = b
             R(m, i) == \E ds \in Drawn(Len(BrokerList) - i) :
                          /\ Row(m, BrokerList,
                                 [j \in DOMAIN BrokerList |->
                                    IF i < j THEN ds[j - i]
                                    ELSE IF i > j THEN getDelay(BrokerList[j], b) ELSE 0])
                          /\ values' = values \cup ToSet(ds)
  <2>1. CompleteRow(b)
    OBVIOUS
  <2>2. R(n, C)
    <3> HIDE DEF b
    <3> QED
      BY <2>1 DEF CompleteRow
  <2>3. C = k /\ n = b
    BY <1>7, <1>9
  <2>4. R(b, k)
    <3> HIDE DEF R, C, n, k, b
    <3> QED
      BY <2>2, <2>3
  <2> HIDE DEF k, b
  <2> QED
    BY <2>4 DEF NB
<1>12. /\ \A i \in 1 .. NB - k : ds[i] \in Nat \ {0} /\ ds[i] \notin values /\ ds[i] \in ToSet(ds)
       /\ \A i, j \in 1 .. NB - k : ds[i] = ds[j] => i = j
       /\ ToSet(ds) \subseteq Nat
  <2> HIDE DEF k
  <2> QED
    BY <1>10, DrawnAre
<1>13. PICK es : es = e(ds)
  OBVIOUS
<1>14. \A j \in 1 .. NB :
         /\ k < j => j - k \in 1 .. NB - k /\ es[j] = ds[j - k]
         /\ j < k => es[j] = Delay(BrokerList[j], b) /\ es[j] \in values \ {0}
         /\ j = k => es[j] = 0
  <2> SUFFICES ASSUME NEW j \in 1 .. NB
               PROVE  /\ k < j => j - k \in 1 .. NB - k /\ es[j] = ds[j - k]
                      /\ j < k => es[j] = Delay(BrokerList[j], b) /\ es[j] \in values \ {0}
                      /\ j = k => es[j] = 0
    OBVIOUS
  <2>1. getDelay(BrokerList[j], b) = Delay(BrokerList[j], b)
    <3>1. BrokerList[j] \in Modules
      BY <1>1
    <3> HIDE DEF b
    <3> QED
      BY <1>3, <1>8, <3>1, GivenDelay
  <2>2. es[j] = IF k < j THEN ds[j - k] ELSE IF k > j THEN getDelay(BrokerList[j], b) ELSE 0
    <3> HIDE DEF k, b
    <3> QED
      BY <1>1, <1>13
  <2>3. j < k => Delay(BrokerList[j], b) \in values \ {0}
    <3> HIDE DEF k
    <3> QED
      BY <1>2, <1>3, <1>6 DEF CompleteRows
  <2> HIDE DEF k, b
  <2> QED
    BY <1>1, <1>2, <2>1, <2>2, <2>3
<1> HIDE DEF k, b, e
<1>15. \A j \in 1 .. NB : es[j] \in Nat
  <2>1. \A j \in 1 .. NB : k < j \/ j < k \/ j = k
    BY <1>2
  <2>2. \A j \in 1 .. NB : /\ k < j => es[j] \in Nat
                           /\ j < k => es[j] \in Nat
    BY <1>3, <1>12, <1>14
  <2>3. \A j \in 1 .. NB : j = k => es[j] \in Nat
    BY <1>14
  <2> QED
    BY <2>1, <2>2, <2>3
<1>16. /\ TodoAt(p + 1)' /\ TableAt(p + 1)' /\ AreRows'
       /\ \A m \in Modules : m # b => rows'[m] = rows[m]
       /\ IsFilled(rows[b], rows'[b], NB, BrokerList, es)
  <2>1. \A i \in 1 .. NB : BrokerList[i] \in Modules /\ es[i] \in Nat
    BY <1>1, <1>15
  <2>2. b \in Modules
    BY <1>1, <1>2
  <2>3. \A m \in Modules : Registered(m, p + 1) <=> Registered(m, p) \/ m = b
    <3>1. \A m \in Modules : Registered(m, p + 1) <=> Registered(m, p)
      BY <1>4, <1>5 DEF Registered
    <3> QED
      BY <1>8, <3>1
  <2> QED
    BY <1>1, <1>3, <1>11, <1>13, <2>1, <2>2, <2>3, RowIs
<1>17. \A c \in Clients : rows'[c] = rows[c]
  BY <1>1, <1>2, <1>16
<1>18. \A i \in 1 .. NB : i # k => rows'[BrokerList[i]] = rows[BrokerList[i]]
  BY <1>1, <1>2, <1>16 DEF b
<1>19. ClientRows(p + 1)'
  <2>1. ClientRows(p + 1)
    BY <1>3, <1>4 DEF ClientRows
  <2>2. \A i \in 1 .. NC : rows'[ClientList[i]] = rows[ClientList[i]]
    BY <1>1, <1>17
  <2> QED
    BY <2>1, <2>2 DEF ClientRows, Delay
<1>20. \A c \in Clients : /\ Holds(rows'[b], c)
                          /\ getValue(rows'[b], c) = getValue(rows[b], c)
  <2>1. \A c \in Clients : Holds(rows[b], c) /\ c \in Modules
    BY <1>1, <1>2, <1>3, <1>5 DEF CopiedRows, b
  <2> QED
    BY <1>16, <2>1 DEF IsFilled
<1>21. CopiedRows(p + 1)'
  BY <1>1, <1>2, <1>3, <1>5, <1>17, <1>18, <1>20 DEF CopiedRows, Delay, b
<1>22. \A j \in 1 .. NB : Holds(rows'[b], BrokerList[j]) /\ getValue(rows'[b], BrokerList[j]) = es[j]
  <2>1. \A j \in 1 .. NB : ~Holds(rows[b], BrokerList[j])
    <3>1. ~(NC + NB + k <= p)
      BY <1>2, <1>6
    <3> QED
      BY <1>2, <1>3, <3>1 DEF CompleteRows, b
  <2> QED
    BY <1>1, <1>16, <2>1 DEF IsFilled
<1>23. CompleteRows(p + 1)'
  <2> DEFINE D(i, j) == getValue(rows'[BrokerList[i]], BrokerList[j])
  <2> SUFFICES ASSUME NEW i \in 1 .. NB, NEW j \in 1 .. NB
               PROVE  /\ Holds(rows'[BrokerList[i]], BrokerList[j]) <=> NC + NB + i <= p + 1
                      /\ NC + NB + i <= p + 1 =>
                           /\ i = j => D(i, j) = 0
                           /\ i < j => D(i, j) \in values' \ {0}
                           /\ i > j => D(i, j) = D(j, i)
    BY DEF CompleteRows, Delay
  <2>1. CASE i = k
    <3>1. BrokerList[i] = b /\ D(i, j) = es[j] /\ Holds(rows'[BrokerList[i]], BrokerList[j])
      BY <1>22, <2>1 DEF b
    <3>2. j < k => D(j, i) = Delay(BrokerList[j], b)
      BY <1>18, <3>1 DEF Delay
    <3>3. NC + NB + i <= p + 1
      BY <1>2, <1>6, <2>1
    <3>4. k < j => es[j] \in values' \ {0}
      BY <1>11, <1>12, <1>14
    <3> HIDE DEF D
    <3>5. i > j <=> j < k
      BY <1>2, <2>1
    <3> QED
      BY <1>14, <2>1, <3>1, <3>2, <3>3, <3>4, <3>5
  <2>2. CASE i # k
    <3>1. NC + NB + i <= p + 1 <=> NC + NB + i <= p
      BY <1>2, <1>6, <2>2
    <3>2. D(i, j) = Delay(BrokerList[i], BrokerList[j])
      BY <1>18, <2>2 DEF Delay
    <3>3. NC + NB + i <= p /\ i > j => j # k
      BY <1>2, <1>6
    <3>4. NC + NB + i <= p /\ i > j => D(j, i) = Delay(BrokerList[j], BrokerList[i])
      BY <1>18, <3>3 DEF Delay
    <3>5. Holds(rows'[BrokerList[i]], BrokerList[j]) <=> NC + NB + i <= p
      BY <1>3, <1>18, <2>2 DEF CompleteRows
    <3> HIDE DEF D
    <3>6. NC + NB + i <= p =>
            /\ i = j => D(i, j) = 0
            /\ i < j => D(i, j) \in values \ {0}
            /\ i > j => D(i, j) = D(j, i)
      BY <1>3, <3>2, <3>4 DEF CompleteRows
    <3> QED
      BY <1>11, <3>1, <3>5, <3>6
  <2> QED
    BY <2>1, <2>2
<1>24. NoneTwice(p + 1)'
  <2> DEFINE D(i, j) == getValue(rows'[BrokerList[i]], BrokerList[j])
  <2> SUFFICES ASSUME NEW i \in 1 .. NB, NEW j \in 1 .. NB, NEW m \in 1 .. NB, NEW l \in 1 .. NB,
                      i < j, m < l, NC + NB + i <= p + 1, NC + NB + m <= p + 1, D(i, j) = D(m, l)
               PROVE  i = m /\ j = l
    BY DEF NoneTwice, Delay
  <2>1. ASSUME NEW x \in 1 .. NB, NEW y \in 1 .. NB, x < y, NC + NB + x <= p + 1
        PROVE  /\ x = k => y - k \in 1 .. NB - k /\ D(x, y) = ds[y - k] /\ D(x, y) \notin values
               /\ x # k => /\ D(x, y) = Delay(BrokerList[x], BrokerList[y])
                           /\ D(x, y) \in values /\ NC + NB + x <= p
    <3>1. CASE x = k
      <4>1. D(x, y) = es[y]
        BY <1>22, <3>1 DEF b
      <4> HIDE DEF D
      <4> QED
        BY <1>12, <1>14, <2>1, <3>1, <4>1
    <3>2. CASE x # k
      <4>1. D(x, y) = Delay(BrokerList[x], BrokerList[y])
        BY <1>18, <3>2 DEF Delay
      <4>2. NC + NB + x <= p
        BY <1>2, <1>6, <2>1, <3>2
      <4>3. Delay(BrokerList[x], BrokerList[y]) \in values
        BY <1>3, <2>1, <4>2 DEF CompleteRows
      <4> QED
        BY <3>2, <4>1, <4>2, <4>3
    <3> QED
      BY <3>1, <3>2
  <2> HIDE DEF D
  <2>2. CASE i = k /\ m = k
    <3>1. j - k = l - k
      BY <1>12, <2>1, <2>2
    <3> QED
      BY <1>2, <2>2, <3>1
  <2>3. CASE i # k /\ m # k
    <3>1. /\ NC + NB + i <= p /\ NC + NB + m <= p
          /\ Delay(BrokerList[i], BrokerList[j]) = Delay(BrokerList[m], BrokerList[l])
      BY <2>1, <2>3
    <3> QED
      BY <1>3, <3>1 DEF NoneTwice
  <2>4. CASE (i = k /\ m # k) \/ (i # k /\ m = k)
    BY <2>1, <2>4
  <2> QED
    BY <2>2, <2>3, <2>4
<1>25. values' \subseteq Nat
  BY <1>3, <1>11, <1>12
<1> QED
  BY <1>16, <1>19, <1>21, <1>23, <1>24, <1>25 DEF DrawnTo

LEMMA NextDrawn == TableInv /\ [TableNext]_conditions => TableInv'
<1> SUFFICES ASSUME TableInv, [TableNext]_conditions
             PROVE  TableInv'
  OBVIOUS
<1>1. PICK p \in Nat : DrawnTo(p)
  BY DEF TableInv
<1>2. CASE UNCHANGED conditions
  <2>1. rows' = rows /\ table' = table /\ todo' = todo /\ values' = values
    BY <1>2 DEF conditions
  <2>2. TodoAt(p)' /\ TableAt(p)' /\ AreRows'
    BY <1>1, <2>1 DEF DrawnTo, TodoAt, TableAt, AreRows, Registered
  <2>3. ClientRows(p)' /\ CopiedRows(p)'
    BY <1>1, <2>1 DEF DrawnTo, ClientRows, CopiedRows, Delay
  <2>4. CompleteRows(p)' /\ NoneTwice(p)'
    BY <1>1, <2>1 DEF DrawnTo, CompleteRows, NoneTwice, Delay
  <2>5. values' \subseteq Nat
    BY <1>1, <2>1 DEF DrawnTo
  <2> QED
    BY <2>2, <2>3, <2>4, <2>5 DEF TableInv, DrawnTo
<1>3. CASE TableNext
  <2>1. todo # <<>> /\ TodoAt(p)
    BY <1>1, <1>3 DEF TableNext, DrawnTo
  <2>2. p + 1 \in 1 .. NJ /\ Head(todo) = Job(p + 1)
    BY <2>1, NextJob
  <2>3. \/ Job(p + 1)[1] = "draw" /\ DrawRow(Job(p + 1)[2])
        \/ Job(p + 1)[1] = "copy" /\ CopyRow(Job(p + 1)[2])
        \/ Job(p + 1)[1] = "complete" /\ CompleteRow(Job(p + 1)[2])
    BY <1>3, <2>2 DEF TableNext
  <2>4. NC \in Nat /\ NB \in Nat
    BY ListsAre
  <2>5. CASE p + 1 <= NC
    <3>1. Job(p + 1)[1] = "draw" /\ Job(p + 1)[2] = ClientList[p + 1]
      BY <2>5 DEF Job
    <3>2. DrawRow(ClientList[p + 1])
      BY <2>3, <3>1
    <3> QED
      BY <1>1, <2>1, <2>5, <3>2, DrawKeeps DEF TableInv
  <2>6. CASE NC < p + 1 /\ p + 1 <= NC + NB
    <3>1. Job(p + 1)[1] = "copy" /\ Job(p + 1)[2] = BrokerList[p + 1 - NC]
      BY <2>4, <2>6 DEF Job
    <3>2. CopyRow(BrokerList[p + 1 - NC])
      BY <2>3, <3>1
    <3> QED
      BY <1>1, <2>1, <2>6, <3>2, CopyKeeps DEF TableInv
  <2>7. CASE NC + NB < p + 1
    <3>1. Job(p + 1)[1] = "complete" /\ Job(p + 1)[2] = BrokerList[p + 1 - NC - NB]
      BY <2>4, <2>7 DEF Job
    <3>2. CompleteRow(BrokerList[p + 1 - NC - NB])
      BY <2>3, <3>1
    <3>3. p + 1 <= NJ
      BY <2>2
    <3> QED
      BY <1>1, <2>1, <2>7, <3>2, <3>3, CompleteKeeps DEF TableInv
  <2> QED
    BY <2>4, <2>5, <2>6, <2>7
<1> QED
  BY <1>2, <1>3

LEMMA DrawnIsSound == TableInv => TableIsSound
<1> SUFFICES ASSUME TableInv, todo = <<>>
             PROVE  TableIsSound
  BY DEF TableIsSound
<1>1. PICK p \in Nat : DrawnTo(p)
  BY DEF TableInv
<1>2. /\ NC \in Nat /\ NB \in Nat
      /\ \A i \in 1 .. NC : ClientList[i] \in Clients
      /\ \A i \in 1 .. NB : BrokerList[i] \in Brokers
      /\ \A c \in Clients : \E i \in 1 .. NC : ClientList[i] = c
      /\ \A b \in Brokers : \E i \in 1 .. NB : BrokerList[i] = b
      /\ Clients \subseteq Modules /\ Brokers \subseteq Modules
  BY ListsAre DEF Modules
<1>3. p = NJ
  <2> DEFINE n == NJ - p
  <2>1. n \in Nat /\ NJ \in Nat
    BY <1>1, ListsAre DEF DrawnTo, TodoAt
  <2>2. 1 .. n = {}
    <3>1. todo = [i \in 1 .. n |-> Job(p + i)]
      BY <1>1 DEF DrawnTo, TodoAt
    <3> HIDE DEF n
    <3> QED
      BY <3>1
  <2>3. n = 0
    <3> HIDE DEF n
    <3> QED
      BY <2>1, <2>2
  <2> QED
    BY <2>1, <2>3
<1>4. /\ \A i \in 1 .. NC : i <= p
      /\ \A i \in 1 .. NB : NC + i <= p /\ NC + NB + i <= p
  BY <1>2, <1>3 DEF NJ
<1>5. \A n \in Modules : \A x : getDelay(n, x) = Delay(n, x)
  <2>1. \A n \in Modules : Registered(n, p)
    BY <1>2, <1>4 DEF Registered, Modules
  <2> QED
    BY <1>1, <2>1, GivenDelay DEF DrawnTo
<1>6. \A c \in Clients, b \in Brokers :
        /\ Delay(c, b) \in Nat
        /\ Delay(b, c) = Delay(c, b)
        /\ \A d \in Brokers : Delay(c, b) = Delay(c, d) => b = d
  <2>1. /\ \A i \in 1 .. NC, b \in Brokers :
              /\ Delay(ClientList[i], b) \in Nat
              /\ \A d \in Brokers : Delay(ClientList[i], b) = Delay(ClientList[i], d) => b = d
        /\ \A i \in 1 .. NB, c \in Clients : Delay(BrokerList[i], c) = Delay(c, BrokerList[i])
    BY <1>1, <1>4 DEF DrawnTo, ClientRows, CopiedRows
  <2> QED
    BY <1>2, <2>1
<1> DEFINE D(i, j) == Delay(BrokerList[i], BrokerList[j])
<1>7. \A i, j \in 1 .. NB : /\ i = j => D(i, j) = 0
                            /\ i < j => D(i, j) \in values \ {0}
                            /\ i > j => D(i, j) = D(j, i)
  BY <1>1, <1>4 DEF DrawnTo, CompleteRows
<1>8. \A i, j, k, l \in 1 .. NB : i < j /\ k < l /\ D(i, j) = D(k, l) => i = k /\ j = l
  BY <1>1, <1>4 DEF DrawnTo, NoneTwice
<1>9. values \subseteq Nat
  BY <1>1 DEF DrawnTo
<1> HIDE DEF D
<1>10. \A i, j \in 1 .. NB : i = j \/ i < j \/ i > j
  BY <1>2
<1>11. \A i, j \in 1 .. NB : D(i, j) = D(j, i) /\ D(i, j) \in Nat /\ (i # j => D(i, j) # 0)
  <2> TAKE i \in 1 .. NB, j \in 1 .. NB
  <2>1. CASE i = j
    BY <1>7, <2>1
  <2>2. CASE i < j
    <3>1. j > i
      BY <2>2
    <3> QED
      BY <1>7, <1>9, <2>2, <3>1
  <2>3. CASE i > j
    <3>1. j < i
      BY <2>3
    <3> QED
      BY <1>7, <1>9, <2>3, <3>1
  <2> QED
    BY <1>10, <2>1, <2>2, <2>3
<1>12. \A i, j, k, l \in 1 .. NB : i # j /\ D(i, j) = D(k, l) =>
         (i = k /\ j = l) \/ (i = l /\ j = k)
  <2> SUFFICES ASSUME NEW i \in 1 .. NB, NEW j \in 1 .. NB, NEW k \in 1 .. NB, NEW l \in 1 .. NB,
                      i # j, D(i, j) = D(k, l)
               PROVE  (i = k /\ j = l) \/ (i = l /\ j = k)
    OBVIOUS
  <2>1. k # l
    BY <1>7, <1>11
  <2>2. D(i, j) = D(j, i) /\ D(k, l) = D(l, k)
    BY <1>11
  <2>3. i < j \/ j < i
    BY <1>2
  <2>4. k < l \/ l < k
    BY <1>2, <2>1
  <2> QED
    BY <1>8, <2>2, <2>3, <2>4
<1> DEFINE t == [b \in Brokers |-> [c \in Brokers |-> getDelay(b, c)]]
<1>13. \A b, c \in Brokers : t[b][c] = Delay(b, c)
  BY <1>2, <1>5
<1>14. IsConditionTable(t)
  <2>1. \A b, c \in Brokers : Delay(b, c) \in Nat /\ Delay(b, c) = Delay(c, b)
    <3> TAKE b \in Brokers, c \in Brokers
    <3>1. PICK i \in 1 .. NB : BrokerList[i] = b
      BY <1>2
    <3>2. PICK j \in 1 .. NB : BrokerList[j] = c
      BY <1>2
    <3>3. D(i, j) = Delay(b, c) /\ D(j, i) = Delay(c, b)
      BY <3>1, <3>2 DEF D
    <3> QED
      BY <1>11, <3>3
  <2>2. \A b, c, d, f \in Brokers :
          b # c /\ Delay(b, c) = Delay(d, f) => (b = d /\ c = f) \/ (b = f /\ c = d)
    <3> SUFFICES ASSUME NEW b \in Brokers, NEW c \in Brokers, NEW d \in Brokers, NEW f \in Brokers,
                        b # c, Delay(b, c) = Delay(d, f)
                 PROVE  (b = d /\ c = f) \/ (b = f /\ c = d)
      OBVIOUS
    <3>1. PICK i \in 1 .. NB : BrokerList[i] = b
      BY <1>2
    <3>2. PICK j \in 1 .. NB : BrokerList[j] = c
      BY <1>2
    <3>3. PICK k \in 1 .. NB : BrokerList[k] = d
      BY <1>2
    <3>4. PICK l \in 1 .. NB : BrokerList[l] = f
      BY <1>2
    <3>5. i # j /\ D(i, j) = D(k, l)
      <4>1. D(i, j) = Delay(b, c) /\ D(k, l) = Delay(d, f)
        BY <3>1, <3>2, <3>3, <3>4 DEF D
      <4> QED
        BY <3>1, <3>2, <4>1
    <3>6. (i = k /\ j = l) \/ (i = l /\ j = k)
      BY <1>12, <3>5
    <3> QED
      BY <3>1, <3>2, <3>3, <3>4, <3>6
  <2>3. t \in [Brokers -> [Brokers -> Nat]]
    BY <1>2, <1>5, <2>1
  <2> HIDE DEF t
  <2> QED
    <3>1. \A b, c \in Brokers : t[b][c] = t[c][b]
      BY <1>13, <2>1
    <3>2. \A b, c, d, f \in Brokers : b # c /\ t[b][c] = t[d][f] => {b, c} = {d, f}
      <4> SUFFICES ASSUME NEW b \in Brokers, NEW c \in Brokers, NEW d \in Brokers, NEW f \in Brokers,
                          b # c, t[b][c] = t[d][f]
                   PROVE  {b, c} = {d, f}
        OBVIOUS
      <4>1. Delay(b, c) = Delay(d, f)
        BY <1>13
      <4>2. (b = d /\ c = f) \/ (b = f /\ c = d)
        BY <2>2, <4>1
      <4> QED
        BY <4>2
    <3> QED
      BY Zenon, <2>3, <3>1, <3>2 DEF IsConditionTable
<1>15. IsPing([c \in Clients |-> [b \in Brokers |-> getDelay(c, b)]])
  <2>1. \A c \in Clients, b \in Brokers :
          /\ getDelay(c, b) \in Nat
          /\ \A d \in Brokers : getDelay(c, b) = getDelay(c, d) => b = d
    BY <1>2, <1>5, <1>6
  <2> QED
    BY <2>1 DEF IsPing
<1>16. \A c \in Clients, b \in Brokers : getDelay(c, b) = getDelay(b, c)
  BY <1>2, <1>5, <1>6
<1> QED
  BY <1>14, <1>15, <1>16 DEF TableIsSound

(* When the last row has been filled, for any number of clients and        *)
(* brokers and whatever rand() gave: the delays between brokers are the    *)
(* same in both directions and no two links have the same, a client has    *)
(* another delay to each broker and sees the delay the broker sees         *)
(* (initialize, with getDelay and isUnique; NetworkConditionTable.cc).     *)
THEOREM TableIsDrawn == TableSpec => []TableIsSound
<1>1. TableInit => TableInv
  BY InitDrawn
<1>2. TableInv /\ [TableNext]_conditions => TableInv'
  BY NextDrawn
<1>3. TableInv => TableIsSound
  BY DrawnIsSound
<1> QED
  BY <1>1, <1>2, <1>3, PTL DEF TableSpec
=============================================================================
