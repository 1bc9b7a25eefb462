------------------------ MODULE SpanningForest_proofs ------------------------
(***************************************************************************)
(* What the abstract specification of the overlay guarantees.              *)
(***************************************************************************)
EXTENDS SpanningForest, TLAPS

TypeOK ==
    /\ delay \in [Brokers -> [Brokers -> Nat]]
    /\ \A b, c \in Brokers : delay[b][c] = delay[c][b]
    /\ round \in [Brokers -> Nat]
    /\ available \in [Brokers -> SUBSET Brokers]
    /\ linked \in [Brokers -> SUBSET Brokers]

Inv == TypeOK /\ LinksAreShortest

-----------------------------------------------------------------------------

LEMMA InitInv == ForestInit => Inv
BY DEF ForestInit, Inv, TypeOK, LinksAreShortest

(* A step that takes links away, or changes what a broker without links    *)
(* builds over, leaves the other links as they are.                        *)
LEMMA OthersKeepLinks ==
    ASSUME Inv, UNCHANGED delay, TypeOK', NEW b \in Brokers,
           \A d \in Brokers \ {b} : linked'[d] = linked[d] /\ available'[d] = available[d],
           \A c \in linked'[b] : Shortest(b, c, available[b])',
           NEW d \in Brokers, NEW c \in linked'[d]
    PROVE  Shortest(d, c, available[d])'
<1>1. CASE d = b
  BY <1>1
<1>2. CASE d # b
  <2>1. Shortest(d, c, available[d])
    BY <1>2 DEF Inv, LinksAreShortest
  <2> QED
    BY <1>2, <2>1 DEF Shortest
<1> QED
  BY <1>1, <1>2

(* The first half of a link: the fragment of b, as far as it is available, *)
(* is the side of b of the cut.                                            *)
LEMMA FirstHalf ==
    ASSUME NEW b \in Brokers, NEW c \in Brokers, Inv, {b, c} \subseteq available[b],
           ShortestWayOut(b, c, Fragment(b), available[b])
    PROVE  Shortest(b, c, available[b])
<1> DEFINE S == Fragment(b) \cap available[b]
<1>1. S \in SUBSET available[b] /\ b \in S /\ c \in available[b] \ S
  BY DEF ShortestWayOut
<1>2. \A x \in S, y \in available[b] \ S : delay[b][c] <= delay[x][y]
  BY DEF ShortestWayOut
<1> QED
  BY <1>1, <1>2 DEF Shortest

(* The second half: the same cut, seen from the other side.                *)
LEMMA SecondHalf ==
    ASSUME NEW b \in Brokers, NEW c \in Brokers, Inv, available[b] = available[c],
           b \in linked[c]
    PROVE  Shortest(b, c, available[b])
<1>1. PICK S \in SUBSET available[c] :
        /\ c \in S /\ b \in available[c] \ S
        /\ \A x \in S, y \in available[c] \ S : delay[c][b] <= delay[x][y]
  BY DEF Inv, LinksAreShortest, Shortest
<1> DEFINE T == available[b] \ S
<1>2. T \in SUBSET available[b] /\ b \in T /\ c \in available[b] \ T
  BY <1>1 DEF Inv, TypeOK
<1>3. ASSUME NEW x \in T, NEW y \in available[b] \ T
      PROVE  delay[b][c] <= delay[x][y]
  <2>1. delay[c][b] <= delay[y][x]
    BY <1>1, <1>3
  <2> QED
    BY <2>1 DEF Inv, TypeOK
<1> QED
  BY <1>2, <1>3 DEF Shortest

LEMMA NextInv == Inv /\ [ForestNext]_forest => Inv'
<1> SUFFICES ASSUME Inv, [ForestNext]_forest
             PROVE  Inv'
  OBVIOUS
<1>1. CASE UNCHANGED forest
  BY <1>1 DEF Inv, TypeOK, LinksAreShortest, Shortest, forest
<1>2. ASSUME NEW b \in Brokers, Learn(b)
      PROVE  Inv'
  <2>1. TypeOK'
    BY <1>2 DEF Learn, Inv, TypeOK
  <2>2. linked'[b] = {} /\ UNCHANGED delay
    BY <1>2 DEF Learn
  <2>3. \A d \in Brokers \ {b} : linked'[d] = linked[d] /\ available'[d] = available[d]
    BY <1>2 DEF Learn, Inv, TypeOK
  <2> QED
    BY <2>1, <2>2, <2>3, OthersKeepLinks DEF Inv, LinksAreShortest
<1>3. ASSUME NEW b \in Brokers, Build(b)
      PROVE  Inv'
  <2>1. TypeOK'
    BY <1>3 DEF Build, Inv, TypeOK
  <2>2. linked'[b] = {} /\ UNCHANGED delay
    BY <1>3 DEF Build, Inv, TypeOK
  <2>3. \A d \in Brokers \ {b} : linked'[d] = linked[d] /\ available'[d] = available[d]
    BY <1>3 DEF Build, Inv, TypeOK
  <2> QED
    BY <2>1, <2>2, <2>3, OthersKeepLinks DEF Inv, LinksAreShortest
<1>4. ASSUME NEW b \in Brokers, Leave(b)
      PROVE  Inv'
  <2>1. TypeOK'
    BY <1>4 DEF Leave, Inv, TypeOK
  <2>2. linked'[b] = {} /\ UNCHANGED delay
    BY <1>4 DEF Leave, Inv, TypeOK
  <2>3. \A d \in Brokers \ {b} : linked'[d] = linked[d] /\ available'[d] = available[d]
    BY <1>4 DEF Leave, Inv, TypeOK
  <2> QED
    BY <2>1, <2>2, <2>3, OthersKeepLinks DEF Inv, LinksAreShortest
<1>5. ASSUME NEW b \in Brokers, NEW c \in Brokers, Link(b, c)
      PROVE  Inv'
  <2>1. TypeOK'
    BY <1>5 DEF Link, Inv, TypeOK
  <2>2. UNCHANGED <<delay, available>> /\ linked'[b] = linked[b] \cup {c}
    BY <1>5 DEF Link, Inv, TypeOK
  <2>3. \A d \in Brokers \ {b} : linked'[d] = linked[d] /\ available'[d] = available[d]
    BY <1>5 DEF Link, Inv, TypeOK
  <2>4. Shortest(b, c, available[b])
    BY <1>5, FirstHalf, SecondHalf DEF Link
  <2>5. \A d \in linked'[b] : Shortest(b, d, available[b])
    BY <2>2, <2>4 DEF Inv, LinksAreShortest
  <2>6. \A d \in linked'[b] : Shortest(b, d, available[b])'
    BY <2>2, <2>5 DEF Shortest
  <2> QED
    BY <2>1, <2>2, <2>3, <2>6, OthersKeepLinks DEF Inv, LinksAreShortest
<1> QED
  BY <1>1, <1>2, <1>3, <1>4, <1>5 DEF ForestNext

(* Whatever brokers do within the abstract specification, every link of    *)
(* theirs is one of a minimum spanning tree.                               *)
THEOREM OnlyShortestLinks == ForestSpec => []LinksAreShortest
<1>1. Inv => LinksAreShortest
  BY DEF Inv
<1> QED
  BY InitInv, NextInv, <1>1, PTL DEF ForestSpec

-----------------------------------------------------------------------------
(* No cycle.  A broker may keep a link to one that has gone on to a later  *)
(* round, but has none to one that is behind: a round begins without       *)
(* links, also without links from others.                                  *)

NoneBehind == \A b \in Brokers : \A c \in linked[b] : round[b] <= round[c]

CInv == TypeOK /\ NoneBehind /\ NoCycle

LEMMA InitCInv == ForestInit => CInv
BY DEF ForestInit, CInv, TypeOK, NoneBehind, NoCycle, Joined

LEMMA FragmentFacts ==
    ASSUME NEW b \in Brokers
    PROVE  /\ b \in Fragment(b)
           /\ \A x \in Fragment(b), y \in Brokers : Joined(x, y) => y \in Fragment(b)
           /\ \A S \in SUBSET Brokers :
                b \in S /\ (\A x \in S, y \in Brokers : Joined(x, y) => y \in S)
                  => Fragment(b) \subseteq S
BY DEF Fragment

LEMMA FragmentsAreDisjoint ==
    ASSUME NEW b \in Brokers, NEW c \in Brokers, c \notin Fragment(b)
    PROVE  Fragment(b) \cap Fragment(c) = {}
<1> DEFINE S == Brokers \ Fragment(b)
<1>1. \A x \in S, y \in Brokers : Joined(x, y) => y \in S
  BY FragmentFacts DEF Joined
<1>2. Fragment(c) \subseteq S
  BY <1>1, FragmentFacts
<1> QED
  BY <1>2

(* Fewer links: what was a bridge still is one.                            *)
LEMMA FewerLinks ==
    ASSUME NoCycle, \A x, y \in Brokers : Joined(x, y)' => Joined(x, y)
    PROVE  NoCycle'
<1> SUFFICES ASSUME NEW b \in Brokers, NEW c \in Brokers, Joined(b, c)'
             PROVE  Bridge(b, c)'
  BY DEF NoCycle
<1>1. PICK S \in SUBSET Brokers :
        /\ b \in S /\ c \notin S
        /\ \A x \in S, y \in Brokers \ S : Joined(x, y) => x = b /\ y = c
  BY DEF NoCycle, Bridge
<1>2. \A x \in S, y \in Brokers \ S : Joined(x, y)' => x = b /\ y = c
  BY <1>1
<1> QED
  BY <1>1, <1>2 DEF Bridge

(* A link {b, c} between two fragments leaves a bridge {d, f} a bridge: F  *)
(* is the fragment at one end of the new link that d and f are not in, and *)
(* e the other end.                                                        *)
LEMMA BridgeStays ==
    ASSUME NEW F \in SUBSET Brokers,
           \A x \in F, y \in Brokers : Joined(x, y) \/ Joined(y, x) => y \in F,
           NEW g \in F, NEW e \in Brokers \ F,
           \A x, y \in Brokers : Joined(x, y)' => Joined(x, y) \/ {x, y} = {g, e},
           NEW d \in Brokers \ F, NEW f \in Brokers \ F, Bridge(d, f)
    PROVE  Bridge(d, f)'
<1>1. PICK S \in SUBSET Brokers :
        /\ d \in S /\ f \notin S
        /\ \A x \in S, y \in Brokers \ S : Joined(x, y) => x = d /\ y = f
  BY DEF Bridge
<1> DEFINE T == IF e \in S THEN S \cup F ELSE S \ F
<1>2. T \in SUBSET Brokers /\ d \in T /\ f \notin T
  BY <1>1
<1>3. ASSUME NEW x \in T, NEW y \in Brokers \ T, Joined(x, y)'
      PROVE  x = d /\ y = f
  <2>1. {x, y} # {g, e}
    BY <1>3
  <2>2. Joined(x, y)
    BY <1>2, <1>3, <2>1
  <2>3. x \in S /\ y \in Brokers \ S
    <3>1. x \in F <=> y \in F
      BY <1>2, <1>3, <2>2 DEF Joined
    <3> QED
      BY <1>3, <3>1
  <2> QED
    BY <1>1, <2>2, <2>3
<1> QED
  BY <1>2, <1>3 DEF Bridge

LEMMA LinkNoCycle ==
    ASSUME CInv, NEW b \in Brokers, NEW c \in Brokers, Link(b, c)
    PROVE  NoCycle'
<1>1. UNCHANGED round /\ linked' = [linked EXCEPT ![b] = @ \cup {c}] /\ round[b] = round[c]
  BY DEF Link
<1>2. \A x, y \in Brokers : Joined(x, y)' => Joined(x, y) \/ {x, y} = {b, c}
  BY <1>1 DEF Joined, CInv, TypeOK
<1>3. CASE b \in linked[c]
  <2>1. Joined(b, c) /\ Joined(c, b)
    BY <1>1, <1>3 DEF Joined
  <2>2. \A x, y \in Brokers : Joined(x, y)' => Joined(x, y)
    BY <1>2, <2>1
  <2> QED
    BY <2>2, FewerLinks DEF CInv
<1>4. CASE /\ ShortestWayOut(b, c, Fragment(b), available[b])
           /\ ShortestWayOut(c, b, Fragment(c), available[c])
  <2>1. c \notin Fragment(b) /\ b \notin Fragment(c)
    BY <1>4 DEF ShortestWayOut
  <2>2. Fragment(b) \cap Fragment(c) = {}
    BY <2>1, FragmentsAreDisjoint
  <2>3. Fragment(b) \in SUBSET Brokers /\ Fragment(c) \in SUBSET Brokers
    BY DEF Fragment
  <2>4. \A x \in Fragment(b), y \in Brokers :
           Joined(x, y) \/ Joined(y, x) => y \in Fragment(b)
    BY FragmentFacts DEF Fragment, Joined
  <2>5. \A x \in Fragment(c), y \in Brokers :
           Joined(x, y) \/ Joined(y, x) => y \in Fragment(c)
    BY FragmentFacts DEF Fragment, Joined
  <2>6. b \in Fragment(b) /\ c \in Fragment(c)
    BY FragmentFacts
  <2>7. ASSUME NEW d \in Brokers, NEW f \in Brokers, Joined(d, f)
        PROVE  Bridge(d, f)'
    <3>1. Bridge(d, f)
      BY <2>7 DEF CInv, NoCycle
    <3>2. CASE d \in Fragment(b)
      <4>1. d \notin Fragment(c) /\ f \notin Fragment(c)
        BY <3>2, <2>2, <2>4, <2>7
      <4>2. \A x, y \in Brokers : Joined(x, y)' => Joined(x, y) \/ {x, y} = {c, b}
        BY <1>2
      <4> QED
        BY <4>1, <4>2, <3>1, <2>1, <2>3, <2>5, <2>6, BridgeStays
    <3>3. CASE d \notin Fragment(b)
      <4>1. f \notin Fragment(b)
        BY <3>3, <2>4, <2>7
      <4> QED
        BY <4>1, <3>3, <3>1, <1>2, <2>1, <2>3, <2>4, <2>6, BridgeStays
    <3> QED
      BY <3>2, <3>3
  <2>8. Bridge(b, c)'
    <3>1. \A x \in Fragment(b), y \in Brokers \ Fragment(b) :
             Joined(x, y)' => x = b /\ y = c
      BY <1>2, <2>1, <2>3, <2>4
    <3> QED
      BY <3>1, <2>1, <2>3, <2>6 DEF Bridge
  <2>9. Bridge(c, b)'
    <3>1. \A x \in Fragment(c), y \in Brokers \ Fragment(c) :
             Joined(x, y)' => x = c /\ y = b
      BY <1>2, <2>1, <2>3, <2>5
    <3> QED
      BY <3>1, <2>1, <2>3, <2>6 DEF Bridge
  <2> QED
    BY <1>2, <2>7, <2>8, <2>9 DEF NoCycle
<1> QED
  BY <1>3, <1>4 DEF Link

LEMMA NextCInv == CInv /\ [ForestNext]_forest => CInv'
<1> SUFFICES ASSUME CInv, [ForestNext]_forest
             PROVE  CInv'
  OBVIOUS
<1>1. CASE UNCHANGED forest
  BY <1>1 DEF CInv, TypeOK, NoneBehind, NoCycle, Bridge, Joined, forest
<1>2. ASSUME NEW b \in Brokers, Learn(b)
      PROVE  CInv'
  BY <1>2 DEF Learn, CInv, TypeOK, NoneBehind, NoCycle, Bridge, Joined
<1>3. ASSUME NEW b \in Brokers, Build(b)
      PROVE  CInv'
  <2>1. TypeOK'
    BY <1>3 DEF Build, CInv, TypeOK
  <2>2. NoneBehind'
    BY <1>3 DEF Build, CInv, TypeOK, NoneBehind
  <2>3. \A x, y \in Brokers : Joined(x, y)' => Joined(x, y)
    BY <1>3 DEF Build, CInv, TypeOK, NoneBehind, Joined
  <2> QED
    BY <2>1, <2>2, <2>3, FewerLinks DEF CInv
<1>4. ASSUME NEW b \in Brokers, Leave(b)
      PROVE  CInv'
  <2>1. TypeOK' /\ NoneBehind'
    BY <1>4 DEF Leave, CInv, TypeOK, NoneBehind
  <2>2. \A x, y \in Brokers : Joined(x, y)' => Joined(x, y)
    BY <1>4 DEF Leave, CInv, TypeOK, Joined
  <2> QED
    BY <2>1, <2>2, FewerLinks DEF CInv
<1>5. ASSUME NEW b \in Brokers, NEW c \in Brokers, Link(b, c)
      PROVE  CInv'
  <2>1. TypeOK' /\ NoneBehind'
    BY <1>5 DEF Link, CInv, TypeOK, NoneBehind
  <2> QED
    BY <1>5, <2>1, LinkNoCycle DEF CInv
<1> QED
  BY <1>1, <1>2, <1>3, <1>4, <1>5 DEF ForestNext

(* Whatever brokers do within the abstract specification, the links of a   *)
(* round never close a cycle.                                              *)
THEOREM LinksFormAForest == ForestSpec => []NoCycle
<1>1. CInv => NoCycle
  BY DEF CInv
<1> QED
  BY InitCInv, NextCInv, <1>1, PTL DEF ForestSpec
=============================================================================
