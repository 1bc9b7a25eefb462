------------------------ MODULE CausalDelivery_proofs ------------------------
(***************************************************************************)
(* The vector clocks of clients that know each other make a causal         *)
(* broadcast of a network that delivers in any order: CausalDelivery       *)
(* implements CausalBroadcast, for any number of clients, topics and       *)
(* publications.                                                           *)
(***************************************************************************)
EXTENDS CausalDelivery, FiniteSetTheorems, SequenceTheorems, WellFoundedInduction, TLAPS

-----------------------------------------------------------------------------
(* The clocks of the clients                                               *)

Merging == INSTANCE Folding WITH Op <- merge

(* A clock with one pair for each of its nodes.                            *)
Distinct(clock) ==
    \A i, j \in DOMAIN clock : clock[i].node = clock[j].node => i = j

Clocks == {clock \in VectorClock : Distinct(clock)}

(* What a clock says of client d, known or not.                            *)
Level(clock, d) == IF Knows(clock, d) THEN Value(clock, d) ELSE 0

Larger(x, y) == IF x < y THEN y ELSE x

-----------------------------------------------------------------------------

LEMMA MaxOfTwo ==
    ASSUME NEW x \in Nat, NEW y \in Nat
    PROVE  Max({x, y}) = Larger(x, y)
<1>1. \A z \in {x, y} : Larger(x, y) >= z
  BY DEF Larger
<1>2. Larger(x, y) \in {x, y}
  BY DEF Larger
<1>3. \E z \in {x, y} : \A w \in {x, y} : z >= w
  BY <1>1, <1>2
<1>4. Max({x, y}) \in {x, y} /\ \A w \in {x, y} : Max({x, y}) >= w
  BY <1>3 DEF Max
<1> QED
  BY <1>4 DEF Larger

LEMMA ClockType ==
    ASSUME NEW k \in VectorClock
    PROVE  /\ Len(k) \in Nat /\ DOMAIN k = 1 .. Len(k)
           /\ \A i \in DOMAIN k : k[i] \in Pair /\ k[i].node \in Clients /\ k[i].value \in Nat
<1>1. Len(k) \in Nat /\ DOMAIN k = 1 .. Len(k)
  BY DEF VectorClock
<1>2. \A i \in DOMAIN k : k[i] \in Pair
  BY DEF VectorClock
<1>3. \A p \in Pair : p.node \in Clients /\ p.value \in Nat
  BY DEF Pair
<1> QED
  BY <1>1, <1>2, <1>3

LEMMA ValueIs ==
    ASSUME NEW k \in Clocks, NEW i \in DOMAIN k
    PROVE  Value(k, k[i].node) = k[i].value /\ Knows(k, k[i].node)
<1> DEFINE j == CHOOSE j \in DOMAIN k : k[j].node = k[i].node
<1>1. j \in DOMAIN k /\ k[j].node = k[i].node
  OBVIOUS
<1>2. Value(k, k[i].node) = k[j].value
  BY DEF Value
<1> HIDE DEF j
<1> QED
  BY <1>1, <1>2 DEF Clocks, Distinct, Knows

LEMMA KnownValue ==
    ASSUME NEW k \in VectorClock, NEW d, Knows(k, d)
    PROVE  /\ \E i \in DOMAIN k : k[i].node = d /\ Value(k, d) = k[i].value
           /\ Value(k, d) \in Nat /\ d \in Clients
<1> DEFINE j == CHOOSE j \in DOMAIN k : k[j].node = d
<1>1. j \in DOMAIN k /\ k[j].node = d
  BY DEF Knows
<1>2. Value(k, d) = k[j].value
  BY DEF Value
<1> HIDE DEF j
<1> QED
  BY <1>1, <1>2, ClockType

LEMMA LevelType ==
    ASSUME NEW k \in VectorClock, NEW d
    PROVE  Level(k, d) \in Nat
BY KnownValue DEF Level

-----------------------------------------------------------------------------
(* merge and update take the larger of two levels.                         *)

LEMMA MergeLevels ==
    ASSUME NEW k \in Clocks, NEW p \in Pair
    PROVE  /\ merge(k, p) \in Clocks
           /\ \A d : Knows(merge(k, p), d) <=> Knows(k, d) \/ d = p.node
           /\ \A d : Level(merge(k, p), d) =
                       IF d = p.node THEN Larger(Level(k, d), p.value) ELSE Level(k, d)
<1>1. k \in VectorClock /\ Distinct(k) /\ p.node \in Clients /\ p.value \in Nat
  BY DEF Clocks, Pair
<1>2. Len(k) \in Nat /\ DOMAIN k = 1 .. Len(k)
  BY <1>1, ClockType
<1>3. \A i \in DOMAIN k : k[i] \in Pair /\ k[i].node \in Clients /\ k[i].value \in Nat
  BY <1>1, ClockType
<1>4. CASE Knows(k, p.node)
  <2> DEFINE r == [i \in DOMAIN k |->
                     IF k[i].node = p.node
                     THEN [k[i] EXCEPT !.value = Larger(k[i].value, p.value)] ELSE k[i]]
  <2>1. merge(k, p) = r
    <3>1. \A i \in DOMAIN k : Max({k[i].value, p.value}) = Larger(k[i].value, p.value)
      BY <1>1, <1>3, MaxOfTwo
    <3>2. merge(k, p) = [i \in DOMAIN k |->
                     IF k[i].node = p.node
                     THEN [k[i] EXCEPT !.value = Max({k[i].value, p.value})] ELSE k[i]]
      BY <1>4 DEF merge
    <3> QED
      BY <3>1, <3>2
  <2>2. DOMAIN r = DOMAIN k
    OBVIOUS
  <2>3. ASSUME NEW i \in DOMAIN k
        PROVE  /\ r[i].node = k[i].node
               /\ r[i].value = IF k[i].node = p.node THEN Larger(k[i].value, p.value)
                               ELSE k[i].value
               /\ r[i] \in Pair
    BY <1>1, <1>3 DEF Pair, Larger
  <2> HIDE DEF r
  <2>4. r \in Clocks
    <3>0. r = [i \in 1 .. Len(k) |-> r[i]]
      BY <1>2 DEF r
    <3>1. r \in Seq(Pair)
      BY <1>2, <2>2, <2>3, <3>0
    <3>2. Distinct(r)
      BY <1>1, <2>2, <2>3 DEF Distinct
    <3> QED
      BY <3>1, <3>2 DEF Clocks, VectorClock
  <2>5. \A d : Knows(r, d) <=> Knows(k, d)
    BY <2>2, <2>3 DEF Knows
  <2>6. ASSUME NEW d
        PROVE  Level(r, d) = IF d = p.node THEN Larger(Level(k, d), p.value) ELSE Level(k, d)
    <3>1. CASE ~Knows(k, d)
      BY <1>4, <2>5, <3>1 DEF Level
    <3>2. CASE Knows(k, d)
      <4>1. PICK i \in DOMAIN k : k[i].node = d /\ Value(k, d) = k[i].value
        BY <1>1, <3>2, KnownValue
      <4>2. Value(r, r[i].node) = r[i].value
        BY <2>2, <2>4, ValueIs
      <4> QED
        BY <2>3, <2>5, <3>2, <4>1, <4>2 DEF Level
    <3> QED
      BY <3>1, <3>2
  <2> QED
    BY <1>4, <2>1, <2>4, <2>5, <2>6
<1>5. CASE ~Knows(k, p.node)
  <2> DEFINE r == Append(k, p)
             n == Len(k) + 1
  <2>1. merge(k, p) = r
    BY <1>5 DEF merge
  <2>2. r \in Seq(Pair) /\ DOMAIN r = 1 .. n /\ r[n] = p /\ n \in DOMAIN r
          /\ \A i \in DOMAIN k : r[i] = k[i] /\ i \in DOMAIN r
    BY <1>1, <1>2 DEF VectorClock
  <2> HIDE DEF r
  <2>3. \A i \in DOMAIN r : i \in DOMAIN k \/ i = n
    BY <1>2, <2>2
  <2>4. Distinct(r)
    <3>1. \A i \in DOMAIN k : k[i].node # p.node
      BY <1>5 DEF Knows
    <3> QED
      BY <1>1, <2>2, <2>3, <3>1 DEF Distinct
  <2>5. r \in Clocks
    BY <2>2, <2>4 DEF Clocks, VectorClock
  <2>6. \A d : Knows(r, d) <=> Knows(k, d) \/ d = p.node
    BY <2>2, <2>3 DEF Knows
  <2>7. ASSUME NEW d
        PROVE  Level(r, d) = IF d = p.node THEN Larger(Level(k, d), p.value) ELSE Level(k, d)
    <3>1. CASE d = p.node
      <4>1. Value(r, d) = p.value
        BY <2>2, <2>5, <3>1, ValueIs
      <4> QED
        BY <1>1, <1>5, <2>6, <3>1, <4>1 DEF Level, Larger
    <3>2. CASE d # p.node /\ Knows(k, d)
      <4>1. PICK i \in DOMAIN k : k[i].node = d /\ Value(k, d) = k[i].value
        BY <1>1, <3>2, KnownValue
      <4>2. Value(r, r[i].node) = r[i].value
        BY <2>2, <2>5, ValueIs
      <4> QED
        BY <2>2, <2>6, <3>2, <4>1, <4>2 DEF Level
    <3>3. CASE d # p.node /\ ~Knows(k, d)
      BY <2>6, <3>3 DEF Level
    <3> QED
      BY <3>1, <3>2, <3>3
  <2> QED
    BY <2>1, <2>5, <2>6, <2>7
<1> QED
  BY <1>4, <1>5

LEMMA UpdateIsFold ==
    ASSUME NEW k, NEW o
    PROVE  update(k, o) = Merging!Fold(k, o)
BY DEF update, merge, Merging!Fold, FoldLeft, MapThenFoldSet, Merging!FoldLeft,
       Merging!MapThenFoldSet, Max, Merging!Max

LEMMA UpdateLevels ==
    ASSUME NEW k \in Clocks, NEW o \in Clocks
    PROVE  /\ update(k, o) \in Clocks
           /\ \A d : Knows(update(k, o), d) <=> Knows(k, d) \/ Knows(o, d)
           /\ \A d : Level(update(k, o), d) = Larger(Level(k, d), Level(o, d))
<1> DEFINE F(s) == Merging!Fold(k, s)
           Good(s) ==
             /\ F(s) \in Clocks
             /\ \A d : Knows(F(s), d) <=> Knows(k, d) \/ Knows(s, d)
             /\ \A d : Level(F(s), d) = Larger(Level(k, d), Level(s, d))
           S == {s \in VectorClock : Distinct(s) => Good(s)}
<1>1. <<>> \in S
  <2>1. F(<<>>) = k
    BY Merging!FoldEmpty
  <2>2. <<>> \in VectorClock /\ \A d : ~Knows(<<>>, d)
    BY DEF VectorClock, Knows
  <2>3. \A d : Level(k, d) = Larger(Level(k, d), Level(<<>>, d))
    BY <2>2, LevelType DEF Level, Larger, Clocks
  <2> QED
    BY <2>1, <2>2, <2>3
<1>2. ASSUME NEW s \in Seq(Pair), NEW p \in Pair, s \in S
      PROVE  Append(s, p) \in S
  <2> DEFINE r == Append(s, p)
             n == Len(s) + 1
  <2>1. r \in VectorClock /\ s \in VectorClock
    BY DEF VectorClock
  <2> SUFFICES ASSUME Distinct(r)
               PROVE  Good(r)
    BY <2>1
  <2>2. /\ DOMAIN r = 1 .. n /\ DOMAIN s = 1 .. Len(s) /\ r[n] = p /\ n \in DOMAIN r /\ Len(s) \in Nat
        /\ \A i \in DOMAIN s : r[i] = s[i] /\ i \in DOMAIN r /\ i # n
    OBVIOUS
  <2>3. Distinct(s)
    BY <2>2 DEF Distinct
  <2>4. ~Knows(s, p.node)
    BY <2>2 DEF Distinct, Knows
  <2>5. Good(s)
    BY <1>2, <2>3
  <2>6. F(r) = merge(F(s), p)
    BY Merging!FoldAppend
  <2>7. merge(s, p) = r
    BY <2>4 DEF merge
  <2>8. s \in Clocks
    BY <2>1, <2>3 DEF Clocks
  <2> HIDE DEF r, F
  <2>9. /\ \A d : Knows(r, d) <=> Knows(s, d) \/ d = p.node
        /\ \A d : Level(r, d) =
                    IF d = p.node THEN Larger(Level(s, d), p.value) ELSE Level(s, d)
    BY <2>7, <2>8, MergeLevels
  <2>10. /\ F(r) \in Clocks
         /\ \A d : Knows(F(r), d) <=> Knows(F(s), d) \/ d = p.node
         /\ \A d : Level(F(r), d) =
                     IF d = p.node THEN Larger(Level(F(s), d), p.value) ELSE Level(F(s), d)
    BY <2>5, <2>6, MergeLevels
  <2>11. ASSUME NEW d
         PROVE  Level(F(r), d) = Larger(Level(k, d), Level(r, d))
    <3>1. Level(k, d) \in Nat /\ Level(s, d) \in Nat /\ p.value \in Nat
      BY <2>1, LevelType DEF Clocks, Pair
    <3>2. Level(F(s), d) = Larger(Level(k, d), Level(s, d))
      BY <2>5
    <3> QED
      BY <2>9, <2>10, <3>1, <3>2 DEF Larger
  <2> QED
    BY <2>5, <2>9, <2>10, <2>11
<1>3. Seq(Pair) \subseteq S
  <2> HIDE DEF S
  <2> QED
    BY <1>1, <1>2, Merging!SequenceInduction
<1>4. o \in S /\ Distinct(o)
  BY <1>3 DEF Clocks, VectorClock
<1> QED
  BY <1>4, UpdateIsFold

-----------------------------------------------------------------------------
(* Causal delivery as folds                                                *)

Adding(r, p) == IF p.topic = AnyTopic THEN Append(r, p) ELSE r
PassAgain(st, m) == Pass(st)

Filtering == INSTANCE Folding WITH Op <- Adding
Examining == INSTANCE Folding WITH Op <- Examine
Passing == INSTANCE Folding WITH Op <- PassAgain

-----------------------------------------------------------------------------
(* What OnTopic keeps of a list, and in which order.                       *)

LEMMA OnTopicIsFold ==
    ASSUME NEW list
    PROVE  OnTopic(list) = Filtering!Fold(<<>>, list)
BY DEF OnTopic, Adding, Filtering!Fold, FoldLeft, MapThenFoldSet, Filtering!FoldLeft,
       Filtering!MapThenFoldSet, Max, Filtering!Max

LEMMA OnTopicAppend ==
    ASSUME NEW list \in Seq(Publication), NEW p \in Publication
    PROVE  OnTopic(Append(list, p)) =
             IF p.topic = AnyTopic THEN Append(OnTopic(list), p) ELSE OnTopic(list)
<1>1. Filtering!Fold(<<>>, Append(list, p)) = Adding(Filtering!Fold(<<>>, list), p)
  BY Filtering!FoldAppend
<1> QED
  BY <1>1, OnTopicIsFold DEF Adding

LEMMA OnTopicType ==
    ASSUME NEW list \in Seq(Publication)
    PROVE  OnTopic(list) \in Seq(Publication)
<1>1. <<>> \in Seq(Publication)
  OBVIOUS
<1>2. \A r \in Seq(Publication), p \in Publication : Adding(r, p) \in Seq(Publication)
  BY AppendProperties DEF Adding
<1>3. Filtering!Fold(<<>>, list) \in Seq(Publication)
  BY <1>1, <1>2, Filtering!FoldKeeps
<1> QED
  BY <1>3, OnTopicIsFold

LEMMA OnTopicOrder ==
    ASSUME NEW list \in Seq(Publication)
    PROVE  /\ \A k \in DOMAIN OnTopic(list) :
                 \E j \in DOMAIN list : OnTopic(list)[k] = list[j] /\ list[j].topic = AnyTopic
           /\ \A j \in DOMAIN list : list[j].topic = AnyTopic =>
                 \E k \in DOMAIN OnTopic(list) :
                    /\ OnTopic(list)[k] = list[j]
                    /\ \A i \in 1 .. k - 1 : \E h \in 1 .. j - 1 : OnTopic(list)[i] = list[h]
<1> DEFINE Kept(s) ==
             \A k \in DOMAIN OnTopic(s) :
               \E j \in DOMAIN s : OnTopic(s)[k] = s[j] /\ s[j].topic = AnyTopic
           Ordered(s) ==
             \A j \in DOMAIN s : s[j].topic = AnyTopic =>
               \E k \in DOMAIN OnTopic(s) :
                  /\ OnTopic(s)[k] = s[j]
                  /\ \A i \in 1 .. k - 1 : \E h \in 1 .. j - 1 : OnTopic(s)[i] = s[h]
           S == {s \in Seq(Publication) : Kept(s) /\ Ordered(s)}
<1>1. <<>> \in S
  <2>1. OnTopic(<<>>) = <<>>
    BY OnTopicIsFold, Filtering!FoldEmpty
  <2> QED
    BY <2>1
<1>2. ASSUME NEW s \in Seq(Publication), NEW p \in Publication, s \in S
      PROVE  Append(s, p) \in S
  <2> DEFINE r == Append(s, p)
             n == Len(s)
             f == OnTopic(s)
             g == OnTopic(r)
  <2>1. /\ r \in Seq(Publication) /\ n \in Nat
        /\ DOMAIN r = 1 .. n + 1 /\ DOMAIN s = 1 .. n
        /\ r[n + 1] = p /\ \A i \in 1 .. n : r[i] = s[i]
    OBVIOUS
  <2>2. g = IF p.topic = AnyTopic THEN Append(f, p) ELSE f
    BY OnTopicAppend
  <2>3. f \in Seq(Publication)
    BY OnTopicType
  <2>4. Kept(s) /\ Ordered(s)
    BY <1>2
  <2>5. /\ \A k \in DOMAIN f : \E j \in 1 .. n : f[k] = s[j] /\ s[j].topic = AnyTopic
        /\ \A j \in 1 .. n : s[j].topic = AnyTopic =>
             \E k \in DOMAIN f :
                  /\ f[k] = s[j]
                  /\ \A i \in 1 .. k - 1 : \E h \in 1 .. j - 1 : f[i] = s[h]
    BY <2>1, <2>4
  <2> HIDE DEF Kept, Ordered, S, r, f, g, n
  <2>6. Len(f) \in Nat /\ DOMAIN f = 1 .. Len(f)
    BY <2>3
  <2>7. \A k \in DOMAIN f : k \in DOMAIN g /\ g[k] = f[k]
    BY <2>2, <2>3, AppendProperties
  <2>8. p.topic = AnyTopic => /\ DOMAIN g = 1 .. Len(f) + 1
                              /\ g[Len(f) + 1] = p
    BY <2>2, <2>3, <2>6
  <2>9. ASSUME NEW k \in DOMAIN g
        PROVE  \E j \in DOMAIN r : g[k] = r[j] /\ r[j].topic = AnyTopic
    <3>1. CASE k \in DOMAIN f
      BY <2>1, <2>5, <2>7, <3>1
    <3>2. CASE k \notin DOMAIN f
      <4>1. p.topic = AnyTopic /\ k = Len(f) + 1
        BY <2>2, <2>6, <2>8, <3>2
      <4>2. n + 1 \in DOMAIN r
        BY <2>1
      <4> QED
        BY <2>1, <2>8, <4>1, <4>2
    <3> QED
      BY <3>1, <3>2
  <2>10. ASSUME NEW j \in DOMAIN r, r[j].topic = AnyTopic
         PROVE  \E k \in DOMAIN g :
                   /\ g[k] = r[j]
                   /\ \A i \in 1 .. k - 1 : \E h \in 1 .. j - 1 : g[i] = r[h]
    <3>1. CASE j \in 1 .. n
      <4>1. r[j] = s[j]
        BY <2>1, <3>1
      <4>2. PICK k \in DOMAIN f :
               /\ f[k] = s[j]
               /\ \A i \in 1 .. k - 1 : \E h \in 1 .. j - 1 : f[i] = s[h]
        BY <2>5, <2>10, <3>1, <4>1
      <4>3. ASSUME NEW i \in 1 .. k - 1
            PROVE  \E h \in 1 .. j - 1 : g[i] = r[h]
        <5>1. PICK h \in 1 .. j - 1 : f[i] = s[h]
          BY <4>2
        <5>2. h \in 1 .. n /\ i \in DOMAIN f
          BY <2>1, <2>6, <3>1
        <5> QED
          BY <2>1, <2>7, <5>1, <5>2
      <4> QED
        BY <2>7, <4>1, <4>2, <4>3
    <3>2. CASE j = n + 1
      <4>1. p.topic = AnyTopic
        BY <2>1, <2>10, <3>2
      <4>2. Len(f) + 1 \in DOMAIN g /\ g[Len(f) + 1] = r[j]
        BY <2>1, <2>6, <2>8, <3>2, <4>1
      <4>3. ASSUME NEW i \in 1 .. (Len(f) + 1) - 1
            PROVE  \E h \in 1 .. j - 1 : g[i] = r[h]
        <5>1. i \in DOMAIN f
          BY <2>6
        <5>2. PICK h \in 1 .. n : f[i] = s[h]
          BY <2>5, <5>1
        <5>3. h \in 1 .. j - 1
          BY <2>1, <3>2
        <5> QED
          BY <2>1, <2>7, <5>1, <5>2, <5>3
      <4> QED
        BY <4>2, <4>3
    <3> QED
      BY <2>1, <3>1, <3>2
  <2>11. Kept(r) /\ Ordered(r)
    BY <2>9, <2>10 DEF Kept, Ordered, g
  <2> QED
    BY <2>1, <2>11 DEF S, r
<1>3. Seq(Publication) \subseteq S
  <2> HIDE DEF S
  <2> QED
    BY <1>1, <1>2, Filtering!SequenceInduction
<1> QED
  BY <1>3

-----------------------------------------------------------------------------
(* The invariant.  A client's clock knows all clients, and what it says of *)
(* them is exactly what the client has seen; a message that waits or is    *)
(* under way has been made by its sender, and its time stamp bounds what   *)
(* the sender had seen before.                                             *)

Full(k) ==
    k \in Clocks /\ \A d \in Clients : Knows(k, d) /\ Value(k, d) \in Nat /\ Value(k, d) >= 1

Attached(st) ==
    /\ st \in ClientState
    /\ st.out \in Brokers /\ st.subscriptions = Topics
    /\ \A t \in Topics : Full(st.vectors[t])

Accurate(st) ==
    \A p \in Publication :
      p \in ToSet(st.seen) <=>
        2 <= p.number /\ p.number <= Value(st.vectors[p.topic], p.originalSender)

Sent(m, list) ==
    \E j \in DOMAIN list :
      /\ list[j] = identity(m)
      /\ \A i \in 1 .. j - 1 : list[i].topic = m.topic =>
            /\ list[i] # identity(m)
            /\ list[i].number <= Value(m.timeStamp, list[i].originalSender)

Genuine(m, c) ==
    /\ m \in PublishMessage /\ m.originalSender # c /\ Full(m.timeStamp)
    /\ Sent(m, client[m.originalSender].seen)

Sound(st, c) ==
    /\ Attached(st) /\ Accurate(st)
    /\ \A i \in DOMAIN st.postponedMessages : Genuine(st.postponedMessages[i], c)
    /\ \A t \in Topics, d \in Clients :
          Value(st.vectors[t], d) <= Value(client[d].vectors[t], d)

DInv ==
    /\ client \in [Clients -> ClientState]
    /\ underWay \in [Clients -> SUBSET PublishMessage]
    /\ \A c \in Clients :
          /\ Sound(client[c], c)
          /\ \A m \in underWay[c] : Genuine(m, c)

(* What client c has got from the state it is in to state st, if it has    *)
(* done nothing but export messages.                                       *)
Handed(list, c) ==
    LET f == OnTopic(client[c].seen)
    IN  /\ list \in Seq(Publication) /\ Len(list) >= Len(f)
        /\ SubSeq(list, 1, Len(f)) = f
        /\ \A k \in Len(f) + 1 .. Len(list) :
              Broadcast!MayFollow(list[k], SubSeq(list, 1, k - 1), c)

Extends(list, old) == Len(old) <= Len(list) /\ \A i \in 1 .. Len(old) : list[i] = old[i]

Since(st, c) ==
    /\ \A t \in Topics : Value(st.vectors[t], c) = Value(client[c].vectors[t], c)
    /\ Extends(st.seen, client[c].seen)
    /\ Handed(OnTopic(st.seen), c)

-----------------------------------------------------------------------------
(* A message is accepted exactly when it is the sender's next one and      *)
(* nothing it depends on is missing.                                       *)

LEMMA FullLevels ==
    ASSUME NEW k, Full(k), NEW d \in Clients
    PROVE  /\ Knows(k, d) /\ Level(k, d) = Value(k, d) /\ Value(k, d) \in Nat
           /\ \E i \in DOMAIN k : k[i].node = d /\ Value(k, d) = k[i].value
BY KnownValue DEF Full, Level, Clocks

LEMMA Acceptance ==
    ASSUME NEW k, Full(k), NEW m \in PublishMessage, Full(m.timeStamp), Accepts(k, m)
    PROVE  /\ Merges(k, m)
           /\ Value(m.timeStamp, m.originalSender) = Value(k, m.originalSender) + 1
           /\ \A d \in Clients \ {m.originalSender} : Value(m.timeStamp, d) <= Value(k, d)
<1> DEFINE ts == m.timeStamp
           s == m.originalSender
<1>1. s \in Clients /\ ts \in VectorClock
  BY DEF PublishMessage
<1>2. DOMAIN ts \subseteq Nat /\ \A i \in DOMAIN ts : ts[i].node \in Clients
  BY <1>1, ClockType
<1>3. Knows(k, s) /\ \A i \in DOMAIN ts : Knows(k, ts[i].node)
  BY <1>1, <1>2, FullLevels
<1>4. Stops(k, m) \in SUBSET (DOMAIN ts)
  BY DEF Stops
<1>5. Merges(k, m)
  <2> SUFFICES ASSUME ~Merges(k, m)
               PROVE  FALSE
    OBVIOUS
  <2>1. Value(ts, s) = Value(k, s) + 1 /\ ~Knows(k, ts[Min(Stops(k, m))].node)
    BY DEF Accepts
  <2>2. Stops(k, m) # {}
    BY <1>3, <2>1 DEF Merges
  <2>3. \E x \in Stops(k, m) : \A y \in Stops(k, m) : x <= y
    BY <1>2, <1>4, <2>2, Merging!LeastNumber
  <2>4. Min(Stops(k, m)) \in Stops(k, m)
    BY <2>3 DEF Min
  <2> QED
    BY <1>3, <1>4, <2>1, <2>4
<1>6. Value(ts, s) = Value(k, s) + 1 /\ Stops(k, m) = {}
  BY <1>3, <1>5 DEF Merges
<1>7. ASSUME NEW d \in Clients \ {s}
      PROVE  Value(ts, d) <= Value(k, d)
  <2>1. PICK i \in DOMAIN ts : ts[i].node = d /\ Value(ts, d) = ts[i].value
    BY FullLevels
  <2>2. ~(Value(k, d) < Value(ts, d))
    BY <1>6, <2>1 DEF Stops
  <2>3. Value(k, d) \in Nat /\ Value(ts, d) \in Nat
    BY FullLevels
  <2> QED
    BY <2>2, <2>3
<1> QED
  BY <1>5, <1>6, <1>7

(* Merging the time stamp then counts one more of the sender's messages.   *)
LEMMA Counted ==
    ASSUME NEW k, Full(k), NEW m \in PublishMessage, Full(m.timeStamp), Accepts(k, m)
    PROVE  /\ Full(update(k, m.timeStamp))
           /\ \A d \in Clients : Value(update(k, m.timeStamp), d) =
                 IF d = m.originalSender THEN Value(k, d) + 1 ELSE Value(k, d)
<1> DEFINE ts == m.timeStamp
           u == update(k, ts)
<1>1. m.originalSender \in Clients
  BY DEF PublishMessage
<1>2. /\ u \in Clocks
      /\ \A d : Knows(u, d) <=> Knows(k, d) \/ Knows(ts, d)
      /\ \A d : Level(u, d) = Larger(Level(k, d), Level(ts, d))
  BY UpdateLevels DEF Full
<1> HIDE DEF u
<1>3. ASSUME NEW d \in Clients
      PROVE  /\ Knows(u, d)
             /\ Value(u, d) = IF d = m.originalSender THEN Value(k, d) + 1 ELSE Value(k, d)
             /\ Value(u, d) \in Nat /\ Value(u, d) >= 1
  <2>1. /\ Knows(k, d) /\ Level(k, d) = Value(k, d) /\ Value(k, d) \in Nat
        /\ Level(ts, d) = Value(ts, d) /\ Value(ts, d) \in Nat
    BY FullLevels
  <2>2. Knows(u, d) /\ Value(u, d) = Larger(Value(k, d), Value(ts, d))
    BY <1>2, <2>1 DEF Level
  <2>3. Value(k, d) >= 1
    BY DEF Full
  <2>4. /\ Value(ts, m.originalSender) = Value(k, m.originalSender) + 1
        /\ \A x \in Clients \ {m.originalSender} : Value(ts, x) <= Value(k, x)
    BY Acceptance
  <2>5. CASE d = m.originalSender
    BY <2>1, <2>2, <2>3, <2>4, <2>5 DEF Larger
  <2>6. CASE d # m.originalSender
    <3>1. Value(ts, d) <= Value(k, d)
      BY <2>4, <2>6
    <3> QED
      BY <2>1, <2>2, <2>3, <2>6, <3>1 DEF Larger
  <2> QED
    BY <2>5, <2>6
<1> QED
  BY <1>2, <1>3 DEF Full, u

-----------------------------------------------------------------------------
(* Exporting one message.                                                  *)

LEMMA IdentityIs ==
    ASSUME NEW m \in PublishMessage, Full(m.timeStamp)
    PROVE  /\ identity(m) \in Publication
           /\ identity(m).topic = m.topic /\ m.topic \in Topics
           /\ identity(m).originalSender = m.originalSender /\ m.originalSender \in Clients
           /\ identity(m).number = Value(m.timeStamp, m.originalSender)
           /\ identity(m).number \in Nat
<1>1. m.originalSender \in Clients /\ m.topic \in Topics
  BY DEF PublishMessage
<1>2. Value(m.timeStamp, m.originalSender) \in Nat
  BY <1>1, FullLevels
<1> QED
  BY <1>1, <1>2 DEF identity, Publication

(* A publication is known by its three parts.                              *)
LEMMA PublicationIs ==
    ASSUME NEW p \in Publication
    PROVE  /\ p.topic \in Topics /\ p.originalSender \in Clients /\ p.number \in Nat
           /\ \A q \in Publication :
                 /\ q.topic = p.topic /\ q.originalSender = p.originalSender
                 /\ q.number = p.number
                 => q = p
BY DEF Publication

LEMMA StateIs ==
    ASSUME NEW st \in ClientState
    PROVE  /\ st.out \in Brokers \cup {NULL} /\ st.subscriptions \in SUBSET Topics
           /\ st.vectors \in [Topics -> VectorClock]
           /\ st.postponedMessages \in Seq(PublishMessage) /\ st.seen \in Seq(Publication)
BY DEF ClientState

LEMMA AppendIs ==
    ASSUME NEW X, NEW s \in Seq(X), NEW x \in X
    PROVE  /\ Append(s, x) \in Seq(X) /\ Len(Append(s, x)) = Len(s) + 1 /\ Len(s) \in Nat
           /\ DOMAIN Append(s, x) = 1 .. Len(s) + 1 /\ DOMAIN s = 1 .. Len(s)
           /\ \A i \in 1 .. Len(s) : Append(s, x)[i] = s[i]
           /\ Append(s, x)[Len(s) + 1] = x
           /\ ToSet(Append(s, x)) = ToSet(s) \cup {x}
<1>1. /\ Append(s, x) \in Seq(X) /\ Len(Append(s, x)) = Len(s) + 1 /\ Len(s) \in Nat
      /\ DOMAIN Append(s, x) = 1 .. Len(s) + 1 /\ DOMAIN s = 1 .. Len(s)
      /\ \A i \in 1 .. Len(s) : Append(s, x)[i] = s[i]
      /\ Append(s, x)[Len(s) + 1] = x
  BY AppendProperties
<1> DEFINE r == Append(s, x)
<1> HIDE DEF r
<1>2. ToSet(r) = ToSet(s) \cup {x}
  <2>1. \A y \in ToSet(r) : y \in ToSet(s) \cup {x}
    <3> SUFFICES ASSUME NEW i \in DOMAIN r
                 PROVE  r[i] \in ToSet(s) \cup {x}
      BY DEF ToSet
    <3>1. i \in 1 .. Len(s) \/ i = Len(s) + 1
      BY <1>1 DEF r
    <3> QED
      BY <1>1, <3>1 DEF ToSet, r
  <2>2. \A y \in ToSet(s) \cup {x} : y \in ToSet(r)
    <3>1. Len(s) + 1 \in DOMAIN r /\ r[Len(s) + 1] = x
      BY <1>1 DEF r
    <3>2. \A i \in DOMAIN s : i \in DOMAIN r /\ r[i] = s[i]
      BY <1>1 DEF r
    <3> QED
      BY <3>1, <3>2 DEF ToSet
  <2> QED
    BY <2>1, <2>2
<1> QED
  BY <1>1, <1>2 DEF r

LEMMA ExportIs ==
    ASSUME NEW st, Attached(st), NEW m \in PublishMessage, Full(m.timeStamp),
           Accepts(st.vectors[m.topic], m)
    PROVE  /\ Attached(Export(st, m))
           /\ Export(st, m).seen = Append(st.seen, identity(m))
           /\ Export(st, m).postponedMessages = st.postponedMessages
           /\ \A t \in Topics, d \in Clients :
                 Value(Export(st, m).vectors[t], d) =
                   IF t = m.topic /\ d = m.originalSender THEN Value(st.vectors[t], d) + 1
                   ELSE Value(st.vectors[t], d)
<1> DEFINE T == m.topic
           u == update(st.vectors[T], m.timeStamp)
           r == Export(st, m)
<1>1. st \in ClientState /\ T \in Topics /\ identity(m) \in Publication
  BY IdentityIs DEF Attached
<1>2. Full(st.vectors[T])
  BY <1>1 DEF Attached
<1>3. Merges(st.vectors[T], m)
  BY <1>2, Acceptance
<1>4. /\ Full(u)
      /\ \A d \in Clients : Value(u, d) =
           IF d = m.originalSender THEN Value(st.vectors[T], d) + 1 ELSE Value(st.vectors[T], d)
  BY <1>2, Counted
<1> HIDE DEF u
<1>5. /\ r.out = st.out /\ r.subscriptions = st.subscriptions
      /\ r.vectors = [st.vectors EXCEPT ![T] = u]
      /\ r.postponedMessages = st.postponedMessages
      /\ r.seen = Append(st.seen, identity(m))
      /\ r \in ClientState
  <2>1. r = [st EXCEPT !.seen = Append(st.seen, identity(m)),
                       !.vectors = [st.vectors EXCEPT ![T] = u]]
    BY <1>1, <1>3 DEF Export, u, ClientState
  <2>2. u \in VectorClock
    BY <1>4 DEF Full, Clocks
  <2>3. Append(st.seen, identity(m)) \in Seq(Publication)
    BY <1>1 DEF ClientState
  <2>4. [st.vectors EXCEPT ![T] = u] \in [Topics -> VectorClock]
    BY <1>1, <2>2 DEF ClientState
  <2> HIDE DEF r
  <2> QED
    BY <1>1, <2>1, <2>3, <2>4 DEF ClientState
<1> HIDE DEF r
<1>6. \A t \in Topics : r.vectors[t] = IF t = T THEN u ELSE st.vectors[t]
  BY <1>1, <1>5 DEF ClientState
<1>7. Attached(r)
  BY <1>4, <1>5, <1>6 DEF Attached
<1> QED
  BY <1>4, <1>5, <1>6, <1>7 DEF r

(* Counting the next publication and seeing it go together.                *)
LEMMA StaysAccurate ==
    ASSUME NEW st, Attached(st), Accurate(st), NEW r, NEW p \in Publication,
           r.seen = Append(st.seen, p),
           p.number = Value(st.vectors[p.topic], p.originalSender) + 1,
           \A t \in Topics, d \in Clients :
             Value(r.vectors[t], d) =
               IF t = p.topic /\ d = p.originalSender THEN Value(st.vectors[t], d) + 1
               ELSE Value(st.vectors[t], d)
    PROVE  Accurate(r)
<1>1. ToSet(r.seen) = ToSet(st.seen) \cup {p}
  BY AppendIs DEF Attached, ClientState
<1>2. ASSUME NEW q \in Publication
      PROVE  q \in ToSet(r.seen) <=>
               2 <= q.number /\ q.number <= Value(r.vectors[q.topic], q.originalSender)
  <2> DEFINE v == Value(st.vectors[q.topic], q.originalSender)
             w == Value(r.vectors[q.topic], q.originalSender)
  <2>1. q.topic \in Topics /\ q.originalSender \in Clients /\ q.number \in Nat /\ p.number \in Nat
    BY PublicationIs
  <2>2. v \in Nat /\ v >= 1
    BY <2>1 DEF Attached, Full
  <2>3. q \in ToSet(st.seen) <=> 2 <= q.number /\ q.number <= v
    BY DEF Accurate
  <2>4. w = IF q.topic = p.topic /\ q.originalSender = p.originalSender THEN v + 1 ELSE v
    BY <2>1
  <2> HIDE DEF v, w
  <2>5. CASE q.topic = p.topic /\ q.originalSender = p.originalSender
    <3>1. p.number = v + 1
      BY <2>5 DEF v
    <3>2. q = p <=> q.number = v + 1
      BY <2>5, <3>1, PublicationIs
    <3> QED
      BY <1>1, <2>1, <2>2, <2>3, <2>4, <2>5, <3>2 DEF w
  <2>6. CASE ~(q.topic = p.topic /\ q.originalSender = p.originalSender)
    BY <1>1, <2>3, <2>4, <2>6 DEF w
  <2> QED
    BY <2>5, <2>6
<1> QED
  BY <1>2 DEF Accurate

LEMMA ExportSound ==
    ASSUME DInv, NEW c \in Clients, NEW st, Sound(st, c), NEW m, Genuine(m, c),
           Accepts(st.vectors[m.topic], m)
    PROVE  /\ Sound(Export(st, m), c)
           /\ \A t \in Topics :
                 Value(Export(st, m).vectors[t], c) = Value(st.vectors[t], c)
<1> DEFINE T == m.topic
           s == m.originalSender
           p == identity(m)
           r == Export(st, m)
<1>1. m \in PublishMessage /\ s # c /\ Full(m.timeStamp) /\ Sent(m, client[s].seen)
  BY DEF Genuine
<1>2. /\ p \in Publication /\ p.topic = T /\ T \in Topics /\ p.originalSender = s /\ s \in Clients
      /\ p.number = Value(m.timeStamp, s) /\ p.number \in Nat
  BY <1>1, IdentityIs
<1>3. Attached(st) /\ Accurate(st) /\ Full(st.vectors[T])
  BY <1>2 DEF Sound, Attached
<1>4. p.number = Value(st.vectors[T], s) + 1
  BY <1>1, <1>2, <1>3, Acceptance
<1>5. /\ Attached(r)
      /\ r.seen = Append(st.seen, p)
      /\ r.postponedMessages = st.postponedMessages
      /\ \A t \in Topics, d \in Clients : Value(r.vectors[t], d) =
            IF t = T /\ d = s THEN Value(st.vectors[t], d) + 1 ELSE Value(st.vectors[t], d)
  BY <1>1, <1>3, ExportIs
<1> HIDE DEF p, r
<1>6. Accurate(r)
  BY <1>2, <1>3, <1>4, <1>5, StaysAccurate
<1>7. p.number <= Value(client[s].vectors[T], s)
  <2>1. p \in ToSet(client[s].seen)
    BY <1>1 DEF Sent, p, ToSet
  <2>2. Accurate(client[s])
    BY <1>2 DEF DInv, Sound
  <2> QED
    BY <1>2, <2>1, <2>2 DEF Accurate
<1>8. \A t \in Topics, d \in Clients : Value(r.vectors[t], d) <= Value(client[d].vectors[t], d)
  <2>1. \A t \in Topics, d \in Clients : Value(st.vectors[t], d) <= Value(client[d].vectors[t], d)
    BY DEF Sound
  <2> QED
    BY <1>4, <1>5, <1>7, <2>1
<1>9. \A t \in Topics : Value(r.vectors[t], c) = Value(st.vectors[t], c)
  BY <1>1, <1>5
<1>10. Sound(r, c)
  BY <1>5, <1>6, <1>8 DEF Sound
<1> QED
  BY <1>9, <1>10 DEF r

(* What is exported may follow what the client has seen.                   *)
LEMMA ExportFollows ==
    ASSUME DInv, NEW c \in Clients, NEW st, Sound(st, c), NEW m, Genuine(m, c),
           Accepts(st.vectors[m.topic], m), m.topic = AnyTopic
    PROVE  Broadcast!MayFollow(identity(m), OnTopic(st.seen), c)
<1> DEFINE T == m.topic
           s == m.originalSender
           p == identity(m)
           f == OnTopic(client[s].seen)
           g == OnTopic(st.seen)
<1>1. m \in PublishMessage /\ s # c /\ Full(m.timeStamp) /\ Sent(m, client[s].seen)
  BY DEF Genuine
<1>2. /\ p \in Publication /\ p.topic = T /\ T \in Topics /\ p.originalSender = s /\ s \in Clients
      /\ p.number = Value(m.timeStamp, s) /\ p.number \in Nat
  BY <1>1, IdentityIs
<1>3. Attached(st) /\ Accurate(st) /\ Full(st.vectors[T]) /\ st.seen \in Seq(Publication)
  BY <1>2, StateIs DEF Sound, Attached
<1>4. /\ Value(m.timeStamp, s) = Value(st.vectors[T], s) + 1
      /\ \A d \in Clients \ {s} : Value(m.timeStamp, d) <= Value(st.vectors[T], d)
  BY <1>1, <1>3, Acceptance
<1>5. Value(st.vectors[T], s) \in Nat
  BY <1>2, <1>3, FullLevels
<1> HIDE DEF p, f, g
<1>6. ASSUME NEW h \in DOMAIN g
      PROVE  g[h] # p
  <2>1. PICK j \in DOMAIN st.seen : g[h] = st.seen[j]
    BY <1>3, OnTopicOrder DEF g
  <2>2. g[h] \in ToSet(st.seen)
    BY <2>1 DEF ToSet
  <2>3. p \notin ToSet(st.seen)
    BY <1>2, <1>3, <1>4, <1>5 DEF Accurate
  <2> QED
    BY <2>2, <2>3
<1>7. /\ Attached(client[s]) /\ Accurate(client[s]) /\ client[s].seen \in Seq(Publication)
  BY <1>2, StateIs DEF DInv, Sound, Attached
<1>8. PICK j \in DOMAIN client[s].seen :
        /\ client[s].seen[j] = p
        /\ \A i \in 1 .. j - 1 : client[s].seen[i].topic = T =>
              /\ client[s].seen[i] # p
              /\ client[s].seen[i].number <= Value(m.timeStamp, client[s].seen[i].originalSender)
  BY <1>1 DEF Sent, p
<1>9. PICK k \in DOMAIN f :
        /\ f[k] = p
        /\ \A i \in 1 .. k - 1 : \E h \in 1 .. j - 1 : f[i] = client[s].seen[h]
  BY <1>2, <1>7, <1>8, OnTopicOrder DEF f
<1>10. ASSUME NEW i \in 1 .. k - 1
       PROVE  \E h \in DOMAIN g : g[h] = f[i]
  <2> DEFINE q == f[i]
  <2>1. PICK h \in 1 .. j - 1 : q = client[s].seen[h]
    BY <1>9
  <2>2. i \in DOMAIN f
    <3>1. f \in Seq(Publication)
      BY <1>7, OnTopicType DEF f
    <3> QED
      BY <1>9, <3>1
  <2>3. q.topic = T
    BY <1>7, <2>2, OnTopicOrder DEF f
  <2>4. q # p /\ q.number <= Value(m.timeStamp, q.originalSender)
    BY <1>8, <2>1, <2>3
  <2>5. h \in DOMAIN client[s].seen
    BY <1>7, <1>8
  <2>6. q \in Publication /\ q \in ToSet(client[s].seen)
    BY <1>7, <2>1, <2>5 DEF ToSet
  <2>7. q.originalSender \in Clients /\ q.number \in Nat
    BY <2>6, PublicationIs
  <2>8. 2 <= q.number
    BY <1>7, <2>6 DEF Accurate
  <2>9. q.number <= Value(st.vectors[T], q.originalSender)
    <3>1. CASE q.originalSender # s
      <4>1. /\ Value(m.timeStamp, q.originalSender) \in Nat
            /\ Value(st.vectors[T], q.originalSender) \in Nat
        BY <1>1, <1>3, <2>7, FullLevels
      <4>2. Value(m.timeStamp, q.originalSender) <= Value(st.vectors[T], q.originalSender)
        BY <1>4, <2>7, <3>1
      <4> HIDE DEF q
      <4> QED
        BY <2>4, <2>7, <4>1, <4>2
    <3>2. CASE q.originalSender = s
      <4>1. q.number # p.number
        BY <1>2, <2>3, <2>4, <2>6, <3>2, PublicationIs
      <4> HIDE DEF q
      <4> QED
        BY <1>2, <1>4, <1>5, <2>4, <2>7, <3>2, <4>1
    <3> QED
      BY <3>1, <3>2
  <2>10. q \in ToSet(st.seen)
    BY <1>3, <2>3, <2>6, <2>8, <2>9 DEF Accurate
  <2>11. PICK l \in DOMAIN st.seen : st.seen[l] = q
    BY <2>10 DEF ToSet
  <2>12. st.seen[l].topic = AnyTopic
    BY <2>3, <2>11
  <2>13. \E x \in DOMAIN g : g[x] = st.seen[l]
    BY <1>3, <2>12, OnTopicOrder DEF g
  <2> QED
    BY <2>11, <2>13
<1>11. Broadcast!MayFollow(p, g, c)
  <2>1. [x \in Clients |-> OnTopic(client[x].seen)][s] = f
    BY <1>2 DEF f
  <2> QED
    BY <1>1, <1>2, <1>6, <1>9, <1>10, <2>1 DEF Broadcast!MayFollow, SeenOnTopic
<1> QED
  BY <1>11 DEF p, g

-----------------------------------------------------------------------------
(* Exporting what waits.                                                   *)

LEMMA HandedType ==
    ASSUME NEW list \in Seq(Publication)
    PROVE  /\ Len(list) \in Nat /\ SubSeq(list, 1, Len(list)) = list
           /\ DOMAIN list = 1 .. Len(list)
BY SubSeqFull

LEMMA HandedNext ==
    ASSUME NEW c, NEW list, Handed(list, c), NEW p \in Publication,
           Broadcast!MayFollow(p, list, c),
           OnTopic(client[c].seen) \in Seq(Publication)
    PROVE  Handed(Append(list, p), c)
<1> DEFINE f == OnTopic(client[c].seen)
           r == Append(list, p)
           n == Len(list)
<1>1. /\ list \in Seq(Publication) /\ n >= Len(f) /\ SubSeq(list, 1, Len(f)) = f
      /\ \A k \in Len(f) + 1 .. n : Broadcast!MayFollow(list[k], SubSeq(list, 1, k - 1), c)
  BY DEF Handed
<1>2. /\ r \in Seq(Publication) /\ Len(r) = n + 1 /\ n \in Nat
      /\ \A i \in 1 .. n : r[i] = list[i]
      /\ r[n + 1] = p
  BY <1>1, AppendIs
<1>3. Len(f) \in Nat
  OBVIOUS
<1> HIDE DEF f, r
<1>4. ASSUME NEW k \in 0 .. n
      PROVE  SubSeq(r, 1, k) = SubSeq(list, 1, k)
  <2>1. \A i \in 1 .. k : list[i] \in Publication /\ r[i] = list[i]
    BY <1>1, <1>2
  <2> QED
    BY <1>2, <2>1
<1>5. ASSUME NEW k \in Len(f) + 1 .. n + 1
      PROVE  Broadcast!MayFollow(r[k], SubSeq(r, 1, k - 1), c)
  <2>1. k - 1 \in 0 .. n
    BY <1>2, <1>3
  <2>2. SubSeq(r, 1, k - 1) = SubSeq(list, 1, k - 1)
    BY <1>4, <2>1
  <2>3. CASE k = n + 1
    <3>1. SubSeq(r, 1, k - 1) = list
      BY <1>1, <1>2, <2>2, <2>3, HandedType
    <3> QED
      BY <1>2, <2>3, <3>1
  <2>4. CASE k # n + 1
    <3>1. k \in Len(f) + 1 .. n /\ k \in 1 .. n
      BY <1>2, <1>3, <2>4
    <3> QED
      BY <1>1, <1>2, <2>2, <3>1
  <2> QED
    BY <2>3, <2>4
<1>6. SubSeq(r, 1, Len(f)) = f
  <2>1. Len(f) \in 0 .. n
    BY <1>1, <1>2, <1>3
  <2> QED
    BY <1>1, <1>4, <2>1
<1>7. r \in Seq(Publication) /\ Len(r) >= Len(f)
  BY <1>1, <1>2, <1>3
<1>8. \A k \in Len(f) + 1 .. Len(r) : Broadcast!MayFollow(r[k], SubSeq(r, 1, k - 1), c)
  BY <1>2, <1>5
<1> QED
  BY <1>6, <1>7, <1>8 DEF Handed, f, r

LEMMA ExtendsNext ==
    ASSUME NEW X, NEW list \in Seq(X), NEW old, Len(old) \in Nat, Extends(list, old), NEW x \in X
    PROVE  Extends(Append(list, x), old)
<1>1. /\ Len(Append(list, x)) = Len(list) + 1 /\ Len(list) \in Nat
      /\ \A i \in 1 .. Len(list) : Append(list, x)[i] = list[i]
  BY AppendIs
<1> QED
  BY <1>1 DEF Extends

(* Any state client c may be in after it has exported messages.            *)
Reached(c) == {st \in ClientState : Sound(st, c) /\ Since(st, c)}

LEMMA ExportReaches ==
    ASSUME DInv, NEW c \in Clients, NEW st \in Reached(c), NEW m, Genuine(m, c),
           Accepts(st.vectors[m.topic], m)
    PROVE  /\ Export(st, m) \in Reached(c)
           /\ Export(st, m).seen = Append(st.seen, identity(m))
           /\ identity(m) \in Publication
<1> DEFINE r == Export(st, m)
           p == identity(m)
           f == OnTopic(client[c].seen)
<1>1. Sound(st, c) /\ Since(st, c) /\ st.seen \in Seq(Publication)
  BY StateIs DEF Reached
<1>2. m \in PublishMessage /\ Full(m.timeStamp)
  BY DEF Genuine
<1>3. p \in Publication /\ p.topic = m.topic /\ p.topic \in Topics
  BY <1>2, IdentityIs
<1>4. r.seen = Append(st.seen, p)
  BY <1>1, <1>2, ExportIs DEF Sound
<1>5. Sound(r, c) /\ \A t \in Topics : Value(r.vectors[t], c) = Value(st.vectors[t], c)
  BY <1>1, ExportSound
<1>6. client[c].seen \in Seq(Publication) /\ f \in Seq(Publication)
  BY StateIs, OnTopicType DEF DInv
<1>7. p.topic = AnyTopic => Broadcast!MayFollow(p, OnTopic(st.seen), c)
  BY <1>1, <1>3, ExportFollows
<1>8. OnTopic(r.seen) = IF p.topic = AnyTopic THEN Append(OnTopic(st.seen), p)
                        ELSE OnTopic(st.seen)
  BY <1>1, <1>3, <1>4, OnTopicAppend
<1> HIDE DEF r, p, f
<1>9. Handed(OnTopic(r.seen), c)
  <2>1. Handed(OnTopic(st.seen), c)
    BY <1>1 DEF Since
  <2> QED
    BY <1>3, <1>6, <1>7, <1>8, <2>1, HandedNext DEF f
<1>10. Extends(r.seen, client[c].seen)
  BY <1>1, <1>3, <1>4, <1>6, ExtendsNext DEF Since
<1>11. Since(r, c)
  BY <1>1, <1>5, <1>9, <1>10 DEF Since
<1>12. r \in ClientState
  BY <1>5 DEF Sound, Attached
<1> QED
  BY <1>3, <1>4, <1>5, <1>11, <1>12 DEF Reached, r, p

(* A message that is not accepted waits.                                   *)
LEMMA WaitingReaches ==
    ASSUME NEW c \in Clients, NEW st \in Reached(c), NEW list \in Seq(PublishMessage),
           \A i \in DOMAIN list : Genuine(list[i], c)
    PROVE  [st EXCEPT !.postponedMessages = list] \in Reached(c)
<1> DEFINE r == [st EXCEPT !.postponedMessages = list]
<1>1. st \in ClientState /\ Sound(st, c) /\ Since(st, c)
  BY DEF Reached
<1>2. /\ r \in ClientState
      /\ r.out = st.out /\ r.subscriptions = st.subscriptions /\ r.vectors = st.vectors
      /\ r.seen = st.seen /\ r.postponedMessages = list
  BY <1>1 DEF ClientState
<1> HIDE DEF r
<1>3. Sound(r, c)
  BY <1>1, <1>2 DEF Sound, Attached, Accurate
<1>4. Since(r, c)
  BY <1>1, <1>2 DEF Since
<1> QED
  BY <1>2, <1>3, <1>4 DEF Reached, r

Real(c) == {m \in PublishMessage : Genuine(m, c)}

LEMMA WaitingIs ==
    ASSUME NEW c \in Clients, NEW st \in Reached(c)
    PROVE  st.postponedMessages \in Seq(Real(c)) /\ st.postponedMessages \in Seq(PublishMessage)
<1>1. /\ st.postponedMessages \in Seq(PublishMessage)
      /\ \A i \in DOMAIN st.postponedMessages : Genuine(st.postponedMessages[i], c)
  BY StateIs DEF Reached, Sound
<1> DEFINE s == st.postponedMessages
<1> HIDE DEF s
<1>2. \A i \in 1 .. Len(s) : s[i] \in Real(c)
  BY <1>1 DEF Real, s
<1>3. s \in Seq(Real(c))
  BY <1>1, <1>2 DEF s
<1> QED
  BY <1>1, <1>3 DEF s

LEMMA ExamineReaches ==
    ASSUME DInv, NEW c \in Clients, NEW st \in Reached(c), NEW m \in Real(c)
    PROVE  Examine(st, m) \in Reached(c)
<1>1. CASE Accepts(st.vectors[m.topic], m)
  BY <1>1, ExportReaches DEF Examine, Real
<1>2. CASE ~Accepts(st.vectors[m.topic], m)
  <2> DEFINE list == Append(st.postponedMessages, m)
  <2>1. list \in Seq(Real(c))
    BY WaitingIs
  <2>2. list \in Seq(PublishMessage)
    <3>1. m \in PublishMessage /\ st.postponedMessages \in Seq(PublishMessage)
      BY WaitingIs DEF Real
    <3> QED
      BY <3>1
  <2>3. \A i \in DOMAIN list : Genuine(list[i], c)
    <3> HIDE DEF list
    <3> QED
      BY <2>1 DEF Real
  <2>4. Examine(st, m) = [st EXCEPT !.postponedMessages = list]
    BY <1>2 DEF Examine
  <2> HIDE DEF list
  <2> QED
    BY <2>2, <2>3, <2>4, WaitingReaches
<1> QED
  BY <1>1, <1>2

LEMMA PassIsFold ==
    ASSUME NEW st
    PROVE  Pass(st) = Examining!Fold([st EXCEPT !.postponedMessages = <<>>], st.postponedMessages)
BY DEF Pass, Examining!Fold, FoldLeft, MapThenFoldSet, Examining!FoldLeft,
       Examining!MapThenFoldSet, Max, Examining!Max

LEMMA PassReaches ==
    ASSUME DInv, NEW c \in Clients, NEW st \in Reached(c)
    PROVE  Pass(st) \in Reached(c)
<1> DEFINE base == [st EXCEPT !.postponedMessages = <<>>]
<1>1. base \in Reached(c)
  <2>1. <<>> \in Seq(PublishMessage) /\ \A i \in DOMAIN <<>> : Genuine(<<>>[i], c)
    OBVIOUS
  <2> QED
    BY <2>1, WaitingReaches
<1> HIDE DEF base
<1>2. \A r \in Reached(c), m \in Real(c) : Examine(r, m) \in Reached(c)
  BY ExamineReaches
<1>3. Examining!Fold(base, st.postponedMessages) \in Reached(c)
  BY <1>1, <1>2, WaitingIs, Examining!FoldKeeps
<1> QED
  BY <1>3, PassIsFold DEF base

LEMMA CheckIsFold ==
    ASSUME NEW st
    PROVE  checkPostponed(st) = Passing!Fold(st, st.postponedMessages)
BY DEF checkPostponed, PassAgain, Passing!Fold, FoldLeft, MapThenFoldSet, Passing!FoldLeft,
       Passing!MapThenFoldSet, Max, Passing!Max

LEMMA CheckReaches ==
    ASSUME DInv, NEW c \in Clients, NEW st \in Reached(c)
    PROVE  checkPostponed(st) \in Reached(c)
<1>1. \A r \in Reached(c), m \in Real(c) : PassAgain(r, m) \in Reached(c)
  BY PassReaches DEF PassAgain
<1>2. Passing!Fold(st, st.postponedMessages) \in Reached(c)
  BY <1>1, WaitingIs, Passing!FoldKeeps
<1> QED
  BY <1>2, CheckIsFold

-----------------------------------------------------------------------------
(* One client's step leaves what holds of the others as it is.             *)

LEMMA OwnStep ==
    ASSUME DInv, NEW c \in Clients, NEW r, Attached(r), Accurate(r),
           \A i \in DOMAIN r.postponedMessages : Genuine(r.postponedMessages[i], c),
           \A t \in Topics, d \in Clients \ {c} :
             Value(r.vectors[t], d) <= Value(client[d].vectors[t], d),
           \A t \in Topics : Value(client[c].vectors[t], c) <= Value(r.vectors[t], c),
           Extends(r.seen, client[c].seen),
           client' = [client EXCEPT ![c] = r]
    PROVE  /\ client' \in [Clients -> ClientState]
           /\ \A d \in Clients : \A m : Genuine(m, d) => Genuine(m, d)'
           /\ \A d \in Clients : Sound(client[d], d)'
<1>1. /\ client \in [Clients -> ClientState] /\ r \in ClientState
      /\ client' \in [Clients -> ClientState]
      /\ client'[c] = r /\ \A d \in Clients \ {c} : client'[d] = client[d]
  BY DEF DInv, Attached
<1>2. ASSUME NEW d \in Clients, NEW m, Genuine(m, d)
      PROVE  Genuine(m, d)'
  <2> DEFINE s == m.originalSender
             old == client[s].seen
             new == client'[s].seen
  <2>1. m \in PublishMessage /\ s # d /\ Full(m.timeStamp) /\ s \in Clients
    BY <1>2 DEF Genuine, PublishMessage
  <2>2. PICK j \in DOMAIN old :
          /\ old[j] = identity(m)
          /\ \A i \in 1 .. j - 1 : old[i].topic = m.topic =>
               /\ old[i] # identity(m)
               /\ old[i].number <= Value(m.timeStamp, old[i].originalSender)
    BY <1>2 DEF Genuine, Sent
  <2>3. old \in Seq(Publication) /\ new \in Seq(Publication)
    BY <1>1, <2>1, StateIs
  <2>4. Len(old) <= Len(new) /\ \A i \in 1 .. Len(old) : new[i] = old[i]
    <3>1. CASE s = c
      BY <1>1, <3>1 DEF Extends
    <3>2. CASE s # c
      <4>1. new = old
        BY <1>1, <2>1, <3>2
      <4> HIDE DEF old, new
      <4> QED
        BY <2>3, <4>1
    <3> QED
      BY <3>1, <3>2
  <2> HIDE DEF old, new
  <2>5. j \in DOMAIN new /\ new[j] = old[j] /\ \A i \in 1 .. j - 1 : new[i] = old[i]
    BY <2>3, <2>4
  <2>6. Sent(m, new)
    BY <2>2, <2>5 DEF Sent
  <2>7. Sent(m, client[s].seen)'
    BY <2>6 DEF Sent, new
  <2> QED
    BY <2>1, <2>7 DEF Genuine
<1>3. ASSUME NEW d \in Clients
      PROVE  Sound(client[d], d)'
  <2> DEFINE q == client'[d]
  <2>1. /\ Attached(q) /\ Accurate(q)
        /\ \A i \in DOMAIN q.postponedMessages : Genuine(q.postponedMessages[i], d)
    <3>1. CASE d = c
      BY <1>1, <3>1
    <3>2. CASE d # c
      BY <1>1, <3>2 DEF DInv, Sound
    <3> QED
      BY <3>1, <3>2
  <2>2. ASSUME NEW t \in Topics, NEW x \in Clients
        PROVE  Value(q.vectors[t], x) <= Value(client'[x].vectors[t], x)
    <3> DEFINE v(y, z) == Value(client[y].vectors[t], z)
    <3>1. \A y, z \in Clients : v(y, z) \in Nat
      BY FullLevels DEF DInv, Sound, Attached
    <3>2. Value(r.vectors[t], c) \in Nat
      BY FullLevels DEF Attached
    <3>3. \A y, z \in Clients : v(y, z) <= v(z, z)
      BY DEF DInv, Sound
    <3>4. CASE d = c /\ x = c
      BY <1>1, <3>2, <3>4
    <3>5. CASE d = c /\ x # c
      <4>1. client'[x] = client[x] /\ q = r
        BY <1>1, <3>5
      <4> QED
        BY <3>5, <4>1
    <3>6. CASE d # c /\ x = c
      <4>1. q = client[d] /\ client'[x] = r
        BY <1>1, <3>6
      <4>2. v(d, c) <= v(c, c) /\ v(c, c) <= Value(r.vectors[t], c)
        BY <3>3
      <4> QED
        BY <3>1, <3>2, <3>6, <4>1, <4>2
    <3>7. CASE d # c /\ x # c
      BY <1>1, <3>3, <3>7
    <3> QED
      BY <3>4, <3>5, <3>6, <3>7
  <2>3. (\A i \in DOMAIN client[d].postponedMessages :
            Genuine(client[d].postponedMessages[i], d))'
    <3> SUFFICES ASSUME NEW i \in DOMAIN q.postponedMessages
                 PROVE  Genuine(client[d].postponedMessages[i], d)'
      OBVIOUS
    <3>1. PICK m : m = q.postponedMessages[i]
      OBVIOUS
    <3>2. Genuine(m, d)'
      BY <1>2, <2>1, <3>1
    <3> QED
      BY <3>1, <3>2 DEF Genuine
  <2> QED
    BY <2>1, <2>2, <2>3 DEF Sound, Attached, Accurate
<1> QED
  BY <1>1, <1>2, <1>3

LEMMA NoStep ==
    ASSUME DInv, NEW c \in Clients
    PROVE  client[c] \in Reached(c)
<1> DEFINE f == OnTopic(client[c].seen)
<1>1. client[c] \in ClientState /\ Sound(client[c], c) /\ client[c].seen \in Seq(Publication)
  BY StateIs DEF DInv
<1>2. f \in Seq(Publication)
  BY <1>1, OnTopicType
<1>3. Handed(f, c)
  <2>1. Len(f) \in Nat /\ SubSeq(f, 1, Len(f)) = f
    BY <1>2, HandedType
  <2> QED
    BY <1>2, <2>1 DEF Handed
<1>4. Extends(client[c].seen, client[c].seen)
  <2>1. Len(client[c].seen) \in Nat
    BY <1>1
  <2> QED
    BY <2>1 DEF Extends
<1> QED
  BY <1>1, <1>3, <1>4 DEF Reached, Since

-----------------------------------------------------------------------------
(* A publication arrives.                                                  *)

LEMMA ArrivalReaches ==
    ASSUME DInv, NEW c \in Clients, NEW m \in underWay[c]
    PROVE  handlePublishMessage(Session(c), m).st \in Reached(c)
<1>1. Session(c).st = client[c] /\ client[c] \in Reached(c)
  BY NoStep DEF Session, Begin
<1>2. Genuine(m, c) /\ m \in PublishMessage
  BY DEF DInv, Genuine
<1>3. \A st : [Session(c) EXCEPT !.st = st].st = st
  BY DEF Session, Begin
<1>4. CASE Accepts(client[c].vectors[m.topic], m)
  <2>1. checkPostponed(Export(client[c], m)) \in Reached(c)
    BY <1>1, <1>2, <1>4, ExportReaches, CheckReaches
  <2>2. handlePublishMessage(Session(c), m) = [Session(c) EXCEPT !.st = checkPostponed(Export(client[c], m))]
    BY <1>1, <1>4 DEF handlePublishMessage
  <2> QED
    BY <1>3, <2>1, <2>2
<1>5. CASE ~Accepts(client[c].vectors[m.topic], m)
  <2> DEFINE list == Append(client[c].postponedMessages, m)
  <2>1. list \in Seq(PublishMessage) /\ list \in Seq(Real(c))
    <3>1. m \in Real(c)
      BY <1>2 DEF Real
    <3>2. /\ client[c].postponedMessages \in Seq(Real(c))
          /\ client[c].postponedMessages \in Seq(PublishMessage)
      BY <1>1, WaitingIs
    <3> QED
      BY <1>2, <3>1, <3>2
  <2>2. \A i \in DOMAIN list : Genuine(list[i], c)
    <3> HIDE DEF list
    <3> QED
      BY <2>1 DEF Real
  <2>3. handlePublishMessage(Session(c), m) =
          [Session(c) EXCEPT !.st = [client[c] EXCEPT !.postponedMessages = list]]
    BY <1>1, <1>5 DEF handlePublishMessage
  <2>4. [client[c] EXCEPT !.postponedMessages = list] \in Reached(c)
    <3> HIDE DEF list
    <3> QED
      BY <1>1, <2>1, <2>2, WaitingReaches
  <2> HIDE DEF list
  <2> QED
    BY <1>3, <2>3, <2>4
<1> QED
  BY <1>4, <1>5

LEMMA ReceivesStep ==
    ASSUME DInv, NEW c \in Clients, Receives(c)
    PROVE  /\ DInv'
           /\ \/ Broadcast!Hand(c)
              \/ UNCHANGED SeenOnTopic
<1>1. PICK m \in underWay[c] :
        /\ client' = [client EXCEPT ![c] = handlePublishMessage(Session(c), m).st]
        /\ underWay' = [underWay EXCEPT ![c] = @ \ {m}]
  BY DEF Receives
<1> DEFINE r == handlePublishMessage(Session(c), m).st
<1>2. r \in Reached(c)
  BY ArrivalReaches
<1>3. client' = [client EXCEPT ![c] = r]
  BY <1>1
<1> HIDE DEF r
<1>4. r \in ClientState /\ Sound(r, c) /\ Since(r, c)
  BY <1>2 DEF Reached
<1>5. \A t \in Topics : Value(client[c].vectors[t], c) \in Nat
  BY FullLevels DEF DInv, Sound, Attached
<1>6. /\ client' \in [Clients -> ClientState]
      /\ \A d \in Clients : \A x : Genuine(x, d) => Genuine(x, d)'
      /\ \A d \in Clients : Sound(client[d], d)'
  <2>1. /\ Attached(r) /\ Accurate(r)
        /\ \A i \in DOMAIN r.postponedMessages : Genuine(r.postponedMessages[i], c)
        /\ \A t \in Topics, d \in Clients \ {c} :
             Value(r.vectors[t], d) <= Value(client[d].vectors[t], d)
        /\ Extends(r.seen, client[c].seen)
    BY <1>4 DEF Sound, Since
  <2>2. \A t \in Topics : Value(client[c].vectors[t], c) <= Value(r.vectors[t], c)
    BY <1>4, <1>5 DEF Since
  <2> QED
    BY <1>3, <2>1, <2>2, OwnStep
<1>7. underWay' \in [Clients -> SUBSET PublishMessage]
       /\ \A d \in Clients : underWay'[d] \subseteq underWay[d]
  BY <1>1 DEF DInv
<1>8. DInv'
  BY <1>6, <1>7 DEF DInv
<1> DEFINE f == OnTopic(client[c].seen)
           g == OnTopic(r.seen)
           old == [d \in Clients |-> OnTopic(client[d].seen)]
           new == [d \in Clients |-> OnTopic(client'[d].seen)]
<1>9. /\ g \in Seq(Publication) /\ Len(g) >= Len(f) /\ SubSeq(g, 1, Len(f)) = f
      /\ \A k \in Len(f) + 1 .. Len(g) :
            Broadcast!MayFollow(g[k], SubSeq(g, 1, k - 1), c)
  BY <1>4 DEF Since, Handed
<1>10. f \in Seq(Publication)
  BY StateIs, OnTopicType DEF DInv
<1>11. new = [old EXCEPT ![c] = g]
  <2>1. client'[c] = r /\ \A d \in Clients \ {c} : client'[d] = client[d]
    BY <1>3 DEF DInv
  <2> QED
    BY <2>1
<1>12. new[c] = g /\ old[c] = f
  BY <1>11
<1> HIDE DEF f, g, old, new
<1>13. CASE Len(g) = Len(f)
  <2>1. g = f
    BY <1>9, <1>13, HandedType
  <2>2. new = old
    BY <1>11, <1>12, <2>1 DEF old
  <2> QED
    BY <1>8, <2>2 DEF old, new, SeenOnTopic
<1>14. CASE Len(g) # Len(f)
  <2>1. Len(g) > Len(f)
    BY <1>9, <1>10, <1>14
  <2>2. Broadcast!Hand(c)
    BY <1>9, <1>11, <1>12, <2>1 DEF Broadcast!Hand, SeenOnTopic, old, new
  <2> QED
    BY <1>8, <2>2
<1> QED
  BY <1>13, <1>14

-----------------------------------------------------------------------------
(* A client publishes.                                                     *)

(* The clock with client c's own count one higher.                         *)
Ticked(k, c) ==
    [i \in DOMAIN k |-> IF k[i].node = c THEN [k[i] EXCEPT !.value = @ + 1] ELSE k[i]]

LEMMA TickCounts ==
    ASSUME NEW k, Full(k), NEW c \in Clients
    PROVE  /\ Full(Ticked(k, c))
           /\ \A d \in Clients : Value(Ticked(k, c), d) =
                 IF d = c THEN Value(k, d) + 1 ELSE Value(k, d)
<1> DEFINE r == Ticked(k, c)
<1>1. k \in VectorClock /\ Distinct(k) /\ k \in Clocks
  BY DEF Full, Clocks
<1>2. Len(k) \in Nat /\ DOMAIN k = 1 .. Len(k)
  BY <1>1, ClockType
<1>3. \A i \in DOMAIN k : k[i] \in Pair /\ k[i].node \in Clients /\ k[i].value \in Nat
  BY <1>1, ClockType
<1>4. r = [i \in 1 .. Len(k) |-> r[i]] /\ DOMAIN r = DOMAIN k
  BY <1>2 DEF Ticked
<1>5. ASSUME NEW i \in DOMAIN k
      PROVE  /\ r[i].node = k[i].node
             /\ r[i].value = IF k[i].node = c THEN k[i].value + 1 ELSE k[i].value
             /\ r[i] \in Pair
  BY <1>3 DEF Ticked, Pair
<1> HIDE DEF r
<1>6. r \in Clocks
  <2>1. r \in Seq(Pair)
    BY <1>2, <1>4, <1>5
  <2>2. Distinct(r)
    BY <1>1, <1>4, <1>5 DEF Distinct
  <2> QED
    BY <2>1, <2>2 DEF Clocks, VectorClock
<1>7. ASSUME NEW d \in Clients
      PROVE  /\ Knows(r, d) /\ Value(r, d) = IF d = c THEN Value(k, d) + 1 ELSE Value(k, d)
             /\ Value(r, d) \in Nat /\ Value(r, d) >= 1
  <2>1. Value(k, d) \in Nat /\ Value(k, d) >= 1
    BY DEF Full
  <2>2. PICK i \in DOMAIN k : k[i].node = d /\ Value(k, d) = k[i].value
    BY FullLevels
  <2>3. Value(r, r[i].node) = r[i].value /\ Knows(r, r[i].node)
    BY <1>4, <1>6, ValueIs
  <2> QED
    BY <1>5, <2>1, <2>2, <2>3
<1> QED
  BY <1>6, <1>7 DEF Full, r

(* What client c sends when it publishes on topic t, and what it keeps.    *)
Published(c, t) ==
    [type |-> "Publish", topic |-> t, sender |-> c, originalSender |-> c,
     timeStamp |-> Ticked(client[c].vectors[t], c)]

LEMMA PublishedIs ==
    ASSUME DInv, NEW c \in Clients, NEW t \in Topics
    PROVE  LET m == Published(c, t)
           IN  /\ m \in PublishMessage /\ m.topic = t /\ m.originalSender = c
               /\ Full(m.timeStamp)
               /\ \A d \in Clients : Value(m.timeStamp, d) =
                    IF d = c THEN Value(client[c].vectors[t], d) + 1
                    ELSE Value(client[c].vectors[t], d)
<1>1. Full(client[c].vectors[t])
  BY DEF DInv, Sound, Attached
<1> DEFINE k == Ticked(client[c].vectors[t], c)
<1>2. /\ Full(k)
      /\ \A d \in Clients : Value(k, d) =
           IF d = c THEN Value(client[c].vectors[t], d) + 1 ELSE Value(client[c].vectors[t], d)
  BY <1>1, TickCounts
<1>3. k \in VectorClock
  BY <1>2 DEF Full, Clocks
<1>4. Published(c, t) = [type |-> "Publish", topic |-> t, sender |-> c, originalSender |-> c,
                         timeStamp |-> k]
  BY DEF Published
<1> HIDE DEF k
<1>5. Published(c, t) \in PublishMessage
  BY <1>3, <1>4 DEF PublishMessage
<1> QED
  BY <1>2, <1>4, <1>5

LEMMA PublishIs ==
    ASSUME DInv, NEW c \in Clients, NEW t \in Topics
    PROVE  LET e == publish(Session(c), t)
               m == Published(c, t)
           IN  /\ e.st = [client[c] EXCEPT !.vectors = [client[c].vectors EXCEPT ![t] = m.timeStamp],
                                           !.seen = Append(@, identity(m))]
               /\ ToSet(e.out[e.st.out]) = {m}
<1> DEFINE m == Published(c, t)
           b == client[c].out
           r == [client[c] EXCEPT !.vectors = [client[c].vectors EXCEPT ![t] = m.timeStamp],
                                  !.seen = Append(@, identity(m))]
           e == Session(c)
           e1 == [e EXCEPT !.st = r]
           e2 == SendOut(e1, m)
<1>1. client[c] \in ClientState /\ b \in Brokers /\ client[c].subscriptions = Topics
  BY DEF DInv, Sound, Attached
<1>2. e.st = client[c] /\ e.self = c /\ e.out = [n \in Nodes |-> <<>>]
  BY DEF Session, Begin
<1>3. m = [type |-> "Publish", topic |-> t, sender |-> c, originalSender |-> c,
           timeStamp |-> [i \in DOMAIN client[c].vectors[t] |->
                    IF client[c].vectors[t][i].node = c
                    THEN [client[c].vectors[t][i] EXCEPT !.value = @ + 1]
                    ELSE client[c].vectors[t][i]]]
  BY DEF Published, Ticked
<1>4. e1.st = r /\ e1.out = [n \in Nodes |-> <<>>]
  BY <1>2 DEF Session, Begin
<1>5. r.out = b
  BY <1>1 DEF ClientState
<1>6. b # NULL /\ b \in Nodes
  BY <1>1, NodesAssumption DEF Nodes
<1>7. e2 = [e1 EXCEPT !.out = [e1.out EXCEPT ![b] = Append(e1.out[b], m)]]
  BY <1>4, <1>5, <1>6 DEF SendOut, SendTo
<1>8. publish(e, t) = Schedule(e2, publishDelayMsg)
  <2>1. Topics # {}
    OBVIOUS
  <2>2. m.timeStamp = [i \in DOMAIN client[c].vectors[t] |->
                    IF client[c].vectors[t][i].node = c
                    THEN [client[c].vectors[t][i] EXCEPT !.value = @ + 1]
                    ELSE client[c].vectors[t][i]]
    BY <1>3
  <2> DEFINE k == [i \in DOMAIN e.st.vectors[t] |->
                     IF e.st.vectors[t][i].node = e.self
                     THEN [e.st.vectors[t][i] EXCEPT !.value = @ + 1]
                     ELSE e.st.vectors[t][i]]
  <2>3. k = m.timeStamp
    BY <1>2, <2>2
  <2>4. m = [type |-> "Publish", topic |-> t, sender |-> e.self, originalSender |-> e.self,
             timeStamp |-> k]
    BY <1>2, <1>3, <2>2, <2>3
  <2>5. e.st.subscriptions # {}
    BY <1>1, <1>2, <2>1
  <2>6. e1 = [e EXCEPT !.st.vectors[t] = k, !.st.seen = Append(e.st.seen, identity(m))]
    BY <1>2, <2>3
  <2> HIDE DEF m, r, b, e, e1
  <2>7. publish(e, t) = Schedule(SendOut(e1, m), publishDelayMsg)
    BY <2>4, <2>5, <2>6 DEF publish
  <2> QED
    BY <2>7
<1>9. e2.st = r /\ e2.out[b] = <<m>>
  <2>1. DOMAIN e1 = {"self", "st", "direct", "out", "timers", "fault"}
    BY DEF Session, Begin
  <2> HIDE DEF r, m, b, e1, e2
  <2>2. e2.out = [e1.out EXCEPT ![b] = Append(e1.out[b], m)] /\ e2.st = e1.st
    BY <1>7, <2>1
  <2>3. Append(<<>>, m) = <<m>>
    OBVIOUS
  <2> QED
    BY <1>4, <1>6, <2>2, <2>3
<1>10. publish(e, t).st = r /\ publish(e, t).out = e2.out
  BY <1>7, <1>8, ZenonT(30) DEF Schedule, Session, Begin
<1>11. ToSet(<<m>>) = {m}
  BY DEF ToSet
<1> QED
  BY <1>5, <1>9, <1>10, <1>11

LEMMA PublishesStep ==
    ASSUME DInv, NEW c \in Clients, Publishes(c)
    PROVE  /\ DInv'
           /\ \/ Broadcast!Make(c)
              \/ UNCHANGED SeenOnTopic
<1>1. PICK t \in Topics :
        /\ client' = [client EXCEPT ![c] = publish(Session(c), t).st]
        /\ underWay' = [d \in Clients |->
              IF d = c THEN underWay[d]
              ELSE underWay[d] \cup
                     ToSet(publish(Session(c), t).out[publish(Session(c), t).st.out])]
  BY DEF Publishes
<1> DEFINE m == Published(c, t)
           p == identity(m)
           old == client[c]
           r == [old EXCEPT !.vectors = [old.vectors EXCEPT ![t] = m.timeStamp],
                            !.seen = Append(@, p)]
<1>2. /\ client' = [client EXCEPT ![c] = r]
      /\ underWay' = [d \in Clients |-> IF d = c THEN underWay[d] ELSE underWay[d] \cup {m}]
  BY <1>1, PublishIs
<1>3. /\ m \in PublishMessage /\ m.topic = t /\ m.originalSender = c /\ Full(m.timeStamp)
      /\ \A d \in Clients : Value(m.timeStamp, d) =
           IF d = c THEN Value(old.vectors[t], d) + 1 ELSE Value(old.vectors[t], d)
  BY PublishedIs
<1>4. /\ p \in Publication /\ p.topic = t /\ p.originalSender = c
      /\ p.number = Value(m.timeStamp, c) /\ p.number \in Nat
  BY <1>3, IdentityIs
<1>5. /\ old \in ClientState /\ Sound(old, c) /\ Attached(old) /\ Accurate(old)
      /\ old.seen \in Seq(Publication) /\ old.vectors \in [Topics -> VectorClock]
  BY StateIs DEF DInv, Sound
<1>6. \A u \in Topics, d \in Clients :
         Value(old.vectors[u], d) \in Nat /\ Value(old.vectors[u], d) >= 1
  BY <1>5 DEF Attached, Full
<1> HIDE DEF m, p
<1>7. /\ r.seen = Append(old.seen, p)
      /\ r.vectors = [old.vectors EXCEPT ![t] = m.timeStamp]
      /\ r.postponedMessages = old.postponedMessages
      /\ r.out = old.out /\ r.subscriptions = old.subscriptions
      /\ r \in ClientState
  <2> DEFINE w == [old.vectors EXCEPT ![t] = m.timeStamp]
             l == Append(old.seen, p)
  <2>1. w \in [Topics -> VectorClock]
    BY <1>3, <1>5 DEF Full, Clocks
  <2>2. l \in Seq(Publication)
    BY <1>4, <1>5
  <2>3. r = [old EXCEPT !.vectors = w, !.seen = l]
    OBVIOUS
  <2> HIDE DEF r, w, l, old
  <2>4. /\ r.seen = l /\ r.vectors = w /\ r.postponedMessages = old.postponedMessages
        /\ r.out = old.out /\ r.subscriptions = old.subscriptions /\ r \in ClientState
    BY <1>5, <2>1, <2>2, <2>3 DEF ClientState
  <2> QED
    BY <2>4 DEF w, l
<1> HIDE DEF r
<1>8. \A u \in Topics : r.vectors[u] = IF u = t THEN m.timeStamp ELSE old.vectors[u]
  BY <1>5, <1>7
<1>9. Attached(r)
  BY <1>3, <1>5, <1>7, <1>8 DEF Attached
<1>10. \A u \in Topics, d \in Clients : Value(r.vectors[u], d) =
          IF u = t /\ d = c THEN Value(old.vectors[u], d) + 1 ELSE Value(old.vectors[u], d)
  BY <1>3, <1>8
<1>11. p.number = Value(old.vectors[t], c) + 1
  BY <1>3, <1>4
<1>12. Accurate(r)
  BY <1>4, <1>5, <1>7, <1>10, <1>11, StaysAccurate
<1>13. Extends(r.seen, old.seen)
  BY <1>4, <1>5, <1>7, AppendIs DEF Extends
<1>14. /\ client' \in [Clients -> ClientState]
       /\ \A d \in Clients : \A x : Genuine(x, d) => Genuine(x, d)'
       /\ \A d \in Clients : Sound(client[d], d)'
  <2>1. \A i \in DOMAIN r.postponedMessages : Genuine(r.postponedMessages[i], c)
    BY <1>5, <1>7 DEF Sound
  <2>2. \A u \in Topics, d \in Clients \ {c} :
           Value(r.vectors[u], d) <= Value(client[d].vectors[u], d)
    BY <1>5, <1>10 DEF Sound
  <2>3. \A u \in Topics : Value(old.vectors[u], c) <= Value(r.vectors[u], c)
    BY <1>6, <1>10
  <2> QED
    BY <1>2, <1>9, <1>12, <1>13, <2>1, <2>2, <2>3, OwnStep
<1>15. client'[c] = r /\ \A d \in Clients \ {c} : client'[d] = client[d]
  BY <1>2 DEF DInv
(* The new publication is the last its sender has seen.                    *)
<1>16. Sent(m, r.seen)
  <2> DEFINE n == Len(old.seen) + 1
  <2>1. /\ n \in DOMAIN r.seen /\ r.seen[n] = p
        /\ \A i \in 1 .. n - 1 : r.seen[i] = old.seen[i] /\ i \in DOMAIN old.seen
    BY <1>4, <1>5, <1>7, AppendIs
  <2>2. ASSUME NEW i \in 1 .. n - 1, old.seen[i].topic = t
        PROVE  /\ old.seen[i] # p
               /\ old.seen[i].number <= Value(m.timeStamp, old.seen[i].originalSender)
    <3> DEFINE q == old.seen[i]
    <3>1. q \in Publication /\ q \in ToSet(old.seen)
      BY <1>5, <2>1 DEF ToSet
    <3> HIDE DEF q
    <3>2. q.originalSender \in Clients /\ q.number \in Nat
      BY <3>1, PublicationIs
    <3>3. q.topic = t
      BY <2>2 DEF q
    <3>4. q.number <= Value(old.vectors[t], q.originalSender)
      BY <1>5, <3>1, <3>3 DEF Accurate
    <3>5. q # p
      BY <1>4, <1>6, <1>11, <3>2, <3>4
    <3>6. q.number <= Value(m.timeStamp, q.originalSender)
      BY <1>3, <1>6, <3>2, <3>4
    <3> QED
      BY <3>5, <3>6 DEF q
  <2> HIDE DEF n
  <2>3. \A i \in 1 .. n - 1 : r.seen[i].topic = m.topic =>
           /\ r.seen[i] # p
           /\ r.seen[i].number <= Value(m.timeStamp, r.seen[i].originalSender)
    BY <1>3, <2>1, <2>2
  <2> QED
    BY <2>1, <2>3 DEF Sent, p
<1>17. ASSUME NEW d \in Clients, NEW x \in underWay'[d]
       PROVE  Genuine(x, d)'
  <2>1. CASE x \in underWay[d]
    BY <1>14, <2>1 DEF DInv
  <2>2. CASE x \notin underWay[d]
    <3>1. x = m /\ d # c
      BY <1>2, <2>2
    <3>2. Sent(x, client'[x.originalSender].seen)
      BY <1>3, <1>15, <1>16, <3>1
    <3>3. Sent(x, client[x.originalSender].seen)'
      BY <3>2 DEF Sent, identity
    <3>4. x \in PublishMessage /\ x.originalSender # d /\ Full(x.timeStamp)
      BY <1>3, <3>1
    <3> QED
      BY <3>3, <3>4 DEF Genuine
  <2> QED
    BY <2>1, <2>2
<1>18. DInv'
  <2>1. underWay' \in [Clients -> SUBSET PublishMessage]
    BY <1>2, <1>3 DEF DInv
  <2> QED
    BY <1>14, <1>17, <2>1 DEF DInv
<1> DEFINE map == [d \in Clients |-> OnTopic(client[d].seen)]
           new == [d \in Clients |-> OnTopic(client'[d].seen)]
<1>19. CASE t # AnyTopic
  <2>1. OnTopic(r.seen) = OnTopic(old.seen)
    BY <1>4, <1>5, <1>7, <1>19, OnTopicAppend
  <2>2. \A d \in Clients : OnTopic(client'[d].seen) = OnTopic(client[d].seen)
    BY <1>15, <2>1
  <2>3. new = map
    BY <2>2
  <2> QED
    BY <1>18, <2>3 DEF SeenOnTopic
<1>20. CASE t = AnyTopic
  <2> DEFINE f == OnTopic(old.seen)
             g == Append(f, p)
  <2>1. OnTopic(r.seen) = g /\ f \in Seq(Publication)
    BY <1>4, <1>5, <1>7, <1>20, OnTopicAppend, OnTopicType
  <2>2. g \in Seq(Publication) /\ Len(g) = Len(f) + 1 /\ g[Len(g)] = p /\ Len(f) \in Nat
    BY <1>4, <2>1, AppendIs
  <2>3. new = [map EXCEPT ![c] = g] /\ new[c] = g /\ map[c] = f
    BY <1>15, <2>1
  <2>4. ASSUME NEW d \in Clients
        PROVE  p \notin {map[d][i] : i \in DOMAIN map[d]}
    <3>1. /\ Accurate(client[d]) /\ client[d].seen \in Seq(Publication)
          /\ Value(client[d].vectors[t], c) <= Value(old.vectors[t], c)
      BY StateIs DEF DInv, Sound
    <3>2. Value(client[d].vectors[t], c) \in Nat
      BY FullLevels DEF DInv, Sound, Attached
    <3>3. p \notin ToSet(client[d].seen)
      BY <1>4, <1>6, <1>11, <3>1, <3>2 DEF Accurate
    <3>4. ASSUME NEW i \in DOMAIN map[d]
          PROVE  map[d][i] # p
      <4>1. map[d] = OnTopic(client[d].seen)
        OBVIOUS
      <4>2. PICK j \in DOMAIN client[d].seen : map[d][i] = client[d].seen[j]
        BY <3>1, <4>1, OnTopicOrder
      <4> QED
        BY <3>3, <4>2 DEF ToSet
    <3> QED
      BY <3>4
  <2> HIDE DEF f, g, map, new
  <2>5. map' = new
    BY DEF map, new
  <2>6. Broadcast!Make(c)
    <3>1. /\ Len(new[c]) = Len(map[c]) + 1
          /\ new[c][Len(new[c])] = p
          /\ new = [map EXCEPT ![c] = Append(map[c], p)]
      BY <2>2, <2>3 DEF g
    <3>2. \A d \in Clients : ~(p \in Broadcast!Seen(d))
      BY <2>4 DEF Broadcast!Seen, SeenOnTopic, map
    <3> QED
      BY <1>4, <3>1, <3>2 DEF Broadcast!Make, SeenOnTopic, map, new
  <2> QED
    BY <1>18, <2>6
<1> QED
  BY <1>19, <1>20

-----------------------------------------------------------------------------
(* The initial state: the clock of client c names all clients, itself      *)
(* first.                                                                  *)

LEMMA Enumeration ==
    ASSUME NEW S, IsFiniteSet(S)
    PROVE  LET s == SetToSeq(S)
           IN  /\ s \in Seq(S) /\ Len(s) = Cardinality(S) /\ Cardinality(S) \in Nat
               /\ \A i, j \in 1 .. Len(s) : s[i] = s[j] => i = j
               /\ \A x \in S : \E i \in 1 .. Len(s) : s[i] = x
<1> DEFINE n == Cardinality(S)
           s == SetToSeq(S)
           D == 1 .. n
<1>1. n \in Nat /\ ExistsBijection(D, S)
  BY FS_CardinalityType
<1>2. PICK g \in [D -> S] : g \in Bijection(D, S)
  BY <1>1 DEF ExistsBijection, Bijection, Injection
<1>3. \A i, j \in D : g[i] = g[j] => i = j
  BY <1>2 DEF Bijection, Injection, IsInjective
<1>4. \E f \in [D -> S] : \A i, j \in DOMAIN f : f[i] = f[j] => i = j
  BY <1>3
<1>5. s \in [D -> S] /\ \A i, j \in D : s[i] = s[j] => i = j
  BY <1>4 DEF SetToSeq, IsInjective
<1> HIDE DEF s
<1>6. s \in Seq(S) /\ Len(s) = n
  BY <1>1, <1>5
<1>7. IsFiniteSet(D) /\ Cardinality(D) = n
  BY <1>1, FS_Interval
<1>8. s \in Injection(D, S)
  BY <1>5, <1>7 DEF Injection, IsInjective
<1>9. s \in Surjection(D, S)
  BY <1>7, <1>8, FS_Injection
<1>10. \A x \in S : \E i \in D : s[i] = x
  BY <1>9 DEF Surjection
<1> QED
  BY <1>1, <1>5, <1>6, <1>10 DEF s

LEMMA AcquaintedIs ==
    ASSUME NEW c \in Clients
    PROVE  /\ Attached(Acquainted(c))
           /\ Acquainted(c).seen = <<>> /\ Acquainted(c).postponedMessages = <<>>
           /\ \A t \in Topics, d \in Clients : Value(Acquainted(c).vectors[t], d) = 1
<1> DEFINE others == SetToSeq(Clients \ {c})
           N == Cardinality(Clients)
           k == [i \in 1 .. N |-> [node |-> (<<c>> \o others)[i], value |-> 1]]
           st == Acquainted(c)
<1>1. IsFiniteSet(Clients) /\ Brokers # {}
  BY DeliveryBounds
<1>2. N \in Nat /\ IsFiniteSet(Clients \ {c}) /\ Cardinality(Clients \ {c}) = N - 1
  BY <1>1, FS_CardinalityType, FS_RemoveElement
<1>3. /\ others \in Seq(Clients \ {c}) /\ Len(others) = N - 1 /\ N - 1 \in Nat
      /\ \A i, j \in 1 .. Len(others) : others[i] = others[j] => i = j
      /\ \A x \in Clients \ {c} : \E i \in 1 .. Len(others) : others[i] = x
  BY <1>2, Enumeration
<1> HIDE DEF others, N
<1> DEFINE l == <<c>> \o others
<1>4. /\ l \in Seq(Clients) /\ Len(l) = N /\ l[1] = c
      /\ \A i \in 1 .. N - 1 : l[i + 1] = others[i]
  <2>1. <<c>> \in Seq(Clients) /\ others \in Seq(Clients) /\ Len(<<c>>) = 1
    <3> HIDE DEF l
    <3>1. \A i \in 1 .. Len(others) : others[i] \in Clients
      BY <1>3
    <3> QED
      BY <1>3, <3>1
  <2> QED
    BY <1>2, <1>3, <2>1
<1> HIDE DEF l
<1>5. \A i, j \in 1 .. N : l[i] = l[j] => i = j
  <2>1. ASSUME NEW i \in 2 .. N
        PROVE  i - 1 \in 1 .. N - 1 /\ l[i] = others[i - 1] /\ l[i] # c
    <3>1. i - 1 \in 1 .. N - 1 /\ (i - 1) + 1 = i
      BY <1>2
    <3>2. l[i] = others[i - 1]
      BY <1>4, <3>1
    <3>3. others[i - 1] \in Clients \ {c}
      BY <1>3, <3>1
    <3> QED
      BY <3>1, <3>2, <3>3
  <2>2. \A i \in 1 .. N : i = 1 \/ i \in 2 .. N
    BY <1>2
  <2>3. ASSUME NEW i \in 2 .. N, NEW j \in 2 .. N, l[i] = l[j]
        PROVE  i = j
    <3>1. i - 1 = j - 1
      BY <1>3, <2>1, <2>3
    <3> QED
      BY <1>2, <3>1
  <2> QED
    BY <1>4, <2>1, <2>2, <2>3
<1>6. \A x \in Clients : \E i \in 1 .. N : l[i] = x
  <2>1. 1 \in 1 .. N
    BY <1>2, <1>3
  <2>2. \A i \in 1 .. N - 1 : i + 1 \in 1 .. N
    BY <1>2
  <2> QED
    BY <1>3, <1>4, <2>1, <2>2
<1>7. k = [i \in 1 .. N |-> [node |-> l[i], value |-> 1]]
  BY DEF l
<1> HIDE DEF k
<1>8. /\ DOMAIN k = 1 .. N
      /\ \A i \in 1 .. N : k[i] \in Pair /\ k[i].node = l[i] /\ k[i].value = 1
  BY <1>2, <1>4, <1>7 DEF Pair
<1>9. k \in Clocks
  <2>1. k \in Seq(Pair)
    BY <1>2, <1>7, <1>8
  <2>2. Distinct(k)
    BY <1>5, <1>8 DEF Distinct
  <2> QED
    BY <2>1, <2>2 DEF Clocks, VectorClock
<1>10. ASSUME NEW d \in Clients
       PROVE  Knows(k, d) /\ Value(k, d) = 1
  <2>1. PICK i \in 1 .. N : l[i] = d
    BY <1>6
  <2>2. Value(k, k[i].node) = k[i].value /\ Knows(k, k[i].node)
    BY <1>8, <1>9, ValueIs
  <2> QED
    BY <1>8, <2>1, <2>2
<1>11. Full(k)
  BY <1>9, <1>10 DEF Full
<1>12. st = [out |-> CHOOSE b \in Brokers : TRUE, subscriptions |-> Topics,
             vectors |-> [t \in Topics |-> k], postponedMessages |-> <<>>, seen |-> <<>>]
  <2>1. st = [InitialClient(c) EXCEPT !.out = CHOOSE b \in Brokers : TRUE,
                                      !.subscriptions = Topics,
                                      !.vectors = [t \in Topics |-> k]]
    BY DEF Acquainted, k, N, others
  <2> HIDE DEF st, k
  <2> QED
    BY <2>1 DEF InitialClient
<1>13. (CHOOSE b \in Brokers : TRUE) \in Brokers
  BY <1>1
<1>14. k \in VectorClock
  BY <1>9 DEF Clocks
<1> HIDE DEF st
<1>15. /\ st \in ClientState /\ st.out \in Brokers /\ st.subscriptions = Topics
       /\ st.vectors = [t \in Topics |-> k] /\ st.postponedMessages = <<>> /\ st.seen = <<>>
  BY <1>12, <1>13, <1>14 DEF ClientState
<1> QED
  BY <1>10, <1>11, <1>15 DEF Attached, st

LEMMA DeliveryStart ==
    ASSUME DeliveryInit
    PROVE  DInv /\ Broadcast!BroadcastInit
<1>1. /\ client = [c \in Clients |-> Acquainted(c)]
      /\ underWay = [c \in Clients |-> {}]
  BY DEF DeliveryInit
<1>2. ASSUME NEW c \in Clients
      PROVE  /\ client[c] = Acquainted(c) /\ client[c] \in ClientState
             /\ client[c].seen = <<>> /\ Sound(client[c], c)
  <2> DEFINE st == client[c]
  <2>1. st = Acquainted(c)
    BY <1>1
  <2>2. /\ Attached(st) /\ st.seen = <<>> /\ st.postponedMessages = <<>>
        /\ \A t \in Topics, d \in Clients : Value(st.vectors[t], d) = 1
    BY <2>1, AcquaintedIs
  <2>3. Accurate(st)
    <3>1. ToSet(<<>>) = {}
      BY DEF ToSet
    <3>2. \A p \in Publication :
             p.number \in Nat /\ Value(st.vectors[p.topic], p.originalSender) = 1
      BY <2>2, PublicationIs
    <3> QED
      BY <2>2, <3>1, <3>2 DEF Accurate
  <2>4. \A t \in Topics, d \in Clients : Value(client[d].vectors[t], d) = 1
    BY <1>1, AcquaintedIs
  <2>5. Sound(st, c)
    BY <2>2, <2>3, <2>4 DEF Sound
  <2> QED
    BY <2>1, <2>2, <2>5 DEF Attached
<1>3. DInv
  BY <1>1, <1>2 DEF DInv
<1>4. OnTopic(<<>>) = <<>>
  BY OnTopicIsFold, Filtering!FoldEmpty
<1>5. \A c \in Clients : OnTopic(client[c].seen) = <<>>
  BY <1>2, <1>4
<1>6. Broadcast!BroadcastInit
  BY <1>5 DEF Broadcast!BroadcastInit, SeenOnTopic
<1> QED
  BY <1>3, <1>6

-----------------------------------------------------------------------------

LEMMA DeliveryStep ==
    ASSUME DInv, [DeliveryNext]_delivery
    PROVE  /\ DInv'
           /\ [Broadcast!BroadcastNext]_SeenOnTopic
<1>1. CASE UNCHANGED delivery
  <2>1. client' = client /\ underWay' = underWay
    BY <1>1 DEF delivery
  <2>2. DInv'
    BY <2>1 DEF DInv, Sound, Attached, Accurate, Genuine
  <2> QED
    BY <2>1, <2>2 DEF SeenOnTopic
<1>2. ASSUME NEW d \in Clients, Publishes(d)
      PROVE  /\ DInv'
             /\ [Broadcast!BroadcastNext]_SeenOnTopic
  BY <1>2, PublishesStep DEF Broadcast!BroadcastNext
<1>3. ASSUME NEW d \in Clients, Receives(d)
      PROVE  /\ DInv'
             /\ [Broadcast!BroadcastNext]_SeenOnTopic
  BY <1>3, ReceivesStep DEF Broadcast!BroadcastNext
<1> QED
  BY <1>1, <1>2, <1>3 DEF DeliveryNext

(* Clients that all know each other get a causal broadcast from their      *)
(* clocks alone (Client::checkReceiveCondition, checkPostponed and         *)
(* exportMessage), over any network that loses and doubles nothing, for    *)
(* any number of clients, topics and publications.                         *)
THEOREM ClocksDeliverBroadcast == DeliverySpec => DeliversBroadcast
<1>1. DeliveryInit => DInv /\ Broadcast!BroadcastInit
  BY DeliveryStart
<1>2. DInv /\ [DeliveryNext]_delivery
        => /\ DInv'
           /\ [Broadcast!BroadcastNext]_SeenOnTopic
  BY DeliveryStep
<1> QED
  BY <1>1, <1>2, PTL DEF DeliverySpec, DeliversBroadcast, Broadcast!BroadcastSpec

-----------------------------------------------------------------------------
(* Nothing is left behind.  The invariant for it: every publication a      *)
(* client has not seen yet is under way to it or waits at it, once; clocks *)
(* and time stamps are closed under what came before; and nothing waits    *)
(* that could be exported.                                                 *)

Number(m) == Value(m.timeStamp, m.originalSender)
Waiting(st) == ToSet(st.postponedMessages)
InFlight(c) == underWay[c] \cup Waiting(client[c])
Traffic == UNION {InFlight(c) : c \in Clients}

(* What clock k says includes message m, and all that m says.              *)
Covered(m, k) == Number(m) <= Value(k, m.originalSender)
Below(m, k) == \A d \in Clients : Value(m.timeStamp, d) <= Value(k, d)

Stamped ==
    \A m \in Traffic :
      /\ \A d \in Clients : Value(m.timeStamp, d) <= Value(client[d].vectors[m.topic], d)
      /\ \A x \in Traffic : identity(x) = identity(m) => x = m
      /\ \A x \in Traffic :
           x # m /\ x.topic = m.topic /\ Covered(x, m.timeStamp)
             => /\ Below(x, m.timeStamp)
                /\ Value(x.timeStamp, m.originalSender) < Number(m)

(* In state st client c still misses the publications R.                   *)
Missing(st, c, R) ==
    /\ \A m \in R : Number(m) > Value(st.vectors[m.topic], m.originalSender)
    /\ \A p \in Publication :
          /\ p.originalSender # c /\ 2 <= p.number
          /\ p.number <= Value(client[p.originalSender].vectors[p.topic], p.originalSender)
          => \/ p.number <= Value(st.vectors[p.topic], p.originalSender)
             \/ \E m \in R : identity(m) = p
    /\ \A m \in Traffic :
          Covered(m, st.vectors[m.topic]) => Below(m, st.vectors[m.topic])

Once(list) == \A i, j \in DOMAIN list : list[i] = list[j] => i = j

Settled(st) ==
    \A i \in DOMAIN st.postponedMessages :
      ~Accepts(st.vectors[st.postponedMessages[i].topic], st.postponedMessages[i])

AInv ==
    /\ DInv /\ Stamped
    /\ \A c \in Clients :
          /\ Missing(client[c], c, InFlight(c))
          /\ Once(client[c].postponedMessages)
          /\ Waiting(client[c]) \cap underWay[c] = {}
          /\ Settled(client[c])

LEMMA TrafficIs ==
    ASSUME DInv, NEW m \in Traffic
    PROVE  /\ m \in PublishMessage /\ Full(m.timeStamp)
           /\ m.topic \in Topics /\ m.originalSender \in Clients
           /\ Number(m) \in Nat
           /\ \A d \in Clients : Value(m.timeStamp, d) \in Nat
           /\ identity(m) \in Publication /\ identity(m).number = Number(m)
           /\ identity(m).topic = m.topic /\ identity(m).originalSender = m.originalSender
           /\ Number(m) <= Value(client[m.originalSender].vectors[m.topic], m.originalSender)
<1>1. PICK c \in Clients : m \in InFlight(c)
  BY DEF Traffic
<1>2. Genuine(m, c)
  <2>1. CASE m \in underWay[c]
    BY <2>1 DEF DInv
  <2>2. CASE m \in Waiting(client[c])
    BY <2>2 DEF DInv, Sound, Waiting, ToSet
  <2> QED
    BY <1>1, <2>1, <2>2 DEF InFlight
<1>3. m \in PublishMessage /\ Full(m.timeStamp) /\ Sent(m, client[m.originalSender].seen)
  BY <1>2 DEF Genuine
<1>4. /\ identity(m) \in Publication /\ identity(m).number = Number(m)
      /\ identity(m).topic = m.topic /\ identity(m).originalSender = m.originalSender
      /\ m.topic \in Topics /\ m.originalSender \in Clients /\ Number(m) \in Nat
  BY <1>3, IdentityIs DEF Number
<1>5. \A d \in Clients : Value(m.timeStamp, d) \in Nat
  BY <1>3, FullLevels
<1>6. Number(m) <= Value(client[m.originalSender].vectors[m.topic], m.originalSender)
  <2>1. identity(m) \in ToSet(client[m.originalSender].seen)
    BY <1>3 DEF Sent, ToSet
  <2>2. Accurate(client[m.originalSender])
    BY <1>4 DEF DInv, Sound
  <2> QED
    BY <1>4, <2>1, <2>2 DEF Accurate
<1> QED
  BY <1>3, <1>4, <1>5, <1>6

LEMMA ClockValues ==
    ASSUME DInv, NEW c \in Clients, NEW t \in Topics, NEW d \in Clients
    PROVE  /\ Full(client[c].vectors[t])
           /\ Value(client[c].vectors[t], d) \in Nat /\ Value(client[c].vectors[t], d) >= 1
           /\ Value(client[c].vectors[t], d) <= Value(client[d].vectors[t], d)
BY DEF DInv, Sound, Attached, Full

LEMMA AcceptsExactly ==
    ASSUME NEW k, Full(k), NEW m \in PublishMessage, Full(m.timeStamp)
    PROVE  Accepts(k, m) <=>
             /\ Number(m) = Value(k, m.originalSender) + 1
             /\ \A d \in Clients \ {m.originalSender} : Value(m.timeStamp, d) <= Value(k, d)
<1>1. Accepts(k, m) =>
             /\ Number(m) = Value(k, m.originalSender) + 1
             /\ \A d \in Clients \ {m.originalSender} : Value(m.timeStamp, d) <= Value(k, d)
  BY Acceptance DEF Number
<1>2. ASSUME Number(m) = Value(k, m.originalSender) + 1,
             \A d \in Clients \ {m.originalSender} : Value(m.timeStamp, d) <= Value(k, d)
      PROVE  Accepts(k, m)
  <2>1. ASSUME NEW i \in Stops(k, m)
        PROVE  FALSE
    <3> DEFINE d == m.timeStamp[i].node
    <3>1. i \in DOMAIN m.timeStamp /\ d # m.originalSender
          /\ (Knows(k, d) => Value(k, d) < m.timeStamp[i].value)
      BY DEF Stops
    <3>2. m.timeStamp \in Clocks
      BY DEF Full
    <3>3. d \in Clients /\ Value(m.timeStamp, d) = m.timeStamp[i].value
      BY <3>1, <3>2, ClockType, ValueIs DEF Clocks
    <3> HIDE DEF d
    <3>4. Knows(k, d) /\ Value(k, d) \in Nat /\ Value(m.timeStamp, d) \in Nat
      BY <3>3, FullLevels
    <3>5. Value(m.timeStamp, d) <= Value(k, d)
      BY <1>2, <3>1, <3>3
    <3> QED
      BY <3>1, <3>3, <3>4, <3>5
  <2> QED
    BY <1>2, <2>1 DEF Accepts, Merges, Number
<1> QED
  BY <1>1, <1>2

-----------------------------------------------------------------------------
(* Exporting takes a message off those that are missing.                   *)

LEMMA ExportMissing ==
    ASSUME DInv, Stamped, NEW c \in Clients, NEW st \in Reached(c),
           NEW R \in SUBSET Traffic, Missing(st, c, R), NEW m \in R, Genuine(m, c),
           Accepts(st.vectors[m.topic], m)
    PROVE  Missing(Export(st, m), c, R \ {m})
<1> DEFINE T == m.topic
           s == m.originalSender
           r == Export(st, m)
           v(t, d) == Value(st.vectors[t], d)
           w(t, d) == Value(r.vectors[t], d)
<1>1. Attached(st)
  BY DEF Reached, Sound
<1>2. m \in PublishMessage /\ Full(m.timeStamp) /\ T \in Topics /\ s \in Clients
  BY TrafficIs
<1>3. \A t \in Topics, d \in Clients : v(t, d) \in Nat
  BY <1>1, FullLevels DEF Attached
<1>4. \A t \in Topics, d \in Clients : w(t, d) = IF t = T /\ d = s THEN v(t, d) + 1 ELSE v(t, d)
  BY <1>1, <1>2, ExportIs
<1>5. /\ Number(m) = v(T, s) + 1
      /\ \A d \in Clients \ {s} : Value(m.timeStamp, d) <= v(T, d)
  BY <1>1, <1>2, AcceptsExactly DEF Attached
<1>6. ASSUME NEW x \in Traffic, x.topic = T, x.originalSender = s, Number(x) = Number(m)
      PROVE  x = m
  <2>1. identity(x) = identity(m)
    BY <1>6, TrafficIs, PublicationIs
  <2> QED
    BY <2>1 DEF Stamped
<1> HIDE DEF r, v, w, T, s
<1>7. \A x \in Traffic : x.topic \in Topics /\ x.originalSender \in Clients /\ Number(x) \in Nat
          /\ \A d \in Clients : Value(x.timeStamp, d) \in Nat
  BY TrafficIs
<1>8. ASSUME NEW x \in R \ {m}
      PROVE  Number(x) > w(x.topic, x.originalSender)
  <2>1. Number(x) > v(x.topic, x.originalSender)
    BY DEF Missing, v
  <2> QED
    BY <1>3, <1>4, <1>5, <1>6, <1>7, <2>1
<1>9. ASSUME NEW p \in Publication, p.originalSender # c, 2 <= p.number,
             p.number <= Value(client[p.originalSender].vectors[p.topic], p.originalSender)
      PROVE  \/ p.number <= w(p.topic, p.originalSender)
             \/ \E x \in R \ {m} : identity(x) = p
  <2>1. p.topic \in Topics /\ p.originalSender \in Clients /\ p.number \in Nat
    BY PublicationIs
  <2>2. \/ p.number <= v(p.topic, p.originalSender)
        \/ \E x \in R : identity(x) = p
    BY <1>9 DEF Missing, v
  <2>3. CASE p.number <= v(p.topic, p.originalSender)
    BY <1>3, <1>4, <2>1, <2>3
  <2>4. CASE identity(m) = p
    <3>1. p.number = Number(m) /\ p.topic = T /\ p.originalSender = s
      BY <2>4, TrafficIs DEF T, s
    <3> QED
      BY <1>2, <1>3, <1>4, <1>5, <3>1 DEF T, s
  <2> QED
    BY <2>2, <2>3, <2>4
<1>10. ASSUME NEW x \in Traffic, Number(x) <= w(x.topic, x.originalSender), NEW d \in Clients
       PROVE  Value(x.timeStamp, d) <= w(x.topic, d)
  <2>1. CASE Number(x) <= v(x.topic, x.originalSender)
    <3>1. Value(x.timeStamp, d) <= v(x.topic, d)
      BY <2>1 DEF Missing, Covered, Below, v
    <3> QED
      BY <1>3, <1>4, <1>7, <3>1
  <2>2. CASE ~(Number(x) <= v(x.topic, x.originalSender))
    <3>1. x.topic = T /\ x.originalSender = s /\ Number(x) = Number(m)
      BY <1>3, <1>4, <1>5, <1>7, <1>10, <2>2
    <3>2. x = m
      BY <1>6, <3>1
    <3>3. CASE d = s
      BY <1>2, <1>3, <1>4, <1>5, <3>2, <3>3 DEF Number, T, s
    <3>4. CASE d # s
      BY <1>2, <1>4, <1>5, <3>2, <3>4 DEF T, s
    <3> QED
      BY <3>3, <3>4
  <2> QED
    BY <2>1, <2>2
<1> QED
  BY <1>8, <1>9, <1>10 DEF Missing, Covered, Below, r, w

(* The order of a list without doubles does not matter.                    *)
LEMMA OnceAppend ==
    ASSUME NEW X, NEW l \in Seq(X), NEW x \in X
    PROVE  Once(Append(l, x)) <=> Once(l) /\ x \notin ToSet(l)
<1> DEFINE r == Append(l, x)
           n == Len(l)
<1>1. /\ DOMAIN r = 1 .. n + 1 /\ DOMAIN l = 1 .. n /\ n \in Nat
      /\ \A i \in 1 .. n : r[i] = l[i]
      /\ r[n + 1] = x
  BY AppendIs
<1> HIDE DEF r, n
<1>2. ASSUME Once(r)
      PROVE  Once(l) /\ x \notin ToSet(l)
  <2>1. \A i, j \in 1 .. n : l[i] = l[j] => i = j
    BY <1>1, <1>2 DEF Once
  <2>2. \A i \in 1 .. n : l[i] # x
    <3>1. \A i \in 1 .. n : i \in DOMAIN r /\ n + 1 \in DOMAIN r /\ i # n + 1
      BY <1>1
    <3> QED
      BY <1>1, <1>2, <3>1 DEF Once
  <2> QED
    BY <1>1, <2>1, <2>2 DEF Once, ToSet
<1>3. ASSUME Once(l), x \notin ToSet(l)
      PROVE  Once(r)
  <2>1. \A i \in 1 .. n : l[i] # x
    BY <1>1, <1>3 DEF ToSet
  <2>2. \A i \in DOMAIN r : i \in 1 .. n \/ i = n + 1
    BY <1>1
  <2> QED
    BY <1>1, <1>3, <2>1, <2>2 DEF Once
<1> QED
  BY <1>2, <1>3 DEF r

(* The state of client c in the middle of a pass: list is what has been    *)
(* gone through, and K what is missing and does not wait.                  *)
Passed(r, st, list, c, K) ==
    /\ r \in Reached(c)
    /\ r.postponedMessages \in Seq(ToSet(list)) /\ Once(r.postponedMessages)
    /\ Missing(r, c, K \cup (Waiting(st) \ ToSet(list)) \cup Waiting(r))
    /\ Len(r.postponedMessages) <= Len(list)
    /\ Len(r.postponedMessages) = Len(list) =>
         /\ r = [st EXCEPT !.postponedMessages = list]
         /\ \A i \in DOMAIN list : ~Accepts(st.vectors[list[i].topic], list[i])
    /\ (\A i \in DOMAIN list : ~Accepts(st.vectors[list[i].topic], list[i]))
         => Len(r.postponedMessages) = Len(list)

(* What client c misses is what waits and what is under way to it.         *)
Misses(st, c, K) ==
    /\ st \in Reached(c)
    /\ Once(st.postponedMessages)
    /\ Waiting(st) \subseteq Traffic /\ Waiting(st) \cap K = {}
    /\ Missing(st, c, K \cup Waiting(st))

LEMMA WaitingElements ==
    ASSUME NEW c \in Clients, NEW st \in Reached(c)
    PROVE  /\ \A m \in Waiting(st) : Genuine(m, c) /\ m \in Real(c)
           /\ st.postponedMessages \in Seq(Waiting(st))
<1> DEFINE l == st.postponedMessages
<1>1. l \in Seq(Real(c))
  BY WaitingIs
<1> HIDE DEF l
<1>2. DOMAIN l = 1 .. Len(l) /\ \A i \in DOMAIN l : l[i] \in Real(c)
  BY <1>1
<1>3. l \in Seq(ToSet(l))
  <2>1. \A i \in 1 .. Len(l) : l[i] \in ToSet(l)
    BY <1>2 DEF ToSet
  <2> QED
    BY <1>1, <2>1
<1>4. \A m \in ToSet(l) : m \in Real(c)
  BY <1>2 DEF ToSet
<1> QED
  BY <1>3, <1>4 DEF l, Waiting, Real

LEMMA PassProgress ==
    ASSUME DInv, Stamped, NEW c \in Clients, NEW K \in SUBSET Traffic, NEW st, Misses(st, c, K)
    PROVE  Passed(Pass(st), st, st.postponedMessages, c, K)
<1> DEFINE W == Waiting(st)
           base == [st EXCEPT !.postponedMessages = <<>>]
           F(l) == Examining!Fold(base, l)
           S == {l \in Seq(W) : Once(l) => Passed(F(l), st, l, c, K)}
<1>1. /\ st \in Reached(c) /\ Once(st.postponedMessages) /\ W \subseteq Traffic
      /\ W \cap K = {} /\ Missing(st, c, K \cup W)
  BY DEF Misses
<1>2. st \in ClientState
  BY <1>1 DEF Reached
<1>3. /\ base.postponedMessages = <<>> /\ base.vectors = st.vectors
      /\ \A l : [base EXCEPT !.postponedMessages = l] = [st EXCEPT !.postponedMessages = l]
  BY <1>2 DEF ClientState
<1>4. base \in Reached(c)
  <2>1. <<>> \in Seq(PublishMessage) /\ \A i \in DOMAIN <<>> : Genuine(<<>>[i], c)
    OBVIOUS
  <2> QED
    BY <1>1, <2>1, WaitingReaches
<1>5. ToSet(<<>>) = {}
  BY DEF ToSet
<1>6. <<>> \in S
  <2>1. F(<<>>) = base
    BY Examining!FoldEmpty
  <2>2. Missing(base, c, K \cup (W \ ToSet(<<>>)) \cup Waiting(base))
    <3>1. K \cup (W \ ToSet(<<>>)) \cup Waiting(base) = K \cup W
      BY <1>3, <1>5 DEF Waiting
    <3>2. Missing(base, c, K \cup W)
      BY <1>1, <1>3 DEF Missing
    <3> QED
      BY <3>1, <3>2
  <2> DEFINE e == <<>>
  <2>3. /\ e \in Seq(ToSet(e)) /\ Len(e) = 0
        /\ \A i \in DOMAIN e : FALSE
    BY EmptySeq
  <2>4. base = [st EXCEPT !.postponedMessages = e]
    OBVIOUS
  <2>5. base.postponedMessages = e
    BY <1>3
  <2>6. Missing(base, c, K \cup (W \ ToSet(e)) \cup Waiting(base))
    BY <2>2
  <2> HIDE DEF base, e, F
  <2>7. Once(e)
    BY <2>3 DEF Once
  <2>8. Passed(base, st, e, c, K)
    BY <1>4, <2>3, <2>4, <2>5, <2>6, <2>7 DEF Passed
  <2>9. Passed(base, st, <<>>, c, K)
    BY <2>8 DEF e
  <2> QED
    BY <2>1, <2>9
<1>7. ASSUME NEW l \in Seq(W), NEW x \in W, l \in S
      PROVE  Append(l, x) \in S
  <2> DEFINE q == Append(l, x)
             r == F(l)
  <2> SUFFICES ASSUME Once(q)
               PROVE  Passed(F(q), st, q, c, K)
    OBVIOUS
  <2>1. Once(l) /\ x \notin ToSet(l)
    BY OnceAppend
  <2>2. Passed(r, st, l, c, K)
    BY <1>7, <2>1
  <2>3. F(q) = Examine(r, x)
    BY Examining!FoldAppend
  <2>4. /\ q \in Seq(W) /\ Len(q) = Len(l) + 1 /\ Len(l) \in Nat
        /\ DOMAIN q = 1 .. Len(l) + 1 /\ DOMAIN l = 1 .. Len(l)
        /\ \A i \in 1 .. Len(l) : q[i] = l[i]
        /\ q[Len(l) + 1] = x
        /\ ToSet(q) = ToSet(l) \cup {x}
    BY AppendIs
  <2> DEFINE p == r.postponedMessages
  <2>5. /\ r \in Reached(c) /\ p \in Seq(ToSet(l)) /\ Once(p)
        /\ Missing(r, c, K \cup (W \ ToSet(l)) \cup Waiting(r))
        /\ Len(p) <= Len(l)
        /\ Len(p) = Len(l) =>
             /\ r = [st EXCEPT !.postponedMessages = l]
             /\ \A i \in DOMAIN l : ~Accepts(st.vectors[l[i].topic], l[i])
        /\ (\A i \in DOMAIN l : ~Accepts(st.vectors[l[i].topic], l[i])) => Len(p) = Len(l)
    BY <2>2 DEF Passed
  <2> HIDE DEF F, S, base, r, q, W
  <2>6. Genuine(x, c) /\ x \in Real(c) /\ x \in Traffic
    BY <1>1, WaitingElements DEF W
  <2>7. /\ r \in ClientState /\ Len(p) \in Nat /\ p \in Seq(ToSet(q)) /\ ToSet(p) \subseteq ToSet(l)
    <3>1. \A i \in 1 .. Len(p) : p[i] \in ToSet(l)
      BY <2>5
    <3>2. ToSet(p) \subseteq ToSet(l)
      BY <2>5, <3>1 DEF ToSet
    <3> QED
      BY <2>4, <2>5, <3>1, <3>2 DEF Reached
  <2> DEFINE Refused(list) == \A i \in DOMAIN list : ~Accepts(st.vectors[list[i].topic], list[i])
  <2>8. Refused(q) => Len(p) = Len(l) /\ r.vectors = st.vectors
                       /\ ~Accepts(r.vectors[x.topic], x)
    <3> SUFFICES ASSUME Refused(q)
                 PROVE  Len(p) = Len(l) /\ r.vectors = st.vectors
                        /\ ~Accepts(r.vectors[x.topic], x)
      OBVIOUS
    <3>1. Refused(l) /\ ~Accepts(st.vectors[x.topic], x)
      BY <2>4
    <3>2. Len(p) = Len(l) /\ r = [st EXCEPT !.postponedMessages = l]
      BY <2>5, <3>1
    <3>3. r.vectors = st.vectors
      BY <1>2, <3>2 DEF ClientState
    <3> QED
      BY <3>1, <3>2, <3>3
  <2>9. CASE Accepts(r.vectors[x.topic], x)
    <3> DEFINE R == K \cup (W \ ToSet(l)) \cup Waiting(r)
               e == Export(r, x)
    <3>1. Examine(r, x) = e
      BY <2>9 DEF Examine
    <3>2. e \in Reached(c)
      BY <2>5, <2>6, <2>9, ExportReaches
    <3>3. e.postponedMessages = p
      <4>1. x \in PublishMessage /\ Full(x.timeStamp) /\ Attached(r)
        BY <2>5, <2>6, TrafficIs DEF Reached, Sound
      <4> QED
        BY <2>9, <4>1, ExportIs
    <3>4. ToSet(l) \subseteq W /\ Waiting(r) \subseteq ToSet(l)
      <4>1. \A i \in DOMAIN l : l[i] \in W
        BY <2>4
      <4> QED
        BY <2>7, <4>1 DEF ToSet, Waiting
    <3>5. x \in R /\ R \subseteq Traffic
      BY <1>1, <2>1, <3>4
    <3>6. Missing(e, c, R \ {x})
      BY <2>5, <2>6, <2>9, <3>5, ExportMissing
    <3>7. R \ {x} = K \cup (W \ ToSet(q)) \cup Waiting(e)
      BY <1>1, <2>1, <2>4, <3>3, <3>4 DEF Waiting
    <3> HIDE DEF e, R
    <3>8. Missing(e, c, K \cup (W \ ToSet(q)) \cup Waiting(e))
      BY <3>6, <3>7
    <3>9. Len(e.postponedMessages) < Len(q)
      BY <2>4, <2>5, <2>7, <3>3
    <3>10. ~Refused(q)
      BY <2>9, <2>8
    <3> QED
      BY <2>3, <2>4, <2>5, <2>7, <3>1, <3>2, <3>3, <3>8, <3>9, <3>10 DEF Passed, W
  <2>10. CASE ~Accepts(r.vectors[x.topic], x)
    <3> DEFINE e == [r EXCEPT !.postponedMessages = Append(@, x)]
    <3>1. Examine(r, x) = e
      BY <2>10 DEF Examine
    <3>2. e \in Reached(c)
      BY <2>5, <2>6, <3>1, ExamineReaches
    <3>3. e.postponedMessages = Append(p, x) /\ e.vectors = r.vectors
      BY <2>7 DEF ClientState
    <3>4. /\ Append(p, x) \in Seq(ToSet(q)) /\ Len(Append(p, x)) = Len(p) + 1
          /\ ToSet(Append(p, x)) = ToSet(p) \cup {x}
      <4>1. x \in ToSet(q)
        BY <2>4
      <4> HIDE DEF p
      <4> QED
        BY <2>7, <4>1, AppendIs
    <3>5. Once(Append(p, x))
      <4>1. x \notin ToSet(p)
        BY <2>1, <2>7
      <4> HIDE DEF p
      <4> QED
        BY <2>4, <2>5, <2>7, <4>1, OnceAppend
    <3> DEFINE R == K \cup (W \ ToSet(l)) \cup Waiting(r)
    <3>6. R = K \cup (W \ ToSet(q)) \cup Waiting(e)
      BY <2>1, <2>4, <3>3, <3>4 DEF Waiting
    <3>7. Missing(e, c, R)
      BY <2>5, <3>3 DEF Missing
    <3>8. ASSUME Len(Append(p, x)) = Len(q)
          PROVE  /\ e = [st EXCEPT !.postponedMessages = q]
                 /\ \A i \in DOMAIN q : ~Accepts(st.vectors[q[i].topic], q[i])
      <4>1. Len(p) = Len(l)
        BY <2>4, <2>7, <3>4, <3>8
      <4>2. r = [st EXCEPT !.postponedMessages = l]
            /\ \A i \in DOMAIN l : ~Accepts(st.vectors[l[i].topic], l[i])
        BY <2>5, <4>1
      <4>3. r.vectors = st.vectors /\ p = l
        BY <1>2, <4>2 DEF ClientState
      <4>4. e = [st EXCEPT !.postponedMessages = q]
        <5>1. e = [r EXCEPT !.postponedMessages = q]
          BY <2>7, <4>3 DEF q, ClientState
        <5> HIDE DEF e
        <5> QED
          BY <1>2, <4>2, <5>1 DEF ClientState
      <4> QED
        BY <2>4, <2>10, <4>2, <4>3, <4>4
    <3> HIDE DEF e, R
    <3>9. Missing(e, c, K \cup (W \ ToSet(q)) \cup Waiting(e))
      BY <3>6, <3>7
    <3>10. Len(e.postponedMessages) <= Len(q)
      BY <2>4, <2>5, <2>7, <3>3, <3>4
    <3>11. Refused(q) => Len(e.postponedMessages) = Len(q)
      BY <2>4, <2>8, <3>3, <3>4
    <3> QED
      BY <2>3, <3>1, <3>2, <3>3, <3>4, <3>5, <3>8, <3>9, <3>10, <3>11 DEF Passed, W
  <2> QED
    BY <2>9, <2>10 DEF q
<1>8. Seq(W) \subseteq S
  <2> HIDE DEF S
  <2> QED
    BY <1>6, <1>7, Examining!SequenceInduction
<1>9. st.postponedMessages \in S
  BY <1>1, <1>8, WaitingElements
<1>10. Passed(F(st.postponedMessages), st, st.postponedMessages, c, K)
  BY <1>1, <1>9
<1> QED
  BY <1>10, PassIsFold

(* What client c may have become of st by exporting.                       *)
LEMMA PassMisses ==
    ASSUME DInv, Stamped, NEW c \in Clients, NEW K \in SUBSET Traffic, NEW st, Misses(st, c, K)
    PROVE  /\ Misses(Pass(st), c, K)
           /\ \/ Pass(st) = st /\ Settled(st)
              \/ /\ ~Settled(st)
                 /\ Len(Pass(st).postponedMessages) < Len(st.postponedMessages)
<1> DEFINE l == st.postponedMessages
           r == Pass(st)
           p == r.postponedMessages
<1>1. /\ st \in ClientState /\ st \in Reached(c) /\ Waiting(st) \subseteq Traffic
      /\ Waiting(st) \cap K = {}
  BY DEF Misses, Reached
<1>2. /\ r \in Reached(c) /\ p \in Seq(ToSet(l)) /\ Once(p)
      /\ Missing(r, c, K \cup (Waiting(st) \ ToSet(l)) \cup Waiting(r))
      /\ Len(p) <= Len(l)
      /\ Len(p) = Len(l) => r = [st EXCEPT !.postponedMessages = l] /\ Settled(st)
      /\ Settled(st) => Len(p) = Len(l)
  BY PassProgress DEF Passed, Settled
<1>3. Len(p) \in Nat /\ Len(l) \in Nat
  BY <1>1, <1>2, StateIs
<1> HIDE DEF r
<1>4. Waiting(r) \subseteq Waiting(st)
  <2>1. \A i \in DOMAIN p : p[i] \in ToSet(l)
    BY <1>2
  <2> QED
    BY <2>1 DEF ToSet, Waiting
<1>5. K \cup (Waiting(st) \ ToSet(l)) \cup Waiting(r) = K \cup Waiting(r)
  BY DEF Waiting
<1>6. Missing(r, c, K \cup Waiting(r))
  BY <1>2, <1>5
<1>7. Misses(r, c, K)
  BY <1>1, <1>2, <1>4, <1>6 DEF Misses
<1>8. [st EXCEPT !.postponedMessages = l] = st
  BY <1>1 DEF ClientState
<1> QED
  BY <1>2, <1>3, <1>7, <1>8 DEF r

(* Passing as often as there were messages leaves none that could be       *)
(* exported.                                                               *)
LEMMA CheckSettles ==
    ASSUME DInv, Stamped, NEW c \in Clients, NEW K \in SUBSET Traffic, NEW st, Misses(st, c, K)
    PROVE  Misses(checkPostponed(st), c, K) /\ Settled(checkPostponed(st))
<1> DEFINE l == st.postponedMessages
           X == Waiting(st)
           F(s) == Passing!Fold(st, s)
           S == {s \in Seq(X) :
                   /\ Misses(F(s), c, K)
                   /\ \/ Settled(F(s))
                      \/ Len(F(s).postponedMessages) + Len(s) <= Len(l)}
<1>1. st \in ClientState /\ l \in Seq(X)
  BY WaitingElements DEF Misses, Reached
<1>2. <<>> \in S
  <2>1. F(<<>>) = st
    BY Passing!FoldEmpty
  <2>2. Len(l) + Len(<<>>) <= Len(l)
    BY <1>1
  <2> QED
    BY <2>1, <2>2
<1>3. ASSUME NEW s \in Seq(X), NEW x \in X, s \in S
      PROVE  Append(s, x) \in S
  <2> DEFINE q == F(s)
             r == F(Append(s, x))
  <2>1. r = Pass(q)
    BY Passing!FoldAppend DEF PassAgain
  <2>2. Misses(q, c, K) /\ (Settled(q) \/ Len(q.postponedMessages) + Len(s) <= Len(l))
    BY <1>3
  <2> HIDE DEF q, r
  <2>3. /\ Misses(r, c, K)
        /\ \/ r = q /\ Settled(q)
           \/ ~Settled(q) /\ Len(r.postponedMessages) < Len(q.postponedMessages)
    BY <2>1, <2>2, PassMisses
  <2>4. /\ Len(r.postponedMessages) \in Nat /\ Len(q.postponedMessages) \in Nat
        /\ Len(s) \in Nat /\ Len(l) \in Nat /\ Append(s, x) \in Seq(X)
        /\ Len(Append(s, x)) = Len(s) + 1
    <3>1. r \in ClientState /\ q \in ClientState
      BY <2>2, <2>3 DEF Misses, Reached
    <3>2. r.postponedMessages \in Seq(PublishMessage) /\ q.postponedMessages \in Seq(PublishMessage)
      BY <3>1, StateIs
    <3> QED
      BY <1>1, <3>2, AppendProperties
  <2>5. Settled(r) \/ Len(r.postponedMessages) + Len(Append(s, x)) <= Len(l)
    <3> DEFINE a == Len(r.postponedMessages)
               b == Len(q.postponedMessages)
               n == Len(s)
               k == Len(l)
    <3>1. /\ a \in Nat /\ b \in Nat /\ n \in Nat /\ k \in Nat
          /\ Len(Append(s, x)) = n + 1
      BY <2>4
    <3>2. Settled(q) \/ b + n <= k
      BY <2>2
    <3>3. \/ r = q /\ Settled(q)
          \/ ~Settled(q) /\ a < b
      BY <2>3
    <3> HIDE DEF a, b, n, k
    <3>4. Settled(r) \/ a + (n + 1) <= k
      BY <3>1, <3>2, <3>3
    <3> QED
      BY <3>1, <3>4 DEF a, k
  <2> QED
    BY <2>3, <2>4, <2>5 DEF r
<1>4. Seq(X) \subseteq S
  <2> HIDE DEF S
  <2> QED
    BY <1>2, <1>3, Passing!SequenceInduction
<1>5. Misses(F(l), c, K) /\ (Settled(F(l)) \/ Len(F(l).postponedMessages) + Len(l) <= Len(l))
  BY <1>1, <1>4
<1> DEFINE r == F(l)
<1>6. Settled(r)
  <2> HIDE DEF r
  <2>1. r \in ClientState
    BY <1>5 DEF Misses, Reached, r
  <2>2. Len(r.postponedMessages) \in Nat /\ DOMAIN r.postponedMessages = 1 .. Len(r.postponedMessages)
    BY <2>1, StateIs
  <2>3. CASE Settled(r)
    BY <2>3
  <2>4. CASE Len(r.postponedMessages) + Len(l) <= Len(l)
    <3> DEFINE a == Len(r.postponedMessages)
               k == Len(l)
    <3>1. a \in Nat /\ k \in Nat
      BY <1>1, <2>2
    <3>3. a + k <= k
      BY <2>4
    <3> HIDE DEF a, k
    <3>2. a = 0
      BY <3>1, <3>3
    <3> QED
      BY <2>2, <3>2 DEF Settled, a
  <2> QED
    BY <1>5, <2>3, <2>4 DEF r
<1> QED
  BY <1>5, <1>6, CheckIsFold

-----------------------------------------------------------------------------
(* A publication arrives, and nothing is left behind.                      *)

LEMMA TrafficOf ==
    ASSUME NEW c \in Clients
    PROVE  InFlight(c) \in SUBSET Traffic
BY DEF Traffic

LEMMA ArrivalSettles ==
    ASSUME AInv, NEW c \in Clients, NEW m \in underWay[c]
    PROVE  LET r == handlePublishMessage(Session(c), m).st
           IN  Misses(r, c, underWay[c] \ {m}) /\ Settled(r)
<1> DEFINE st == client[c]
           K == underWay[c] \ {m}
           r == handlePublishMessage(Session(c), m).st
<1>1. Session(c).st = st /\ \A q : [Session(c) EXCEPT !.st = q].st = q
  BY DEF Session, Begin
<1>2. DInv /\ Stamped /\ st \in Reached(c)
  BY NoStep DEF AInv
<1>3. /\ Missing(st, c, InFlight(c)) /\ Once(st.postponedMessages) /\ Settled(st)
      /\ Waiting(st) \cap underWay[c] = {}
  BY DEF AInv
<1>4. InFlight(c) \in SUBSET Traffic /\ InFlight(c) = underWay[c] \cup Waiting(st)
  BY TrafficOf DEF InFlight
<1>5. K \in SUBSET Traffic /\ Waiting(st) \subseteq Traffic /\ Waiting(st) \cap K = {}
      /\ m \notin Waiting(st) /\ m \in InFlight(c)
  BY <1>3, <1>4
<1>6. Genuine(m, c) /\ m \in PublishMessage /\ Full(m.timeStamp)
  BY <1>2 DEF DInv, Genuine
<1>7. st \in ClientState /\ Attached(st) /\ st.postponedMessages \in Seq(PublishMessage)
  BY <1>2, StateIs DEF Reached, Sound
<1>8. CASE Accepts(st.vectors[m.topic], m)
  <2> DEFINE e == Export(st, m)
  <2>1. r = checkPostponed(e)
    <3>1. handlePublishMessage(Session(c), m) = [Session(c) EXCEPT !.st = checkPostponed(e)]
      BY <1>1, <1>8 DEF handlePublishMessage
    <3> QED
      BY <1>1, <3>1
  <2>2. Missing(e, c, InFlight(c) \ {m})
    BY <1>2, <1>3, <1>4, <1>5, <1>6, <1>8, ExportMissing
  <2>3. e \in Reached(c) /\ e.postponedMessages = st.postponedMessages
    BY <1>2, <1>6, <1>7, <1>8, ExportReaches, ExportIs
  <2> HIDE DEF e, r, K
  <2>4. Waiting(e) = Waiting(st)
    BY <2>3 DEF Waiting
  <2>5. InFlight(c) \ {m} = K \cup Waiting(e)
    BY <1>4, <1>5, <2>4 DEF K
  <2>6. Misses(e, c, K)
    BY <1>3, <1>5, <2>2, <2>3, <2>4, <2>5 DEF Misses
  <2>7. Misses(r, c, K) /\ Settled(r)
    BY <1>2, <1>5, <2>1, <2>6, CheckSettles
  <2> QED
    BY <2>7 DEF r, K
<1>9. CASE ~Accepts(st.vectors[m.topic], m)
  <2> DEFINE list == Append(st.postponedMessages, m)
             e == [st EXCEPT !.postponedMessages = list]
  <2>1. r = e
    <3>1. handlePublishMessage(Session(c), m) = [Session(c) EXCEPT !.st = e]
      BY <1>1, <1>9 DEF handlePublishMessage
    <3> QED
      BY <1>1, <3>1
  <2>2. r \in Reached(c)
    BY <1>2, ArrivalReaches
  <2>3. e.postponedMessages = list /\ e.vectors = st.vectors
    BY <1>7 DEF ClientState
  <2>4. /\ list \in Seq(PublishMessage)
        /\ Len(list) = Len(st.postponedMessages) + 1 /\ Len(st.postponedMessages) \in Nat
        /\ DOMAIN list = 1 .. Len(st.postponedMessages) + 1
        /\ DOMAIN st.postponedMessages = 1 .. Len(st.postponedMessages)
        /\ \A i \in 1 .. Len(st.postponedMessages) : list[i] = st.postponedMessages[i]
        /\ list[Len(st.postponedMessages) + 1] = m
        /\ ToSet(list) = ToSet(st.postponedMessages) \cup {m}
    BY <1>6, <1>7, AppendIs
  <2>5. Once(list)
    BY <1>3, <1>5, <1>6, <1>7, OnceAppend DEF Waiting
  <2> HIDE DEF e, list, r, K
  <2>6. Waiting(r) = Waiting(st) \cup {m}
    BY <2>1, <2>3, <2>4 DEF Waiting
  <2>7. K \cup Waiting(r) = InFlight(c) /\ Waiting(r) \subseteq Traffic /\ Waiting(r) \cap K = {}
    BY <1>4, <1>5, <2>6 DEF K
  <2>8. Missing(r, c, InFlight(c))
    BY <1>3, <2>1, <2>3 DEF Missing
  <2>9. Misses(r, c, K)
    BY <2>1, <2>2, <2>3, <2>5, <2>7, <2>8 DEF Misses
  <2>10. Settled(r)
    <3>1. \A i \in DOMAIN list : ~Accepts(st.vectors[list[i].topic], list[i])
      BY <1>3, <1>9, <2>4, SMTT(30) DEF Settled
    <3> QED
      BY <2>1, <2>3, <3>1 DEF Settled
  <2> QED
    BY <2>9, <2>10 DEF r, K
<1> QED
  BY <1>8, <1>9 DEF r, K

(* What one client misses does not depend on what the others have seen.    *)
LEMMA MissingKept ==
    ASSUME NEW CONSTANT c \in Clients, NEW CONSTANT st, NEW CONSTANT R, Missing(st, c, R),
           \A d \in Clients \ {c}, t \in Topics :
             Value(client'[d].vectors[t], d) = Value(client[d].vectors[t], d),
           Traffic' \subseteq Traffic
    PROVE  Missing(st, c, R)'
<1>1. ASSUME NEW p \in Publication, p.originalSender # c, 2 <= p.number,
             p.number <= Value(client'[p.originalSender].vectors[p.topic], p.originalSender)
      PROVE  \/ p.number <= Value(st.vectors[p.topic], p.originalSender)
             \/ \E m \in R : identity(m) = p
  <2>1. p.originalSender \in Clients \ {c} /\ p.topic \in Topics
    BY <1>1, PublicationIs
  <2>2. p.number <= Value(client[p.originalSender].vectors[p.topic], p.originalSender)
    BY <1>1, <2>1
  <2> QED
    BY <1>1, <2>2 DEF Missing
<1>2. \A m \in Traffic' : Covered(m, st.vectors[m.topic]) => Below(m, st.vectors[m.topic])
  BY DEF Missing
<1>3. \A m \in R : Number(m) > Value(st.vectors[m.topic], m.originalSender)
  BY DEF Missing
<1> QED
  BY <1>1, <1>2, <1>3 DEF Missing

LEMMA ReceivesKeeps ==
    ASSUME AInv, NEW CONSTANT c \in Clients, Receives(c)
    PROVE  AInv'
<1>1. PICK m \in underWay[c] :
        /\ client' = [client EXCEPT ![c] = handlePublishMessage(Session(c), m).st]
        /\ underWay' = [underWay EXCEPT ![c] = @ \ {m}]
  BY DEF Receives
<1>2. PICK r : r = handlePublishMessage(Session(c), m).st
  OBVIOUS
<1>3. PICK K : K = underWay[c] \ {m}
  OBVIOUS
<1>4. Misses(r, c, K) /\ Settled(r)
  BY <1>2, <1>3, ArrivalSettles
<1>5. /\ client' = [client EXCEPT ![c] = r]
      /\ underWay' = [underWay EXCEPT ![c] = K]
  BY <1>1, <1>2, <1>3
<1>6. /\ client \in [Clients -> ClientState] /\ underWay \in [Clients -> SUBSET PublishMessage]
      /\ DInv /\ Stamped
  BY DEF AInv, DInv
<1>7. /\ client'[c] = r /\ underWay'[c] = K
      /\ \A d \in Clients \ {c} : client'[d] = client[d] /\ underWay'[d] = underWay[d]
  BY <1>5, <1>6
<1>8. DInv'
  BY <1>6, ReceivesStep
<1>9. InFlight(c)' = K \cup Waiting(r) /\ \A d \in Clients \ {c} : InFlight(d)' = InFlight(d)
  BY <1>7 DEF InFlight, Waiting
<1>10. K \in SUBSET Traffic /\ Waiting(r) \subseteq Traffic
  BY <1>3, <1>4, TrafficOf DEF Misses, InFlight
<1>11. Traffic' \subseteq Traffic
  <2> SUFFICES ASSUME NEW d \in Clients, NEW x \in InFlight(d)'
               PROVE  x \in Traffic
    BY DEF Traffic
  <2>1. CASE d = c
    BY <1>9, <1>10, <2>1
  <2>2. CASE d # c
    BY <1>9, <2>2, TrafficOf
  <2> QED
    BY <2>1, <2>2
<1>12. \A t \in Topics : Value(r.vectors[t], c) = Value(client[c].vectors[t], c)
  BY <1>4 DEF Misses, Reached, Since
<1>13. \A d \in Clients, t \in Topics :
          Value(client'[d].vectors[t], d) = Value(client[d].vectors[t], d)
  BY <1>7, <1>12
<1>14. Stamped'
  <2>1. ASSUME NEW x \in Traffic', NEW d \in Clients
        PROVE  Value(x.timeStamp, d) <= Value(client'[d].vectors[x.topic], d)
    <3>1. x \in Traffic /\ x.topic \in Topics
      BY <1>6, <1>11, TrafficIs
    <3> QED
      BY <1>6, <1>13, <3>1 DEF Stamped
  <2>2. ASSUME NEW x \in Traffic', NEW y \in Traffic'
        PROVE  /\ identity(y) = identity(x) => y = x
               /\ y # x /\ y.topic = x.topic /\ Covered(y, x.timeStamp)
                   => /\ Below(y, x.timeStamp)
                      /\ Value(y.timeStamp, x.originalSender) < Number(x)
    BY <1>6, <1>11 DEF Stamped
  <2> QED
    BY <2>1, <2>2 DEF Stamped
<1>15. ASSUME NEW CONSTANT d \in Clients
       PROVE  (/\ Missing(client[d], d, InFlight(d))
               /\ Once(client[d].postponedMessages)
               /\ Waiting(client[d]) \cap underWay[d] = {}
               /\ Settled(client[d]))'
  <2>1. CASE d = c
    <3>1. PICK R : R = K \cup Waiting(r)
      OBVIOUS
    <3>2. Missing(r, c, R) /\ Once(r.postponedMessages) /\ Waiting(r) \cap K = {}
      BY <1>4, <3>1 DEF Misses
    <3>3. Missing(r, c, R)'
      BY <1>11, <1>13, <3>2, MissingKept
    <3>4. Missing(client[d], d, InFlight(d))'
      BY <1>7, <1>9, <2>1, <3>1, <3>3 DEF Missing
    <3>5. (Once(client[d].postponedMessages) /\ Settled(client[d])
           /\ Waiting(client[d]) \cap underWay[d] = {})'
      BY <1>4, <1>7, <2>1, <3>2 DEF Once, Settled, Waiting
    <3> QED
      BY <3>4, <3>5
  <2>2. CASE d # c
    <3>1. PICK q : q = client[d]
      OBVIOUS
    <3>2. PICK R : R = InFlight(d)
      OBVIOUS
    <3>3. client'[d] = q /\ InFlight(d)' = R /\ underWay'[d] = underWay[d]
      BY <1>7, <1>9, <2>2, <3>1, <3>2
    <3>4. /\ Missing(q, d, R) /\ Once(q.postponedMessages)
          /\ Waiting(q) \cap underWay[d] = {} /\ Settled(q)
      BY <3>1, <3>2 DEF AInv
    <3>5. Missing(q, d, R)'
      BY <1>11, <1>13, <3>4, MissingKept
    <3>6. Missing(client[d], d, InFlight(d))'
      BY <3>3, <3>5 DEF Missing
    <3>7. (Once(client[d].postponedMessages) /\ Settled(client[d])
           /\ Waiting(client[d]) \cap underWay[d] = {})'
      BY <3>3, <3>4 DEF Once, Settled, Waiting
    <3> QED
      BY <3>6, <3>7
  <2> QED
    BY <2>1, <2>2
<1> QED
  BY <1>8, <1>14, <1>15 DEF AInv

-----------------------------------------------------------------------------
(* A client publishes, and nothing is left behind.                         *)

(* A new publication is ahead of all that is known, and its time stamp is  *)
(* closed under what came before it.                                       *)
LEMMA PublishedAhead ==
    ASSUME AInv, NEW c \in Clients, NEW t \in Topics, NEW m, m = Published(c, t)
    PROVE  /\ m \in PublishMessage /\ Full(m.timeStamp) /\ m.topic = t /\ m.originalSender = c
           /\ identity(m) \in Publication /\ identity(m).topic = t
           /\ identity(m).originalSender = c /\ identity(m).number = Number(m)
           /\ Number(m) = Value(client[c].vectors[t], c) + 1
           /\ \A d \in Clients \ {c} :
                 Value(m.timeStamp, d) = Value(client[c].vectors[t], d)
           /\ \A x \in Traffic : x.topic = t => Value(x.timeStamp, c) < Number(m)
           /\ m \notin Traffic /\ \A x \in Traffic : identity(x) # identity(m)
           /\ \A x \in Traffic :
                 x.topic = t /\ Covered(x, m.timeStamp) => Below(x, m.timeStamp)
<1>1. DInv /\ Stamped /\ Missing(client[c], c, InFlight(c))
  BY DEF AInv
<1>2. /\ m \in PublishMessage /\ Full(m.timeStamp) /\ m.topic = t /\ m.originalSender = c
      /\ \A d \in Clients : Value(m.timeStamp, d) =
           IF d = c THEN Value(client[c].vectors[t], d) + 1 ELSE Value(client[c].vectors[t], d)
  BY <1>1, PublishedIs
<1>3. Number(m) = Value(client[c].vectors[t], c) + 1
  BY <1>2 DEF Number
<1>4. /\ identity(m) \in Publication /\ identity(m).topic = t
      /\ identity(m).originalSender = c /\ identity(m).number = Number(m)
  BY <1>2, IdentityIs DEF Number
<1>5. \A d \in Clients : Value(client[c].vectors[t], d) \in Nat
  BY <1>1, ClockValues
<1>6. ASSUME NEW x \in Traffic, x.topic = t
      PROVE  Value(x.timeStamp, c) < Number(m)
  <2>1. Value(x.timeStamp, c) <= Value(client[c].vectors[t], c) /\ Value(x.timeStamp, c) \in Nat
    BY <1>1, <1>6, TrafficIs DEF Stamped
  <2> QED
    BY <1>3, <1>5, <2>1
<1>7. ASSUME NEW x \in Traffic
      PROVE  identity(x) # identity(m)
  <2> SUFFICES ASSUME identity(x) = identity(m)
               PROVE  FALSE
    OBVIOUS
  <2>1. x.topic = t /\ x.originalSender = c /\ Number(x) = Number(m) /\ Number(x) \in Nat
    BY <1>1, <1>4, TrafficIs
  <2>2. Value(x.timeStamp, c) < Number(m)
    BY <1>6, <2>1
  <2> QED
    BY <2>1, <2>2 DEF Number
<1>8. m \notin Traffic
  BY <1>7
<1>9. ASSUME NEW x \in Traffic, x.topic = t, Number(x) <= Value(m.timeStamp, x.originalSender)
      PROVE  \A d \in Clients : Value(x.timeStamp, d) <= Value(m.timeStamp, d)
  <2>1. /\ x.originalSender \in Clients /\ Number(x) \in Nat
        /\ \A d \in Clients : Value(x.timeStamp, d) \in Nat
    BY <1>1, TrafficIs
  <2>2. Number(x) <= Value(client[c].vectors[t], x.originalSender)
    <3>1. CASE x.originalSender = c
      <4>1. Number(x) < Number(m)
        BY <1>6, <1>9, <3>1 DEF Number
      <4> QED
        BY <1>3, <1>5, <2>1, <3>1, <4>1
    <3>2. CASE x.originalSender # c
      BY <1>2, <1>9, <2>1, <3>2
    <3> QED
      BY <3>1, <3>2
  <2>3. \A d \in Clients : Value(x.timeStamp, d) <= Value(client[c].vectors[t], d)
    BY <1>1, <1>9, <2>2 DEF Missing, Covered, Below
  <2> QED
    BY <1>2, <1>5, <2>1, <2>3
<1> QED
  BY <1>2, <1>3, <1>4, <1>6, <1>7, <1>8, <1>9 DEF Covered, Below

LEMMA PublishesKeeps ==
    ASSUME AInv, NEW CONSTANT c \in Clients, Publishes(c)
    PROVE  AInv'
<1>1. PICK t \in Topics :
        /\ client' = [client EXCEPT ![c] = publish(Session(c), t).st]
        /\ underWay' = [d \in Clients |->
              IF d = c THEN underWay[d]
              ELSE underWay[d] \cup
                     ToSet(publish(Session(c), t).out[publish(Session(c), t).st.out])]
  BY DEF Publishes
<1>2. PICK m : m = Published(c, t)
  OBVIOUS
<1>3. PICK old : old = client[c]
  OBVIOUS
<1>4. PICK r : r = [old EXCEPT !.vectors = [old.vectors EXCEPT ![t] = m.timeStamp],
                               !.seen = Append(@, identity(m))]
  OBVIOUS
<1>5. DInv /\ Stamped /\ client \in [Clients -> ClientState] /\ old \in ClientState
      /\ underWay \in [Clients -> SUBSET PublishMessage]
  BY <1>3 DEF AInv, DInv
<1>6. /\ client' = [client EXCEPT ![c] = r]
      /\ underWay' = [d \in Clients |-> IF d = c THEN underWay[d] ELSE underWay[d] \cup {m}]
  BY <1>1, <1>2, <1>3, <1>4, <1>5, PublishIs
<1>7. /\ m \in PublishMessage /\ Full(m.timeStamp) /\ m.topic = t /\ m.originalSender = c
      /\ identity(m) \in Publication /\ identity(m).topic = t
      /\ identity(m).originalSender = c /\ identity(m).number = Number(m)
      /\ Number(m) = Value(old.vectors[t], c) + 1
      /\ \A d \in Clients \ {c} : Value(m.timeStamp, d) = Value(old.vectors[t], d)
      /\ \A x \in Traffic : x.topic = t => Value(x.timeStamp, c) < Number(m)
      /\ m \notin Traffic /\ \A x \in Traffic : identity(x) # identity(m)
      /\ \A x \in Traffic : x.topic = t /\ Covered(x, m.timeStamp) => Below(x, m.timeStamp)
  BY <1>2, <1>3, PublishedAhead
<1>8. /\ r.postponedMessages = old.postponedMessages
      /\ \A u \in Topics : r.vectors[u] = IF u = t THEN m.timeStamp ELSE old.vectors[u]
  <2>1. old.vectors \in [Topics -> VectorClock]
    BY <1>5, StateIs
  <2> QED
    BY <1>4, <1>5, <2>1 DEF ClientState
<1>9. /\ client'[c] = r /\ underWay'[c] = underWay[c]
      /\ \A d \in Clients \ {c} : client'[d] = client[d] /\ underWay'[d] = underWay[d] \cup {m}
  BY <1>5, <1>6
<1>10. /\ InFlight(c)' = InFlight(c)
       /\ \A d \in Clients \ {c} : InFlight(d)' = InFlight(d) \cup {m}
  BY <1>3, <1>8, <1>9 DEF InFlight, Waiting
<1>11. Traffic' \subseteq Traffic \cup {m}
  BY <1>10 DEF Traffic
<1>12. DInv'
  BY <1>5, PublishesStep
<1>13. /\ \A d, e \in Clients, u \in Topics : Value(client[d].vectors[u], e) \in Nat
       /\ \A d, e \in Clients, u \in Topics :
             Value(client[d].vectors[u], e) <= Value(client[e].vectors[u], e)
  BY <1>5, ClockValues
<1>14. \A d \in Clients : Value(r.vectors[t], d) =
          IF d = c THEN Value(old.vectors[t], c) + 1 ELSE Value(old.vectors[t], d)
  BY <1>7, <1>8 DEF Number
<1>15. \A d \in Clients, u \in Topics : Value(client'[d].vectors[u], d) =
          IF d = c /\ u = t THEN Value(client[d].vectors[u], d) + 1
          ELSE Value(client[d].vectors[u], d)
  <2>1. ASSUME NEW d \in Clients, NEW u \in Topics
        PROVE  Value(client'[d].vectors[u], d) =
          IF d = c /\ u = t THEN Value(client[d].vectors[u], d) + 1
          ELSE Value(client[d].vectors[u], d)
    <3>1. CASE d = c /\ u = t
      BY <1>3, <1>9, <1>14, <3>1
    <3>2. CASE d = c /\ u # t
      BY <1>3, <1>8, <1>9, <3>2
    <3>3. CASE d # c
      BY <1>9, <3>3
    <3> QED
      BY <3>1, <3>2, <3>3
  <2> QED
    BY <2>1
<1>16. \A x \in Traffic :
          /\ x.topic \in Topics /\ x.originalSender \in Clients /\ Number(x) \in Nat
          /\ x \in PublishMessage /\ Full(x.timeStamp)
          /\ \A d \in Clients : Value(x.timeStamp, d) \in Nat
                                /\ Value(x.timeStamp, d) <= Value(client[d].vectors[x.topic], d)
  BY <1>5, TrafficIs DEF Stamped
<1>17. Stamped'
  <2>1. ASSUME NEW x \in Traffic', NEW d \in Clients
        PROVE  Value(x.timeStamp, d) <= Value(client'[d].vectors[x.topic], d)
    <3>1. CASE x \in Traffic
      BY <1>13, <1>15, <1>16, <3>1
    <3>2. CASE x = m /\ d = c
      <4>1. Value(m.timeStamp, c) = Value(client'[c].vectors[t], c)
        BY <1>8, <1>9
      <4>2. Value(client'[c].vectors[t], c) \in Nat
        BY <1>13, <1>15
      <4> QED
        BY <1>7, <3>2, <4>1, <4>2
    <3>3. CASE x = m /\ d # c
      BY <1>3, <1>7, <1>9, <1>13, <3>3
    <3> QED
      BY <1>11, <3>1, <3>2, <3>3
  <2>2. ASSUME NEW x \in Traffic', NEW y \in Traffic', identity(y) = identity(x)
        PROVE  y = x
    <3>1. CASE x \in Traffic /\ y \in Traffic
      BY <1>5, <2>2, <3>1 DEF Stamped
    <3> QED
      BY <1>7, <1>11, <2>2, <3>1
  <2>3. ASSUME NEW x \in Traffic', NEW y \in Traffic', y # x, y.topic = x.topic,
               Covered(y, x.timeStamp)
        PROVE  /\ Below(y, x.timeStamp)
               /\ Value(y.timeStamp, x.originalSender) < Number(x)
    <3>1. CASE x \in Traffic /\ y \in Traffic
      BY <1>5, <2>3, <3>1 DEF Stamped
    <3>2. CASE x = m /\ y \in Traffic
      BY <1>7, <2>3, <3>2
    <3>3. CASE x \in Traffic /\ y = m
      <4>1. Number(m) <= Value(x.timeStamp, c) /\ x.topic = t
        BY <1>7, <2>3, <3>3 DEF Covered
      <4>2. Value(x.timeStamp, c) < Number(m)
        BY <1>7, <3>3, <4>1
      <4>3. Value(x.timeStamp, c) \in Nat /\ Number(m) \in Nat
        BY <1>3, <1>7, <1>13, <1>16, <3>3
      <4> QED
        BY <4>1, <4>2, <4>3
    <3> QED
      BY <1>11, <2>3, <3>1, <3>2, <3>3
  <2> QED
    BY <2>1, <2>2, <2>3 DEF Stamped
<1>18. ASSUME NEW CONSTANT d \in Clients
       PROVE  (/\ Missing(client[d], d, InFlight(d))
               /\ Once(client[d].postponedMessages)
               /\ Waiting(client[d]) \cap underWay[d] = {}
               /\ Settled(client[d]))'
  <2>1. CASE d = c
    <3>1. PICK R : R = InFlight(c)
      OBVIOUS
    <3>2. /\ Missing(old, c, R) /\ Once(old.postponedMessages)
          /\ Waiting(old) \cap underWay[c] = {} /\ Settled(old)
      BY <1>3, <3>1 DEF AInv
    <3>3. \A x \in R : x.originalSender # c
      BY <1>5, <3>1 DEF DInv, Sound, Genuine, InFlight, Waiting, ToSet
    <3>4. R \subseteq Traffic
      BY <3>1, TrafficOf
    <3>5. ASSUME NEW x \in R
          PROVE  Number(x) > Value(r.vectors[x.topic], x.originalSender)
      <4>1. x.topic \in Topics /\ x.originalSender \in Clients /\ x.originalSender # c
        BY <1>16, <3>3, <3>4
      <4>2. Value(r.vectors[x.topic], x.originalSender) = Value(old.vectors[x.topic], x.originalSender)
        BY <1>8, <1>14, <4>1
      <4> QED
        BY <3>2, <4>2 DEF Missing
    <3>6. ASSUME NEW p \in Publication, p.originalSender # c, 2 <= p.number,
                 p.number <= Value(client'[p.originalSender].vectors[p.topic], p.originalSender)
          PROVE  \/ p.number <= Value(r.vectors[p.topic], p.originalSender)
                 \/ \E x \in R : identity(x) = p
      <4>1. p.topic \in Topics /\ p.originalSender \in Clients
        BY PublicationIs
      <4>2. p.number <= Value(client[p.originalSender].vectors[p.topic], p.originalSender)
        BY <1>15, <3>6, <4>1
      <4>3. Value(r.vectors[p.topic], p.originalSender) = Value(old.vectors[p.topic], p.originalSender)
        BY <1>8, <1>14, <3>6, <4>1
      <4> QED
        BY <3>2, <3>6, <4>2, <4>3 DEF Missing
    <3>7. ASSUME NEW x \in Traffic', Covered(x, r.vectors[x.topic])
          PROVE  Below(x, r.vectors[x.topic])
      <4>1. CASE x = m
        <5>1. \A e \in Clients : Value(m.timeStamp, e) \in Nat
          BY <1>7, FullLevels
        <5> QED
          BY <1>7, <1>8, <4>1, <5>1 DEF Below
      <4>2. CASE x \in Traffic /\ x.topic = t
        BY <1>7, <1>8, <3>7, <4>2
      <4>3. CASE x \in Traffic /\ x.topic # t
        BY <1>8, <1>16, <3>2, <3>7, <4>3 DEF Missing
      <4> QED
        BY <1>11, <4>1, <4>2, <4>3
    <3>8. Missing(client[d], d, InFlight(d))'
      BY <1>9, <1>10, <2>1, <3>1, <3>5, <3>6, <3>7 DEF Missing
    <3>9. ASSUME NEW x \in Waiting(old), Accepts(r.vectors[x.topic], x)
          PROVE  FALSE
      <4> DEFINE k == old.vectors[x.topic]
                 q == r.vectors[x.topic]
      <4>1. x \in R /\ x \in Traffic /\ x.originalSender # c
        BY <1>3, <3>1, <3>3, <3>4 DEF InFlight
      <4>2. ~Accepts(k, x)
        BY <3>2 DEF Settled, Waiting, ToSet
      <4>3. /\ x \in PublishMessage /\ Full(x.timeStamp) /\ x.topic \in Topics
            /\ x.originalSender \in Clients
            /\ \A e \in Clients : Value(x.timeStamp, e) \in Nat
                  /\ Value(x.timeStamp, e) <= Value(client[e].vectors[x.topic], e)
        BY <1>16, <4>1
      <4>4. Full(k)
        BY <1>3, <1>5, <4>3, ClockValues
      <4>5. x.topic = t
        BY <1>8, <3>9, <4>2, <4>3
      <4>6. Full(q)
        BY <1>7, <1>8, <4>5
      <4>7. \A e \in Clients : Value(q, e) = IF e = c THEN Value(k, c) + 1 ELSE Value(k, e)
        BY <1>14, <4>5
      <4> HIDE DEF k, q
      <4>8. /\ Number(x) = Value(q, x.originalSender) + 1
            /\ \A e \in Clients \ {x.originalSender} : Value(x.timeStamp, e) <= Value(q, e)
        BY <3>9, <4>3, <4>6, AcceptsExactly DEF q
      <4>9. Value(x.timeStamp, c) <= Value(k, c)
        BY <1>3, <4>3 DEF k
      <4>10. /\ Number(x) = Value(k, x.originalSender) + 1
             /\ \A e \in Clients \ {x.originalSender} : Value(x.timeStamp, e) <= Value(k, e)
        BY <4>1, <4>3, <4>7, <4>8, <4>9
      <4> QED
        BY <4>2, <4>3, <4>4, <4>10, AcceptsExactly
    <3>10. (Once(client[d].postponedMessages) /\ Settled(client[d])
           /\ Waiting(client[d]) \cap underWay[d] = {})'
      <4>1. Settled(r)
        BY <1>8, <3>9 DEF Settled, Waiting, ToSet
      <4> QED
        BY <1>8, <1>9, <2>1, <3>2, <4>1 DEF Once, Settled, Waiting
    <3> QED
      BY <3>8, <3>10
  <2>2. CASE d # c
    <3>1. PICK q : q = client[d]
      OBVIOUS
    <3>2. PICK R : R = InFlight(d)
      OBVIOUS
    <3>3. client'[d] = q /\ InFlight(d)' = R \cup {m} /\ underWay'[d] = underWay[d] \cup {m}
      BY <1>9, <1>10, <2>2, <3>1, <3>2
    <3>4. /\ Missing(q, d, R) /\ Once(q.postponedMessages)
          /\ Waiting(q) \cap underWay[d] = {} /\ Settled(q)
      BY <3>1, <3>2 DEF AInv
    <3>5. Number(m) > Value(q.vectors[t], c) /\ Number(m) \in Nat
      <4>1. Value(q.vectors[t], c) <= Value(old.vectors[t], c)
            /\ Value(q.vectors[t], c) \in Nat /\ Value(old.vectors[t], c) \in Nat
        BY <1>3, <1>13, <3>1
      <4> QED
        BY <1>7, <4>1
    <3>6. ASSUME NEW x \in R \cup {m}
          PROVE  Number(x) > Value(q.vectors[x.topic], x.originalSender)
      BY <1>7, <3>4, <3>5 DEF Missing
    <3>7. ASSUME NEW p \in Publication, p.originalSender # d, 2 <= p.number,
                 p.number <= Value(client'[p.originalSender].vectors[p.topic], p.originalSender)
          PROVE  \/ p.number <= Value(q.vectors[p.topic], p.originalSender)
                 \/ \E x \in R \cup {m} : identity(x) = p
      <4>1. p.topic \in Topics /\ p.originalSender \in Clients /\ p.number \in Nat
        BY PublicationIs
      <4>2. CASE p.number <= Value(client[p.originalSender].vectors[p.topic], p.originalSender)
        BY <3>4, <3>7, <4>2 DEF Missing
      <4>3. CASE ~(p.number <= Value(client[p.originalSender].vectors[p.topic], p.originalSender))
        <5>1. p.topic = t /\ p.originalSender = c /\ p.number = Number(m)
          BY <1>3, <1>7, <1>13, <1>15, <3>7, <4>1, <4>3
        <5>2. p = identity(m)
          BY <1>7, <5>1, PublicationIs
        <5> QED
          BY <5>2
      <4> QED
        BY <4>2, <4>3
    <3>8. ASSUME NEW x \in Traffic', Covered(x, q.vectors[x.topic])
          PROVE  Below(x, q.vectors[x.topic])
      <4>1. CASE x = m
        <5>1. Number(m) <= Value(q.vectors[t], c)
          BY <1>7, <3>8, <4>1 DEF Covered
        <5>2. Value(q.vectors[t], c) \in Nat
          BY <1>13, <3>1
        <5> QED
          BY <3>5, <5>1, <5>2
      <4>2. CASE x \in Traffic
        BY <3>4, <3>8, <4>2 DEF Missing
      <4> QED
        BY <1>11, <4>1, <4>2
    <3>9. Missing(client[d], d, InFlight(d))'
      BY <3>3, <3>6, <3>7, <3>8 DEF Missing
    <3>10. m \notin Waiting(q)
      <4>1. Waiting(q) \subseteq Traffic
        BY <3>1, TrafficOf DEF InFlight
      <4> QED
        BY <1>7, <4>1
    <3>11. (Once(client[d].postponedMessages) /\ Settled(client[d])
           /\ Waiting(client[d]) \cap underWay[d] = {})'
      BY <3>3, <3>4, <3>10 DEF Once, Settled, Waiting
    <3> QED
      BY <3>9, <3>11
  <2> QED
    BY <2>1, <2>2
<1> QED
  BY <1>12, <1>17, <1>18 DEF AInv

-----------------------------------------------------------------------------
(* When nothing is under way any more, nothing waits: of the messages that *)
(* wait, one depends on none of the others and could be exported.          *)

LEMMA Predecessor ==
    ASSUME AInv, NEW c \in Clients, underWay[c] = {}, NEW m \in Waiting(client[c])
    PROVE  \E y \in Waiting(client[c]) :
              /\ y.topic = m.topic /\ Below(y, m.timeStamp)
              /\ Value(y.timeStamp, m.originalSender) < Number(m)
<1> DEFINE W == Waiting(client[c])
           k == client[c].vectors[m.topic]
           s == m.originalSender
           v(d) == Value(k, d)
           w(d) == Value(m.timeStamp, d)
<1>1. DInv /\ Stamped /\ Missing(client[c], c, W) /\ Settled(client[c]) /\ W \subseteq Traffic
  <2>1. InFlight(c) = W
    BY DEF InFlight
  <2> QED
    BY <2>1, TrafficOf DEF AInv
<1>2. /\ m \in PublishMessage /\ Full(m.timeStamp) /\ m.topic \in Topics /\ s \in Clients
      /\ \A d \in Clients : w(d) \in Nat /\ w(d) <= Value(client[d].vectors[m.topic], d)
  BY <1>1, TrafficIs DEF Stamped
<1>3. s # c
  BY <1>1 DEF DInv, Sound, Genuine, Waiting, ToSet
<1>4. Full(k) /\ \A d \in Clients : v(d) \in Nat /\ v(d) >= 1
  BY <1>1, <1>2, ClockValues
<1>5. ~Accepts(k, m)
  BY <1>1 DEF Settled, Waiting, ToSet
<1>6. Number(m) > v(s) /\ Number(m) = w(s)
  BY <1>1 DEF Missing, Number
<1>7. w(c) <= v(c)
  BY <1>2
<1> HIDE DEF v, w, W
<1>8. PICK d \in Clients \ {c} : w(d) > v(d) /\ (d = s => w(d) > v(d) + 1)
  <2>1. \/ Number(m) # v(s) + 1
        \/ \E d \in Clients \ {s} : ~(w(d) <= v(d))
    <3> HIDE DEF k
    <3> QED
      BY <1>2, <1>4, <1>5, AcceptsExactly DEF v, w
  <2>2. CASE Number(m) # v(s) + 1
    <3>1. w(s) > v(s) + 1
      BY <1>2, <1>4, <1>6, <2>2
    <3> QED
      BY <1>2, <1>3, <1>6, <3>1
  <2>3. CASE \E d \in Clients \ {s} : ~(w(d) <= v(d))
    <3>1. PICK d \in Clients \ {s} : ~(w(d) <= v(d))
      BY <2>3
    <3>2. d # c /\ w(d) > v(d)
      BY <1>2, <1>4, <1>7, <3>1
    <3> QED
      BY <3>1, <3>2
  <2> QED
    BY <2>1, <2>2, <2>3
<1> DEFINE p == [topic |-> m.topic, originalSender |-> d, number |-> v(d) + 1]
<1>9. /\ p \in Publication /\ p.originalSender = d /\ p.topic = m.topic /\ p.number = v(d) + 1
      /\ 2 <= p.number /\ p.number <= w(d)
  BY <1>2, <1>4, <1>8 DEF Publication
<1> HIDE DEF p
<1>10. p.number <= Value(client[d].vectors[m.topic], d)
  <2>1. Value(client[d].vectors[m.topic], d) \in Nat
    BY <1>1, <1>2, ClockValues
  <2> QED
    BY <1>2, <1>4, <1>9, <2>1
<1>11. ~(p.number <= v(d))
  BY <1>4, <1>9
<1>12. PICK y \in W : identity(y) = p
  BY <1>1, <1>8, <1>9, <1>10, <1>11 DEF Missing, v
<1>13. y \in Traffic /\ y.topic = m.topic /\ y.originalSender = d /\ Number(y) = v(d) + 1
  BY <1>1, <1>9, <1>12, TrafficIs
<1>14. y # m
  BY <1>4, <1>6, <1>8, <1>13
<1>15. Covered(y, m.timeStamp)
  BY <1>9, <1>13 DEF Covered, w
<1>16. Below(y, m.timeStamp) /\ Value(y.timeStamp, s) < Number(m)
  BY <1>1, <1>13, <1>14, <1>15 DEF Stamped, W
<1> QED
  BY <1>13, <1>16 DEF W

LEMMA NothingWaits ==
    ASSUME AInv, NEW c \in Clients, underWay[c] = {}
    PROVE  Waiting(client[c]) = {}
<1> DEFINE W == Waiting(client[c])
           D(m) == {x \in W : x.topic = m.topic /\ Below(x, m.timeStamp)}
           N == {Cardinality(D(m)) : m \in W}
<1> SUFFICES ASSUME W # {}
             PROVE  FALSE
  OBVIOUS
<1>1. DInv /\ W \subseteq Traffic
  BY TrafficOf DEF AInv, InFlight
<1>2. \A x \in W : Number(x) \in Nat /\ \A d \in Clients : Value(x.timeStamp, d) \in Nat
  BY <1>1, TrafficIs
<1>3. IsFiniteSet(W)
  <2> DEFINE l == client[c].postponedMessages
  <2>1. l \in Seq(PublishMessage)
    BY <1>1, StateIs DEF DInv
  <2>2. IsFiniteSet(1 .. Len(l)) /\ DOMAIN l = 1 .. Len(l) /\ l \in [1 .. Len(l) -> W]
    BY <2>1, FS_Interval DEF Waiting, ToSet
  <2>3. l \in Surjection(1 .. Len(l), W)
    BY <2>2 DEF Surjection, Waiting, ToSet
  <2> HIDE DEF l, W
  <2> QED
    BY <2>2, <2>3, FS_Surjection
<1>4. \A m \in W : IsFiniteSet(D(m)) /\ Cardinality(D(m)) \in Nat
  <2> HIDE DEF W
  <2> QED
    BY <1>3, FS_Subset, FS_CardinalityType
<1>5. PICK m \in W : \A x \in W : Cardinality(D(m)) <= Cardinality(D(x))
  <2>1. N \in SUBSET Nat /\ N # {}
    BY <1>4
  <2>2. \E n \in N : \A i \in N : n <= i
    <3> HIDE DEF N
    <3> QED
      BY <2>1, Merging!LeastNumber
  <2>3. PICK n \in N : \A i \in N : n <= i
    BY <2>2
  <2>4. PICK x \in W : n = Cardinality(D(x))
    BY <2>3
  <2>5. \A y \in W : Cardinality(D(y)) \in N
    OBVIOUS
  <2> HIDE DEF D, N, W
  <2>6. \A y \in W : Cardinality(D(x)) <= Cardinality(D(y))
    BY <2>3, <2>4, <2>5
  <2> QED
    BY <2>6
<1>6. PICK y \in W : /\ y.topic = m.topic /\ Below(y, m.timeStamp)
                     /\ Value(y.timeStamp, m.originalSender) < Number(m)
  BY Predecessor
<1>7. m.originalSender \in Clients
  BY <1>1, TrafficIs
<1> HIDE DEF W
<1>8. m \in D(m) /\ m \notin D(y)
  BY <1>2, <1>6, <1>7 DEF Below, Number
<1>9. D(y) \subseteq D(m)
  BY <1>2, <1>6 DEF Below
<1> HIDE DEF D
<1>10. Cardinality(D(y)) <= Cardinality(D(m)) /\ (Cardinality(D(y)) = Cardinality(D(m)) => D(y) = D(m))
  BY <1>4, <1>9, FS_Subset
<1>11. Cardinality(D(m)) <= Cardinality(D(y))
  BY <1>5
<1>12. Cardinality(D(y)) = Cardinality(D(m))
  BY <1>4, <1>10, <1>11
<1> QED
  BY <1>8, <1>10, <1>12

LEMMA EverythingSeen ==
    ASSUME AInv
    PROVE  AllSeen
<1> SUFFICES ASSUME \A c \in Clients : underWay[c] = {}, NEW c \in Clients, NEW d \in Clients
             PROVE  /\ client[c].postponedMessages = <<>>
                    /\ ToSet(client[c].seen) = ToSet(client[d].seen)
  BY DEF AllSeen
<1>1. DInv
  BY DEF AInv
<1>2. \A e \in Clients : Waiting(client[e]) = {} /\ InFlight(e) = {}
  BY NothingWaits DEF InFlight
<1>3. client[c].postponedMessages = <<>>
  <2> DEFINE l == client[c].postponedMessages
  <2>1. l \in Seq(PublishMessage)
    BY <1>1, StateIs DEF DInv
  <2>2. \A i \in 1 .. Len(l) : FALSE
    <3>1. \A i \in DOMAIN l : l[i] \in Waiting(client[c])
      BY DEF Waiting, ToSet
    <3>2. DOMAIN l = 1 .. Len(l)
      BY <2>1
    <3> HIDE DEF l
    <3> QED
      BY <1>2, <3>1, <3>2
  <2>3. Len(l) = 0
    <3> HIDE DEF l
    <3>1. Len(l) \in Nat
      BY <2>1
    <3>2. Len(l) > 0 => Len(l) \in 1 .. Len(l)
      BY <3>1
    <3> QED
      BY <2>2, <3>1, <3>2
  <2> HIDE DEF l
  <2>4. l = <<>>
    BY <2>1, <2>3, EmptySeq
  <2> QED
    BY <2>4 DEF l
<1>4. ASSUME NEW e \in Clients, NEW t \in Topics, NEW s \in Clients
      PROVE  Value(client[e].vectors[t], s) = Value(client[s].vectors[t], s)
  <2> DEFINE v == Value(client[e].vectors[t], s)
             w == Value(client[s].vectors[t], s)
             p == [topic |-> t, originalSender |-> s, number |-> w]
  <2>1. v \in Nat /\ v >= 1 /\ w \in Nat /\ v <= w
    BY <1>1, ClockValues
  <2> SUFFICES ASSUME v # w
               PROVE  FALSE
    OBVIOUS
  <2>2. e # s /\ 2 <= w
    BY <2>1
  <2>3. p \in Publication /\ p.topic = t /\ p.originalSender = s /\ p.number = w
    BY <2>1 DEF Publication
  <2>4. Missing(client[e], e, {})
    BY <1>2 DEF AInv
  <2>5. \A q \in Publication :
          /\ q.originalSender # e /\ 2 <= q.number
          /\ q.number <= Value(client[q.originalSender].vectors[q.topic], q.originalSender)
          => q.number <= Value(client[e].vectors[q.topic], q.originalSender)
    BY <2>4 DEF Missing
  <2> HIDE DEF p
  <2>6. w <= v
    BY <2>1, <2>2, <2>3, <2>5
  <2> QED
    BY <2>1, <2>6
<1>5. \A e \in Clients : \A p \in Publication : p \in ToSet(client[e].seen) <=>
         2 <= p.number /\ p.number <= Value(client[e].vectors[p.topic], p.originalSender)
  BY <1>1 DEF DInv, Sound, Accurate
<1>6. \A e \in Clients : ToSet(client[e].seen) \subseteq Publication
  <2>1. \A e \in Clients : client[e].seen \in Seq(Publication)
    BY <1>1, StateIs DEF DInv
  <2>2. \A e \in Clients : \A i \in DOMAIN client[e].seen : client[e].seen[i] \in Publication
    BY <2>1
  <2> QED
    BY <2>2 DEF ToSet
<1>7. \A p \in Publication : p \in ToSet(client[c].seen) <=> p \in ToSet(client[d].seen)
  BY <1>4, <1>5, PublicationIs
<1> QED
  BY <1>3, <1>6, <1>7

LEMMA NothingYet ==
    ASSUME DeliveryInit
    PROVE  AInv
<1>1. DInv
  BY DeliveryStart
<1>2. \A c \in Clients : client[c] = Acquainted(c) /\ underWay[c] = {}
  BY DEF DeliveryInit
<1>3. \A c \in Clients :
        /\ client[c].postponedMessages = <<>>
        /\ \A t \in Topics, d \in Clients : Value(client[c].vectors[t], d) = 1
  BY <1>2, AcquaintedIs
<1>4. DOMAIN <<>> = {} /\ ToSet(<<>>) = {}
  BY DEF ToSet
<1>5. \A c \in Clients : Waiting(client[c]) = {} /\ InFlight(c) = {}
  BY <1>2, <1>3, <1>4 DEF Waiting, InFlight
<1>6. Traffic = {}
  BY <1>5 DEF Traffic
<1>7. \A c \in Clients : Missing(client[c], c, {})
  BY <1>3, <1>6, PublicationIs DEF Missing
<1>8. \A c \in Clients : Once(client[c].postponedMessages) /\ Settled(client[c])
  BY <1>3, <1>4 DEF Once, Settled
<1> QED
  BY <1>1, <1>2, <1>5, <1>6, <1>7, <1>8 DEF AInv, Stamped

(* Clients that all know each other and lose nothing on the way are left   *)
(* with nothing postponed and have all seen the same, once everything has  *)
(* arrived, in whichever order (Client::handlePublishMessage and           *)
(* checkPostponed), for any number of clients, topics and publications.    *)
THEOREM NothingIsLeft == DeliverySpec => []AllSeen
<1>1. DeliveryInit => AInv
  BY NothingYet
<1>2. AInv /\ [DeliveryNext]_delivery => AInv'
  <2> SUFFICES ASSUME AInv, [DeliveryNext]_delivery
               PROVE  AInv'
    OBVIOUS
  <2>1. CASE UNCHANGED delivery
    <3>1. client' = client /\ underWay' = underWay
      BY <2>1 DEF delivery
    <3>2. DInv'
      BY <3>1 DEF AInv, DInv, Sound, Attached, Accurate, Genuine
    <3>3. Traffic' = Traffic /\ \A c \in Clients : InFlight(c)' = InFlight(c)
      BY <3>1 DEF Traffic, InFlight
    <3>4. Stamped'
      BY <3>1, <3>3 DEF AInv, Stamped
    <3> QED
      BY <3>1, <3>2, <3>3, <3>4 DEF AInv, Missing
  <2>2. ASSUME NEW c \in Clients, Publishes(c)
        PROVE  AInv'
    BY <2>2, PublishesKeeps
  <2>3. ASSUME NEW c \in Clients, Receives(c)
        PROVE  AInv'
    BY <2>3, ReceivesKeeps
  <2> QED
    BY <2>1, <2>2, <2>3 DEF DeliveryNext
<1>3. AInv => AllSeen
  BY EverythingSeen
<1> QED
  BY <1>1, <1>2, <1>3, PTL DEF DeliverySpec
=============================================================================
