--------------------------- MODULE Fragments_proofs ---------------------------
(***************************************************************************)
(* The invariant of the abstract protocol.                                 *)
(***************************************************************************)
EXTENDS Fragments, TLAPS

-----------------------------------------------------------------------------
(* What the invariant says of a single state.                              *)

LEMMA TypeFacts ==
    ASSUME FragmentsTypeOK, NEW b \in Brokers
    PROVE  /\ round[b] \in Nat /\ awake[b] \in BOOLEAN
           /\ available[b] \in SUBSET Brokers /\ members[b] \in SUBSET Brokers
           /\ linked[b] \in SUBSET Brokers /\ asked[b] \in SUBSET Brokers
           /\ edge[b] \in Brokers \cup {None} /\ chosen[b] \in Brokers \cup {None}
           /\ received[b] \in SUBSET Request
BY DEF FragmentsTypeOK, Set

LEMMA OwnFacts ==
    ASSUME FragmentsTypeOK, Own, NEW b \in Brokers, awake[b]
    PROVE  /\ b \in members[b] /\ members[b] \subseteq available[b]
           /\ linked[b] \subseteq members[b] \ {b}
           /\ Knows(b, b) = members[b] /\ Peers(b, b)
BY TypeFacts DEF Own, Knows, Peers

LEMMA KnownAreAvailable ==
    ASSUME FragmentsTypeOK, Own, NEW b \in Brokers, NEW c \in Brokers, awake[b]
    PROVE  Knows(c, b) \subseteq available[b]
<1>1. CASE Peers(b, c)
  BY <1>1, TypeFacts DEF Own, Knows, Peers
<1>2. CASE ~Peers(b, c)
  BY <1>2, TypeFacts DEF Knows, Peers
<1> QED
  BY <1>1, <1>2

LEMMA PeersSeeTheSame ==
    ASSUME FragmentsTypeOK, Own, NEW b \in Brokers, NEW c \in Brokers, Peers(b, c)
    PROVE  /\ available[b] = available[c] /\ Peers(c, b)
           /\ Knows(b, c) = members[b] /\ Knows(c, b) = members[c]
           /\ \A d \in Brokers : /\ Knows(d, b) = Knows(d, c)
                                 /\ Peers(d, b) <=> Peers(d, c)
                                 /\ Peers(b, d) <=> Peers(c, d)
BY TypeFacts DEF Own, Knows, Peers

(* Of what brokers know in a round, all is nested.                         *)
LEMMA NestedKnowledge ==
    ASSUME FragmentsTypeOK, Own, Nested, NEW b \in Brokers, NEW c \in Brokers,
           NEW d \in Brokers, awake[b], Knows(c, b) \cap Knows(d, b) # {}
    PROVE  Knows(c, b) \subseteq Knows(d, b) \/ Knows(d, b) \subseteq Knows(c, b)
<1>1. CASE Peers(b, c) /\ Peers(b, d)
  <2>1. Peers(c, d) /\ Knows(c, b) = members[c] /\ Knows(d, b) = members[d]
    BY <1>1, PeersSeeTheSame
  <2> QED
    BY <2>1 DEF Nested
<1>2. CASE ~Peers(b, c)
  <2>1. Knows(c, b) = available[b]
    BY <1>2, TypeFacts DEF Knows, Peers
  <2> QED
    BY <2>1, KnownAreAvailable
<1>3. CASE ~Peers(b, d)
  <2>1. Knows(d, b) = available[b]
    BY <1>3, TypeFacts DEF Knows, Peers
  <2> QED
    BY <2>1, KnownAreAvailable
<1> QED
  BY <1>1, <1>2, <1>3

(* A broker whose fragment has been merged has told all its members.       *)
LEMMA ToldBefore ==
    ASSUME FragmentsTypeOK, Own, Waits, NEW b \in Brokers, NEW c \in Brokers,
           awake[b], c \in available[b], members[b] \subseteq Knows(c, b),
           Knows(c, b) # members[b], NEW d \in members[b]
    PROVE  members[b] \subseteq Knows(d, b)
BY DEF Waits, Surpassed

LEMMA HalfIsPending ==
    ASSUME FragmentsInv, NEW m \in sent, NEW x \in Brokers, NEW y \in Brokers,
           HalfBy(m, x, y)
    PROVE  Pending(y, x) /\ Surpassed(y)
<1> USE DEF FragmentsInv
<1>1. m.from = x /\ m.to = y /\ Peers(x, y) /\ members[x] = members[y] \cup m.members
      /\ x \in m.members /\ m.members \cap members[y] = {}
  BY DEF HalfBy
<1>2. awake[x] /\ awake[y] /\ y \in members[y] /\ y \in members[x] /\ x \in available[y]
  BY <1>1, OwnFacts, PeersSeeTheSame DEF Peers
<1>3. ~Open(m)
  BY <1>1, <1>2 DEF Open, Pending
<1>4. Pending(y, x)
  BY <1>1, <1>3 DEF SentOK
<1>5. Knows(x, y) = members[x]
  BY <1>1, PeersSeeTheSame
<1> QED
  BY <1>1, <1>2, <1>4, <1>5 DEF Surpassed

LEMMA PendingIsFull ==
    ASSUME FragmentsInv, NEW x \in Brokers, NEW y \in Brokers, Pending(x, y)
    PROVE  /\ awake[x] /\ y \in asked[x] /\ y \notin members[x] /\ x \in members[x]
           /\ Full(x)
BY OwnFacts DEF FragmentsInv, PendingOK, Pending

-----------------------------------------------------------------------------
(* An update arrives.                                                      *)

(* Before: its receiver b and all others on its side of the link know K,   *)
(* the sender and those beyond it more.                                    *)
LEMMA BeforeLearn ==
    ASSUME FragmentsInv, NEW u \in updates, NEW b \in Brokers, NEW s \in Brokers,
           NEW K, NEW M,
           u.to = b, u.from = s, K = members[b], M = u.members
    PROVE  /\ awake[b] /\ b \in K /\ s \in K /\ s # b /\ s \in linked[b]
           /\ M = Knows(s, b) /\ K \subseteq M /\ K # M /\ M \subseteq available[b]
           /\ K \subseteq Brokers /\ s \in available[b]
           /\ \A d \in K : K \subseteq Knows(d, b)
           /\ \A c \in Brokers : ~(M \subseteq Knows(c, b) /\ M # Knows(c, b))
           /\ \A d \in Brokers : Full(d) => b \notin members[d]
           /\ \A d \in Brokers : ~Pending(b, d)
           /\ \A d \in Brokers, m \in sent : ~HalfBy(m, b, d) /\ ~HalfBy(m, d, b)
<1> USE DEF FragmentsInv
<1>1. /\ awake[b] /\ b \in K /\ s \in K /\ s # b /\ s \in linked[b]
      /\ M = Knows(s, b) /\ K \subseteq M /\ K # M /\ M \subseteq available[b]
      /\ K \subseteq Brokers /\ s \in available[b]
  <2>1. awake[b] /\ s \in linked[b] /\ M = Knows(s, b) /\ K \subseteq M /\ K # M
        /\ M \subseteq available[b]
    BY DEF UpdatesOK
  <2> QED
    BY <2>1, OwnFacts, TypeFacts
<1>2. \A d \in K : K \subseteq Knows(d, b)
  BY <1>1, ToldBefore
<1>3. ASSUME NEW c \in Brokers, M \subseteq Knows(c, b), M # Knows(c, b)
      PROVE  FALSE
  <2>1. Knows(c, b) \subseteq available[b]
    BY <1>1, KnownAreAvailable
  <2> M # available[b] /\ M # {}
    BY <1>1, <1>3, <2>1
  <2>2. Peers(b, s) /\ M = members[s]
    BY <1>1 DEF Knows, Peers
  <2>3. Knows(c, s) = Knows(c, b) /\ Knows(b, s) = K /\ awake[s]
        /\ available[s] = available[b]
    BY <2>2, PeersSeeTheSame DEF Peers
  <2>4. c \in available[s]
    <3>1. CASE Peers(b, c)
      BY <2>3, <3>1, PeersSeeTheSame, OwnFacts DEF Peers
    <3>2. CASE ~Peers(b, c)
      BY <1>1, <1>3, <2>3, <3>2 DEF Knows, Peers
    <3> QED
      BY <3>1, <3>2
  <2>5. M \subseteq Knows(b, s)
    BY <1>1, <1>3, <2>2, <2>3, <2>4, ToldBefore
  <2> QED
    BY <1>1, <2>3, <2>5
<1>4. ASSUME NEW d \in Brokers, Full(d), b \in members[d]
      PROVE  FALSE
  <2>1. Peers(d, b) /\ members[d] = K
    BY <1>4 DEF Full
  <2>2. Peers(d, s) /\ members[s] = K
    BY <1>1, <1>4, <2>1 DEF Full
  <2> QED
    BY <1>1, <2>1, <2>2, PeersSeeTheSame
<1>5. ASSUME NEW d \in Brokers, Pending(b, d)
      PROVE  FALSE
  BY <1>1, <1>4, <1>5, PendingIsFull
<1>6. ASSUME NEW d \in Brokers, NEW m \in sent, HalfBy(m, b, d)
      PROVE  FALSE
  <2>1. Peers(b, d) /\ K = members[d] \cup m.members /\ b \in m.members
        /\ m.members \cap members[d] = {} /\ d \in members[d]
    BY <1>6, OwnFacts DEF HalfBy, Peers
  <2>2. d \in K /\ Knows(d, b) = members[d]
    BY <2>1, PeersSeeTheSame
  <2> QED
    BY <1>2, <2>1, <2>2
<1> QED
  BY <1>1, <1>2, <1>3, <1>4, <1>5, <1>6, HalfIsPending

(* The step: b knows M, and what others see changes little.                *)
LEMMA LearnStep ==
    ASSUME FragmentsInv, NEW u \in updates, NEW b \in Brokers, NEW s \in Brokers,
           NEW K, NEW M,
           u.to = b, u.from = s, K = members[b], M = u.members, Learn(u)
    PROVE  /\ FragmentsTypeOK'
           /\ members'[b] = M /\ \A d \in Brokers : d # b => members'[d] = members[d]
           /\ edge'[b] \in Reports(b, M, available[b])
           /\ \A d \in Brokers : d # b => edge'[d] = edge[d]
           /\ UNCHANGED <<delay, round, awake, available, linked, chosen, asked, sent,
                          received>>
           /\ updates' = (updates \ {u})
                \cup {[from |-> b, to |-> d, members |-> M] : d \in linked[b] \ {s}}
           /\ \A c, d \in Brokers : Peers(c, d)' <=> Peers(c, d)
           /\ \A c, d \in Brokers : c # b => Knows(c, d)' = Knows(c, d)
           /\ \A d \in Brokers : Peers(b, d) => Knows(b, d) = K /\ Knows(b, d)' = M
           /\ \A d \in Brokers : ~Peers(b, d) /\ awake[d] => Knows(b, d)' = Knows(b, d)
           /\ ~Surpassed(b)'
           /\ \A d \in Brokers : d # b /\ awake[d] => Surpassed(d)' = Surpassed(d)
<1> USE DEF FragmentsInv
<1>1. /\ awake[b] /\ b \in K /\ s \in K /\ s # b /\ s \in linked[b]
      /\ M = Knows(s, b) /\ K \subseteq M /\ K # M /\ M \subseteq available[b]
      /\ K \subseteq Brokers /\ s \in available[b]
      /\ \A c \in Brokers : ~(M \subseteq Knows(c, b) /\ M # Knows(c, b))
  BY BeforeLearn
<1>2. K \cup M = M
  BY <1>1
<1>3. members' = [members EXCEPT ![b] = M]
  BY <1>2 DEF Learn
<1>4. /\ members'[b] = M /\ \A d \in Brokers : d # b => members'[d] = members[d]
  BY <1>3, TypeFacts DEF FragmentsTypeOK, Set
<1>5. PICK r \in Reports(b, M, available[b]) : edge' = [edge EXCEPT ![b] = r]
  BY <1>2 DEF Learn
<1>6. Reports(b, M, available[b]) \subseteq Brokers \cup {None}
  BY TypeFacts DEF Reports
<1>7. edge'[b] = r /\ (\A d \in Brokers : d # b => edge'[d] = edge[d])
      /\ edge' \in [Brokers -> Brokers \cup {None}]
  BY <1>5, <1>6 DEF FragmentsTypeOK
<1>8. UNCHANGED <<delay, round, awake, available, linked, chosen, asked, sent, received>>
  BY DEF Learn
<1>9. updates' = (updates \ {u})
                \cup {[from |-> b, to |-> d, members |-> M] : d \in linked[b] \ {s}}
  BY DEF Learn
<1>10. FragmentsTypeOK'
  <2>1. members' \in Set
    BY <1>1, <1>3, TypeFacts DEF FragmentsTypeOK, Set
  <2>2. updates' \subseteq Update
    BY <1>1, <1>9, TypeFacts DEF FragmentsTypeOK, Update
  <2> QED
    BY <1>7, <1>8, <2>1, <2>2 DEF FragmentsTypeOK
<1>11. \A c, d \in Brokers : Peers(c, d)' <=> Peers(c, d)
  BY <1>8 DEF Peers
<1>12. \A c, d \in Brokers : c # b => Knows(c, d)' = Knows(c, d)
  BY <1>4, <1>8 DEF Knows
<1>13. \A d \in Brokers : Peers(b, d) => Knows(b, d) = K /\ Knows(b, d)' = M
  BY <1>4, <1>8 DEF Knows, Peers
<1>14. \A d \in Brokers : ~Peers(b, d) /\ awake[d] => Knows(b, d)' = Knows(b, d)
  BY <1>4, <1>8 DEF Knows, Peers
<1>15. ~Surpassed(b)'
  <2> SUFFICES ASSUME NEW c \in available[b], M \subseteq Knows(c, b)', Knows(c, b)' # M
               PROVE  FALSE
    BY <1>4, <1>8 DEF Surpassed
  <2>1. c \in Brokers
    BY TypeFacts
  <2>2. CASE c = b
    BY <1>1, <1>13, <2>2, OwnFacts
  <2>3. CASE c # b
    BY <1>1, <1>12, <2>1, <2>3
  <2> QED
    BY <2>2, <2>3
<1>16. ASSUME NEW d \in Brokers, d # b, awake[d]
       PROVE  Surpassed(d)' = Surpassed(d)
  <2>1. ASSUME Surpassed(d)
        PROVE  Surpassed(d)'
    <3>1. PICK c \in available[d] : members[d] \subseteq Knows(c, d) /\ Knows(c, d) # members[d]
      BY <2>1 DEF Surpassed
    <3>2. c \in Brokers
      BY TypeFacts
    <3>3. members[d] \subseteq Knows(c, d)' /\ Knows(c, d)' # members[d]
      <4>1. CASE c # b
        BY <1>12, <3>1, <3>2, <4>1
      <4>2. CASE c = b /\ ~Peers(b, d)
        BY <1>14, <1>16, <3>1, <4>2
      <4>3. CASE c = b /\ Peers(b, d)
        <5>1. members[d] \subseteq K /\ K # members[d] /\ Knows(c, d)' = M
          BY <1>13, <3>1, <4>3
        <5> QED
          BY <1>1, <5>1
      <4> QED
        BY <4>1, <4>2, <4>3
    <3> QED
      BY <1>4, <1>8, <1>16, <3>1, <3>3 DEF Surpassed
  <2>2. ASSUME Surpassed(d)'
        PROVE  Surpassed(d)
    <3>1. PICK c \in available[d] : members[d] \subseteq Knows(c, d)' /\ Knows(c, d)' # members[d]
      BY <1>4, <1>8, <1>16, <2>2 DEF Surpassed
    <3>2. c \in Brokers
      BY TypeFacts
    <3>3. CASE ~(c = b /\ Peers(b, d))
      BY <1>12, <1>14, <1>16, <3>1, <3>2, <3>3 DEF Surpassed
    <3>4. CASE c = b /\ Peers(b, d)
      <4>1. Knows(s, d) = M /\ s \in available[d]
        BY <1>1, <3>4, PeersSeeTheSame
      <4> QED
        BY <1>13, <3>1, <3>4, <4>1 DEF Surpassed
    <3> QED
      BY <3>3, <3>4
  <2>3. Surpassed(d)' \in BOOLEAN /\ Surpassed(d) \in BOOLEAN
    BY DEF Surpassed
  <2> QED
    BY <2>1, <2>2, <2>3
<1> QED
  BY <1>4, <1>5, <1>7, <1>8, <1>9, <1>10, <1>11, <1>12, <1>13, <1>14, <1>15, <1>16

LEMMA LearnKnowledge ==
    ASSUME FragmentsInv, NEW u \in updates, Learn(u)
    PROVE  Own' /\ Nested' /\ Waits'
<1> USE DEF FragmentsInv
<1> DEFINE b == u.to  s == u.from  K == members[b]  M == u.members
<1>0. b \in Brokers /\ s \in Brokers
  BY DEF FragmentsTypeOK, Update
<1>1. /\ awake[b] /\ b \in K /\ s \in K /\ s # b /\ s \in linked[b]
      /\ M = Knows(s, b) /\ K \subseteq M /\ K # M /\ M \subseteq available[b]
      /\ K \subseteq Brokers /\ s \in available[b]
  BY <1>0, BeforeLearn
<1>2. /\ members'[b] = M /\ \A d \in Brokers : d # b => members'[d] = members[d]
      /\ UNCHANGED <<round, awake, available, linked>>
      /\ \A c, d \in Brokers : Peers(c, d)' <=> Peers(c, d)
      /\ \A c, d \in Brokers : c # b => Knows(c, d)' = Knows(c, d)
      /\ \A d \in Brokers : Peers(b, d) => Knows(b, d) = K /\ Knows(b, d)' = M
      /\ \A d \in Brokers : ~Peers(b, d) /\ awake[d] => Knows(b, d)' = Knows(b, d)
      /\ ~Surpassed(b)'
      /\ \A d \in Brokers : d # b /\ awake[d] => Surpassed(d)' = Surpassed(d)
  BY <1>0, LearnStep
<1> HIDE DEF b, s, K, M
<1>3. Own'
  <2> SUFFICES ASSUME NEW x \in Brokers, awake[x]
               PROVE  /\ x \in members'[x] /\ members'[x] \subseteq available[x]
                      /\ linked[x] \subseteq members'[x] \ {x}
                      /\ \A c \in available[x] : \A d \in Knows(c, x)' : round[d] >= round[x]
                      /\ \A c \in Brokers : Peers(x, c) => available[c] = available[x]
    BY <1>2 DEF Own
  <2>1. /\ x \in members'[x] /\ members'[x] \subseteq available[x]
        /\ linked[x] \subseteq members'[x] \ {x}
    <3>1. CASE x = b
      BY <1>0, <1>1, <1>2, <3>1, OwnFacts DEF K
    <3>2. CASE x # b
      BY <1>2, <3>2, OwnFacts
    <3> QED
      BY <3>1, <3>2
  <2>2. ASSUME NEW c \in available[x], NEW d \in Knows(c, x)'
        PROVE  round[d] >= round[x]
    <3>0. c \in Brokers
      BY TypeFacts
    <3>1. CASE c = b /\ Peers(b, x)
      <4>1. s \in available[x] /\ d \in Knows(s, x)
        BY <1>0, <1>1, <1>2, <2>2, <3>1, PeersSeeTheSame
      <4> QED
        BY <1>0, <4>1 DEF Own
    <3>2. CASE ~(c = b /\ Peers(b, x))
      <4>1. d \in Knows(c, x)
        BY <1>0, <1>2, <2>2, <3>0, <3>2
      <4> QED
        BY <4>1 DEF Own
    <3> QED
      BY <3>1, <3>2
  <2> QED
    BY <2>1, <2>2 DEF Own
<1>4. Nested'
  <2> SUFFICES ASSUME NEW x \in Brokers, NEW y \in Brokers, Peers(x, y),
                      members'[x] \cap members'[y] # {}
               PROVE  members'[x] \subseteq members'[y] \/ members'[y] \subseteq members'[x]
    BY <1>2 DEF Nested
  <2>1. ASSUME NEW z \in Brokers, z # b, Peers(z, b), M \cap members[z] # {}
        PROVE  M \subseteq members[z] \/ members[z] \subseteq M
    <3>1. Knows(z, b) = members[z] /\ Knows(s, b) = M
      BY <1>0, <1>1, <2>1, PeersSeeTheSame
    <3> QED
      BY <1>0, <1>1, <2>1, <3>1, NestedKnowledge
  <2>2. CASE x # b /\ y # b
    BY <1>2, <2>2 DEF Nested
  <2>3. CASE x = b /\ y = b
    BY <2>3
  <2>4. CASE x = b /\ y # b
    BY <1>2, <2>1, <2>4, PeersSeeTheSame
  <2>5. CASE x # b /\ y = b
    BY <1>2, <2>1, <2>5, PeersSeeTheSame
  <2> QED
    BY <2>2, <2>3, <2>4, <2>5
<1>5. Waits'
  <2> SUFFICES ASSUME NEW x \in Brokers, awake[x], Surpassed(x)', NEW c \in members'[x]
               PROVE  members'[x] \subseteq Knows(c, x)'
    BY <1>2 DEF Waits
  <2>1. x # b /\ Surpassed(x) /\ members'[x] = members[x]
    BY <1>2
  <2>2. members[x] \subseteq Knows(c, x) /\ c \in Brokers
    BY <2>1, TypeFacts DEF Waits
  <2> QED
    BY <1>0, <1>1, <1>2, <2>1, <2>2
<1> QED
  BY <1>3, <1>4, <1>5

LEMMA LearnEdges ==
    ASSUME FragmentsInv, NEW u \in updates, Learn(u)
    PROVE  EdgeOK' /\ ChosenOK' /\ PendingOK'
<1> USE DEF FragmentsInv
<1> DEFINE b == u.to  s == u.from  K == members[b]  M == u.members
<1>0. b \in Brokers /\ s \in Brokers
  BY DEF FragmentsTypeOK, Update
<1>1. /\ awake[b] /\ b \in K /\ s \in K /\ K \subseteq M /\ K # M
      /\ M = Knows(s, b) /\ s \in available[b]
      /\ \A d \in Brokers : Full(d) => b \notin members[d]
      /\ \A d \in Brokers, m \in sent : ~HalfBy(m, b, d) /\ ~HalfBy(m, d, b)
  BY <1>0, BeforeLearn
<1>2. /\ members'[b] = M /\ \A d \in Brokers : d # b => members'[d] = members[d]
      /\ edge'[b] \in Reports(b, M, available[b])
      /\ \A d \in Brokers : d # b => edge'[d] = edge[d]
      /\ UNCHANGED <<delay, round, awake, available, linked, chosen, asked, sent, received>>
      /\ \A c, d \in Brokers : Peers(c, d)' <=> Peers(c, d)
      /\ \A d \in Brokers : Peers(b, d) => Knows(b, d) = K /\ Knows(b, d)' = M
      /\ ~Surpassed(b)'
      /\ \A d \in Brokers : d # b /\ awake[d] => Surpassed(d)' = Surpassed(d)
  BY <1>0, LearnStep
<1> HIDE DEF b, s, K, M
<1>3. EdgeOK'
  <2> SUFFICES ASSUME NEW x \in Brokers, edge'[x] # None
               PROVE  /\ awake[x] /\ ~Surpassed(x)'
                      /\ edge'[x] \in available[x] \ members'[x]
                      /\ \A c \in available[x] \ members'[x] :
                            delay[x][edge'[x]] <= delay[x][c]
    BY <1>2 DEF EdgeOK
  <2>1. CASE x = b
    BY <1>1, <1>2, <2>1 DEF Reports
  <2>2. CASE x # b
    BY <1>2, <2>2 DEF EdgeOK
  <2> QED
    BY <2>1, <2>2
<1>4. ASSUME NEW d \in Brokers, Full(d), awake[d]
      PROVE  /\ d # b /\ b \notin members[d] /\ members'[d] = members[d] /\ Full(d)'
             /\ Surpassed(d)' = Surpassed(d)
             /\ Idle(d) => Idle(d)'
             /\ \A c \in Brokers : Shortest(d, c) => Shortest(d, c)'
             /\ \A c \in members[d] : edge'[c] = edge[c] /\ c \in Brokers
                                      /\ members'[c] = members[c]
  <2>1. d # b /\ b \notin members[d] /\ members'[d] = members[d]
    BY <1>1, <1>2, <1>4, OwnFacts
  <2>2. \A c \in members[d] : edge'[c] = edge[c] /\ c \in Brokers /\ members'[c] = members[c]
    BY <1>2, <2>1, TypeFacts
  <2>3. Full(d)'
    BY <1>2, <1>4, <2>1, <2>2 DEF Full
  <2>4. \A c \in Brokers : Shortest(d, c) => Shortest(d, c)'
    BY <1>2, <2>1 DEF Shortest
  <2>5. Idle(d) => Idle(d)'
    BY <2>1, <2>2 DEF Idle
  <2> QED
    BY <1>2, <1>4, <2>1, <2>2, <2>3, <2>4, <2>5
<1>5. ChosenOK'
  <2> SUFFICES ASSUME NEW x \in Brokers, chosen[x] # None
               PROVE  /\ awake[x] /\ ~Surpassed(x)' /\ Full(x)' /\ Idle(x)'
                      /\ Shortest(x, chosen[x])'
                      /\ \A c \in members'[x] : chosen[c] # None => c = x
    BY <1>2 DEF ChosenOK
  <2>1. /\ awake[x] /\ ~Surpassed(x) /\ Full(x) /\ Idle(x) /\ Shortest(x, chosen[x])
        /\ \A c \in members[x] : chosen[c] # None => c = x
    BY DEF ChosenOK
  <2>2. chosen[x] \in Brokers /\ chosen'[x] = chosen[x]
    BY <1>2, <2>1, TypeFacts DEF Shortest
  <2> QED
    BY <1>2, <1>4, <2>1, <2>2 DEF Shortest
<1>6. \A x, y \in Brokers : Pending(x, y)' => Pending(x, y)
  BY <1>1, <1>2 DEF Pending, K
<1>7. ASSUME NEW x \in Brokers, NEW y \in Brokers, Pending(x, y)
      PROVE  Half(y, x) => Half(y, x)'
  <2> SUFFICES ASSUME NEW m \in sent, HalfBy(m, y, x)
               PROVE  HalfBy(m, y, x)'
    BY <1>2 DEF Half
  <2>1. Full(x) /\ x # b /\ members'[x] = members[x]
    BY <1>4, <1>7, PendingIsFull
  <2>2. y # b
    BY <1>1, <1>7
  <2> QED
    BY <1>2, <2>1, <2>2 DEF HalfBy
<1>8. PendingOK'
  <2> SUFFICES ASSUME NEW x \in Brokers, NEW y \in Brokers, Pending(x, y)'
               PROVE  /\ Full(x)' /\ Idle(x)'
                      /\ \A d \in members'[x] : chosen[d] = None
                      /\ \A d \in members'[x], z \in Brokers : Pending(d, z)' => d = x /\ z = y
                      /\ Shortest(x, y)'
                      /\ ~Surpassed(x)' \/ Half(y, x)'
                      /\ \/ request(x, y)' \in sent \/ request(x, y)' \in received[y]
                         \/ Half(y, x)'
    BY <1>2 DEF PendingOK
  <2>1. Pending(x, y)
    BY <1>6
  <2>2. /\ Full(x) /\ Idle(x) /\ awake[x]
        /\ \A d \in members[x] : chosen[d] = None
        /\ \A d \in members[x], z \in Brokers : Pending(d, z) => d = x /\ z = y
        /\ Shortest(x, y)
        /\ ~Surpassed(x) \/ Half(y, x)
        /\ \/ request(x, y) \in sent \/ request(x, y) \in received[y]
           \/ Half(y, x)
    BY <2>1 DEF PendingOK, Pending
  <2>3. request(x, y)' = request(x, y)
    BY <1>2, <1>4, <2>2 DEF request
  <2>4. \A d \in members'[x], z \in Brokers : Pending(d, z)' => d = x /\ z = y
    BY <1>4, <1>6, <2>2
  <2>5. Half(y, x) => Half(y, x)'
    BY <1>7, <2>1
  <2>6. Full(x)' /\ Idle(x)' /\ Shortest(x, y)' /\ members'[x] = members[x]
        /\ Surpassed(x)' = Surpassed(x)
    BY <1>4, <2>2
  <2> QED
    BY <1>2, <2>2, <2>3, <2>4, <2>5, <2>6
<1> QED
  BY <1>3, <1>5, <1>8

LEMMA LearnRequests ==
    ASSUME FragmentsInv, NEW u \in updates, Learn(u)
    PROVE  SentOK' /\ ReceivedOK'
<1> USE DEF FragmentsInv
<1> DEFINE b == u.to  s == u.from  K == members[b]  M == u.members
<1>0. b \in Brokers /\ s \in Brokers
  BY DEF FragmentsTypeOK, Update
<1>1. /\ awake[b] /\ b \in K /\ s \in K /\ K \subseteq M /\ K # M
      /\ M = Knows(s, b) /\ s \in available[b]
      /\ \A d \in Brokers : Full(d) => b \notin members[d]
      /\ \A d \in Brokers : ~Pending(b, d)
      /\ \A d \in Brokers, m \in sent : ~HalfBy(m, b, d) /\ ~HalfBy(m, d, b)
  BY <1>0, BeforeLearn
<1>2. /\ members'[b] = M /\ \A d \in Brokers : d # b => members'[d] = members[d]
      /\ UNCHANGED <<delay, round, awake, available, linked, chosen, asked, sent, received>>
      /\ \A c, d \in Brokers : Peers(c, d)' <=> Peers(c, d)
  BY <1>0, LearnStep
<1>3. K = members[b]
  OBVIOUS
<1> HIDE DEF b, s, K, M
<1>4. ASSUME NEW x \in Brokers, NEW y \in Brokers, Pending(x, y)
      PROVE  x # b /\ b \notin members[x] /\ Pending(x, y)' /\ request(x, y)' = request(x, y)
  <2>1. x # b /\ b \notin members[x]
    BY <1>1, <1>4, PendingIsFull
  <2> QED
    BY <1>2, <1>4, <2>1 DEF Pending, request
<1>5. SentOK'
  <2> SUFFICES ASSUME NEW m \in sent
               PROVE  /\ m.from # m.to
                      /\ \/ Open(m)'
                         \/ HalfBy(m, m.from, m.to)' /\ Pending(m.to, m.from)'
                      /\ \A k \in sent : k.from = m.from /\ k.to = m.to => k = m
    BY <1>2 DEF SentOK
  <2> DEFINE x == m.from  y == m.to
  <2>0. x \in Brokers /\ y \in Brokers
    BY DEF FragmentsTypeOK, Request
  <2>1. CASE Open(m)
    <3>1. Pending(x, y) /\ m = request(x, y) /\ (Peers(x, y) => x \notin members[y])
          /\ \A k \in received[y] : k.from = x => k.number < m.number
      BY <2>1 DEF Open
    <3>2. ASSUME Peers(x, y), x \in members'[y] PROVE FALSE
      <4>1. y = b /\ x \in M /\ x \notin K
        BY <1>2, <1>3, <2>0, <3>1, <3>2
      <4>2. Knows(s, x) = M /\ Knows(x, x) = members[x] /\ awake[x] /\ s \in available[x]
        BY <1>0, <1>1, <2>0, <3>2, <4>1, PeersSeeTheSame DEF Peers
      <4>3. x \in members[x] /\ b \in M /\ b \notin members[x]
        BY <1>1, <1>4, <2>0, <3>1, <3>2, OwnFacts DEF Peers
      <4>4. members[x] \subseteq M /\ M # members[x]
        BY <1>0, <2>0, <4>1, <4>2, <4>3, NestedKnowledge
      <4>5. Surpassed(x)
        BY <4>2, <4>4 DEF Surpassed
      <4>6. Half(b, x)
        BY <2>0, <3>1, <4>1, <4>5 DEF PendingOK
      <4>7. x \in K
        BY <1>3, <4>3, <4>6 DEF Half, HalfBy
      <4> QED
        BY <4>1, <4>7
    <3>3. Open(m)'
      BY <1>2, <1>4, <2>0, <3>1, <3>2 DEF Open
    <3> QED
      BY <2>1, <3>3 DEF SentOK
  <2>2. CASE HalfBy(m, x, y) /\ Pending(y, x)
    <3>1. x # b /\ y # b
      BY <1>1, <2>0, <2>2
    <3>2. HalfBy(m, x, y)'
      BY <1>2, <2>0, <2>2, <3>1 DEF HalfBy
    <3> QED
      BY <1>4, <2>0, <2>2, <3>2 DEF SentOK
  <2> QED
    BY <2>1, <2>2 DEF SentOK
<1>6. ReceivedOK'
  <2> SUFFICES ASSUME NEW x \in Brokers, NEW k \in received[x]
               PROVE  /\ k.to = x /\ k.from # x /\ k.number <= round[k.from]
                      /\ awake[k.from] /\ k.number = round[k.from] /\ x \notin members'[k.from]
                           => x \in asked[k.from]
                      /\ \/ k.number > round[x]
                         \/ awake[x] /\ k.number = round[x] /\ k.from \notin members'[x]
                         => /\ Pending(k.from, x)' /\ k = request(k.from, x)'
                            /\ k.number = round[x] => k.from \notin asked[x]
    BY <1>2 DEF ReceivedOK
  <2>1. /\ k.to = x /\ k.from # x /\ k.number <= round[k.from]
        /\ awake[k.from] /\ k.number = round[k.from] /\ x \notin members[k.from]
             => x \in asked[k.from]
        /\ \/ k.number > round[x]
           \/ awake[x] /\ k.number = round[x] /\ k.from \notin members[x]
           => /\ Pending(k.from, x) /\ k = request(k.from, x)
              /\ k.number = round[x] => k.from \notin asked[x]
    BY DEF ReceivedOK
  <2>2. k.from \in Brokers
    BY DEF FragmentsTypeOK, Request
  <2>3. members[k.from] \subseteq members'[k.from] /\ members[x] \subseteq members'[x]
    BY <1>1, <1>2, <1>3, <2>2
  <2> QED
    BY <1>4, <2>1, <2>2, <2>3
<1> QED
  BY <1>5, <1>6

(* Only one link leads out of the receiver's side, and this side knows K.  *)
LEMMA LearnUpdates ==
    ASSUME FragmentsInv, NEW u \in updates, Learn(u)
    PROVE  UpdatesOK'
<1> USE DEF FragmentsInv
<1> DEFINE b == u.to  s == u.from  K == members[b]  M == u.members
<1>0. b \in Brokers /\ s \in Brokers
  BY DEF FragmentsTypeOK, Update
<1>1. /\ awake[b] /\ b \in K /\ s \in K /\ s # b /\ s \in linked[b]
      /\ M = Knows(s, b) /\ K \subseteq M /\ K # M /\ M \subseteq available[b]
      /\ K \subseteq Brokers /\ s \in available[b]
      /\ \A d \in K : K \subseteq Knows(d, b)
      /\ \A d \in Brokers : ~Pending(b, d)
  BY <1>0, BeforeLearn
<1>2. /\ members'[b] = M /\ \A d \in Brokers : d # b => members'[d] = members[d]
      /\ UNCHANGED <<round, awake, available, linked>>
      /\ updates' = (updates \ {u})
                \cup {[from |-> b, to |-> d, members |-> M] : d \in linked[b] \ {s}}
      /\ \A c, d \in Brokers : Peers(c, d)' <=> Peers(c, d)
      /\ \A c, d \in Brokers : c # b => Knows(c, d)' = Knows(c, d)
      /\ \A d \in Brokers : Peers(b, d) => Knows(b, d) = K /\ Knows(b, d)' = M
      /\ \A d \in Brokers : ~Peers(b, d) /\ awake[d] => Knows(b, d)' = Knows(b, d)
  BY <1>0, LearnStep
<1>3. PICK S \in SUBSET Brokers :
        OnlyOut(S, b, s, b) /\ \A c \in S \cap K : Knows(c, b) = K
  BY DEF UpdatesOK
<1>4. u = [from |-> s, to |-> b, members |-> M] /\ K = members[b] /\ u.to = b
  BY DEF FragmentsTypeOK, Update
<1> HIDE DEF b, s, K, M
<1>5. \A x, y, d \in Brokers : Joined(x, y, d)' <=> Joined(x, y, d)
  BY <1>2 DEF Joined
<1>6. \A T \in SUBSET Brokers, x, y, d \in Brokers : OnlyOut(T, x, y, d) => OnlyOut(T, x, y, d)'
  BY <1>5 DEF OnlyOut
<1>7. Joined(b, s, b) /\ s \notin S /\ b \in S
  BY <1>0, <1>1, <1>3 DEF Joined, OnlyOut, Peers
<1> SUFFICES ASSUME NEW v \in updates'
             PROVE  LET e == v.to IN
                    /\ awake[e] /\ v.from \in linked[e]
                    /\ v.members = Knows(v.from, e)'
                    /\ members'[e] \subseteq v.members /\ members'[e] # v.members
                    /\ v.members \subseteq available[e]
                    /\ \E T \in SUBSET Brokers :
                          /\ OnlyOut(T, e, v.from, e)'
                          /\ \A c \in T \cap members'[e] : Knows(c, e)' = members'[e]
  BY <1>2 DEF UpdatesOK
<1>8. CASE v \in updates \ {u}
  <2> DEFINE e == v.to  f == v.from  L == members[e]
  <2>0. e \in Brokers /\ f \in Brokers
    BY <1>8 DEF FragmentsTypeOK, Update
  <2>1. /\ awake[e] /\ f \in linked[e] /\ v.members = Knows(f, e)
        /\ L \subseteq v.members /\ L # v.members /\ v.members \subseteq available[e]
    BY <1>8 DEF UpdatesOK
  <2>2. PICK T \in SUBSET Brokers :
          OnlyOut(T, e, f, e) /\ \A c \in T \cap L : Knows(c, e) = L
    BY <1>8 DEF UpdatesOK
  <2>3. v = [from |-> f, to |-> e, members |-> v.members] /\ L = members[e]
    BY <1>8 DEF FragmentsTypeOK, Update
  <2>4. e \in L /\ f \in L /\ f # e /\ L \subseteq Brokers
    BY <2>0, <2>1, OwnFacts, TypeFacts
  <2> HIDE DEF e, f, L
  <2>5. ASSUME e = b PROVE FALSE
    <3>1. f # s
      BY <1>1, <1>4, <1>8, <2>1, <2>3, <2>5
    <3>2. s \in T
      BY <1>0, <1>7, <2>0, <2>2, <2>5, <3>1 DEF OnlyOut
    <3>3. Knows(s, b) = K
      BY <1>1, <1>4, <2>2, <2>3, <2>5, <3>2
    <3> QED
      BY <1>1, <3>3
  <2>6. ASSUME f = b, Peers(b, e) PROVE FALSE
    <3>1. L \subseteq K /\ L # K /\ Knows(e, b) = L
      BY <1>0, <1>2, <2>0, <2>1, <2>3, <2>6, PeersSeeTheSame
    <3> QED
      BY <1>1, <2>4, <3>1
  <2>7. Knows(f, e)' = Knows(f, e) /\ members'[e] = L
    BY <1>2, <2>0, <2>1, <2>3, <2>5, <2>6
  <2>8. ASSUME b \in T, b \in L, Peers(b, e) PROVE FALSE
    <3>1. K = L
      BY <1>0, <1>2, <2>0, <2>2, <2>8
    <3>2. Joined(b, s, e)
      BY <1>1, <2>8 DEF Joined
    <3>3. Knows(s, e) = M
      BY <1>0, <1>1, <2>0, <2>8, PeersSeeTheSame
    <3>4. s \notin T
      BY <1>1, <2>2, <3>1, <3>3
    <3> QED
      BY <1>0, <2>0, <2>2, <2>5, <2>8, <3>2, <3>4 DEF OnlyOut
  <2>9. \A c \in T \cap L : Knows(c, e)' = L
    BY <1>2, <2>0, <2>1, <2>2, <2>4, <2>8
  <2> QED
    BY <1>6, <2>0, <2>1, <2>2, <2>7, <2>9 DEF e, f, L
<1>9. CASE v \notin updates \ {u}
  <2>1. PICK d \in linked[b] \ {s} : v = [from |-> b, to |-> d, members |-> M]
    BY <1>2, <1>9
  <2>2. d \in K /\ d # b /\ d \in Brokers
    BY <1>0, <1>1, <1>4, <2>1, OwnFacts
  <2>3. d \in S
    BY <1>0, <1>1, <1>3, <1>7, <2>1, <2>2 DEF OnlyOut, Joined, Peers
  <2>4. Knows(d, b) = K /\ K # available[b] /\ K # {}
    BY <1>1, <1>3, <2>2, <2>3
  <2>5. Peers(b, d) /\ members[d] = K
    BY <1>1, <2>4 DEF Knows, Peers
  <2>6. Peers(d, b) /\ available[b] = available[d] /\ awake[d]
    BY <1>0, <2>2, <2>5, PeersSeeTheSame DEF Peers
  <2>7. b \in linked[d]
    <3>1. b \in linked[d] \/ Half(b, d)
      BY <1>0, <1>1, <2>1, <2>5 DEF LinksOK
    <3>2. ~Half(b, d)
      BY <1>1, <2>5 DEF Half, HalfBy
    <3> QED
      BY <3>1, <3>2
  <2>8. PICK T \in SUBSET Brokers : OnlyOut(T, b, d, b)
    BY <1>0, <1>1, <2>1 DEF LinksOK
  <2> DEFINE R == S \cap (Brokers \ T)
  <2>9. OnlyOut(R, d, b, d)
    <3>1. d \in R /\ b \notin R
      BY <2>2, <2>3, <2>8 DEF OnlyOut
    <3>2. ASSUME NEW x \in R, NEW y \in Brokers \ R, Joined(x, y, d)
          PROVE  x = d /\ y = b
      <4>1. Joined(x, y, b) /\ Joined(y, x, b)
        BY <1>0, <2>2, <2>5, <3>2, PeersSeeTheSame DEF Joined
      <4>2. CASE y \notin S
        BY <1>3, <2>8, <3>2, <4>1, <4>2 DEF OnlyOut
      <4>3. CASE y \in S
        BY <2>8, <3>2, <4>1, <4>3 DEF OnlyOut
      <4> QED
        BY <4>2, <4>3
    <3> QED
      BY <3>1, <3>2 DEF OnlyOut
  <2>10. \A c \in R \cap K : Knows(c, d)' = K
    <3> SUFFICES ASSUME NEW c \in R \cap K
                 PROVE  Knows(c, d)' = K
      OBVIOUS
    <3>1. c # b /\ Knows(c, b) = K
      BY <1>3, <2>8 DEF OnlyOut
    <3> QED
      BY <1>0, <1>2, <2>2, <2>5, <3>1, PeersSeeTheSame
  <2>11. OnlyOut(R, d, b, d)' /\ members'[d] = K /\ Knows(b, d)' = M /\ linked[d] = linked'[d]
    BY <1>0, <1>2, <1>6, <2>2, <2>5, <2>9
  <2> HIDE DEF R
  <2>12. R \in SUBSET Brokers
    BY DEF R
  <2> QED
    BY <1>1, <2>1, <2>6, <2>7, <2>10, <2>11, <2>12
<1> QED
  BY <1>8, <1>9

LEMMA LearnLinks ==
    ASSUME FragmentsInv, NEW u \in updates, Learn(u)
    PROVE  LinksOK'
<1> USE DEF FragmentsInv
<1> DEFINE b == u.to  s == u.from  K == members[b]  M == u.members
<1>0. b \in Brokers /\ s \in Brokers
  BY DEF FragmentsTypeOK, Update
<1>1. /\ awake[b] /\ b \in K /\ s \in K /\ K \subseteq M /\ K # M /\ M = Knows(s, b)
      /\ \A d \in Brokers : Full(d) => b \notin members[d]
      /\ \A d \in Brokers : ~Pending(b, d)
      /\ \A d \in Brokers, m \in sent : ~HalfBy(m, b, d) /\ ~HalfBy(m, d, b)
  BY <1>0, BeforeLearn
<1>2. /\ members'[b] = M /\ \A d \in Brokers : d # b => members'[d] = members[d]
      /\ UNCHANGED <<round, awake, available, linked, sent>>
      /\ updates' = (updates \ {u})
                \cup {[from |-> b, to |-> d, members |-> M] : d \in linked[b] \ {s}}
      /\ \A c, d \in Brokers : Peers(c, d)' <=> Peers(c, d)
      /\ \A c, d \in Brokers : c # b => Knows(c, d)' = Knows(c, d)
      /\ \A d \in Brokers : Peers(b, d) => Knows(b, d) = K /\ Knows(b, d)' = M
      /\ \A d \in Brokers : ~Peers(b, d) /\ awake[d] => Knows(b, d)' = Knows(b, d)
      /\ ~Surpassed(b)'
  BY <1>0, LearnStep
<1>3. u.to = b
  OBVIOUS
<1> HIDE DEF b, s, K, M
<1> SUFFICES ASSUME NEW x \in Brokers, awake'[x], NEW c \in linked'[x]
             PROVE  /\ Peers(x, c)' => x \in linked'[c] \/ Half(x, c)'
                    /\ members'[x] \subseteq Knows(c, x)' /\ Knows(c, x)' # members'[x]
                         => [from |-> c, to |-> x, members |-> Knows(c, x)'] \in updates'
                    /\ \E S \in SUBSET Brokers : OnlyOut(S, x, c, x)'
  BY DEF LinksOK
<1> awake[x] /\ c \in linked[x]
  BY <1>2
<1>4. c \in members[x] /\ c \in available[x] /\ c \in Brokers /\ c # x
  BY OwnFacts, TypeFacts
<1>5. Peers(x, c) => x \in linked[c] \/ Half(x, c)'
  <2> SUFFICES ASSUME Peers(x, c), NEW m \in sent, HalfBy(m, x, c)
               PROVE  HalfBy(m, x, c)'
    BY <1>2, <1>4 DEF LinksOK, Half
  <2>1. c # b /\ x # b
    BY <1>1, <1>4
  <2> QED
    BY <1>2, <1>4, <2>1 DEF HalfBy
<1>6. ASSUME members'[x] \subseteq Knows(c, x)', Knows(c, x)' # members'[x]
      PROVE  [from |-> c, to |-> x, members |-> Knows(c, x)'] \in updates'
  <2>1. x # b
    BY <1>0, <1>2, <1>4, <1>6 DEF Surpassed
  <2>2. CASE Knows(c, x)' = Knows(c, x)
    <3>1. [from |-> c, to |-> x, members |-> Knows(c, x)] \in updates
      BY <1>2, <1>6, <2>1, <2>2 DEF LinksOK
    <3> QED
      BY <1>2, <1>3, <2>1, <2>2, <3>1
  <2>3. CASE c = b /\ Peers(b, x)
    <3>1. x \in linked[b] \/ Half(x, b)
      BY <1>0, <1>4, <2>3, PeersSeeTheSame DEF LinksOK
    <3>2. ~Half(x, b)
      BY <1>0, <1>1, HalfIsPending DEF Half
    <3>3. Knows(b, x)' = M /\ Knows(s, x) = M /\ Knows(x, x) = members[x] /\ members'[x] = members[x]
      BY <1>0, <1>1, <1>2, <2>1, <2>3, PeersSeeTheSame, OwnFacts
    <3>4. x # s
      BY <1>6, <2>3, <3>3
    <3> QED
      BY <1>2, <2>3, <3>1, <3>2, <3>3, <3>4
  <2> QED
    BY <1>0, <1>2, <1>4, <2>2, <2>3
<1>7. \E S \in SUBSET Brokers : OnlyOut(S, x, c, x)'
  <2>1. PICK S \in SUBSET Brokers : OnlyOut(S, x, c, x)
    BY DEF LinksOK
  <2>2. OnlyOut(S, x, c, x)'
    BY <1>2, <2>1 DEF OnlyOut, Joined
  <2> QED
    BY <2>2
<1> QED
  BY <1>2, <1>4, <1>5, <1>6, <1>7

LEMMA LearnInv ==
    ASSUME FragmentsInv, NEW u \in updates, Learn(u)
    PROVE  FragmentsInv'
<1>1. FragmentsTypeOK'
  <2>1. u.to \in Brokers /\ u.from \in Brokers
    BY DEF FragmentsInv, FragmentsTypeOK, Update
  <2> QED
    BY <2>1, LearnStep
<1> QED
  BY <1>1, LearnKnowledge, LearnEdges, LearnRequests, LearnUpdates, LearnLinks
     DEF FragmentsInv

-----------------------------------------------------------------------------
(* Steps that leave what is known of the fragments as it is.               *)

(* Those who take part see what they saw.                                  *)
LEMMA SameView ==
    ASSUME FragmentsTypeOK, UNCHANGED <<delay, round, awake, members>>,
           \A x \in Brokers : awake[x] => available'[x] = available[x] /\ linked'[x] = linked[x]
    PROVE  /\ \A x, y \in Brokers : Peers(x, y)' <=> Peers(x, y)
           /\ \A x, y, z \in Brokers : Joined(x, y, z)' <=> Joined(x, y, z)
           /\ \A x, y \in Brokers : awake[x] => /\ Knows(y, x)' = Knows(y, x)
                                                /\ Shortest(x, y)' <=> Shortest(x, y)
           /\ \A x \in Brokers : awake[x] => /\ Surpassed(x)' <=> Surpassed(x)
                                             /\ Full(x)' <=> Full(x)
           /\ \A S \in SUBSET Brokers, x, y, z \in Brokers :
                 OnlyOut(S, x, y, z)' <=> OnlyOut(S, x, y, z)
<1>1. \A x, y \in Brokers : Peers(x, y)' <=> Peers(x, y)
  BY DEF Peers
<1>2. \A x, y, z \in Brokers : Joined(x, y, z)' <=> Joined(x, y, z)
  BY <1>1 DEF Joined, Peers
<1>3. \A x, y \in Brokers : awake[x] => Knows(y, x)' = Knows(y, x)
  BY DEF Knows
<1>4. \A x, y \in Brokers : awake[x] => (Shortest(x, y)' <=> Shortest(x, y))
  BY DEF Shortest
<1>5. \A x \in Brokers : awake[x] => (Surpassed(x)' <=> Surpassed(x))
  BY <1>3, TypeFacts DEF Surpassed
<1>6. \A x \in Brokers : awake[x] => (Full(x)' <=> Full(x))
  BY <1>1, TypeFacts DEF Full
<1>7. \A S \in SUBSET Brokers, x, y, z \in Brokers :
         OnlyOut(S, x, y, z)' <=> OnlyOut(S, x, y, z)
  BY <1>2 DEF OnlyOut
<1> QED
  BY <1>1, <1>2, <1>3, <1>4, <1>5, <1>6, <1>7

LEMMA SameKnowledge ==
    ASSUME FragmentsInv, UNCHANGED <<delay, round, awake, members>>,
           \A x \in Brokers : awake[x] => available'[x] = available[x] /\ linked'[x] = linked[x]
    PROVE  Own' /\ Nested' /\ Waits'
<1> USE DEF FragmentsInv
<1>1. /\ \A x, y \in Brokers : Peers(x, y)' <=> Peers(x, y)
      /\ \A x, y \in Brokers : awake[x] => Knows(y, x)' = Knows(y, x)
      /\ \A x \in Brokers : awake[x] => (Surpassed(x)' <=> Surpassed(x))
  BY SameView
<1>2. Own'
  <2> SUFFICES ASSUME NEW b \in Brokers, awake'[b]
               PROVE  /\ b \in members'[b] /\ members'[b] \subseteq available'[b]
                      /\ linked'[b] \subseteq members'[b] \ {b}
                      /\ \A c \in available'[b] : \A d \in Knows(c, b)' : round'[d] >= round'[b]
                      /\ \A c \in Brokers : Peers(b, c)' => available'[c] = available'[b]
    BY DEF Own
  <2> QED
    BY <1>1, TypeFacts DEF Own, Peers
<1>3. Nested'
  BY <1>1 DEF Nested
<1>4. Waits'
  BY <1>1, TypeFacts DEF Waits
<1> QED
  BY <1>2, <1>3, <1>4

LEMMA SameUpdates ==
    ASSUME FragmentsInv, UNCHANGED <<delay, round, awake, members, updates>>,
           \A x \in Brokers : awake[x] => available'[x] = available[x] /\ linked'[x] = linked[x]
    PROVE  UpdatesOK'
<1> USE DEF FragmentsInv
<1> SUFFICES ASSUME NEW u \in updates
             PROVE  LET b == u.to IN
                    /\ awake'[b] /\ u.from \in linked'[b]
                    /\ u.members = Knows(u.from, b)'
                    /\ members'[b] \subseteq u.members /\ members'[b] # u.members
                    /\ u.members \subseteq available'[b]
                    /\ \E S \in SUBSET Brokers :
                          /\ OnlyOut(S, b, u.from, b)'
                          /\ \A c \in S \cap members'[b] : Knows(c, b)' = members'[b]
  BY DEF UpdatesOK
<1> DEFINE b == u.to
<1>1. /\ awake[b] /\ u.from \in linked[b] /\ u.members = Knows(u.from, b)
      /\ members[b] \subseteq u.members /\ members[b] # u.members
      /\ u.members \subseteq available[b]
      /\ \E S \in SUBSET Brokers :
            OnlyOut(S, b, u.from, b) /\ \A c \in S \cap members[b] : Knows(c, b) = members[b]
  BY DEF UpdatesOK
<1>2. u.to \in Brokers /\ u.from \in Brokers
  BY DEF FragmentsTypeOK, Update
<1>3. /\ \A x, y \in Brokers : awake[x] => Knows(y, x)' = Knows(y, x)
      /\ \A S \in SUBSET Brokers, x, y, z \in Brokers :
            OnlyOut(S, x, y, z)' <=> OnlyOut(S, x, y, z)
  BY SameView
<1> QED
  BY <1>1, <1>2, <1>3

LEMMA SameLinks ==
    ASSUME FragmentsInv, UNCHANGED <<delay, round, awake, members, updates>>,
           \A x \in Brokers : awake[x] => available'[x] = available[x] /\ linked'[x] = linked[x],
           \A x, y \in Brokers : Half(x, y) => Half(x, y)'
    PROVE  LinksOK'
<1> USE DEF FragmentsInv
<1> SUFFICES ASSUME NEW x \in Brokers, awake'[x], NEW c \in linked'[x]
             PROVE  /\ Peers(x, c)' => x \in linked'[c] \/ Half(x, c)'
                    /\ members'[x] \subseteq Knows(c, x)' /\ Knows(c, x)' # members'[x]
                         => [from |-> c, to |-> x, members |-> Knows(c, x)'] \in updates'
                    /\ \E S \in SUBSET Brokers : OnlyOut(S, x, c, x)'
  BY DEF LinksOK
<1>1. awake[x] /\ c \in linked[x] /\ c \in Brokers
  BY TypeFacts
<1>2. /\ Peers(x, c)' <=> Peers(x, c)
      /\ Knows(c, x)' = Knows(c, x)
      /\ \A S \in SUBSET Brokers : OnlyOut(S, x, c, x)' <=> OnlyOut(S, x, c, x)
  BY <1>1, SameView
<1>3. Peers(x, c) => linked'[c] = linked[c]
  BY <1>1 DEF Peers
<1> QED
  BY <1>1, <1>2, <1>3 DEF LinksOK

LEMMA ChooseInv ==
    ASSUME FragmentsInv, NEW b \in Brokers, Choose(b)
    PROVE  FragmentsInv'
<1> USE DEF FragmentsInv
<1>0. /\ awake[b]
      /\ \A c \in members[b] : /\ edge[c] # None /\ members[c] = members[b]
                               /\ delay[b][edge[b]] <= delay[c][edge[c]]
      /\ UNCHANGED <<delay, round, awake, available, members, linked, asked, sent, received,
                     updates>>
  BY DEF Choose
<1>1. /\ chosen'[b] = edge[b] /\ \A x \in Brokers : x # b => chosen'[x] = chosen[x]
      /\ \A x \in Brokers : edge'[x] = IF x \in members[b] THEN None ELSE edge[x]
  BY DEF Choose, FragmentsTypeOK
<1>2. FragmentsTypeOK'
  BY <1>0, TypeFacts DEF Choose, FragmentsTypeOK
<1>3. /\ \A x \in Brokers : awake[x] => /\ Surpassed(x)' <=> Surpassed(x)
                                        /\ Full(x)' <=> Full(x)
      /\ \A x, y \in Brokers : awake[x] => (Shortest(x, y)' <=> Shortest(x, y))
      /\ \A x, y \in Brokers : Half(x, y)' <=> Half(x, y)
      /\ \A x, y \in Brokers : /\ Pending(x, y)' <=> Pending(x, y)
                               /\ request(x, y)' = request(x, y)
      /\ \A x, y \in Brokers : Peers(x, y)' <=> Peers(x, y)
  BY <1>0, SameView DEF Half, HalfBy, Peers, Pending, request
<1>4. Own' /\ Nested' /\ Waits' /\ UpdatesOK'
  BY <1>0, SameKnowledge, SameUpdates
<1>5. LinksOK'
  BY <1>0, <1>3, SameLinks
<1>6. EdgeOK'
  <2> SUFFICES ASSUME NEW x \in Brokers, edge'[x] # None
               PROVE  /\ awake'[x] /\ ~Surpassed(x)'
                      /\ edge'[x] \in available'[x] \ members'[x]
                      /\ \A c \in available'[x] \ members'[x] :
                            delay'[x][edge'[x]] <= delay'[x][c]
    BY DEF EdgeOK
  <2> QED
    BY <1>0, <1>1, <1>3 DEF EdgeOK
<1>7. /\ \A x \in Brokers : Idle(x) => Idle(x)' /\ b \notin members[x]
      /\ Idle(b)' /\ b \in members[b] /\ members[b] \subseteq Brokers
  <2>1. b \in members[b] /\ members[b] \subseteq Brokers
    BY <1>0, OwnFacts, TypeFacts
  <2> QED
    BY <1>0, <1>1, <2>1, TypeFacts DEF Idle
<1>8. Full(b) /\ ~Surpassed(b) /\ Shortest(b, edge[b])
  <2>1. ~Surpassed(b) /\ edge[b] \in available[b] \ members[b]
    BY <1>0, <1>7 DEF EdgeOK
  <2>2. ASSUME NEW c \in members[b]
        PROVE  Peers(b, c)
    <3>1. awake[c] /\ c \in Brokers /\ c \in available[b]
      BY <1>0, <1>7, OwnFacts DEF EdgeOK
    <3>2. round[c] >= round[b]
      BY <1>0, <1>7, OwnFacts DEF Own
    <3>3. CASE round[c] = round[b]
      BY <1>0, <3>1, <3>3 DEF Peers
    <3>4. CASE round[c] # round[b]
      <4>1. Knows(c, b) = available[b]
        BY <3>1, <3>2, <3>4, TypeFacts DEF Knows
      <4> QED
        BY <1>0, <2>1, <3>1, <4>1, OwnFacts DEF Surpassed
    <3> QED
      BY <3>3, <3>4
  <2>3. Full(b)
    BY <1>0, <2>2 DEF Full
  <2>4. ASSUME NEW x \in members[b], NEW y \in available[b] \ members[b]
        PROVE  delay[b][edge[b]] <= delay[x][y]
    <3>1. edge[x] \in available[x] \ members[x] /\ delay[x][edge[x]] <= delay[x][y]
          /\ delay[b][edge[b]] <= delay[x][edge[x]] /\ x \in Brokers
      BY <1>0, <1>7, <2>2, <2>4, PeersSeeTheSame DEF EdgeOK
    <3>2. edge[x] \in Brokers /\ y \in Brokers /\ edge[b] \in Brokers
      BY <2>1, <3>1, TypeFacts
    <3> HIDE DEF FragmentsInv
    <3>3. delay[x][edge[x]] \in Nat /\ delay[b][edge[b]] \in Nat /\ delay[x][y] \in Nat
      BY <3>1, <3>2 DEF FragmentsTypeOK, FragmentsInv
    <3> QED
      BY <3>1, <3>3
  <2> QED
    BY <2>1, <2>3, <2>4 DEF Shortest
<1>9. ChosenOK'
  <2> SUFFICES ASSUME NEW x \in Brokers, chosen'[x] # None
               PROVE  /\ awake'[x] /\ ~Surpassed(x)' /\ Full(x)' /\ Idle(x)'
                      /\ Shortest(x, chosen[x])'
                      /\ \A c \in members'[x] : chosen'[c] # None => c = x
    BY DEF ChosenOK
  <2>1. CASE x = b
    <3>1. \A c \in members[b] : chosen'[c] # None => c = b
      BY <1>0, <1>1, <1>7 DEF ChosenOK, Idle
    <3>2. Shortest(b, chosen[b])'
      BY <1>0, <1>1, <1>8 DEF Shortest
    <3> QED
      BY <1>0, <1>3, <1>7, <1>8, <2>1, <3>1, <3>2
  <2>2. CASE x # b
    <3>1. /\ chosen[x] # None /\ awake[x] /\ ~Surpassed(x) /\ Full(x) /\ Idle(x)
          /\ Shortest(x, chosen[x]) /\ \A c \in members[x] : chosen[c] # None => c = x
      BY <1>1, <2>2 DEF ChosenOK
    <3>2. \A c \in members[x] : chosen'[c] = chosen[c]
      BY <1>1, <1>7, <3>1, TypeFacts
    <3>3. Shortest(x, chosen[x])'
      BY <1>0, <1>1, <2>2, <3>1 DEF Shortest
    <3> QED
      BY <1>0, <1>3, <1>7, <3>1, <3>2, <3>3
  <2> QED
    BY <2>1, <2>2
<1>10. PendingOK'
  <2> SUFFICES ASSUME NEW x \in Brokers, NEW y \in Brokers, Pending(x, y)'
               PROVE  /\ Full(x)' /\ Idle(x)'
                      /\ \A d \in members'[x] : chosen'[d] = None
                      /\ \A d \in members'[x], z \in Brokers : Pending(d, z)' => d = x /\ z = y
                      /\ Shortest(x, y)'
                      /\ ~Surpassed(x)' \/ Half(y, x)'
                      /\ \/ request(x, y)' \in sent' \/ request(x, y)' \in received'[y]
                         \/ Half(y, x)'
    BY DEF PendingOK
  <2>1. Pending(x, y) /\ awake[x]
    BY <1>3 DEF Pending
  <2>2. \A d \in members[x] : chosen'[d] = chosen[d] /\ d \in Brokers
    BY <1>1, <1>7, <2>1, TypeFacts DEF PendingOK
  <2> QED
    BY <1>0, <1>3, <1>7, <2>1, <2>2 DEF PendingOK
<1>11. SentOK' /\ ReceivedOK'
  <2>1. \A m \in sent : m.from \in Brokers /\ m.to \in Brokers
    BY DEF FragmentsTypeOK, Request
  <2>2. \A x \in Brokers : \A k \in received[x] : k.from \in Brokers
    BY DEF FragmentsTypeOK, Request
  <2>3. SentOK'
    BY <1>0, <1>3, <2>1 DEF SentOK, Open, HalfBy, Peers
  <2>4. ReceivedOK'
    BY <1>0, <1>3, <2>2 DEF ReceivedOK
  <2> QED
    BY <2>3, <2>4
<1> QED
  BY <1>2, <1>4, <1>5, <1>6, <1>9, <1>10, <1>11

LEMMA AskInv ==
    ASSUME FragmentsInv, NEW b \in Brokers, Ask(b)
    PROVE  FragmentsInv'
<1> USE DEF FragmentsInv
<1>a. PICK c : c = chosen[b]
  OBVIOUS
<1>b. PICK m : m = request(b, c)
  OBVIOUS
<1>0. /\ c # None /\ \A k \in received[b] : ~(k.from = c /\ k.number = round[b])
      /\ UNCHANGED <<delay, round, awake, available, members, linked, edge, received, updates>>
      /\ sent' = sent \cup {m}
  BY <1>a, <1>b DEF Ask
<1>1. /\ chosen'[b] = None /\ \A x \in Brokers : x # b => chosen'[x] = chosen[x]
      /\ asked'[b] = asked[b] \cup {c} /\ \A x \in Brokers : x # b => asked'[x] = asked[x]
  BY <1>a DEF Ask, FragmentsTypeOK, Set
<1>2. /\ awake[b] /\ ~Surpassed(b) /\ Full(b) /\ Idle(b) /\ Shortest(b, c)
      /\ \A d \in members[b] : chosen[d] # None => d = b
  BY <1>a, <1>0 DEF ChosenOK
<1>3. c \in available[b] \ members[b] /\ c \in Brokers /\ b \in members[b] /\ b # c
      /\ members[b] \subseteq Brokers
  BY <1>2, OwnFacts, TypeFacts DEF Shortest
<1>4. m.from = b /\ m.to = c /\ m.number = round[b] /\ m.members = members[b] /\ m \in Request
  BY <1>b, <1>3, TypeFacts DEF request, Request
<1>5. FragmentsTypeOK'
  BY <1>a, <1>b, <1>0, <1>3, <1>4, TypeFacts DEF Ask, FragmentsTypeOK, Set
<1>6. /\ \A x \in Brokers : awake[x] => /\ Surpassed(x)' <=> Surpassed(x)
                                        /\ Full(x)' <=> Full(x)
      /\ \A x, y \in Brokers : awake[x] => (Shortest(x, y)' <=> Shortest(x, y))
      /\ \A x, y \in Brokers : /\ Peers(x, y)' <=> Peers(x, y)
                               /\ Pending(x, y)' <=> Pending(x, y) \/ (x = b /\ y = c)
                               /\ request(x, y)' = request(x, y)
      /\ \A x \in Brokers : Idle(x)' <=> Idle(x)
  BY <1>0, <1>1, <1>2, <1>3, SameView DEF Pending, request, Idle
<1>7. \A x, y \in Brokers : \A k \in sent : HalfBy(k, x, y) => HalfBy(k, x, y)'
  BY <1>0 DEF HalfBy, Peers
<1>8. \A x, y \in Brokers : Half(x, y) => Half(x, y)'
  BY <1>0, <1>7 DEF Half
<1>9. Own' /\ Nested' /\ Waits' /\ UpdatesOK' /\ LinksOK'
  BY <1>0, <1>8, SameKnowledge, SameUpdates, SameLinks
<1>10. EdgeOK'
  BY <1>0, <1>6 DEF EdgeOK
<1>11. ChosenOK'
  <2> SUFFICES ASSUME NEW x \in Brokers, chosen'[x] # None
               PROVE  /\ awake'[x] /\ ~Surpassed(x)' /\ Full(x)' /\ Idle(x)'
                      /\ Shortest(x, chosen[x])' /\ chosen'[x] = chosen[x]
                      /\ \A d \in members'[x] : chosen'[d] # None => d = x
    BY DEF ChosenOK
  <2>1. /\ x # b /\ chosen'[x] = chosen[x] /\ awake[x] /\ ~Surpassed(x) /\ Full(x) /\ Idle(x)
        /\ Shortest(x, chosen[x]) /\ \A d \in members[x] : chosen[d] # None => d = x
    BY <1>1 DEF ChosenOK
  <2>2. Shortest(x, chosen[x])'
    BY <1>0, <2>1 DEF Shortest
  <2> QED
    BY <1>0, <1>1, <1>6, <2>1, <2>2, TypeFacts
<1>12. \A x, y \in Brokers : Pending(x, y) => b \notin members[x]
  BY <1>a, <1>0 DEF PendingOK
<1>13. PendingOK'
  <2> SUFFICES ASSUME NEW x \in Brokers, NEW y \in Brokers, Pending(x, y)'
               PROVE  /\ Full(x)' /\ Idle(x)'
                      /\ \A d \in members'[x] : chosen'[d] = None
                      /\ \A d \in members'[x], z \in Brokers : Pending(d, z)' => d = x /\ z = y
                      /\ Shortest(x, y)'
                      /\ ~Surpassed(x)' \/ Half(y, x)'
                      /\ \/ request(x, y)' \in sent' \/ request(x, y)' \in received'[y]
                         \/ Half(y, x)'
    BY DEF PendingOK
  <2>1. CASE Pending(x, y)
    <3>1. /\ Full(x) /\ Idle(x) /\ awake[x]
          /\ \A d \in members[x] : chosen[d] = None
          /\ \A d \in members[x], z \in Brokers : Pending(d, z) => d = x /\ z = y
          /\ Shortest(x, y)
          /\ ~Surpassed(x) \/ Half(y, x)
          /\ \/ request(x, y) \in sent \/ request(x, y) \in received[y]
             \/ Half(y, x)
      BY <2>1 DEF PendingOK, Pending
    <3>2. b \notin members[x] /\ members[x] \subseteq Brokers
      BY <1>12, <2>1, TypeFacts
    <3>3. \A d \in members[x] : chosen'[d] = None
      BY <1>1, <3>1, <3>2
    <3>4. \A d \in members[x], z \in Brokers : Pending(d, z)' => d = x /\ z = y
      BY <1>6, <3>1, <3>2
    <3> QED
      BY <1>0, <1>6, <1>8, <3>1, <3>3, <3>4
  <2>2. CASE x = b /\ y = c
    <3>1. \A d \in members[b] : chosen'[d] = None
      BY <1>1, <1>2, <1>3
    <3>2. \A d \in members[b] : b \in members[d]
      BY <1>2, <1>3 DEF Full
    <3>3. \A d \in members[b], z \in Brokers : Pending(d, z)' => d = b /\ z = c
      BY <1>3, <1>6, <1>12, <3>2
    <3>4. request(b, c)' \in sent'
      BY <1>b, <1>0, <1>3, <1>6
    <3> QED
      BY <1>0, <1>2, <1>6, <2>2, <3>1, <3>3, <3>4
  <2> QED
    BY <1>6, <2>1, <2>2
<1>14. \A k \in sent : ~(k.from = b /\ k.to = c)
  <2> SUFFICES ASSUME NEW k \in sent, k.from = b, k.to = c PROVE FALSE
    OBVIOUS
  <2>1. CASE Open(k)
    BY <1>3, <1>12, <2>1 DEF Open
  <2>2. CASE HalfBy(k, b, c)
    BY <1>3, <2>2, OwnFacts DEF HalfBy, Peers
  <2> QED
    BY <2>1, <2>2 DEF SentOK
<1>15. Open(m)'
  <2>1. ASSUME Peers(b, c), b \in members[c] PROVE FALSE
    <3>1. members[b] \subseteq members[c]
      BY <1>3, <2>1, OwnFacts DEF Nested, Peers
    <3>2. Knows(c, b) = members[c] /\ c \in members[c]
      BY <1>3, <2>1, PeersSeeTheSame, OwnFacts DEF Peers
    <3> QED
      BY <1>2, <1>3, <3>1, <3>2 DEF Surpassed
  <2>2. ASSUME NEW k \in received[c], k.from = b
        PROVE  k.number < round[b]
    <3>1. k.number <= round[b] /\ k \in Request
      BY <1>3, <2>2 DEF ReceivedOK, FragmentsTypeOK
    <3>2. k.number # round[b]
      BY <1>2, <1>3, <1>12, <2>2 DEF ReceivedOK, Pending
    <3> QED
      BY <3>1, <3>2, TypeFacts DEF Request
  <2>4. m = request(b, c)'
    BY <1>b, <1>3, <1>6
  <2>5. Pending(b, c)'
    BY <1>3, <1>6
  <2> QED
    BY <1>0, <1>3, <1>4, <1>6, <2>1, <2>2, <2>4, <2>5 DEF Open
<1>16. \A k \in sent : k.from \in Brokers /\ k.to \in Brokers
  BY DEF FragmentsTypeOK, Request
<1>17. SentOK'
  <2> SUFFICES ASSUME NEW k \in sent'
               PROVE  /\ k.from # k.to
                      /\ \/ Open(k)'
                         \/ HalfBy(k, k.from, k.to)' /\ Pending(k.to, k.from)'
                      /\ \A l \in sent' : l.from = k.from /\ l.to = k.to => l = k
    BY DEF SentOK
  <2>1. CASE k \in sent
    <3>1. /\ k.from # k.to
          /\ Open(k) \/ (HalfBy(k, k.from, k.to) /\ Pending(k.to, k.from))
          /\ \A l \in sent' : l.from = k.from /\ l.to = k.to => l = k
      BY <1>0, <1>4, <1>14, <2>1 DEF SentOK
    <3>2. Open(k) => Open(k)'
      BY <1>0, <1>6, <1>16, <2>1 DEF Open
    <3> QED
      BY <1>6, <1>7, <1>16, <2>1, <3>1, <3>2
  <2>2. CASE k = m
    <3>1. \A l \in sent' : l.from = k.from /\ l.to = k.to => l = k
      BY <1>0, <1>4, <1>14, <2>2
    <3>3. Open(k)'
      BY <1>15, <2>2
    <3> QED
      BY <1>3, <1>4, <2>2, <3>1, <3>3
  <2> QED
    BY <1>0, <2>1, <2>2
<1>18. ReceivedOK'
  <2> SUFFICES ASSUME NEW x \in Brokers, NEW k \in received[x]
               PROVE  /\ k.to = x /\ k.from # x /\ k.number <= round[k.from]
                      /\ awake[k.from] /\ k.number = round[k.from] /\ x \notin members[k.from]
                           => x \in asked'[k.from]
                      /\ \/ k.number > round[x]
                         \/ awake[x] /\ k.number = round[x] /\ k.from \notin members[x]
                         => /\ Pending(k.from, x)' /\ k = request(k.from, x)'
                            /\ k.number = round[x] => k.from \notin asked'[x]
    BY <1>0 DEF ReceivedOK
  <2>1. /\ k.to = x /\ k.from # x /\ k.number <= round[k.from]
        /\ awake[k.from] /\ k.number = round[k.from] /\ x \notin members[k.from]
             => x \in asked[k.from]
        /\ \/ k.number > round[x]
           \/ awake[x] /\ k.number = round[x] /\ k.from \notin members[x]
           => /\ Pending(k.from, x) /\ k = request(k.from, x)
              /\ k.number = round[x] => k.from \notin asked[x]
    BY DEF ReceivedOK
  <2>2. k.from \in Brokers
    BY DEF FragmentsTypeOK, Request
  <2> QED
    BY <1>0, <1>1, <1>6, <2>1, <2>2
<1> QED
  BY <1>5, <1>9, <1>10, <1>11, <1>13, <1>17, <1>18

LEMMA KeepInv ==
    ASSUME FragmentsInv, NEW m \in sent, Keep(m)
    PROVE  FragmentsInv'
<1> USE DEF FragmentsInv
<1> DEFINE x == m.from  y == m.to
<1>0. /\ ~(m.number = round[y] /\ x \in asked[y])
      /\ sent' = sent \ {m}
      /\ UNCHANGED <<delay, round, awake, available, members, linked, edge, chosen, asked,
                     updates>>
  BY DEF Keep
<1>1. x \in Brokers /\ y \in Brokers /\ m \in Request
  BY DEF FragmentsTypeOK, Request
<1>2. ~HalfBy(m, x, y)
  BY <1>0, <1>1, HalfIsPending DEF HalfBy, Pending
<1>3. /\ Pending(x, y) /\ m = request(x, y) /\ x # y
      /\ \A k \in received[y] : k.from = x => k.number < m.number
      /\ \A k \in sent : k.from = x /\ k.to = y => k = m
  BY <1>2 DEF SentOK, Open
<1>4. awake[x] /\ y \in asked[x] /\ y \in available[x] \ members[x] /\ m.number = round[x]
  BY <1>1, <1>3 DEF Pending, PendingOK, Shortest, request
<1>5. m.number >= round[y]
  <2>1. CASE round[x] < round[y]
    <3>1. Knows(y, x) = available[x]
      BY <1>1, <1>4, <2>1, TypeFacts DEF Knows
    <3>2. Half(y, x)
      BY <1>1, <1>3, <1>4, <3>1, OwnFacts DEF PendingOK, Surpassed
    <3> QED
      BY <1>1, <2>1, <3>2, TypeFacts DEF Half, HalfBy, Peers
  <2> QED
    BY <1>1, <1>4, <2>1, TypeFacts
<1>6. /\ received'[y] = received[y] \cup {m}
      /\ \A z \in Brokers : z # y => received'[z] = received[z]
  BY <1>1, <1>5 DEF Keep, FragmentsTypeOK
<1>7. FragmentsTypeOK'
  BY <1>0, <1>1, <1>5, TypeFacts DEF Keep, FragmentsTypeOK
<1> HIDE DEF x, y
<1>8. /\ \A p \in Brokers : awake[p] => /\ Surpassed(p)' <=> Surpassed(p)
                                        /\ Full(p)' <=> Full(p)
      /\ \A p, q \in Brokers : awake[p] => (Shortest(p, q)' <=> Shortest(p, q))
      /\ \A p, q \in Brokers : /\ Peers(p, q)' <=> Peers(p, q)
                               /\ Pending(p, q)' <=> Pending(p, q)
                               /\ request(p, q)' = request(p, q)
      /\ \A p \in Brokers : Idle(p)' <=> Idle(p)
  BY <1>0, SameView DEF Pending, request, Idle
<1>9. \A p, q \in Brokers : \A k \in sent : HalfBy(k, p, q) => k \in sent' /\ HalfBy(k, p, q)'
  <2> SUFFICES ASSUME NEW p \in Brokers, NEW q \in Brokers, NEW k \in sent, HalfBy(k, p, q)
               PROVE  k \in sent' /\ HalfBy(k, p, q)'
    OBVIOUS
  <2>1. k # m
    BY <1>2 DEF HalfBy, x, y
  <2> QED
    BY <1>0, <2>1 DEF HalfBy, Peers
<1>10. \A p, q \in Brokers : Half(p, q) => Half(p, q)'
  BY <1>0, <1>9 DEF Half
<1>11. Own' /\ Nested' /\ Waits' /\ UpdatesOK' /\ LinksOK'
  BY <1>0, <1>10, SameKnowledge, SameUpdates, SameLinks
<1>12. EdgeOK'
  BY <1>0, <1>8 DEF EdgeOK
<1>13. ChosenOK'
  <2> SUFFICES ASSUME NEW p \in Brokers, chosen'[p] # None
               PROVE  /\ awake'[p] /\ ~Surpassed(p)' /\ Full(p)' /\ Idle(p)'
                      /\ Shortest(p, chosen[p])' /\ chosen'[p] = chosen[p]
                      /\ \A d \in members'[p] : chosen'[d] # None => d = p
    BY DEF ChosenOK
  <2>1. Shortest(p, chosen[p])'
    BY <1>0 DEF ChosenOK, Shortest
  <2> QED
    BY <1>0, <1>8, <2>1 DEF ChosenOK
<1>14. PendingOK'
  <2> SUFFICES ASSUME NEW p \in Brokers, NEW q \in Brokers, Pending(p, q)'
               PROVE  /\ Full(p)' /\ Idle(p)'
                      /\ \A d \in members'[p] : chosen'[d] = None
                      /\ \A d \in members'[p], z \in Brokers : Pending(d, z)' => d = p /\ z = q
                      /\ Shortest(p, q)'
                      /\ ~Surpassed(p)' \/ Half(q, p)'
                      /\ \/ request(p, q)' \in sent' \/ request(p, q)' \in received'[q]
                         \/ Half(q, p)'
    BY DEF PendingOK
  <2>1. Pending(p, q) /\ awake[p]
    BY <1>8 DEF Pending
  <2>2. /\ Full(p) /\ Idle(p)
        /\ \A d \in members[p] : chosen[d] = None
        /\ \A d \in members[p], z \in Brokers : Pending(d, z) => d = p /\ z = q
        /\ Shortest(p, q)
        /\ ~Surpassed(p) \/ Half(q, p)
        /\ \/ request(p, q) \in sent \/ request(p, q) \in received[q]
           \/ Half(q, p)
    BY <2>1 DEF PendingOK
  <2>3. request(p, q) \in sent => request(p, q) \in sent' \/ request(p, q) \in received'[q]
    BY <1>0, <1>3, <1>6 DEF request
  <2>4. received[q] \subseteq received'[q] /\ members[p] \subseteq Brokers
    BY <1>6, TypeFacts
  <2> QED
    BY <1>0, <1>8, <1>10, <2>1, <2>2, <2>3, <2>4
<1>15. SentOK'
  <2> SUFFICES ASSUME NEW k \in sent, k # m
               PROVE  /\ k.from # k.to
                      /\ \/ Open(k)'
                         \/ HalfBy(k, k.from, k.to)' /\ Pending(k.to, k.from)'
                      /\ \A l \in sent : l.from = k.from /\ l.to = k.to => l = k
    BY <1>0 DEF SentOK
  <2>1. k.from \in Brokers /\ k.to \in Brokers
    BY DEF FragmentsTypeOK, Request
  <2>2. ~(k.from = x /\ k.to = y)
    BY <1>3
  <2>3. \A l \in received'[k.to] : l.from = k.from => l \in received[k.to]
    BY <1>6, <2>1, <2>2 DEF x
  <2>4. Open(k) => Open(k)'
    BY <1>0, <1>8, <2>1, <2>3 DEF Open
  <2>5. /\ k.from # k.to
        /\ Open(k) \/ (HalfBy(k, k.from, k.to) /\ Pending(k.to, k.from))
        /\ \A l \in sent : l.from = k.from /\ l.to = k.to => l = k
    BY DEF SentOK
  <2> QED
    BY <1>8, <1>9, <2>1, <2>4, <2>5
<1>16. ReceivedOK'
  <2> SUFFICES ASSUME NEW z \in Brokers, NEW k \in received'[z]
               PROVE  /\ k.to = z /\ k.from # z /\ k.number <= round[k.from]
                      /\ awake[k.from] /\ k.number = round[k.from] /\ z \notin members[k.from]
                           => z \in asked[k.from]
                      /\ \/ k.number > round[z]
                         \/ awake[z] /\ k.number = round[z] /\ k.from \notin members[z]
                         => /\ Pending(k.from, z)' /\ k = request(k.from, z)'
                            /\ k.number = round[z] => k.from \notin asked[z]
    BY <1>0 DEF ReceivedOK
  <2>1. CASE k \in received[z]
    <3>1. k.from \in Brokers
      BY <2>1 DEF FragmentsTypeOK, Request
    <3> QED
      BY <1>0, <1>8, <2>1, <3>1 DEF ReceivedOK
  <2>2. CASE k = m /\ z = y
    <3>1. m.from = x /\ m.to = y
      BY DEF x, y
    <3>2. m = request(x, y)' /\ Pending(x, y)' /\ m.number <= round[x]
      BY <1>1, <1>3, <1>4, <1>8, TypeFacts
    <3> QED
      BY <1>0, <1>3, <1>4, <2>2, <3>1, <3>2
  <2> QED
    BY <1>6, <2>1, <2>2
<1> QED
  BY <1>7, <1>11, <1>12, <1>13, <1>14, <1>15, <1>16

LEMMA RestInv ==
    ASSUME FragmentsInv, NEW b \in Brokers, Rest(b)
    PROVE  FragmentsInv'
<1> USE DEF FragmentsInv
<1>0. /\ ~awake[b]
      /\ UNCHANGED <<delay, round, awake, members, edge, chosen, asked, sent, received, updates>>
  BY DEF Rest
<1>1. /\ \A x \in Brokers : awake[x] => available'[x] = available[x] /\ linked'[x] = linked[x]
      /\ available' \in Set /\ linked' \in Set
  <2>1. CASE linked' = [linked EXCEPT ![b] = {}] /\ UNCHANGED available
    BY <1>0, <2>1 DEF FragmentsTypeOK, Set
  <2>2. CASE UNCHANGED linked /\ \E V \in SUBSET Brokers : available' = [available EXCEPT ![b] = V]
    BY <1>0, <2>2 DEF FragmentsTypeOK, Set
  <2> QED
    BY <2>1, <2>2 DEF Rest
<1>2. FragmentsTypeOK'
  BY <1>0, <1>1 DEF FragmentsTypeOK
<1>3. /\ \A x, y \in Brokers : Peers(x, y)' <=> Peers(x, y)
      /\ \A x, y \in Brokers : awake[x] => (Shortest(x, y)' <=> Shortest(x, y))
      /\ \A x \in Brokers : awake[x] => /\ Surpassed(x)' <=> Surpassed(x)
                                        /\ Full(x)' <=> Full(x)
  BY <1>0, <1>1, SameView
<1>4. \A x, y \in Brokers : /\ Pending(x, y)' <=> Pending(x, y)
                            /\ request(x, y)' = request(x, y)
  BY <1>0 DEF Pending, request
<1>6. \A x, y \in Brokers : Half(x, y) => Half(x, y)'
  BY <1>0, <1>1 DEF Half, HalfBy, Peers
<1>7. Own' /\ Nested' /\ Waits' /\ UpdatesOK' /\ LinksOK'
  BY <1>0, <1>1, <1>6, SameKnowledge, SameUpdates, SameLinks
<1>8. EdgeOK'
  BY <1>0, <1>1, <1>3 DEF EdgeOK
<1>9. ChosenOK'
  <2> SUFFICES ASSUME NEW x \in Brokers, chosen'[x] # None
               PROVE  /\ awake'[x] /\ ~Surpassed(x)' /\ Full(x)' /\ Idle(x)'
                      /\ Shortest(x, chosen[x])' /\ chosen'[x] = chosen[x]
                      /\ \A d \in members'[x] : chosen'[d] # None => d = x
    BY DEF ChosenOK
  <2>1. Shortest(x, chosen[x])' /\ (Idle(x) => Idle(x)')
    BY <1>0, <1>1 DEF ChosenOK, Shortest, Idle
  <2> QED
    BY <1>0, <1>3, <2>1 DEF ChosenOK
<1>10. PendingOK'
  <2> SUFFICES ASSUME NEW p \in Brokers, NEW q \in Brokers, Pending(p, q)'
               PROVE  /\ Full(p)' /\ Idle(p)'
                      /\ \A d \in members'[p] : chosen'[d] = None
                      /\ \A d \in members'[p], z \in Brokers : Pending(d, z)' => d = p /\ z = q
                      /\ Shortest(p, q)'
                      /\ ~Surpassed(p)' \/ Half(q, p)'
                      /\ \/ request(p, q)' \in sent' \/ request(p, q)' \in received'[q]
                         \/ Half(q, p)'
    BY DEF PendingOK
  <2>1. Pending(p, q) /\ awake[p] /\ members[p] \subseteq Brokers /\ (Idle(p) => Idle(p)')
    BY <1>0, <1>4, TypeFacts DEF Pending, Idle
  <2> QED
    BY <1>0, <1>3, <1>4, <1>6, <2>1 DEF PendingOK
<1>11. SentOK'
  <2> SUFFICES ASSUME NEW k \in sent
               PROVE  /\ k.from # k.to
                      /\ \/ Open(k)'
                         \/ HalfBy(k, k.from, k.to)' /\ Pending(k.to, k.from)'
                      /\ \A l \in sent : l.from = k.from /\ l.to = k.to => l = k
    BY <1>0 DEF SentOK
  <2>1. k.from \in Brokers /\ k.to \in Brokers
    BY DEF FragmentsTypeOK, Request
  <2>2. Open(k) => Open(k)'
    BY <1>0, <1>3, <1>4, <2>1 DEF Open
  <2>3. HalfBy(k, k.from, k.to) => HalfBy(k, k.from, k.to)'
    BY <1>0, <1>1, <2>1 DEF HalfBy, Peers
  <2> QED
    BY <1>4, <2>1, <2>2, <2>3 DEF SentOK
<1>12. ReceivedOK'
  <2>1. \A x \in Brokers : \A k \in received[x] : k.from \in Brokers
    BY DEF FragmentsTypeOK, Request
  <2> QED
    BY <1>0, <1>4, <2>1 DEF ReceivedOK
<1> QED
  BY <1>2, <1>7, <1>8, <1>9, <1>10, <1>11, <1>12

(* No member of the broker's fragment is about to link.                    *)
LEMMA ConvergedIsDone ==
    ASSUME FragmentsInv, NEW b \in Brokers, awake[b], members[b] = available[b]
    PROVE  /\ edge[b] = None /\ chosen[b] = None
           /\ \A y \in Brokers : ~Pending(b, y)
           /\ \A x \in Brokers : chosen[x] # None => b \notin members[x]
           /\ \A x, y \in Brokers : Pending(x, y) => b \notin members[x]
           /\ \A u \in updates : u.to # b
<1> USE DEF FragmentsInv
<1>1. ASSUME NEW x \in Brokers, NEW y, Full(x), Shortest(x, y), b \in members[x]
      PROVE  FALSE
  <2>1. Peers(x, b) /\ members[b] = members[x]
    BY <1>1 DEF Full
  <2>2. available[x] = available[b]
    BY <2>1, PeersSeeTheSame
  <2> QED
    BY <1>1, <2>1, <2>2 DEF Shortest
<1>2. edge[b] = None
  BY DEF EdgeOK
<1>3. \A x \in Brokers : chosen[x] # None => b \notin members[x]
  BY <1>1 DEF ChosenOK
<1>4. \A x, y \in Brokers : Pending(x, y) => b \notin members[x]
  BY <1>1 DEF PendingOK
<1>5. \A u \in updates : u.to # b
  BY DEF UpdatesOK
<1> QED
  BY <1>2, <1>3, <1>4, <1>5, OwnFacts

LEMMA StopInv ==
    ASSUME FragmentsInv, NEW b \in Brokers, Stop(b)
    PROVE  FragmentsInv'
<1> USE DEF FragmentsInv
<1>0. /\ sent = {} /\ awake[b] /\ members[b] = available[b]
      /\ UNCHANGED <<delay, round, available, members, linked, edge, chosen, asked, sent,
                     received, updates>>
      /\ ~awake'[b] /\ \A x \in Brokers : x # b => (awake'[x] <=> awake[x])
      /\ \A x \in Brokers : awake'[x] => awake[x]
  BY DEF Stop, FragmentsTypeOK
<1>1. FragmentsTypeOK'
  BY <1>0 DEF Stop, FragmentsTypeOK
<1>2. /\ edge[b] = None /\ chosen[b] = None
      /\ \A y \in Brokers : ~Pending(b, y)
      /\ \A x \in Brokers : chosen[x] # None => b \notin members[x]
      /\ \A x, y \in Brokers : Pending(x, y) => b \notin members[x]
      /\ \A u \in updates : u.to # b
  BY <1>0, ConvergedIsDone
<1>3. \A x, y \in Brokers : Peers(x, y)' <=> Peers(x, y) /\ x # b /\ y # b
  BY <1>0, TypeFacts DEF Peers
<1>4. ASSUME NEW x \in Brokers, NEW y \in Brokers, awake'[x]
      PROVE  Knows(y, x)' = Knows(y, x)
  <2>1. CASE y = b /\ Peers(b, x)
    <3>1. available[x] = available[b] /\ Knows(b, x) = members[b] /\ b \in available[b]
      BY <2>1, PeersSeeTheSame, OwnFacts DEF Peers
    <3> QED
      BY <1>0, <2>1, <3>1, TypeFacts DEF Knows, Peers
  <2>2. CASE ~(y = b /\ Peers(b, x))
    BY <1>0, <1>4, <2>2 DEF Knows, Peers
  <2> QED
    BY <2>1, <2>2
<1>5. \A x \in Brokers : awake'[x] => (Surpassed(x)' <=> Surpassed(x))
  BY <1>0, <1>4, TypeFacts DEF Surpassed
<1>6. \A x, y \in Brokers : /\ Shortest(x, y)' <=> Shortest(x, y)
                            /\ Idle(x)' <=> Idle(x)
                            /\ request(x, y)' = request(x, y)
                            /\ Pending(x, y)' <=> Pending(x, y)
  BY <1>0, <1>2 DEF Shortest, Idle, request, Pending
<1>7. \A x \in Brokers : Full(x) /\ b \notin members[x] /\ x \in members[x] => Full(x)'
  BY <1>0, <1>3, TypeFacts DEF Full
<1>8. Own'
  <2> SUFFICES ASSUME NEW x \in Brokers, awake'[x]
               PROVE  /\ x \in members'[x] /\ members'[x] \subseteq available'[x]
                      /\ linked'[x] \subseteq members'[x] \ {x}
                      /\ \A c \in available'[x] : \A d \in Knows(c, x)' : round'[d] >= round'[x]
                      /\ \A c \in Brokers : Peers(x, c)' => available'[c] = available'[x]
    BY DEF Own
  <2> QED
    BY <1>0, <1>3, <1>4, TypeFacts DEF Own
<1>9. Nested'
  BY <1>0, <1>3 DEF Nested
<1>10. Waits'
  BY <1>0, <1>4, <1>5, TypeFacts DEF Waits
<1>11. EdgeOK'
  BY <1>0, <1>2, <1>5 DEF EdgeOK
<1>12. ChosenOK'
  <2> SUFFICES ASSUME NEW x \in Brokers, chosen'[x] # None
               PROVE  /\ awake'[x] /\ ~Surpassed(x)' /\ Full(x)' /\ Idle(x)'
                      /\ Shortest(x, chosen[x])' /\ chosen'[x] = chosen[x]
                      /\ \A d \in members'[x] : chosen'[d] # None => d = x
    BY DEF ChosenOK
  <2>1. Shortest(x, chosen[x])'
    BY <1>0 DEF ChosenOK, Shortest
  <2> QED
    BY <1>0, <1>2, <1>5, <1>6, <1>7, <2>1, OwnFacts DEF ChosenOK
<1>13. PendingOK'
  <2> SUFFICES ASSUME NEW p \in Brokers, NEW q \in Brokers, Pending(p, q)'
               PROVE  /\ Full(p)' /\ Idle(p)'
                      /\ \A d \in members'[p] : chosen'[d] = None
                      /\ \A d \in members'[p], z \in Brokers : Pending(d, z)' => d = p /\ z = q
                      /\ Shortest(p, q)'
                      /\ ~Surpassed(p)' \/ Half(q, p)'
                      /\ \/ request(p, q)' \in sent' \/ request(p, q)' \in received'[q]
                         \/ Half(q, p)'
    BY DEF PendingOK
  <2>1. Pending(p, q) /\ p # b /\ b \notin members[p] /\ members[p] \subseteq Brokers
        /\ awake[p] /\ awake'[p] /\ p \in members[p]
    BY <1>0, <1>2, <1>6, TypeFacts, OwnFacts DEF Pending
  <2>2. ~Half(q, p)
    BY <1>0 DEF Half
  <2> QED
    BY <1>0, <1>5, <1>6, <1>7, <2>1, <2>2 DEF PendingOK
<1>14. SentOK'
  BY <1>0 DEF SentOK
<1>15. ReceivedOK'
  <2>1. \A x \in Brokers : \A k \in received[x] : k.from \in Brokers
    BY DEF FragmentsTypeOK, Request
  <2> QED
    BY <1>0, <1>6, <2>1 DEF ReceivedOK
<1>16. \A S \in SUBSET Brokers, x, y, z \in Brokers : OnlyOut(S, x, y, z) => OnlyOut(S, x, y, z)'
  BY <1>0, <1>3 DEF OnlyOut, Joined
<1>17. UpdatesOK'
  <2> SUFFICES ASSUME NEW u \in updates
             PROVE  LET e == u.to IN
                    /\ awake'[e] /\ u.from \in linked'[e]
                    /\ u.members = Knows(u.from, e)'
                    /\ members'[e] \subseteq u.members /\ members'[e] # u.members
                    /\ u.members \subseteq available'[e]
                    /\ \E S \in SUBSET Brokers :
                          /\ OnlyOut(S, e, u.from, e)'
                          /\ \A c \in S \cap members'[e] : Knows(c, e)' = members'[e]
    BY <1>0 DEF UpdatesOK
  <2>1. u.to \in Brokers /\ u.from \in Brokers /\ u.to # b
    BY <1>2 DEF FragmentsTypeOK, Update
  <2> QED
    BY <1>0, <1>4, <1>16, <2>1 DEF UpdatesOK
<1>18. LinksOK'
  <2> SUFFICES ASSUME NEW x \in Brokers, awake'[x], NEW c \in linked'[x]
             PROVE  /\ Peers(x, c)' => x \in linked'[c] \/ Half(x, c)'
                    /\ members'[x] \subseteq Knows(c, x)' /\ Knows(c, x)' # members'[x]
                         => [from |-> c, to |-> x, members |-> Knows(c, x)'] \in updates'
                    /\ \E S \in SUBSET Brokers : OnlyOut(S, x, c, x)'
    BY DEF LinksOK
  <2>1. c \in Brokers /\ c \in linked[x] /\ awake[x] /\ ~Half(x, c)
    BY <1>0, TypeFacts DEF Half
  <2> QED
    BY <1>0, <1>3, <1>4, <1>16, <2>1 DEF LinksOK
<1> QED
  BY <1>1, <1>8, <1>9, <1>10, <1>11, <1>12, <1>13, <1>14, <1>15, <1>17, <1>18

-----------------------------------------------------------------------------
(* A broker starts a round.                                                *)

(* It has not been in the round before, and nobody there knows it.         *)
LEMMA StartGuard ==
    ASSUME FragmentsInv, NEW b \in Brokers, NEW V \in SUBSET Brokers, NEW n,
           n = round'[b], Start(b, V)
    PROVE  /\ sent = {} /\ sent' = {} /\ n \in Nat /\ round[b] < n /\ b \in V
           /\ awake[b] => n = round[b] + 1 /\ members[b] = available[b]
           /\ \A c \in V : round[c] <= n /\ (round[c] = n => awake[c])
           /\ \A c \in Brokers : awake[c] =>
                 /\ round[c] = n => available[c] = V
                 /\ ~awake[b] /\ round[c] > round[b] /\ round[c] < n => b \notin available[c]
BY TypeFacts DEF Start, FragmentsInv

LEMMA StartStep ==
    ASSUME FragmentsInv, NEW b \in Brokers, NEW V \in SUBSET Brokers, NEW n,
           n = round'[b], Start(b, V)
    PROVE  /\ FragmentsTypeOK'
           /\ awake'[b] /\ available'[b] = V /\ members'[b] = {b}
           /\ linked'[b] = {} /\ asked'[b] = {} /\ edge'[b] \in Reports(b, {b}, V)
           /\ \A k : k \in received'[b] <=> k \in received[b] /\ k.number >= n
           /\ \A x \in Brokers \ {b} :
                 /\ round'[x] = round[x] /\ (awake'[x] <=> awake[x])
                 /\ available'[x] = available[x] /\ members'[x] = members[x]
                 /\ linked'[x] = linked[x] /\ asked'[x] = asked[x] /\ edge'[x] = edge[x]
                 /\ received'[x] = received[x]
           /\ UNCHANGED <<delay, chosen, updates>>
<1> USE DEF FragmentsInv
<1>1. /\ sent' = {} /\ n \in Nat
      /\ round' = [round EXCEPT ![b] = n]
      /\ awake' = [awake EXCEPT ![b] = TRUE]
      /\ available' = [available EXCEPT ![b] = V]
      /\ members' = [members EXCEPT ![b] = {b}]
      /\ linked' = [linked EXCEPT ![b] = {}]
      /\ asked' = [asked EXCEPT ![b] = {}]
      /\ received' = [received EXCEPT ![b] = {k \in received[b] : k.number >= n}]
      /\ UNCHANGED <<delay, chosen, updates>>
  BY DEF Start
<1>2. PICK r \in Reports(b, {b}, V) : edge' = [edge EXCEPT ![b] = r]
  BY DEF Start
<1>3. r \in Brokers \cup {None}
  BY <1>2 DEF Reports
<1>4. FragmentsTypeOK'
  BY <1>1, <1>2, <1>3, TypeFacts DEF FragmentsTypeOK, Set
<1> QED
  BY <1>1, <1>2, <1>4 DEF FragmentsTypeOK, Set

LEMMA StartView ==
    ASSUME FragmentsInv, NEW b \in Brokers, NEW V \in SUBSET Brokers, NEW n,
           n = round'[b], Start(b, V)
    PROVE  /\ \A x, y \in Brokers : x # b /\ y # b => (Peers(x, y)' <=> Peers(x, y))
           /\ \A x \in Brokers : x # b /\ awake[x] /\ round[x] = n =>
                 /\ Peers(b, x)' /\ b \notin members[x]
                 /\ Knows(b, x) = {} /\ Knows(b, x)' = {b}
           /\ \A x \in Brokers : x # b /\ ~(awake[x] /\ round[x] = n) => ~Peers(x, b)' /\ ~Peers(b, x)'
           /\ \A x, y \in Brokers : x # b /\ awake[x] /\ ~(y = b /\ round[x] = n)
                 => Knows(y, x)' = Knows(y, x)
           /\ Knows(b, b)' = {b}
           /\ \A y \in Brokers : y # b =>
                 Knows(y, b)' = IF awake[y] /\ round[y] = n THEN members[y] ELSE {}
           /\ ~Surpassed(b)'
           /\ \A x \in Brokers : x # b /\ awake[x] => (Surpassed(x)' <=> Surpassed(x))
<1> USE DEF FragmentsInv
<1>0. /\ n \in Nat /\ round[b] < n /\ b \in V
      /\ awake[b] => n = round[b] + 1 /\ members[b] = available[b]
      /\ \A c \in V : round[c] <= n /\ (round[c] = n => awake[c])
      /\ \A c \in Brokers : awake[c] =>
            /\ round[c] = n => available[c] = V
            /\ ~awake[b] /\ round[c] > round[b] /\ round[c] < n => b \notin available[c]
  BY StartGuard
<1>   /\ awake'[b] /\ available'[b] = V /\ members'[b] = {b}
      /\ \A x \in Brokers \ {b} :
            /\ round'[x] = round[x] /\ (awake'[x] <=> awake[x])
            /\ available'[x] = available[x] /\ members'[x] = members[x]
  BY StartStep
<1> \A x \in Brokers : round[x] \in Nat
  BY TypeFacts
<1>1. \A x, y \in Brokers : x # b /\ y # b => (Peers(x, y)' <=> Peers(x, y))
  BY <1>0 DEF Peers
<1>2. ASSUME NEW x \in Brokers, x # b, awake[x], round[x] = n
      PROVE  /\ Peers(b, x)' /\ b \notin members[x]
             /\ Knows(b, x) = {} /\ Knows(b, x)' = {b}
  <2>1. Peers(b, x)'
    BY <1>0, <1>2 DEF Peers
  <2>2. Knows(b, x) = {}
    BY <1>0, <1>2 DEF Knows
  <2>3. Knows(b, x)' = {b}
    BY <1>0, <1>2 DEF Knows
  <2>4. b \notin members[x]
    <3>1. x \in available[x] /\ Knows(x, x) = members[x]
      BY <1>2, OwnFacts
    <3>2. \A d \in members[x] : round[d] >= round[x]
      BY <1>2, <3>1 DEF Own
    <3> QED
      BY <1>0, <1>2, <3>2
  <2> QED
    BY <2>1, <2>2, <2>3, <2>4
<1>3. \A x \in Brokers : x # b /\ ~(awake[x] /\ round[x] = n) => ~Peers(x, b)' /\ ~Peers(b, x)'
  BY <1>0 DEF Peers
<1>4. ASSUME NEW x \in Brokers, NEW y \in Brokers, x # b, awake[x], ~(y = b /\ round[x] = n)
      PROVE  Knows(y, x)' = Knows(y, x)
  <2>1. CASE y # b
    BY <1>0, <1>4, <2>1 DEF Knows
  <2>2. CASE y = b /\ round[x] < round[b]
    BY <1>0, <1>4, <2>2 DEF Knows
  <2>3. CASE y = b /\ round[x] = round[b] /\ awake[b]
    <3>1. available[b] = available[x] /\ b \in available[b] /\ Knows(b, x) = members[b]
      BY <1>4, <2>3, PeersSeeTheSame, OwnFacts DEF Peers
    <3>2. Knows(b, x)' = available[x]
      BY <1>0, <1>4, <2>3, <3>1 DEF Knows
    <3> QED
      BY <1>0, <2>3, <3>1, <3>2
  <2>4. CASE y = b /\ round[x] = round[b] /\ ~awake[b]
    BY <1>0, <1>4, <2>4 DEF Knows
  <2>5. CASE y = b /\ round[x] > round[b]
    <3>1. Knows(b, x) = {}
      BY <2>5 DEF Knows
    <3>2. Knows(b, x)' = {}
      BY <1>0, <1>4, <2>5 DEF Knows
    <3> QED
      BY <2>5, <3>1, <3>2
  <2> QED
    BY <2>1, <2>2, <2>3, <2>4, <2>5
<1>5. Knows(b, b)' = {b}
  BY <1>0 DEF Knows
<1>6. ASSUME NEW y \in Brokers, y # b
      PROVE  Knows(y, b)' = IF awake[y] /\ round[y] = n THEN members[y] ELSE {}
  BY <1>0, <1>6 DEF Knows
<1>7. ~Surpassed(b)'
  <2> SUFFICES ASSUME NEW c \in V, {b} \subseteq Knows(c, b)', Knows(c, b)' # {b}
               PROVE  FALSE
    BY <1>0 DEF Surpassed
  <2> QED
    BY <1>2, <1>5, <1>6
<1>8. ASSUME NEW x \in Brokers, x # b, awake[x]
      PROVE  Surpassed(x)' <=> Surpassed(x)
  <2>1. \A y \in Brokers : (members[x] \subseteq Knows(y, x)' /\ Knows(y, x)' # members[x])
                       <=> (members[x] \subseteq Knows(y, x) /\ Knows(y, x) # members[x])
    <3> SUFFICES ASSUME NEW y \in Brokers
                 PROVE  (members[x] \subseteq Knows(y, x)' /\ Knows(y, x)' # members[x])
                       <=> (members[x] \subseteq Knows(y, x) /\ Knows(y, x) # members[x])
      OBVIOUS
    <3>1. CASE y = b /\ round[x] = n
      BY <1>2, <1>8, <3>1, OwnFacts
    <3>2. CASE ~(y = b /\ round[x] = n)
      BY <1>4, <1>8, <3>2
    <3> QED
      BY <3>1, <3>2
  <2> QED
    BY <1>0, <1>8, <2>1, TypeFacts DEF Surpassed
<1> QED
  BY <1>1, <1>2, <1>3, <1>4, <1>5, <1>6, <1>7, <1>8

LEMMA StartInv ==
    ASSUME FragmentsInv, NEW b \in Brokers, NEW V \in SUBSET Brokers, Start(b, V)
    PROVE  FragmentsInv'
<1> USE DEF FragmentsInv
<1>a. PICK n : n = round'[b]
  OBVIOUS
<1>0. /\ sent = {} /\ sent' = {}
      /\ n \in Nat /\ round[b] < n /\ b \in V /\ round'[b] = n
      /\ awake[b] => n = round[b] + 1 /\ members[b] = available[b]
      /\ \A c \in Brokers : awake[c] =>
            /\ round[c] = n => available[c] = V
            /\ ~awake[b] /\ round[c] > round[b] /\ round[c] < n => b \notin available[c]
  BY <1>a, StartGuard
<1>   /\ awake'[b] /\ available'[b] = V /\ members'[b] = {b}
      /\ linked'[b] = {} /\ asked'[b] = {} /\ edge'[b] \in Reports(b, {b}, V)
      /\ \A k : k \in received'[b] <=> k \in received[b] /\ k.number >= n
      /\ \A x \in Brokers \ {b} :
            /\ round'[x] = round[x] /\ (awake'[x] <=> awake[x])
            /\ available'[x] = available[x] /\ members'[x] = members[x]
            /\ linked'[x] = linked[x] /\ asked'[x] = asked[x] /\ edge'[x] = edge[x]
            /\ received'[x] = received[x]
      /\ UNCHANGED <<delay, chosen, updates>> /\ FragmentsTypeOK'
  BY <1>a, StartStep
<1>1. /\ \A x, y \in Brokers : x # b /\ y # b => (Peers(x, y)' <=> Peers(x, y))
      /\ \A x \in Brokers : x # b /\ awake[x] /\ round[x] = n =>
            /\ Peers(b, x)' /\ b \notin members[x]
            /\ Knows(b, x) = {} /\ Knows(b, x)' = {b}
      /\ \A x \in Brokers : x # b /\ ~(awake[x] /\ round[x] = n) => ~Peers(x, b)' /\ ~Peers(b, x)'
      /\ \A x, y \in Brokers : x # b /\ awake[x] /\ ~(y = b /\ round[x] = n)
            => Knows(y, x)' = Knows(y, x)
      /\ Knows(b, b)' = {b}
      /\ \A y \in Brokers : y # b =>
            Knows(y, b)' = IF awake[y] /\ round[y] = n THEN members[y] ELSE {}
      /\ ~Surpassed(b)'
      /\ \A x \in Brokers : x # b /\ awake[x] => (Surpassed(x)' <=> Surpassed(x))
  BY <1>a, StartView
<1>2. /\ chosen[b] = None
      /\ \A y \in Brokers : ~Pending(b, y)
      /\ \A x \in Brokers : chosen[x] # None => b \notin members[x]
      /\ \A x, y \in Brokers : Pending(x, y) => b \notin members[x]
      /\ \A u \in updates : u.to # b
  <2>1. CASE awake[b]
    BY <1>0, <2>1, ConvergedIsDone
  <2>2. CASE ~awake[b]
    BY <2>2 DEF ChosenOK, PendingOK, Pending, Full, Peers, UpdatesOK
  <2> QED
    BY <2>1, <2>2
<1> \A x \in Brokers : round[x] \in Nat /\ members[x] \subseteq Brokers /\ available[x] \subseteq Brokers
  BY TypeFacts
<1>3. Own'
  <2> SUFFICES ASSUME NEW x \in Brokers, awake'[x]
               PROVE  /\ x \in members'[x] /\ members'[x] \subseteq available'[x]
                      /\ linked'[x] \subseteq members'[x] \ {x}
                      /\ \A c \in available'[x] : \A d \in Knows(c, x)' : round'[d] >= round'[x]
                      /\ \A c \in Brokers : Peers(x, c)' => available'[c] = available'[x]
    BY DEF Own
  <2>1. CASE x = b
    <3>1. ASSUME NEW c \in V, NEW d \in Knows(c, b)'
          PROVE  round'[d] >= n
      <4>1. CASE c = b
        BY <1>0, <1>1, <3>1, <4>1
      <4>2. CASE c # b
        <5>1. awake[c] /\ round[c] = n /\ d \in members[c]
          BY <1>1, <3>1, <4>2
        <5>2. round[d] >= n /\ d \in Brokers
          BY <5>1, OwnFacts DEF Own
        <5> QED
          BY <1>0, <5>2
      <4> QED
        BY <4>1, <4>2
    <3>2. ASSUME NEW c \in Brokers, Peers(b, c)'
          PROVE  available'[c] = V
      BY <1>0, <1>1, <3>2
    <3> QED
      BY <1>0, <2>1, <3>1, <3>2
  <2>2. CASE x # b
    <3>0. awake[x]
      BY <1>0, <2>2
    <3>1. ASSUME NEW c \in available[x], NEW d \in Knows(c, x)'
          PROVE  round'[d] >= round[x]
      <4>1. CASE c = b /\ round[x] = n
        BY <1>0, <1>1, <2>2, <3>0, <3>1, <4>1
      <4>2. CASE ~(c = b /\ round[x] = n)
        <5>1. d \in Knows(c, x)
          BY <1>1, <2>2, <3>0, <3>1, <4>2
        <5>2. round[d] >= round[x] /\ d \in Brokers
          BY <3>0, <5>1, KnownAreAvailable DEF Own
        <5> QED
          BY <1>0, <5>2
      <4> QED
        BY <4>1, <4>2
    <3>2. ASSUME NEW c \in Brokers, Peers(x, c)'
          PROVE  available'[c] = available[x]
      <4>1. CASE c = b
        <5>1. round[x] = n
          BY <1>0, <2>2, <3>2, <4>1 DEF Peers
        <5> QED
          BY <1>0, <3>0, <4>1, <5>1
      <4>2. CASE c # b
        BY <1>0, <1>1, <2>2, <3>0, <3>2, <4>2 DEF Own
      <4> QED
        BY <4>1, <4>2
    <3> QED
      BY <1>0, <2>2, <3>0, <3>1, <3>2, OwnFacts
  <2> QED
    BY <2>1, <2>2
<1>4. Nested'
  <2> SUFFICES ASSUME NEW x \in Brokers, NEW y \in Brokers, Peers(x, y)',
                      members'[x] \cap members'[y] # {}
               PROVE  members'[x] \subseteq members'[y] \/ members'[y] \subseteq members'[x]
    BY DEF Nested
  <2>1. CASE x = b \/ y = b
    BY <1>0, <2>1
  <2>2. CASE x # b /\ y # b
    BY <1>0, <1>1, <2>2 DEF Nested
  <2> QED
    BY <2>1, <2>2
<1>5. Waits'
  <2> SUFFICES ASSUME NEW x \in Brokers, awake'[x], Surpassed(x)', NEW c \in members'[x]
               PROVE  members'[x] \subseteq Knows(c, x)'
    BY DEF Waits
  <2>1. x # b /\ awake[x] /\ Surpassed(x) /\ members'[x] = members[x]
    BY <1>0, <1>1
  <2>2. members[x] \subseteq Knows(c, x)
    BY <2>1 DEF Waits
  <2>3. Knows(c, x)' = Knows(c, x)
    BY <1>1, <2>1
  <2> QED
    BY <2>1, <2>2, <2>3
<1>6. EdgeOK'
  <2> SUFFICES ASSUME NEW x \in Brokers, edge'[x] # None
               PROVE  /\ awake'[x] /\ ~Surpassed(x)'
                      /\ edge'[x] \in available'[x] \ members'[x]
                      /\ \A c \in available'[x] \ members'[x] :
                            delay'[x][edge'[x]] <= delay'[x][c]
    BY DEF EdgeOK
  <2>1. CASE x = b
    BY <1>0, <1>1, <2>1 DEF Reports
  <2>2. CASE x # b
    BY <1>0, <1>1, <2>2 DEF EdgeOK
  <2> QED
    BY <2>1, <2>2
<1>7. ASSUME NEW x \in Brokers, x # b, b \notin members[x]
      PROVE  /\ Full(x) /\ x \in members[x] => Full(x)'
             /\ Idle(x) => Idle(x)'
             /\ \A y : Shortest(x, y) => Shortest(x, y)'
  <2>1. Full(x) /\ x \in members[x] => Full(x)'
    BY <1>0, <1>1, <1>7 DEF Full
  <2>2. Idle(x) => Idle(x)'
    BY <1>0, <1>7 DEF Idle
  <2>3. \A y : Shortest(x, y) => Shortest(x, y)'
    BY <1>0, <1>7 DEF Shortest
  <2> QED
    BY <2>1, <2>2, <2>3
<1>8. ChosenOK'
  <2> SUFFICES ASSUME NEW x \in Brokers, chosen'[x] # None
               PROVE  /\ awake'[x] /\ ~Surpassed(x)' /\ Full(x)' /\ Idle(x)'
                      /\ Shortest(x, chosen[x])' /\ chosen'[x] = chosen[x]
                      /\ \A d \in members'[x] : chosen'[d] # None => d = x
    BY DEF ChosenOK
  <2>1. x # b /\ b \notin members[x] /\ chosen[x] # None
    BY <1>0, <1>2
  <2>2. /\ awake[x] /\ ~Surpassed(x) /\ Full(x) /\ Idle(x) /\ Shortest(x, chosen[x])
        /\ \A c \in members[x] : chosen[c] # None => c = x
    BY <2>1 DEF ChosenOK
  <2>3. Shortest(x, chosen[x])'
    BY <1>0, <2>1, <2>2 DEF Shortest
  <2> QED
    BY <1>0, <1>1, <1>7, <2>1, <2>2, <2>3, OwnFacts
<1>9. \A x, y \in Brokers : /\ Pending(x, y)' <=> Pending(x, y)
                            /\ x # b => request(x, y)' = request(x, y)
  BY <1>0, <1>2 DEF Pending, request
<1>10. \A x, y \in Brokers : ~Half(x, y)
  BY <1>0 DEF Half
<1>11. PendingOK'
  <2> SUFFICES ASSUME NEW p \in Brokers, NEW q \in Brokers, Pending(p, q)'
               PROVE  /\ Full(p)' /\ Idle(p)'
                      /\ \A d \in members'[p] : chosen'[d] = None
                      /\ \A d \in members'[p], z \in Brokers : Pending(d, z)' => d = p /\ z = q
                      /\ Shortest(p, q)'
                      /\ ~Surpassed(p)' \/ Half(q, p)'
                      /\ \/ request(p, q)' \in sent' \/ request(p, q)' \in received'[q]
                         \/ Half(q, p)'
    BY DEF PendingOK
  <2>1. Pending(p, q) /\ p # b /\ b \notin members[p] /\ awake[p] /\ p \in members[p]
    BY <1>2, <1>9, OwnFacts DEF Pending
  <2>2. /\ Full(p) /\ Idle(p)
        /\ \A d \in members[p] : chosen[d] = None
        /\ \A d \in members[p], z \in Brokers : Pending(d, z) => d = p /\ z = q
        /\ Shortest(p, q) /\ ~Surpassed(p) /\ request(p, q) \in received[q]
    BY <1>0, <1>10, <2>1 DEF PendingOK
  <2>3. request(p, q) \in received'[q]
    <3>1. CASE q # b
      BY <1>0, <2>2, <3>1
    <3>2. CASE q = b
      <4>1. b \in available[p] \ members[p] /\ members[p] \subseteq available[p]
        BY <2>1, <2>2, <3>2, OwnFacts DEF Shortest
      <4>2. Knows(b, p) # available[p]
        BY <2>1, <2>2, <4>1 DEF Surpassed
      <4>3. round[p] > round[b]
        <5>1. CASE round[p] = round[b] /\ awake[b]
          <6>1. Knows(b, p) = members[b] /\ available[b] = available[p]
            BY <2>1, <5>1, PeersSeeTheSame DEF Peers
          <6> QED
            BY <1>0, <4>2, <5>1, <6>1
        <5>2. CASE round[p] <= round[b] /\ ~(round[p] = round[b] /\ awake[b])
          BY <4>1, <4>2, <5>2 DEF Knows
        <5> QED
          BY <5>1, <5>2
      <4>4. round[p] >= n
        BY <1>0, <2>1, <4>1, <4>3
      <4>5. request(p, q).number = round[p]
        BY DEF request
      <4> QED
        BY <1>0, <2>2, <3>2, <4>4, <4>5
    <3> QED
      BY <3>1, <3>2
  <2> QED
    BY <1>0, <1>1, <1>7, <1>9, <2>1, <2>2, <2>3
<1>12. SentOK'
  BY <1>0 DEF SentOK
<1>13. ReceivedOK'
  <2> SUFFICES ASSUME NEW z \in Brokers, NEW k \in received'[z]
               PROVE  /\ k.to = z /\ k.from # z /\ k.number <= round'[k.from]
                      /\ awake'[k.from] /\ k.number = round'[k.from] /\ z \notin members'[k.from]
                           => z \in asked'[k.from]
                      /\ \/ k.number > round'[z]
                         \/ awake'[z] /\ k.number = round'[z] /\ k.from \notin members'[z]
                         => /\ Pending(k.from, z)' /\ k = request(k.from, z)'
                            /\ k.number = round'[z] => k.from \notin asked'[z]
    BY DEF ReceivedOK
  <2>0. k \in received[z]
    BY <1>0
  <2>1. k.from \in Brokers /\ k.number \in Nat
    BY <2>0 DEF FragmentsTypeOK, Request
  <2>2. /\ k.to = z /\ k.from # z /\ k.number <= round[k.from]
        /\ awake[k.from] /\ k.number = round[k.from] /\ z \notin members[k.from]
             => z \in asked[k.from]
        /\ \/ k.number > round[z]
           \/ awake[z] /\ k.number = round[z] /\ k.from \notin members[z]
           => /\ Pending(k.from, z) /\ k = request(k.from, z)
              /\ k.number = round[z] => k.from \notin asked[z]
    BY <2>0 DEF ReceivedOK
  <2>3. CASE z = b
    <3>1. k.number >= n /\ k.from # b
      BY <1>0, <2>2, <2>3
    <3>2. Pending(k.from, b) /\ k = request(k.from, b)
      BY <1>0, <2>1, <2>2, <2>3, <3>1
    <3> QED
      BY <1>0, <1>9, <2>1, <2>2, <2>3, <3>1, <3>2
  <2>4. CASE z # b /\ k.from = b
    BY <1>0, <1>2, <2>1, <2>2, <2>4
  <2>5. CASE z # b /\ k.from # b
    BY <1>0, <1>9, <2>1, <2>2, <2>5
  <2> QED
    BY <2>3, <2>4, <2>5
<1>14. \A x, y, z \in Brokers : z # b /\ awake[z] => (Joined(x, y, z)' => Joined(x, y, z))
  BY <1>0, <1>1 DEF Joined
<1>15. \A S \in SUBSET Brokers, x, y, z \in Brokers :
          z # b /\ awake[z] /\ OnlyOut(S, x, y, z) => OnlyOut(S, x, y, z)'
  BY <1>14 DEF OnlyOut
<1>16. UpdatesOK'
  <2> SUFFICES ASSUME NEW u \in updates
             PROVE  LET e == u.to IN
                    /\ awake'[e] /\ u.from \in linked'[e]
                    /\ u.members = Knows(u.from, e)'
                    /\ members'[e] \subseteq u.members /\ members'[e] # u.members
                    /\ u.members \subseteq available'[e]
                    /\ \E S \in SUBSET Brokers :
                          /\ OnlyOut(S, e, u.from, e)'
                          /\ \A c \in S \cap members'[e] : Knows(c, e)' = members'[e]
    BY <1>0 DEF UpdatesOK
  <2> DEFINE e == u.to
  <2>1. e \in Brokers /\ u.from \in Brokers /\ e # b
    BY <1>2 DEF FragmentsTypeOK, Update
  <2>2. /\ awake[e] /\ u.from \in linked[e] /\ u.members = Knows(u.from, e)
        /\ members[e] \subseteq u.members /\ members[e] # u.members
        /\ u.members \subseteq available[e]
    BY DEF UpdatesOK
  <2>3. PICK S \in SUBSET Brokers :
            OnlyOut(S, e, u.from, e) /\ \A c \in S \cap members[e] : Knows(c, e) = members[e]
    BY DEF UpdatesOK
  <2>4. e \in members[e]
    BY <2>1, <2>2, OwnFacts
  <2>5. Knows(u.from, e)' = Knows(u.from, e)
    BY <1>1, <2>1, <2>2, <2>4
  <2>6. \A c \in S \cap members[e] : Knows(c, e)' = members[e]
    BY <1>1, <2>1, <2>2, <2>3
  <2>7. OnlyOut(S, e, u.from, e)'
    BY <1>15, <2>1, <2>2, <2>3
  <2> QED
    BY <1>0, <2>1, <2>2, <2>5, <2>6, <2>7
<1>17. LinksOK'
  <2> SUFFICES ASSUME NEW x \in Brokers, awake'[x], NEW c \in linked'[x]
             PROVE  /\ Peers(x, c)' => x \in linked'[c] \/ Half(x, c)'
                    /\ members'[x] \subseteq Knows(c, x)' /\ Knows(c, x)' # members'[x]
                         => [from |-> c, to |-> x, members |-> Knows(c, x)'] \in updates'
                    /\ \E S \in SUBSET Brokers : OnlyOut(S, x, c, x)'
    BY DEF LinksOK
  <2>1. x # b /\ awake[x] /\ c \in linked[x] /\ c \in members[x] /\ c \in Brokers
    BY <1>0, OwnFacts
  <2>2. ~(c = b /\ round[x] = n)
    BY <1>1, <2>1
  <2>3. Peers(x, c)' => Peers(x, c) /\ c # b
    BY <1>0, <1>1, <2>1, <2>2
  <2> QED
    BY <1>0, <1>1, <1>10, <1>15, <2>1, <2>2, <2>3 DEF LinksOK
<1> QED
  BY <1>0, <1>3, <1>4, <1>5, <1>6, <1>8, <1>11, <1>12, <1>13, <1>16, <1>17

-----------------------------------------------------------------------------
(* A broker links to another one and merges the fragments.                 *)

(* What it changes: broker x, who knew K, links to y and knows N.          *)
Merged(x, y, K, N) ==
    /\ members' \in Set /\ linked' \in Set /\ updates' \subseteq Update
    /\ edge' \in [Brokers -> Brokers \cup {None}]
    /\ UNCHANGED <<delay, round, awake, available>>
    /\ members'[x] = N /\ \A d \in Brokers : d # x => members'[d] = members[d]
    /\ linked'[x] = linked[x] \cup {y}
    /\ \A d \in Brokers : d # x => linked'[d] = linked[d]
    /\ edge'[x] \in Reports(x, N, available[x])
    /\ \A d \in Brokers : d # x => edge'[d] = edge[d]
    /\ updates' = updates \cup {[from |-> x, to |-> d, members |-> N] : d \in linked[x]}
    /\ \A c, d \in Brokers : Peers(c, d)' <=> Peers(c, d)
    /\ \A c, d \in Brokers : c # x => Knows(c, d)' = Knows(c, d)
    /\ \A d \in Brokers : Peers(x, d) => Knows(x, d) = K /\ Knows(x, d)' = N
    /\ \A d \in Brokers : ~Peers(x, d) /\ awake[d] => Knows(x, d)' = Knows(x, d)

LEMMA MergeStep ==
    ASSUME FragmentsInv, NEW x \in Brokers, NEW y \in Brokers, NEW M \in SUBSET Brokers,
           NEW N, NEW K,
           awake[x], Merge(x, y, M), K = members[x], N = K \cup M
    PROVE  Merged(x, y, K, N)
<1> USE DEF FragmentsInv
<1>1. /\ members' = [members EXCEPT ![x] = N]
      /\ linked' = [linked EXCEPT ![x] = linked[x] \cup {y}]
      /\ updates' = updates \cup {[from |-> x, to |-> d, members |-> N] : d \in linked[x]}
      /\ UNCHANGED <<delay, round, awake, available>>
  BY DEF Merge
<1>2. PICK r \in Reports(x, N, available[x]) : edge' = [edge EXCEPT ![x] = r]
  BY DEF Merge
<1>3. Reports(x, N, available[x]) \subseteq Brokers \cup {None}
  BY TypeFacts DEF Reports
<1>4. N \in SUBSET Brokers
  BY TypeFacts
<1>5. members' \in Set /\ linked' \in Set /\ updates' \subseteq Update
  BY <1>1, <1>4, TypeFacts DEF FragmentsTypeOK, Set, Update
<1>6. /\ members'[x] = N /\ \A d \in Brokers : d # x => members'[d] = members[d]
      /\ linked'[x] = linked[x] \cup {y}
      /\ \A d \in Brokers : d # x => linked'[d] = linked[d]
  BY <1>1 DEF FragmentsTypeOK, Set
<1>7. /\ edge'[x] \in Reports(x, N, available[x])
      /\ \A d \in Brokers : d # x => edge'[d] = edge[d]
      /\ edge' \in [Brokers -> Brokers \cup {None}]
  BY <1>2, <1>3 DEF FragmentsTypeOK
<1>8. \A c, d \in Brokers : Peers(c, d)' <=> Peers(c, d)
  BY <1>1 DEF Peers
<1>9. \A c, d \in Brokers : c # x => Knows(c, d)' = Knows(c, d)
  BY <1>1, <1>6 DEF Knows
<1>10. \A d \in Brokers : Peers(x, d) => Knows(x, d) = K /\ Knows(x, d)' = N
  BY <1>1, <1>6 DEF Knows, Peers
<1>11. \A d \in Brokers : ~Peers(x, d) /\ awake[d] => Knows(x, d)' = Knows(x, d)
  BY <1>1, <1>6 DEF Knows, Peers
<1> QED
  BY <1>1, <1>5, <1>6, <1>7, <1>8, <1>9, <1>10, <1>11 DEF Merged

(* A fragment all members of which know it, and nobody more, is closed.    *)
LEMMA Block ==
    ASSUME FragmentsInv, NEW x \in Brokers, awake[x], Full(x), ~Surpassed(x)
    PROVE  /\ \A d \in Brokers : Knows(d, x) \cap members[x] # {}
                                   => Knows(d, x) \subseteq members[x]
           /\ \A u \in members[x], v \in Brokers :
                 Joined(u, v, x) \/ Joined(v, u, x) => v \in members[x]
<1> USE DEF FragmentsInv
<1>1. ASSUME NEW d \in Brokers, Knows(d, x) \cap members[x] # {}
      PROVE  Knows(d, x) \subseteq members[x]
  <2>1. Knows(x, x) = members[x]
    BY OwnFacts
  <2>2. d \in available[x]
    <3>1. CASE Peers(d, x)
      BY <3>1, PeersSeeTheSame, OwnFacts DEF Peers
    <3>2. CASE ~Peers(d, x)
      BY <1>1, <3>2 DEF Knows, Peers
    <3> QED
      BY <3>1, <3>2
  <2> QED
    BY <1>1, <2>1, <2>2, NestedKnowledge DEF Surpassed
<1>2. ASSUME NEW u \in members[x], NEW v \in Brokers, Joined(u, v, x) \/ Joined(v, u, x)
      PROVE  v \in members[x]
  <2>0. u \in Brokers
    BY TypeFacts
  <2>1. CASE Peers(u, x) /\ v \in linked[u]
    BY <2>0, <2>1, OwnFacts DEF Full, Peers
  <2>2. CASE Peers(v, x) /\ u \in linked[v]
    <3>1. u \in members[v] /\ v \in members[v] /\ Knows(v, x) = members[v]
      BY <2>0, <2>2, OwnFacts, PeersSeeTheSame DEF Peers
    <3> QED
      BY <1>1, <3>1
  <2> QED
    BY <1>2, <2>1, <2>2 DEF Joined
<1> QED
  BY <1>1, <1>2

(* A link between a closed set and the rest can be added: another cut      *)
(* shows that a link elsewhere is the only way over.                       *)
NewLink(B, s, t, z) ==
    /\ s \notin B /\ t \in B
    /\ \A u \in B, v \in Brokers : Joined(u, v, z) => v \in B
    /\ \A u, v \in Brokers : Joined(u, v, z)' =>
          Joined(u, v, z) \/ (u = s /\ v = t) \/ (u = t /\ v = s)

LEMMA CutStays ==
    ASSUME NEW S \in SUBSET Brokers, NEW B \in SUBSET Brokers,
           NEW p \in Brokers, NEW c \in Brokers, NEW s \in Brokers, NEW t \in Brokers,
           NEW z \in Brokers,
           p \notin B, c \notin B, OnlyOut(S, p, c, z), NewLink(B, s, t, z)
    PROVE  \E T \in SUBSET Brokers : OnlyOut(T, p, c, z)' /\ T \ B = S \ B
<1> USE DEF NewLink
<1>0. \A u, v \in Brokers : Joined(u, v, z) <=> Joined(v, u, z)
  BY DEF Joined
<1>1. CASE s \in S
  <2> DEFINE T == S \cup B
  <2>1. p \in T /\ c \notin T
    BY DEF OnlyOut
  <2>2. ASSUME NEW u \in T, NEW v \in Brokers \ T, Joined(u, v, z)'
        PROVE  u = p /\ v = c
    <3>1. Joined(u, v, z)
      BY <1>1, <2>2
    <3> QED
      BY <2>2, <3>1 DEF OnlyOut
  <2>3. OnlyOut(T, p, c, z)'
    BY <2>1, <2>2 DEF OnlyOut
  <2> QED
    BY <2>3
<1>2. CASE s \notin S
  <2> DEFINE T == S \ B
  <2>1. p \in T /\ c \notin T
    BY DEF OnlyOut
  <2>2. ASSUME NEW u \in T, NEW v \in Brokers \ T, Joined(u, v, z)'
        PROVE  u = p /\ v = c
    <3>1. Joined(u, v, z) /\ Joined(v, u, z)
      BY <1>0, <1>2, <2>2
    <3> QED
      BY <2>2, <3>1 DEF OnlyOut
  <2>3. OnlyOut(T, p, c, z)'
    BY <2>1, <2>2 DEF OnlyOut
  <2> QED
    BY <2>3
<1> QED
  BY <1>1, <1>2

(* Two fragments whose ends x and y have asked each other.                 *)
Ready(x, y) ==
    /\ Peers(x, y) /\ Full(x) /\ Full(y) /\ Idle(x) /\ Idle(y)
    /\ ~Surpassed(x) /\ ~Surpassed(y)
    /\ members[x] \cap members[y] = {}
    /\ Pending(y, x)
    /\ \A d \in members[x] : chosen[d] # None => d = x
    /\ \A d \in members[y] : chosen[d] = None
    /\ \A p \in members[x], q \in Brokers : Pending(p, q) => p = x /\ q = y
    /\ \A p \in members[y], q \in Brokers : Pending(p, q) => p = y /\ q = x

(* The end x, the first to be asked, merges and lets its answer r to y be  *)
(* under way; the request of y is there no more.                           *)
First(x, y, r) ==
    /\ Ready(x, y)
    /\ Merge(x, y, members[y])
    /\ UNCHANGED <<asked, received>>
    /\ chosen' \in [Brokers -> Brokers \cup {None}]
    /\ chosen'[x] = None /\ \A d \in Brokers : d # x => chosen'[d] = chosen[d]
    /\ r = request(x, y) /\ r \in sent' /\ sent' \subseteq sent \cup {r}
    /\ \A k \in sent : k \in sent' \/ (k.from = y /\ k.to = x)
    /\ \A k \in sent' : /\ ~(k.from = y /\ k.to = x)
                        /\ k.from = x /\ k.to = y => k = r

LEMMA AnswerIsFirst ==
    ASSUME FragmentsInv, NEW b \in Brokers, Answer(b)
    PROVE  /\ chosen[b] \in Brokers
           /\ First(b, chosen[b], request(b, chosen[b]))
<1> USE DEF FragmentsInv
<1>a. PICK c : c = chosen[b]
  OBVIOUS
<1>b. PICK r : r = request(b, c)
  OBVIOUS
<1>0. PICK k \in received[b] :
         /\ c # None /\ k.from = c /\ k.number = round[b] /\ Merge(b, c, k.members)
         /\ sent' = sent \cup {r} /\ UNCHANGED <<asked, received>>
  BY <1>a, <1>b DEF Answer
<1>1. chosen'[b] = None /\ \A x \in Brokers : x # b => chosen'[x] = chosen[x]
  BY DEF Answer, FragmentsTypeOK
<1>2. /\ awake[b] /\ ~Surpassed(b) /\ Full(b) /\ Idle(b) /\ Shortest(b, c)
      /\ \A d \in members[b] : chosen[d] # None => d = b
  BY <1>a, <1>0 DEF ChosenOK
<1>3. c \in available[b] \ members[b] /\ c \in Brokers /\ b \in members[b] /\ b # c
  BY <1>2, OwnFacts, TypeFacts DEF Shortest
<1>4. Pending(c, b) /\ k = request(c, b)
  BY <1>0, <1>2, <1>3 DEF ReceivedOK
<1>5. Peers(b, c) /\ k.members = members[c] /\ b \notin members[c] /\ c \in members[c]
  BY <1>0, <1>2, <1>3, <1>4, OwnFacts DEF Peers, Pending, request
<1>6. ~Half(b, c)
  BY <1>2, <1>3, OwnFacts DEF Half, HalfBy
<1>7. /\ Full(c) /\ Idle(c) /\ ~Surpassed(c)
      /\ \A d \in members[c] : chosen[d] = None
      /\ \A d \in members[c], z \in Brokers : Pending(d, z) => d = c /\ z = b
  BY <1>3, <1>4, <1>6 DEF PendingOK
<1>8. members[b] \cap members[c] = {}
  <2>1. ~(members[b] \subseteq members[c]) /\ ~(members[c] \subseteq members[b])
    BY <1>3, <1>5
  <2> QED
    BY <1>3, <1>5, <2>1 DEF Nested
<1>9. ASSUME NEW p \in members[b], NEW q \in Brokers, Pending(p, q)
      PROVE  FALSE
  <2>1. p \in Brokers /\ members[p] = members[b]
    BY <1>2, <1>9, TypeFacts DEF Full
  <2>2. chosen[b] = None
    BY <1>3, <1>9, <2>1 DEF PendingOK
  <2> QED
    BY <1>a, <1>0, <2>2
<1>10. Ready(b, c)
  BY <1>2, <1>3, <1>4, <1>5, <1>7, <1>8, <1>9 DEF Ready
<1>11. ASSUME NEW l \in sent, l.from = c, l.to = b
       PROVE  FALSE
  <2>1. CASE Open(l)
    <3>1. l.number = round[c] /\ round[c] = round[b]
      BY <1>5, <1>11, <2>1 DEF Open, request, Peers
    <3>2. k.number < l.number
      BY <1>0, <1>11, <2>1 DEF Open
    <3> QED
      BY <1>0, <3>1, <3>2, TypeFacts
  <2>2. CASE Pending(b, c)
    BY <1>3, <1>9, <2>2
  <2> QED
    BY <1>11, <2>1, <2>2 DEF SentOK
<1>12. ASSUME NEW l \in sent, l.from = b, l.to = c
       PROVE  FALSE
  <2>1. CASE Open(l)
    BY <1>3, <1>9, <1>12, <2>1 DEF Open
  <2>2. CASE HalfBy(l, b, c)
    BY <1>6, <2>2 DEF Half
  <2> QED
    BY <1>12, <2>1, <2>2 DEF SentOK
<1>13. r.from = b /\ r.to = c
  BY <1>b DEF request
<1>14. chosen' \in [Brokers -> Brokers \cup {None}]
  BY DEF Answer, FragmentsTypeOK
<1>15. First(b, c, r)
  BY <1>b, <1>0, <1>1, <1>3, <1>5, <1>10, <1>11, <1>12, <1>13, <1>14 DEF First
<1> QED
  BY <1>a, <1>b, <1>3, <1>15

LEMMA MeetIsFirst ==
    ASSUME FragmentsInv, NEW m \in sent, Meet(m), Open(m)
    PROVE  /\ m.from \in Brokers /\ m.to \in Brokers
           /\ First(m.to, m.from, request(m.to, m.from))
<1> USE DEF FragmentsInv
<1>a. PICK x : x = m.to
  OBVIOUS
<1>b. PICK y : y = m.from
  OBVIOUS
<1>c. PICK r : r = request(x, y)
  OBVIOUS
<1>0. /\ m.number = round[x] /\ y \in asked[x] /\ Merge(x, y, m.members)
      /\ sent' = sent \ {m} /\ UNCHANGED <<chosen, asked, received>>
  BY <1>a, <1>b DEF Meet
<1>1. x \in Brokers /\ y \in Brokers
  BY <1>a, <1>b DEF FragmentsTypeOK, Request
<1>2. Pending(y, x) /\ m = request(y, x) /\ (Peers(y, x) => y \notin members[x]) /\ x # y
  BY <1>a, <1>b DEF Open, SentOK
<1>3. /\ awake[y] /\ x \notin members[y] /\ y \in members[y] /\ round[x] = round[y]
      /\ m.members = members[y]
  BY <1>0, <1>1, <1>2, OwnFacts DEF Pending, request
<1>4. awake[x]
  <2> SUFFICES ASSUME ~awake[x] PROVE FALSE
    OBVIOUS
  <2>1. x \in available[y]
    BY <1>1, <1>2 DEF PendingOK, Shortest
  <2>2. Knows(x, y) = available[y]
    BY <1>3, <2>1, TypeFacts, <1>1 DEF Knows
  <2>3. Surpassed(y)
    BY <1>1, <1>3, <2>1, <2>2, OwnFacts DEF Surpassed
  <2>4. Half(x, y)
    BY <1>1, <1>2, <2>3 DEF PendingOK
  <2> QED
    BY <2>4 DEF Half, HalfBy, Peers
<1>5. Peers(x, y) /\ Peers(y, x) /\ y \notin members[x] /\ x \in members[x]
  BY <1>1, <1>2, <1>3, <1>4, OwnFacts DEF Peers
<1>6. Pending(x, y)
  BY <1>0, <1>4, <1>5 DEF Pending
<1>7. ~Half(x, y) /\ ~Half(y, x)
  BY <1>1, <1>3, <1>4, <1>5, OwnFacts DEF Half, HalfBy
<1>8. /\ Full(x) /\ Idle(x) /\ ~Surpassed(x)
      /\ \A d \in members[x] : chosen[d] = None
      /\ \A d \in members[x], z \in Brokers : Pending(d, z) => d = x /\ z = y
      /\ r \in sent \/ r \in received[y]
  BY <1>c, <1>1, <1>6, <1>7 DEF PendingOK
<1>9. /\ Full(y) /\ Idle(y) /\ ~Surpassed(y)
      /\ \A d \in members[y] : chosen[d] = None
      /\ \A d \in members[y], z \in Brokers : Pending(d, z) => d = y /\ z = x
  BY <1>1, <1>2, <1>7 DEF PendingOK
<1>10. members[x] \cap members[y] = {}
  <2>1. ~(members[x] \subseteq members[y]) /\ ~(members[y] \subseteq members[x])
    BY <1>3, <1>5
  <2> QED
    BY <1>1, <1>5, <2>1 DEF Nested
<1>11. Ready(x, y)
  BY <1>2, <1>5, <1>8, <1>9, <1>10 DEF Ready
<1>12. r.from = x /\ r.to = y /\ r.number = round[y]
  BY <1>c, <1>3 DEF request
<1>13. r \in sent
  <2> SUFFICES ASSUME r \in received[y] PROVE FALSE
    BY <1>8
  <2>1. x \notin asked[y]
    BY <1>1, <1>3, <1>12 DEF ReceivedOK
  <2> QED
    BY <1>2, <2>1 DEF Pending
<1>14. \A k \in sent : /\ k.from = y /\ k.to = x => k = m
                       /\ k.from = x /\ k.to = y => k = r
  BY <1>a, <1>b, <1>12, <1>13 DEF SentOK
<1>15. r \in sent'
  BY <1>a, <1>2, <1>0, <1>12, <1>13
<1>16. chosen'[x] = None /\ chosen' \in [Brokers -> Brokers \cup {None}]
       /\ \A d \in Brokers : d # x => chosen'[d] = chosen[d]
  BY <1>0, <1>5, <1>8 DEF FragmentsTypeOK
<1>17. First(x, y, r)
  BY <1>a, <1>b, <1>c, <1>0, <1>3, <1>11, <1>14, <1>15, <1>16 DEF First
<1> QED
  BY <1>a, <1>b, <1>c, <1>1, <1>17

(* Both ends before that step, and the step.                               *)
FirstMerged(x, y, A, B, N) ==
    /\ awake[x] /\ awake[y] /\ Peers(x, y) /\ x \in A /\ y \in B /\ A \cap B = {}
    /\ A \subseteq Brokers /\ B \subseteq Brokers
    /\ x \in available[x] /\ y \in available[x]
    /\ UNCHANGED <<asked, received>> /\ Merged(x, y, A, N)
    /\ A = members[x] /\ B = members[y] /\ N = A \cup B
    /\ Full(x) /\ Full(y) /\ ~Surpassed(x) /\ ~Surpassed(y)

LEMMA FirstStep ==
    ASSUME FragmentsInv, NEW x \in Brokers, NEW y \in Brokers, NEW A, NEW B, NEW N, NEW r,
           A = members[x], B = members[y], N = A \cup B, First(x, y, r)
    PROVE  FragmentsTypeOK' /\ FirstMerged(x, y, A, B, N)
<1> USE DEF FragmentsInv
<1>1. awake[x] /\ awake[y] /\ Peers(x, y) /\ A \cap B = {} /\ Merge(x, y, B)
  BY DEF First, Ready, Peers
<1>2. x \in A /\ y \in B /\ A \subseteq Brokers /\ B \in SUBSET Brokers
      /\ x \in available[x] /\ y \in available[x]
  BY <1>1, OwnFacts, TypeFacts, PeersSeeTheSame
<1>3. Merged(x, y, A, N)
  BY <1>1, <1>2, MergeStep
<1>4. UNCHANGED <<asked, received>> /\ chosen' \in [Brokers -> Brokers \cup {None}]
      /\ sent' \subseteq sent \cup {r} /\ r = request(x, y)
  BY DEF First
<1>5. r \in Request
  BY <1>4, TypeFacts DEF request, Request
<1>6. FragmentsTypeOK'
  BY <1>3, <1>4, <1>5 DEF FragmentsTypeOK, Merged
<1> QED
  BY <1>1, <1>2, <1>3, <1>4, <1>6 DEF First, Ready, FirstMerged

(* Who learns from the step that his fragment has been merged.             *)
LEMMA FirstSurpassed ==
    ASSUME FragmentsInv, NEW x \in Brokers, NEW y \in Brokers, NEW A, NEW B, NEW N, NEW r,
           A = members[x], B = members[y], N = A \cup B, First(x, y, r)
    PROVE  /\ ~Surpassed(x)'
           /\ \A d \in Brokers : d # x /\ awake[d] =>
                 /\ Surpassed(d) => Surpassed(d)'
                 /\ Surpassed(d)' => \/ Surpassed(d)
                                     \/ Peers(x, d) /\ (d \in A \/ d \in B) /\ Full(d)
<1>0. FirstMerged(x, y, A, B, N)
  BY FirstStep
<1> USE DEF FragmentsInv
<1>1. /\ awake[x] /\ awake[y] /\ Peers(x, y) /\ x \in A /\ y \in B /\ A \cap B = {}
      /\ A \subseteq Brokers /\ B \subseteq Brokers
      /\ members'[x] = N /\ \A d \in Brokers : d # x => members'[d] = members[d]
      /\ UNCHANGED <<round, awake, available>>
      /\ \A c, d \in Brokers : c # x => Knows(c, d)' = Knows(c, d)
      /\ \A d \in Brokers : Peers(x, d) => Knows(x, d) = A /\ Knows(x, d)' = N
      /\ \A d \in Brokers : ~Peers(x, d) /\ awake[d] => Knows(x, d)' = Knows(x, d)
  BY <1>0 DEF FirstMerged, Merged
<1>2. Full(x) /\ Full(y) /\ ~Surpassed(x) /\ A = members[x] /\ B = members[y] /\ N = A \cup B
  BY <1>0 DEF FirstMerged
<1>3. ~Surpassed(x)'
  <2> SUFFICES ASSUME NEW c \in available[x], N \subseteq Knows(c, x)', Knows(c, x)' # N
               PROVE  FALSE
    BY <1>1 DEF Surpassed
  <2>1. c \in Brokers
    BY TypeFacts
  <2>2. CASE c = x
    BY <1>1, <2>2, OwnFacts
  <2>3. CASE c # x
    <3>1. A \subseteq Knows(c, x) /\ A # Knows(c, x)
      BY <1>1, <1>2, <2>1, <2>3
    <3> QED
      BY <1>2, <3>1 DEF Surpassed
  <2> QED
    BY <2>2, <2>3
<1>4. ASSUME NEW d \in Brokers, d # x, awake[d], Surpassed(d)
      PROVE  Surpassed(d)'
  <2>1. PICK c \in available[d] : members[d] \subseteq Knows(c, d) /\ Knows(c, d) # members[d]
    BY <1>4 DEF Surpassed
  <2>2. c \in Brokers
    BY TypeFacts
  <2>3. CASE c = x /\ Peers(x, d)
    <3>1. members[d] \subseteq Knows(c, d)'
      BY <1>1, <1>2, <2>1, <2>3
    <3>2. members[d] # N
      BY <1>1, <1>2, <2>1, <2>3
    <3> QED
      BY <1>1, <1>4, <2>1, <2>3, <3>1, <3>2 DEF Surpassed
  <2>4. CASE ~(c = x /\ Peers(x, d))
    <3>1. Knows(c, d)' = Knows(c, d)
      BY <1>1, <1>4, <2>2, <2>4
    <3> QED
      BY <1>1, <1>4, <2>1, <3>1 DEF Surpassed
  <2> QED
    BY <2>3, <2>4
<1>5. ASSUME NEW d \in Brokers, d # x, awake[d], Surpassed(d)', ~Surpassed(d)
      PROVE  Peers(x, d) /\ (d \in A \/ d \in B) /\ Full(d)
  <2>1. PICK c \in available[d] : members[d] \subseteq Knows(c, d)' /\ Knows(c, d)' # members[d]
    BY <1>1, <1>5 DEF Surpassed
  <2>2. c \in Brokers
    BY TypeFacts
  <2>3. c = x /\ Peers(x, d)
    <3> SUFFICES ASSUME ~(c = x /\ Peers(x, d)) PROVE FALSE
      OBVIOUS
    <3>1. Knows(c, d)' = Knows(c, d)
      BY <1>1, <1>5, <2>2
    <3> QED
      BY <1>5, <2>1, <3>1 DEF Surpassed
  <2>4. d \in A \/ d \in B
    BY <1>1, <1>2, <1>5, <2>1, <2>3, OwnFacts
  <2>5. Full(d)
    <3>1. CASE d \in A
      BY <1>2, <2>3, <3>1 DEF Full, Peers
    <3>2. CASE d \in B
      BY <1>2, <2>3, <3>2 DEF Full, Peers
    <3> QED
      BY <2>4, <3>1, <3>2
  <2> QED
    BY <2>3, <2>4, <2>5
<1> QED
  BY <1>3, <1>4, <1>5

LEMMA FirstKnowledge ==
    ASSUME FragmentsInv, NEW x \in Brokers, NEW y \in Brokers, NEW r, First(x, y, r)
    PROVE  Own' /\ Nested' /\ Waits'
<1>a. PICK A : A = members[x]
  OBVIOUS
<1>b. PICK B : B = members[y]
  OBVIOUS
<1>c. PICK N : N = A \cup B
  OBVIOUS
<1>0. FirstMerged(x, y, A, B, N)
  BY <1>a, <1>b, <1>c, FirstStep
<1>1. /\ awake[x] /\ awake[y] /\ Peers(x, y) /\ x \in A /\ y \in B /\ A \cap B = {}
      /\ A \subseteq Brokers /\ B \subseteq Brokers
      /\ x \in available[x] /\ y \in available[x]
      /\ members'[x] = N /\ \A d \in Brokers : d # x => members'[d] = members[d]
      /\ linked'[x] = linked[x] \cup {y}
      /\ \A d \in Brokers : d # x => linked'[d] = linked[d]
      /\ UNCHANGED <<round, awake, available>>
      /\ \A c, d \in Brokers : Peers(c, d)' <=> Peers(c, d)
      /\ \A c, d \in Brokers : c # x => Knows(c, d)' = Knows(c, d)
      /\ \A d \in Brokers : Peers(x, d) => Knows(x, d) = A /\ Knows(x, d)' = N
      /\ \A d \in Brokers : ~Peers(x, d) /\ awake[d] => Knows(x, d)' = Knows(x, d)
  BY <1>0 DEF FirstMerged, Merged
<1> USE DEF FragmentsInv
<1>2. Full(x) /\ Full(y) /\ ~Surpassed(x) /\ ~Surpassed(y)
  BY <1>0 DEF FirstMerged
<1>3. Own'
  <2> SUFFICES ASSUME NEW p \in Brokers, awake[p]
               PROVE  /\ p \in members'[p] /\ members'[p] \subseteq available[p]
                      /\ linked'[p] \subseteq members'[p] \ {p}
                      /\ \A c \in available[p] : \A d \in Knows(c, p)' : round[d] >= round[p]
                      /\ \A c \in Brokers : Peers(p, c) => available[c] = available[p]
    BY <1>1 DEF Own
  <2>1. p \in members'[p] /\ members'[p] \subseteq available[p]
        /\ linked'[p] \subseteq members'[p] \ {p}
    <3>1. CASE p = x
      <4>1. A \subseteq available[x] /\ B \subseteq available[x] /\ linked[x] \subseteq A \ {x}
        BY <1>a, <1>b, <1>1, OwnFacts, PeersSeeTheSame
      <4> QED
        BY <1>c, <1>1, <3>1, <4>1
    <3>2. CASE p # x
      BY <1>1, <3>2, OwnFacts
    <3> QED
      BY <3>1, <3>2
  <2>2. ASSUME NEW c \in available[p], NEW d \in Knows(c, p)'
        PROVE  round[d] >= round[p]
    <3>0. c \in Brokers
      BY TypeFacts
    <3>1. CASE c = x /\ Peers(x, p)
      <4>1. Knows(x, p) = A /\ Knows(y, p) = B /\ y \in available[p]
        BY <1>a, <1>b, <1>1, <3>1, PeersSeeTheSame
      <4>2. d \in Knows(x, p) \/ d \in Knows(y, p)
        BY <1>c, <1>1, <2>2, <3>1, <4>1
      <4> QED
        BY <3>1, <4>1, <4>2 DEF Own
    <3>2. CASE ~(c = x /\ Peers(x, p))
      <4>1. d \in Knows(c, p)
        BY <1>1, <2>2, <3>0, <3>2
      <4> QED
        BY <4>1 DEF Own
    <3> QED
      BY <3>1, <3>2
  <2> QED
    BY <2>1, <2>2 DEF Own
<1>4. Nested'
  <2> SUFFICES ASSUME NEW p \in Brokers, NEW q \in Brokers, Peers(p, q),
                      members'[p] \cap members'[q] # {}
               PROVE  members'[p] \subseteq members'[q] \/ members'[q] \subseteq members'[p]
    BY <1>1 DEF Nested
  <2>1. ASSUME NEW d \in Brokers, Peers(x, d), members[d] \cap N # {}
        PROVE  members[d] \subseteq N
    <3>1. Knows(d, x) = members[d] /\ Knows(d, y) = members[d]
      BY <1>1, <2>1, PeersSeeTheSame
    <3>2. CASE members[d] \cap A # {}
      BY <1>a, <1>c, <1>1, <1>2, <3>1, <3>2, Block
    <3>3. CASE members[d] \cap B # {}
      BY <1>b, <1>c, <1>1, <1>2, <3>1, <3>3, Block
    <3> QED
      BY <1>c, <2>1, <3>2, <3>3
  <2>2. CASE p # x /\ q # x
    BY <1>1, <2>2 DEF Nested
  <2>3. CASE p = x /\ q # x
    BY <1>1, <2>1, <2>3
  <2>4. CASE p # x /\ q = x
    BY <1>1, <2>1, <2>4 DEF Peers
  <2>5. CASE p = x /\ q = x
    BY <2>5
  <2> QED
    BY <2>2, <2>3, <2>4, <2>5
<1>5. Waits'
  <2> SUFFICES ASSUME NEW p \in Brokers, awake[p], Surpassed(p)', NEW c \in members'[p]
               PROVE  members'[p] \subseteq Knows(c, p)'
    BY <1>1 DEF Waits
  <2>1. p # x
    BY <1>a, <1>b, <1>c, FirstSurpassed
  <2>2. members'[p] = members[p] /\ c \in members[p] /\ c \in Brokers
    BY <1>1, <2>1, TypeFacts
  <2>3. Knows(c, p) \subseteq Knows(c, p)'
    <3>1. CASE c = x /\ Peers(x, p)
      BY <1>c, <1>1, <3>1
    <3>2. CASE ~(c = x /\ Peers(x, p))
      BY <1>1, <2>2, <3>2
    <3> QED
      BY <3>1, <3>2
  <2>4. CASE Surpassed(p)
    BY <2>2, <2>3, <2>4 DEF Waits
  <2>5. CASE Full(p)
    <3>1. Knows(c, p) = members[p]
      BY <2>2, <2>5, PeersSeeTheSame DEF Full
    <3> QED
      BY <2>2, <2>3, <3>1
  <2> QED
    BY <1>a, <1>b, <1>c, <2>1, <2>4, <2>5, FirstSurpassed
<1> QED
  BY <1>3, <1>4, <1>5

(* A fragment that is complete and neither of the two stays as it is.      *)
Stays(d, x, B) ==
    /\ d # x /\ x \notin members[d] /\ members'[d] = members[d] /\ Full(d)'
    /\ d \notin B => (Surpassed(d)' <=> Surpassed(d))
    /\ Idle(d) => Idle(d)'
    /\ \A c \in Brokers : Shortest(d, c) => Shortest(d, c)'
    /\ \A c \in members[d] : c \in Brokers /\ c # x /\ members'[c] = members[c]
    /\ \A c \in Brokers : request(d, c)' = request(d, c)

LEMMA OthersStay ==
    ASSUME FragmentsInv, NEW x \in Brokers, NEW y \in Brokers, NEW A, NEW B, NEW N, NEW r,
           A = members[x], B = members[y], N = A \cup B, First(x, y, r),
           NEW d \in Brokers, awake[d], Full(d), d \notin A
    PROVE  Stays(d, x, B)
<1>0. FirstMerged(x, y, A, B, N)
  BY FirstStep
<1>1. /\ awake[x] /\ x \in A /\ A = members[x]
      /\ \A c \in Brokers : c # x => members'[c] = members[c] /\ edge'[c] = edge[c]
      /\ UNCHANGED <<delay, round, awake, available>>
      /\ \A b, c \in Brokers : Peers(b, c)' <=> Peers(b, c)
  BY <1>0 DEF FirstMerged, Merged
<1>2. d \in members[d] /\ members[d] \subseteq Brokers
  BY OwnFacts, TypeFacts DEF FragmentsInv
<1>3. d # x /\ x \notin members[d]
  BY <1>1, <1>2 DEF Full
<1>4. \A c \in members[d] : c \in Brokers /\ c # x /\ members'[c] = members[c]
                            /\ edge'[c] = edge[c]
  BY <1>1, <1>2, <1>3
<1>5. Full(d)'
  BY <1>1, <1>2, <1>4 DEF Full
<1>6. d \notin B => (Surpassed(d)' <=> Surpassed(d))
  <2>1. /\ Surpassed(d) => Surpassed(d)'
        /\ Surpassed(d)' => Surpassed(d) \/ d \in A \/ d \in B
    BY <1>3, FirstSurpassed
  <2>2. Surpassed(d)' \in BOOLEAN /\ Surpassed(d) \in BOOLEAN
    BY DEF Surpassed
  <2> QED
    BY <2>1, <2>2
<1>7. Idle(d) => Idle(d)'
  BY <1>2, <1>4 DEF Idle
<1>8. \A c \in Brokers : Shortest(d, c) => Shortest(d, c)'
  BY <1>1, <1>2, <1>4 DEF Shortest
<1>9. \A c \in Brokers : request(d, c)' = request(d, c)
  BY <1>1, <1>2, <1>4 DEF request
<1> QED
  BY <1>2, <1>3, <1>4, <1>5, <1>6, <1>7, <1>8, <1>9 DEF Stays

(* Who waits for an answer did so before, except x; the answer r is one to *)
(* y, and no others change.                                                *)
Answers(x, y, A, B, r) ==
    /\ \A p, q \in Brokers :
          Pending(p, q)' => Pending(p, q) /\ p \notin A /\ (p \in B => p = y /\ q = x)
    /\ \A p, q \in Brokers : Pending(p, q) /\ p # x => Pending(p, q)'
    /\ r.from = x /\ r.to = y /\ HalfBy(r, x, y)' /\ Pending(y, x)'
    /\ \A p, q \in Brokers : \A k \in sent :
          HalfBy(k, p, q) => p # x /\ q # x /\ HalfBy(k, p, q)'

LEMMA FirstAnswers ==
    ASSUME FragmentsInv, NEW x \in Brokers, NEW y \in Brokers, NEW A, NEW B, NEW N, NEW r,
           A = members[x], B = members[y], N = A \cup B, First(x, y, r)
    PROVE  Answers(x, y, A, B, r)
<1> USE DEF FragmentsInv
<1>0. FirstMerged(x, y, A, B, N)
  BY FirstStep
<1>1. /\ awake[x] /\ awake[y] /\ Peers(x, y) /\ x \in A /\ y \in B /\ A \cap B = {}
      /\ members'[x] = N /\ \A d \in Brokers : d # x => members'[d] = members[d]
      /\ linked'[x] = linked[x] \cup {y} /\ \A d \in Brokers : d # x => linked'[d] = linked[d]
      /\ UNCHANGED <<round, awake, asked>>
      /\ \A c, d \in Brokers : Peers(c, d)' <=> Peers(c, d)
      /\ A = members[x] /\ B = members[y] /\ N = A \cup B
  BY <1>0 DEF FirstMerged, Merged
<1>2. /\ Pending(y, x) /\ r = request(x, y) /\ r \in sent' /\ \A k \in sent : k \in sent' \/ (k.from = y /\ k.to = x)
      /\ \A k \in sent' : ~(k.from = y /\ k.to = x)
      /\ \A p \in A, q \in Brokers : Pending(p, q) => p = x /\ q = y
      /\ \A p \in B, q \in Brokers : Pending(p, q) => p = y /\ q = x
  BY DEF First, Ready
<1>3. ASSUME NEW p \in Brokers, NEW q \in Brokers, Pending(p, q)'
      PROVE  Pending(p, q) /\ p \notin A /\ (p \in B => p = y /\ q = x)
  <2>1. Pending(p, q)
    <3>1. members[p] \subseteq members'[p]
      BY <1>1
    <3> QED
      BY <1>1, <1>3, <3>1 DEF Pending
  <2>2. p # x
    <3> SUFFICES ASSUME p = x PROVE FALSE
      OBVIOUS
    <3>1. q = y
      BY <1>1, <1>2, <2>1
    <3> QED
      BY <1>1, <1>3, <3>1 DEF Pending
  <2> QED
    BY <1>2, <2>1, <2>2
<1>4. \A p, q \in Brokers : Pending(p, q) /\ p # x => Pending(p, q)'
  BY <1>1 DEF Pending
<1>5. r.from = x /\ r.to = y /\ r.number = round[y] /\ r.members = A
  BY <1>1, <1>2 DEF request, Peers
<1>6. y # x
  BY <1>1
<1>7. HalfBy(r, x, y)'
  BY <1>1, <1>2, <1>5, <1>6 DEF HalfBy
<1>8. ASSUME NEW p \in Brokers, NEW q \in Brokers, NEW k \in sent, HalfBy(k, p, q)
      PROVE  p # x /\ q # x /\ HalfBy(k, p, q)'
  <2>1. Pending(q, p) /\ q \in members[q] /\ q \in linked[p] /\ Peers(p, q)
        /\ k.from = p /\ k.to = q
        /\ members[p] = members[q] \cup k.members
        /\ p \in k.members /\ k.members \cap members[q] = {}
    BY <1>8, HalfIsPending, OwnFacts DEF HalfBy, Peers
  <2>2. p # x
    <3> SUFFICES ASSUME p = x PROVE FALSE
      OBVIOUS
    <3>1. q \in A
      BY <1>1, <2>1
    <3>2. q = x
      BY <1>2, <2>1, <3>1
    <3> QED
      BY <2>1, <3>2
  <2>3. q # x
    <3> SUFFICES ASSUME q = x PROVE FALSE
      OBVIOUS
    <3>1. p = y
      BY <1>1, <1>2, <2>1
    <3>2. x \in B
      BY <1>1, <2>1, <3>1
    <3> QED
      BY <1>1, <3>2
  <2>4. k \in sent'
    BY <1>2, <2>1, <2>3
  <2>5. members'[p] = members[p] /\ members'[q] = members[q] /\ linked'[p] = linked[p]
    BY <1>1, <2>2, <2>3
  <2> QED
    BY <1>1, <1>8, <2>2, <2>3, <2>4, <2>5 DEF HalfBy
<1> QED
  BY <1>2, <1>3, <1>4, <1>5, <1>6, <1>7, <1>8 DEF Answers

LEMMA FirstEdges ==
    ASSUME FragmentsInv, NEW x \in Brokers, NEW y \in Brokers, NEW r, First(x, y, r)
    PROVE  EdgeOK' /\ ChosenOK' /\ PendingOK'
<1>a. PICK A : A = members[x]
  OBVIOUS
<1>b. PICK B : B = members[y]
  OBVIOUS
<1>c. PICK N : N = A \cup B
  OBVIOUS
<1>0. FirstMerged(x, y, A, B, N)
  BY <1>a, <1>b, <1>c, FirstStep
<1>1. /\ awake[x] /\ awake[y] /\ Peers(x, y) /\ x \in A /\ y \in B /\ A \cap B = {}
      /\ members'[x] = N /\ \A d \in Brokers : d # x => members'[d] = members[d]
      /\ edge'[x] \in Reports(x, N, available[x])
      /\ \A d \in Brokers : d # x => edge'[d] = edge[d]
      /\ UNCHANGED <<delay, round, awake, available, asked, received>>
      /\ Full(x) /\ Full(y)
  BY <1>0 DEF FirstMerged, Merged
<1>7. Answers(x, y, A, B, r)
  BY <1>a, <1>b, <1>c, FirstAnswers
<1>8. ASSUME NEW d \in Brokers, awake[d], Full(d), d \notin A
      PROVE  Stays(d, x, B)
  BY <1>a, <1>b, <1>c, <1>8, OthersStay
<1> USE DEF FragmentsInv
<1>2. /\ Idle(x) /\ Idle(y)
      /\ \A d \in A : chosen[d] # None => d = x
      /\ \A d \in B : chosen[d] = None
      /\ chosen'[x] = None /\ \A d \in Brokers : d # x => chosen'[d] = chosen[d]
      /\ Pending(y, x) /\ r = request(x, y) /\ r \in sent'
      /\ \A k \in sent : k \in sent' \/ (k.from = y /\ k.to = x)
  BY <1>a, <1>b DEF First, Ready
<1>3. ~Surpassed(x)'
  BY <1>a, <1>b, <1>c, FirstSurpassed
<1>4. EdgeOK'
  <2> SUFFICES ASSUME NEW d \in Brokers, edge'[d] # None
               PROVE  /\ awake[d] /\ ~Surpassed(d)'
                      /\ edge'[d] \in available[d] \ members'[d]
                      /\ \A c \in available[d] \ members'[d] :
                            delay[d][edge'[d]] <= delay[d][c]
    BY <1>1 DEF EdgeOK
  <2>1. CASE d = x
    BY <1>1, <1>3, <2>1 DEF Reports
  <2>2. CASE d # x
    <3>1. /\ edge[d] # None /\ awake[d] /\ ~Surpassed(d)
          /\ edge[d] \in available[d] \ members[d]
          /\ \A c \in available[d] \ members[d] : delay[d][edge[d]] <= delay[d][c]
      BY <1>1, <2>2 DEF EdgeOK
    <3>2. d \notin A /\ d \notin B
      BY <1>a, <1>b, <1>2, <3>1 DEF Idle
    <3>3. ~Surpassed(d)'
      BY <1>a, <1>b, <1>c, <2>2, <3>1, <3>2, FirstSurpassed
    <3> QED
      BY <1>1, <2>2, <3>1, <3>3
  <2> QED
    BY <2>1, <2>2
<1>5. ChosenOK'
  <2> SUFFICES ASSUME NEW d \in Brokers, chosen'[d] # None
               PROVE  /\ awake[d] /\ ~Surpassed(d)' /\ Full(d)' /\ Idle(d)'
                      /\ Shortest(d, chosen[d])' /\ chosen'[d] = chosen[d]
                      /\ \A c \in members'[d] : chosen'[c] # None => c = d
    BY <1>1 DEF ChosenOK
  <2>1. /\ d # x /\ chosen'[d] = chosen[d] /\ d \notin A /\ d \notin B
    BY <1>2
  <2>2. /\ awake[d] /\ ~Surpassed(d) /\ Full(d) /\ Idle(d) /\ Shortest(d, chosen[d])
        /\ \A c \in members[d] : chosen[c] # None => c = d
    BY <2>1 DEF ChosenOK
  <2>3. /\ members'[d] = members[d] /\ Full(d)' /\ ~Surpassed(d)' /\ Idle(d)'
        /\ \A c \in members[d] : c \in Brokers /\ c # x
    BY <1>8, <2>1, <2>2 DEF Stays
  <2>4. Shortest(d, chosen[d])'
    BY <1>1, <2>1, <2>2, <2>3 DEF Shortest
  <2> QED
    BY <1>2, <2>1, <2>2, <2>3, <2>4
<1>6. PendingOK'
  <2> SUFFICES ASSUME NEW p \in Brokers, NEW q \in Brokers, Pending(p, q)'
               PROVE  /\ Full(p)' /\ Idle(p)'
                      /\ \A d \in members'[p] : chosen'[d] = None
                      /\ \A d \in members'[p], z \in Brokers : Pending(d, z)' => d = p /\ z = q
                      /\ Shortest(p, q)'
                      /\ ~Surpassed(p)' \/ Half(q, p)'
                      /\ \/ request(p, q)' \in sent' \/ request(p, q)' \in received'[q]
                         \/ Half(q, p)'
    BY DEF PendingOK
  <2>1. /\ \A d, z \in Brokers : Pending(d, z)' => Pending(d, z)
        /\ p \notin A /\ (p \in B => p = y /\ q = x)
        /\ \A c, d \in Brokers : \A k \in sent : HalfBy(k, c, d) => HalfBy(k, c, d)'
        /\ HalfBy(r, x, y)'
    BY <1>7 DEF Answers
  <2>2. /\ Full(p) /\ Idle(p) /\ awake[p]
        /\ \A d \in members[p] : chosen[d] = None
        /\ \A d \in members[p], z \in Brokers : Pending(d, z) => d = p /\ z = q
        /\ Shortest(p, q)
        /\ ~Surpassed(p) \/ Half(q, p)
        /\ \/ request(p, q) \in sent \/ request(p, q) \in received[q]
           \/ Half(q, p)
    BY <2>1 DEF PendingOK, Pending
  <2>3. /\ p # x /\ members'[p] = members[p] /\ Full(p)' /\ Idle(p)' /\ Shortest(p, q)'
        /\ \A c \in members[p] : c \in Brokers /\ c # x
        /\ request(p, q)' = request(p, q)
        /\ p \notin B => (Surpassed(p)' <=> Surpassed(p))
    BY <1>8, <2>1, <2>2 DEF Stays
  <2>4. /\ \A d \in members'[p] : chosen'[d] = None
        /\ \A d \in members'[p], z \in Brokers : Pending(d, z)' => d = p /\ z = q
    BY <1>2, <2>1, <2>2, <2>3
  <2>5. CASE p \in B
    <3>1. Half(q, p)'
      BY <1>2, <2>1, <2>5 DEF Half
    <3> QED
      BY <2>3, <2>4, <3>1
  <2>6. CASE p \notin B
    <3>1. Half(q, p) => Half(q, p)'
      <4> SUFFICES ASSUME NEW k \in sent, HalfBy(k, q, p) PROVE HalfBy(k, q, p)'
        BY DEF Half, HalfBy
      <4> QED
        BY <2>1
    <3>2. request(p, q) \in sent => request(p, q)' \in sent'
      <4>1. request(p, q).from = p
        BY DEF request
      <4>2. p # y
        BY <1>1, <2>6
      <4> QED
        BY <1>2, <2>3, <4>1, <4>2
    <3> QED
      BY <1>1, <2>2, <2>3, <2>4, <2>6, <3>1, <3>2
  <2> QED
    BY <2>5, <2>6
<1> QED
  BY <1>4, <1>5, <1>6

LEMMA FirstRequests ==
    ASSUME FragmentsInv, NEW x \in Brokers, NEW y \in Brokers, NEW r, First(x, y, r)
    PROVE  SentOK' /\ ReceivedOK'
<1>a. PICK A : A = members[x]
  OBVIOUS
<1>b. PICK B : B = members[y]
  OBVIOUS
<1>c. PICK N : N = A \cup B
  OBVIOUS
<1>0. FirstMerged(x, y, A, B, N)
  BY <1>a, <1>b, <1>c, FirstStep
<1>1. /\ awake[x] /\ awake[y] /\ Peers(x, y) /\ x \in A /\ y \in B /\ A \cap B = {}
      /\ members'[x] = N /\ \A d \in Brokers : d # x => members'[d] = members[d]
      /\ UNCHANGED <<delay, round, awake, available, asked, received>>
      /\ \A c, d \in Brokers : Peers(c, d)' <=> Peers(c, d)
  BY <1>0 DEF FirstMerged, Merged
<1>2. Answers(x, y, A, B, r)
  BY <1>a, <1>b, <1>c, FirstAnswers
<1> USE DEF FragmentsInv
<1>3. /\ Pending(y, x) /\ r = request(x, y) /\ r \in sent' /\ sent' \subseteq sent \cup {r}
      /\ \A k \in sent' : /\ ~(k.from = y /\ k.to = x)
                          /\ k.from = x /\ k.to = y => k = r
      /\ \A p \in A, q \in Brokers : Pending(p, q) => p = x /\ q = y
      /\ \A p \in B, q \in Brokers : Pending(p, q) => p = y /\ q = x
  BY <1>a, <1>b DEF First, Ready
<1>4. ASSUME NEW p \in Brokers, NEW q \in Brokers, p # x
      PROVE  request(p, q)' = request(p, q)
  BY <1>1, <1>4 DEF request
<1>5. SentOK'
  <2> SUFFICES ASSUME NEW k \in sent'
               PROVE  /\ k.from # k.to
                      /\ \/ Open(k)'
                         \/ HalfBy(k, k.from, k.to)' /\ Pending(k.to, k.from)'
                      /\ \A l \in sent' : l.from = k.from /\ l.to = k.to => l = k
    BY DEF SentOK
  <2>1. CASE k = r
    BY <1>1, <1>2, <1>3, <2>1 DEF Answers
  <2>2. CASE k # r
    <3>1. k \in sent /\ ~(k.from = y /\ k.to = x) /\ ~(k.from = x /\ k.to = y)
      BY <1>3, <2>2
    <3>2. k.from \in Brokers /\ k.to \in Brokers
      BY <3>1 DEF FragmentsTypeOK, Request
    <3>3. k.from # k.to /\ \A l \in sent : l.from = k.from /\ l.to = k.to => l = k
      BY <3>1 DEF SentOK
    <3>4. \A l \in sent' : l.from = k.from /\ l.to = k.to => l = k
      BY <1>2, <1>3, <3>1, <3>3 DEF Answers
    <3>5. CASE Open(k)
      <4>1. Pending(k.from, k.to) /\ k = request(k.from, k.to)
            /\ (Peers(k.from, k.to) => k.from \notin members[k.to])
            /\ \A l \in received[k.to] : l.from = k.from => l.number < k.number
        BY <3>5 DEF Open
      <4>2. k.from \notin A /\ k.from \notin B
        BY <1>3, <3>1, <3>2, <4>1
      <4>3. k.from # x
        BY <1>1, <4>2
      <4>4. Pending(k.from, k.to)' /\ k = request(k.from, k.to)'
        BY <1>2, <1>4, <3>2, <4>1, <4>3 DEF Answers
      <4>5. k.from \notin members[k.to] => k.from \notin members'[k.to]
        BY <1>c, <1>1, <3>2, <4>2
      <4>6. Open(k)'
        BY <1>1, <3>2, <4>1, <4>4, <4>5 DEF Open
      <4> QED
        BY <3>3, <3>4, <4>6
    <3>6. CASE HalfBy(k, k.from, k.to) /\ Pending(k.to, k.from)
      <4>1. HalfBy(k, k.from, k.to)' /\ Pending(k.to, k.from)'
        BY <1>2, <3>1, <3>2, <3>6 DEF Answers
      <4> QED
        BY <3>3, <3>4, <4>1
    <3> QED
      BY <3>1, <3>5, <3>6 DEF SentOK
  <2> QED
    BY <2>1, <2>2
<1>6. ReceivedOK'
  <2> SUFFICES ASSUME NEW z \in Brokers, NEW k \in received[z]
               PROVE  /\ k.to = z /\ k.from # z /\ k.number <= round[k.from]
                      /\ awake[k.from] /\ k.number = round[k.from] /\ z \notin members'[k.from]
                           => z \in asked[k.from]
                      /\ \/ k.number > round[z]
                         \/ awake[z] /\ k.number = round[z] /\ k.from \notin members'[z]
                         => /\ Pending(k.from, z)' /\ k = request(k.from, z)'
                            /\ k.number = round[z] => k.from \notin asked[z]
    BY <1>1 DEF ReceivedOK
  <2>1. /\ k.to = z /\ k.from # z /\ k.number <= round[k.from]
        /\ awake[k.from] /\ k.number = round[k.from] /\ z \notin members[k.from]
             => z \in asked[k.from]
        /\ \/ k.number > round[z]
           \/ awake[z] /\ k.number = round[z] /\ k.from \notin members[z]
           => /\ Pending(k.from, z) /\ k = request(k.from, z)
              /\ k.number = round[z] => k.from \notin asked[z]
    BY DEF ReceivedOK
  <2>2. k.from \in Brokers
    BY DEF FragmentsTypeOK, Request
  <2>3. members[k.from] \subseteq members'[k.from] /\ members[z] \subseteq members'[z]
    BY <1>a, <1>c, <1>1, <2>2
  <2>4. ASSUME Pending(k.from, z), k = request(k.from, z),
               k.number = round[z] => k.from \notin asked[z]
        PROVE  k.from # x
    <3> SUFFICES ASSUME k.from = x PROVE FALSE
      OBVIOUS
    <3>1. z = y
      BY <1>1, <1>3, <2>4
    <3>2. k.number = round[y]
      BY <1>1, <2>4 DEF request, Peers
    <3> QED
      BY <1>3, <2>4, <3>1, <3>2 DEF Pending
  <2>5. ASSUME \/ k.number > round[z]
               \/ awake[z] /\ k.number = round[z] /\ k.from \notin members'[z]
        PROVE  /\ Pending(k.from, z)' /\ k = request(k.from, z)'
               /\ k.number = round[z] => k.from \notin asked[z]
    <3>1. /\ Pending(k.from, z) /\ k = request(k.from, z)
          /\ k.number = round[z] => k.from \notin asked[z]
      BY <2>1, <2>3, <2>5
    <3>2. k.from # x
      BY <2>4, <3>1
    <3>3. Pending(k.from, z)' /\ request(k.from, z)' = request(k.from, z)
      BY <1>2, <1>4, <2>2, <3>1, <3>2 DEF Answers
    <3> QED
      BY <3>1, <3>3
  <2> QED
    BY <2>1, <2>3, <2>5
<1> QED
  BY <1>5, <1>6

(* The links of the round after the step, and how those of a broker whose  *)
(* fragment is neither of the two are cut.                                 *)
Cuts(x, y, A, B) ==
    /\ \A u, v, d \in Brokers : Joined(u, v, d) <=> Joined(v, u, d)
    /\ \A u, v, d \in Brokers :
          Joined(u, v, d)' <=>
             \/ Joined(u, v, d)
             \/ Peers(x, d) /\ ((u = x /\ v = y) \/ (u = y /\ v = x))
    /\ \A d \in Brokers : Peers(x, d) =>
          /\ \A u \in A, v \in Brokers : Joined(u, v, d) => v \in A
          /\ \A u \in B, v \in Brokers : Joined(u, v, d) => v \in B

LEMMA FirstCuts ==
    ASSUME FragmentsInv, NEW x \in Brokers, NEW y \in Brokers, NEW A, NEW B, NEW N, NEW r,
           A = members[x], B = members[y], N = A \cup B, First(x, y, r)
    PROVE  Cuts(x, y, A, B)
<1> USE DEF FragmentsInv
<1>0. FirstMerged(x, y, A, B, N)
  BY FirstStep
<1>1. /\ awake[x] /\ awake[y] /\ Peers(x, y) /\ x \in A /\ y \in B
      /\ linked'[x] = linked[x] \cup {y} /\ \A d \in Brokers : d # x => linked'[d] = linked[d]
      /\ \A c, d \in Brokers : Peers(c, d)' <=> Peers(c, d)
      /\ Full(x) /\ Full(y) /\ ~Surpassed(x) /\ ~Surpassed(y) /\ A = members[x] /\ B = members[y]
  BY <1>0 DEF FirstMerged, Merged
<1>2. \A u, v, d \in Brokers : Joined(u, v, d) <=> Joined(v, u, d)
  BY DEF Joined
<1>3. ASSUME NEW u \in Brokers, NEW v \in Brokers, NEW d \in Brokers
      PROVE  Joined(u, v, d)' <=>
                    \/ Joined(u, v, d)
                    \/ Peers(x, d) /\ ((u = x /\ v = y) \/ (u = y /\ v = x))
  BY <1>1 DEF Joined
<1>4. ASSUME NEW d \in Brokers, Peers(x, d)
      PROVE  /\ \A u \in A, v \in Brokers : Joined(u, v, d) => v \in A
             /\ \A u \in B, v \in Brokers : Joined(u, v, d) => v \in B
  <2>1. A \subseteq Brokers /\ B \subseteq Brokers
    BY <1>1, TypeFacts
  <2>2. \A u, v \in Brokers : /\ Joined(u, v, d) <=> Joined(u, v, x)
                              /\ Joined(u, v, d) <=> Joined(u, v, y)
    BY <1>1, <1>4 DEF Joined, Peers
  <2>3. \A u \in A, v \in Brokers : Joined(u, v, x) => v \in A
    BY <1>1, Block
  <2>4. \A u \in B, v \in Brokers : Joined(u, v, y) => v \in B
    BY <1>1, Block
  <2> QED
    BY <2>1, <2>2, <2>3, <2>4
<1> QED
  BY <1>2, <1>3, <1>4 DEF Cuts

LEMMA FirstUpdates ==
    ASSUME FragmentsInv, NEW x \in Brokers, NEW y \in Brokers, NEW r, First(x, y, r)
    PROVE  UpdatesOK'
<1>a. PICK A : A = members[x]
  OBVIOUS
<1>b. PICK B : B = members[y]
  OBVIOUS
<1>c. PICK N : N = A \cup B
  OBVIOUS
<1>0. FirstMerged(x, y, A, B, N)
  BY <1>a, <1>b, <1>c, FirstStep
<1>1. /\ awake[x] /\ awake[y] /\ Peers(x, y) /\ x \in A /\ y \in B /\ A \cap B = {}
      /\ A \subseteq Brokers /\ B \subseteq Brokers
      /\ members'[x] = N /\ \A d \in Brokers : d # x => members'[d] = members[d]
      /\ linked'[x] = linked[x] \cup {y} /\ \A d \in Brokers : d # x => linked'[d] = linked[d]
      /\ UNCHANGED <<delay, round, awake, available, asked, received>>
      /\ updates' = updates \cup {[from |-> x, to |-> d, members |-> N] : d \in linked[x]}
      /\ \A c, d \in Brokers : Peers(c, d)' <=> Peers(c, d)
      /\ \A c, d \in Brokers : c # x => Knows(c, d)' = Knows(c, d)
      /\ \A d \in Brokers : Peers(x, d) => Knows(x, d) = A /\ Knows(x, d)' = N
      /\ \A d \in Brokers : ~Peers(x, d) /\ awake[d] => Knows(x, d)' = Knows(x, d)
      /\ Full(x) /\ Full(y) /\ ~Surpassed(x) /\ ~Surpassed(y)
  BY <1>0 DEF FirstMerged, Merged
<1>d. Cuts(x, y, A, B)
  BY <1>a, <1>b, <1>c, FirstCuts
<1>2. /\ \A u, v, d \in Brokers : Joined(u, v, d) <=> Joined(v, u, d)
      /\ \A u, v, d \in Brokers :
            Joined(u, v, d)' <=>
               \/ Joined(u, v, d)
               \/ Peers(x, d) /\ ((u = x /\ v = y) \/ (u = y /\ v = x))
      /\ \A d \in Brokers : Peers(x, d) =>
            /\ \A u \in A, v \in Brokers : Joined(u, v, d) => v \in A
            /\ \A u \in B, v \in Brokers : Joined(u, v, d) => v \in B
  BY <1>d DEF Cuts
<1> USE DEF FragmentsInv
<1> SUFFICES ASSUME NEW v \in updates'
             PROVE  LET e == v.to IN
                    /\ awake[e] /\ v.from \in linked'[e]
                    /\ v.members = Knows(v.from, e)'
                    /\ members'[e] \subseteq v.members /\ members'[e] # v.members
                    /\ v.members \subseteq available[e]
                    /\ \E T \in SUBSET Brokers :
                          /\ OnlyOut(T, e, v.from, e)'
                          /\ \A c \in T \cap members'[e] : Knows(c, e)' = members'[e]
  BY <1>1 DEF UpdatesOK
<1>3. CASE v \in updates
  <2>a. PICK e : e = v.to
    OBVIOUS
  <2>b. PICK f : f = v.from
    OBVIOUS
  <2>c. PICK L : L = members[e]
    OBVIOUS
  <2>0. e \in Brokers /\ f \in Brokers
    BY <1>3, <2>a, <2>b DEF FragmentsTypeOK, Update
  <2>1. /\ awake[e] /\ f \in linked[e] /\ v.members = Knows(f, e)
        /\ L \subseteq v.members /\ L # v.members /\ v.members \subseteq available[e]
    BY <1>3, <2>a, <2>b, <2>c DEF UpdatesOK
  <2>2. PICK T \in SUBSET Brokers :
          OnlyOut(T, e, f, e) /\ \A c \in T \cap L : Knows(c, e) = L
    BY <1>3, <2>a, <2>b, <2>c DEF UpdatesOK
  <2>3. e \in L /\ f \in L /\ f # e /\ L \subseteq Brokers /\ f \in available[e]
    BY <2>c, <2>0, <2>1, OwnFacts, TypeFacts
  <2>4. Surpassed(e)
    BY <2>c, <2>1, <2>3 DEF Surpassed
  <2>5. ASSUME NEW z \in Brokers, Full(z), ~Surpassed(z), awake[z], e \in members[z]
        PROVE  FALSE
    <3>1. Peers(z, e) /\ members[e] = members[z]
      BY <2>5 DEF Full
    <3>2. Knows(f, z) = Knows(f, e) /\ available[z] = available[e]
      BY <2>0, <3>1, PeersSeeTheSame
    <3> QED
      BY <2>c, <2>1, <2>3, <2>5, <3>1, <3>2 DEF Surpassed
  <2>6. e \notin A /\ e \notin B /\ e # x
    BY <1>a, <1>b, <1>1, <2>5
  <2>7. Knows(f, e)' = Knows(f, e)
    <3>1. ~(f = x /\ Peers(x, e))
      BY <1>1, <2>0, <2>1, <2>3, <2>6
    <3> QED
      BY <1>1, <2>0, <2>1, <3>1
  <2>8. members'[e] = L /\ linked'[e] = linked[e]
    BY <1>1, <2>c, <2>0, <2>6
  <2>9. ASSUME Peers(x, e)
        PROVE  L \cap A = {} /\ L \cap B = {}
    <3>1. Knows(e, x) = L /\ Knows(e, y) = L
      BY <1>1, <2>c, <2>0, <2>9, PeersSeeTheSame
    <3>2. L \cap A # {} => L \subseteq A
      BY <1>a, <1>1, <2>0, <3>1, Block
    <3>3. L \cap B # {} => L \subseteq B
      BY <1>b, <1>1, <2>0, <3>1, Block
    <3> QED
      BY <2>3, <2>6, <3>2, <3>3
  <2>10. \E R \in SUBSET Brokers : /\ OnlyOut(R, e, f, e)'
                                   /\ \A c \in R \cap L : Knows(c, e)' = L
    <3>1. CASE ~Peers(x, e)
      <4>1. OnlyOut(T, e, f, e)'
        BY <1>2, <2>0, <2>2, <3>1 DEF OnlyOut
      <4> QED
        BY <1>1, <2>0, <2>1, <2>2, <3>1, <4>1
    <3>2. CASE Peers(x, e)
      <4>1. e \notin B /\ f \notin B /\ B \in SUBSET Brokers /\ NewLink(B, x, y, e)
        BY <1>1, <1>2, <2>0, <2>3, <2>9, <3>2 DEF NewLink
      <4>2. PICK R \in SUBSET Brokers : OnlyOut(R, e, f, e)' /\ R \ B = T \ B
        BY <2>0, <2>2, <4>1, CutStays
      <4>3. ASSUME NEW c \in R \cap L PROVE Knows(c, e)' = L
        <5>1. c \in T \cap L /\ c # x
          BY <1>1, <2>9, <3>2, <4>2
        <5> QED
          BY <1>1, <2>0, <2>2, <5>1
      <4> QED
        BY <4>2, <4>3
    <3> QED
      BY <3>1, <3>2
  <2> QED
    BY <2>a, <2>b, <2>1, <2>7, <2>8, <2>10
<1>4. CASE v \notin updates
  <2>1. PICK d \in linked[x] : v = [from |-> x, to |-> d, members |-> N]
    BY <1>1, <1>4
  <2>2. d \in A /\ d # x /\ d \in Brokers /\ linked'[d] = linked[d] /\ members'[d] = members[d]
    BY <1>a, <1>1, <2>1, OwnFacts
  <2>3. Peers(x, d) /\ members[d] = A /\ awake[d] /\ available[d] = available[x]
    BY <1>a, <1>1, <2>2, PeersSeeTheSame DEF Full, Peers
  <2>4. x \in linked[d]
    <3>1. x \in linked[d] \/ Half(x, d)
      BY <1>1, <2>1, <2>3 DEF LinksOK
    <3>2. ~Half(x, d)
      BY <1>1, <2>3 DEF Half, HalfBy
    <3> QED
      BY <3>1, <3>2
  <2>5. N \subseteq available[x] /\ A # N /\ A \subseteq N
    <3>1. A \subseteq available[x] /\ B \subseteq available[y] /\ available[y] = available[x]
      BY <1>a, <1>b, <1>1, OwnFacts, PeersSeeTheSame
    <3> QED
      BY <1>c, <1>1, <3>1
  <2>6. PICK T \in SUBSET Brokers : OnlyOut(T, x, d, x)
    BY <1>1, <2>1 DEF LinksOK
  <2>7. PICK R : R = (Brokers \ T) \cap A
    OBVIOUS
  <2>8. OnlyOut(R, d, x, d)'
    <3>1. d \in R /\ x \notin R
      BY <2>2, <2>6, <2>7 DEF OnlyOut
    <3>2. ASSUME NEW p \in R, NEW q \in Brokers \ R, Joined(p, q, d)'
          PROVE  p = d /\ q = x
      <4>1. p \in A /\ p # x /\ p # y /\ p \in Brokers
        BY <1>1, <2>6, <2>7 DEF OnlyOut
      <4>2. Joined(p, q, d) /\ q \in A
        BY <1>2, <2>2, <2>3, <3>2, <4>1
      <4>3. Joined(q, p, x)
        BY <1>2, <2>2, <2>3, <4>1, <4>2 DEF Joined, Peers
      <4>4. q \in T /\ p \in Brokers \ T
        BY <2>7, <4>2
      <4> QED
        BY <2>6, <4>3, <4>4 DEF OnlyOut
    <3> QED
      BY <3>1, <3>2 DEF OnlyOut
  <2>9. ASSUME NEW c \in R \cap A PROVE Knows(c, d)' = A
    <3>1. c \in A /\ c # x /\ c \in Brokers
      BY <1>1, <2>6, <2>7 DEF OnlyOut
    <3>2. Peers(x, c) /\ members[c] = A
      BY <1>a, <1>1, <3>1 DEF Full
    <3>3. Knows(c, d) = A
      BY <2>3, <3>2 DEF Knows, Peers
    <3> QED
      BY <1>1, <2>2, <3>1, <3>3
  <2>10. R \in SUBSET Brokers /\ Knows(x, d)' = N
    BY <1>1, <2>2, <2>3, <2>7
  <2> QED
    BY <2>1, <2>2, <2>3, <2>4, <2>5, <2>8, <2>9, <2>10
<1> QED
  BY <1>3, <1>4

LEMMA FirstLinks ==
    ASSUME FragmentsInv, NEW x \in Brokers, NEW y \in Brokers, NEW r, First(x, y, r)
    PROVE  LinksOK'
<1>a. PICK A : A = members[x]
  OBVIOUS
<1>b. PICK B : B = members[y]
  OBVIOUS
<1>c. PICK N : N = A \cup B
  OBVIOUS
<1>0. FirstMerged(x, y, A, B, N)
  BY <1>a, <1>b, <1>c, FirstStep
<1>1. /\ awake[x] /\ awake[y] /\ Peers(x, y) /\ x \in A /\ y \in B /\ A \cap B = {}
      /\ A \subseteq Brokers /\ B \subseteq Brokers
      /\ members'[x] = N /\ \A d \in Brokers : d # x => members'[d] = members[d]
      /\ linked'[x] = linked[x] \cup {y} /\ \A d \in Brokers : d # x => linked'[d] = linked[d]
      /\ UNCHANGED <<delay, round, awake, available, asked, received>>
      /\ updates' = updates \cup {[from |-> x, to |-> d, members |-> N] : d \in linked[x]}
      /\ \A c, d \in Brokers : Peers(c, d)' <=> Peers(c, d)
      /\ \A c, d \in Brokers : c # x => Knows(c, d)' = Knows(c, d)
      /\ \A d \in Brokers : Peers(x, d) => Knows(x, d) = A /\ Knows(x, d)' = N
      /\ \A d \in Brokers : ~Peers(x, d) /\ awake[d] => Knows(x, d)' = Knows(x, d)
      /\ Full(x) /\ Full(y) /\ ~Surpassed(x) /\ ~Surpassed(y)
  BY <1>0 DEF FirstMerged, Merged
<1>d. Cuts(x, y, A, B)
  BY <1>a, <1>b, <1>c, FirstCuts
<1>2. /\ \A u, v, d \in Brokers : Joined(u, v, d) <=> Joined(v, u, d)
      /\ \A u, v, d \in Brokers :
            Joined(u, v, d)' <=>
               \/ Joined(u, v, d)
               \/ Peers(x, d) /\ ((u = x /\ v = y) \/ (u = y /\ v = x))
      /\ \A d \in Brokers : Peers(x, d) =>
            /\ \A u \in A, v \in Brokers : Joined(u, v, d) => v \in A
            /\ \A u \in B, v \in Brokers : Joined(u, v, d) => v \in B
  BY <1>d DEF Cuts
<1>3. Answers(x, y, A, B, r)
  BY <1>a, <1>b, <1>c, FirstAnswers
<1> USE DEF FragmentsInv
<1> SUFFICES ASSUME NEW p \in Brokers, awake[p], NEW c \in linked'[p]
             PROVE  /\ Peers(p, c) => p \in linked'[c] \/ Half(p, c)'
                    /\ members'[p] \subseteq Knows(c, p)' /\ Knows(c, p)' # members'[p]
                         => [from |-> c, to |-> p, members |-> Knows(c, p)'] \in updates'
                    /\ \E S \in SUBSET Brokers : OnlyOut(S, p, c, p)'
  <2>1. linked' \in Set
    BY <1>0 DEF FirstMerged, Merged
  <2>2. \A p \in Brokers : linked'[p] \subseteq Brokers
    BY <2>1 DEF Set
  <2> QED
    BY <1>1, <2>2 DEF LinksOK
<1>4. CASE p = x /\ c = y
  <2>1. Half(x, y)'
    BY <1>3 DEF Answers, Half, HalfBy
  <2>2. ~(N \subseteq Knows(y, x)')
    <3>1. Knows(y, x)' = B
      BY <1>b, <1>1, PeersSeeTheSame
    <3> QED
      BY <1>c, <1>1, <3>1
  <2>3. OnlyOut(A, x, y, x)'
    BY <1>1, <1>2, OwnFacts DEF OnlyOut
  <2> QED
    BY <1>1, <1>4, <2>1, <2>2, <2>3
<1>5. CASE p = x /\ c # y
  <2>1. c \in linked[x] /\ c \in A /\ c # x /\ c \in Brokers
    BY <1>a, <1>1, <1>5, OwnFacts
  <2>2. Peers(x, c) /\ members[c] = A
    BY <1>a, <1>1, <2>1 DEF Full
  <2>3. x \in linked[c]
    <3>1. x \in linked[c] \/ Half(x, c)
      BY <1>1, <2>1, <2>2 DEF LinksOK
    <3>2. ~Half(x, c)
      BY <1>1, <2>2 DEF Half, HalfBy
    <3> QED
      BY <3>1, <3>2
  <2>4. ~(N \subseteq Knows(c, x)')
    <3>1. Knows(c, x)' = A
      BY <1>1, <2>1, <2>2, PeersSeeTheSame
    <3> QED
      BY <1>c, <1>1, <3>1
  <2>5. PICK S \in SUBSET Brokers : OnlyOut(S, x, c, x)
    BY <1>1, <2>1 DEF LinksOK
  <2>6. /\ x \notin B /\ c \notin B /\ B \in SUBSET Brokers /\ Peers(x, x)
    BY <1>1, <2>1 DEF Peers
  <2>7. NewLink(B, x, y, x)
    BY <1>1, <1>2, <2>6 DEF NewLink
  <2>8. \E T \in SUBSET Brokers : OnlyOut(T, x, c, x)' /\ T \ B = S \ B
    BY <2>1, <2>5, <2>6, <2>7, CutStays
  <2> QED
    BY <1>1, <1>5, <2>1, <2>3, <2>4, <2>8
<1>6. CASE p # x
  <2>1. c \in linked[p] /\ c \in members[p] /\ c # p /\ c \in Brokers /\ p \in members[p]
        /\ members'[p] = members[p]
    BY <1>1, <1>6, OwnFacts, TypeFacts
  <2>2. Peers(p, c) => p \in linked'[c] \/ Half(p, c)'
    <3>1. linked[c] \subseteq linked'[c]
      BY <1>1, <2>1
    <3>2. Half(p, c) => Half(p, c)'
      <4> SUFFICES ASSUME NEW k \in sent, HalfBy(k, p, c) PROVE HalfBy(k, p, c)'
        BY DEF Half, HalfBy
      <4> QED
        BY <1>3, <2>1 DEF Answers
    <3> QED
      BY <2>1, <3>1, <3>2 DEF LinksOK
  <2>3. ASSUME members'[p] \subseteq Knows(c, p)', Knows(c, p)' # members'[p]
        PROVE  [from |-> c, to |-> p, members |-> Knows(c, p)'] \in updates'
    <3>1. CASE ~(c = x /\ Peers(x, p))
      <4>1. Knows(c, p)' = Knows(c, p)
        BY <1>1, <2>1, <3>1
      <4>2. [from |-> c, to |-> p, members |-> Knows(c, p)] \in updates
        BY <2>1, <2>3, <4>1 DEF LinksOK
      <4> QED
        BY <1>1, <4>1, <4>2
    <3>2. CASE c = x /\ Peers(x, p)
      <4>1. Knows(c, p)' = N
        BY <1>1, <3>2
      <4>2. Knows(p, x) = members[p]
        BY <3>2, PeersSeeTheSame
      <4>3. p \in A
        BY <1>a, <1>1, <2>1, <3>2, <4>2, Block
      <4>4. p \in linked[x] \/ Half(p, x)
        BY <2>1, <3>2 DEF LinksOK, Peers
      <4>5. ~Half(p, x)
        BY <1>3 DEF Answers, Half, HalfBy
      <4> QED
        BY <1>1, <3>2, <4>1, <4>4, <4>5
    <3> QED
      BY <3>1, <3>2
  <2>4. \E S \in SUBSET Brokers : OnlyOut(S, p, c, p)'
    <3>1. PICK S \in SUBSET Brokers : OnlyOut(S, p, c, p)
      BY <2>1 DEF LinksOK
    <3>2. CASE ~Peers(x, p)
      <4>1. OnlyOut(S, p, c, p)'
        BY <1>2, <2>1, <3>1, <3>2 DEF OnlyOut
      <4> QED
        BY <4>1
    <3>3. CASE Peers(x, p)
      <4>1. Joined(p, c, p) /\ Joined(c, p, p)
        BY <1>2, <2>1 DEF Joined, Peers
      <4>2. /\ \A u \in A, v \in Brokers : Joined(u, v, p) => v \in A
            /\ \A u \in B, v \in Brokers : Joined(u, v, p) => v \in B
            /\ \A u, v \in Brokers : Joined(u, v, p)' =>
                  Joined(u, v, p) \/ (u = x /\ v = y) \/ (u = y /\ v = x)
            /\ \A u, v \in Brokers : Joined(u, v, p)' =>
                  Joined(u, v, p) \/ (u = y /\ v = x) \/ (u = x /\ v = y)
        BY <1>2, <3>3
      <4>3. A \in SUBSET Brokers /\ B \in SUBSET Brokers
        BY <1>1
      <4>4. CASE p \in B
        <5>1. c \in B /\ p \notin A /\ c \notin A /\ NewLink(A, y, x, p)
          BY <1>1, <2>1, <4>1, <4>2, <4>4 DEF NewLink
        <5>2. \E T \in SUBSET Brokers : OnlyOut(T, p, c, p)' /\ T \ A = S \ A
          BY <2>1, <3>1, <4>3, <5>1, CutStays
        <5> QED
          BY <5>2
      <4>5. CASE p \notin B
        <5>1. c \notin B /\ NewLink(B, x, y, p)
          BY <1>1, <2>1, <4>1, <4>2, <4>5 DEF NewLink
        <5>2. \E T \in SUBSET Brokers : OnlyOut(T, p, c, p)' /\ T \ B = S \ B
          BY <2>1, <3>1, <4>3, <4>5, <5>1, CutStays
        <5> QED
          BY <5>2
      <4> QED
        BY <4>4, <4>5
    <3> QED
      BY <3>2, <3>3
  <2> QED
    BY <2>2, <2>3, <2>4
<1> QED
  BY <1>4, <1>5, <1>6

LEMMA FirstInv ==
    ASSUME FragmentsInv, NEW x \in Brokers, NEW y \in Brokers, NEW r, First(x, y, r)
    PROVE  FragmentsInv'
<1>1. FragmentsTypeOK'
  BY FirstStep
<1>2. Own' /\ Nested' /\ Waits'
  BY FirstKnowledge
<1>3. EdgeOK' /\ ChosenOK' /\ PendingOK'
  BY FirstEdges
<1>4. SentOK' /\ ReceivedOK'
  BY FirstRequests
<1>5. UpdatesOK'
  BY FirstUpdates
<1>6. LinksOK'
  BY FirstLinks
<1> QED
  BY <1>1, <1>2, <1>3, <1>4, <1>5, <1>6 DEF FragmentsInv

(* The end x, the second to be asked, merges when the answer m of y is     *)
(* there: it knew A, y knows N already.                                    *)
Second(m, x, y, A, N) ==
    /\ HalfBy(m, y, x) /\ m \in sent
    /\ awake[x] /\ awake[y] /\ Peers(x, y) /\ Peers(y, x) /\ A = members[x] /\ N = members[y]
    /\ x \in A /\ y \notin A /\ y \in N /\ A \subseteq N /\ A \subseteq Brokers
    /\ N \subseteq available[x]
    /\ x \in linked[y] /\ Full(x) /\ Idle(x) /\ ~Surpassed(y)
    /\ \A d \in A : chosen[d] = None
    /\ \A p \in A, q \in Brokers : Pending(p, q) => p = x /\ q = y
    /\ UNCHANGED <<chosen, asked, received>> /\ sent' = sent \ {m}
    /\ Merged(x, y, A, N)

LEMMA SecondStep ==
    ASSUME FragmentsInv, NEW m \in sent, NEW x \in Brokers, NEW y \in Brokers, NEW A, NEW N,
           A = members[x], N = members[y], m.from = y, m.to = x, Meet(m), HalfBy(m, y, x)
    PROVE  FragmentsTypeOK' /\ Second(m, x, y, A, N)
<1>1. Pending(x, y) /\ Surpassed(x)
  BY HalfIsPending
<1> USE DEF FragmentsInv
<1>2. /\ m.number = round[x] /\ y \in asked[x] /\ Merge(x, y, m.members)
      /\ sent' = sent \ {m} /\ UNCHANGED <<chosen, asked, received>>
  BY DEF Meet
<1>3. /\ Peers(y, x) /\ x \in linked[y] /\ N = A \cup m.members
      /\ y \in m.members /\ m.members \cap A = {}
  BY DEF HalfBy
<1>4. /\ Full(x) /\ Idle(x) /\ \A d \in A : chosen[d] = None
      /\ \A p \in A, q \in Brokers : Pending(p, q) => p = x /\ q = y
  BY <1>1 DEF PendingOK
<1>5. /\ awake[x] /\ awake[y] /\ Peers(x, y)
      /\ x \in A /\ y \notin A /\ y \in N /\ A \subseteq N /\ A \subseteq Brokers
      /\ N \subseteq available[x]
  <2>1. awake[x] /\ awake[y] /\ Peers(x, y)
    BY <1>3 DEF Peers
  <2>2. x \in A /\ y \in N /\ N \subseteq available[y]
    BY <2>1, OwnFacts
  <2>3. available[x] = available[y]
    BY <2>1, PeersSeeTheSame
  <2>4. A \subseteq Brokers
    BY TypeFacts
  <2> QED
    BY <1>3, <2>1, <2>2, <2>3, <2>4
<1>6. ~Surpassed(y)
  <2> SUFFICES ASSUME Surpassed(y) PROVE FALSE
    OBVIOUS
  <2>1. N \subseteq Knows(x, y)
    BY <1>5 DEF Waits
  <2>2. Knows(x, y) = A
    BY <1>5, PeersSeeTheSame
  <2> QED
    BY <1>5, <2>1, <2>2
<1>7. m.members \in SUBSET Brokers
  BY DEF FragmentsTypeOK, Request
<1> HIDE DEF FragmentsInv
<1>8. Merged(x, y, A, N)
  BY <1>2, <1>3, <1>5, <1>7, MergeStep
<1>9. FragmentsTypeOK'
  BY <1>2, <1>8 DEF FragmentsInv, FragmentsTypeOK, Merged
<1> QED
  BY <1>2, <1>3, <1>4, <1>5, <1>6, <1>8, <1>9 DEF Second

LEMMA SecondSurpassed ==
    ASSUME FragmentsInv, NEW m, NEW x \in Brokers, NEW y \in Brokers, NEW A, NEW N,
           Second(m, x, y, A, N)
    PROVE  /\ ~Surpassed(x)'
           /\ \A d \in Brokers : d # x /\ awake[d] => (Surpassed(d)' <=> Surpassed(d))
<1> USE DEF FragmentsInv
<1>1. /\ awake[x] /\ awake[y] /\ Peers(x, y) /\ x \in A /\ A \subseteq N /\ A = members[x]
      /\ N = members[y] /\ ~Surpassed(y)
      /\ members'[x] = N /\ \A d \in Brokers : d # x => members'[d] = members[d]
      /\ UNCHANGED <<round, awake, available>>
      /\ \A c, d \in Brokers : c # x => Knows(c, d)' = Knows(c, d)
      /\ \A d \in Brokers : Peers(x, d) => Knows(x, d) = A /\ Knows(x, d)' = N
      /\ \A d \in Brokers : ~Peers(x, d) /\ awake[d] => Knows(x, d)' = Knows(x, d)
  BY DEF Second, Merged
<1>2. ~Surpassed(x)'
  <2> SUFFICES ASSUME NEW c \in available[x], N \subseteq Knows(c, x)', Knows(c, x)' # N
               PROVE  FALSE
    BY <1>1 DEF Surpassed
  <2>1. c \in Brokers
    BY TypeFacts
  <2>2. CASE c = x
    BY <1>1, <2>2, OwnFacts
  <2>3. CASE c # x
    <3>1. Knows(c, x)' = Knows(c, y) /\ c \in available[y]
      BY <1>1, <2>1, <2>3, PeersSeeTheSame
    <3> QED
      BY <1>1, <3>1 DEF Surpassed
  <2> QED
    BY <2>2, <2>3
<1>3. ASSUME NEW d \in Brokers, d # x, awake[d]
      PROVE  Surpassed(d)' <=> Surpassed(d)
  <2>1. ASSUME Surpassed(d)
        PROVE  Surpassed(d)'
    <3>1. PICK c \in available[d] : members[d] \subseteq Knows(c, d) /\ Knows(c, d) # members[d]
      BY <2>1 DEF Surpassed
    <3>2. c \in Brokers
      BY TypeFacts
    <3>3. members[d] \subseteq Knows(c, d)' /\ Knows(c, d)' # members[d]
      BY <1>1, <1>3, <3>1, <3>2
    <3> QED
      BY <1>1, <1>3, <3>1, <3>3 DEF Surpassed
  <2>2. ASSUME Surpassed(d)'
        PROVE  Surpassed(d)
    <3>1. PICK c \in available[d] : members[d] \subseteq Knows(c, d)' /\ Knows(c, d)' # members[d]
      BY <1>1, <1>3, <2>2 DEF Surpassed
    <3>2. c \in Brokers
      BY TypeFacts
    <3>3. CASE ~(c = x /\ Peers(x, d))
      BY <1>1, <1>3, <3>1, <3>2, <3>3 DEF Surpassed
    <3>4. CASE c = x /\ Peers(x, d)
      <4>1. Knows(y, d) = N /\ y \in available[d]
        BY <1>1, <3>4, PeersSeeTheSame, OwnFacts
      <4> QED
        BY <1>1, <3>1, <3>4, <4>1 DEF Surpassed
    <3> QED
      BY <3>3, <3>4
  <2> QED
    BY <2>1, <2>2 DEF Surpassed
<1> QED
  BY <1>2, <1>3

LEMMA SecondKnowledge ==
    ASSUME FragmentsInv, NEW m, NEW x \in Brokers, NEW y \in Brokers, NEW A, NEW N,
           Second(m, x, y, A, N)
    PROVE  Own' /\ Nested' /\ Waits'
<1>0. /\ ~Surpassed(x)'
      /\ \A d \in Brokers : d # x /\ awake[d] => (Surpassed(d)' <=> Surpassed(d))
  BY SecondSurpassed
<1> USE DEF FragmentsInv
<1>1. /\ awake[x] /\ awake[y] /\ Peers(x, y) /\ x \in A /\ A \subseteq N /\ A = members[x]
      /\ N = members[y] /\ y \in N /\ y \notin A /\ N \subseteq available[x]
      /\ members'[x] = N /\ \A d \in Brokers : d # x => members'[d] = members[d]
      /\ linked'[x] = linked[x] \cup {y} /\ \A d \in Brokers : d # x => linked'[d] = linked[d]
      /\ UNCHANGED <<round, awake, available>>
      /\ \A c, d \in Brokers : Peers(c, d)' <=> Peers(c, d)
      /\ \A c, d \in Brokers : c # x => Knows(c, d)' = Knows(c, d)
      /\ \A d \in Brokers : Peers(x, d) => Knows(x, d) = A /\ Knows(x, d)' = N
      /\ \A d \in Brokers : ~Peers(x, d) /\ awake[d] => Knows(x, d)' = Knows(x, d)
  BY DEF Second, Merged
<1>2. Own'
  <2> SUFFICES ASSUME NEW p \in Brokers, awake[p]
               PROVE  /\ p \in members'[p] /\ members'[p] \subseteq available[p]
                      /\ linked'[p] \subseteq members'[p] \ {p}
                      /\ \A c \in available[p] : \A d \in Knows(c, p)' : round[d] >= round[p]
                      /\ \A c \in Brokers : Peers(p, c) => available[c] = available[p]
    BY <1>1 DEF Own
  <2>1. p \in members'[p] /\ members'[p] \subseteq available[p]
        /\ linked'[p] \subseteq members'[p] \ {p}
    <3>1. CASE p = x
      <4>1. linked[x] \subseteq A \ {x}
        BY <1>1, OwnFacts
      <4> QED
        BY <1>1, <3>1, <4>1
    <3>2. CASE p # x
      BY <1>1, <3>2, OwnFacts
    <3> QED
      BY <3>1, <3>2
  <2>2. ASSUME NEW c \in available[p], NEW d \in Knows(c, p)'
        PROVE  round[d] >= round[p]
    <3>0. c \in Brokers
      BY TypeFacts
    <3>1. CASE c = x /\ Peers(x, p)
      <4>1. d \in Knows(y, p) /\ y \in available[p]
        BY <1>1, <2>2, <3>1, PeersSeeTheSame, OwnFacts
      <4> QED
        BY <4>1 DEF Own
    <3>2. CASE ~(c = x /\ Peers(x, p))
      <4>1. d \in Knows(c, p)
        BY <1>1, <2>2, <3>0, <3>2
      <4> QED
        BY <4>1 DEF Own
    <3> QED
      BY <3>1, <3>2
  <2> QED
    BY <2>1, <2>2 DEF Own
<1>3. Nested'
  <2> SUFFICES ASSUME NEW p \in Brokers, NEW q \in Brokers, Peers(p, q),
                      members'[p] \cap members'[q] # {}
               PROVE  members'[p] \subseteq members'[q] \/ members'[q] \subseteq members'[p]
    BY <1>1 DEF Nested
  <2>1. ASSUME NEW d \in Brokers, Peers(x, d), members[d] \cap N # {}
        PROVE  members[d] \subseteq N \/ N \subseteq members[d]
    <3>1. Peers(d, y)
      BY <1>1, <2>1 DEF Peers
    <3> QED
      BY <1>1, <2>1, <3>1 DEF Nested
  <2>2. CASE p # x /\ q # x
    BY <1>1, <2>2 DEF Nested
  <2>3. CASE p = x /\ q # x
    BY <1>1, <2>1, <2>3
  <2>4. CASE p # x /\ q = x
    BY <1>1, <2>1, <2>4 DEF Peers
  <2>5. CASE p = x /\ q = x
    BY <2>5
  <2> QED
    BY <2>2, <2>3, <2>4, <2>5
<1>4. Waits'
  <2> SUFFICES ASSUME NEW p \in Brokers, awake[p], Surpassed(p)', NEW c \in members'[p]
               PROVE  members'[p] \subseteq Knows(c, p)'
    BY <1>1 DEF Waits
  <2>1. p # x /\ Surpassed(p)
    BY <1>0
  <2>2. members'[p] = members[p] /\ c \in members[p] /\ c \in Brokers
    BY <1>1, <2>1, TypeFacts
  <2>3. Knows(c, p) \subseteq Knows(c, p)'
    <3>1. CASE c = x /\ Peers(x, p)
      BY <1>1, <3>1
    <3>2. CASE ~(c = x /\ Peers(x, p))
      BY <1>1, <2>2, <3>2
    <3> QED
      BY <3>1, <3>2
  <2> QED
    BY <2>1, <2>2, <2>3 DEF Waits
<1> QED
  BY <1>2, <1>3, <1>4

(* Who waits for an answer, or has sent one, other than x and y.           *)
LEMMA SecondAnswers ==
    ASSUME FragmentsInv, NEW m, NEW x \in Brokers, NEW y \in Brokers, NEW A, NEW N,
           Second(m, x, y, A, N)
    PROVE  /\ \A p, q \in Brokers : Pending(p, q)' => Pending(p, q) /\ p \notin A
           /\ \A p, q \in Brokers : Pending(p, q) /\ p # x => Pending(p, q)'
           /\ \A p, q \in Brokers : \A k \in sent :
                 HalfBy(k, p, q) => k = m \/ (p # x /\ q # x /\ HalfBy(k, p, q)')
<1> USE DEF FragmentsInv
<1>1. /\ HalfBy(m, y, x) /\ m \in sent /\ awake[x] /\ A = members[x] /\ N = members[y]
      /\ x \in A /\ y \notin A /\ y \in N /\ A \subseteq N
      /\ members'[x] = N /\ \A d \in Brokers : d # x => members'[d] = members[d]
      /\ linked'[x] = linked[x] \cup {y} /\ \A d \in Brokers : d # x => linked'[d] = linked[d]
      /\ UNCHANGED <<round, awake, asked>> /\ sent' = sent \ {m}
      /\ \A c, d \in Brokers : Peers(c, d)' <=> Peers(c, d)
      /\ \A p \in A, q \in Brokers : Pending(p, q) => p = x /\ q = y
  BY DEF Second, Merged
<1>2. ASSUME NEW p \in Brokers, NEW q \in Brokers, Pending(p, q)'
      PROVE  Pending(p, q) /\ p \notin A
  <2>1. Pending(p, q)
    <3>1. members[p] \subseteq members'[p]
      BY <1>1
    <3> QED
      BY <1>1, <1>2, <3>1 DEF Pending
  <2> QED
    BY <1>1, <1>2, <2>1 DEF Pending
<1>3. \A p, q \in Brokers : Pending(p, q) /\ p # x => Pending(p, q)'
  BY <1>1 DEF Pending
<1>4. ASSUME NEW p \in Brokers, NEW q \in Brokers, NEW k \in sent, HalfBy(k, p, q), k # m
      PROVE  p # x /\ q # x /\ HalfBy(k, p, q)'
  <2>1. Pending(q, p) /\ q \in members[q] /\ k.from = p /\ k.to = q
        /\ members[p] = members[q] \cup k.members /\ p \in members[p]
    BY <1>4, HalfIsPending, OwnFacts DEF HalfBy, Peers
  <2>2. p # x
    <3> SUFFICES ASSUME p = x PROVE FALSE
      OBVIOUS
    <3>1. q \in A
      BY <1>1, <2>1
    <3> QED
      BY <1>1, <2>1, <3>1
  <2>3. q # x
    <3> SUFFICES ASSUME q = x PROVE FALSE
      OBVIOUS
    <3>1. p = y
      BY <1>1, <2>1
    <3>2. m.from = y /\ m.to = x
      BY <1>1 DEF HalfBy
    <3> QED
      BY <1>1, <1>4, <2>1, <3>1, <3>2 DEF SentOK
  <2>4. members'[p] = members[p] /\ members'[q] = members[q] /\ linked'[p] = linked[p]
    BY <1>1, <2>2, <2>3
  <2> QED
    BY <1>1, <1>4, <2>2, <2>3, <2>4 DEF HalfBy
<1> QED
  BY <1>2, <1>3, <1>4

LEMMA SecondEdges ==
    ASSUME FragmentsInv, NEW m, NEW x \in Brokers, NEW y \in Brokers, NEW A, NEW N,
           Second(m, x, y, A, N)
    PROVE  EdgeOK' /\ ChosenOK' /\ PendingOK'
<1>0. /\ ~Surpassed(x)'
      /\ \A d \in Brokers : d # x /\ awake[d] => (Surpassed(d)' <=> Surpassed(d))
  BY SecondSurpassed
<1>a. /\ \A p, q \in Brokers : Pending(p, q)' => Pending(p, q) /\ p \notin A
      /\ \A p, q \in Brokers : \A k \in sent :
            HalfBy(k, p, q) => k = m \/ (p # x /\ q # x /\ HalfBy(k, p, q)')
  BY SecondAnswers
<1> USE DEF FragmentsInv
<1>1. /\ HalfBy(m, y, x) /\ awake[x] /\ Peers(x, y) /\ x \in A /\ A = members[x]
      /\ A \subseteq N /\ N = members[y]
      /\ members'[x] = N /\ \A d \in Brokers : d # x => members'[d] = members[d]
      /\ edge'[x] \in Reports(x, N, available[x])
      /\ \A d \in Brokers : d # x => edge'[d] = edge[d]
      /\ UNCHANGED <<delay, round, awake, available, chosen, asked, received>>
      /\ sent' = sent \ {m}
      /\ \A c, d \in Brokers : Peers(c, d)' <=> Peers(c, d)
      /\ \A d \in A : chosen[d] = None
  BY DEF Second, Merged
<1>2. EdgeOK'
  <2> SUFFICES ASSUME NEW d \in Brokers, edge'[d] # None
               PROVE  /\ awake[d] /\ ~Surpassed(d)'
                      /\ edge'[d] \in available[d] \ members'[d]
                      /\ \A c \in available[d] \ members'[d] :
                            delay[d][edge'[d]] <= delay[d][c]
    BY <1>1 DEF EdgeOK
  <2>1. CASE d = x
    BY <1>0, <1>1, <2>1 DEF Reports
  <2>2. CASE d # x
    BY <1>0, <1>1, <2>2 DEF EdgeOK
  <2> QED
    BY <2>1, <2>2
<1>3. ASSUME NEW d \in Brokers, Full(d), awake[d], d \notin A
      PROVE  /\ d # x /\ members'[d] = members[d] /\ Full(d)'
             /\ Surpassed(d)' <=> Surpassed(d)
             /\ Idle(d) => Idle(d)'
             /\ \A c \in Brokers : Shortest(d, c) => Shortest(d, c)'
             /\ \A c \in Brokers : request(d, c)' = request(d, c)
  <2>1. d \in members[d] /\ members[d] \subseteq Brokers /\ d # x /\ x \notin members[d]
    BY <1>1, <1>3, OwnFacts, TypeFacts DEF Full
  <2>2. \A c \in members[d] : edge'[c] = edge[c] /\ c \in Brokers /\ members'[c] = members[c]
    BY <1>1, <2>1
  <2>3. Full(d)'
    BY <1>1, <1>3, <2>1, <2>2 DEF Full
  <2>4. \A c \in Brokers : Shortest(d, c) => Shortest(d, c)'
    BY <1>1, <2>1 DEF Shortest
  <2>5. Idle(d) => Idle(d)'
    BY <2>1, <2>2 DEF Idle
  <2>6. \A c \in Brokers : request(d, c)' = request(d, c)
    BY <1>1, <2>1 DEF request
  <2> QED
    BY <1>0, <1>1, <1>3, <2>1, <2>3, <2>4, <2>5, <2>6
<1>4. ChosenOK'
  <2> SUFFICES ASSUME NEW d \in Brokers, chosen[d] # None
               PROVE  /\ awake[d] /\ ~Surpassed(d)' /\ Full(d)' /\ Idle(d)'
                      /\ Shortest(d, chosen[d])'
                      /\ \A c \in members'[d] : chosen[c] # None => c = d
    BY <1>1 DEF ChosenOK
  <2>1. /\ awake[d] /\ ~Surpassed(d) /\ Full(d) /\ Idle(d) /\ Shortest(d, chosen[d])
        /\ \A c \in members[d] : chosen[c] # None => c = d
    BY DEF ChosenOK
  <2>2. chosen[d] \in Brokers /\ chosen'[d] = chosen[d] /\ d \notin A
    BY <1>1, <2>1, TypeFacts DEF Shortest
  <2> QED
    BY <1>1, <1>3, <2>1, <2>2 DEF Shortest
<1>5. PendingOK'
  <2> SUFFICES ASSUME NEW p \in Brokers, NEW q \in Brokers, Pending(p, q)'
               PROVE  /\ Full(p)' /\ Idle(p)'
                      /\ \A d \in members'[p] : chosen[d] = None
                      /\ \A d \in members'[p], z \in Brokers : Pending(d, z)' => d = p /\ z = q
                      /\ Shortest(p, q)'
                      /\ ~Surpassed(p)' \/ Half(q, p)'
                      /\ \/ request(p, q)' \in sent' \/ request(p, q)' \in received[q]
                         \/ Half(q, p)'
    BY <1>1 DEF PendingOK
  <2>1. Pending(p, q) /\ p \notin A
    BY <1>a
  <2>2. /\ Full(p) /\ Idle(p) /\ awake[p] /\ q \notin members[p]
        /\ \A d \in members[p] : chosen[d] = None
        /\ \A d \in members[p], z \in Brokers : Pending(d, z) => d = p /\ z = q
        /\ Shortest(p, q)
        /\ ~Surpassed(p) \/ Half(q, p)
        /\ \/ request(p, q) \in sent \/ request(p, q) \in received[q]
           \/ Half(q, p)
    BY <2>1 DEF PendingOK, Pending
  <2>3. /\ p # x /\ members'[p] = members[p] /\ Full(p)' /\ Idle(p)' /\ Shortest(p, q)'
        /\ request(p, q)' = request(p, q) /\ (Surpassed(p)' <=> Surpassed(p))
    BY <1>3, <2>1, <2>2
  <2>4. \A d \in members'[p], z \in Brokers : Pending(d, z)' => d = p /\ z = q
    BY <1>a, <2>2, <2>3, TypeFacts
  <2>5. request(p, q) # m
    <3>1. m.from = y /\ m.to = x
      BY <1>1 DEF HalfBy
    <3> QED
      BY <1>1, <2>2, <3>1 DEF request
  <2>6. Half(q, p) => Half(q, p)'
    <3> SUFFICES ASSUME NEW k \in sent, HalfBy(k, q, p) PROVE HalfBy(k, q, p)'
      BY DEF Half, HalfBy
    <3>1. k # m
      BY <1>1, <2>3 DEF HalfBy
    <3> QED
      BY <1>a, <3>1
  <2> QED
    BY <1>1, <2>2, <2>3, <2>4, <2>5, <2>6
<1> QED
  BY <1>2, <1>4, <1>5

LEMMA SecondRequests ==
    ASSUME FragmentsInv, NEW m, NEW x \in Brokers, NEW y \in Brokers, NEW A, NEW N,
           Second(m, x, y, A, N)
    PROVE  SentOK' /\ ReceivedOK'
<1>0. /\ \A p, q \in Brokers : Pending(p, q) /\ p # x => Pending(p, q)'
      /\ \A p, q \in Brokers : \A k \in sent :
            HalfBy(k, p, q) => k = m \/ (p # x /\ q # x /\ HalfBy(k, p, q)')
  BY SecondAnswers
<1> USE DEF FragmentsInv
<1>1. /\ HalfBy(m, y, x) /\ m \in sent /\ awake[x] /\ Peers(x, y) /\ x \in A /\ A = members[x]
      /\ A \subseteq N /\ N = members[y] /\ Full(x)
      /\ members'[x] = N /\ \A d \in Brokers : d # x => members'[d] = members[d]
      /\ UNCHANGED <<delay, round, awake, available, chosen, asked, received>>
      /\ sent' = sent \ {m}
      /\ \A c, d \in Brokers : Peers(c, d)' <=> Peers(c, d)
      /\ \A p \in A, q \in Brokers : Pending(p, q) => p = x /\ q = y
  BY DEF Second, Merged
<1>2. ASSUME NEW p \in Brokers, NEW q \in Brokers, p # x
      PROVE  request(p, q)' = request(p, q)
  BY <1>1, <1>2 DEF request
<1>3. SentOK'
  <2> SUFFICES ASSUME NEW k \in sent, k # m
               PROVE  /\ k.from # k.to
                      /\ \/ Open(k)'
                         \/ HalfBy(k, k.from, k.to)' /\ Pending(k.to, k.from)'
                      /\ \A l \in sent : l.from = k.from /\ l.to = k.to => l = k
    BY <1>1 DEF SentOK
  <2>1. k.from \in Brokers /\ k.to \in Brokers
    BY DEF FragmentsTypeOK, Request
  <2>2. k.from # k.to /\ \A l \in sent : l.from = k.from /\ l.to = k.to => l = k
    BY DEF SentOK
  <2>3. CASE Open(k)
    <3>a. PICK p : p = k.from
      OBVIOUS
    <3>b. PICK q : q = k.to
      OBVIOUS
    <3>1. /\ Pending(p, q) /\ k = request(p, q) /\ (Peers(p, q) => p \notin members[q])
          /\ \A l \in received[q] : l.from = p => l.number < k.number
          /\ p \in Brokers /\ q \in Brokers
      BY <2>1, <2>3, <3>a, <3>b DEF Open
    <3>2. p \notin A
      <4> SUFFICES ASSUME p \in A PROVE FALSE
        OBVIOUS
      <4>1. p = x /\ q = y
        BY <1>1, <3>1
      <4> QED
        BY <1>1, <3>1, <4>1
    <3>3. p # x /\ Full(p) /\ awake[p] /\ p \in members[p]
      BY <1>1, <3>1, <3>2, PendingIsFull
    <3>4. ASSUME q = x, Peers(p, x), p \in N
          PROVE  FALSE
      <4>1. Peers(p, y) /\ members[p] \cap members[y] # {}
        BY <1>1, <3>3, <3>4 DEF Peers
      <4>2. CASE members[y] \subseteq members[p]
        <5>1. members[x] = members[p]
          BY <1>1, <3>3, <4>2 DEF Full
        <5> QED
          BY <1>1, <3>2, <3>3, <5>1
      <4>3. CASE ~(members[y] \subseteq members[p])
        <5>1. members[p] \subseteq members[y] /\ members[p] # members[y]
          BY <3>1, <4>1, <4>3 DEF Nested
        <5>2. Knows(y, p) = members[y] /\ y \in available[p]
          BY <3>1, <4>1, PeersSeeTheSame, OwnFacts DEF Peers
        <5>3. Surpassed(p)
          BY <5>1, <5>2 DEF Surpassed
        <5>4. Half(x, p)
          BY <3>1, <3>4, <5>3 DEF PendingOK
        <5>5. p \in A
          BY <1>1, <3>3, <5>4 DEF Half, HalfBy
        <5> QED
          BY <3>2, <5>5
      <4> QED
        BY <4>2, <4>3
    <3>5. Pending(p, q)' /\ k = request(p, q)'
      BY <1>0, <1>2, <3>1, <3>3
    <3>6. Peers(p, q)' => p \notin members'[q]
      BY <1>1, <3>1, <3>4
    <3>7. Open(k)'
      BY <1>1, <3>a, <3>b, <3>1, <3>5, <3>6 DEF Open
    <3> QED
      BY <2>2, <3>7
  <2>4. CASE HalfBy(k, k.from, k.to) /\ Pending(k.to, k.from)
    <3>1. k.to # x /\ HalfBy(k, k.from, k.to)'
      BY <1>0, <2>1, <2>4
    <3>2. Pending(k.to, k.from)'
      BY <1>0, <2>1, <2>4, <3>1
    <3> QED
      BY <2>2, <3>1, <3>2
  <2> QED
    BY <2>3, <2>4 DEF SentOK
<1>4. ReceivedOK'
  <2> SUFFICES ASSUME NEW z \in Brokers, NEW k \in received[z]
               PROVE  /\ k.to = z /\ k.from # z /\ k.number <= round[k.from]
                      /\ awake[k.from] /\ k.number = round[k.from] /\ z \notin members'[k.from]
                           => z \in asked[k.from]
                      /\ \/ k.number > round[z]
                         \/ awake[z] /\ k.number = round[z] /\ k.from \notin members'[z]
                         => /\ Pending(k.from, z)' /\ k = request(k.from, z)'
                            /\ k.number = round[z] => k.from \notin asked[z]
    BY <1>1 DEF ReceivedOK
  <2>1. /\ k.to = z /\ k.from # z /\ k.number <= round[k.from]
        /\ awake[k.from] /\ k.number = round[k.from] /\ z \notin members[k.from]
             => z \in asked[k.from]
        /\ \/ k.number > round[z]
           \/ awake[z] /\ k.number = round[z] /\ k.from \notin members[z]
           => /\ Pending(k.from, z) /\ k = request(k.from, z)
              /\ k.number = round[z] => k.from \notin asked[z]
    BY DEF ReceivedOK
  <2>2. k.from \in Brokers
    BY DEF FragmentsTypeOK, Request
  <2>3. members[k.from] \subseteq members'[k.from] /\ members[z] \subseteq members'[z]
    BY <1>1, <2>2
  <2>4. ASSUME \/ k.number > round[z]
               \/ awake[z] /\ k.number = round[z] /\ k.from \notin members'[z]
        PROVE  /\ Pending(k.from, z)' /\ k = request(k.from, z)'
               /\ k.number = round[z] => k.from \notin asked[z]
    <3>1. /\ Pending(k.from, z) /\ k = request(k.from, z)
          /\ k.number = round[z] => k.from \notin asked[z]
      BY <2>1, <2>3, <2>4
    <3>2. k.from # x
      <4> SUFFICES ASSUME k.from = x PROVE FALSE
        OBVIOUS
      <4>1. z = y
        BY <1>1, <3>1
      <4>2. k.number = round[y] /\ round[y] \in Nat
        BY <1>1, <3>1, TypeFacts DEF request, Peers
      <4>3. x \in members'[y]
        BY <1>1
      <4>4. ~(k.number > round[y])
        BY <4>2
      <4> QED
        BY <2>4, <4>1, <4>3, <4>4
    <3>3. Pending(k.from, z)' /\ request(k.from, z)' = request(k.from, z)
      BY <1>0, <1>2, <2>2, <3>1, <3>2
    <3> QED
      BY <3>1, <3>3
  <2> QED
    BY <2>1, <2>3, <2>4
<1> QED
  BY <1>3, <1>4

(* There is no new link, and that to y is the only one out of the fragment *)
(* of x.                                                                   *)
LEMMA SecondCuts ==
    ASSUME FragmentsInv, NEW m, NEW x \in Brokers, NEW y \in Brokers, NEW A, NEW N,
           Second(m, x, y, A, N)
    PROVE  /\ \A u, v, d \in Brokers : Joined(u, v, d)' <=> Joined(u, v, d)
           /\ \A S \in SUBSET Brokers, u, v, d \in Brokers :
                 OnlyOut(S, u, v, d) => OnlyOut(S, u, v, d)'
           /\ \A u \in A, v \in Brokers : Joined(u, v, x) => v \in A \/ u = x
           /\ \A d \in linked[x] : d \in A /\ d # x /\ d \in Brokers /\ Peers(x, d)
                                   /\ members[d] = A /\ x \in linked[d]
<1> USE DEF FragmentsInv
<1>1. /\ awake[x] /\ Peers(x, y) /\ x \in A /\ A = members[x] /\ A \subseteq Brokers
      /\ x \in linked[y] /\ Full(x)
      /\ linked'[x] = linked[x] \cup {y} /\ \A d \in Brokers : d # x => linked'[d] = linked[d]
      /\ UNCHANGED <<round, awake>>
      /\ \A c, d \in Brokers : Peers(c, d)' <=> Peers(c, d)
      /\ \A p \in A, q \in Brokers : Pending(p, q) => p = x /\ q = y
  BY DEF Second, Merged
<1>2. ASSUME NEW u \in Brokers, NEW v \in Brokers, NEW d \in Brokers
      PROVE  Joined(u, v, d)' <=> Joined(u, v, d)
  <2>1. Peers(x, d) <=> Peers(y, d)
    BY <1>1, PeersSeeTheSame
  <2> QED
    BY <1>1, <2>1 DEF Joined
<1>3. \A S \in SUBSET Brokers, u, v, d \in Brokers : OnlyOut(S, u, v, d) => OnlyOut(S, u, v, d)'
  BY <1>2 DEF OnlyOut
<1>4. ASSUME NEW u \in A, NEW v \in Brokers, Joined(u, v, x), v \notin A
      PROVE  u = x
  <2>1. u \in Brokers /\ Peers(x, u) /\ members[u] = A /\ awake[u]
    BY <1>1 DEF Full, Peers
  <2>2. v \notin linked[u]
    BY <1>4, <2>1, OwnFacts
  <2>3. Peers(v, x) /\ u \in linked[v]
    BY <1>4, <2>2 DEF Joined
  <2>4. awake[v] /\ Peers(v, u)
    BY <2>1, <2>3 DEF Peers
  <2>5. Half(v, u)
    BY <2>2, <2>3, <2>4 DEF LinksOK
  <2>6. Pending(u, v)
    BY <2>1, <2>5, HalfIsPending DEF Half, HalfBy
  <2> QED
    BY <1>1, <2>6
<1>5. ASSUME NEW d \in linked[x]
      PROVE  d \in A /\ d # x /\ d \in Brokers /\ Peers(x, d) /\ members[d] = A /\ x \in linked[d]
  <2>1. d \in A /\ d # x /\ d \in Brokers
    BY <1>1, OwnFacts
  <2>2. Peers(x, d) /\ members[d] = A
    BY <1>1, <2>1 DEF Full
  <2>3. x \in linked[d] \/ Half(x, d)
    BY <1>1, <2>1, <2>2 DEF LinksOK
  <2>4. ~Half(x, d)
    BY <1>1, <2>2 DEF Half, HalfBy
  <2> QED
    BY <2>1, <2>2, <2>3, <2>4
<1> QED
  BY <1>2, <1>3, <1>4, <1>5

LEMMA SecondUpdates ==
    ASSUME FragmentsInv, NEW m, NEW x \in Brokers, NEW y \in Brokers, NEW A, NEW N,
           Second(m, x, y, A, N)
    PROVE  UpdatesOK'
<1>0. /\ \A u, v, d \in Brokers : Joined(u, v, d)' <=> Joined(u, v, d)
      /\ \A S \in SUBSET Brokers, u, v, d \in Brokers :
            OnlyOut(S, u, v, d) => OnlyOut(S, u, v, d)'
      /\ \A u \in A, v \in Brokers : Joined(u, v, x) => v \in A \/ u = x
      /\ \A d \in linked[x] : d \in A /\ d # x /\ d \in Brokers /\ Peers(x, d)
                              /\ members[d] = A /\ x \in linked[d]
  BY SecondCuts
<1> USE DEF FragmentsInv
<1>1. /\ awake[x] /\ Peers(x, y) /\ x \in A /\ A = members[x] /\ A \subseteq Brokers
      /\ y \in N /\ y \notin A /\ A \subseteq N /\ N \subseteq available[x] /\ Full(x)
      /\ members'[x] = N /\ \A d \in Brokers : d # x => members'[d] = members[d]
      /\ linked'[x] = linked[x] \cup {y} /\ \A d \in Brokers : d # x => linked'[d] = linked[d]
      /\ UNCHANGED <<delay, round, awake, available, chosen, asked, received>>
      /\ updates' = updates \cup {[from |-> x, to |-> d, members |-> N] : d \in linked[x]}
      /\ \A c, d \in Brokers : Peers(c, d)' <=> Peers(c, d)
      /\ \A c, d \in Brokers : c # x => Knows(c, d)' = Knows(c, d)
      /\ \A d \in Brokers : Peers(x, d) => Knows(x, d) = A /\ Knows(x, d)' = N
      /\ \A d \in Brokers : ~Peers(x, d) /\ awake[d] => Knows(x, d)' = Knows(x, d)
  BY DEF Second, Merged
<1> SUFFICES ASSUME NEW v \in updates'
             PROVE  LET e == v.to IN
                    /\ awake[e] /\ v.from \in linked'[e]
                    /\ v.members = Knows(v.from, e)'
                    /\ members'[e] \subseteq v.members /\ members'[e] # v.members
                    /\ v.members \subseteq available[e]
                    /\ \E T \in SUBSET Brokers :
                          /\ OnlyOut(T, e, v.from, e)'
                          /\ \A c \in T \cap members'[e] : Knows(c, e)' = members'[e]
  BY <1>1 DEF UpdatesOK
<1>3. CASE v \in updates
  <2>a. PICK e : e = v.to
    OBVIOUS
  <2>b. PICK f : f = v.from
    OBVIOUS
  <2>c. PICK L : L = members[e]
    OBVIOUS
  <2>0. e \in Brokers /\ f \in Brokers
    BY <1>3, <2>a, <2>b DEF FragmentsTypeOK, Update
  <2>1. /\ awake[e] /\ f \in linked[e] /\ v.members = Knows(f, e)
        /\ L \subseteq v.members /\ L # v.members /\ v.members \subseteq available[e]
    BY <1>3, <2>a, <2>b, <2>c DEF UpdatesOK
  <2>2. PICK T \in SUBSET Brokers :
          OnlyOut(T, e, f, e) /\ \A c \in T \cap L : Knows(c, e) = L
    BY <1>3, <2>a, <2>b, <2>c DEF UpdatesOK
  <2>3. e \in L /\ f \in L /\ f # e /\ L \subseteq Brokers
    BY <2>c, <2>0, <2>1, OwnFacts, TypeFacts
  <2>4. e \notin A /\ e # x
    <3> SUFFICES ASSUME e \in A PROVE FALSE
      BY <1>1
    <3>1. Peers(x, e) /\ L = A
      BY <1>1, <2>c DEF Full
    <3>2. Peers(x, f) /\ members[f] = A
      BY <1>1, <2>3, <3>1 DEF Full
    <3>3. Knows(f, e) = A
      BY <3>1, <3>2 DEF Knows, Peers
    <3> QED
      BY <2>1, <3>1, <3>3
  <2>5. Knows(f, e)' = Knows(f, e)
    <3>1. ~(f = x /\ Peers(x, e))
      BY <1>1, <2>0, <2>1, <2>3, <2>4
    <3> QED
      BY <1>1, <2>0, <2>1, <3>1
  <2>6. members'[e] = L /\ linked'[e] = linked[e]
    BY <1>1, <2>c, <2>0, <2>4
  <2>7. ASSUME NEW c \in T \cap L PROVE Knows(c, e)' = L
    <3>1. ~(c = x /\ Peers(x, e))
      BY <1>1, <2>0, <2>2, <2>3, <2>4
    <3> QED
      BY <1>1, <2>0, <2>1, <2>2, <3>1
  <2>8. OnlyOut(T, e, f, e)'
    BY <1>0, <2>0, <2>2
  <2> QED
    BY <2>a, <2>b, <2>1, <2>5, <2>6, <2>7, <2>8
<1>4. CASE v \notin updates
  <2>1. PICK d \in linked[x] : v = [from |-> x, to |-> d, members |-> N]
    BY <1>1, <1>4
  <2>2. d \in A /\ d # x /\ d \in Brokers /\ linked'[d] = linked[d] /\ members'[d] = members[d]
        /\ Peers(x, d) /\ members[d] = A /\ x \in linked[d]
    BY <1>0, <1>1
  <2>3. awake[d] /\ available[d] = available[x]
    BY <2>2, PeersSeeTheSame DEF Peers
  <2>6. PICK T \in SUBSET Brokers : OnlyOut(T, x, d, x)
    BY <1>1, <2>1 DEF LinksOK
  <2>7. PICK R : R = (Brokers \ T) \cap A
    OBVIOUS
  <2>8. OnlyOut(R, d, x, d)
    <3>1. d \in R /\ x \notin R
      BY <2>2, <2>6, <2>7 DEF OnlyOut
    <3>2. ASSUME NEW p \in R, NEW q \in Brokers \ R, Joined(p, q, d)
          PROVE  p = d /\ q = x
      <4>1. p \in A /\ p # x /\ p \in Brokers
        BY <1>1, <2>6, <2>7 DEF OnlyOut
      <4>2. Joined(p, q, x) /\ Joined(q, p, x)
        BY <2>2, <3>2, <4>1 DEF Joined, Peers
      <4>3. q \in A
        BY <1>0, <4>1, <4>2
      <4>4. q \in T /\ p \in Brokers \ T
        BY <2>7, <4>3
      <4> QED
        BY <2>6, <4>2, <4>4 DEF OnlyOut
    <3> QED
      BY <3>1, <3>2 DEF OnlyOut
  <2>9. ASSUME NEW c \in R \cap A PROVE Knows(c, d)' = A
    <3>1. c \in A /\ c # x /\ c \in Brokers
      BY <1>1, <2>6, <2>7 DEF OnlyOut
    <3>2. Peers(x, c) /\ members[c] = A
      BY <1>1, <3>1 DEF Full
    <3>3. Knows(c, d) = A
      BY <2>2, <3>2 DEF Knows, Peers
    <3> QED
      BY <1>1, <2>2, <3>1, <3>3
  <2>10. R \in SUBSET Brokers /\ Knows(x, d)' = N
    BY <1>1, <2>2, <2>7
  <2>11. OnlyOut(R, d, x, d)'
    BY <1>0, <2>2, <2>8, <2>10
  <2> QED
    BY <1>1, <2>1, <2>2, <2>3, <2>9, <2>10, <2>11
<1> QED
  BY <1>3, <1>4

LEMMA SecondLinks ==
    ASSUME FragmentsInv, NEW m, NEW x \in Brokers, NEW y \in Brokers, NEW A, NEW N,
           Second(m, x, y, A, N)
    PROVE  LinksOK'
<1>0. /\ \A u, v, d \in Brokers : Joined(u, v, d)' <=> Joined(u, v, d)
      /\ \A S \in SUBSET Brokers, u, v, d \in Brokers :
            OnlyOut(S, u, v, d) => OnlyOut(S, u, v, d)'
      /\ \A d \in linked[x] : d \in A /\ d # x /\ d \in Brokers /\ Peers(x, d)
                              /\ members[d] = A /\ x \in linked[d]
  BY SecondCuts
<1>a. \A p, q \in Brokers : \A k \in sent :
         HalfBy(k, p, q) => k = m \/ (p # x /\ q # x /\ HalfBy(k, p, q)')
  BY SecondAnswers
<1> USE DEF FragmentsInv
<1>1. /\ HalfBy(m, y, x) /\ awake[x] /\ awake[y] /\ Peers(x, y) /\ Peers(y, x)
      /\ x \in A /\ A = members[x] /\ A \subseteq Brokers
      /\ y \in N /\ y \notin A /\ A \subseteq N /\ N = members[y] /\ x \in linked[y] /\ Full(x)
      /\ linked' \in Set
      /\ members'[x] = N /\ \A d \in Brokers : d # x => members'[d] = members[d]
      /\ linked'[x] = linked[x] \cup {y} /\ \A d \in Brokers : d # x => linked'[d] = linked[d]
      /\ UNCHANGED <<delay, round, awake, available, chosen, asked, received>>
      /\ updates' = updates \cup {[from |-> x, to |-> d, members |-> N] : d \in linked[x]}
      /\ \A c, d \in Brokers : Peers(c, d)' <=> Peers(c, d)
      /\ \A c, d \in Brokers : c # x => Knows(c, d)' = Knows(c, d)
      /\ \A d \in Brokers : Peers(x, d) => Knows(x, d) = A /\ Knows(x, d)' = N
      /\ \A d \in Brokers : ~Peers(x, d) /\ awake[d] => Knows(x, d)' = Knows(x, d)
  BY DEF Second, Merged
<1> SUFFICES ASSUME NEW p \in Brokers, awake[p], NEW c \in linked'[p]
             PROVE  /\ Peers(p, c) => p \in linked'[c] \/ Half(p, c)'
                    /\ members'[p] \subseteq Knows(c, p)' /\ Knows(c, p)' # members'[p]
                         => [from |-> c, to |-> p, members |-> Knows(c, p)'] \in updates'
                    /\ \E S \in SUBSET Brokers : OnlyOut(S, p, c, p)'
  <2>2. \A p \in Brokers : linked'[p] \subseteq Brokers
    BY <1>1 DEF Set
  <2> QED
    BY <1>1, <2>2 DEF LinksOK
<1>4. CASE p = x /\ c = y
  <2>1. x \in linked'[y] /\ x # y
    BY <1>1
  <2>2. Knows(y, x)' = N
    BY <1>1, <2>1, PeersSeeTheSame
  <2>3. PICK S \in SUBSET Brokers : OnlyOut(S, y, x, y)
    BY <1>1 DEF LinksOK
  <2>4. OnlyOut(Brokers \ S, x, y, x)
    <3>1. x \in Brokers \ S /\ y \notin Brokers \ S
      BY <2>3 DEF OnlyOut
    <3>2. ASSUME NEW u \in Brokers \ S, NEW v \in Brokers \ (Brokers \ S), Joined(u, v, x)
          PROVE  u = x /\ v = y
      <4>1. Joined(v, u, y) /\ v \in S /\ u \in Brokers \ S
        BY <1>1, <3>2 DEF Joined, Peers
      <4> QED
        BY <2>3, <4>1 DEF OnlyOut
    <3> QED
      BY <3>1, <3>2 DEF OnlyOut
  <2>5. OnlyOut(Brokers \ S, x, y, x)' /\ Brokers \ S \in SUBSET Brokers
    BY <1>0, <2>4
  <2> QED
    BY <1>1, <1>4, <2>1, <2>2, <2>5
<1>5. CASE p = x /\ c # y
  <2>1. c \in linked[x] /\ c \in A /\ c # x /\ c \in Brokers /\ Peers(x, c) /\ members[c] = A
        /\ x \in linked'[c]
    BY <1>0, <1>1, <1>5
  <2>2. Knows(c, x)' = A
    BY <1>1, <2>1, PeersSeeTheSame
  <2>3. PICK S \in SUBSET Brokers : OnlyOut(S, x, c, x)
    BY <1>1, <2>1 DEF LinksOK
  <2>4. OnlyOut(S, x, c, x)'
    BY <1>0, <2>1, <2>3
  <2> QED
    BY <1>1, <1>5, <2>1, <2>2, <2>4
<1>6. CASE p # x
  <2>1. c \in linked[p] /\ c \in members[p] /\ c # p /\ c \in Brokers /\ p \in members[p]
        /\ members'[p] = members[p]
    BY <1>1, <1>6, OwnFacts, TypeFacts
  <2>2. linked[c] \subseteq linked'[c] /\ m.from = y /\ m.to = x
    BY <1>1, <2>1 DEF HalfBy
  <2>3. ASSUME Half(p, c), ~Half(p, c)'
        PROVE  p = y /\ c = x
    <3>1. PICK k \in sent : HalfBy(k, p, c)
      BY <2>3 DEF Half
    <3>2. ~HalfBy(k, p, c)'
      BY <2>3 DEF Half, HalfBy
    <3>3. k = m
      BY <1>a, <2>1, <3>1, <3>2
    <3> QED
      BY <2>2, <3>1, <3>3 DEF HalfBy
  <2>4. Peers(p, c) => p \in linked'[c] \/ Half(p, c)'
    BY <1>1, <2>1, <2>2, <2>3 DEF LinksOK
  <2>5. ASSUME members'[p] \subseteq Knows(c, p)', Knows(c, p)' # members'[p]
        PROVE  [from |-> c, to |-> p, members |-> Knows(c, p)'] \in updates'
    <3>1. CASE ~(c = x /\ Peers(x, p))
      <4>1. Knows(c, p)' = Knows(c, p)
        BY <1>1, <2>1, <3>1
      <4>2. [from |-> c, to |-> p, members |-> Knows(c, p)] \in updates
        BY <2>1, <2>5, <4>1 DEF LinksOK
      <4> QED
        BY <1>1, <4>1, <4>2
    <3>2. CASE c = x /\ Peers(x, p)
      <4>1. Knows(c, p)' = N
        BY <1>1, <3>2
      <4>2. p \in linked[x] \/ Half(p, x)
        BY <2>1, <3>2 DEF LinksOK, Peers
      <4>3. ~Half(p, x)
        <5> SUFFICES ASSUME NEW k \in sent, HalfBy(k, p, x) PROVE FALSE
          BY DEF Half
        <5>1. k = m
          BY <1>a
        <5>2. p = y
          BY <2>2, <5>1 DEF HalfBy
        <5> QED
          BY <1>1, <2>1, <2>5, <4>1, <5>2
      <4> QED
        BY <1>1, <3>2, <4>1, <4>2, <4>3
    <3> QED
      BY <3>1, <3>2
  <2>6. PICK S \in SUBSET Brokers : OnlyOut(S, p, c, p)
    BY <2>1 DEF LinksOK
  <2>7. OnlyOut(S, p, c, p)'
    BY <1>0, <2>1, <2>6
  <2> QED
    BY <2>4, <2>5, <2>7
<1> QED
  BY <1>4, <1>5, <1>6

LEMMA AnswerInv ==
    ASSUME FragmentsInv, NEW b \in Brokers, Answer(b)
    PROVE  FragmentsInv'
BY AnswerIsFirst, FirstInv

LEMMA MeetInv ==
    ASSUME FragmentsInv, NEW m \in sent, Meet(m)
    PROVE  FragmentsInv'
<1>1. CASE Open(m)
  BY <1>1, MeetIsFirst, FirstInv
<1>2. CASE HalfBy(m, m.from, m.to)
  <2>a. PICK x : x = m.to
    OBVIOUS
  <2>b. PICK y : y = m.from
    OBVIOUS
  <2>c. PICK A : A = members[x]
    OBVIOUS
  <2>d. PICK N : N = members[y]
    OBVIOUS
  <2>0. x \in Brokers /\ y \in Brokers
    BY <2>a, <2>b DEF FragmentsInv, FragmentsTypeOK, Request
  <2>1. FragmentsTypeOK' /\ Second(m, x, y, A, N)
    BY <1>2, <2>a, <2>b, <2>c, <2>d, <2>0, SecondStep
  <2>2. Own' /\ Nested' /\ Waits'
    BY <2>0, <2>1, SecondKnowledge
  <2>3. EdgeOK' /\ ChosenOK' /\ PendingOK'
    BY <2>0, <2>1, SecondEdges
  <2>4. SentOK' /\ ReceivedOK'
    BY <2>0, <2>1, SecondRequests
  <2>5. UpdatesOK'
    BY <2>0, <2>1, SecondUpdates
  <2>6. LinksOK'
    BY <2>0, <2>1, SecondLinks
  <2> QED
    BY <2>1, <2>2, <2>3, <2>4, <2>5, <2>6 DEF FragmentsInv
<1> QED
  BY <1>1, <1>2 DEF FragmentsInv, SentOK

-----------------------------------------------------------------------------
(* The invariant.                                                          *)

LEMMA InitInv == FragmentsInit => FragmentsInv
<1> SUFFICES ASSUME FragmentsInit PROVE FragmentsInv
  OBVIOUS
<1> USE DEF FragmentsInit
<1>1. FragmentsTypeOK
  BY DEF FragmentsTypeOK, Set
<1>2. \A b \in Brokers : ~awake[b] /\ edge[b] = None /\ chosen[b] = None /\ received[b] = {}
  OBVIOUS
<1>3. Own /\ Nested /\ Waits /\ EdgeOK /\ ChosenOK
  BY <1>2 DEF Own, Nested, Waits, EdgeOK, ChosenOK, Peers
<1>4. PendingOK /\ SentOK /\ ReceivedOK /\ UpdatesOK /\ LinksOK
  BY <1>2 DEF PendingOK, Pending, SentOK, ReceivedOK, UpdatesOK, LinksOK
<1> QED
  BY <1>1, <1>3, <1>4 DEF FragmentsInv

LEMMA NothingMoves ==
    ASSUME FragmentsInv, UNCHANGED fragments
    PROVE  FragmentsInv'
<1> USE DEF fragments
<1>1. FragmentsTypeOK'
  BY DEF FragmentsInv, FragmentsTypeOK
<1>2. Own' /\ Nested' /\ Waits'
  BY DEF FragmentsInv, Own, Nested, Waits, Surpassed, Knows, Peers
<1>3. EdgeOK' /\ ChosenOK' /\ PendingOK'
  BY DEF FragmentsInv, EdgeOK, ChosenOK, PendingOK, Surpassed, Knows, Full, Idle, Shortest,
         Pending, Peers, Half, HalfBy, request
<1>4. SentOK' /\ ReceivedOK'
  BY DEF FragmentsInv, SentOK, ReceivedOK, Open, HalfBy, Pending, Peers, request
<1>5. UpdatesOK' /\ LinksOK'
  BY DEF FragmentsInv, UpdatesOK, LinksOK, Knows, OnlyOut, Joined, Peers, Half, HalfBy
<1> QED
  BY <1>1, <1>2, <1>3, <1>4, <1>5 DEF FragmentsInv

LEMMA NextInv ==
    ASSUME FragmentsInv, FragmentsNext
    PROVE  FragmentsInv'
<1>1. ASSUME NEW b \in Brokers, NEW V \in SUBSET Brokers, Start(b, V)
      PROVE  FragmentsInv'
  BY <1>1, StartInv
<1>2. ASSUME NEW b \in Brokers, Stop(b)
      PROVE  FragmentsInv'
  BY <1>2, StopInv
<1>3. ASSUME NEW b \in Brokers, Rest(b)
      PROVE  FragmentsInv'
  BY <1>3, RestInv
<1>4. ASSUME NEW b \in Brokers, Choose(b)
      PROVE  FragmentsInv'
  BY <1>4, ChooseInv
<1>5. ASSUME NEW b \in Brokers, Ask(b)
      PROVE  FragmentsInv'
  BY <1>5, AskInv
<1>6. ASSUME NEW b \in Brokers, Answer(b)
      PROVE  FragmentsInv'
  BY <1>6, AnswerInv
<1>7. ASSUME NEW m \in sent, Meet(m)
      PROVE  FragmentsInv'
  BY <1>7, MeetInv
<1>8. ASSUME NEW m \in sent, Keep(m)
      PROVE  FragmentsInv'
  BY <1>8, KeepInv
<1>9. ASSUME NEW u \in updates, Learn(u)
      PROVE  FragmentsInv'
  BY <1>9, LearnInv
<1> QED
  BY <1>1, <1>2, <1>3, <1>4, <1>5, <1>6, <1>7, <1>8, <1>9 DEF FragmentsNext

(* In every state the members a broker knows, the links, the requests and  *)
(* the updates fit together: fragments are nested, a link is added when    *)
(* all members of both fragments know them, and of what lies beyond a link *)
(* nobody has another way back.                                            *)
THEOREM FragmentsFit == FragmentsSpec => []FragmentsInv
<1>1. FragmentsInit => FragmentsInv
  BY InitInv
<1>2. FragmentsInv /\ [FragmentsNext]_fragments => FragmentsInv'
  BY NextInv, NothingMoves
<1> QED
  BY <1>1, <1>2, PTL DEF FragmentsSpec

-----------------------------------------------------------------------------
(* The forest                                                              *)

LEMMA SpansStays ==
    ASSUME NEW b \in Brokers, Spans(b), members'[b] = members[b],
           \A x, y \in members[b] : Forests!Joined(x, y) => Forests!Joined(x, y)'
    PROVE  Spans(b)'
BY DEF Spans

(* As long as nothing changes but reports and requests.                    *)
LEMMA ForestStays ==
    ASSUME Connected, LinksForward, UNCHANGED <<round, awake, available, members, linked>>
    PROVE  Connected' /\ LinksForward'
<1>1. \A x, y : Forests!Joined(x, y)' <=> Forests!Joined(x, y)
  BY DEF Forests!Joined
<1>2. \A b \in Brokers : Whole(b)' <=> Whole(b)
  BY DEF Whole, Peers
<1>3. Connected'
  BY <1>1, <1>2, SpansStays DEF Connected
<1> QED
  BY <1>3 DEF LinksForward

LEMMA StartForest ==
    ASSUME FragmentsInv, Connected, LinksForward, NEW b \in Brokers, NEW V \in SUBSET Brokers,
           Start(b, V)
    PROVE  Connected' /\ LinksForward'
<1> USE DEF FragmentsInv
<1>1. PICK n \in Nat : n = round'[b]
  BY DEF Start
<1>2. /\ n > round[b] /\ round' = [round EXCEPT ![b] = n] /\ awake' = [awake EXCEPT ![b] = TRUE]
      /\ available' = [available EXCEPT ![b] = V] /\ members' = [members EXCEPT ![b] = {b}]
      /\ linked' = [linked EXCEPT ![b] = {}]
  BY <1>1, TypeFacts DEF Start
<1>3. /\ round'[b] = n /\ awake'[b] /\ available'[b] = V /\ members'[b] = {b} /\ linked'[b] = {}
      /\ \A d \in Brokers : d # b =>
            /\ round'[d] = round[d] /\ (awake'[d] <=> awake[d]) /\ available'[d] = available[d]
            /\ members'[d] = members[d] /\ linked'[d] = linked[d]
  BY <1>2 DEF FragmentsTypeOK, Set
<1>4. ASSUME NEW d \in Brokers, Whole(d)'
      PROVE  Spans(d)'
  <2>1. CASE d = b
    BY <1>3, <2>1 DEF Spans
  <2>2. CASE d # b
    <3>1. awake[d] /\ \A c \in members[d] : Peers(d, c)'
      BY <1>3, <1>4, <2>2 DEF Whole
    <3>2. members[d] \subseteq Brokers /\ d \in available[d] /\ Knows(d, d) = members[d]
      BY <3>1, OwnFacts, TypeFacts
    <3>3. ASSUME b \in members[d]
          PROVE  FALSE
      <4>1. round[b] >= round[d]
        BY <3>1, <3>2, <3>3 DEF Own
      <4>2. round[d] = n
        BY <1>3, <2>2, <3>1, <3>3 DEF Peers
      <4> QED
        BY <1>2, <4>1, <4>2, TypeFacts
    <3>4. \A c \in members[d] : c # b /\ Peers(d, c)
      BY <1>3, <2>2, <3>1, <3>2, <3>3 DEF Peers
    <3>5. \A x, y \in members[d] : Forests!Joined(x, y) => Forests!Joined(x, y)'
      BY <1>3, <3>2, <3>4 DEF Forests!Joined
    <3>6. Spans(d)
      BY <3>1, <3>4 DEF Connected, Whole
    <3> QED
      BY <1>3, <2>2, <3>5, <3>6, SpansStays
  <2> QED
    BY <2>1, <2>2
<1>5. Connected'
  BY <1>4 DEF Connected
<1>6. ASSUME NEW d \in Brokers, NEW c \in linked'[d]
      PROVE  /\ round'[c] >= round'[d]
             /\ ~awake'[d] /\ awake'[c] /\ round'[c] = round'[d] => d \in available'[c]
  <2>1. d # b /\ c \in linked[d] /\ c \in Brokers
    BY <1>3, <1>6, TypeFacts
  <2>2. round[c] >= round[d]
    BY <2>1 DEF LinksForward
  <2>3. CASE c = b
    BY <1>2, <1>3, <2>1, <2>2, <2>3, TypeFacts
  <2>4. CASE c # b
    BY <1>3, <2>1, <2>4 DEF LinksForward
  <2> QED
    BY <2>3, <2>4
<1> QED
  BY <1>5, <1>6 DEF LinksForward

LEMMA StopForest ==
    ASSUME FragmentsInv, Connected, LinksForward, NEW b \in Brokers, Stop(b)
    PROVE  Connected' /\ LinksForward'
<1> USE DEF FragmentsInv
<1>1. /\ awake[b] /\ members[b] = available[b] /\ UNCHANGED <<round, available, members, linked>>
      /\ \A d \in Brokers : d # b => (awake'[d] <=> awake[d])
      /\ ~awake'[b]
  BY DEF Stop, FragmentsTypeOK
<1>2. \A x, y : Forests!Joined(x, y) => Forests!Joined(x, y)'
  BY <1>1 DEF Forests!Joined
<1>3. \A d \in Brokers : Whole(d)' => Whole(d)
  BY <1>1, TypeFacts DEF Whole, Peers
<1>4. Connected'
  BY <1>1, <1>2, <1>3, SpansStays DEF Connected
<1>5. ASSUME NEW c \in linked[b], awake[c], round[c] = round[b]
      PROVE  b \in available[c]
  <2>1. c \in Brokers /\ Peers(b, c) /\ b \in available[b]
    BY <1>1, <1>5, OwnFacts, TypeFacts DEF Peers
  <2> QED
    BY <2>1, PeersSeeTheSame
<1>6. \A d \in Brokers : linked[d] \subseteq Brokers
  BY TypeFacts
<1> QED
  BY <1>1, <1>4, <1>5, <1>6 DEF LinksForward

LEMMA RestForest ==
    ASSUME FragmentsInv, Connected, LinksForward, NEW b \in Brokers, Rest(b)
    PROVE  Connected' /\ LinksForward'
<1> USE DEF FragmentsInv
<1>1. /\ ~awake[b] /\ UNCHANGED <<round, awake, members>>
      /\ \A d \in Brokers : d # b => available'[d] = available[d] /\ linked'[d] = linked[d]
      /\ linked'[b] \subseteq linked[b]
  BY DEF Rest, FragmentsTypeOK, Set
<1>2. ASSUME NEW d \in Brokers, Whole(d)'
      PROVE  Spans(d)'
  <2>1. Whole(d) /\ members[d] \subseteq Brokers /\ \A c \in members[d] : c # b
    BY <1>1, <1>2, TypeFacts DEF Whole, Peers
  <2>2. \A x, y \in members[d] : Forests!Joined(x, y) => Forests!Joined(x, y)'
    BY <1>1, <2>1 DEF Forests!Joined
  <2> QED
    BY <1>1, <2>1, <2>2, SpansStays DEF Connected
<1>3. \A d \in Brokers : linked[d] \subseteq Brokers /\ linked'[d] \subseteq linked[d]
  BY <1>1, TypeFacts
<1> QED
  BY <1>1, <1>2, <1>3 DEF Connected, LinksForward

LEMMA LearnForest ==
    ASSUME FragmentsInv, Connected, LinksForward, NEW u \in updates, Learn(u)
    PROVE  Connected' /\ LinksForward'
<1>a. PICK b : b = u.to
  OBVIOUS
<1>b. PICK s : s = u.from
  OBVIOUS
<1>c. PICK K : K = members[b]
  OBVIOUS
<1>d. PICK M : M = u.members
  OBVIOUS
<1>0. b \in Brokers /\ s \in Brokers
  BY <1>a, <1>b DEF FragmentsInv, FragmentsTypeOK, Update
<1>1. /\ awake[b] /\ b \in K /\ s \in linked[b] /\ M = Knows(s, b) /\ K \subseteq M
      /\ s \in K
  BY <1>a, <1>b, <1>c, <1>d, <1>0, BeforeLearn
<1> USE DEF FragmentsInv
<1>2. K \cup M = M
  BY <1>1
<1>3. members' = [members EXCEPT ![b] = M] /\ UNCHANGED <<round, awake, available, linked>>
  BY <1>a, <1>c, <1>d, <1>2 DEF Learn
<1>4. members'[b] = M /\ \A d \in Brokers : d # b => members'[d] = members[d]
  BY <1>0, <1>3 DEF FragmentsTypeOK, Set
<1>5. \A x, y : Forests!Joined(x, y)' <=> Forests!Joined(x, y)
  BY <1>3 DEF Forests!Joined
<1>6. ASSUME NEW d \in Brokers, Whole(d)'
      PROVE  Spans(d)'
  <2>1. CASE d # b
    BY <1>3, <1>4, <1>5, <1>6, <2>1, SpansStays DEF Whole, Peers, Connected
  <2>2. CASE d = b
    <3>1. \A c \in M : Peers(b, c)
      BY <1>3, <1>4, <1>6, <2>2 DEF Whole, Peers
    <3>2. Peers(b, s) /\ M = members[s]
      BY <1>0, <1>1, <3>1, PeersSeeTheSame
    <3>3. Spans(s)
      <4>1. \A c \in M : Peers(s, c)
        BY <3>1, <3>2 DEF Peers
      <4> QED
        BY <1>0, <3>2, <4>1 DEF Connected, Whole, Peers
    <3>4. ASSUME NEW S \in SUBSET M, b \in S,
                 \A x \in S, y \in M : Forests!Joined(x, y) => y \in S
          PROVE  S = M
      <4>1. Forests!Joined(b, s)
        BY <1>1, <3>2 DEF Forests!Joined, Peers
      <4>2. s \in S
        BY <1>1, <3>4, <4>1
      <4> QED
        BY <3>2, <3>3, <3>4, <4>2 DEF Spans
    <3> QED
      BY <1>4, <1>5, <2>2, <3>4 DEF Spans
  <2> QED
    BY <2>1, <2>2
<1> QED
  BY <1>3, <1>6 DEF Connected, LinksForward

(* What merging does to links, wherever the new members come from.         *)
LEMMA MergeForest ==
    ASSUME FragmentsInv, Connected, LinksForward, NEW x \in Brokers, NEW y \in Brokers,
           NEW A, NEW N, A = members[x], Peers(x, y), Merged(x, y, A, N),
           (\A c \in N : Peers(x, c)) => Spans(x)'
    PROVE  Connected' /\ LinksForward'
<1> USE DEF FragmentsInv
<1>1. /\ UNCHANGED <<round, awake, available>>
      /\ members'[x] = N /\ \A d \in Brokers : d # x => members'[d] = members[d]
      /\ linked'[x] = linked[x] \cup {y}
      /\ \A d \in Brokers : d # x => linked'[d] = linked[d]
  BY DEF Merged
<1>2. \A p, q \in Brokers : Forests!Joined(p, q) => Forests!Joined(p, q)'
  BY <1>1 DEF Forests!Joined
<1>3. ASSUME NEW d \in Brokers, Whole(d)'
      PROVE  Spans(d)'
  <2>1. CASE d = x
    BY <1>1, <1>3, <2>1 DEF Whole, Peers
  <2>2. CASE d # x
    <3>1. Whole(d) /\ members[d] \subseteq Brokers
      BY <1>1, <1>3, <2>2, TypeFacts DEF Whole, Peers
    <3> QED
      BY <1>1, <1>2, <2>2, <3>1, SpansStays DEF Connected
  <2> QED
    BY <2>1, <2>2
<1>4. Peers(x, y) /\ awake[x] /\ round[x] = round[y] /\ round[y] \in Nat
  BY TypeFacts DEF Peers
<1> QED
  BY <1>1, <1>3, <1>4 DEF Connected, LinksForward

(* The first end of a link joins two fragments, each of them connected.    *)
LEMMA FirstForest ==
    ASSUME FragmentsInv, Connected, LinksForward, NEW x \in Brokers, NEW y \in Brokers,
           NEW r, First(x, y, r)
    PROVE  Connected' /\ LinksForward'
<1>a. PICK A : A = members[x]
  OBVIOUS
<1>b. PICK B : B = members[y]
  OBVIOUS
<1>c. PICK N : N = A \cup B
  OBVIOUS
<1>0. FirstMerged(x, y, A, B, N)
  BY <1>a, <1>b, <1>c, FirstStep
<1>1. /\ awake[x] /\ awake[y] /\ Peers(x, y) /\ x \in A /\ y \in B
      /\ A \subseteq Brokers /\ B \subseteq Brokers /\ Full(x) /\ Full(y)
      /\ Merged(x, y, A, N)
  BY <1>0 DEF FirstMerged
<1>2. /\ members'[x] = N /\ linked'[x] = linked[x] \cup {y} /\ UNCHANGED round
      /\ \A d \in Brokers : d # x => linked'[d] = linked[d]
  BY <1>1 DEF Merged
<1>3. \A p, q \in Brokers : Forests!Joined(p, q) => Forests!Joined(p, q)'
  BY <1>2 DEF Forests!Joined
<1>4. Forests!Joined(x, y)'
  BY <1>1, <1>2 DEF Forests!Joined, Peers
<1>5. Spans(x) /\ Spans(y)
  BY <1>a, <1>b, <1>1 DEF Connected, Whole, Full
<1>6. ASSUME NEW S \in SUBSET N, x \in S,
             \A p \in S, q \in N : Forests!Joined(p, q)' => q \in S
      PROVE  S = N
  <2>1. S \cap A = A
    <3>1. S \cap A \in SUBSET members[x] /\ x \in S \cap A
      BY <1>a, <1>1, <1>6
    <3>2. \A p \in S \cap A, q \in A : Forests!Joined(p, q) => q \in S \cap A
      BY <1>c, <1>1, <1>3, <1>6
    <3> QED
      BY <1>a, <1>5, <3>1, <3>2 DEF Spans
  <2>2. y \in S
    BY <1>c, <1>1, <1>4, <1>6
  <2>3. S \cap B = B
    <3>1. S \cap B \in SUBSET members[y] /\ y \in S \cap B
      BY <1>b, <1>1, <2>2
    <3>2. \A p \in S \cap B, q \in B : Forests!Joined(p, q) => q \in S \cap B
      BY <1>c, <1>1, <1>3, <1>6
    <3> QED
      BY <1>b, <1>5, <3>1, <3>2 DEF Spans
  <2> QED
    BY <1>c, <2>1, <2>3
<1>7. Spans(x)'
  BY <1>2, <1>6 DEF Spans
<1> QED
  BY <1>a, <1>1, <1>7, MergeForest

(* The second end comes to know what the first one knew.                   *)
LEMMA SecondForest ==
    ASSUME FragmentsInv, Connected, LinksForward, NEW m, NEW x \in Brokers, NEW y \in Brokers,
           NEW A, NEW N, Second(m, x, y, A, N)
    PROVE  Connected' /\ LinksForward'
<1>1. /\ awake[y] /\ Peers(x, y) /\ x \in A /\ A \subseteq N /\ A = members[x] /\ N = members[y]
      /\ y \in N /\ Merged(x, y, A, N)
  BY DEF Second
<1>2. /\ members'[x] = N /\ linked'[x] = linked[x] \cup {y} /\ UNCHANGED round
      /\ \A d \in Brokers : d # x => linked'[d] = linked[d]
  BY <1>1 DEF Merged
<1>3. N \subseteq Brokers
  BY <1>1, TypeFacts DEF FragmentsInv
<1>4. \A p, q \in N : Forests!Joined(p, q) => Forests!Joined(p, q)'
  BY <1>2, <1>3 DEF Forests!Joined
<1>5. Forests!Joined(x, y)'
  BY <1>1, <1>2 DEF Forests!Joined, Peers
<1>6. ASSUME \A c \in N : Peers(x, c)
      PROVE  Spans(x)'
  <2>1. Spans(y)
    BY <1>1, <1>6 DEF Connected, Whole, Peers
  <2>2. ASSUME NEW S \in SUBSET N, x \in S,
               \A p \in S, q \in N : Forests!Joined(p, q)' => q \in S
        PROVE  S = N
    <3>1. y \in S
      BY <1>1, <1>5, <2>2
    <3>2. \A p \in S, q \in N : Forests!Joined(p, q) => q \in S
      BY <1>4, <2>2
    <3> QED
      BY <1>1, <2>1, <3>1, <3>2 DEF Spans
  <2> QED
    BY <1>2, <2>2 DEF Spans
<1> QED
  BY <1>1, <1>6, MergeForest

LEMMA MeetSecond ==
    ASSUME FragmentsInv, NEW m \in sent, Meet(m), ~Open(m)
    PROVE  /\ m.to \in Brokers /\ m.from \in Brokers
           /\ Second(m, m.to, m.from, members[m.to], members[m.from])
<1>a. PICK x : x = m.to
  OBVIOUS
<1>b. PICK y : y = m.from
  OBVIOUS
<1>c. PICK A : A = members[x]
  OBVIOUS
<1>d. PICK N : N = members[y]
  OBVIOUS
<1>0. x \in Brokers /\ y \in Brokers
  BY <1>a, <1>b DEF FragmentsInv, FragmentsTypeOK, Request
<1>1. HalfBy(m, y, x)
  BY <1>a, <1>b DEF FragmentsInv, SentOK
<1>2. Second(m, x, y, A, N)
  BY <1>a, <1>b, <1>c, <1>d, <1>0, <1>1, SecondStep
<1> QED
  BY <1>a, <1>b, <1>c, <1>d, <1>0, <1>2

(* No link of the round leads out of a fragment that all its members know  *)
(* and nobody knows more of, be its neighbours awake or not.               *)
LEMMA FragmentIsClosed ==
    ASSUME FragmentsInv, LinksForward, NEW b \in Brokers, awake[b], Full(b), ~Surpassed(b),
           members[b] # available[b]
    PROVE  \A u \in members[b], v \in Brokers : LinkIn(u, v, round[b]) => v \in members[b]
<1> USE DEF FragmentsInv
<1>1. /\ b \in members[b] /\ members[b] \subseteq Brokers /\ members[b] \subseteq available[b]
      /\ \A u \in members[b] : Peers(b, u) /\ members[u] = members[b] /\ available[u] = available[b]
  BY OwnFacts, TypeFacts, PeersSeeTheSame DEF Full
<1> SUFFICES ASSUME NEW u \in members[b], NEW v \in Brokers, LinkIn(u, v, round[b])
             PROVE  v \in members[b]
  OBVIOUS
<1>2. awake[u] /\ u \in Brokers /\ round[u] = round[b] /\ Peers(b, u)
  BY <1>1 DEF Peers
<1>3. CASE v \in linked[u]
  BY <1>1, <1>2, <1>3, OwnFacts
<1>4. CASE u \in linked[v] /\ round[v] = round[b] /\ awake[v]
  <2>1. Peers(b, v) /\ members[v] \subseteq Brokers /\ v \in members[v] /\ u \in members[v]
        /\ v \in available[b] /\ Knows(v, b) = members[v]
    BY <1>2, <1>4, OwnFacts, TypeFacts, PeersSeeTheSame DEF Peers
  <2>2. members[b] \subseteq members[v] \/ members[v] \subseteq members[b]
    BY <2>1 DEF Nested
  <2> QED
    BY <2>1, <2>2 DEF Surpassed
<1>5. CASE u \in linked[v] /\ round[v] = round[b] /\ ~awake[v]
  <2>1. v \in available[b]
    <3>1. v \in available[u]
      BY <1>2, <1>5 DEF LinksForward
    <3> QED
      BY <1>1, <3>1
  <2>2. Knows(v, b) = available[b]
    BY <1>1, <1>5, <2>1, TypeFacts DEF Knows, Peers
  <2> QED
    BY <1>1, <2>1, <2>2 DEF Surpassed
<1> QED
  BY <1>3, <1>4, <1>5 DEF LinkIn

(* So it is the one the links make.                                        *)
LEMMA FragmentIs ==
    ASSUME FragmentsInv, Connected, LinksForward, NEW b \in Brokers, NEW c, awake[b], Full(b),
           ~Surpassed(b), Shortest(b, c)
    PROVE  Forests!Fragment(b) = members[b]
<1> USE DEF FragmentsInv
<1>1. /\ b \in members[b] /\ members[b] \subseteq Brokers /\ members[b] # available[b]
      /\ \A u \in members[b] : Peers(b, u) /\ members[u] = members[b]
  BY OwnFacts, TypeFacts DEF Full, Shortest
<1>2. ASSUME NEW u \in members[b], NEW v \in Brokers, Forests!Joined(u, v)
      PROVE  v \in members[b]
  <2>1. LinkIn(u, v, round[b])
    BY <1>1, <1>2 DEF Forests!Joined, LinkIn, Peers
  <2> QED
    BY <1>1, <2>1, FragmentIsClosed
<1>3. Spans(b)
  BY <1>1 DEF Connected, Whole
<1>4. ASSUME NEW S \in SUBSET Brokers, b \in S,
             \A x \in S, y \in Brokers : Forests!Joined(x, y) => y \in S
      PROVE  members[b] \subseteq S
  <2>1. S \cap members[b] \in SUBSET members[b] /\ b \in S \cap members[b]
    BY <1>1, <1>4
  <2>2. \A x \in S \cap members[b], y \in members[b] :
           Forests!Joined(x, y) => y \in S \cap members[b]
    BY <1>1, <1>4
  <2>3. S \cap members[b] = members[b]
    BY <1>3, <2>1, <2>2 DEF Spans
  <2> QED
    BY <2>3
<1>5. \A d \in Forests!Fragment(b) : d \in members[b]
  BY <1>1, <1>2 DEF Forests!Fragment
<1>6. \A d \in members[b] : d \in Forests!Fragment(b)
  BY <1>1, <1>4 DEF Forests!Fragment
<1> QED
  BY <1>5, <1>6

-----------------------------------------------------------------------------
(* Links as bridges                                                        *)

LEMMA BridgesStay ==
    ASSUME Bridges,
           \A b \in Brokers : \A c \in linked'[b] : c \in linked[b] /\ round'[b] = round[b],
           \A u, v \in Brokers : \A n : LinkIn(u, v, n)' => LinkIn(u, v, n)
    PROVE  Bridges'
<1> SUFFICES ASSUME NEW b \in Brokers, NEW c \in linked'[b], NEW n, n = round[b]
             PROVE  \E S \in SUBSET Brokers : Parts(S, b, c, n)'
  BY DEF Bridges
<1>1. PICK S \in SUBSET Brokers : Parts(S, b, c, n)
  BY DEF Bridges
<1>2. Parts(S, b, c, n)'
  BY <1>1 DEF Parts
<1> QED
  BY <1>2

(* No link of round n leads out of F.                                      *)
ClosedIn(F, n) == \A u \in F, v \in Brokers : LinkIn(u, v, n) => v \in F

(* A link {g, e} into a fragment F leaves a bridge elsewhere a bridge.     *)
LEMMA CutExtends ==
    ASSUME NEW n, NEW F \in SUBSET Brokers, ClosedIn(F, n),
           NEW g \in F, NEW e \in Brokers \ F,
           \A u, v \in Brokers : LinkIn(u, v, n)' => LinkIn(u, v, n) \/ {u, v} = {g, e},
           NEW d \in Brokers \ F, NEW f \in Brokers \ F, NEW S \in SUBSET Brokers,
           Parts(S, d, f, n)
    PROVE  \E T \in SUBSET Brokers : Parts(T, d, f, n)'
<1> DEFINE T == IF e \in S THEN S \cup F ELSE S \ F
<1>1. T \in SUBSET Brokers /\ d \in T /\ f \notin T
  BY DEF Parts
<1>2. ASSUME NEW u \in T, NEW v \in Brokers \ T, LinkIn(u, v, n)'
      PROVE  u = d /\ v = f
  <2>1. {u, v} # {g, e}
    BY <1>2
  <2>2. LinkIn(u, v, n) /\ LinkIn(v, u, n)
    BY <1>1, <1>2, <2>1 DEF LinkIn
  <2>3. u \in F <=> v \in F
    BY <1>1, <1>2, <2>2 DEF ClosedIn
  <2>4. u \in S /\ v \in Brokers \ S
    BY <1>2, <2>3
  <2> QED
    BY <2>2, <2>4 DEF Parts
<1>3. Parts(T, d, f, n)'
  BY <1>1, <1>2 DEF Parts
<1> QED
  BY <1>1, <1>3

LEMMA FirstBridges ==
    ASSUME FragmentsInv, LinksForward, Bridges, NEW x \in Brokers, NEW y \in Brokers, NEW r,
           First(x, y, r)
    PROVE  Bridges'
<1>a. PICK A : A = members[x]
  OBVIOUS
<1>b. PICK B : B = members[y]
  OBVIOUS
<1>c. PICK N : N = A \cup B
  OBVIOUS
<1>d. PICK n : n = round[x]
  OBVIOUS
<1>0. FirstMerged(x, y, A, B, N)
  BY <1>a, <1>b, <1>c, FirstStep
<1>1. /\ awake[x] /\ awake[y] /\ Peers(x, y) /\ x \in A /\ y \in B /\ A \cap B = {}
      /\ A \in SUBSET Brokers /\ B \in SUBSET Brokers /\ x \in available[x] /\ y \in available[x]
      /\ Full(x) /\ Full(y) /\ ~Surpassed(x) /\ ~Surpassed(y) /\ Merged(x, y, A, N)
      /\ round[y] = n
  BY <1>0, <1>d DEF FirstMerged, Peers
<1>2. /\ linked'[x] = linked[x] \cup {y} /\ UNCHANGED round
      /\ \A d \in Brokers : d # x => linked'[d] = linked[d]
  BY <1>1 DEF Merged
<1>3. ClosedIn(A, n)
  BY <1>a, <1>d, <1>1, FragmentIsClosed DEF ClosedIn
<1>4. ClosedIn(B, n)
  <2>1. available[y] = available[x]
    BY <1>1, PeersSeeTheSame DEF FragmentsInv
  <2> QED
    BY <1>b, <1>1, <2>1, FragmentIsClosed DEF ClosedIn
<1>5. \A u, v \in Brokers : \A k :
         LinkIn(u, v, k)' => LinkIn(u, v, k) \/ (k = n /\ {u, v} = {x, y})
  <2>1. \A u, v \in Brokers : v \in linked'[u] => v \in linked[u] \/ (u = x /\ v = y)
    BY <1>2
  <2> QED
    BY <1>d, <1>1, <1>2, <2>1 DEF LinkIn
<1> SUFFICES ASSUME NEW b \in Brokers, NEW c \in linked'[b], NEW k, k = round[b]
             PROVE  \E S \in SUBSET Brokers : Parts(S, b, c, k)'
  BY <1>2 DEF Bridges
<1>6. CASE c \notin linked[b]
  <2>1. b = x /\ c = y /\ k = n
    BY <1>d, <1>2, <1>6
  <2>2. \A u \in A, v \in Brokers \ A : LinkIn(u, v, n)' => u = x /\ v = y
    BY <1>1, <1>3, <1>5 DEF ClosedIn
  <2>3. Parts(A, x, y, n)'
    BY <1>1, <2>2 DEF Parts
  <2> QED
    BY <1>1, <2>1, <2>3
<1>7. CASE c \in linked[b]
  <2>0. c \in Brokers
    BY <1>7, TypeFacts DEF FragmentsInv
  <2>1. PICK S \in SUBSET Brokers : Parts(S, b, c, k)
    BY <1>7 DEF Bridges
  <2>2. CASE k # n
    <3>1. Parts(S, b, c, k)'
      BY <1>5, <2>1, <2>2 DEF Parts
    <3> QED
      BY <3>1
  <2>3. CASE k = n
    <3>1. LinkIn(b, c, n) /\ LinkIn(c, b, n) /\ Parts(S, b, c, n)
      BY <1>7, <2>1, <2>3 DEF LinkIn
    <3>2. \A u, v \in Brokers : LinkIn(u, v, n)' => LinkIn(u, v, n) \/ {u, v} = {x, y}
      BY <1>5
    <3>3. \E T \in SUBSET Brokers : Parts(T, b, c, n)'
      <4>1. CASE b \in A
        <5>1. b \in Brokers \ B /\ c \in Brokers \ B /\ x \in Brokers \ B /\ y \in B
          BY <1>1, <1>3, <2>0, <3>1, <4>1 DEF ClosedIn
        <5>2. \A u, v \in Brokers : LinkIn(u, v, n)' => LinkIn(u, v, n) \/ {u, v} = {y, x}
          BY <3>2
        <5> QED
          BY <1>1, <1>4, <3>1, <5>1, <5>2, CutExtends
      <4>2. CASE b \notin A
        <5>1. b \in Brokers \ A /\ c \in Brokers \ A /\ y \in Brokers \ A /\ x \in A
          BY <1>1, <1>3, <2>0, <3>1, <4>2 DEF ClosedIn
        <5> QED
          BY <1>1, <1>3, <3>1, <3>2, <5>1, CutExtends
      <4> QED
        BY <4>1, <4>2
    <3> QED
      BY <2>3, <3>3
  <2> QED
    BY <2>2, <2>3
<1> QED
  BY <1>6, <1>7

(* The second end of a link is on the other side of the same bridge.       *)
LEMMA SecondBridges ==
    ASSUME FragmentsInv, Bridges, NEW m, NEW x \in Brokers, NEW y \in Brokers, NEW A, NEW N,
           Second(m, x, y, A, N)
    PROVE  Bridges'
<1>1. /\ Merged(x, y, A, N) /\ x \in linked[y] /\ round[x] = round[y]
  BY DEF Second, Peers
<1>2. /\ linked'[x] = linked[x] \cup {y} /\ UNCHANGED round
      /\ \A d \in Brokers : d # x => linked'[d] = linked[d]
  BY <1>1 DEF Merged
<1>3. \A u, v \in Brokers : \A k : LinkIn(u, v, k)' => LinkIn(u, v, k)
  BY <1>1, <1>2 DEF LinkIn
<1> SUFFICES ASSUME NEW b \in Brokers, NEW c \in linked'[b], NEW k, k = round[b]
             PROVE  \E S \in SUBSET Brokers : Parts(S, b, c, k)'
  BY <1>2 DEF Bridges
<1>4. \E S \in SUBSET Brokers : Parts(S, b, c, k)
  <2>1. CASE c \in linked[b]
    BY <2>1 DEF Bridges
  <2>2. CASE c \notin linked[b]
    <3>1. b = x /\ c = y /\ k = round[y]
      BY <1>1, <1>2, <2>2
    <3>2. PICK S \in SUBSET Brokers : Parts(S, y, x, k)
      BY <1>1, <3>1 DEF Bridges
    <3>3. Parts(Brokers \ S, x, y, k)
      BY <3>2 DEF Parts, LinkIn
    <3> QED
      BY <3>1, <3>3
  <2> QED
    BY <2>1, <2>2
<1>5. PICK S \in SUBSET Brokers : Parts(S, b, c, k)
  BY <1>4
<1>6. Parts(S, b, c, k)'
  BY <1>3, <1>5 DEF Parts
<1> QED
  BY <1>6

LEMMA NextBridges ==
    ASSUME FragmentsInv, LinksForward, Bridges, [FragmentsNext]_fragments
    PROVE  Bridges'
<1>1. ASSUME NEW b \in Brokers, NEW V \in SUBSET Brokers, Start(b, V)
      PROVE  Bridges'
  <2>1. /\ linked'[b] = {}
        /\ \A d \in Brokers : d # b => linked'[d] = linked[d] /\ round'[d] = round[d]
    BY <1>1 DEF Start, FragmentsInv, FragmentsTypeOK, Set
  <2>2. \A d \in Brokers : \A c \in linked'[d] : c \in linked[d] /\ round'[d] = round[d]
    BY <2>1
  <2>3. \A u, v \in Brokers : \A n : LinkIn(u, v, n)' => LinkIn(u, v, n)
    BY <2>1 DEF LinkIn
  <2> QED
    BY <2>2, <2>3, BridgesStay
<1>2. ASSUME NEW b \in Brokers, Rest(b)
      PROVE  Bridges'
  <2>1. \A d \in Brokers : linked'[d] \subseteq linked[d] /\ round'[d] = round[d]
    BY <1>2 DEF Rest, FragmentsInv, FragmentsTypeOK, Set
  <2>2. \A u, v \in Brokers : \A n : LinkIn(u, v, n)' => LinkIn(u, v, n)
    BY <2>1 DEF LinkIn
  <2> QED
    BY <2>1, <2>2, BridgesStay
<1>3. CASE UNCHANGED <<round, linked>>
  BY <1>3, BridgesStay DEF LinkIn
<1>4. ASSUME NEW b \in Brokers, Stop(b) \/ Choose(b) \/ Ask(b)
      PROVE  Bridges'
  BY <1>3, <1>4 DEF Stop, Choose, Ask
<1>5. ASSUME NEW b \in Brokers, Answer(b)
      PROVE  Bridges'
  BY <1>5, AnswerIsFirst, FirstBridges
<1>6. ASSUME NEW m \in sent, Meet(m)
      PROVE  Bridges'
  <2>1. CASE Open(m)
    BY <1>6, <2>1, MeetIsFirst, FirstBridges
  <2>2. CASE ~Open(m)
    BY <1>6, <2>2, MeetSecond, SecondBridges
  <2> QED
    BY <2>1, <2>2
<1>7. ASSUME NEW m \in sent, Keep(m)
      PROVE  Bridges'
  BY <1>3, <1>7 DEF Keep
<1>8. ASSUME NEW u \in updates, Learn(u)
      PROVE  Bridges'
  BY <1>3, <1>8 DEF Learn
<1>9. CASE UNCHANGED fragments
  BY <1>3, <1>9 DEF fragments
<1> QED
  BY <1>1, <1>2, <1>4, <1>5, <1>6, <1>7, <1>8, <1>9 DEF FragmentsNext

-----------------------------------------------------------------------------
(* The steps of the forest                                                 *)

LEMMA NextForest ==
    ASSUME FragmentsInv, Connected, LinksForward, [FragmentsNext]_fragments
    PROVE  Connected' /\ LinksForward'
<1>1. ASSUME NEW b \in Brokers, NEW V \in SUBSET Brokers, Start(b, V)
      PROVE  Connected' /\ LinksForward'
  BY <1>1, StartForest
<1>2. ASSUME NEW b \in Brokers, Stop(b)
      PROVE  Connected' /\ LinksForward'
  BY <1>2, StopForest
<1>3. ASSUME NEW b \in Brokers, Rest(b)
      PROVE  Connected' /\ LinksForward'
  BY <1>3, RestForest
<1>4. ASSUME NEW b \in Brokers, Choose(b) \/ Ask(b)
      PROVE  Connected' /\ LinksForward'
  BY <1>4, ForestStays DEF Choose, Ask
<1>5. ASSUME NEW b \in Brokers, Answer(b)
      PROVE  Connected' /\ LinksForward'
  BY <1>5, AnswerIsFirst, FirstForest
<1>6. ASSUME NEW m \in sent, Meet(m)
      PROVE  Connected' /\ LinksForward'
  <2>1. CASE Open(m)
    BY <1>6, <2>1, MeetIsFirst, FirstForest
  <2>2. CASE ~Open(m)
    BY <1>6, <2>2, MeetSecond, SecondForest
  <2> QED
    BY <2>1, <2>2
<1>7. ASSUME NEW m \in sent, Keep(m)
      PROVE  Connected' /\ LinksForward'
  BY <1>7, ForestStays DEF Keep
<1>8. ASSUME NEW u \in updates, Learn(u)
      PROVE  Connected' /\ LinksForward'
  BY <1>8, LearnForest
<1>9. CASE UNCHANGED fragments
  BY <1>9, ForestStays DEF fragments
<1> QED
  BY <1>1, <1>2, <1>3, <1>4, <1>5, <1>6, <1>7, <1>8, <1>9 DEF FragmentsNext

(* The first end of a link finds it to be the shortest way out of both     *)
(* fragments that the links make.                                          *)
LEMMA FirstIsLink ==
    ASSUME FragmentsInv, Connected, LinksForward, NEW x \in Brokers, NEW y \in Brokers,
           NEW r, First(x, y, r), Shortest(x, y)
    PROVE  Forests!Link(x, y)
<1> USE DEF FragmentsInv
<1>1. /\ Peers(x, y) /\ Full(x) /\ Full(y) /\ ~Surpassed(x) /\ ~Surpassed(y) /\ Pending(y, x)
      /\ linked' = [linked EXCEPT ![x] = @ \cup {y}]
      /\ UNCHANGED <<delay, round, available>>
  BY DEF First, Ready, Merge
<1>2. awake[x] /\ awake[y] /\ round[x] = round[y] /\ available[x] = available[y]
  BY <1>1, PeersSeeTheSame DEF Peers
<1>3. Shortest(y, x)
  BY <1>1 DEF PendingOK
<1>4. Forests!Fragment(x) = members[x] /\ Forests!Fragment(y) = members[y]
  BY <1>1, <1>2, <1>3, FragmentIs
<1>5. x \in members[x] /\ y \in members[y] /\ {x, y} \subseteq available[x]
  BY <1>2, <1>3, OwnFacts DEF Shortest
<1>6. /\ Forests!ShortestWayOut(x, y, members[x], available[x])
      /\ Forests!ShortestWayOut(y, x, members[y], available[y])
  BY <1>3, <1>5 DEF Shortest, Forests!ShortestWayOut
<1> QED
  BY <1>1, <1>2, <1>4, <1>5, <1>6 DEF Forests!Link

(* Every step of the fragments is one of the forest or changes none of it. *)
LEMMA StepIsForest ==
    ASSUME FragmentsInv, Connected, LinksForward, [FragmentsNext]_fragments
    PROVE  [Forests!ForestNext]_Forests!forest
<1> USE DEF FragmentsInv
<1>1. ASSUME NEW b \in Brokers, NEW V \in SUBSET Brokers, Start(b, V)
      PROVE  Forests!Build(b)
  <2>1. PICK n \in Nat : n = round'[b]
    BY <1>1 DEF Start
  <2>2. n > round[b] /\ round' = [round EXCEPT ![b] = n]
    BY <1>1, <2>1, TypeFacts DEF Start
  <2> QED
    BY <1>1, <2>1, <2>2 DEF Start, Forests!Build
<1>2. ASSUME NEW b \in Brokers, Stop(b) \/ Choose(b) \/ Ask(b)
      PROVE  UNCHANGED Forests!forest
  BY <1>2 DEF Stop, Choose, Ask, Forests!forest
<1>3. ASSUME NEW b \in Brokers, Rest(b)
      PROVE  Forests!Learn(b) \/ Forests!Leave(b)
  BY <1>3 DEF Rest, Forests!Learn, Forests!Leave
<1>4. ASSUME NEW b \in Brokers, Answer(b)
      PROVE  \E c \in Brokers : Forests!Link(b, c)
  <2>1. PICK c \in Brokers : c = chosen[b]
    BY <1>4, AnswerIsFirst
  <2>2. Shortest(b, c)
    BY <1>4, <2>1 DEF ChosenOK, Answer
  <2>3. First(b, c, request(b, c))
    BY <1>4, <2>1, AnswerIsFirst
  <2> QED
    BY <2>2, <2>3, FirstIsLink
<1>5. ASSUME NEW m \in sent, Meet(m)
      PROVE  \E b, c \in Brokers : Forests!Link(b, c)
  <2>1. PICK b \in Brokers : b = m.to
    BY DEF FragmentsTypeOK, Request
  <2>2. PICK c \in Brokers : c = m.from
    BY DEF FragmentsTypeOK, Request
  <2>3. CASE Open(m)
    <3>1. First(b, c, request(b, c))
      BY <1>5, <2>1, <2>2, <2>3, MeetIsFirst
    <3>2. awake[b] /\ c \in asked[b] /\ c \notin members[b]
      <4>1. c \in members[c] /\ members[b] \cap members[c] = {} /\ awake[b]
        BY <3>1, OwnFacts DEF First, Ready, Peers
      <4> QED
        BY <1>5, <2>1, <2>2, <4>1 DEF Meet
    <3>3. Shortest(b, c)
      BY <3>2 DEF PendingOK, Pending
    <3> QED
      BY <3>1, <3>3, FirstIsLink
  <2>4. CASE ~Open(m)
    <3>1. PICK A : A = members[b]
      OBVIOUS
    <3>2. PICK N : N = members[c]
      OBVIOUS
    <3>3. Second(m, b, c, A, N)
      BY <1>5, <2>1, <2>2, <2>4, <3>1, <3>2, MeetSecond
    <3>4. /\ awake[b] /\ awake[c] /\ Peers(b, c) /\ b \in A /\ c \in N /\ N \subseteq available[b]
          /\ b \in linked[c] /\ A \subseteq N
      BY <3>3 DEF Second
    <3>5. round[b] = round[c] /\ available[b] = available[c]
      BY <3>4, PeersSeeTheSame DEF Peers
    <3>6. linked' = [linked EXCEPT ![b] = @ \cup {c}] /\ UNCHANGED <<delay, round, available>>
      BY <1>5, <2>1, <2>2 DEF Meet, Merge
    <3>7. Forests!Link(b, c)
      BY <3>4, <3>5, <3>6 DEF Forests!Link
    <3> QED
      BY <3>7
  <2> QED
    BY <2>3, <2>4
<1>6. ASSUME NEW m \in sent, Keep(m)
      PROVE  UNCHANGED Forests!forest
  BY <1>6 DEF Keep, Forests!forest
<1>7. ASSUME NEW u \in updates, Learn(u)
      PROVE  UNCHANGED Forests!forest
  BY <1>7 DEF Learn, Forests!forest
<1>8. CASE UNCHANGED fragments
  BY <1>8 DEF fragments, Forests!forest
<1> QED
  BY <1>1, <1>2, <1>3, <1>4, <1>5, <1>6, <1>7, <1>8 DEF FragmentsNext, Forests!ForestNext

(* The invariant holds together with what it says of the links: those of a *)
(* broker that knows its whole fragment hold the fragment together, and    *)
(* none of the links of a round closes a cycle, even if an end of it has   *)
(* gone on to the next round.                                              *)
THEOREM LinksSpan == FragmentsSpec => []ForestInv
<1>1. FragmentsInit => Connected /\ LinksForward /\ Bridges
  BY DEF FragmentsInit, Connected, Whole, LinksForward, Bridges
<1>2. ForestInv /\ [FragmentsNext]_fragments => ForestInv'
  BY NextInv, NothingMoves, NextForest, NextBridges DEF ForestInv
<1>3. FragmentsInit => ForestInv
  BY <1>1, InitInv DEF ForestInv
<1> QED
  BY <1>2, <1>3, PTL DEF FragmentsSpec

(* Fragments implements SpanningForest: a link is added by its first end   *)
(* when it is the shortest way out of both fragments as the links make     *)
(* them at that moment, whatever requests and updates are under way.       *)
THEOREM FragmentsBuildForest == FragmentsSpec => BuildsForest
<1>1. FragmentsInit => Forests!ForestInit
  BY DEF FragmentsInit, Forests!ForestInit
<1>2. ForestInv /\ [FragmentsNext]_fragments => [Forests!ForestNext]_Forests!forest
  BY StepIsForest DEF ForestInv
<1> QED
  BY <1>1, <1>2, LinksSpan, PTL DEF FragmentsSpec, BuildsForest, Forests!ForestSpec

-----------------------------------------------------------------------------
(* What the brokers' messages rest on.                                     *)

(* No broker that knows the same members as b has a report under way.      *)
Silent(b) == \A o \in Brokers : edge[o] # None /\ Peers(b, o) => members[b] # members[o]

(* It is so if no member has a report under way,                           *)
LEMMA IdleIsSilent ==
    ASSUME FragmentsInv, NEW b \in Brokers, Idle(b)
    PROVE  Silent(b)
<1> SUFFICES ASSUME NEW o \in Brokers, edge[o] # None, Peers(b, o), members[b] = members[o]
             PROVE  FALSE
  BY DEF Silent
<1>1. o \in members[o]
  BY DEF FragmentsInv, Own, Peers
<1> QED
  BY <1>1 DEF Idle

(* if the broker is told to ask,                                           *)
LEMMA SilentAsks ==
    ASSUME FragmentsInv, NEW b \in Brokers, chosen[b] # None
    PROVE  Silent(b) /\ awake[b] /\ b \in members[b]
           /\ \A m \in sent : ~(m.from = b /\ m.to = chosen[b])
<1>1. /\ awake[b] /\ Idle(b) /\ Shortest(b, chosen[b]) /\ b \in members[b]
      /\ linked[b] \subseteq members[b]
  BY DEF FragmentsInv, ChosenOK, Own
<1>2. ASSUME NEW m \in sent, m.from = b, m.to = chosen[b]
      PROVE  FALSE
  <2>0. chosen[b] \in Brokers /\ chosen[b] \notin members[b]
    BY <1>1 DEF FragmentsInv, FragmentsTypeOK, Shortest
  <2>1. Open(m) \/ HalfBy(m, m.from, m.to)
    BY DEF FragmentsInv, SentOK
  <2>2. CASE Open(m)
    <3>1. Pending(b, chosen[b])
      BY <1>2, <2>2 DEF Open
    <3> QED
      BY <1>1, <2>0, <3>1 DEF FragmentsInv, PendingOK
  <2>3. CASE HalfBy(m, m.from, m.to)
    BY <1>1, <1>2, <2>0, <2>3 DEF HalfBy
  <2> QED
    BY <2>1, <2>2, <2>3
<1> QED
  BY <1>1, <1>2, IdleIsSilent

(* if it waits for the answer,                                             *)
LEMMA SilentWaits ==
    ASSUME FragmentsInv, NEW b \in Brokers, NEW c \in Brokers, Pending(b, c)
    PROVE  Silent(b)
<1>1. Idle(b)
  BY DEF FragmentsInv, PendingOK
<1> QED
  BY <1>1, IdleIsSilent

(* if an update is on its way to it,                                       *)
LEMMA SilentLearns ==
    ASSUME FragmentsInv, NEW u \in updates
    PROVE  Silent(u.to)
<1> DEFINE b == u.to
           s == u.from
<1>0. b \in Brokers /\ s \in Brokers
  BY DEF FragmentsInv, FragmentsTypeOK, Update
<1>1. /\ awake[b] /\ s \in available[b] /\ u.members = Knows(s, b)
      /\ members[b] \subseteq u.members /\ members[b] # u.members
  BY <1>0, BeforeLearn
<1> SUFFICES ASSUME NEW o \in Brokers, edge[o] # None, Peers(b, o), members[b] = members[o]
             PROVE  FALSE
  BY DEF Silent
<1>2. available[b] = available[o] /\ Knows(s, b) = Knows(s, o)
  BY <1>0, PeersSeeTheSame DEF FragmentsInv
<1>3. Surpassed(o)
  BY <1>1, <1>2 DEF Surpassed
<1> QED
  BY <1>3 DEF FragmentsInv, EdgeOK

(* and if it is complete.                                                  *)
LEMMA SilentDone ==
    ASSUME FragmentsInv, NEW b \in Brokers, awake[b] => members[b] = available[b]
    PROVE  Silent(b)
<1> SUFFICES ASSUME NEW o \in Brokers, edge[o] # None, Peers(b, o), members[b] = members[o]
             PROVE  FALSE
  BY DEF Silent
<1>1. awake[b] /\ awake[o] /\ available[b] = available[o]
  BY PeersSeeTheSame DEF FragmentsInv, Peers
<1>2. members[o] = available[o]
  BY <1>1
<1> QED
  BY <1>1, <1>2, ConvergedIsDone

(* Such a broker has no report under way itself.                           *)
LEMMA SilentHasNone ==
    ASSUME FragmentsInv, NEW b \in Brokers, Silent(b)
    PROVE  edge[b] = None
<1> SUFFICES ASSUME edge[b] # None
             PROVE  FALSE
  OBVIOUS
<1>1. awake[b]
  BY DEF FragmentsInv, EdgeOK
<1> QED
  BY <1>1 DEF Silent, Peers

(* While a report of o is under way, those that know the same members do   *)
(* not change.                                                             *)
LEMMA ReportsLast ==
    ASSUME FragmentsInv, FragmentsNext \/ UNCHANGED fragments,
           NEW o \in Brokers, NEW y \in Brokers,
           edge[o] # None, edge'[o] # None, Peers(y, o), members[y] = members[o]
    PROVE  /\ Peers(y, o)' /\ members'[y] = members'[o]
           /\ linked'[y] = linked[y] /\ edge'[o] = edge[o]
<1>0. FragmentsTypeOK /\ awake[o] /\ awake[y]
  BY DEF FragmentsInv, Peers
<1>1. available[y] = available[o] /\ o \in members[o] /\ Peers(o, o) /\ Peers(y, y)
  BY <1>0, PeersSeeTheSame DEF FragmentsInv, Own, Peers
<1>2. ASSUME NEW x \in Brokers, Silent(x)
      PROVE  x # y /\ x # o
  BY <1>1, <1>2 DEF Silent
<1>3. ASSUME UNCHANGED <<round, awake, members, edge>>, linked'[y] = linked[y]
      PROVE  /\ Peers(y, o)' /\ members'[y] = members'[o]
             /\ linked'[y] = linked[y] /\ edge'[o] = edge[o]
  BY <1>3 DEF Peers
<1>4. ASSUME NEW x \in Brokers, NEW c \in Brokers, NEW M, Silent(x), Merge(x, c, M)
      PROVE  /\ Peers(y, o)' /\ members'[y] = members'[o]
             /\ linked'[y] = linked[y] /\ edge'[o] = edge[o]
  <2>1. x # y /\ x # o
    BY <1>2, <1>4
  <2> QED
    BY <1>0, <1>4, <2>1 DEF Merge, Peers, FragmentsTypeOK, Set
<1>5. CASE UNCHANGED fragments
  BY <1>3, <1>5 DEF fragments
<1>6. CASE \E b \in Brokers : \E V \in SUBSET Brokers : Start(b, V)
  <2> PICK b \in Brokers, V \in SUBSET Brokers : Start(b, V)
    BY <1>6
  <2>0. awake[b] => members[b] = available[b]
    <3> PICK n : n = round'[b]
      OBVIOUS
    <3> QED
      BY StartGuard
  <2>1. Silent(b)
    BY <2>0, SilentDone
  <2>2. b # y /\ b # o
    BY <1>2, <2>1
  <2> QED
    BY <1>0, <2>2 DEF Start, Peers, FragmentsTypeOK, Set
<1>7. CASE \E b \in Brokers : Stop(b)
  <2> PICK b \in Brokers : Stop(b)
    BY <1>7
  <2>1. Silent(b)
    BY SilentDone DEF Stop
  <2>2. b # y /\ b # o
    BY <1>2, <2>1
  <2> QED
    BY <1>0, <2>2 DEF Stop, Peers, FragmentsTypeOK, Set
<1>8. CASE \E b \in Brokers : Rest(b)
  <2> PICK b \in Brokers : Rest(b)
    BY <1>8
  <2>1. b # y /\ linked'[y] = linked[y]
    BY <1>0 DEF Rest, FragmentsTypeOK, Set
  <2> QED
    BY <1>3, <2>1 DEF Rest
<1>9. CASE \E b \in Brokers : Choose(b)
  <2> PICK b \in Brokers : Choose(b)
    BY <1>9
  <2> QED
    BY DEF Choose, Peers
<1>10. CASE \E b \in Brokers : Ask(b)
  BY <1>3, <1>10 DEF Ask
<1>11. CASE \E b \in Brokers : Answer(b)
  <2> PICK b \in Brokers : Answer(b)
    BY <1>11
  <2>1. chosen[b] # None /\ \E k \in received[b] : k.from = chosen[b] /\ Merge(b, k.from, k.members)
    BY DEF Answer
  <2>2. chosen[b] \in Brokers
    BY <1>0, <2>1 DEF FragmentsTypeOK, Set
  <2> QED
    BY <1>4, <2>1, <2>2, SilentAsks
<1>12. CASE \E m \in sent : Meet(m)
  <2> PICK m \in sent : Meet(m)
    BY <1>12
  <2>1. /\ m.to \in Brokers /\ m.from \in Brokers
        /\ Merge(m.to, m.from, m.members)
    BY <1>0 DEF Meet, FragmentsTypeOK, Set, Request
  <2>2. Idle(m.to)
    <3>1. CASE Open(m)
      BY <3>1, MeetIsFirst DEF First, Ready
    <3>2. CASE ~Open(m)
      BY <3>2, MeetSecond DEF Second
    <3> QED
      BY <3>1, <3>2
  <2> QED
    BY <1>4, <2>1, <2>2, IdleIsSilent
<1>13. CASE \E m \in sent : Keep(m)
  BY <1>3, <1>13 DEF Keep
<1>14. CASE \E u \in updates : Learn(u)
  <2> PICK u \in updates : Learn(u)
    BY <1>14
  <2>1. u.to # y /\ u.to # o
    <3>1. u.to \in Brokers
      BY <1>0 DEF FragmentsTypeOK, Set, Update
    <3> QED
      BY <1>2, <3>1, SilentLearns
  <2> QED
    BY <1>0, <2>1 DEF Learn, Peers, FragmentsTypeOK, Set
<1> QED
  BY <1>5, <1>6, <1>7, <1>8, <1>9, <1>10, <1>11, <1>12, <1>13, <1>14 DEF FragmentsNext

(* While b is told to ask, its members stay, and what they have linked.    *)
LEMMA OrdersLast ==
    ASSUME FragmentsInv, FragmentsNext \/ UNCHANGED fragments,
           NEW o \in Brokers, NEW y \in members[o], chosen[o] # None, chosen'[o] # None
    PROVE  /\ chosen'[o] = chosen[o]
           /\ y \in members'[o] /\ linked[y] \subseteq linked'[y]
<1>0. FragmentsTypeOK
  BY DEF FragmentsInv
<1>1. /\ y \in Brokers /\ Peers(o, y) /\ members[y] = members[o] /\ available[y] = available[o]
      /\ awake[o] /\ awake[y] /\ edge[o] = None /\ o \in members[o] /\ members[o] \subseteq Brokers
  <2>1. awake[o] /\ Full(o) /\ Idle(o)
    BY DEF FragmentsInv, ChosenOK
  <2>2. y \in Brokers /\ members[o] \subseteq Brokers
    BY <1>0 DEF FragmentsTypeOK, Set
  <2>3. Peers(o, y) /\ members[y] = members[o] /\ o \in members[o] /\ edge[o] = None
    BY <2>1 DEF Full, Idle, FragmentsInv, Own
  <2> QED
    BY <1>0, <2>1, <2>2, <2>3, PeersSeeTheSame DEF FragmentsInv, Peers
<1>2. ASSUME NEW x \in Brokers, awake[x], members[x] = available[x]
      PROVE  x # o /\ x # y
  <2>1. x \notin members[o]
    BY <1>2, ConvergedIsDone
  <2> QED
    BY <1>1, <2>1
<1>3. ASSUME UNCHANGED <<members, chosen>>, linked'[y] = linked[y]
      PROVE  /\ chosen'[o] = chosen[o]
             /\ y \in members'[o] /\ linked[y] \subseteq linked'[y]
  BY <1>3
<1>4. ASSUME NEW x \in Brokers, NEW c \in Brokers, NEW M, Merge(x, c, M),
             chosen'[o] = chosen[o]
      PROVE  /\ chosen'[o] = chosen[o]
             /\ y \in members'[o] /\ linked[y] \subseteq linked'[y]
  BY <1>0, <1>1, <1>4 DEF Merge, FragmentsTypeOK, Set
<1>5. CASE UNCHANGED fragments
  BY <1>3, <1>5 DEF fragments
<1>6. CASE \E b \in Brokers : \E V \in SUBSET Brokers : Start(b, V)
  <2> PICK b \in Brokers, V \in SUBSET Brokers : Start(b, V)
    BY <1>6
  <2>1. awake[b] => members[b] = available[b]
    <3> PICK n : n = round'[b]
      OBVIOUS
    <3> QED
      BY StartGuard
  <2>2. b # y /\ b # o
    BY <1>1, <1>2, <2>1
  <2> QED
    BY <1>0, <1>1, <2>2 DEF Start, FragmentsTypeOK, Set
<1>7. CASE \E b \in Brokers : Stop(b)
  BY <1>3, <1>7 DEF Stop
<1>8. CASE \E b \in Brokers : Rest(b)
  <2> PICK b \in Brokers : Rest(b)
    BY <1>8
  <2>1. b # y /\ linked'[y] = linked[y]
    BY <1>0, <1>1 DEF Rest, FragmentsTypeOK, Set
  <2> QED
    BY <1>3, <2>1 DEF Rest
<1>9. CASE \E b \in Brokers : Choose(b)
  <2> PICK b \in Brokers : Choose(b)
    BY <1>9
  <2>1. edge[b] # None
    BY DEF Choose, FragmentsInv, Own
  <2>2. b # o
    BY <1>1, <2>1
  <2> QED
    BY <1>0, <2>2 DEF Choose, FragmentsTypeOK, Set
<1>10. CASE \E b \in Brokers : Ask(b)
  BY <1>0, <1>10 DEF Ask, FragmentsTypeOK, Set
<1>11. CASE \E b \in Brokers : Answer(b)
  <2> PICK b \in Brokers : Answer(b)
    BY <1>11
  <2>1. /\ chosen[b] # None /\ chosen' = [chosen EXCEPT ![b] = None]
        /\ \E k \in received[b] : k.from = chosen[b] /\ Merge(b, k.from, k.members)
    BY DEF Answer
  <2>2. chosen[b] \in Brokers /\ chosen'[o] = chosen[o]
    BY <1>0, <2>1 DEF FragmentsTypeOK, Set
  <2> QED
    BY <1>4, <2>1, <2>2
<1>12. CASE \E m \in sent : Meet(m)
  <2> PICK m \in sent : Meet(m)
    BY <1>12
  <2>1. /\ m.to \in Brokers /\ m.from \in Brokers
        /\ Merge(m.to, m.from, m.members) /\ UNCHANGED chosen
    BY <1>0 DEF Meet, FragmentsTypeOK, Request
  <2> QED
    BY <1>4, <2>1
<1>13. CASE \E m \in sent : Keep(m)
  BY <1>3, <1>13 DEF Keep
<1>14. CASE \E u \in updates : Learn(u)
  <2> PICK u \in updates : Learn(u)
    BY <1>14
  <2>1. u.to \in Brokers
    BY <1>0 DEF FragmentsTypeOK, Update
  <2> QED
    BY <1>0, <1>1, <2>1 DEF Learn, FragmentsTypeOK, Set
<1> QED
  BY <1>5, <1>6, <1>7, <1>8, <1>9, <1>10, <1>11, <1>12, <1>13, <1>14 DEF FragmentsNext

(* A neighbour that has no update to come knows what the sender knows of   *)
(* a fragment that reports.                                                *)
LEMMA ReceiverKnows ==
    ASSUME FragmentsInv, sent = {}, NEW s \in Brokers, NEW y \in Brokers, NEW o \in Brokers,
           y \in linked[s], Peers(s, o), members[s] = members[o], edge[o] # None,
           \A u \in updates : ~(u.from = s /\ u.to = y)
    PROVE  Peers(y, o) /\ members[y] = members[o] /\ s \in linked[y]
<1>0. FragmentsTypeOK /\ Own /\ Nested
  BY DEF FragmentsInv
<1>1. /\ awake[s] /\ awake[o] /\ Peers(s, o) /\ available[s] = available[o]
      /\ \A d \in Brokers : /\ Knows(d, s) = Knows(d, o)
                            /\ Peers(d, s) <=> Peers(d, o)
                            /\ Peers(s, d) <=> Peers(o, d)
  BY <1>0, PeersSeeTheSame DEF Peers
<1>2. ~Surpassed(o) /\ members[o] # available[o]
  BY DEF FragmentsInv, EdgeOK
<1>3. /\ y \in members[s] /\ s \in members[s] /\ y \in available[s] /\ y # s
      /\ members[s] \subseteq available[s]
      /\ s \in available[s]
  BY <1>0, <1>1 DEF Own
<1>4. \A c \in available[o] : members[o] \subseteq Knows(c, o) => Knows(c, o) = members[o]
  BY <1>2 DEF Surpassed
<1>5. Peers(s, y)
  <2> SUFFICES ASSUME ~Peers(s, y)
               PROVE  FALSE
    OBVIOUS
  <2>1. round[y] >= round[s]
    <3>1. \A d \in Knows(s, s) : round[d] >= round[s]
      BY <1>0, <1>1, <1>3 DEF Own
    <3> QED
      BY <1>1, <1>3, <3>1 DEF Knows
  <2>2. Knows(y, s) = available[s]
    BY <1>1, <1>3, <2>1 DEF Knows, Peers
  <2> QED
    BY <1>1, <1>2, <1>3, <1>4, <2>2
<1>6. s \in linked[y]
  BY <1>1, <1>5 DEF FragmentsInv, LinksOK, Half
<1>7. Peers(y, o) /\ awake[y] /\ Knows(y, s) = members[y] /\ Knows(s, y) = members[s]
  BY <1>0, <1>1, <1>5, PeersSeeTheSame DEF Peers
<1>8. s \in members[y]
  BY <1>0, <1>6, <1>7 DEF Own
<1>9. members[s] \subseteq members[y] \/ members[y] \subseteq members[s]
  BY <1>0, <1>3, <1>5, <1>8 DEF Nested
<1>10. CASE members[s] \subseteq members[y]
  <2>1. Knows(y, o) = members[y]
    BY <1>1, <1>7
  <2> QED
    BY <1>1, <1>3, <1>4, <1>6, <1>7, <1>10, <2>1
<1>11. CASE members[y] \subseteq members[s] /\ members[y] # members[s]
  <2>1. [from |-> s, to |-> y, members |-> Knows(s, y)] \in updates
    BY <1>6, <1>7, <1>11 DEF FragmentsInv, LinksOK
  <2> QED
    BY <2>1
<1> QED
  BY <1>6, <1>7, <1>9, <1>10, <1>11

(* An update says what its sender knows.                                   *)
LEMMA UpdateIsLast ==
    ASSUME FragmentsInv, NEW b \in Brokers, awake[b], NEW u \in updates, u.from = b,
           u.to \in linked[b]
    PROVE  u.members = members[b]
<1> PICK d : d = u.to
  OBVIOUS
<1>0. d \in Brokers /\ FragmentsTypeOK
  BY DEF FragmentsInv, FragmentsTypeOK, Update
<1>1. awake[d] /\ b \in linked[d] /\ u.members = Knows(b, d)
  BY DEF FragmentsInv, UpdatesOK
<1>2. \A x, y \in Brokers : awake[x] /\ y \in linked[x] => round[y] >= round[x]
  <2> SUFFICES ASSUME NEW x \in Brokers, NEW y \in Brokers, awake[x], y \in linked[x]
               PROVE  round[y] >= round[x]
    OBVIOUS
  <2>1. y \in members[x] /\ x \in available[x] /\ Knows(x, x) = members[x]
    BY DEF FragmentsInv, Own, Knows
  <2> QED
    BY <2>1 DEF FragmentsInv, Own
<1>3. round[b] = round[d]
  <2>1. round[b] >= round[d] /\ round[d] >= round[b]
    BY <1>0, <1>1, <1>2
  <2>2. round[b] \in Nat /\ round[d] \in Nat
    BY <1>0 DEF FragmentsTypeOK
  <2> QED
    BY <2>1, <2>2
<1> QED
  BY <1>1, <1>3 DEF Knows

(* A broker whose whole fragment reports is not told to ask.               *)
LEMMA NotBoth ==
    ASSUME FragmentsInv, NEW b \in Brokers, edge[b] # None
    PROVE  chosen[b] = None
BY DEF FragmentsInv, ChosenOK, Idle, EdgeOK, Own

(* A broker that knows of no member has not begun.                         *)
Begun == \A b \in Brokers : members[b] = {} => round[b] = 0

(* It stays so.                                                            *)
LEMMA BegunStays ==
    ASSUME FragmentsInv, FragmentsNext \/ UNCHANGED fragments, Begun
    PROVE  Begun'
<1>0. FragmentsTypeOK
  BY DEF FragmentsInv
<1>1. ASSUME UNCHANGED <<members, round>>
      PROVE  Begun'
  BY <1>1 DEF Begun
<1>2. ASSUME UNCHANGED round, NEW x \in Brokers, NEW N, members' = [members EXCEPT ![x] = @ \cup N]
      PROVE  Begun'
  BY <1>0, <1>2 DEF Begun, FragmentsTypeOK, Set
<1>3. CASE \E b \in Brokers : \E V \in SUBSET Brokers : Start(b, V)
  <2> PICK b \in Brokers, V \in SUBSET Brokers : Start(b, V)
    BY <1>3
  <2> PICK n : n = round'[b]
    OBVIOUS
  <2>1. /\ members'[b] = {b}
        /\ \A x \in Brokers \ {b} : round'[x] = round[x] /\ members'[x] = members[x]
    BY StartStep
  <2> QED
    BY <2>1 DEF Begun
<1> QED
  BY <1>1, <1>2, <1>3, <1>0
     DEF FragmentsNext, fragments, Stop, Rest, Choose, Ask, Answer, Meet, Keep, Learn, Merge,
         FragmentsTypeOK, Request, Update
=============================================================================
