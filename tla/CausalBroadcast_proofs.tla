----------------------- MODULE CausalBroadcast_proofs -----------------------
(***************************************************************************)
(* A client of the causal broadcast sees every publication once, never one *)
(* that was not made, and always after those its sender had seen.  The     *)
(* guard of Hand speaks only of the publications of others; that a         *)
(* client's own come first as well follows from SeenOnce.                  *)
(***************************************************************************)
EXTENDS CausalBroadcast, SequenceTheorems, TLAPS

BroadcastTypeOK == seen \in [Clients -> Seq(Publications)]

BroadcastInv == BroadcastTypeOK /\ SeenOnce /\ CausalOrder

(* Lists only grow: what has been seen stays where it is.                  *)
Grows(c, n) ==
    /\ seen' \in [Clients -> Seq(Publications)]
    /\ n = Len(seen[c]) /\ Len(seen'[c]) > n
    /\ \A d \in Clients \ {c} : seen'[d] = seen[d]
    /\ \A k \in 1 .. n : seen'[c][k] = seen[c][k]

(* The step of Make: one publication of c's own, that nobody has seen.     *)
LEMMA MakeGrows ==
    ASSUME BroadcastTypeOK, NEW c \in Clients, Make(c)
    PROVE  LET n == Len(seen[c])
           IN  /\ Grows(c, n) /\ Len(seen'[c]) = n + 1
               /\ seen'[c][n + 1].originalSender = c
               /\ \A d \in Clients : \A k \in DOMAIN seen[d] : seen[d][k] # seen'[c][n + 1]
<1> DEFINE n == Len(seen[c])
           p == seen'[c][Len(seen'[c])]
<1>1. seen[c] \in Seq(Publications) /\ n \in Nat
  BY DEF BroadcastTypeOK
<1>2. /\ p \in Publications /\ p.originalSender = c
      /\ \A d \in Clients : p \notin Seen(d)
      /\ seen' = [seen EXCEPT ![c] = Append(@, p)]
      /\ Len(seen'[c]) = n + 1
  BY DEF Make
<1>3. seen'[c] = Append(seen[c], p) /\ \A d \in Clients \ {c} : seen'[d] = seen[d]
  BY <1>2 DEF BroadcastTypeOK
<1>4. seen' \in [Clients -> Seq(Publications)]
  <2>1. Append(seen[c], p) \in Seq(Publications)
    BY <1>1, <1>2
  <2> QED
    BY <2>1, <1>2 DEF BroadcastTypeOK
<1>5. \A k \in 1 .. n : seen'[c][k] = seen[c][k]
  BY <1>1, <1>2, <1>3, AppendProperties
<1>6. \A d \in Clients : \A k \in DOMAIN seen[d] : seen[d][k] # seen'[c][n + 1]
  BY <1>2 DEF Seen
<1> QED
  BY <1>1, <1>2, <1>3, <1>4, <1>5, <1>6 DEF Grows

(* The step of Hand: some publications, each of which may follow those     *)
(* before it.                                                              *)
LEMMA HandGrows ==
    ASSUME BroadcastTypeOK, NEW c \in Clients, Hand(c)
    PROVE  LET n == Len(seen[c])
           IN  /\ Grows(c, n)
               /\ \A k \in n + 1 .. Len(seen'[c]) :
                     MayFollow(seen'[c][k], SubSeq(seen'[c], 1, k - 1), c)
<1> DEFINE n == Len(seen[c])
           list == seen'[c]
<1>1. seen[c] \in Seq(Publications) /\ n \in Nat
  BY DEF BroadcastTypeOK
<1>2. /\ list \in Seq(Publications) /\ Len(list) > n
      /\ seen' = [seen EXCEPT ![c] = list]
      /\ SubSeq(list, 1, n) = seen[c]
      /\ \A k \in n + 1 .. Len(list) : MayFollow(list[k], SubSeq(list, 1, k - 1), c)
  BY DEF Hand
<1> HIDE DEF list
<1>3. \A d \in Clients \ {c} : seen'[d] = seen[d]
  BY <1>2 DEF BroadcastTypeOK
<1>4. seen' \in [Clients -> Seq(Publications)]
  BY <1>2 DEF BroadcastTypeOK
<1>5. \A k \in 1 .. n : list[k] = seen[c][k]
  BY <1>1, <1>2
<1> QED
  BY <1>1, <1>2, <1>3, <1>4, <1>5 DEF Grows, list

(* A list that grows by publications that are new to it, and that their    *)
(* senders had seen or are the sender's own, keeps SeenOnce.               *)
LEMMA KeepsSeenOnce ==
    ASSUME BroadcastInv, NEW c \in Clients, NEW n, Grows(c, n),
           \A k \in n + 1 .. Len(seen'[c]) :
              /\ seen'[c][k].originalSender \in Clients
              /\ \E j \in DOMAIN seen'[seen'[c][k].originalSender] :
                    seen'[seen'[c][k].originalSender][j] = seen'[c][k]
              /\ \A h \in 1 .. k - 1 : seen'[c][h] # seen'[c][k]
    PROVE  SeenOnce'
<1> USE DEF BroadcastInv
<1>0. /\ n \in Nat /\ DOMAIN seen[c] = 1 .. n /\ Len(seen'[c]) \in Nat
      /\ DOMAIN seen'[c] = 1 .. Len(seen'[c]) /\ Len(seen'[c]) > n
  BY DEF Grows, BroadcastTypeOK
<1>1. \A d \in Clients : \A j \in DOMAIN seen[d] :
         j \in DOMAIN seen'[d] /\ seen'[d][j] = seen[d][j]
  BY <1>0 DEF Grows
<1> SUFFICES ASSUME NEW d \in Clients, NEW k \in DOMAIN seen'[d]
             PROVE  /\ seen'[d][k].originalSender \in Clients
                    /\ \E j \in DOMAIN seen'[seen'[d][k].originalSender] :
                          seen'[seen'[d][k].originalSender][j] = seen'[d][k]
                    /\ \A h \in DOMAIN seen'[d] : seen'[d][h] = seen'[d][k] => h = k
  BY DEF SeenOnce, Seen
<1>3. CASE d # c
  <2>1. seen'[d] = seen[d]
    BY <1>3 DEF Grows
  <2> QED
    BY <2>1, <1>1 DEF SeenOnce, Seen
<1>4. CASE d = c /\ k \in 1 .. n
  <2>1. seen'[c][k] = seen[c][k] /\ k \in DOMAIN seen[c]
    BY <1>0, <1>4 DEF Grows
  <2>2. \A h \in DOMAIN seen'[c] : seen'[c][h] = seen'[c][k] => h = k
    <3> SUFFICES ASSUME NEW h \in DOMAIN seen'[c], seen'[c][h] = seen'[c][k]
                 PROVE  h = k
      OBVIOUS
    <3>1. CASE h \in 1 .. n
      BY <3>1, <2>1, <1>0 DEF SeenOnce, Grows
    <3>2. CASE h \in n + 1 .. Len(seen'[c])
      BY <3>2, <1>4, <1>0
    <3> QED
      BY <3>1, <3>2, <1>0
  <2> QED
    BY <2>1, <2>2, <1>1, <1>4 DEF SeenOnce, Seen
<1>5. CASE d = c /\ k \in n + 1 .. Len(seen'[c])
  <2>1. \A h \in DOMAIN seen'[c] : seen'[c][h] = seen'[c][k] => h = k
    <3> SUFFICES ASSUME NEW h \in DOMAIN seen'[c], seen'[c][h] = seen'[c][k]
                 PROVE  h = k
      OBVIOUS
    <3>1. ~ (h < k)
      BY <1>5, <1>0
    <3>2. ~ (k < h)
      BY <1>5, <1>0
    <3> QED
      BY <3>1, <3>2, <1>0, <1>5
  <2> QED
    BY <2>1, <1>5
<1> QED
  BY <1>3, <1>4, <1>5, <1>0

(* Make keeps the invariant.                                               *)
LEMMA MakeStep ==
    ASSUME BroadcastInv, NEW c \in Clients, Make(c)
    PROVE  BroadcastInv'
<1> USE DEF BroadcastInv
<1> DEFINE n == Len(seen[c])
           p == seen'[c][n + 1]
<1>1. /\ Grows(c, n) /\ Len(seen'[c]) = n + 1 /\ p.originalSender = c
      /\ \A d \in Clients : \A k \in DOMAIN seen[d] : seen[d][k] # p
  BY MakeGrows
<1>2. /\ n \in Nat /\ DOMAIN seen[c] = 1 .. n /\ DOMAIN seen'[c] = 1 .. n + 1
      /\ \A k \in 1 .. n : seen'[c][k] = seen[c][k]
      /\ \A d \in Clients \ {c} : seen'[d] = seen[d]
  BY <1>1 DEF Grows, BroadcastTypeOK
<1> HIDE DEF n, p
<1>3. \A k \in 1 .. n : seen'[c][k] # p
  BY <1>1, <1>2
<1>4. seen'[c][n + 1] = p
  BY DEF p
<1>5. SeenOnce'
  <2>1. \A k \in n + 1 .. Len(seen'[c]) : k = n + 1
    BY <1>1, <1>2
  <2>2. \A h \in 1 .. (n + 1) - 1 : seen'[c][h] # seen'[c][n + 1]
    BY <1>2, <1>3, <1>4
  <2>3. n + 1 \in DOMAIN seen'[c]
    BY <1>2
  <2> QED
    BY <1>1, <1>4, <2>1, <2>2, <2>3, KeepsSeenOnce
<1>6. CausalOrder'
  <2> SUFFICES ASSUME NEW d \in Clients, NEW s \in Clients,
                      NEW k \in DOMAIN seen'[d], NEW j \in DOMAIN seen'[s],
                      seen'[d][k] = seen'[s][j], seen'[s][j].originalSender = s,
                      NEW i \in 1 .. j - 1
               PROVE  \E h \in 1 .. k - 1 : seen'[d][h] = seen'[s][i]
    BY DEF CausalOrder
  <2>1. CASE seen'[s][j] = p
    <3>1. s = c /\ j = n + 1
      BY <2>1, <1>1, <1>2, <1>3
    <3>2. d = c /\ k = n + 1
      BY <2>1, <1>1, <1>2, <1>3
    <3> QED
      BY <3>1, <3>2
  <2>2. CASE seen'[s][j] # p
    <3>1. /\ k \in DOMAIN seen[d] /\ seen'[d][k] = seen[d][k]
          /\ j \in DOMAIN seen[s] /\ seen'[s][j] = seen[s][j]
      BY <2>2, <1>2, <1>4
    <3>2. PICK h \in 1 .. k - 1 : seen[d][h] = seen[s][i]
      <4>1. seen[d][k] = seen[s][j] /\ seen[s][j].originalSender = s
        BY <3>1
      <4> QED
        BY <3>1, <4>1 DEF CausalOrder
    <3>3. /\ DOMAIN seen[d] = 1 .. Len(seen[d]) /\ Len(seen[d]) \in Nat
          /\ DOMAIN seen[s] = 1 .. Len(seen[s]) /\ Len(seen[s]) \in Nat
      BY DEF BroadcastTypeOK
    <3>4. h \in DOMAIN seen[d] /\ i \in DOMAIN seen[s]
      BY <3>1, <3>3
    <3>5. seen'[d][h] = seen[d][h] /\ seen'[s][i] = seen[s][i]
      BY <3>4, <1>2
    <3> QED
      BY <3>2, <3>5
  <2> QED
    BY <2>1, <2>2
<1> QED
  BY <1>1, <1>5, <1>6 DEF Grows, BroadcastTypeOK

(* Hand keeps the invariant.                                               *)
LEMMA HandStep ==
    ASSUME BroadcastInv, NEW c \in Clients, Hand(c)
    PROVE  BroadcastInv'
<1> USE DEF BroadcastInv
<1> DEFINE n == Len(seen[c])
           m == Len(seen'[c])
<1>1. /\ Grows(c, n)
      /\ \A k \in n + 1 .. m : MayFollow(seen'[c][k], SubSeq(seen'[c], 1, k - 1), c)
  BY HandGrows
<1>2. /\ n \in Nat /\ m \in Nat /\ m > n /\ seen'[c] \in Seq(Publications)
      /\ DOMAIN seen[c] = 1 .. n /\ DOMAIN seen'[c] = 1 .. m
      /\ \A k \in 1 .. n : seen'[c][k] = seen[c][k]
      /\ \A d \in Clients \ {c} : seen'[d] = seen[d]
  BY <1>1 DEF Grows, BroadcastTypeOK
<1> HIDE DEF n, m
<1>3. ASSUME NEW k \in n + 1 .. m
      PROVE  LET p == seen'[c][k]
             IN  /\ p.originalSender \in Clients \ {c}
                 /\ \A h \in 1 .. k - 1 : seen'[c][h] # p
                 /\ \E j \in DOMAIN seen[p.originalSender] :
                       /\ seen[p.originalSender][j] = p
                       /\ \A i \in 1 .. j - 1 :
                             seen[p.originalSender][i].originalSender # c
                               => \E h \in 1 .. k - 1 : seen'[c][h] = seen[p.originalSender][i]
  <2> DEFINE prefix == SubSeq(seen'[c], 1, k - 1)
  <2>1. DOMAIN prefix = 1 .. k - 1 /\ \A h \in 1 .. k - 1 : prefix[h] = seen'[c][h]
    BY <1>2, SubSeqProperties
  <2>2. MayFollow(seen'[c][k], prefix, c)
    BY <1>1
  <2> HIDE DEF prefix
  <2> QED
    BY <2>1, <2>2 DEF MayFollow
<1>4. SeenOnce'
  <2>1. \A k \in n + 1 .. Len(seen'[c]) :
           /\ seen'[c][k].originalSender \in Clients
           /\ \E j \in DOMAIN seen'[seen'[c][k].originalSender] :
                 seen'[seen'[c][k].originalSender][j] = seen'[c][k]
           /\ \A h \in 1 .. k - 1 : seen'[c][h] # seen'[c][k]
    BY <1>2, <1>3 DEF m
  <2> QED
    BY <2>1, <1>1, KeepsSeenOnce
<1>5. CausalOrder'
  <2> SUFFICES ASSUME NEW d \in Clients, NEW s \in Clients,
                      NEW k \in DOMAIN seen'[d], NEW j \in DOMAIN seen'[s],
                      seen'[d][k] = seen'[s][j], seen'[s][j].originalSender = s,
                      NEW i \in 1 .. j - 1
               PROVE  \E h \in 1 .. k - 1 : seen'[d][h] = seen'[s][i]
    BY DEF CausalOrder
  <2>0. \A e \in Clients : DOMAIN seen[e] = 1 .. Len(seen[e]) /\ Len(seen[e]) \in Nat
    BY DEF BroadcastTypeOK
  (* What is new to c is not c's own.                                      *)
  <2>1. j \in DOMAIN seen[s] /\ seen'[s][j] = seen[s][j]
    BY <1>2, <1>3
  <2>2. i \in DOMAIN seen[s] /\ seen'[s][i] = seen[s][i]
    BY <2>0, <2>1, <1>2
  <2>3. CASE k \in DOMAIN seen[d]
    <3>1. seen'[d][k] = seen[d][k]
      BY <2>3, <1>2
    <3>2. PICK h \in 1 .. k - 1 : seen[d][h] = seen[s][i]
      BY <2>1, <2>3, <3>1 DEF CausalOrder
    <3>3. h \in DOMAIN seen[d]
      BY <2>0, <2>3
    <3> QED
      BY <3>2, <3>3, <2>2, <1>2
  <2>4. CASE k \notin DOMAIN seen[d]
    <3>1. d = c /\ k \in n + 1 .. m
      BY <2>4, <1>2
    <3>2. PICK l \in DOMAIN seen[s] :
             /\ seen[s][l] = seen[s][j]
             /\ \A g \in 1 .. l - 1 :
                   seen[s][g].originalSender # c
                     => \E h \in 1 .. k - 1 : seen'[c][h] = seen[s][g]
      BY <3>1, <2>1, <1>3
    <3>3. l = j
      BY <3>2, <2>1 DEF SeenOnce
    <3>4. CASE seen[s][i].originalSender # c
      BY <3>1, <3>2, <3>3, <3>4, <2>2
    <3>5. CASE seen[s][i].originalSender = c
      <4>1. PICK h \in DOMAIN seen[c] : seen[c][h] = seen[s][i]
        BY <3>5, <2>2 DEF SeenOnce, Seen
      <4>2. h \in 1 .. k - 1 /\ seen'[c][h] = seen[c][h]
        BY <4>1, <3>1, <1>2
      <4> QED
        BY <4>1, <4>2, <3>1, <2>2
    <3> QED
      BY <3>4, <3>5
  <2> QED
    BY <2>3, <2>4
<1> QED
  BY <1>1, <1>4, <1>5 DEF Grows, BroadcastTypeOK

(* In a causal broadcast, nobody sees a publication twice or one that was  *)
(* not made, and who sees one has seen before it all that its sender had   *)
(* seen before it.                                                         *)
THEOREM BroadcastIsCausal == BroadcastSpec => [](SeenOnce /\ CausalOrder)
<1>1. BroadcastInit => BroadcastInv
  <2> SUFFICES ASSUME BroadcastInit
               PROVE  BroadcastInv
    OBVIOUS
  <2>1. \A c \in Clients : seen[c] = <<>> /\ DOMAIN seen[c] = {}
    <3>1. DOMAIN <<>> = {}
      OBVIOUS
    <3> QED
      BY <3>1 DEF BroadcastInit
  <2>2. BroadcastTypeOK
    BY DEF BroadcastInit, BroadcastTypeOK
  <2>3. SeenOnce
    BY <2>1 DEF SeenOnce
  <2>4. CausalOrder
    BY <2>1 DEF CausalOrder
  <2> QED
    BY <2>2, <2>3, <2>4 DEF BroadcastInv
<1>2. BroadcastInv /\ [BroadcastNext]_seen => BroadcastInv'
  <2> SUFFICES ASSUME BroadcastInv, [BroadcastNext]_seen
               PROVE  BroadcastInv'
    OBVIOUS
  <2>1. ASSUME NEW c \in Clients, Make(c)
        PROVE  BroadcastInv'
    BY <2>1, MakeStep
  <2>2. ASSUME NEW c \in Clients, Hand(c)
        PROVE  BroadcastInv'
    BY <2>2, HandStep
  <2>3. CASE UNCHANGED seen
    <3>1. seen' = seen
      BY <2>3
    <3>2. BroadcastTypeOK' /\ CausalOrder'
      BY <3>1 DEF BroadcastInv, BroadcastTypeOK, CausalOrder
    <3>3. SeenOnce'
      BY <3>1 DEF BroadcastInv, SeenOnce, Seen
    <3> QED
      BY <3>2, <3>3 DEF BroadcastInv
  <2> QED
    BY <2>1, <2>2, <2>3 DEF BroadcastNext
<1>3. BroadcastInv => SeenOnce /\ CausalOrder
  BY DEF BroadcastInv
<1> QED
  BY <1>1, <1>2, <1>3, PTL DEF BroadcastSpec
=============================================================================
