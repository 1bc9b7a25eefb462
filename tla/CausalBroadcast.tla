--------------------------- MODULE CausalBroadcast ---------------------------
(***************************************************************************)
(* What clients that stay subscribed are promised: causal broadcast.  An   *)
(* abstract specification with nothing but what the layer above each       *)
(* client has seen, its own publications among it; there are no brokers,   *)
(* no clocks, and nothing waits.  Overlay implements it with its channels  *)
(* and its tree, CausalDelivery with the clocks alone.                     *)
(***************************************************************************)
EXTENDS Naturals, Sequences

CONSTANTS
    Clients,
    Publications    \* each with its originalSender

VARIABLE
    seen    \* seen[c]: the publications client c has seen, in order

Seen(c) == {seen[c][i] : i \in DOMAIN seen[c]}

(* Client c may be handed p after it has seen the publications in list s:  *)
(* another client has made p, c has not seen it yet, but everything the    *)
(* sender had seen before it, unless it is c's own.                        *)
MayFollow(p, s, c) ==
    /\ p.originalSender \in Clients \ {c}
    /\ \A h \in DOMAIN s : s[h] # p
    /\ \E j \in DOMAIN seen[p.originalSender] :
          /\ seen[p.originalSender][j] = p
          /\ \A i \in 1 .. j - 1 :
                LET q == seen[p.originalSender][i]
                IN  q.originalSender # c => \E h \in DOMAIN s : s[h] = q

-----------------------------------------------------------------------------

BroadcastInit == seen = [c \in Clients |-> <<>>]

(* Client c makes a publication, the next in its list; nobody has seen it.  *)
Make(c) ==
    LET p == seen'[c][Len(seen'[c])]
    IN  /\ Len(seen'[c]) = Len(seen[c]) + 1
        /\ p \in Publications /\ p.originalSender = c
        /\ \A d \in Clients : p \notin Seen(d)
        /\ seen' = [seen EXCEPT ![c] = Append(@, p)]

(* Client c is handed publications of others, one or several in a row.     *)
Hand(c) ==
    LET list == seen'[c]
    IN  /\ list \in Seq(Publications) /\ Len(list) > Len(seen[c])
        /\ seen' = [seen EXCEPT ![c] = list]
        /\ SubSeq(list, 1, Len(seen[c])) = seen[c]
        /\ \A k \in Len(seen[c]) + 1 .. Len(list) :
              MayFollow(list[k], SubSeq(list, 1, k - 1), c)

BroadcastNext == \E c \in Clients : Make(c) \/ Hand(c)

BroadcastSpec == BroadcastInit /\ [][BroadcastNext]_seen

-----------------------------------------------------------------------------
(* What follows.                                                           *)

(* Nobody sees a publication twice, nor one its sender has not made.       *)
SeenOnce ==
    \A c \in Clients : \A k \in DOMAIN seen[c] :
        /\ seen[c][k].originalSender \in Clients
        /\ seen[c][k] \in Seen(seen[c][k].originalSender)
        /\ \A h \in DOMAIN seen[c] : seen[c][h] = seen[c][k] => h = k

(* Who sees a publication has seen before it all that its sender had seen  *)
(* before it, and therefore all that came before those.                    *)
CausalOrder ==
    \A c, s \in Clients : \A k \in DOMAIN seen[c], j \in DOMAIN seen[s] :
        seen[c][k] = seen[s][j] /\ seen[s][j].originalSender = s
          => \A i \in 1 .. j - 1 : \E h \in 1 .. k - 1 : seen[c][h] = seen[s][i]
=============================================================================
