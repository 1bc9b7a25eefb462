----------------------------- MODULE Fragments -----------------------------
(***************************************************************************)
(* How fragments of the spanning tree find their shortest way out and      *)
(* merge, with no word of how messages travel: an abstract specification   *)
(* between OptimalBroker, which implements it, and SpanningForest, which   *)
(* it implements.                                                          *)
(*                                                                         *)
(* In a round a broker starts as a fragment of its own and reports an edge *)
(* out of it.  When all members have reported, the best edge is chosen;    *)
(* its end asks the broker at the other end, and links to it when that one *)
(* has asked, too.  The two ends of a link merge what they know of their   *)
(* fragments one after the other, and updates pass it on along the links.  *)
(***************************************************************************)
EXTENDS Naturals

CONSTANTS
    Brokers,
    None        \* no broker

VARIABLES
    delay,      \* delay[b][c]: the length of a link between b and c
    round,      \* round[b]: the round broker b is in
    awake,      \* awake[b]: does it take part?
    available,  \* available[b]: the brokers it builds over
    members,    \* members[b]: those it knows to be in its fragment
    linked,     \* linked[b]: those it has added a link to
    edge,       \* edge[b]: the other end of the edge it has reported
    chosen,     \* chosen[b]: the broker it has been told to ask
    asked,      \* asked[b]: the brokers it has asked in this round
    sent,       \* the requests under way
    received,   \* received[b]: the requests it keeps for later
    updates     \* the updates under way

fragments == <<delay, round, awake, available, members, linked, edge, chosen, asked,
               sent, received, updates>>

Request == [from : Brokers, to : Brokers, number : Nat, members : SUBSET Brokers]
Update == [from : Brokers, to : Brokers, members : SUBSET Brokers]

-----------------------------------------------------------------------------

FragmentsInit ==
    /\ delay \in [Brokers -> [Brokers -> Nat]]
    /\ \A b, c \in Brokers : delay[b][c] = delay[c][b]
    /\ round = [b \in Brokers |-> 0]
    /\ awake = [b \in Brokers |-> FALSE]
    /\ available = [b \in Brokers |-> {}]
    /\ members = [b \in Brokers |-> {}]
    /\ linked = [b \in Brokers |-> {}]
    /\ edge = [b \in Brokers |-> None]
    /\ chosen = [b \in Brokers |-> None]
    /\ asked = [b \in Brokers |-> {}]
    /\ sent = {}
    /\ received = [b \in Brokers |-> {}]
    /\ updates = {}

(* What broker b reports if it knows members M of the brokers V: a nearest *)
(* broker outside, or none if there is none outside.                       *)
Reports(b, M, V) ==
    IF V = M THEN {None} ELSE {c \in V \ M : \A d \in V \ M : delay[b][c] <= delay[b][d]}

(* A broker starts a round over the brokers V: the next one after the one  *)
(* it has completed, or any later one when it wakes up.  Brokers in the    *)
(* same round build over the same brokers.                                 *)
Start(b, V) ==
  LET n == round'[b] IN
    /\ sent = {}
    /\ n \in Nat
    /\ IF awake[b] THEN n = round[b] + 1 /\ members[b] = available[b] ELSE n > round[b]
    /\ b \in V /\ \A c \in V : round[c] <= n /\ (round[c] = n => awake[c])
    /\ \A c \in Brokers :
          awake[c] => /\ round[c] = n => available[c] = V
                      /\ ~awake[b] /\ round[c] > round[b] /\ round[c] < n => b \notin available[c]
    /\ round' = [round EXCEPT ![b] = n]
    /\ awake' = [awake EXCEPT ![b] = TRUE]
    /\ available' = [available EXCEPT ![b] = V]
    /\ members' = [members EXCEPT ![b] = {b}]
    /\ linked' = [linked EXCEPT ![b] = {}]
    /\ \E r \in Reports(b, {b}, V) : edge' = [edge EXCEPT ![b] = r]
    /\ asked' = [asked EXCEPT ![b] = {}]
    /\ received' = [received EXCEPT ![b] = {k \in @ : k.number >= n}]
    /\ UNCHANGED <<delay, chosen, sent, updates>>

(* A broker that has completed its round takes part no more.               *)
Stop(b) ==
    /\ sent = {}
    /\ awake[b] /\ members[b] = available[b]
    /\ awake' = [awake EXCEPT ![b] = FALSE]
    /\ UNCHANGED <<delay, round, available, members, linked, edge, chosen, asked, sent,
                   received, updates>>

(* One that takes no part may drop its links and be told of others.        *)
Rest(b) ==
    /\ ~awake[b]
    /\ \/ /\ linked' = [linked EXCEPT ![b] = {}]
          /\ UNCHANGED available
       \/ /\ linked[b] = {}
          /\ \E V \in SUBSET Brokers : available' = [available EXCEPT ![b] = V]
          /\ UNCHANGED linked
    /\ UNCHANGED <<delay, round, awake, members, edge, chosen, asked, sent, received, updates>>

(* All members of the fragment of b have reported: b, whose edge is the    *)
(* shortest, is told to ask.                                               *)
Choose(b) ==
    /\ awake[b]
    /\ \A c \in members[b] :
          /\ edge[c] # None /\ members[c] = members[b]
          /\ delay[b][edge[b]] <= delay[c][edge[c]]
    /\ edge' = [c \in Brokers |-> IF c \in members[b] THEN None ELSE edge[c]]
    /\ chosen' = [chosen EXCEPT ![b] = edge[b]]
    /\ UNCHANGED <<delay, round, awake, available, members, linked, asked, sent, received,
                   updates>>

(* Broker b links to c, whose fragment has the members M, and tells its    *)
(* neighbours.                                                             *)
Merge(b, c, M) ==
    /\ members' = [members EXCEPT ![b] = @ \cup M]
    /\ linked' = [linked EXCEPT ![b] = @ \cup {c}]
    /\ \E r \in Reports(b, members[b] \cup M, available[b]) : edge' = [edge EXCEPT ![b] = r]
    /\ updates' = updates \cup {[from |-> b, to |-> d, members |-> members[b] \cup M] :
                                   d \in linked[b]}
    /\ UNCHANGED <<delay, round, awake, available>>

request(b, c) ==
    [from |-> b, to |-> c, number |-> round[b], members |-> members[b]]

(* Broker b has been told to ask and has not been asked.                   *)
Ask(b) ==
    /\ chosen[b] # None
    /\ \A k \in received[b] : ~(k.from = chosen[b] /\ k.number = round[b])
    /\ chosen' = [chosen EXCEPT ![b] = None]
    /\ asked' = [asked EXCEPT ![b] = @ \cup {chosen[b]}]
    /\ sent' = sent \cup {request(b, chosen[b])}
    /\ UNCHANGED <<delay, round, awake, available, members, linked, edge, received, updates>>

(* It has been asked: it links and answers.                                *)
Answer(b) ==
    /\ chosen[b] # None
    /\ \E k \in received[b] :
          /\ k.from = chosen[b] /\ k.number = round[b]
          /\ Merge(b, k.from, k.members)
    /\ chosen' = [chosen EXCEPT ![b] = None]
    /\ sent' = sent \cup {request(b, chosen[b])}
    /\ UNCHANGED <<asked, received>>

(* A request arrives at a broker that has asked in turn: it links.         *)
Meet(m) ==
    /\ m \in sent
    /\ m.number = round[m.to] /\ m.from \in asked[m.to]
    /\ Merge(m.to, m.from, m.members)
    /\ sent' = sent \ {m}
    /\ UNCHANGED <<chosen, asked, received>>

(* It arrives too early, or too late.                                      *)
Keep(m) ==
    /\ m \in sent
    /\ ~(m.number = round[m.to] /\ m.from \in asked[m.to])
    /\ sent' = sent \ {m}
    /\ received' = IF m.number >= round[m.to]
                   THEN [received EXCEPT ![m.to] = @ \cup {m}] ELSE received
    /\ UNCHANGED <<delay, round, awake, available, members, linked, edge, chosen, asked,
                   updates>>

(* An update arrives and is passed on.                                     *)
Learn(u) ==
    LET b == u.to
    IN  /\ u \in updates
        /\ members' = [members EXCEPT ![b] = @ \cup u.members]
        /\ \E r \in Reports(b, members[b] \cup u.members, available[b]) :
              edge' = [edge EXCEPT ![b] = r]
        /\ updates' = (updates \ {u})
              \cup {[from |-> b, to |-> d, members |-> u.members] : d \in linked[b] \ {u.from}}
        /\ UNCHANGED <<delay, round, awake, available, linked, chosen, asked, sent, received>>

FragmentsNext ==
    \/ \E b \in Brokers :
          \/ \E V \in SUBSET Brokers : Start(b, V)
          \/ Stop(b) \/ Rest(b) \/ Choose(b) \/ Ask(b) \/ Answer(b)
    \/ \E m \in sent : Meet(m) \/ Keep(m)
    \/ \E u \in updates : Learn(u)

FragmentsSpec == FragmentsInit /\ [][FragmentsNext]_fragments

-----------------------------------------------------------------------------
(* The invariant.                                                          *)

Set == [Brokers -> SUBSET Brokers]

FragmentsTypeOK ==
    /\ delay \in [Brokers -> [Brokers -> Nat]]
    /\ \A b, c \in Brokers : delay[b][c] = delay[c][b]
    /\ round \in [Brokers -> Nat] /\ awake \in [Brokers -> BOOLEAN]
    /\ available \in Set /\ members \in Set /\ linked \in Set /\ asked \in Set
    /\ edge \in [Brokers -> Brokers \cup {None}]
    /\ chosen \in [Brokers -> Brokers \cup {None}]
    /\ sent \subseteq Request /\ received \in [Brokers -> SUBSET Request]
    /\ updates \subseteq Update

(* Both take part in the same round.                                       *)
Peers(b, c) == awake[b] /\ awake[c] /\ round[b] = round[c]

(* What broker c knows of the fragment in the round of b: nothing before   *)
(* its own start of this round, everything once it has gone on.            *)
Knows(c, b) ==
    IF awake[c] /\ round[c] = round[b] THEN members[c]
    ELSE IF round[c] >= round[b] /\ c \in available[b] THEN available[b]
    ELSE {}

Own ==
    \A b \in Brokers : awake[b] =>
        /\ b \in members[b] /\ members[b] \subseteq available[b]
        /\ linked[b] \subseteq members[b] \ {b}
        /\ \A c \in available[b] : \A d \in Knows(c, b) : round[d] >= round[b]
        /\ \A c \in Brokers : Peers(b, c) => available[c] = available[b]

(* Fragments do not overlap: of two brokers with a common member one knows *)
(* all members the other knows.                                            *)
Nested ==
    \A b, c \in Brokers :
        Peers(b, c) /\ members[b] \cap members[c] # {}
          => members[b] \subseteq members[c] \/ members[c] \subseteq members[b]

(* Some broker knows that the fragment of b has been merged with another.  *)
Surpassed(b) == \E c \in available[b] : members[b] \subseteq Knows(c, b) /\ Knows(c, b) # members[b]

(* All members of the fragment of b know it as b does.                     *)
Full(b) == \A c \in members[b] : Peers(b, c) /\ members[c] = members[b]

(* A fragment is merged with another only when all its members know it.    *)
Waits ==
    \A b \in Brokers :
        awake[b] /\ Surpassed(b) => \A c \in members[b] : members[b] \subseteq Knows(c, b)

(* No link out of the fragment of b is shorter than the one from b to c.   *)
Shortest(b, c) ==
    /\ c \in available[b] \ members[b]
    /\ \A x \in members[b], y \in available[b] \ members[b] : delay[b][c] <= delay[x][y]

Idle(b) == \A c \in members[b] : edge[c] = None

Pending(b, c) == awake[b] /\ c \in asked[b] \ members[b]

EdgeOK ==
    \A b \in Brokers : edge[b] # None =>
        /\ awake[b] /\ ~Surpassed(b)
        /\ edge[b] \in available[b] \ members[b]
        /\ \A c \in available[b] \ members[b] : delay[b][edge[b]] <= delay[b][c]

ChosenOK ==
    \A b \in Brokers : chosen[b] # None =>
        /\ awake[b] /\ ~Surpassed(b) /\ Full(b) /\ Idle(b)
        /\ Shortest(b, chosen[b])
        /\ \A c \in members[b] : chosen[c] # None => c = b

(* b has linked to c and merged the fragments, and its answer is under way.*)
HalfBy(m, b, c) ==
    /\ m \in sent /\ m.from = b /\ m.to = c /\ m.number = round[c]
    /\ Peers(b, c) /\ c \in linked[b]
    /\ members[b] = members[c] \cup m.members
    /\ b \in m.members /\ m.members \cap members[c] = {}

Half(b, c) == \E m \in sent : HalfBy(m, b, c)

PendingOK ==
    \A b, c \in Brokers : Pending(b, c) =>
        /\ Full(b) /\ Idle(b)
        /\ \A d \in members[b] : chosen[d] = None
        /\ \A d \in members[b], x \in Brokers : Pending(d, x) => d = b /\ x = c
        /\ Shortest(b, c)
        /\ ~Surpassed(b) \/ Half(c, b)
        /\ \/ request(b, c) \in sent \/ request(b, c) \in received[c]
           \/ Half(c, b)

(* A request that has not been answered.                                   *)
Open(m) ==
    /\ Pending(m.from, m.to) /\ m = request(m.from, m.to)
    /\ Peers(m.from, m.to) => m.from \notin members[m.to]
    /\ \A k \in received[m.to] : k.from = m.from => k.number < m.number

SentOK ==
    \A m \in sent :
        /\ m.from # m.to
        /\ \/ Open(m)
           \/ HalfBy(m, m.from, m.to) /\ Pending(m.to, m.from)
        /\ \A k \in sent : k.from = m.from /\ k.to = m.to => k = m

ReceivedOK ==
    \A b \in Brokers : \A k \in received[b] :
        /\ k.to = b /\ k.from # b /\ k.number <= round[k.from]
        /\ awake[k.from] /\ k.number = round[k.from] /\ b \notin members[k.from] => b \in asked[k.from]
        /\ \/ k.number > round[b]
           \/ awake[b] /\ k.number = round[b] /\ k.from \notin members[b]
           => /\ Pending(k.from, b) /\ k = request(k.from, b)
              /\ k.number = round[b] => k.from \notin asked[b]

(* A link in the round of b.                                               *)
Joined(x, y, b) ==
    \/ Peers(x, b) /\ y \in linked[x]
    \/ Peers(y, b) /\ x \in linked[y]

(* Of the links in the round of b, only {x, y} leads out of S.             *)
OnlyOut(S, x, y, b) ==
    /\ x \in S /\ y \notin S
    /\ \A u \in S, v \in Brokers \ S : Joined(u, v, b) => u = x /\ v = y

UpdatesOK ==
    \A u \in updates : LET b == u.to IN
        /\ awake[b] /\ u.from \in linked[b]
        /\ u.members = Knows(u.from, b)
        /\ members[b] \subseteq u.members /\ members[b] # u.members /\ u.members \subseteq available[b]
        /\ \E S \in SUBSET Brokers :
              /\ OnlyOut(S, b, u.from, b)
              /\ \A c \in S \cap members[b] : Knows(c, b) = members[b]

LinksOK ==
    \A b \in Brokers : awake[b] => \A c \in linked[b] :
        /\ Peers(b, c) => b \in linked[c] \/ Half(b, c)
        /\ members[b] \subseteq Knows(c, b) /\ Knows(c, b) # members[b]
             => [from |-> c, to |-> b, members |-> Knows(c, b)] \in updates
        /\ \E S \in SUBSET Brokers : OnlyOut(S, b, c, b)

FragmentsInv ==
    /\ FragmentsTypeOK /\ Own /\ Nested /\ Waits /\ EdgeOK /\ ChosenOK /\ PendingOK
    /\ SentOK /\ ReceivedOK /\ UpdatesOK /\ LinksOK

-----------------------------------------------------------------------------
(* What is promised.                                                       *)

(* Fragments merge over links that are the shortest way out of both.       *)
Forests == INSTANCE SpanningForest

BuildsForest == Forests!ForestSpec

(* The links of a broker lead to all the members it knows, and do so among *)
(* those (unless one of them has gone on and has dropped its links).       *)
Whole(b) == awake[b] /\ \A c \in members[b] : Peers(b, c)

Spans(b) ==
    \A S \in SUBSET members[b] :
       b \in S /\ (\A x \in S, y \in members[b] : Forests!Joined(x, y) => y \in S)
         => S = members[b]

Connected == \A b \in Brokers : Whole(b) => Spans(b)

(* A link leads to a broker that has begun the round, and one that has     *)
(* stopped since had been one of those to build over.                      *)
LinksForward ==
    \A b \in Brokers : \A c \in linked[b] :
        /\ round[c] >= round[b]
        /\ ~awake[b] /\ awake[c] /\ round[c] = round[b] => b \in available[c]

(* A link of round r: one end was in it, the other may have gone on since. *)
LinkIn(x, y, r) ==
    \/ round[x] = r /\ y \in linked[x]
    \/ round[y] = r /\ x \in linked[y]

(* Every link is the only one of its round between two sets of brokers.    *)
Parts(S, b, c, r) ==
    /\ b \in S /\ c \notin S
    /\ \A u \in S, v \in Brokers \ S : LinkIn(u, v, r) => u = b /\ v = c

Bridges ==
    \A b \in Brokers : \A c \in linked[b] : \E S \in SUBSET Brokers : Parts(S, b, c, round[b])

ForestInv == FragmentsInv /\ Connected /\ LinksForward /\ Bridges
=============================================================================
