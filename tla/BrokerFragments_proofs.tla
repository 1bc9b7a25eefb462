----------------------- MODULE BrokerFragments_proofs -----------------------
(***************************************************************************)
(* Proofs that OptimalBroker implements Fragments, for every set of        *)
(* brokers and every table of delays, as brokers register, join, converge  *)
(* and leave; and what follows from it.                                    *)
(*                                                                         *)
(* OptimalBroker_proofs says how the name server's list goes through a     *)
(* history of changes and where each broker is in it (JoinsOK).  World     *)
(* adds where the messages of a convergence are: that each broker has at   *)
(* most one report and one order to expand under way, that they travel     *)
(* along links of their fragment, and that updates are ahead of reports on *)
(* every channel.  Each handler keeps World, and is a step of Fragments.   *)
(***************************************************************************)
EXTENDS OptimalBroker_proofs

-----------------------------------------------------------------------------
(* Events as sets of items: what is on its way, and what a step adds.      *)

(* What is due, and what is on its way, as a set of items.                 *)
Items(due, way) ==
    {it(NULL, due[i].to, due[i].msg) : i \in DOMAIN due}
      \cup {x \in [from : Nodes, to : Nodes, msg : Message] :
              x.msg \in ToSet(way[x.from][x.to])}

(* The items at the moment;                                                *)
Moving == Items(now, chan)

(* the one that a step of node n takes,                                    *)
Consumed(n, a) == IF a.from = n THEN {} ELSE {it(a.from, n, a.msg)}

(* and those that it adds.                                                 *)
SentBy(n, e) ==
    {it(NULL, e.direct[i].to, e.direct[i].msg) : i \in DOMAIN e.direct}
      \cup {x \in [from : {n}, to : Nodes, msg : Message] : x.msg \in ToSet(e.out[x.to])}

(* An event is due if its item is.                                         *)
LEMMA EventAsItem ==
    ASSUME NEW s \in Seq(Event), NEW t, NEW m
    PROVE  it(NULL, t, m) \in {it(NULL, s[i].to, s[i].msg) : i \in DOMAIN s}
             <=> To(t, m) \in ToSet(s)
<1>1. DOMAIN s = 1 .. Len(s) /\ \A i \in DOMAIN s : s[i] \in Event
  OBVIOUS
<1>2. \A i \in DOMAIN s : s[i] = To(s[i].to, s[i].msg)
  BY <1>1 DEF Event, To
<1>3. \A i \in DOMAIN s : it(NULL, t, m) = it(NULL, s[i].to, s[i].msg) <=> To(t, m) = s[i]
  BY <1>2 DEF it, To
<1>4. To(t, m) \in ToSet(s) <=> \E i \in DOMAIN s : To(t, m) = s[i]
  BY DEF ToSet
<1> QED
  BY <1>3, <1>4

(* Which items there are:                                                  *)
LEMMA ItemsAre ==
    ASSUME NEW due \in Seq(Event), NEW way \in [Nodes -> [Nodes -> Seq(Message)]],
           NEW f, NEW t, NEW m
    PROVE  /\ f = NULL => (it(f, t, m) \in Items(due, way) <=> To(t, m) \in ToSet(due))
           /\ f # NULL => (it(f, t, m) \in Items(due, way) <=>
                             /\ f \in Nodes /\ t \in Nodes
                             /\ m \in ToSet(way[f][t]))
<1>1. NULL \notin Nodes
  BY NodesAssumption DEF Nodes
<1>3. \A s, d \in Nodes : ToSet(way[s][d]) \subseteq Message
  BY ElementsType
<1>4. it(f, t, m) \in [from : Nodes, to : Nodes, msg : Message]
        <=> f \in Nodes /\ t \in Nodes /\ m \in Message
  BY DEF it
<1>5. it(f, t, m).msg = m /\ it(f, t, m).from = f /\ it(f, t, m).to = t
  BY DEF it
<1>6. f # NULL => it(f, t, m) \notin {it(NULL, due[i].to, due[i].msg) : i \in DOMAIN due}
  BY DEF it
<1>7. CASE f = NULL
  BY <1>1, <1>4, <1>7, EventAsItem DEF Items
<1>8. CASE f # NULL
  BY <1>3, <1>4, <1>5, <1>6, <1>8 DEF Items
<1> QED
  BY <1>7, <1>8

(* each has a sender, a destination and a message.                         *)
LEMMA ItemsShape ==
    ASSUME NEW due, NEW way, NEW x \in Items(due, way)
    PROVE  x = it(x.from, x.to, x.msg)
BY DEF Items, it

(* The same of the items at the moment,                                    *)
LEMMA MovingIs ==
    ASSUME KernelTypeOK, NEW f, NEW t, NEW m
    PROVE  /\ f = NULL => (it(f, t, m) \in Moving <=> To(t, m) \in ToSet(now))
           /\ f # NULL => (it(f, t, m) \in Moving <=>
                             /\ f \in Nodes /\ t \in Nodes
                             /\ m \in ToSet(chan[f][t]))
BY ItemsAre DEF KernelTypeOK, Moving

(* Every item is one.                                                      *)
LEMMA MovingShape ==
    ASSUME NEW x \in Moving
    PROVE  x = it(x.from, x.to, x.msg)
BY ItemsShape DEF Moving

(* Which items a step adds:                                                *)
LEMMA SentByIs ==
    ASSUME NEW n \in Nodes, NEW e, e.direct \in Seq(Event), e.out \in [Nodes -> Seq(Message)],
           NEW f, NEW t, NEW m
    PROVE  /\ f = NULL => (it(f, t, m) \in SentBy(n, e) <=> To(t, m) \in ToSet(e.direct))
           /\ f # NULL => (it(f, t, m) \in SentBy(n, e) <=>
                             f = n /\ t \in Nodes /\ m \in ToSet(e.out[t]))
<1>1. NULL \notin Nodes
  BY NodesAssumption DEF Nodes
<1>3. \A d \in Nodes : ToSet(e.out[d]) \subseteq Message
  BY ElementsType
<1>4. it(f, t, m) \in [from : {n}, to : Nodes, msg : Message]
        <=> f = n /\ t \in Nodes /\ m \in Message
  BY DEF it
<1>5. it(f, t, m).msg = m /\ it(f, t, m).to = t
  BY DEF it
<1>6. f # NULL => it(f, t, m) \notin {it(NULL, e.direct[i].to, e.direct[i].msg) : i \in DOMAIN e.direct}
  BY DEF it
<1>7. CASE f = NULL
  BY <1>1, <1>4, <1>7, EventAsItem DEF SentBy
<1>8. CASE f # NULL
  BY <1>3, <1>4, <1>5, <1>6, <1>8 DEF SentBy
<1> QED
  BY <1>7, <1>8

(* they are of the same shape.                                             *)
LEMMA SentByShape ==
    ASSUME NEW n, NEW e, NEW x \in SentBy(n, e)
    PROVE  x = it(x.from, x.to, x.msg)
BY DEF SentBy, it


(* In a channel an update does not follow a report.                        *)
UpdatesFirst(s) == \A i, j \in DOMAIN s : i < j /\ s[i].type = "MWOE" => s[j].type # "Update"

(* On a channel no message is twice, and no update comes after a report.   *)
NeatOut(out) == \A d \in Nodes : Distinct(out[d]) /\ UpdatesFirst(out[d])

(* The same of all channels, and nothing is due twice.                     *)
Neat == Distinct(now) /\ \A s \in Nodes : NeatOut(chan[s])

(* A step takes away what has arrived, and adds what the handler sends.    *)
LEMMA MovingStep ==
    ASSUME KernelTypeOK, KernelTypeOK', Neat,
           NEW n \in Nodes, NEW a \in Arrivals(n), NEW e,
           e.direct \in Seq(Event), e.out \in [Nodes -> Seq(Message)], End(n, a, e)
    PROVE  Moving' = (Moving \ Consumed(n, a)) \cup SentBy(n, e)
<1>0. NULL \notin Nodes
  BY NodesAssumption DEF Nodes
<1>1. now \in Seq(Event) /\ \A s, d \in Nodes : chan[s][d] \in Seq(Message)
  BY DEF KernelTypeOK
<1>2. /\ Distinct(now) /\ \A s, d \in Nodes : Distinct(chan[s][d])
      /\ \A d \in Nodes : e.out[d] \in Seq(Message)
  BY DEF Neat, NeatOut
<1>3. now' = (IF a.from = NULL THEN Tail(now) ELSE now) \o e.direct
  BY DEF End
<1>4. \A s, d \in Nodes :
         chan'[s][d] = IF s = n THEN chan[s][d] \o e.out[d]
                       ELSE IF s = a.from /\ d = n THEN Tail(chan[s][d]) ELSE chan[s][d]
  BY DEF End
<1>5. \/ /\ now # <<>> /\ a.from = NULL /\ Head(now) = To(n, a.msg)
      \/ /\ now = <<>> /\ a.from = n /\ a.msg \in timers[n]
      \/ /\ now = <<>> /\ a.from \in Nodes \ {n} /\ chan[a.from][n] # <<>>
         /\ a.msg = Head(chan[a.from][n])
  BY ArrivalCases
<1>6. ToSet(now') = (IF a.from = NULL THEN ToSet(now) \ {To(n, a.msg)} ELSE ToSet(now))
                      \cup ToSet(e.direct)
  <2>1. CASE a.from = NULL
    <3> PICK t : t = Tail(now)
      OBVIOUS
    <3>1. t \in Seq(Event) /\ ToSet(t) = ToSet(now) \ {To(n, a.msg)}
      BY <1>0, <1>1, <1>2, <1>5, <2>1, TailElements
    <3>2. now' = t \o e.direct
      BY <1>3, <2>1
    <3> PICK d \in Seq(Event) : d = e.direct
      OBVIOUS
    <3>4. ToSet(t \o d) = ToSet(t) \cup ToSet(d)
      BY <3>1, ConcatElements
    <3>3. ToSet(t \o e.direct) = ToSet(t) \cup ToSet(e.direct)
      BY <3>4
    <3> QED
      BY <2>1, <3>1, <3>2, <3>3
  <2>2. CASE a.from # NULL
    BY <1>1, <1>3, <2>2, ConcatElements
  <2> QED
    BY <2>1, <2>2
<1>7. ASSUME NEW s \in Nodes, NEW d \in Nodes
      PROVE  ToSet(chan'[s][d]) =
               IF s = n THEN ToSet(chan[s][d]) \cup ToSet(e.out[d])
               ELSE IF s = a.from /\ d = n THEN ToSet(chan[s][d]) \ {a.msg}
               ELSE ToSet(chan[s][d])
  <2>1. CASE s = n
    BY <1>1, <1>2, <1>4, <2>1, ConcatElements
  <2>2. CASE s # n /\ s = a.from /\ d = n
    <3>1. chan[s][d] # <<>> /\ a.msg = Head(chan[s][d])
      BY <1>0, <1>5, <2>2
    <3>2. ToSet(Tail(chan[s][d])) = ToSet(chan[s][d]) \ {a.msg}
      BY <1>1, <1>2, <3>1, TailElements
    <3> QED
      BY <1>4, <2>2, <3>2
  <2>3. CASE s # n /\ ~(s = a.from /\ d = n)
    BY <1>4, <2>3
  <2> QED
    BY <2>1, <2>2, <2>3
<1>8. ASSUME NEW f, NEW t, NEW m
      PROVE  it(f, t, m) \in Moving' <=>
               \/ it(f, t, m) \in Moving /\ it(f, t, m) \notin Consumed(n, a)
               \/ it(f, t, m) \in SentBy(n, e)
  <2>1. it(f, t, m) \in Consumed(n, a) <=> a.from # n /\ f = a.from /\ t = n /\ m = a.msg
    BY DEF Consumed, it
  <2>2. /\ f = NULL => (it(f, t, m) \in Moving' <=> To(t, m) \in ToSet(now'))
        /\ f # NULL => (it(f, t, m) \in Moving' <=>
                             f \in Nodes /\ t \in Nodes /\ m \in ToSet(chan'[f][t]))
    <3>1. now' \in Seq(Event) /\ chan' \in [Nodes -> [Nodes -> Seq(Message)]]
      BY DEF KernelTypeOK
    <3> QED
      BY <3>1, ItemsAre DEF Moving
  <2>3. CASE f = NULL
    <3>1. To(t, m) = To(n, a.msg) <=> t = n /\ m = a.msg
      BY DEF To
    <3>2. it(f, t, m) \in Moving <=> To(t, m) \in ToSet(now)
      BY <2>3, MovingIs
    <3>3. it(f, t, m) \in SentBy(n, e) <=> To(t, m) \in ToSet(e.direct)
      BY <2>3, SentByIs
    <3> QED
      BY <1>0, <1>6, <2>1, <2>2, <2>3, <3>1, <3>2, <3>3
  <2>4. CASE f # NULL
    <3>1. it(f, t, m) \in Moving <=> f \in Nodes /\ t \in Nodes /\ m \in ToSet(chan[f][t])
      BY <2>4, MovingIs
    <3>2. it(f, t, m) \in SentBy(n, e) <=> f = n /\ t \in Nodes /\ m \in ToSet(e.out[t])
      BY <2>4, SentByIs
    <3> QED
      BY <1>7, <2>1, <2>2, <2>4, <3>1, <3>2
  <2> QED
    BY <2>3, <2>4
<1>9. ASSUME NEW x PROVE x \in Moving' <=> x \in (Moving \ Consumed(n, a)) \cup SentBy(n, e)
  <2>1. x \in Moving' \cup Moving \cup SentBy(n, e) => x = it(x.from, x.to, x.msg)
    <3>1. x \in Moving' => x = it(x.from, x.to, x.msg)
      BY ItemsShape DEF Moving
    <3> QED
      BY <3>1, MovingShape, SentByShape
  <2> QED
    BY <1>8, <2>1
<1> QED
  BY <1>9

(* Updates come before reports on an empty channel,                        *)
LEMMA OrderOfNone == UpdatesFirst(<<>>)
BY DEF UpdatesFirst

(* on one with a single message,                                           *)
LEMMA OrderOfOne ==
    ASSUME NEW m
    PROVE  UpdatesFirst(<<m>>)
BY DEF UpdatesFirst

(* on one with new messages, unless an update follows a report,            *)
LEMMA OrderOfTwo ==
    ASSUME NEW S, NEW s \in Seq(S), NEW t \in Seq(S), UpdatesFirst(s), UpdatesFirst(t),
           (\A m \in ToSet(s) : m.type # "MWOE") \/ (\A m \in ToSet(t) : m.type # "Update")
    PROVE  UpdatesFirst(s \o t)
<1> PICK u : u = s \o t
  OBVIOUS
<1>1. /\ u \in Seq(S) /\ Len(s) \in Nat /\ Len(t) \in Nat
      /\ Len(u) = Len(s) + Len(t)
      /\ \A i \in 1 .. Len(s) + Len(t) :
            u[i] = IF i <= Len(s) THEN s[i] ELSE t[i - Len(s)]
  BY ConcatProperties
<1>2. /\ DOMAIN s = 1 .. Len(s) /\ DOMAIN t = 1 .. Len(t)
      /\ DOMAIN u = 1 .. Len(s) + Len(t)
  BY <1>1
<1> SUFFICES ASSUME NEW i \in DOMAIN u, NEW j \in DOMAIN u, i < j, u[i].type = "MWOE"
             PROVE  u[j].type # "Update"
  BY DEF UpdatesFirst
<1>3. CASE j <= Len(s)
  BY <1>1, <1>2, <1>3 DEF UpdatesFirst
<1>4. CASE i > Len(s)
  <2>1. /\ i - Len(s) \in DOMAIN t /\ j - Len(s) \in DOMAIN t /\ i - Len(s) < j - Len(s)
        /\ t[i - Len(s)] = u[i] /\ t[j - Len(s)] = u[j]
    BY <1>1, <1>2, <1>4
  <2> QED
    BY <2>1 DEF UpdatesFirst
<1>5. CASE i <= Len(s) /\ j > Len(s)
  <2>1. i \in DOMAIN s /\ j - Len(s) \in DOMAIN t /\ s[i] = u[i] /\ t[j - Len(s)] = u[j]
    BY <1>1, <1>2, <1>5
  <2>2. s[i] \in ToSet(s) /\ t[j - Len(s)] \in ToSet(t)
    BY <2>1, ElementsType
  <2> QED
    BY <2>1, <2>2
<1> QED
  BY <1>1, <1>2, <1>3, <1>4, <1>5

(* and on one whose first message has been taken.                          *)
LEMMA OrderOfTail ==
    ASSUME NEW S, NEW s \in Seq(S), s # <<>>, UpdatesFirst(s)
    PROVE  UpdatesFirst(Tail(s))
<1> PICK t : t = Tail(s)
  OBVIOUS
<1>1. /\ t \in Seq(S) /\ Len(s) \in Nat \ {0} /\ Len(t) = Len(s) - 1
      /\ DOMAIN s = 1 .. Len(s) /\ DOMAIN t = 1 .. Len(s) - 1
      /\ \A i \in 1 .. Len(s) - 1 : t[i] = s[i + 1]
  BY HeadTailProperties
<1> SUFFICES ASSUME NEW i \in DOMAIN t, NEW j \in DOMAIN t, i < j, t[i].type = "MWOE"
             PROVE  t[j].type # "Update"
  BY DEF UpdatesFirst
<1>2. /\ i + 1 \in DOMAIN s /\ j + 1 \in DOMAIN s /\ i + 1 < j + 1
      /\ s[i + 1] = t[i] /\ s[j + 1] = t[j]
  BY <1>1
<1> QED
  BY <1>2 DEF UpdatesFirst

(* At the head of a channel that is in order there is no report if an      *)
(* update is in it.                                                        *)
LEMMA ReportComesLast ==
    ASSUME NEW S, NEW s \in Seq(S), s # <<>>, UpdatesFirst(s), Head(s).type = "MWOE",
           NEW m \in ToSet(s)
    PROVE  m.type # "Update"
<1>1. PICK i \in DOMAIN s : m = s[i]
  BY DEF ToSet
<1>2. 1 \in DOMAIN s /\ Head(s) = s[1] /\ (i = 1 \/ 1 < i)
  OBVIOUS
<1> QED
  BY <1>1, <1>2 DEF UpdatesFirst

(* Nothing is sent.                                                        *)
LEMMA NothingIsNeat == NeatOut([n \in Nodes |-> <<>>])
BY NoElements, OrderOfNone DEF NeatOut

(* One message is sent to each of a set of nodes.                          *)
LEMMA PostedNeat ==
    ASSUME NEW out \in [Nodes -> Seq(Message)], NeatOut(out), NEW S, NEW m \in Message,
           \A d \in S : /\ m \notin ToSet(out[d])
                        /\ m.type = "Update" => \A k \in ToSet(out[d]) : k.type # "MWOE"
    PROVE  /\ NeatOut(Posted(out, S, m))
           /\ Posted(out, S, m) \in [Nodes -> Seq(Message)]
           /\ \A d \in Nodes : ToSet(Posted(out, S, m)[d]) =
                                 ToSet(out[d]) \cup (IF d \in S THEN {m} ELSE {})
<1>1. ASSUME NEW d \in Nodes
      PROVE  /\ Posted(out, S, m)[d] \in Seq(Message)
             /\ Distinct(Posted(out, S, m)[d]) /\ UpdatesFirst(Posted(out, S, m)[d])
             /\ ToSet(Posted(out, S, m)[d]) = ToSet(out[d]) \cup (IF d \in S THEN {m} ELSE {})
  <2>1. CASE d \notin S
    BY <2>1 DEF Posted, NeatOut
  <2>2. CASE d \in S
    <3> PICK t : t = <<m>>
      OBVIOUS
    <3>1. t \in Seq(Message) /\ ToSet(t) = {m} /\ Distinct(t) /\ UpdatesFirst(t)
      BY OneElement, OrderOfOne
    <3>2. out[d] \in Seq(Message) /\ Distinct(out[d]) /\ UpdatesFirst(out[d])
      BY DEF NeatOut
    <3>3. Posted(out, S, m)[d] = out[d] \o t
      BY <2>2 DEF Posted
    <3>6. (\A k \in ToSet(out[d]) : k.type # "MWOE") \/ (\A k \in ToSet(t) : k.type # "Update")
      <4>1. CASE m.type = "Update"
        BY <2>2, <4>1
      <4>2. CASE m.type # "Update"
        BY <3>1, <4>2
      <4> QED
        BY <4>1, <4>2
    <3>7. PICK u : u = out[d]
      OBVIOUS
    <3>4. UpdatesFirst(out[d] \o t)
      <4>1. u \in Seq(Message) /\ UpdatesFirst(u)
            /\ ((\A k \in ToSet(u) : k.type # "MWOE") \/ (\A k \in ToSet(t) : k.type # "Update"))
        BY <3>2, <3>6, <3>7
      <4>2. UpdatesFirst(u \o t)
        BY <3>1, <4>1, OrderOfTwo
      <4> QED
        BY <3>7, <4>2
    <3>5. /\ u \o t \in Seq(Message) /\ ToSet(u \o t) = ToSet(u) \cup {m}
          /\ Distinct(u \o t)
      <4>1. u \in Seq(Message) /\ Distinct(u) /\ ToSet(u) \cap ToSet(t) = {}
        BY <2>2, <3>1, <3>2, <3>7
      <4>2. t \in Seq(Message)
        BY <3>1
      <4>3. ToSet(u \o t) = ToSet(u) \cup ToSet(t)
        <5>1. u \in Seq(Message)
          BY <4>1
        <5> QED
          BY ONLY <5>1, <4>2, ConcatElements
      <4>4. Distinct(u) /\ Distinct(t) /\ ToSet(u) \cap ToSet(t) = {} => Distinct(u \o t)
        BY <4>1, <4>2, ConcatElements
      <4> QED
        BY <3>1, <4>1, <4>2, <4>3, <4>4
    <3> QED
      BY <2>2, <3>7, <3>3, <3>4, <3>5
  <2> QED
    BY <2>1, <2>2
<1>2. DOMAIN Posted(out, S, m) = Nodes /\ Posted(out, S, m) = [n \in Nodes |-> Posted(out, S, m)[n]]
  BY DEF Posted
<1> QED
  BY <1>1, <1>2 DEF NeatOut

(* A step keeps the channels neat if it sends nothing that is on its way   *)
(* already.                                                                *)
LEMMA NeatStep ==
    ASSUME KernelTypeOK, Neat, NEW n \in Nodes, NEW a \in Arrivals(n), NEW e,
           e.direct \in Seq(Event), e.out \in [Nodes -> Seq(Message)], End(n, a, e),
           Distinct(e.direct), NeatOut(e.out), SentBy(n, e) \cap Moving = {},
           \/ \A d \in Nodes : \A m \in ToSet(e.out[d]) : m.type # "Update"
           \/ \A x \in Moving : x.from = n => x.msg.type # "MWOE"
    PROVE  Neat'
<1>0. NULL \notin Nodes
  BY NodesAssumption DEF Nodes
<1>1. now \in Seq(Event) /\ \A s, d \in Nodes : chan[s][d] \in Seq(Message)
  BY DEF KernelTypeOK
<1>2. /\ Distinct(now) /\ \A s, d \in Nodes : Distinct(chan[s][d]) /\ UpdatesFirst(chan[s][d])
      /\ \A d \in Nodes : e.out[d] \in Seq(Message) /\ Distinct(e.out[d]) /\ UpdatesFirst(e.out[d])
  BY DEF Neat, NeatOut
<1>3. now' = (IF a.from = NULL THEN Tail(now) ELSE now) \o e.direct
  BY DEF End
<1>4. \A s, d \in Nodes :
         chan'[s][d] = IF s = n THEN chan[s][d] \o e.out[d]
                       ELSE IF s = a.from /\ d = n THEN Tail(chan[s][d]) ELSE chan[s][d]
  BY DEF End
<1>5. \/ /\ now # <<>> /\ a.from = NULL /\ Head(now) = To(n, a.msg)
      \/ /\ now = <<>> /\ a.from = n /\ a.msg \in timers[n]
      \/ /\ now = <<>> /\ a.from \in Nodes \ {n} /\ chan[a.from][n] # <<>>
         /\ a.msg = Head(chan[a.from][n])
  BY ArrivalCases
<1>6. Distinct(now')
  <2> PICK r : r = IF a.from = NULL THEN Tail(now) ELSE now
    OBVIOUS
  <2>1. r \in Seq(Event) /\ Distinct(r) /\ ToSet(r) \subseteq ToSet(now)
    BY <1>0, <1>1, <1>2, <1>5, TailElements
  <2>2. ToSet(r) \cap ToSet(e.direct) = {}
    <3> SUFFICES ASSUME NEW ev \in ToSet(now), ev \in ToSet(e.direct)
                 PROVE  FALSE
      BY <2>1
    <3>1. ev = To(ev.to, ev.msg)
      <4>1. ev \in Event
        BY <1>1, ElementsType
      <4> QED
        BY <4>1 DEF Event, To
    <3>2. it(NULL, ev.to, ev.msg) \in Moving /\ it(NULL, ev.to, ev.msg) \in SentBy(n, e)
      BY <3>1, MovingIs, SentByIs
    <3> QED
      BY <3>2
  <2> QED
    BY <1>3, <2>1, <2>2, ConcatElements
<1>7. ASSUME NEW s \in Nodes, NEW d \in Nodes
      PROVE  Distinct(chan'[s][d]) /\ UpdatesFirst(chan'[s][d])
  <2>1. CASE s = n
    <3>1. ToSet(chan[n][d]) \cap ToSet(e.out[d]) = {}
      <4> SUFFICES ASSUME NEW m \in ToSet(chan[n][d]), m \in ToSet(e.out[d])
                   PROVE  FALSE
        OBVIOUS
      <4>1. it(n, d, m) \in Moving /\ it(n, d, m) \in SentBy(n, e)
        BY <1>0, MovingIs, SentByIs
      <4> QED
        BY <4>1
    <3>2. Distinct(chan[n][d] \o e.out[d])
      BY <1>1, <1>2, <3>1, ConcatElements
    <3>3. \/ \A m \in ToSet(chan[n][d]) : m.type # "MWOE"
          \/ \A m \in ToSet(e.out[d]) : m.type # "Update"
      <4>1. CASE \A x \in Moving : x.from = n => x.msg.type # "MWOE"
        <5> SUFFICES ASSUME NEW m \in ToSet(chan[n][d])
                     PROVE  m.type # "MWOE"
          OBVIOUS
        <5>1. it(n, d, m) \in Moving /\ it(n, d, m).from = n /\ it(n, d, m).msg = m
          BY <1>0, MovingIs DEF it
        <5> QED
          BY <4>1, <5>1
      <4> QED
        BY <4>1
    <3>4. UpdatesFirst(chan[n][d] \o e.out[d])
      BY <1>1, <1>2, <3>3, OrderOfTwo
    <3> QED
      BY <1>4, <2>1, <3>2, <3>4
  <2>2. CASE s # n /\ s = a.from /\ d = n
    <3>1. chan[s][d] # <<>>
      BY <1>0, <1>5, <2>2
    <3> QED
      BY <1>1, <1>2, <1>4, <2>2, <3>1, TailElements, OrderOfTail
  <2>3. CASE s # n /\ ~(s = a.from /\ d = n)
    BY <1>2, <1>4, <2>3
  <2> QED
    BY <2>1, <2>2, <2>3
<1> QED
  BY <1>6, <1>7 DEF Neat, NeatOut

-----------------------------------------------------------------------------
(* Reports and orders, wherever they are: a report that has been counted is*)
(* an item from NS, which sends none itself.                               *)
Collected == UNION {{it(NS, b, m) : m \in ToSet(broker[b].receivedMWOEs)} : b \in Brokers}

(* The items that are reports, those that have been counted included,      *)
ReportItems == {x \in Moving : x.msg.type = "MWOE"} \cup Collected

(* and those that are orders to expand.                                    *)
OrderItems == {x \in Moving : x.msg.type = "Expand"}

(* The broker that has made a report, or that an order goes to.            *)
origin(x) == Destination(x.to, x.msg)

(* Each broker has one of them.                                            *)
Unique(S) == \A x, y \in S : origin(x) = origin(y) => x = y

(* Who sends which message to whom, and how.                               *)
Shaped(x) ==
    LET m == x.msg
    IN  /\ m.type = "MWOE" =>
             /\ x.to \in Brokers /\ m.broker \in Brokers
             /\ \/ x.from = NULL /\ m.piggyback = <<>>
                \/ x.from \in Brokers /\ m.piggyback # <<>> /\ Head(m.piggyback) = x.from
        /\ m.type = "Expand" =>
             /\ x.to \in Brokers
             /\ x.from = NULL => m.piggyback = <<>>
             /\ x.from \in Brokers \cup {NULL}
        /\ m.type = "Connect" => x.to \in Brokers /\ x.from = NULL
        /\ m.type = "Update" => x.to \in Brokers /\ x.from \in Brokers /\ m.sender = x.from

(* All items are so.                                                       *)
AllShaped == \A x \in Moving : Shaped(x)

(* No report is counted twice, and each names an edge.                     *)
Tidy(ms) == Distinct(ms) /\ ReportsNamed(ms)

(* What is on its way, and what has been counted.                          *)
Placed ==
    /\ Neat /\ AllShaped
    /\ \A b \in Brokers : Tidy(broker[b].receivedMWOEs)
    /\ Unique(ReportItems) /\ Unique(OrderItems)

(* What is due at a broker as items,                                       *)
LEMMA DueIs ==
    ASSUME KernelTypeOK, NEW ty, NEW b, NEW m
    PROVE  m \in Due(ty, b) <=> it(NULL, b, m) \in Moving /\ m.type = ty
<1>1. now \in Seq(Event)
  BY DEF KernelTypeOK
<1>2. \A i \in DOMAIN now : now[i] \in Event
  BY <1>1
<1>3. To(b, m) \in ToSet(now) <=> \E i \in DOMAIN now : now[i].to = b /\ now[i].msg = m
  <2>1. \A i \in DOMAIN now : now[i] = To(b, m) <=> now[i].to = b /\ now[i].msg = m
    BY <1>2 DEF Event, To
  <2> QED
    BY <2>1 DEF ToSet
<1>4. it(NULL, b, m) \in Moving <=> To(b, m) \in ToSet(now)
  BY MovingIs
<1>5. m \in Due(ty, b) <=> m.type = ty /\ \E i \in DOMAIN now : now[i].to = b /\ now[i].msg = m
  BY DEF Due
<1> QED
  BY <1>3, <1>4, <1>5

(* what is on a channel,                                                   *)
LEMMA UnderIs ==
    ASSUME KernelTypeOK, NEW ty, NEW s \in Brokers, NEW d \in Brokers, NEW m
    PROVE  m \in Under(ty, s, d) <=> it(s, d, m) \in Moving /\ m.type = ty
<1>1. s # NULL /\ s \in Nodes /\ d \in Nodes
  BY NodesAssumption DEF Nodes
<1>2. it(s, d, m) \in Moving <=> m \in ToSet(chan[s][d])
  BY <1>1, MovingIs
<1>3. m \in Under(ty, s, d) <=> m \in ToSet(chan[s][d]) /\ m.type = ty
  BY DEF Under
<1> QED
  BY <1>2, <1>3

(* and what has been counted.                                              *)
LEMMA CollectedIs ==
    ASSUME NEW f, NEW b, NEW m
    PROVE  it(f, b, m) \in Collected
             <=> f = NS /\ b \in Brokers /\ m \in ToSet(broker[b].receivedMWOEs)
<1>1. \A c, k : it(f, b, m) = it(NS, c, k) <=> f = NS /\ b = c /\ m = k
  BY DEF it
<1>2. it(f, b, m) \in Collected
        <=> \E c \in Brokers : \E k \in ToSet(broker[c].receivedMWOEs) : it(f, b, m) = it(NS, c, k)
  BY DEF Collected
<1> QED
  BY <1>1, <1>2

(* An item that has been counted is at the broker that counts it.          *)
LEMMA CollectedShape ==
    ASSUME NEW x \in Collected
    PROVE  /\ x = it(NS, x.to, x.msg) /\ x.from = NS /\ x.to \in Brokers
           /\ x.msg \in ToSet(broker[x.to].receivedMWOEs)
BY DEF Collected, it

(* What the items are made of.                                             *)
IsReport(x) ==
    /\ x = it(x.from, x.to, x.msg)
    /\ x.from \in Brokers \cup {NULL, NS} /\ x.to \in Brokers
    /\ x.msg \in MWOEMessage /\ x.msg.type = "MWOE" /\ x.msg.broker \in Brokers
    /\ x.msg.piggyback \in Seq(Brokers)
    /\ origin(x) \in Brokers

(* An order to expand as an item.                                          *)
IsOrder(x) ==
    /\ x = it(x.from, x.to, x.msg)
    /\ x.from \in Brokers \cup {NULL} /\ x.to \in Brokers
    /\ x.msg \in ExpandMessage /\ x.msg.type = "Expand" /\ x.msg.broker \in Brokers
    /\ x.msg.piggyback \in Seq(Brokers)
    /\ origin(x) \in Brokers

(* All reports and orders are so.                                          *)
ItemsOK ==
    /\ \A x \in Moving : x = it(x.from, x.to, x.msg) /\ x.msg \in Message
    /\ \A x \in ReportItems :
          /\ IsReport(x)
          /\ (x.from = NS <=> x \in Collected) /\ (x.from # NS <=> x \in Moving)
    /\ \A x \in OrderItems : IsOrder(x)

(* The last element is an element.                                         *)
LEMMA LastIn ==
    ASSUME NEW S, NEW p \in Seq(S), p # <<>>
    PROVE  Last(p) \in S /\ Last(p) \in ToSet(p) /\ Last(p) = p[Len(p)] /\ Len(p) \in Nat \ {0}
<1>1. Len(p) \in Nat \ {0} /\ DOMAIN p = 1 .. Len(p)
  OBVIOUS
<1>2. Last(p) = p[Len(p)]
  BY DEF Last
<1>3. Len(p) \in DOMAIN p
  BY <1>1
<1> QED
  BY <1>1, <1>2, <1>3 DEF ToSet

(* Items are made of what the types say.                                   *)
LEMMA ItemsFit == IInv /\ Placed => ItemsOK
<1> SUFFICES ASSUME IInv, Placed
             PROVE  ItemsOK
  OBVIOUS
<1>0. /\ NULL \notin Brokers /\ NS \notin Brokers /\ NULL # NS
  BY NodesAssumption
<1>1. ASSUME NEW x \in Moving
      PROVE  x = it(x.from, x.to, x.msg) /\ x.msg \in Message
  <2>1. x = it(x.from, x.to, x.msg)
    BY MovingShape
  <2>2. KernelTypeOK
    BY DEF IInv, TypeOK
  <2>3. CASE x.from = NULL
    <3>1. To(x.to, x.msg) \in ToSet(now)
      BY <2>1, <2>2, <2>3, MovingIs
    <3>2. To(x.to, x.msg) \in Event
      BY <2>2, <3>1, ElementsType DEF KernelTypeOK
    <3> QED
      BY <2>1, <3>2 DEF Event, To
  <2>4. CASE x.from # NULL
    <3>1. x.from \in Nodes /\ x.to \in Nodes /\ x.msg \in ToSet(chan[x.from][x.to])
      BY <2>1, <2>2, <2>4, MovingIs
    <3>2. chan[x.from][x.to] \in Seq(Message)
      BY <2>2, <3>1 DEF KernelTypeOK
    <3> QED
      BY <2>1, <3>1, <3>2, ElementsType
  <2> QED
    BY <2>3, <2>4
<1>2. ASSUME NEW x, x.to \in Brokers, x.msg.piggyback \in Seq(Brokers)
      PROVE  origin(x) \in Brokers
  BY <1>2, LastIn DEF origin, Destination
<1>5. \A b \in Brokers : ToSet(broker[b].receivedMWOEs) \subseteq MWOEMessage
  BY ElementsType DEF IInv, TypeOK, BrokerState
<1>3. ASSUME NEW x \in ReportItems
      PROVE  IsReport(x) /\ (x.from = NS <=> x \in Collected) /\ (x.from # NS <=> x \in Moving)
  <2>1. x \in Collected =>
          /\ x = it(NS, x.to, x.msg) /\ x.from = NS /\ x.to \in Brokers
          /\ x.msg \in MWOEMessage /\ x.msg \in ToSet(broker[x.to].receivedMWOEs)
    BY <1>5, CollectedShape
  <2>2. x.msg.type = "MWOE"
    BY <2>1 DEF ReportItems, MWOEMessage
  <2>3. CASE x \in Moving
    <3>1. x = it(x.from, x.to, x.msg) /\ x.msg \in MWOEMessage
      BY <1>1, <2>2, <2>3, MessageTypes
    <3>2. x.to \in Brokers /\ x.msg.broker \in Brokers /\ x.from \in Brokers \cup {NULL}
      BY <2>2, <2>3 DEF Placed, AllShaped, Shaped
    <3>3. x.msg.piggyback \in Seq(Brokers)
      BY <3>1 DEF MWOEMessage
    <3> QED
      BY <1>0, <1>2, <2>1, <2>2, <2>3, <3>1, <3>2, <3>3 DEF IsReport
  <2>4. CASE x \notin Moving
    <3>1. x \in Collected
      BY <2>4 DEF ReportItems
    <3>2. x.msg.piggyback \in Seq(Brokers) /\ x.msg.broker \in Brokers \cup {NULL}
      BY <2>1, <3>1 DEF MWOEMessage
    <3>3. x.msg.broker # NULL
      <4>1. ReportsNamed(broker[x.to].receivedMWOEs)
        BY <2>1, <3>1 DEF Placed, Tidy
      <4> QED
        BY <2>1, <3>1, <4>1 DEF ReportsNamed, ToSet
    <3> QED
      BY <1>0, <1>2, <2>1, <2>2, <2>4, <3>1, <3>2, <3>3 DEF IsReport
  <2> QED
    BY <2>3, <2>4
<1>4. ASSUME NEW x \in OrderItems
      PROVE  IsOrder(x)
  <2>1. x \in Moving /\ x.msg.type = "Expand"
    BY DEF OrderItems
  <2>2. x = it(x.from, x.to, x.msg) /\ x.msg \in ExpandMessage
    BY <1>1, <2>1, MessageTypes
  <2>3. x.to \in Brokers /\ x.from \in Brokers \cup {NULL}
    BY <2>1 DEF Placed, AllShaped, Shaped
  <2>4. x.msg.piggyback \in Seq(Brokers) /\ x.msg.broker \in Brokers
    BY <2>2 DEF ExpandMessage
  <2> QED
    BY <1>2, <2>1, <2>2, <2>3, <2>4 DEF IsOrder
<1> QED
  BY <1>1, <1>3, <1>4 DEF ItemsOK

-----------------------------------------------------------------------------
(* What the items tell of the fragments.                                   *)
LEMMA OutReportsAre ==
    ASSUME IInv, Placed, NEW c \in Brokers, NEW m
    PROVE  m \in OutReports(c) <=> \E x \in ReportItems : origin(x) = c /\ x.msg = m
<1>0. /\ NULL \notin Brokers /\ NS \notin Brokers /\ NULL # NS /\ KernelTypeOK
  BY NodesAssumption DEF IInv, TypeOK
<1>1. ItemsOK
  BY ItemsFit
<1>2. m \in Due("MWOE", c) <=> it(NULL, c, m) \in Moving /\ m.type = "MWOE"
  BY <1>0, DueIs
<1>3. \A s, d \in Brokers : m \in Under("MWOE", s, d) <=> it(s, d, m) \in Moving /\ m.type = "MWOE"
  BY <1>0, UnderIs
<1>4. \A d \in Brokers : m \in ToSet(broker[d].receivedMWOEs) <=> it(NS, d, m) \in Collected
  BY CollectedIs
<1>5. ASSUME NEW f, NEW d
      PROVE  it(f, d, m).from = f /\ it(f, d, m).to = d /\ it(f, d, m).msg = m
  BY DEF it
<1>6. m \in OutReports(c) <=>
        \/ m \in Due("MWOE", c)
        \/ \E s, d \in Brokers : m \in Under("MWOE", s, d) /\ Last(m.piggyback) = c
        \/ \E d \in Brokers : m \in ToSet(broker[d].receivedMWOEs) /\ Origin(d, m) = c
  <2> DEFINE A(s, d) == {k \in Under("MWOE", s, d) : Last(k.piggyback) = c}
             B(d) == {k \in ToSet(broker[d].receivedMWOEs) : Origin(d, k) = c}
  <2>1. OutReports(c) = Due("MWOE", c) \cup (UNION {A(s, d) : s \in Brokers, d \in Brokers})
                          \cup (UNION {B(d) : d \in Brokers})
    BY DEF OutReports
  <2>2. \A s, d \in Brokers : m \in A(s, d) <=> m \in Under("MWOE", s, d) /\ Last(m.piggyback) = c
    OBVIOUS
  <2>3. \A d \in Brokers : m \in B(d) <=> m \in ToSet(broker[d].receivedMWOEs) /\ Origin(d, m) = c
    OBVIOUS
  <2> HIDE DEF A, B
  <2>4. m \in OutReports(c) <=>
          \/ m \in Due("MWOE", c)
          \/ \E s, d \in Brokers : m \in A(s, d)
          \/ \E d \in Brokers : m \in B(d)
    BY <2>1
  <2> QED
    BY <2>2, <2>3, <2>4
<1>7. ASSUME m \in OutReports(c)
      PROVE  \E x \in ReportItems : origin(x) = c /\ x.msg = m
  <2>1. CASE m \in Due("MWOE", c)
    <3>1. it(NULL, c, m) \in ReportItems
      BY <1>2, <1>5, <2>1 DEF ReportItems
    <3>2. Shaped(it(NULL, c, m))
      BY <1>2, <2>1 DEF Placed, AllShaped
    <3>3. m.piggyback = <<>>
      BY <1>0, <1>2, <1>5, <2>1, <3>2 DEF Shaped
    <3> QED
      BY <1>5, <3>1, <3>3 DEF origin, Destination
  <2>2. ASSUME NEW s \in Brokers, NEW d \in Brokers, m \in Under("MWOE", s, d),
               Last(m.piggyback) = c
        PROVE  \E x \in ReportItems : origin(x) = c /\ x.msg = m
    <3>1. it(s, d, m) \in ReportItems
      BY <1>3, <1>5, <2>2 DEF ReportItems
    <3>2. Shaped(it(s, d, m))
      BY <1>3, <2>2 DEF Placed, AllShaped
    <3>3. m.piggyback # <<>>
      BY <1>0, <1>3, <1>5, <2>2, <3>2 DEF Shaped
    <3> QED
      BY <1>5, <2>2, <3>1, <3>3 DEF origin, Destination
  <2>3. ASSUME NEW d \in Brokers, m \in ToSet(broker[d].receivedMWOEs), Origin(d, m) = c
        PROVE  \E x \in ReportItems : origin(x) = c /\ x.msg = m
    <3>1. it(NS, d, m) \in ReportItems
      BY <1>4, <2>3 DEF ReportItems
    <3> QED
      BY <1>5, <2>3, <3>1 DEF origin, Destination, Origin
  <2> QED
    BY <1>6, <1>7, <2>1, <2>2, <2>3
<1>8. ASSUME NEW x \in ReportItems, origin(x) = c, x.msg = m
      PROVE  m \in OutReports(c)
  <2>1. IsReport(x) /\ (x.from = NS <=> x \in Collected) /\ (x.from # NS <=> x \in Moving)
    BY <1>1 DEF ItemsOK
  <2>2. x = it(x.from, x.to, m) /\ m.type = "MWOE" /\ x.to \in Brokers
        /\ x.from \in Brokers \cup {NULL, NS}
    BY <1>8, <2>1 DEF IsReport
  <2>3. x \in Moving => Shaped(x)
    BY DEF Placed, AllShaped
  <2>4. CASE x.from = NULL
    <3>1. m.piggyback = <<>>
      BY <1>0, <1>8, <2>1, <2>2, <2>3, <2>4 DEF Shaped
    <3>2. x.to = c
      BY <1>8, <3>1 DEF origin, Destination
    <3> QED
      BY <1>0, <1>2, <1>6, <2>1, <2>2, <2>4, <3>2
  <2>5. CASE x.from \in Brokers
    <3>1. m.piggyback # <<>>
      BY <1>0, <1>8, <2>1, <2>2, <2>3, <2>5 DEF Shaped
    <3>2. Last(m.piggyback) = c
      BY <1>8, <3>1 DEF origin, Destination
    <3> QED
      BY <1>0, <1>3, <1>6, <2>1, <2>2, <2>5, <3>2
  <2>6. CASE x.from = NS
    <3>1. Origin(x.to, m) = c
      BY <1>8 DEF origin, Destination, Origin
    <3> QED
      BY <1>4, <1>6, <2>1, <2>2, <2>6, <3>1
  <2> QED
    BY <2>2, <2>4, <2>5, <2>6
<1> QED
  BY <1>7, <1>8

(* The broker that a set of one message is about.                          *)
LEMMA AboutOne ==
    ASSUME NEW ms, NEW m, ms = {m}
    PROVE  About(ms) = m.broker
<1>1. ms # {} /\ \A k \in ms : k = m
  OBVIOUS
<1> QED
  BY <1>1 DEF About

(* The edge a broker has reported is the one that its only report names.   *)
LEMMA ReportedAre == IInv /\ Placed =>
    /\ Reported \in [Brokers -> Brokers \cup {NULL}]
    /\ \A c, d \in Brokers :
         Reported[c] = d <=> \E x \in ReportItems : origin(x) = c /\ x.msg.broker = d
<1> SUFFICES ASSUME IInv, Placed, NEW c \in Brokers
             PROVE  /\ Reported[c] \in Brokers \cup {NULL}
                    /\ \A d \in Brokers :
                         Reported[c] = d <=> \E x \in ReportItems : origin(x) = c /\ x.msg.broker = d
  BY DEF Reported
<1>0. NULL \notin Brokers
  BY NodesAssumption
<1>1. Reported[c] = About(OutReports(c))
  BY DEF Reported
<1>2. CASE \E x \in ReportItems : origin(x) = c
  <2>1. PICK x \in ReportItems : origin(x) = c
    BY <1>2
  <2>2. \A y \in ReportItems : origin(y) = c <=> y = x
    BY <2>1 DEF Placed, Unique
  <2>3. \A m : m \in OutReports(c) <=> m = x.msg
    BY <2>2, OutReportsAre
  <2>4. OutReports(c) = {x.msg}
    BY <2>3
  <2>5. Reported[c] = x.msg.broker
    BY <1>1, <2>4, AboutOne
  <2>6. x.msg.broker \in Brokers
    BY ItemsFit DEF ItemsOK, IsReport
  <2> QED
    BY <2>1, <2>2, <2>5, <2>6
<1>3. CASE ~\E x \in ReportItems : origin(x) = c
  <2>1. \A m : m \notin OutReports(c)
    BY <1>3, OutReportsAre
  <2>2. OutReports(c) = {}
    BY <2>1
  <2>3. Reported[c] = NULL
    BY <1>1, <2>2 DEF About
  <2> QED
    BY <1>0, <1>3, <2>3
<1> QED
  BY <1>2, <1>3

(* The orders on their way to a broker as items.                           *)
LEMMA OutExpandsAre ==
    ASSUME IInv, Placed, NEW c \in Brokers, NEW m
    PROVE  m \in OutExpands(c) <=> \E x \in OrderItems : origin(x) = c /\ x.msg = m
<1>0. NULL \notin Brokers /\ KernelTypeOK
  BY NodesAssumption DEF IInv, TypeOK
<1>1. ItemsOK
  BY ItemsFit
<1>2. m \in Due("Expand", c) <=> it(NULL, c, m) \in Moving /\ m.type = "Expand"
  BY <1>0, DueIs
<1>3. \A s, d \in Brokers :
         m \in Under("Expand", s, d) <=> it(s, d, m) \in Moving /\ m.type = "Expand"
  BY <1>0, UnderIs
<1>5. ASSUME NEW f, NEW d
      PROVE  it(f, d, m).from = f /\ it(f, d, m).to = d /\ it(f, d, m).msg = m
  BY DEF it
<1>6. m \in OutExpands(c) <=>
        \/ m \in Due("Expand", c)
        \/ \E s, d \in Brokers : m \in Under("Expand", s, d) /\ Destination(d, m) = c
  <2> DEFINE A(s, d) == {k \in Under("Expand", s, d) : Destination(d, k) = c}
  <2>1. OutExpands(c) = Due("Expand", c) \cup (UNION {A(s, d) : s \in Brokers, d \in Brokers})
    BY DEF OutExpands
  <2>2. \A s, d \in Brokers : m \in A(s, d) <=> m \in Under("Expand", s, d) /\ Destination(d, m) = c
    OBVIOUS
  <2> HIDE DEF A
  <2>4. m \in OutExpands(c) <=>
          m \in Due("Expand", c) \/ \E s, d \in Brokers : m \in A(s, d)
    BY <2>1
  <2> QED
    BY <2>2, <2>4
<1>7. ASSUME m \in OutExpands(c)
      PROVE  \E x \in OrderItems : origin(x) = c /\ x.msg = m
  <2>1. CASE m \in Due("Expand", c)
    <3>1. it(NULL, c, m) \in OrderItems
      BY <1>2, <1>5, <2>1 DEF OrderItems
    <3>2. Shaped(it(NULL, c, m))
      BY <1>2, <2>1 DEF Placed, AllShaped
    <3>3. m.piggyback = <<>>
      BY <1>0, <1>2, <1>5, <2>1, <3>2 DEF Shaped
    <3> QED
      BY <1>5, <3>1, <3>3 DEF origin, Destination
  <2>2. ASSUME NEW s \in Brokers, NEW d \in Brokers, m \in Under("Expand", s, d),
               Destination(d, m) = c
        PROVE  \E x \in OrderItems : origin(x) = c /\ x.msg = m
    <3>1. it(s, d, m) \in OrderItems
      BY <1>3, <1>5, <2>2 DEF OrderItems
    <3> QED
      BY <1>5, <2>2, <3>1 DEF origin
  <2> QED
    BY <1>6, <1>7, <2>1, <2>2
<1>8. ASSUME NEW x \in OrderItems, origin(x) = c, x.msg = m
      PROVE  m \in OutExpands(c)
  <2>1. IsOrder(x)
    BY <1>1 DEF ItemsOK
  <2>2. x = it(x.from, x.to, m) /\ m.type = "Expand" /\ x.to \in Brokers
        /\ x.from \in Brokers \cup {NULL}
    BY <1>8, <2>1 DEF IsOrder
  <2>3. x \in Moving /\ Shaped(x)
    BY DEF Placed, AllShaped, OrderItems
  <2>4. CASE x.from = NULL
    <3>1. m.piggyback = <<>>
      BY <1>0, <1>8, <2>2, <2>3, <2>4 DEF Shaped
    <3>2. x.to = c
      BY <1>8, <3>1 DEF origin, Destination
    <3> QED
      BY <1>2, <1>6, <2>2, <2>3, <2>4, <3>2
  <2>5. CASE x.from \in Brokers
    <3>1. Destination(x.to, m) = c
      BY <1>8 DEF origin
    <3> QED
      BY <1>3, <1>6, <2>2, <2>3, <2>5, <3>1
  <2> QED
    BY <2>2, <2>4, <2>5
<1> QED
  BY <1>7, <1>8

(* The broker that one is told to ask is the one that its only order       *)
(* names.                                                                  *)
LEMMA ToldAre == IInv /\ Placed =>
    /\ ToldToAsk \in [Brokers -> Brokers \cup {NULL}]
    /\ \A c, d \in Brokers :
         ToldToAsk[c] = d <=> \E x \in OrderItems : origin(x) = c /\ x.msg.broker = d
<1> SUFFICES ASSUME IInv, Placed, NEW c \in Brokers
             PROVE  /\ ToldToAsk[c] \in Brokers \cup {NULL}
                    /\ \A d \in Brokers :
                         ToldToAsk[c] = d <=> \E x \in OrderItems : origin(x) = c /\ x.msg.broker = d
  BY DEF ToldToAsk
<1>0. NULL \notin Brokers
  BY NodesAssumption
<1>1. ToldToAsk[c] = About(OutExpands(c))
  BY DEF ToldToAsk
<1>2. CASE \E x \in OrderItems : origin(x) = c
  <2>1. PICK x \in OrderItems : origin(x) = c
    BY <1>2
  <2>2. \A y \in OrderItems : origin(y) = c <=> y = x
    BY <2>1 DEF Placed, Unique
  <2>3. \A m : m \in OutExpands(c) <=> m = x.msg
    BY <2>2, OutExpandsAre
  <2>4. OutExpands(c) = {x.msg}
    BY <2>3
  <2>5. ToldToAsk[c] = x.msg.broker
    BY <1>1, <2>4, AboutOne
  <2>6. x.msg.broker \in Brokers
    BY ItemsFit DEF ItemsOK, IsOrder
  <2> QED
    BY <2>1, <2>2, <2>5, <2>6
<1>3. CASE ~\E x \in OrderItems : origin(x) = c
  <2>1. \A m : m \notin OutExpands(c)
    BY <1>3, OutExpandsAre
  <2>2. OutExpands(c) = {}
    BY <2>1
  <2>3. ToldToAsk[c] = NULL
    BY <1>1, <2>2 DEF About
  <2> QED
    BY <1>0, <1>3, <2>3
<1> QED
  BY <1>2, <1>3

(* The requests under way are the Connect messages,                        *)
LEMMA AsksAre == IInv /\ Placed =>
    \A r : r \in Asks <=> \E x \in Moving : x.msg.type = "Connect" /\ r = Asking(x.to, x.msg)
<1> SUFFICES ASSUME IInv, Placed, NEW r
             PROVE  r \in Asks <=> \E x \in Moving : x.msg.type = "Connect" /\ r = Asking(x.to, x.msg)
  OBVIOUS
<1>0. KernelTypeOK
  BY DEF IInv, TypeOK
<1>1. r \in Asks <=> \E b \in Brokers : \E m \in Due("Connect", b) : r = Asking(b, m)
  BY DEF Asks
<1>2. ASSUME NEW b \in Brokers, NEW m \in Due("Connect", b), r = Asking(b, m)
      PROVE  \E x \in Moving : x.msg.type = "Connect" /\ r = Asking(x.to, x.msg)
  <2>1. it(NULL, b, m) \in Moving /\ m.type = "Connect"
    BY <1>0, DueIs
  <2>2. it(NULL, b, m).to = b /\ it(NULL, b, m).msg = m
    BY DEF it
  <2> QED
    BY <1>2, <2>1, <2>2
<1>3. ASSUME NEW x \in Moving, x.msg.type = "Connect", r = Asking(x.to, x.msg)
      PROVE  r \in Asks
  <2>1. x = it(NULL, x.to, x.msg) /\ x.to \in Brokers
    BY <1>3, MovingShape DEF Placed, AllShaped, Shaped
  <2>2. x.msg \in Due("Connect", x.to)
    BY <1>0, <1>3, <2>1, DueIs
  <2> QED
    BY <1>1, <1>3, <2>1, <2>2
<1> QED
  BY <1>1, <1>2, <1>3

(* and the updates under way the Update messages.                          *)
LEMMA UnderWayAre == IInv /\ Placed =>
    \A u : u \in UnderWay <=>
             \E x \in Moving : x.msg.type = "Update" /\ u = Telling(x.from, x.to, x.msg)
<1> SUFFICES ASSUME IInv, Placed, NEW u
             PROVE  u \in UnderWay <=>
                      \E x \in Moving : x.msg.type = "Update" /\ u = Telling(x.from, x.to, x.msg)
  OBVIOUS
<1>0. KernelTypeOK
  BY DEF IInv, TypeOK
<1>1. u \in UnderWay <=>
        \E s, d \in Brokers : \E m \in Under("Update", s, d) : u = Telling(s, d, m)
  <2> DEFINE told(x, y) == {Telling(x, y, v) : v \in Under("Update", x, y)}
  <2>1. UnderWay = UNION {told(x, y) : x \in Brokers, y \in Brokers}
    BY DEF UnderWay
  <2>2. \A s, d : u \in told(s, d) <=> \E m \in Under("Update", s, d) : u = Telling(s, d, m)
    OBVIOUS
  <2> HIDE DEF told
  <2>3. u \in UnderWay <=> \E s, d \in Brokers : u \in told(s, d)
    BY <2>1
  <2> QED
    BY <2>2, <2>3
<1>2. ASSUME NEW s \in Brokers, NEW d \in Brokers, NEW m \in Under("Update", s, d),
             u = Telling(s, d, m)
      PROVE  \E x \in Moving : x.msg.type = "Update" /\ u = Telling(x.from, x.to, x.msg)
  <2>1. it(s, d, m) \in Moving /\ m.type = "Update"
    BY <1>0, UnderIs
  <2>2. it(s, d, m).from = s /\ it(s, d, m).to = d /\ it(s, d, m).msg = m
    BY DEF it
  <2> QED
    BY <1>2, <2>1, <2>2
<1>3. ASSUME NEW x \in Moving, x.msg.type = "Update", u = Telling(x.from, x.to, x.msg)
      PROVE  u \in UnderWay
  <2>1. x = it(x.from, x.to, x.msg) /\ x.to \in Brokers /\ x.from \in Brokers
    BY <1>3, MovingShape DEF Placed, AllShaped, Shaped
  <2>2. x.msg \in Under("Update", x.from, x.to)
    BY <1>0, <1>3, <2>1, UnderIs
  <2> QED
    BY <1>1, <1>3, <2>1, <2>2
<1> QED
  BY <1>1, <1>2, <1>3

-----------------------------------------------------------------------------
(* What Fragments sees of the brokers.                                     *)

(* The reports, orders, requests and updates of Fragments, read off the    *)
(* items.                                                                  *)
ViewsOK ==
    /\ Reported \in [Brokers -> Brokers \cup {NULL}]
    /\ \A c, d \in Brokers :
         Reported[c] = d <=> \E x \in ReportItems : origin(x) = c /\ x.msg.broker = d
    /\ ToldToAsk \in [Brokers -> Brokers \cup {NULL}]
    /\ \A c, d \in Brokers :
         ToldToAsk[c] = d <=> \E x \in OrderItems : origin(x) = c /\ x.msg.broker = d
    /\ \A r : r \in Asks <=> \E x \in Moving : x.msg.type = "Connect" /\ r = Asking(x.to, x.msg)
    /\ \A u : u \in UnderWay <=>
                \E x \in Moving : x.msg.type = "Update" /\ u = Telling(x.from, x.to, x.msg)

(* They are so in every state,                                             *)
LEMMA ViewsFit == IInv /\ Placed => ItemsOK /\ ViewsOK
BY ItemsFit, ReportedAre, ToldAre, AsksAre, UnderWayAre DEF ViewsOK

(* and in the next one.                                                    *)
LEMMA ViewsFitNext == (IInv /\ Placed)' => (ItemsOK /\ ViewsOK)'
BY ViewsFit, PTL

-----------------------------------------------------------------------------
(* The way of a report, and of an order.                                   *)
SameSide(y, o) == Fits!Peers(y, o) /\ Members(y) = Members(o)

(* A path each of whose brokers is linked to the next one.                 *)
PathBack(p) == \A i \in 1 .. Len(p) - 1 : p[i + 1] \in Linked(p[i])

(* The brokers a report has passed.                                        *)
side(x) == ToSet(x.msg.piggyback) \cup {origin(x)} \cup (IF x.from = NS THEN {x.to} ELSE {})

(* A report goes along links of its fragment, whose members know the same, *)
ReportTrip(x) ==
    LET m == x.msg
        o == origin(x)
    IN  /\ m.delay = conditionTable[o][m.broker]
        /\ \A y \in side(x) : SameSide(y, o)
        /\ PathBack(m.piggyback)
        /\ x.from \in Brokers => x.to \in Linked(x.from)
        /\ x.from = NS /\ m.piggyback # <<>> => Head(m.piggyback) \in Linked(x.to)

(* and an order goes back along links to the broker it is for.             *)
OrderTrip(x) ==
    LET p == x.msg.piggyback
    IN  /\ ToSet(p) \cup {x.to} \subseteq Members(origin(x))
        /\ PathBack(p)
        /\ p # <<>> => Head(p) \in Linked(x.to)

(* All reports and orders do.                                              *)
Trips ==
    /\ \A x \in ReportItems : ReportTrip(x)
    /\ \A x \in OrderItems : OrderTrip(x)

(* The invariant: a history explains what the brokers hold, and messages   *)
(* are where they should be.                                               *)
World(H) ==
    /\ IInv /\ Fits!FragmentsInv /\ JoinsOK(H) /\ Placed /\ Trips /\ Fits!Begun /\ ~crashed

(* A step of Fragments or none.                                            *)
Abstractly == Fits!FragmentsNext \/ UNCHANGED Fits!fragments

(* What Fragments sees of a broker,                                        *)
LEMMA ViewFunctions ==
    ASSUME NEW b \in Brokers
    PROVE  /\ Rounds[b] = Round(b) /\ BuildsOver[b] = Available(b) /\ KnownMembers[b] = Members(b)
           /\ LinkedTo[b] = Linked(b) /\ TakingPart[b] = Awake(b)
           /\ Asked[b] = broker[b].sentConnects
           /\ KeptForLater[b] = {Asking(b, con) : con \in broker[b].receivedConnects}
BY DEF Rounds, BuildsOver, KnownMembers, LinkedTo, TakingPart, Asked, KeptForLater

(* and of its next state.                                                  *)
LEMMA ViewFunctionsNext ==
    ASSUME NEW b \in Brokers
    PROVE  /\ Rounds'[b] = Round(b)' /\ BuildsOver'[b] = Available(b)'
           /\ KnownMembers'[b] = Members(b)'
           /\ LinkedTo'[b] = Linked(b)' /\ TakingPart'[b] = Awake(b)'
           /\ Asked'[b] = broker'[b].sentConnects
           /\ KeptForLater'[b] = {Asking(b, con) : con \in broker'[b].receivedConnects}
BY DEF Rounds, BuildsOver, KnownMembers, LinkedTo, TakingPart, Asked, KeptForLater, Asking

(* A path stays one if its brokers keep their links.                       *)
LEMMA PathIn ==
    ASSUME NEW p \in Seq(Brokers)
    PROVE  /\ \A i \in 1 .. Len(p) - 1 : p[i] \in ToSet(p) /\ p[i + 1] \in ToSet(p)
           /\ p # <<>> => Head(p) \in ToSet(p)
           /\ ToSet(p) \subseteq Brokers
<1>1. Len(p) \in Nat /\ DOMAIN p = 1 .. Len(p) /\ ToSet(p) \subseteq Brokers
      /\ \A i \in 1 .. Len(p) : p[i] \in ToSet(p)
  BY ElementsType
<1>2. p # <<>> => Head(p) = p[1] /\ 1 \in 1 .. Len(p)
  BY <1>1
<1> QED
  BY <1>1, <1>2

(* A report that has not been used goes on along its links.                *)
LEMMA ReportTripStays ==
    ASSUME Fits!FragmentsInv, Abstractly, NEW x, IsReport(x), x.from # NS => Shaped(x),
           ReportTrip(x), Reported[origin(x)] # NULL, Reported'[origin(x)] # NULL,
           conditionTable' = conditionTable
    PROVE  ReportTrip(x)'
<1> PICK o : o = origin(x)
  OBVIOUS
<1> PICK p : p = x.msg.piggyback
  OBVIOUS
<1>0. NULL \notin Brokers /\ NS \notin Brokers /\ NULL # NS
  BY NodesAssumption
<1>1. o \in Brokers /\ p \in Seq(Brokers) /\ x.to \in Brokers /\ x.msg.type = "MWOE"
  BY DEF IsReport
<1>2. ToSet(p) \subseteq Brokers /\ side(x) \subseteq Brokers
      /\ o \in side(x) /\ ToSet(p) \subseteq side(x) /\ (x.from = NS => x.to \in side(x))
  BY <1>1, PathIn DEF side
<1>3. ASSUME NEW y \in side(x)
      PROVE  SameSide(y, o)' /\ Linked(y)' = Linked(y)
  <2>1. y \in Brokers /\ SameSide(y, o)
    BY <1>2 DEF ReportTrip
  <2>2. Fits!Peers(y, o) /\ KnownMembers[y] = KnownMembers[o]
    BY <1>1, <2>1, ViewFunctions DEF SameSide
  <2>3. /\ Fits!Peers(y, o)' /\ KnownMembers'[y] = KnownMembers'[o] /\ LinkedTo'[y] = LinkedTo[y]
    BY <1>1, <2>1, <2>2, Fits!ReportsLast DEF Abstractly
  <2> QED
    BY <1>1, <2>1, <2>3, ViewFunctions, ViewFunctionsNext DEF SameSide
<1>4. PathBack(p)'
  <2>1. PathBack(p)
    BY DEF ReportTrip
  <2> QED
    BY <1>1, <1>2, <1>3, <2>1, PathIn DEF PathBack
<1>5. (x.from \in Brokers => x.to \in Linked(x.from))'
  <2> SUFFICES ASSUME x.from \in Brokers
               PROVE  x.to \in Linked(x.from)'
    OBVIOUS
  <2>1. p # <<>> /\ Head(p) = x.from
    BY <1>0, <1>1 DEF Shaped
  <2>2. x.from \in side(x) /\ x.to \in Linked(x.from)
    BY <1>1, <1>2, <2>1, PathIn DEF ReportTrip
  <2> QED
    BY <1>3, <2>2
<1>6. (x.from = NS /\ p # <<>> => Head(p) \in Linked(x.to))'
  BY <1>2, <1>3 DEF ReportTrip
<1>7. (x.msg.delay = conditionTable[o][x.msg.broker])'
  BY DEF ReportTrip
<1> QED
  BY <1>3, <1>4, <1>5, <1>6, <1>7 DEF ReportTrip

(* So does an order that has not been carried out.                         *)
LEMMA OrderTripStays ==
    ASSUME Fits!FragmentsInv, Abstractly, NEW x, IsOrder(x),
           OrderTrip(x), ToldToAsk[origin(x)] # NULL, ToldToAsk'[origin(x)] # NULL
    PROVE  OrderTrip(x)'
<1> PICK o : o = origin(x)
  OBVIOUS
<1> PICK p : p = x.msg.piggyback
  OBVIOUS
<1>1. o \in Brokers /\ p \in Seq(Brokers) /\ x.to \in Brokers
  BY DEF IsOrder
<1>2. ToSet(p) \cup {x.to} \subseteq Members(o)
  BY DEF OrderTrip
<1>3. ASSUME NEW y \in ToSet(p) \cup {x.to}
      PROVE  y \in Members(o)' /\ Linked(y) \subseteq Linked(y)'
  <2>1. y \in Brokers /\ y \in KnownMembers[o]
    BY <1>1, <1>2, PathIn, ViewFunctions
  <2>2. y \in KnownMembers'[o] /\ LinkedTo[y] \subseteq LinkedTo'[y]
    BY <1>1, <2>1, Fits!OrdersLast DEF Abstractly
  <2> QED
    BY <1>1, <2>1, <2>2, ViewFunctions, ViewFunctionsNext
<1>4. PathBack(p)'
  <2>1. PathBack(p)
    BY DEF OrderTrip
  <2> QED
    BY <1>1, <1>3, <2>1, PathIn DEF PathBack
<1>5. (p # <<>> => Head(p) \in Linked(x.to))'
  BY <1>3 DEF OrderTrip
<1> QED
  BY <1>3, <1>4, <1>5 DEF OrderTrip

(* It is enough to look at the items of the step.                          *)
LEMMA TripsStep ==
    ASSUME NEW H, World(H), Abstractly, IInv', Placed', conditionTable' = conditionTable,
           \A x \in ReportItems' :
              (ReportTrip(x) /\ Reported[origin(x)] # NULL) \/ ReportTrip(x)',
           \A x \in OrderItems' :
              (OrderTrip(x) /\ ToldToAsk[origin(x)] # NULL) \/ OrderTrip(x)'
    PROVE  Trips'
<1>0. NULL \notin Brokers
  BY NodesAssumption
<1>1. ItemsOK' /\ ViewsOK' /\ Fits!FragmentsInv
  BY ViewsFitNext DEF World
<1>2. ASSUME NEW x \in ReportItems', ReportTrip(x), Reported[origin(x)] # NULL
      PROVE  ReportTrip(x)'
  <2>1. IsReport(x) /\ (x.from # NS => x \in Moving')
    BY <1>1 DEF ItemsOK, IsReport
  <2>2. x.from # NS => Shaped(x)
    BY <2>1 DEF Placed, AllShaped, Shaped
  <2>3. Reported'[origin(x)] = x.msg.broker /\ x.msg.broker \in Brokers
    BY <1>1, <2>1 DEF ViewsOK, IsReport
  <2> QED
    BY <1>0, <1>1, <1>2, <2>1, <2>2, <2>3, ReportTripStays
<1>3. ASSUME NEW x \in OrderItems', OrderTrip(x), ToldToAsk[origin(x)] # NULL
      PROVE  OrderTrip(x)'
  <2>1. IsOrder(x)
    BY <1>1 DEF ItemsOK, IsOrder
  <2>3. ToldToAsk'[origin(x)] = x.msg.broker /\ x.msg.broker \in Brokers
    BY <1>1, <2>1 DEF ViewsOK, IsOrder
  <2> QED
    BY <1>0, <1>1, <1>3, <2>1, <2>3, OrderTripStays
<1> QED
  BY <1>2, <1>3 DEF Trips

(* The two instances of Fragments have the same actions,                   *)
LEMMA SameActions == Frag!FragmentsNext = Fits!FragmentsNext
BY Zenon DEF Frag!FragmentsNext, Fits!FragmentsNext,
         Frag!Start, Fits!Start, Frag!Stop, Fits!Stop, Frag!Rest, Fits!Rest, Frag!Choose,
         Fits!Choose, Frag!Ask, Fits!Ask, Frag!Answer, Fits!Answer, Frag!Meet, Fits!Meet,
         Frag!Keep, Fits!Keep, Frag!Learn, Fits!Learn, Frag!Reports, Fits!Reports, Frag!Merge,
         Fits!Merge, Frag!request, Fits!request

(* the same invariant,                                                     *)
LEMMA SameInvariant == Frag!FragmentsInv = Fits!FragmentsInv
BY Zenon DEF Frag!FragmentsInv, Fits!FragmentsInv,
         Frag!FragmentsTypeOK, Fits!FragmentsTypeOK, Frag!Own, Fits!Own, Frag!Nested,
         Fits!Nested, Frag!Waits, Fits!Waits, Frag!EdgeOK, Fits!EdgeOK, Frag!ChosenOK,
         Fits!ChosenOK, Frag!PendingOK, Fits!PendingOK, Frag!SentOK, Fits!SentOK,
         Frag!ReceivedOK, Fits!ReceivedOK, Frag!UpdatesOK, Fits!UpdatesOK, Frag!LinksOK,
         Fits!LinksOK, Frag!Request, Fits!Request, Frag!Update, Fits!Update, Frag!Set, Fits!Set,
         Frag!Peers, Fits!Peers, Frag!Knows, Fits!Knows, Frag!Surpassed, Fits!Surpassed,
         Frag!Full, Fits!Full, Frag!Shortest, Fits!Shortest, Frag!Idle, Fits!Idle, Frag!Pending,
         Fits!Pending, Frag!HalfBy, Fits!HalfBy, Frag!Half, Fits!Half, Frag!Open, Fits!Open,
         Frag!Joined, Fits!Joined, Frag!OnlyOut, Fits!OnlyOut, Frag!request, Fits!request

(* and the same state.                                                     *)
LEMMA SameState == Fits!fragments = Frag!fragments
BY DEF Frag!fragments, Fits!fragments

(* What follows from the invariant at once.                                *)
LEMMA WorldHolds ==
    ASSUME NEW H, World(H)
    PROVE  FragmentsHold /\ TypeOK /\ KernelTypeOK /\ IsConditionTable(conditionTable)
           /\ QueueOK(now) /\ ItemsOK /\ ViewsOK /\ ~crashed
BY SameInvariant, ViewsFit DEF World, FragmentsHold, IInv, TypeOK, JoinsOK

-----------------------------------------------------------------------------

(* What Fragments sees of a handler that changes one broker.               *)
LEMMA StateViews ==
    ASSUME IInv, NEW b \in Brokers, NEW a, NEW e, Acts(b, a, e)
    PROVE  /\ Rounds' = [Rounds EXCEPT ![b] = e.st.currentConvergence]
           /\ BuildsOver' = [BuildsOver EXCEPT ![b] = ToSet(e.st.availableBrokers)]
           /\ KnownMembers' = [KnownMembers EXCEPT ![b] = e.st.members]
           /\ LinkedTo' = [LinkedTo EXCEPT ![b] = NeighbourBrokers(e.st.neighboursMap)]
           /\ Asked' = [Asked EXCEPT ![b] = e.st.sentConnects]
           /\ KeptForLater' = [KeptForLater EXCEPT ![b] =
                                 {Asking(b, con) : con \in e.st.receivedConnects}]
           /\ conditionTable' = conditionTable
<1>1. broker \in [Brokers -> BrokerState] /\ broker' = [broker EXCEPT ![b] = e.st]
      /\ conditionTable' = conditionTable
  BY DEF IInv, TypeOK, Acts
<1>2. broker'[b] = e.st /\ \A c \in Brokers \ {b} : broker'[c] = broker[c]
  BY <1>1
<1>3. Rounds' = [Rounds EXCEPT ![b] = e.st.currentConvergence]
  BY <1>2 DEF Rounds, Round
<1>4. BuildsOver' = [BuildsOver EXCEPT ![b] = ToSet(e.st.availableBrokers)]
  BY <1>2 DEF BuildsOver, Available
<1>5. KnownMembers' = [KnownMembers EXCEPT ![b] = e.st.members]
  BY <1>2 DEF KnownMembers, Members
<1>6. LinkedTo' = [LinkedTo EXCEPT ![b] = NeighbourBrokers(e.st.neighboursMap)]
  BY <1>2 DEF LinkedTo, Linked
<1>7. Asked' = [Asked EXCEPT ![b] = e.st.sentConnects]
  BY <1>2 DEF Asked
<1>8. KeptForLater' = [KeptForLater EXCEPT ![b] = {Asking(b, con) : con \in e.st.receivedConnects}]
  BY <1>2 DEF KeptForLater, Asking
<1> QED
  BY <1>1, <1>3, <1>4, <1>5, <1>6, <1>7, <1>8

(* The messages that brokers of a convergence exchange.                    *)
IsWork(m) == m.type \in {"MWOE", "Expand", "Connect", "Update"}

(* Brokers take part as before if no message about it comes or goes.       *)
LEMMA PartIsSame ==
    ASSUME RegisteredBrokers' = RegisteredBrokers, Control' = Control,
           \A c \in Brokers : broker'[c].initial = broker[c].initial
    PROVE  TakingPart' = TakingPart
<1>1. ASSUME NEW c \in Brokers
      PROVE  Awake(c)' <=> Awake(c)
  BY AwakeIs, AwakeNextIs
<1>2. ASSUME NEW c \in Brokers
      PROVE  Awake(c)' = Awake(c)
  BY <1>1 DEF Awake
<1> QED
  BY <1>2 DEF TakingPart

(* So it is when such a message is handled.                                *)
LEMMA WorkKeepsPart ==
    ASSUME IInv, QueueOK(now), NEW b \in Brokers, NEW a, NEW e, Acts(b, a, e), IsWork(a.msg),
           WellDue(e), e.st.initial = broker[b].initial
    PROVE  TakingPart' = TakingPart
<1>1. /\ now' = rest(a) \o e.direct /\ rest(a) \in Seq(Event)
      /\ ControlOf(rest(a)) = Control \ {To(b, a.msg)}
      /\ broker'[b] = e.st /\ \A c \in Brokers \ {b} : broker'[c] = broker[c]
      /\ RegisteredBrokers' = RegisteredBrokers
  BY StepFacts
<1>2. ~IsControl(To(b, a.msg)) /\ To(b, a.msg) \notin Control
  BY DEF IsWork, IsControl, To, Control, ControlOf
<1>3. e.direct \in Seq(Event)
  BY DEF Acts, Effect
<1>4. ControlOf(e.direct) = {}
  BY DEF WellDue, Quick, ControlOf, IsControl
<1>5. ToSet(now') = ToSet(rest(a)) \cup ToSet(e.direct)
  BY <1>1, <1>3, ConcatElements
<1>6. Control' = Control
  BY <1>1, <1>2, <1>4, <1>5 DEF Control, ControlOf
<1> QED
  BY <1>1, <1>6, PartIsSame

(* Such a message is an item when it arrives.                              *)
LEMMA WorkItem ==
    ASSUME NEW H, World(H), NEW b \in Brokers, NEW a \in Arrivals(b), IsWork(a.msg)
    PROVE  LET g == it(a.from, b, a.msg)
           IN  /\ g \in Moving /\ Shaped(g) /\ g.from = a.from /\ g.to = b /\ g.msg = a.msg
               /\ a.from \in (Brokers \ {b}) \cup {NULL} /\ a.from # b /\ a.from # NS
               /\ Consumed(b, a) = {g}
               /\ a.from = NULL => now # <<>> /\ Head(now) = To(b, a.msg)
               /\ a.from # NULL => now = <<>> /\ chan[a.from][b] # <<>>
                                   /\ a.msg = Head(chan[a.from][b])
<1>0. KernelTypeOK /\ b \in Nodes /\ NULL \notin Nodes /\ NS \notin Brokers /\ NULL # NS
      /\ Brokers \subseteq Nodes
  BY WorldHolds, NodesAssumption DEF Nodes
<1>1. /\ ~crashed /\ a.msg \in Message
      /\ \/ /\ now # <<>> /\ a.from = NULL /\ Head(now) = To(b, a.msg)
         \/ /\ now = <<>> /\ a.from = b /\ a.msg \in timers[b]
         \/ /\ now = <<>> /\ a.from \in Nodes \ {b} /\ chan[a.from][b] # <<>>
            /\ a.msg = Head(chan[a.from][b])
  BY <1>0, ArrivalCases
<1>2. ~(a.from = b /\ a.msg \in timers[b])
  <2>1. TypesOf(timers[b]) \subseteq {"WakeUp", "Sleep", "Join"}
    BY TimerTypes DEF World
  <2> QED
    BY <2>1 DEF TypesOf, IsWork
<1>3. it(a.from, b, a.msg) \in Moving /\ a.from \in (Brokers \ {b}) \cup {NULL}
  <2>1. CASE a.from = NULL
    <3>1. now \in Seq(Event) /\ now # <<>> /\ Head(now) = To(b, a.msg)
      BY <1>0, <1>1, <2>1 DEF KernelTypeOK
    <3>2. To(b, a.msg) \in ToSet(now)
      BY <3>1, TailElements
    <3> QED
      BY <1>0, <2>1, <3>2, MovingIs
  <2>2. CASE a.from \in Nodes \ {b} /\ chan[a.from][b] # <<>> /\ a.msg = Head(chan[a.from][b])
    <3>1. chan[a.from][b] \in Seq(Message)
      BY <1>0, <2>2 DEF KernelTypeOK
    <3>2. a.msg \in ToSet(chan[a.from][b])
      BY <2>2, <3>1, TailElements
    <3>3. a.from \in Brokers
      BY <1>0, <2>2 DEF World, JoinsOK, ChannelsOK
    <3> QED
      BY <1>0, <2>2, <3>2, <3>3, MovingIs
  <2> QED
    BY <1>0, <1>1, <1>2, <2>1, <2>2
<1>4. Shaped(it(a.from, b, a.msg))
  BY <1>3 DEF World, Placed, AllShaped
<1> QED
  BY <1>0, <1>1, <1>2, <1>3, <1>4 DEF it, Consumed

-----------------------------------------------------------------------------
(* What a handler moves.                                                   *)

(* The items of a type that a step adds.                                   *)
Sent(b, e, ty) == {x \in SentBy(b, e) : x.msg.type = ty}

(* How a handler moves the items.                                          *)
LEMMA ItemsMove ==
    ASSUME IInv, IInv', NEW b \in Brokers, NEW a, NEW e, Acts(b, a, e), Placed
    PROVE  /\ Moving' = (Moving \ Consumed(b, a)) \cup SentBy(b, e)
           /\ e.direct \in Seq(Event) /\ e.out \in [Nodes -> Seq(Message)]
           /\ End(b, a, e) /\ a \in Arrivals(b)
<1>1. KernelTypeOK /\ KernelTypeOK' /\ Neat /\ b \in Nodes
  BY DEF IInv, TypeOK, Placed, Nodes
<1>2. e.direct \in Seq(Event) /\ e.out \in [Nodes -> Seq(Message)] /\ End(b, a, e)
      /\ a \in Arrivals(b)
  BY DEF Acts, Effect
<1> QED
  BY <1>1, <1>2, MovingStep

(* What has been counted after it;                                         *)
LEMMA CollectedNext ==
    ASSUME IInv, NEW b \in Brokers, NEW a, NEW e, Acts(b, a, e), NEW x
    PROVE  x \in Collected' <=>
              \/ x \in Collected /\ x.to # b
              \/ \E m \in ToSet(e.st.receivedMWOEs) : x = it(NS, b, m)
<1>1. broker \in [Brokers -> BrokerState] /\ broker' = [broker EXCEPT ![b] = e.st]
  BY DEF IInv, TypeOK, Acts
<1>2. broker'[b] = e.st /\ \A c \in Brokers \ {b} : broker'[c] = broker[c]
  BY <1>1
<1> DEFINE f(c) == {it(NS, c, m) : m \in ToSet(broker[c].receivedMWOEs)}
<1> DEFINE h(c) == {it(NS, c, m) : m \in ToSet(broker'[c].receivedMWOEs)}
<1>3. x \in Collected <=> \E c \in Brokers : x \in f(c)
  BY DEF Collected
<1>4. x \in Collected' <=> \E c \in Brokers : x \in h(c)
  BY DEF Collected, it
<1>5. \A c \in Brokers : x \in f(c) \/ x \in h(c) => x.to = c
  BY DEF it
<1>6. \A c \in Brokers \ {b} : h(c) = f(c)
  BY <1>2
<1>7. x \in h(b) <=> \E m \in ToSet(e.st.receivedMWOEs) : x = it(NS, b, m)
  BY <1>2
<1> HIDE DEF f, h
<1> QED
  BY <1>3, <1>4, <1>5, <1>6, <1>7

(* the reports after it,                                                   *)
LEMMA ReportsMove ==
    ASSUME NEW H, World(H), IInv', NEW b \in Brokers, NEW a, NEW e, Acts(b, a, e),
           IsWork(a.msg), NEW g, g = it(a.from, b, a.msg), NEW x
    PROVE  x \in ReportItems' <=>
              \/ x \in ReportItems /\ x # g /\ (x.from = NS => x.to # b)
              \/ x \in Sent(b, e, "MWOE")
              \/ \E m \in ToSet(e.st.receivedMWOEs) : x = it(NS, b, m)
<1>1. a \in Arrivals(b) /\ IInv /\ Placed
  BY DEF Acts, World
<1>2. Moving' = (Moving \ {g}) \cup SentBy(b, e) /\ g.from # NS
  BY <1>1, WorkItem, ItemsMove
<1>3. \A y \in ReportItems : (y.from = NS <=> y \in Collected) /\ (y.from # NS <=> y \in Moving)
  BY WorldHolds DEF ItemsOK
<1>4. x \in Collected' <=>
              \/ x \in Collected /\ x.to # b
              \/ \E m \in ToSet(e.st.receivedMWOEs) : x = it(NS, b, m)
  BY <1>1, CollectedNext
<1>5. x \in ReportItems' <=> (x \in Moving' /\ x.msg.type = "MWOE") \/ x \in Collected'
  BY DEF ReportItems
<1>6. x \in ReportItems <=> (x \in Moving /\ x.msg.type = "MWOE") \/ x \in Collected
  BY DEF ReportItems
<1> QED
  BY <1>2, <1>3, <1>4, <1>5, <1>6 DEF Sent

(* also if none is counted or dropped,                                     *)
LEMMA ReportsMoveSame ==
    ASSUME NEW H, World(H), IInv', NEW b \in Brokers, NEW a, NEW e, Acts(b, a, e),
           IsWork(a.msg), NEW g, g = it(a.from, b, a.msg),
           e.st.receivedMWOEs = broker[b].receivedMWOEs
    PROVE  ReportItems' = (ReportItems \ {g}) \cup Sent(b, e, "MWOE")
<1>1. ASSUME NEW x
      PROVE  (x \in ReportItems /\ x.from = NS /\ x.to = b)
               <=> \E m \in ToSet(e.st.receivedMWOEs) : x = it(NS, b, m)
  <2>1. x \in ReportItems => (x.from = NS <=> x \in Collected)
    BY WorldHolds DEF ItemsOK
  <2>2. x \in Collected => x \in ReportItems
    BY DEF ReportItems
  <2>3. x \in Collected => x = it(NS, x.to, x.msg) /\ x.msg \in ToSet(broker[x.to].receivedMWOEs)
    BY CollectedShape
  <2>4. \A m \in ToSet(e.st.receivedMWOEs) : it(NS, b, m) \in Collected
    BY CollectedIs
  <2>5. \A m : it(NS, b, m).from = NS /\ it(NS, b, m).to = b
    BY DEF it
  <2> QED
    BY <2>1, <2>2, <2>3, <2>4, <2>5
<1>2. a \in Arrivals(b)
  BY DEF Acts
<1>3. g.from # NS
  BY <1>2, WorkItem
<1>4. ASSUME NEW x
      PROVE  x \in ReportItems' <=> x \in (ReportItems \ {g}) \cup Sent(b, e, "MWOE")
  <2>1. x \in ReportItems' <=>
              \/ x \in ReportItems /\ x # g /\ (x.from = NS => x.to # b)
              \/ x \in Sent(b, e, "MWOE")
              \/ \E m \in ToSet(e.st.receivedMWOEs) : x = it(NS, b, m)
    BY ReportsMove
  <2> QED
    BY <1>1, <1>3, <2>1
<1> QED
  BY <1>4

(* and the orders to expand.                                               *)
LEMMA OrdersMove ==
    ASSUME NEW H, World(H), IInv', NEW b \in Brokers, NEW a, NEW e, Acts(b, a, e),
           IsWork(a.msg), NEW g, g = it(a.from, b, a.msg)
    PROVE  OrderItems' = (OrderItems \ {g}) \cup Sent(b, e, "Expand")
<1>1. a \in Arrivals(b) /\ IInv /\ Placed
  BY DEF Acts, World
<1>2. Moving' = (Moving \ {g}) \cup SentBy(b, e)
  BY <1>1, WorkItem, ItemsMove
<1> QED
  BY <1>2 DEF OrderItems, Sent

-----------------------------------------------------------------------------

(* A report or order replaces another one.                                 *)
LEMMA OneNew ==
    ASSUME NEW S, NEW T, Unique(S), NEW g, NEW x, T \subseteq (S \ {g}) \cup {x},
           \A y \in S \ {g} : origin(y) # origin(x)
    PROVE  Unique(T)
BY Zenon DEF Unique

(* Some reports or orders are used.                                        *)
LEMMA FewerUnique ==
    ASSUME NEW S, NEW T, Unique(S), T \subseteq S
    PROVE  Unique(T)
BY Zenon DEF Unique

(* The views, when the items change.                                       *)
LEMMA ReportedSame ==
    ASSUME ViewsOK, ViewsOK', NEW c \in Brokers,
           \A d \in Brokers : (\E x \in ReportItems' : origin(x) = c /\ x.msg.broker = d)
                                <=> \E x \in ReportItems : origin(x) = c /\ x.msg.broker = d
    PROVE  Reported'[c] = Reported[c]
<1>1. Reported'[c] \in Brokers \cup {NULL} /\ Reported[c] \in Brokers \cup {NULL}
  BY DEF ViewsOK
<1>2. ASSUME NEW d \in Brokers
      PROVE  Reported'[c] = d <=> Reported[c] = d
  <2>1. Reported[c] = d <=> \E x \in ReportItems : origin(x) = c /\ x.msg.broker = d
    BY DEF ViewsOK
  <2>2. Reported'[c] = d <=> \E x \in ReportItems' : origin(x) = c /\ x.msg.broker = d
    BY DEF ViewsOK, origin, Destination
  <2> QED
    BY <2>1, <2>2
<1> QED
  BY <1>1, <1>2

(* A broker with a report has reported its edge,                           *)
LEMMA ReportedNow ==
    ASSUME ViewsOK', NEW x \in ReportItems', origin(x) \in Brokers, x.msg.broker \in Brokers
    PROVE  Reported'[origin(x)] = x.msg.broker
<1> PICK c : c = origin(x)
  OBVIOUS
<1> PICK d : d = x.msg.broker
  OBVIOUS
<1>2. c \in Brokers /\ d \in Brokers
      => (Reported'[c] = d <=> \E y \in ReportItems' : origin(y) = c /\ y.msg.broker = d)
  BY DEF ViewsOK, origin, Destination
<1> QED
  BY <1>2

(* one without a report has not.                                           *)
LEMMA ReportedNot ==
    ASSUME ViewsOK', NEW c \in Brokers, \A x \in ReportItems' : origin(x) # c
    PROVE  Reported'[c] = NULL
<1>1. Reported'[c] \in Brokers \cup {NULL}
  BY DEF ViewsOK
<1>2. ASSUME NEW d \in Brokers
      PROVE  Reported'[c] = d <=> \E x \in ReportItems' : origin(x) = c /\ x.msg.broker = d
  BY DEF ViewsOK, origin, Destination
<1> QED
  BY <1>1, <1>2

(* The broker to ask is the same if the orders are,                        *)
LEMMA ToldSame ==
    ASSUME ViewsOK, ViewsOK', NEW c \in Brokers,
           \A d \in Brokers : (\E x \in OrderItems' : origin(x) = c /\ x.msg.broker = d)
                                <=> \E x \in OrderItems : origin(x) = c /\ x.msg.broker = d
    PROVE  ToldToAsk'[c] = ToldToAsk[c]
<1>1. ToldToAsk'[c] \in Brokers \cup {NULL} /\ ToldToAsk[c] \in Brokers \cup {NULL}
  BY DEF ViewsOK
<1>2. ASSUME NEW d \in Brokers
      PROVE  ToldToAsk'[c] = d <=> ToldToAsk[c] = d
  <2>1. ToldToAsk[c] = d <=> \E x \in OrderItems : origin(x) = c /\ x.msg.broker = d
    BY DEF ViewsOK
  <2>2. ToldToAsk'[c] = d <=> \E x \in OrderItems' : origin(x) = c /\ x.msg.broker = d
    BY DEF ViewsOK, origin, Destination
  <2> QED
    BY <2>1, <2>2
<1> QED
  BY <1>1, <1>2

(* it is the one that the order names,                                     *)
LEMMA ToldNow ==
    ASSUME ViewsOK', NEW x \in OrderItems', origin(x) \in Brokers, x.msg.broker \in Brokers
    PROVE  ToldToAsk'[origin(x)] = x.msg.broker
<1> PICK c : c = origin(x)
  OBVIOUS
<1> PICK d : d = x.msg.broker
  OBVIOUS
<1>2. c \in Brokers /\ d \in Brokers
      => (ToldToAsk'[c] = d <=> \E y \in OrderItems' : origin(y) = c /\ y.msg.broker = d)
  BY DEF ViewsOK, origin, Destination
<1> QED
  BY <1>2

(* and there is none without an order.                                     *)
LEMMA ToldNot ==
    ASSUME ViewsOK', NEW c \in Brokers, \A x \in OrderItems' : origin(x) # c
    PROVE  ToldToAsk'[c] = NULL
<1>1. ToldToAsk'[c] \in Brokers \cup {NULL}
  BY DEF ViewsOK
<1>2. ASSUME NEW d \in Brokers
      PROVE  ToldToAsk'[c] = d <=> \E x \in OrderItems' : origin(x) = c /\ x.msg.broker = d
  BY DEF ViewsOK, origin, Destination
<1> QED
  BY <1>1, <1>2

(* All of the fragments' state at once.                                    *)
LEMMA AllReported ==
    ASSUME ViewsOK, ViewsOK', \A c \in Brokers : Reported'[c] = Reported[c]
    PROVE  Reported' = Reported
<1>1. Reported \in [Brokers -> Brokers \cup {NULL}] /\ Reported' \in [Brokers -> Brokers \cup {NULL}]
  BY DEF ViewsOK
<1> QED
  BY <1>1

(* All brokers are told the same as before.                                *)
LEMMA AllTold ==
    ASSUME ViewsOK, ViewsOK', \A c \in Brokers : ToldToAsk'[c] = ToldToAsk[c]
    PROVE  ToldToAsk' = ToldToAsk
<1>1. ToldToAsk \in [Brokers -> Brokers \cup {NULL}] /\ ToldToAsk' \in [Brokers -> Brokers \cup {NULL}]
  BY DEF ViewsOK
<1> QED
  BY <1>1

(* New requests join those under way,                                      *)
LEMMA AsksMove ==
    ASSUME ViewsOK, ViewsOK', NEW G, NEW N, Moving' = (Moving \ G) \cup N,
           \A x \in G : x.msg.type # "Connect"
    PROVE  Asks' = Asks \cup {Asking(x.to, x.msg) : x \in {y \in N : y.msg.type = "Connect"}}
<1>1. ASSUME NEW r
      PROVE  r \in Asks' <=> \E x \in Moving' : x.msg.type = "Connect" /\ r = Asking(x.to, x.msg)
  BY DEF ViewsOK, Asking
<1>2. ASSUME NEW r
      PROVE  r \in Asks <=> \E x \in Moving : x.msg.type = "Connect" /\ r = Asking(x.to, x.msg)
  BY DEF ViewsOK
<1>3. ASSUME NEW r
      PROVE  r \in Asks' <=> r \in Asks \cup {Asking(x.to, x.msg) : x \in {y \in N : y.msg.type = "Connect"}}
  BY <1>1, <1>2
<1> QED
  BY <1>3

(* and so do new updates.                                                  *)
LEMMA UnderWayMove ==
    ASSUME ViewsOK, ViewsOK', NEW G, NEW N, Moving' = (Moving \ G) \cup N,
           \A x \in G : x.msg.type # "Update"
    PROVE  UnderWay' = UnderWay \cup
              {Telling(x.from, x.to, x.msg) : x \in {y \in N : y.msg.type = "Update"}}
<1>1. ASSUME NEW r
      PROVE  r \in UnderWay' <=>
               \E x \in Moving' : x.msg.type = "Update" /\ r = Telling(x.from, x.to, x.msg)
  BY DEF ViewsOK, Telling
<1>2. ASSUME NEW r
      PROVE  r \in UnderWay <=>
               \E x \in Moving : x.msg.type = "Update" /\ r = Telling(x.from, x.to, x.msg)
  BY DEF ViewsOK
<1>3. ASSUME NEW r
      PROVE  r \in UnderWay' <=> r \in UnderWay \cup
              {Telling(x.from, x.to, x.msg) : x \in {y \in N : y.msg.type = "Update"}}
  BY <1>1, <1>2
<1> QED
  BY <1>3

(* When a handler leaves all messages where they should be.                *)
LEMMA PlacedStep ==
    ASSUME NEW H, World(H), IInv', NEW b \in Brokers, NEW a, NEW e, Acts(b, a, e),
           Distinct(e.direct), NeatOut(e.out),
           \A x \in SentBy(b, e) : x \notin Moving /\ Shaped(x),
           \/ \A x \in SentBy(b, e) : x.msg.type # "Update"
           \/ \A x \in Moving : x.from = b => x.msg.type # "MWOE",
           Tidy(e.st.receivedMWOEs), Unique(ReportItems'), Unique(OrderItems')
    PROVE  Placed'
<1>0. IInv /\ Placed /\ KernelTypeOK /\ b \in Nodes /\ NULL \notin Nodes /\ NULL # b
  BY NodesAssumption DEF World, IInv, TypeOK, Nodes
<1>1. /\ Moving' = (Moving \ Consumed(b, a)) \cup SentBy(b, e)
      /\ e.direct \in Seq(Event) /\ e.out \in [Nodes -> Seq(Message)]
      /\ End(b, a, e) /\ a \in Arrivals(b)
  BY <1>0, ItemsMove
<1>2. Neat'
  <2>1. SentBy(b, e) \cap Moving = {}
    OBVIOUS
  <2>2. ASSUME \A x \in SentBy(b, e) : x.msg.type # "Update",
               NEW d \in Nodes, NEW m \in ToSet(e.out[d])
        PROVE  m.type # "Update"
    <3>1. it(b, d, m) \in SentBy(b, e)
      BY <1>0, <1>1, SentByIs
    <3>2. it(b, d, m).msg.type # "Update"
      BY <2>2, <3>1
    <3> QED
      BY <3>2 DEF it
  <2> QED
    BY <1>0, <1>1, <2>1, <2>2, NeatStep DEF Placed
<1>3. AllShaped'
  BY <1>0, <1>1 DEF AllShaped, Placed, Shaped
<1>4. \A c \in Brokers : Tidy(broker'[c].receivedMWOEs)
  <2>1. broker \in [Brokers -> BrokerState] /\ broker' = [broker EXCEPT ![b] = e.st]
    BY <1>0 DEF IInv, TypeOK, Acts
  <2>2. broker'[b] = e.st /\ \A c \in Brokers \ {b} : broker'[c] = broker[c]
    BY <2>1
  <2> QED
    BY <1>0, <2>2 DEF Placed
<1>5. (\A c \in Brokers : Tidy(broker[c].receivedMWOEs))'
  BY <1>4 DEF Tidy, Distinct, ReportsNamed
<1>6. Unique(ReportItems)' /\ Unique(OrderItems)'
  BY DEF Unique, origin, Destination
<1> QED
  BY <1>2, <1>3, <1>5, <1>6 DEF Placed

(* A handler that does not change the broker's view of its fragment.       *)
LEMMA ViewsKept ==
    ASSUME IInv, NEW b \in Brokers, NEW a, NEW e, Acts(b, a, e),
           SameView(broker[b], e.st)
    PROVE  /\ Rounds' = Rounds /\ BuildsOver' = BuildsOver /\ KnownMembers' = KnownMembers
           /\ LinkedTo' = LinkedTo /\ conditionTable' = conditionTable
           /\ SameConnects(broker[b], e.st) => Asked' = Asked /\ KeptForLater' = KeptForLater
           /\ e.st.initial = broker[b].initial
           /\ \A c \in Brokers : Members(c)' = Members(c) /\ Linked(c)' = Linked(c)
<1>1. broker \in [Brokers -> BrokerState] /\ broker' = [broker EXCEPT ![b] = e.st]
      /\ conditionTable' = conditionTable
  BY DEF IInv, TypeOK, Acts
<1>2. broker'[b] = e.st /\ \A c \in Brokers \ {b} : broker'[c] = broker[c]
  BY <1>1
<1>3. /\ e.st.initial = broker[b].initial
      /\ e.st.currentConvergence = broker[b].currentConvergence
      /\ e.st.members = broker[b].members /\ e.st.availableBrokers = broker[b].availableBrokers
      /\ e.st.neighboursMap = broker[b].neighboursMap
  BY DEF SameView
<1>4. \A c \in Brokers : /\ broker'[c].currentConvergence = broker[c].currentConvergence
                         /\ broker'[c].members = broker[c].members
                         /\ broker'[c].availableBrokers = broker[c].availableBrokers
                         /\ broker'[c].neighboursMap = broker[c].neighboursMap
  BY <1>2, <1>3
<1>5. Rounds' = Rounds
  BY <1>4 DEF Rounds, Round
<1>6. BuildsOver' = BuildsOver
  BY <1>4 DEF BuildsOver, Available
<1>7. KnownMembers' = KnownMembers
  BY <1>4 DEF KnownMembers, Members
<1>8. LinkedTo' = LinkedTo
  BY <1>4 DEF LinkedTo, Linked
<1>9. SameConnects(broker[b], e.st) => Asked' = Asked /\ KeptForLater' = KeptForLater
  <2> SUFFICES ASSUME SameConnects(broker[b], e.st)
               PROVE  Asked' = Asked /\ KeptForLater' = KeptForLater
    OBVIOUS
  <2>1. \A c \in Brokers : /\ broker'[c].sentConnects = broker[c].sentConnects
                           /\ broker'[c].receivedConnects = broker[c].receivedConnects
    BY <1>2 DEF SameConnects
  <2> QED
    BY <2>1 DEF Asked, KeptForLater, Asking
<1>10. \A c \in Brokers : Members(c)' = Members(c) /\ Linked(c)' = Linked(c)
  BY <1>4 DEF Members, Linked
<1> QED
  BY <1>1, <1>3, <1>5, <1>6, <1>7, <1>8, <1>9, <1>10

(* The report and who is on its way.                                       *)
LEMMA ReportFacts ==
    ASSUME NEW H, World(H), NEW g \in ReportItems
    PROVE  /\ IsReport(g) /\ ReportTrip(g) /\ Reported[origin(g)] = g.msg.broker
           /\ origin(g) \in Brokers /\ g.msg.broker # NULL
           /\ Awake(origin(g)) /\ KnownMembers[origin(g)] = Members(origin(g))
           /\ \A y \in side(g) : y \in Brokers /\ SameSide(y, origin(g)) /\ Awake(y)
                                 /\ Members(y) = Members(origin(g))
<1>0. NULL \notin Brokers
  BY NodesAssumption
<1>1. IsReport(g) /\ ReportTrip(g)
  BY WorldHolds DEF World, ItemsOK, Trips
<1> PICK o : o = origin(g)
  OBVIOUS
<1> PICK c : c = g.msg.broker
  OBVIOUS
<1>2. o \in Brokers /\ c \in Brokers
  BY <1>1 DEF IsReport
<1>3. Reported[o] = c
  BY <1>2, WorldHolds DEF ViewsOK
<1>4. TakingPart[o]
  BY <1>0, <1>2, <1>3 DEF World, Fits!FragmentsInv, Fits!EdgeOK
<1>5. side(g) \subseteq Brokers
  BY <1>1, PathIn DEF side, IsReport
<1>6. \A y \in side(g) : SameSide(y, o)
  BY <1>1 DEF ReportTrip
<1>7. \A y \in side(g) : Members(y) = Members(o) /\ TakingPart[y]
  BY <1>6 DEF SameSide, Fits!Peers
<1>8. \A y \in Brokers : TakingPart[y] = Awake(y) /\ KnownMembers[y] = Members(y)
  BY ViewFunctions
<1> QED
  BY <1>0, <1>1, <1>2, <1>3, <1>4, <1>5, <1>6, <1>7, <1>8

(* A report that has come over a link has come to the same fragment.       *)
LEMMA ReportCame ==
    ASSUME NEW H, World(H), NEW b \in Brokers, NEW a \in Arrivals(b), a.msg.type = "MWOE",
           NEW g, g = it(a.from, b, a.msg)
    PROVE  /\ g \in ReportItems /\ SameSide(b, origin(g)) /\ Awake(b)
           /\ Members(b) = Members(origin(g))
           /\ origin(g) \in Members(b) /\ b \in Members(b) /\ Members(b) # Available(b)
           /\ a.msg.piggyback # <<>> => Head(a.msg.piggyback) \in Linked(b)
           /\ a.msg.piggyback = <<>> => origin(g) = b
<1>0. IsWork(a.msg) /\ NULL \notin Brokers /\ NS \notin Brokers
  BY NodesAssumption DEF IsWork
<1>1. /\ g \in Moving /\ Shaped(g) /\ g.from = a.from /\ g.to = b /\ g.msg = a.msg
      /\ a.from \in (Brokers \ {b}) \cup {NULL} /\ a.from # b
      /\ a.from # NULL => now = <<>> /\ chan[a.from][b] # <<>>
                          /\ a.msg = Head(chan[a.from][b])
  BY <1>0, WorkItem
<1>2. g \in ReportItems
  BY <1>1 DEF ReportItems
<1> PICK o : o = origin(g)
  OBVIOUS
<1> PICK p : p = a.msg.piggyback
  OBVIOUS
<1>3. /\ IsReport(g) /\ ReportTrip(g) /\ Reported[o] = g.msg.broker
      /\ o \in Brokers /\ g.msg.broker # NULL /\ o \in side(g)
      /\ \A y \in side(g) : y \in Brokers /\ SameSide(y, o)
  BY <1>2, ReportFacts DEF side
<1>4. p \in Seq(Brokers)
  BY <1>1, <1>3 DEF IsReport
<1>5. p = <<>> => o = b
  BY <1>1 DEF origin, Destination
<1>6. SameSide(b, o) /\ (p # <<>> => Head(p) \in Linked(b))
  <2>1. CASE p = <<>>
    BY <1>3, <1>5, <2>1
  <2>2. CASE p # <<>>
    <3>1. a.from \in Brokers /\ Head(p) = a.from
      BY <1>1, <2>2 DEF Shaped
    <3>2. a.from \in side(g)
      BY <1>1, <1>4, <2>2, <3>1, PathIn DEF side
    <3>3. b \in Linked(a.from) /\ SameSide(a.from, o)
      BY <1>1, <1>3, <3>1, <3>2 DEF ReportTrip
    <3>4. Asks = {}
      <4>1. \A x \in Moving : x.msg.type # "Connect"
        <5>1. SUFFICES ASSUME NEW x \in Moving, x.msg.type = "Connect"
                       PROVE  FALSE
          OBVIOUS
        <5>2. x.from = NULL /\ x = it(NULL, x.to, x.msg)
          BY <5>1, MovingShape DEF World, Placed, AllShaped, Shaped
        <5>3. To(x.to, x.msg) \in ToSet(now)
          BY <5>1, <5>2, MovingIs, WorldHolds
        <5>4. now = <<>>
          BY <1>0, <1>1, <3>1
        <5> QED
          BY <5>3, <5>4, NoElements
      <4> QED
        BY <4>1, WorldHolds DEF ViewsOK
    <3>5. ASSUME NEW u \in UnderWay, u.from = a.from, u.to = b
          PROVE  FALSE
      <4>1. PICK x \in Moving : x.msg.type = "Update" /\ u = Telling(x.from, x.to, x.msg)
        BY WorldHolds DEF ViewsOK
      <4>2. x = it(a.from, b, x.msg)
        BY <3>5, <4>1, MovingShape DEF Telling
      <4>3. x.msg \in ToSet(chan[a.from][b]) /\ a.from \in Nodes /\ b \in Nodes
        BY <1>0, <3>1, <4>2, MovingIs, WorldHolds
      <4>4. chan[a.from][b] \in Seq(Message) /\ UpdatesFirst(chan[a.from][b])
        BY <4>3, WorldHolds DEF KernelTypeOK, World, Placed, Neat, NeatOut
      <4> QED
        BY <1>0, <1>1, <3>1, <4>1, <4>3, <4>4, ReportComesLast
    <3>6. b \in LinkedTo[a.from] /\ KnownMembers[a.from] = KnownMembers[o] /\ Fits!Peers(a.from, o)
          /\ Reported[o] # NULL
      BY <1>1, <1>3, <3>1, <3>3, ViewFunctions DEF SameSide
    <3>7. Fits!Peers(b, o) /\ KnownMembers[b] = KnownMembers[o] /\ a.from \in LinkedTo[b]
      BY <1>3, <3>1, <3>4, <3>5, <3>6, Fits!ReceiverKnows DEF World
    <3> QED
      BY <1>3, <3>1, <3>7, ViewFunctions DEF SameSide
  <2> QED
    BY <2>1, <2>2
<1>7. TakingPart[b] /\ TakingPart[o] /\ Members(b) = Members(o)
  BY <1>6 DEF SameSide, Fits!Peers
<1>8. Awake(b) /\ Awake(o)
  BY <1>3, <1>7, ViewFunctions
<1>9. o \in Members(o) /\ b \in Members(b)
  BY <1>3, <1>8, WorldHolds, OwnFacts
<1>10. Members(o) # Available(o) /\ Available(b) = Available(o)
  <2>1. Reported[o] \in BuildsOver[o] \ KnownMembers[o]
    BY <1>3 DEF World, Fits!FragmentsInv, Fits!EdgeOK
  <2>2. Rounds[b] = Rounds[o]
    BY <1>6 DEF SameSide, Fits!Peers
  <2>3. Available(b) = Available(o)
    BY <1>3, <1>8, <2>2, WorldHolds, OwnFacts, ViewFunctions
  <2> QED
    BY <1>3, <2>1, <2>3, ViewFunctions
<1> QED
  BY <1>2, <1>5, <1>6, <1>7, <1>8, <1>9, <1>10

-----------------------------------------------------------------------------
(* What a handler sends.                                                   *)

(* What a handler has sent so far is neat.                                 *)
Clean(e) == e \in Effect /\ Distinct(e.direct) /\ NeatOut(e.out)

(* An item that is sent at once or over a gate.                            *)
LEMMA SentItem ==
    ASSUME NEW n \in Nodes, NEW e, e.direct \in Seq(Event), e.out \in [Nodes -> Seq(Message)], NEW x
    PROVE  x \in SentBy(n, e) <=>
             /\ x = it(x.from, x.to, x.msg)
             /\ \/ x.from = NULL /\ To(x.to, x.msg) \in ToSet(e.direct)
                \/ x.from = n /\ x.to \in Nodes /\ x.msg \in ToSet(e.out[x.to])
<1>0. NULL \notin Nodes
  BY NodesAssumption DEF Nodes
<1> PICK f : f = x.from
  OBVIOUS
<1> PICK t : t = x.to
  OBVIOUS
<1> PICK m : m = x.msg
  OBVIOUS
<1>1. /\ f = NULL => (it(f, t, m) \in SentBy(n, e) <=> To(t, m) \in ToSet(e.direct))
      /\ f # NULL => (it(f, t, m) \in SentBy(n, e) <=>
                             f = n /\ t \in Nodes /\ m \in ToSet(e.out[t]))
  BY SentByIs
<1>2. x \in SentBy(n, e) => x = it(f, t, m)
  BY SentByShape
<1> QED
  BY <1>0, <1>1, <1>2

(* An item that is sent over a gate.                                       *)
LEMMA SentOver ==
    ASSUME NEW n \in Nodes, NEW e, e.direct \in Seq(Event), e.out \in [Nodes -> Seq(Message)],
           NEW d \in Nodes, NEW k
    PROVE  it(n, d, k) \in SentBy(n, e) <=> k \in ToSet(e.out[d])
<1>1. n # NULL
  BY NodesAssumption DEF Nodes
<1>2. n # NULL => (it(n, d, k) \in SentBy(n, e) <=> n = n /\ d \in Nodes /\ k \in ToSet(e.out[d]))
  BY SentByIs
<1> QED
  BY <1>1, <1>2

(* A handler begins with nothing sent.                                     *)
LEMMA StartClean ==
    ASSUME IInv, NEW b \in Brokers, NEW a \in Arrivals(b), NEW e, e = Start(b, a)
    PROVE  Clean(e) /\ e.self = b /\ e.st = broker[b] /\ SentBy(b, e) = {} /\ ~e.fault
<1>1. /\ e \in Effect /\ e.self = b /\ e.st = broker[b] /\ e.direct = <<>>
      /\ e.out = [n \in Nodes |-> <<>>] /\ ~e.fault
  BY StartIs
<1>2. Distinct(e.direct) /\ NeatOut(e.out)
  BY <1>1, NoElements, NothingIsNeat
<1>3. b \in Nodes /\ NULL \notin Nodes
  BY NodesAssumption DEF Nodes
<1>4. ASSUME NEW x \in SentBy(b, e)
      PROVE  FALSE
  <2>1. x = it(x.from, x.to, x.msg)
    BY <1>4, SentByShape
  <2>2. e.direct \in Seq(Event) /\ e.out \in [Nodes -> Seq(Message)]
    BY <1>1 DEF Effect
  <2>3. ToSet(e.direct) = {} /\ \A n \in Nodes : ToSet(e.out[n]) = {}
    BY <1>1, NoElements
  <2>4. x.from = NULL => (it(x.from, x.to, x.msg) \in SentBy(b, e) <=> To(x.to, x.msg) \in ToSet(e.direct))
    BY <1>3, <2>2, SentByIs
  <2>5. x.from # NULL => (it(x.from, x.to, x.msg) \in SentBy(b, e) <=>
                             x.from = b /\ x.to \in Nodes /\ x.msg \in ToSet(e.out[x.to]))
    BY <1>3, <2>2, SentByIs
  <2> QED
    BY <1>4, <2>1, <2>3, <2>4, <2>5
<1> QED
  BY <1>1, <1>2, <1>4 DEF Clean

(* It sends a message at once.                                             *)
LEMMA NowClean ==
    ASSUME NEW e, NEW f, Clean(e), f \in Effect, NEW b \in Brokers, NEW n \in Nodes,
           NEW m \in Message, SendsNow(e, f, n, m), it(NULL, n, m) \notin SentBy(b, e)
    PROVE  Clean(f) /\ SentBy(b, f) = SentBy(b, e) \cup {it(NULL, n, m)}
<1>0. b \in Nodes /\ NULL \notin Nodes /\ NULL # b
  BY NodesAssumption DEF Nodes
<1>1. /\ e.direct \in Seq(Event) /\ e.out \in [Nodes -> Seq(Message)]
      /\ f.direct \in Seq(Event) /\ f.out \in [Nodes -> Seq(Message)]
      /\ Distinct(e.direct) /\ NeatOut(e.out) /\ f.out = e.out
      /\ f.direct = e.direct \o <<To(n, m)>>
  BY DEF Clean, Effect, SendsNow
<1>2. To(n, m) \notin ToSet(e.direct)
  BY <1>0, <1>1, SentByIs
<1>3. To(n, m) \in Event
  BY DEF To, Event
<1> PICK t : t = <<To(n, m)>>
  OBVIOUS
<1>4. t \in Seq(Event) /\ ToSet(t) = {To(n, m)} /\ Distinct(t)
  BY <1>3, OneElement
<1>5. ToSet(f.direct) = ToSet(e.direct) \cup {To(n, m)} /\ Distinct(f.direct)
  <2> PICK s : s = e.direct
    OBVIOUS
  <2>1. s \in Seq(Event) /\ Distinct(s) /\ To(n, m) \notin ToSet(s)
    BY Zenon, <1>1, <1>2
  <2>2. ToSet(s) \cap ToSet(t) = {}
    BY Zenon, <1>4, <2>1
  <2>3. ToSet(s \o t) = ToSet(s) \cup ToSet(t) /\ Distinct(s \o t)
    BY Zenon, <1>4, <2>1, <2>2, ConcatElements
  <2>4. f.direct = s \o t
    BY Zenon, <1>1
  <2> QED
    BY Zenon, <1>4, <2>3, <2>4
<1>55. ASSUME NEW ev
       PROVE  ev \in ToSet(f.direct) <=> ev \in ToSet(e.direct) \/ ev = To(n, m)
  BY Zenon, <1>5
<1>6. ASSUME NEW x
      PROVE  x \in SentBy(b, f) <=> x \in SentBy(b, e) \cup {it(NULL, n, m)}
  <2>1. x \in SentBy(b, f) <=>
             /\ x = it(x.from, x.to, x.msg)
             /\ \/ x.from = NULL /\ To(x.to, x.msg) \in ToSet(f.direct)
                \/ x.from = b /\ x.to \in Nodes /\ x.msg \in ToSet(f.out[x.to])
    BY Zenon, <1>0, <1>1, SentItem
  <2>2. x \in SentBy(b, e) <=>
             /\ x = it(x.from, x.to, x.msg)
             /\ \/ x.from = NULL /\ To(x.to, x.msg) \in ToSet(e.direct)
                \/ x.from = b /\ x.to \in Nodes /\ x.msg \in ToSet(e.out[x.to])
    BY Zenon, <1>0, <1>1, SentItem
  <2>3. x = it(NULL, n, m) => x.from = NULL /\ x.to = n /\ x.msg = m
    BY DEF it
  <2>8. To(x.to, x.msg) = To(n, m) => x.to = n /\ x.msg = m
    BY DEF To
  <2> QED
    BY <1>1, <1>55, <2>1, <2>2, <2>3, <2>8
<1> QED
  BY <1>1, <1>5, <1>6 DEF Clean

(* A message is posted to the brokers of a set.                            *)
LEMMA PostedHolds ==
    ASSUME NEW out \in [Nodes -> Seq(Message)], NEW S, NEW m \in Message, NEW d \in Nodes, NEW k
    PROVE  k \in ToSet(Posted(out, S, m)[d]) <=> k \in ToSet(out[d]) \/ (d \in S /\ k = m)
<1> PICK o : o = out[d]
  OBVIOUS
<1> PICK t : t = <<m>>
  OBVIOUS
<1>1. t \in Seq(Message) /\ ToSet(t) = {m}
  BY OneElement
<1>2. o \in Seq(Message)
  BY Zenon
<1>3. ToSet(o \o t) = ToSet(o) \cup ToSet(t)
  BY Zenon, <1>1, <1>2, ConcatElements
<1>4. Posted(out, S, m)[d] = IF d \in S THEN o \o t ELSE o
  BY Zenon DEF Posted
<1>5. CASE d \in S
  BY Zenon, <1>1, <1>3, <1>4, <1>5
<1>6. CASE d \notin S
  BY Zenon, <1>4, <1>6
<1> QED
  BY <1>5, <1>6

(* It posts one message to each of them,                                   *)
Posts(e, f, S, m) == f.direct = e.direct /\ f.out = Posted(e.out, S, m)

(* which is new there and, if it is an update, follows no report,          *)
NewTo(out, S, m) ==
    \A d \in S : /\ m \notin ToSet(out[d])
                 /\ m.type = "Update" => \A k \in ToSet(out[d]) : k.type # "MWOE"

(* so that each of them has one message more.                              *)
Extends(o, out, S, m) ==
    \A d \in Nodes : \A k : k \in ToSet(o[d]) <=> k \in ToSet(out[d]) \/ (d \in S /\ k = m)

(* What is sent stays neat,                                                *)
LEMMA NeatPosted ==
    ASSUME NEW out \in [Nodes -> Seq(Message)], NeatOut(out), NEW S, NEW m \in Message,
           NewTo(out, S, m)
    PROVE  NeatOut(Posted(out, S, m)) /\ Extends(Posted(out, S, m), out, S, m)
<1>1. NeatOut(Posted(out, S, m))
  <2>1. ASSUME NEW d \in S
        PROVE  /\ m \notin ToSet(out[d])
               /\ m.type = "Update" => \A k \in ToSet(out[d]) : k.type # "MWOE"
    BY DEF NewTo
  <2> QED
    BY <2>1, PostedNeat
<1>2. ASSUME NEW d \in Nodes, NEW k
      PROVE  k \in ToSet(Posted(out, S, m)[d]) <=> k \in ToSet(out[d]) \/ (d \in S /\ k = m)
  BY Zenon, PostedHolds
<1> QED
  BY Zenon, <1>1, <1>2 DEF Extends

(* and the items are those of before and one for each of them.             *)
LEMMA PostClean ==
    ASSUME NEW e, NEW f, Clean(e), f \in Effect, NEW b \in Brokers, NEW S \in SUBSET Brokers,
           NEW m \in Message, Posts(e, f, S, m),
           \A d \in S : it(b, d, m) \notin SentBy(b, e),
           m.type = "Update" => \A x \in SentBy(b, e) : x.msg.type # "MWOE"
    PROVE  Clean(f) /\ SentBy(b, f) = SentBy(b, e) \cup {it(b, d, m) : d \in S}
<1>0. b \in Nodes /\ NULL \notin Nodes /\ NULL # b /\ S \subseteq Nodes
  BY NodesAssumption DEF Nodes
<1>1. /\ e.direct \in Seq(Event) /\ e.out \in [Nodes -> Seq(Message)]
      /\ f.direct \in Seq(Event) /\ f.out \in [Nodes -> Seq(Message)]
      /\ Distinct(e.direct) /\ NeatOut(e.out) /\ f.direct = e.direct
  BY DEF Clean, Effect, Posts
<1>2. ASSUME NEW d \in S
      PROVE  /\ m \notin ToSet(e.out[d])
             /\ m.type = "Update" => \A k \in ToSet(e.out[d]) : k.type # "MWOE"
  <2>1. ASSUME NEW k
        PROVE  it(b, d, k) \in SentBy(b, e) <=> k \in ToSet(e.out[d])
    <3>1. d \in Nodes
      BY <1>0
    <3> QED
      BY Zenon, <1>0, <1>1, <3>1, SentOver
  <2>2. \A k : it(b, d, k).msg = k
    BY DEF it
  <2>3. m \notin ToSet(e.out[d])
    BY <2>1
  <2>4. ASSUME m.type = "Update", NEW k \in ToSet(e.out[d])
        PROVE  k.type # "MWOE"
    BY <2>1, <2>2, <2>4
  <2> QED
    BY <2>3, <2>4
<1>3. NeatOut(f.out) /\ \A d \in Nodes : \A k :
         k \in ToSet(f.out[d]) <=> k \in ToSet(e.out[d]) \/ (d \in S /\ k = m)
  <2>1. NewTo(e.out, S, m)
    BY Zenon, <1>2 DEF NewTo
  <2>2. NeatOut(Posted(e.out, S, m)) /\ Extends(Posted(e.out, S, m), e.out, S, m)
    BY Zenon, <1>1, <2>1, NeatPosted
  <2>3. f.out = Posted(e.out, S, m)
    BY Zenon DEF Posts
  <2>4. NeatOut(f.out) /\ Extends(f.out, e.out, S, m)
    BY Zenon, <2>2, <2>3
  <2> QED
    BY Zenon, <2>4 DEF Extends
<1>6. ASSUME NEW x
      PROVE  x \in SentBy(b, f) <=> x \in SentBy(b, e) \cup {it(b, d, m) : d \in S}
  <2>1. x \in SentBy(b, f) <=>
             /\ x = it(x.from, x.to, x.msg)
             /\ \/ x.from = NULL /\ To(x.to, x.msg) \in ToSet(f.direct)
                \/ x.from = b /\ x.to \in Nodes /\ x.msg \in ToSet(f.out[x.to])
    BY Zenon, <1>0, <1>1, SentItem
  <2>2. x \in SentBy(b, e) <=>
             /\ x = it(x.from, x.to, x.msg)
             /\ \/ x.from = NULL /\ To(x.to, x.msg) \in ToSet(e.direct)
                \/ x.from = b /\ x.to \in Nodes /\ x.msg \in ToSet(e.out[x.to])
    BY Zenon, <1>0, <1>1, SentItem
  <2>3. \A d : x = it(b, d, m) => x.from = b /\ x.to = d /\ x.msg = m
    BY DEF it
  <2>8. x \in {it(b, d, m) : d \in S} <=> \E d \in S : x = it(b, d, m)
    OBVIOUS
  <2>9. x \in SentBy(b, f) <=> x \in SentBy(b, e) \/ \E d \in S : x = it(b, d, m)
    <3>1. \A d \in S : d \in Nodes /\ m \in ToSet(f.out[d])
      BY <1>0, <1>3
    <3>2. x.to \in Nodes => (x.msg \in ToSet(f.out[x.to]) <=>
              x.msg \in ToSet(e.out[x.to]) \/ (x.to \in S /\ x.msg = m))
      BY <1>3
    <3>3. f.direct = e.direct
      BY <1>1
    <3>4. ASSUME x \in SentBy(b, f)
          PROVE  x \in SentBy(b, e) \/ \E d \in S : x = it(b, d, m)
      <4>1. CASE x.from = NULL
        BY <1>0, <2>1, <2>2, <3>3, <3>4, <4>1
      <4>2. CASE x.from = b /\ x.msg \in ToSet(e.out[x.to])
        BY <1>0, <2>1, <2>2, <3>4, <4>2
      <4>3. CASE x.from = b /\ x.to \in S /\ x.msg = m
        BY <2>1, <3>4, <4>3
      <4>4. (x.from = b /\ x.to \in Nodes /\ x.msg \in ToSet(f.out[x.to])) \/ x.from = NULL
        BY <2>1, <3>4
      <4> QED
        BY <3>2, <4>1, <4>2, <4>3, <4>4
    <3>5. ASSUME x \in SentBy(b, e)
          PROVE  x \in SentBy(b, f)
      <4>1. CASE x.from = NULL
        BY <1>0, <2>1, <2>2, <3>3, <3>5, <4>1
      <4>2. CASE x.from # NULL
        <5>1. x = it(x.from, x.to, x.msg) /\ x.from = b /\ x.to \in Nodes /\ x.msg \in ToSet(e.out[x.to])
          BY <2>2, <3>5, <4>2
        <5>2. x.msg \in ToSet(f.out[x.to])
          BY <3>2, <5>1
        <5> QED
          BY <2>1, <5>1, <5>2
      <4> QED
        BY <4>1, <4>2
    <3>6. ASSUME NEW d \in S, x = it(b, d, m)
          PROVE  x \in SentBy(b, f)
      <4>1. x.from = b /\ x.to = d /\ x.msg = m
        BY <2>3, <3>6
      <4>2. x.to \in Nodes /\ x.msg \in ToSet(f.out[x.to]) /\ x = it(x.from, x.to, x.msg)
        BY <3>1, <3>6, <4>1
      <4> QED
        BY <2>1, <4>1, <4>2
    <3> QED
      BY Zenon, <3>4, <3>5, <3>6
  <2> QED
    BY <2>8, <2>9
<1> QED
  BY <1>1, <1>3, <1>6 DEF Clean

(* Over a link that is there, one copy.                                    *)
LEMMA OverClean ==
    ASSUME NEW e, NEW f, Clean(e), f \in Effect, NEW b \in Brokers, NEW n \in Brokers,
           NEW m \in Message, m.type # "Update",
           SendsOver(e, f, n, m), n \in NeighbourBrokers(e.st.neighboursMap),
           it(b, n, m) \notin SentBy(b, e)
    PROVE  Clean(f) /\ SentBy(b, f) = SentBy(b, e) \cup {it(b, n, m)} /\ (f.fault <=> e.fault)
<1>1. Posts(e, f, {n}, m) /\ (f.fault <=> e.fault)
  BY DEF SendsOver, Posts
<1>2. Clean(f) /\ SentBy(b, f) = SentBy(b, e) \cup {it(b, d, m) : d \in {n}}
  <2>2. {n} \in SUBSET Brokers
    OBVIOUS
  <2> QED
    BY <1>1, <2>2, PostClean
<1> QED
  BY <1>1, <1>2

-----------------------------------------------------------------------------
(* A report arrives.                                                       *)

(* What a step of a broker has to show.                                    *)
Stepped ==
    /\ Abstractly /\ Placed' /\ conditionTable' = conditionTable /\ ~crashed'
    /\ \A x \in ReportItems' :
          (ReportTrip(x) /\ Reported[origin(x)] # NULL) \/ ReportTrip(x)'
    /\ \A x \in OrderItems' :
          (OrderTrip(x) /\ ToldToAsk[origin(x)] # NULL) \/ OrderTrip(x)'

(* The requests under way stay if no Connect message comes or goes,        *)
LEMMA AsksSame ==
    ASSUME ViewsOK, ViewsOK', NEW G, NEW N, Moving' = (Moving \ G) \cup N,
           \A x \in G \cup N : x.msg.type # "Connect"
    PROVE  Asks' = Asks
<1>1. Asks' = Asks \cup {Asking(x.to, x.msg) : x \in {y \in N : y.msg.type = "Connect"}}
  BY AsksMove
<1>2. {y \in N : y.msg.type = "Connect"} = {}
  OBVIOUS
<1> QED
  BY <1>1, <1>2

(* and the updates if no Update message does.                              *)
LEMMA UnderWaySame ==
    ASSUME ViewsOK, ViewsOK', NEW G, NEW N, Moving' = (Moving \ G) \cup N,
           \A x \in G \cup N : x.msg.type # "Update"
    PROVE  UnderWay' = UnderWay
<1>1. UnderWay' = UnderWay \cup
         {Telling(x.from, x.to, x.msg) : x \in {y \in N : y.msg.type = "Update"}}
  BY UnderWayMove
<1>2. {y \in N : y.msg.type = "Update"} = {}
  OBVIOUS
<1> QED
  BY <1>1, <1>2

(* The broker's data members stay, but for what it has collected.          *)
LEMMA WorkViews ==
    ASSUME NEW H, World(H), IInv', NEW b \in Brokers, NEW a, NEW e, Acts(b, a, e),
           IsWork(a.msg), WellDue(e), SameView(broker[b], e.st), SameConnects(broker[b], e.st)
    PROVE  /\ Rounds' = Rounds /\ TakingPart' = TakingPart /\ BuildsOver' = BuildsOver
           /\ KnownMembers' = KnownMembers /\ LinkedTo' = LinkedTo
           /\ conditionTable' = conditionTable
           /\ Asked' = Asked /\ KeptForLater' = KeptForLater
           /\ \A c \in Brokers : Members(c)' = Members(c) /\ Linked(c)' = Linked(c)
<1>1. IInv /\ QueueOK(now)
  BY WorldHolds DEF World
<1>2. /\ Rounds' = Rounds /\ BuildsOver' = BuildsOver /\ KnownMembers' = KnownMembers
      /\ LinkedTo' = LinkedTo /\ conditionTable' = conditionTable
      /\ Asked' = Asked /\ KeptForLater' = KeptForLater
      /\ e.st.initial = broker[b].initial
      /\ \A c \in Brokers : Members(c)' = Members(c) /\ Linked(c)' = Linked(c)
  BY <1>1, ViewsKept
<1>3. TakingPart' = TakingPart
  BY <1>1, <1>2, WorkKeepsPart
<1> QED
  BY <1>2, <1>3

(* A report is none of the other messages.                                 *)
LEMMA TypeDifferent ==
    ASSUME NEW x, x.msg.type = "MWOE"
    PROVE  /\ x.msg.type # "Connect" /\ x.msg.type # "Update" /\ x.msg.type # "Expand"
           /\ IsWork(x.msg)
BY DEF IsWork

(* A report has gone one step further, or has been collected.              *)
LEMMA ReportPassed ==
    ASSUME NEW H, World(H), IInv', NEW b \in Brokers, NEW a, NEW e, Acts(b, a, e),
           a.msg.type = "MWOE", WellDue(e), SameView(broker[b], e.st),
           SameConnects(broker[b], e.st), ~e.fault, Placed',
           NEW g, g = it(a.from, b, a.msg),
           NEW y, origin(y) = origin(g), y.msg.broker = g.msg.broker, ReportTrip(y),
           ReportItems' = (ReportItems \ {g}) \cup {y}, OrderItems' = OrderItems,
           \A x \in SentBy(b, e) : x.msg.type \notin {"Connect", "Update"}
    PROVE  Stepped
<1>0. IsWork(a.msg) /\ a \in Arrivals(b) /\ IInv /\ Placed /\ g.msg = a.msg
  BY DEF Acts, World, IsWork, it
<1>1. /\ Rounds' = Rounds /\ TakingPart' = TakingPart /\ BuildsOver' = BuildsOver
      /\ KnownMembers' = KnownMembers /\ LinkedTo' = LinkedTo
      /\ conditionTable' = conditionTable
      /\ Asked' = Asked /\ KeptForLater' = KeptForLater
      /\ \A c \in Brokers : Members(c)' = Members(c) /\ Linked(c)' = Linked(c)
  BY <1>0, WorkViews
<1>2. ItemsOK /\ ViewsOK
  BY WorldHolds
<1>3. (ItemsOK /\ ViewsOK)'
  BY ViewsFitNext
<1>4. Moving' = (Moving \ Consumed(b, a)) \cup SentBy(b, e) /\ Consumed(b, a) = {g}
  BY <1>0, ItemsMove, WorkItem
<1>5. Asks' = Asks /\ UnderWay' = UnderWay
  <2>1. \A x \in Consumed(b, a) \cup SentBy(b, e) : x.msg.type # "Connect" /\ x.msg.type # "Update"
    BY <1>0, <1>4
  <2>2. Asks' = Asks
    BY <1>2, <1>3, <1>4, <2>1, AsksSame
  <2>3. UnderWay' = UnderWay
    BY <1>2, <1>3, <1>4, <2>1, UnderWaySame
  <2> QED
    BY <2>2, <2>3
<1>6. g \in ReportItems /\ Reported[origin(g)] = g.msg.broker /\ g.msg.broker # NULL
      /\ origin(g) \in Brokers
  BY <1>0, ReportCame, ReportFacts
<1>7. Reported' = Reported
  <2>1. ASSUME NEW c \in Brokers
        PROVE  Reported'[c] = Reported[c]
    <3>1. ASSUME NEW d \in Brokers
          PROVE  (\E x \in ReportItems' : origin(x) = c /\ x.msg.broker = d)
                    <=> \E x \in ReportItems : origin(x) = c /\ x.msg.broker = d
      BY <1>6
    <3> QED
      BY <1>2, <1>3, <3>1, ReportedSame
  <2> QED
    BY <1>2, <1>3, <2>1, AllReported
<1>8. ToldToAsk' = ToldToAsk
  <2>1. ASSUME NEW c \in Brokers
        PROVE  ToldToAsk'[c] = ToldToAsk[c]
    BY <1>2, <1>3, ToldSame
  <2> QED
    BY <1>2, <1>3, <2>1, AllTold
<1>9. UNCHANGED Fits!fragments
  BY <1>1, <1>5, <1>7, <1>8 DEF Fits!fragments
<1>10. ~crashed'
  BY DEF Acts, End
<1>11. ASSUME NEW x \in ReportItems'
       PROVE  ReportTrip(x) /\ Reported[origin(x)] # NULL
  <2>1. CASE x = y
    BY <1>6, <2>1
  <2>2. CASE x \in ReportItems
    BY <2>2, ReportFacts
  <2> QED
    BY <2>1, <2>2
<1>12. ASSUME NEW x \in OrderItems'
       PROVE  OrderTrip(x) /\ ToldToAsk[origin(x)] # NULL
  <2>1. x \in OrderItems
    OBVIOUS
  <2>2. OrderTrip(x)
    BY <2>1 DEF World, Trips
  <2>3. IsOrder(x)
    BY <1>2, <2>1 DEF ItemsOK
  <2>4. origin(x) \in Brokers /\ x.msg.broker \in Brokers
    BY <2>3 DEF IsOrder
  <2>5. ToldToAsk[origin(x)] = x.msg.broker
    BY <1>2, <2>1, <2>4 DEF ViewsOK
  <2> QED
    BY <2>2, <2>4, <2>5, NodesAssumption
<1> QED
  BY <1>1, <1>9, <1>10, <1>11, <1>12 DEF Stepped, Abstractly

(* A handler begins at broker b with arrival a.                            *)
Starts(e, b, a) == e = Start(b, a)

(* What is known when a report arrives.                                    *)
LEMMA ReportArrives ==
    ASSUME NEW H, World(H), NEW b \in Brokers, NEW a \in Arrivals(b), a.msg.type = "MWOE",
           NEW e, Starts(e, b, a)
    PROVE  /\ Clean(e) /\ e.self = b /\ e.st = broker[b] /\ SentBy(b, e) = {} /\ ~e.fault
           /\ WellDue(e) /\ a.msg \in MWOEMessage /\ a.msg.broker \in Brokers
           /\ a.msg.piggyback \in Seq(Brokers)
           /\ MapOK(broker[b].neighboursMap) /\ Linked(b) \subseteq Brokers \ {b}
           /\ Tidy(broker[b].receivedMWOEs)
           /\ broker[b].receivedMWOEs \in Seq(MWOEMessage)
           /\ broker[b].componentId # b => broker[b].leaderHop \in Linked(b)
<1>1. IInv /\ JoinsOK(H) /\ FragmentsHold /\ IsWork(a.msg) /\ Placed
  BY WorldHolds DEF World, IsWork
<1>2. /\ Clean(e) /\ e.self = b /\ e.st = broker[b] /\ SentBy(b, e) = {} /\ ~e.fault
  BY <1>1, StartClean DEF Starts
<1>3. WellDue(e)
  BY <1>1, StartWell DEF Starts
<1>4. Awake(b)
  BY ReportCame
<1>5. /\ MapOK(broker[b].neighboursMap)
      /\ broker[b].componentId # b => broker[b].leaderHop \in Linked(b)
  BY <1>1, <1>4, AwakeRuns
<1>6. Linked(b) \subseteq Brokers \ {b}
  BY <1>1, <1>4, OwnFacts DEF Linked, NeighbourBrokers
<1>7. it(a.from, b, a.msg) \in ReportItems
  BY ReportCame
<1>8. IsReport(it(a.from, b, a.msg))
  BY <1>7, ReportFacts
<1>9. a.msg \in MWOEMessage /\ a.msg.broker \in Brokers /\ a.msg.piggyback \in Seq(Brokers)
  BY <1>8 DEF IsReport, it
<1>10. Tidy(broker[b].receivedMWOEs)
  BY <1>1 DEF Placed
<1>11. broker[b].receivedMWOEs \in Seq(MWOEMessage)
  BY <1>1 DEF IInv, TypeOK, BrokerState
<1> QED
  BY <1>2, <1>3, <1>5, <1>6, <1>9, <1>10, <1>11

(* A broker puts itself on top of a path.                                  *)
PushedTo(q, b, p) == q = <<b>> \o p

(* The path is a way back from the next broker.                            *)
LEMMA PushedPath ==
    ASSUME NEW b \in Brokers, NEW p \in Seq(Brokers), PathBack(p),
           p # <<>> => Head(p) \in Linked(b), NEW q, PushedTo(q, b, p)
    PROVE  /\ q \in Seq(Brokers) /\ q # <<>> /\ Head(q) = b /\ PathBack(q)
           /\ ToSet(q) = {b} \cup ToSet(p)
           /\ p = <<>> => Last(q) = b
           /\ p # <<>> => Last(q) = Last(p)
<1> PICK o : o = <<b>>
  OBVIOUS
<1>1. o \in Seq(Brokers) /\ ToSet(o) = {b} /\ Len(o) = 1 /\ o[1] = b
  BY OneElement
<1>2. q = o \o p
  BY DEF PushedTo
<1>3. /\ q \in Seq(Brokers) /\ Len(q) = Len(p) + 1 /\ q[1] = b
      /\ \A i \in 1 .. Len(p) : q[i + 1] = p[i]
  BY <1>1, <1>2
<1>4. ToSet(q) = {b} \cup ToSet(p)
  <2>1. ToSet(o \o p) = ToSet(o) \cup ToSet(p)
    BY Zenon, <1>1, ConcatElements
  <2> QED
    BY Zenon, <1>1, <1>2, <2>1
<1>5. Len(p) \in Nat
  OBVIOUS
<1>6. q # <<>> /\ Head(q) = b
  BY <1>3, <1>5
<1>7. PathBack(q)
  <2>1. ASSUME NEW i \in 1 .. Len(q) - 1
        PROVE  q[i + 1] \in Linked(q[i])
    <3>1. CASE i = 1
      <4>1. Len(p) # 0 /\ p # <<>> /\ p[1] = Head(p)
        BY <1>3, <1>5, <3>1
      <4>2. q[1 + 1] = p[1]
        BY <1>3, <1>5, <4>1
      <4> QED
        BY <1>3, <3>1, <4>1, <4>2
    <3>2. CASE i # 1
      <4> PICK j : j = i - 1
        OBVIOUS
      <4>1. j \in 1 .. Len(p) - 1 /\ i = j + 1
        BY <1>3, <1>5, <3>2
      <4>2. p[j + 1] \in Linked(p[j])
        BY <4>1 DEF PathBack
      <4>3. q[i] = p[j] /\ q[i + 1] = p[j + 1]
        BY <1>3, <1>5, <4>1
      <4> QED
        BY <4>2, <4>3
    <3> QED
      BY <3>1, <3>2
  <2> QED
    BY <2>1 DEF PathBack
<1>8. p = <<>> => Last(q) = b
  BY <1>3 DEF Last
<1>9. p # <<>> => Last(q) = Last(p)
  BY <1>3, <1>5 DEF Last
<1> QED
  BY <1>3, <1>4, <1>6, <1>7, <1>8, <1>9

(* A broker that does not lead passes a report on towards the leader.      *)
LEMMA ReportForwarded ==
    ASSUME NEW H, World(H), IInv', NEW b \in Brokers, NEW a \in Arrivals(b), a.msg.type = "MWOE",
           NEW e, Starts(e, b, a), NEW f, Counts(e, f, a.msg), ~isLeader(e), Acts(b, a, f)
    PROVE  Stepped
<1>g. PICK g : g = it(a.from, b, a.msg)
  OBVIOUS
<1>m. PICK m : m = a.msg
  OBVIOUS
<1>h. PICK h : h = broker[b].leaderHop
  OBVIOUS
<1>n. PICK n : n = passOn(m, b)
  OBVIOUS
<1>y. PICK y : y = it(b, h, n)
  OBVIOUS
<1>0. IInv /\ Placed /\ FragmentsHold /\ JoinsOK(H) /\ ItemsOK /\ ViewsOK /\ IsWork(a.msg)
      /\ KernelTypeOK /\ b \in Nodes /\ NULL \notin Brokers /\ NS \notin Brokers
  BY WorldHolds, NodesAssumption DEF World, IsWork, Nodes
<1>1. /\ Clean(e) /\ e.self = b /\ e.st = broker[b] /\ SentBy(b, e) = {} /\ ~e.fault
      /\ WellDue(e) /\ m \in MWOEMessage /\ m.broker \in Brokers
      /\ m.piggyback \in Seq(Brokers)
      /\ MapOK(broker[b].neighboursMap) /\ Linked(b) \subseteq Brokers \ {b}
      /\ Tidy(broker[b].receivedMWOEs)
      /\ broker[b].componentId # b => broker[b].leaderHop \in Linked(b)
  BY <1>m, ReportArrives
<1>2. h \in Linked(b) /\ h \in Brokers /\ h # b
  BY <1>1, <1>h DEF isLeader
<1>3. /\ g \in ReportItems /\ SameSide(b, origin(g))
      /\ m.piggyback # <<>> => Head(m.piggyback) \in Linked(b)
      /\ m.piggyback = <<>> => origin(g) = b
  BY <1>g, <1>m, ReportCame
<1>4. /\ f \in Effect /\ f.self = b /\ f.timers = e.timers
      /\ SameView(broker[b], f.st) /\ SameQueue(broker[b], f.st)
      /\ SameConnects(broker[b], f.st)
      /\ f.st.receivedMWOEs = broker[b].receivedMWOEs /\ SendsOver(e, f, h, n)
  BY <1>1, <1>h, <1>m, <1>n DEF Counts
<1>5. n \in Message /\ n.type = "MWOE" /\ n.broker = m.broker /\ n.delay = m.delay
      /\ n.piggyback = <<b>> \o m.piggyback
  <2>1. n \in Message
    BY <1>1, <1>n, PassOnIs
  <2> QED
    BY <1>n, <2>1 DEF passOn
<1>6. Clean(f) /\ SentBy(b, f) = {y} /\ ~f.fault
  <2>1. h \in NeighbourBrokers(e.st.neighboursMap)
    BY <1>1, <1>2 DEF Linked
  <2>2. n.type # "Update" /\ it(b, h, n) \notin SentBy(b, e)
    BY <1>1, <1>5
  <2>3. Clean(f) /\ SentBy(b, f) = SentBy(b, e) \cup {it(b, h, n)} /\ (f.fault <=> e.fault)
    <3>1. Clean(e) /\ f \in Effect /\ n \in Message /\ SendsOver(e, f, h, n) /\ h \in Brokers
      BY <1>1, <1>2, <1>4, <1>5
    <3> QED
      BY Zenon, <2>1, <2>2, <3>1, OverClean
  <2> QED
    BY <1>1, <1>y, <2>3
<1>7. /\ IsReport(g) /\ ReportTrip(g) /\ Reported[origin(g)] = g.msg.broker
      /\ origin(g) \in Brokers
      /\ \A z \in side(g) : z \in Brokers /\ SameSide(z, origin(g))
  BY <1>3, ReportFacts
<1>8. g.from = a.from /\ g.to = b /\ g.msg = m /\ y.from = b /\ y.to = h /\ y.msg = n
  BY <1>g, <1>m, <1>y DEF it
<1>9. PathBack(m.piggyback) /\ m.delay = conditionTable[origin(g)][m.broker]
      /\ \A z \in ToSet(m.piggyback) : SameSide(z, origin(g))
  BY <1>7, <1>8 DEF ReportTrip, side
<1>10. /\ n.piggyback \in Seq(Brokers) /\ n.piggyback # <<>> /\ Head(n.piggyback) = b
       /\ PathBack(n.piggyback) /\ ToSet(n.piggyback) = {b} \cup ToSet(m.piggyback)
       /\ m.piggyback = <<>> => Last(n.piggyback) = b
       /\ m.piggyback # <<>> => Last(n.piggyback) = Last(m.piggyback)
  <2>p. PICK p : p = m.piggyback
    OBVIOUS
  <2>q. PICK q : q = n.piggyback
    OBVIOUS
  <2>1. p \in Seq(Brokers) /\ PathBack(p) /\ (p # <<>> => Head(p) \in Linked(b)) /\ PushedTo(q, b, p)
    BY <1>1, <1>3, <1>5, <1>9, <2>p, <2>q DEF PushedTo
  <2>2. /\ q \in Seq(Brokers) /\ q # <<>> /\ Head(q) = b
        /\ PathBack(q) /\ ToSet(q) = {b} \cup ToSet(p)
        /\ p = <<>> => Last(q) = b
        /\ p # <<>> => Last(q) = Last(p)
    BY Zenon, <2>1, PushedPath
  <2> QED
    BY <2>2, <2>p, <2>q
<1>11. origin(y) = origin(g)
  BY <1>3, <1>8, <1>10 DEF origin, Destination
<1>12. Shaped(y)
  BY <1>1, <1>2, <1>5, <1>8, <1>10 DEF Shaped
<1>13. ReportTrip(y)
  <2>1. \A z \in side(y) : SameSide(z, origin(y))
    <3>1. side(y) = {b} \cup ToSet(m.piggyback) \cup {origin(g)}
      BY <1>0, <1>8, <1>10, <1>11 DEF side
    <3>2. SameSide(origin(g), origin(g))
      BY <1>7 DEF side
    <3> QED
      BY <1>3, <1>9, <1>11, <3>1, <3>2
  <2>2. n.delay = conditionTable[origin(y)][n.broker]
    BY <1>5, <1>9, <1>11
  <2>3. y.from # NS
    BY <1>0, <1>8
  <2> QED
    BY <1>2, <1>8, <1>10, <2>1, <2>2, <2>3 DEF ReportTrip
<1>14. y \notin ReportItems /\ y \notin Moving
  <2>1. y \in ReportItems => y = g
    BY <1>0, <1>3, <1>11 DEF Placed, Unique
  <2>2. y # g
    BY <1>2, <1>8
  <2>3. y \in Moving => y \in ReportItems
    BY <1>5, <1>8 DEF ReportItems
  <2> QED
    BY <2>1, <2>2, <2>3
<1>15. ReportItems' = (ReportItems \ {g}) \cup {y} /\ OrderItems' = OrderItems
  <2>1. Sent(b, f, "MWOE") = {y} /\ Sent(b, f, "Expand") = {}
    BY <1>5, <1>6, <1>8 DEF Sent
  <2>2. ReportItems' = (ReportItems \ {g}) \cup {y}
    BY <1>0, <1>4, <1>g, <2>1, ReportsMoveSame
  <2>3. OrderItems' = OrderItems \ {g}
    <3>1. OrderItems' = (OrderItems \ {g}) \cup Sent(b, f, "Expand")
      BY <1>0, <1>g, OrdersMove
    <3> QED
      BY <2>1, <3>1
  <2>4. g \notin OrderItems
    BY <1>8, <1>m DEF OrderItems
  <2> QED
    BY <2>2, <2>3, <2>4
<1>16. Unique(ReportItems') /\ Unique(OrderItems')
  <2>1. \A z \in ReportItems \ {g} : origin(z) # origin(y)
    BY <1>0, <1>3, <1>11 DEF Placed, Unique
  <2>2. Unique(ReportItems')
    <3>1. Unique(ReportItems) /\ ReportItems' \subseteq (ReportItems \ {g}) \cup {y}
      BY <1>0, <1>15 DEF Placed
    <3> QED
      BY <2>1, <3>1 DEF Unique
  <2> QED
    BY <1>0, <1>15, <2>2 DEF Placed
<1>17. Placed'
  <2>1. \A x \in SentBy(b, f) : x \notin Moving /\ Shaped(x) /\ x.msg.type = "MWOE"
    BY <1>5, <1>6, <1>8, <1>12, <1>14
  <2>2. \A x \in SentBy(b, f) : x.msg.type # "Update"
    BY <2>1
  <2>3. Distinct(f.direct) /\ NeatOut(f.out)
    BY <1>6 DEF Clean
  <2>4. Tidy(f.st.receivedMWOEs)
    BY <1>1, <1>4
  <2> QED
    BY <1>16, <2>1, <2>2, <2>3, <2>4, PlacedStep
<1>18. WellDue(f)
  <2>1. f.direct = e.direct
    BY <1>4 DEF SendsOver
  <2> QED
    BY <1>1, <2>1 DEF WellDue
<1>19. \A x \in SentBy(b, f) : x.msg.type \notin {"Connect", "Update"}
  BY <1>5, <1>6, <1>8
<1> QED
  BY <1>4, <1>5, <1>6, <1>8, <1>11, <1>13, <1>15, <1>17, <1>18, <1>19, <1>g, ReportPassed

(* A handler that sends nothing more.                                      *)
LEMMA NothingMore ==
    ASSUME NEW e, NEW f, Clean(e), f \in Effect, SendsNothing(e, f), NEW b
    PROVE  Clean(f) /\ SentBy(b, f) = SentBy(b, e) /\ (f.fault <=> e.fault)
<1>1. f.direct = e.direct /\ f.out = e.out /\ (f.fault <=> e.fault)
  BY DEF SendsNothing
<1>2. Clean(f)
  BY <1>1 DEF Clean
<1>3. SentBy(b, f) = SentBy(b, e)
  BY <1>1 DEF SentBy
<1> QED
  BY <1>1, <1>2, <1>3

(* A report that a leader has collected.                                   *)
LEMMA CollectedFacts ==
    ASSUME NEW H, World(H), NEW b \in Brokers, NEW k \in ToSet(broker[b].receivedMWOEs),
           NEW x, x = it(NS, b, k)
    PROVE  /\ x \in ReportItems /\ x.from = NS /\ x.to = b /\ x.msg = k
           /\ k \in MWOEMessage /\ k.type = "MWOE" /\ k.broker \in Brokers
           /\ k.piggyback \in Seq(Brokers)
           /\ origin(x) \in Brokers /\ origin(x) = Destination(b, k)
           /\ ReportTrip(x) /\ Reported[origin(x)] = k.broker
           /\ Members(origin(x)) = Members(b) /\ Awake(origin(x)) /\ Awake(b)
           /\ SameSide(b, origin(x))
<1>1. x \in Collected /\ x.from = NS /\ x.to = b /\ x.msg = k
  BY CollectedIs DEF it
<1>2. x \in ReportItems
  BY <1>1 DEF ReportItems
<1>3. /\ IsReport(x) /\ ReportTrip(x) /\ Reported[origin(x)] = x.msg.broker
      /\ origin(x) \in Brokers /\ Awake(origin(x))
      /\ \A y \in side(x) : y \in Brokers /\ SameSide(y, origin(x)) /\ Awake(y)
                            /\ Members(y) = Members(origin(x))
  BY <1>2, ReportFacts
<1>4. b \in side(x)
  BY <1>1 DEF side
<1> QED
  BY <1>1, <1>2, <1>3, <1>4 DEF IsReport, origin

(* The leader's own list of reports, with the one that has arrived.        *)
LEMMA OneMoreReport ==
    ASSUME NEW H, World(H), NEW b \in Brokers, NEW a \in Arrivals(b), a.msg.type = "MWOE",
           NEW qs, qs = Append(broker[b].receivedMWOEs, a.msg)
    PROVE  /\ Tidy(qs) /\ qs \in Seq(MWOEMessage)
           /\ ToSet(qs) = ToSet(broker[b].receivedMWOEs) \cup {a.msg}
           /\ Len(qs) = Len(broker[b].receivedMWOEs) + 1
           /\ \A k \in ToSet(broker[b].receivedMWOEs) :
                 k # a.msg /\ Destination(b, k) # Destination(b, a.msg)
<1>g. PICK g : g = it(a.from, b, a.msg)
  OBVIOUS
<1>s. PICK ms : ms = broker[b].receivedMWOEs
  OBVIOUS
<1>m. PICK m : m = a.msg
  OBVIOUS
<1>0. IsWork(a.msg) /\ Placed
  BY DEF IsWork, World
<1>1. /\ m \in MWOEMessage /\ m.broker \in Brokers /\ Tidy(ms) /\ ms \in Seq(MWOEMessage)
  <2>1. PICK e : Starts(e, b, a)
    BY DEF Starts
  <2> QED
    BY <1>m, <1>s, <2>1, ReportArrives
<1>2. g \in ReportItems /\ g.from = a.from /\ g.to = b /\ g.msg = m /\ a.from # NS
  BY <1>0, <1>g, <1>m, ReportCame, WorkItem DEF it
<1>3. ASSUME NEW k \in ToSet(ms)
      PROVE  k # m /\ Destination(b, k) # Destination(b, m)
  <2>x. PICK x : x = it(NS, b, k)
    OBVIOUS
  <2>1. x \in ReportItems /\ x.from = NS /\ origin(x) = Destination(b, k)
    BY <1>s, <2>x, CollectedFacts
  <2>2. x # g
    BY <1>2, <2>1
  <2>3. origin(x) # origin(g)
    BY <1>0, <1>2, <2>1, <2>2 DEF Placed, Unique
  <2>4. origin(g) = Destination(b, m)
    BY <1>2 DEF origin
  <2> QED
    BY <2>1, <2>3, <2>4
<1>4. m \notin ToSet(ms)
  BY <1>3
<1>5. /\ Append(ms, m) \in Seq(MWOEMessage)
      /\ ToSet(Append(ms, m)) = ToSet(ms) \cup {m}
      /\ Distinct(Append(ms, m))
  BY <1>1, <1>4, AppendElements DEF Tidy
<1>6. ReportsNamed(Append(ms, m)) /\ Len(Append(ms, m)) = Len(ms) + 1
  <2>1. NULL \notin Brokers
    BY NodesAssumption
  <2> QED
    BY <1>1, <2>1 DEF Tidy, ReportsNamed
<1>7. qs = Append(ms, m)
  BY <1>m, <1>s
<1>8. Tidy(qs) /\ qs \in Seq(MWOEMessage) /\ ToSet(qs) = ToSet(ms) \cup {m} /\ Len(qs) = Len(ms) + 1
  BY Zenon, <1>5, <1>6, <1>7 DEF Tidy
<1> QED
  BY <1>3, <1>8, <1>m, <1>s

(* The leader counts a report and waits for more.                          *)
LEMMA ReportCollected ==
    ASSUME NEW H, World(H), IInv', NEW b \in Brokers, NEW a \in Arrivals(b), a.msg.type = "MWOE",
           NEW e, Starts(e, b, a), NEW f, Counts(e, f, a.msg), isLeader(e),
           Len(e.st.receivedMWOEs) + 1 # Cardinality(e.st.members), Acts(b, a, f)
    PROVE  Stepped
<1>g. PICK g : g = it(a.from, b, a.msg)
  OBVIOUS
<1>m. PICK m : m = a.msg
  OBVIOUS
<1>s. PICK ms : ms = broker[b].receivedMWOEs
  OBVIOUS
<1>q. PICK qs : qs = Append(broker[b].receivedMWOEs, a.msg)
  OBVIOUS
<1>y. PICK y : y = it(NS, b, m)
  OBVIOUS
<1>0. IInv /\ Placed /\ IsWork(a.msg)
  BY DEF World, IsWork
<1>1. /\ Clean(e) /\ e.self = b /\ e.st = broker[b] /\ SentBy(b, e) = {} /\ ~e.fault
      /\ WellDue(e)
  BY ReportArrives
<1>2. /\ Tidy(qs) /\ ToSet(qs) = ToSet(ms) \cup {m}
  BY <1>q, <1>m, <1>s, OneMoreReport
<1>3. /\ g \in ReportItems /\ SameSide(b, origin(g))
      /\ m.piggyback # <<>> => Head(m.piggyback) \in Linked(b)
  BY <1>g, <1>m, ReportCame
<1>4. /\ f \in Effect /\ SameView(broker[b], f.st) /\ SameConnects(broker[b], f.st)
      /\ f.st.receivedMWOEs = qs /\ SendsNothing(e, f)
  BY <1>1, <1>q DEF Counts
<1>5. Clean(f) /\ SentBy(b, f) = {} /\ ~f.fault
  BY <1>1, <1>4, NothingMore
<1>6. g.from = a.from /\ g.to = b /\ g.msg = m /\ y.from = NS /\ y.to = b /\ y.msg = m /\ a.from # NS
      /\ m.type = "MWOE"
  BY <1>0, <1>g, <1>m, <1>y, WorkItem DEF it
<1>7. origin(y) = origin(g)
  BY <1>6 DEF origin
<1>8. /\ IsReport(g) /\ ReportTrip(g)
      /\ \A z \in side(g) : z \in Brokers /\ SameSide(z, origin(g))
  BY <1>3, ReportFacts
<1>9. ReportTrip(y)
  <2>1. side(y) = ToSet(m.piggyback) \cup {origin(g)} \cup {b}
    BY <1>6, <1>7 DEF side
  <2>2. \A z \in ToSet(m.piggyback) \cup {origin(g)} : SameSide(z, origin(g))
    BY <1>6, <1>8 DEF side
  <2>3. \A z \in side(y) : SameSide(z, origin(y))
    BY <1>3, <1>7, <2>1, <2>2
  <2>4. y.from \notin Brokers
    BY <1>6, NodesAssumption
  <2>5. PathBack(m.piggyback) /\ m.delay = conditionTable[origin(g)][m.broker]
    BY <1>6, <1>8 DEF ReportTrip
  <2> QED
    BY <1>3, <1>6, <1>7, <2>3, <2>4, <2>5 DEF ReportTrip
<1>10. Sent(b, f, "MWOE") = {} /\ Sent(b, f, "Expand") = {}
  BY <1>5 DEF Sent
<1>11. ReportItems' = (ReportItems \ {g}) \cup {y}
  <2>1. ASSUME NEW x
        PROVE  x \in ReportItems' <=> x \in (ReportItems \ {g}) \cup {y}
    <3>1. x \in ReportItems' <=>
              \/ x \in ReportItems /\ x # g /\ (x.from = NS => x.to # b)
              \/ x \in Sent(b, f, "MWOE")
              \/ \E k \in ToSet(f.st.receivedMWOEs) : x = it(NS, b, k)
      BY <1>0, <1>g, ReportsMove
    <3>2. (\E k \in ToSet(qs) : x = it(NS, b, k))
            <=> x = y \/ \E k \in ToSet(ms) : x = it(NS, b, k)
      BY <1>2, <1>y
    <3>3. (\E k \in ToSet(ms) : x = it(NS, b, k))
            <=> x \in ReportItems /\ x.from = NS /\ x.to = b
      <4>1. ASSUME NEW k \in ToSet(ms), x = it(NS, b, k)
            PROVE  x \in ReportItems /\ x.from = NS /\ x.to = b
        BY <1>s, <4>1, CollectedFacts
      <4>2. ASSUME x \in ReportItems, x.from = NS, x.to = b
            PROVE  \E k \in ToSet(ms) : x = it(NS, b, k)
        <5>1. x \in Collected
          BY <4>2, WorldHolds DEF ItemsOK
        <5> QED
          BY <1>s, <4>2, <5>1, CollectedShape
      <4> QED
        BY <4>1, <4>2
    <3>4. x.from = NS /\ x.to = b => x # g
      BY <1>6
    <3> QED
      BY <1>4, <1>10, <3>1, <3>2, <3>3, <3>4
  <2> QED
    BY <2>1
<1>12. OrderItems' = OrderItems
  <2>1. OrderItems' = (OrderItems \ {g}) \cup Sent(b, f, "Expand")
    BY <1>0, <1>g, OrdersMove
  <2>2. g \notin OrderItems
    BY <1>6 DEF OrderItems
  <2> QED
    BY <1>10, <2>1, <2>2
<1>13. Unique(ReportItems') /\ Unique(OrderItems')
  <2>1. \A z \in ReportItems \ {g} : origin(z) # origin(y)
    BY <1>0, <1>3, <1>7 DEF Placed, Unique
  <2>2. Unique(ReportItems')
    BY <1>0, <1>11, <2>1 DEF Unique, Placed
  <2> QED
    BY <1>0, <1>12, <2>2 DEF Placed
<1>14. Placed'
  <2>1. Distinct(f.direct) /\ NeatOut(f.out)
    BY <1>5 DEF Clean
  <2> QED
    BY <1>2, <1>4, <1>5, <1>13, <2>1, PlacedStep
<1>15. WellDue(f)
  BY <1>1, <1>4 DEF SendsNothing, WellDue
<1>16. y.msg.broker = g.msg.broker
  BY <1>6
<1> QED
  BY <1>4, <1>5, <1>7, <1>9, <1>11, <1>12, <1>14, <1>15, <1>16, <1>g, ReportPassed

(* What is known of any report in that list.                               *)
LEMMA ListedFacts ==
    ASSUME NEW H, World(H), NEW b \in Brokers, NEW a \in Arrivals(b), a.msg.type = "MWOE",
           NEW k \in ToSet(broker[b].receivedMWOEs) \cup {a.msg},
           NEW o, o = Destination(b, k)
    PROVE  /\ o \in Brokers /\ o \in Members(b) /\ Awake(o) /\ Members(o) = Members(b)
           /\ k \in MWOEMessage /\ k.broker \in Brokers /\ k.piggyback \in Seq(Brokers)
           /\ Reported[o] = k.broker /\ k.delay = conditionTable[o][k.broker]
           /\ PathBack(k.piggyback) /\ ToSet(k.piggyback) \subseteq Members(b)
           /\ k.piggyback # <<>> => Head(k.piggyback) \in Linked(b)
<1>0. FragmentsHold /\ IsWork(a.msg)
  BY WorldHolds DEF IsWork
<1>1. \E x \in ReportItems :
         /\ x.to = b /\ x.msg = k /\ Members(origin(x)) = Members(b)
         /\ k.piggyback # <<>> => Head(k.piggyback) \in Linked(b)
  <2>1. CASE k = a.msg
    <3>g. PICK g : g = it(a.from, b, a.msg)
      OBVIOUS
    <3>1. g \in ReportItems /\ g.to = b /\ g.msg = k
      BY <1>0, <2>1, <3>g, ReportCame DEF it
    <3>2. Members(b) = Members(origin(g))
      BY <3>g, ReportCame
    <3>3. k.piggyback # <<>> => Head(k.piggyback) \in Linked(b)
      BY <2>1, ReportCame
    <3> QED
      BY <3>1, <3>2, <3>3
  <2>2. CASE k \in ToSet(broker[b].receivedMWOEs)
    <3>x. PICK x : x = it(NS, b, k)
      OBVIOUS
    <3>1. x \in ReportItems /\ x.from = NS /\ x.to = b /\ x.msg = k /\ ReportTrip(x)
          /\ Members(origin(x)) = Members(b)
      BY <2>2, <3>x, CollectedFacts
    <3>2. k.piggyback # <<>> => Head(k.piggyback) \in Linked(b)
      BY <3>1 DEF ReportTrip
    <3> QED
      BY <3>1, <3>2
  <2> QED
    BY <2>1, <2>2
<1> PICK x \in ReportItems : /\ x.to = b /\ x.msg = k /\ Members(origin(x)) = Members(b)
                             /\ k.piggyback # <<>> => Head(k.piggyback) \in Linked(b)
  BY <1>1
<1>2. origin(x) = o
  BY DEF origin
<1>3. /\ IsReport(x) /\ ReportTrip(x) /\ Reported[o] = k.broker
      /\ o \in Brokers /\ Awake(o)
      /\ \A y \in side(x) : y \in Brokers /\ Awake(y) /\ Members(y) = Members(o)
  BY <1>2, ReportFacts
<1>4. k \in MWOEMessage /\ k.broker \in Brokers /\ k.piggyback \in Seq(Brokers)
  BY <1>3 DEF IsReport
<1>5. k.delay = conditionTable[o][k.broker] /\ PathBack(k.piggyback)
  BY <1>2, <1>3 DEF ReportTrip
<1>6. \A y \in side(x) : y \in Members(b)
  BY <1>0, <1>2, <1>3, OwnFacts
<1>7. o \in side(x) /\ ToSet(k.piggyback) \subseteq side(x)
  BY <1>2 DEF side
<1> QED
  BY <1>2, <1>3, <1>4, <1>5, <1>6, <1>7

(* When the list is as long as the fragment is large, all have reported.   *)
LEMMA AllInList ==
    ASSUME NEW H, World(H), NEW b \in Brokers, NEW a \in Arrivals(b), a.msg.type = "MWOE",
           Len(broker[b].receivedMWOEs) + 1 = Cardinality(Members(b)),
           NEW c \in Members(b)
    PROVE  \E k \in ToSet(broker[b].receivedMWOEs) \cup {a.msg} : Destination(b, k) = c
<1>s. PICK ms : ms = broker[b].receivedMWOEs
  OBVIOUS
<1>m. PICK m : m = a.msg
  OBVIOUS
<1>q. PICK qs : qs = Append(broker[b].receivedMWOEs, a.msg)
  OBVIOUS
<1>1. /\ Tidy(qs) /\ qs \in Seq(MWOEMessage) /\ ToSet(qs) = ToSet(ms) \cup {m}
      /\ Len(qs) = Len(ms) + 1
      /\ \A k \in ToSet(ms) : k # m /\ Destination(b, k) # Destination(b, m)
  BY <1>m, <1>q, <1>s, OneMoreReport
<1>2. \A k \in ToSet(qs) : Destination(b, k) \in Members(b) /\ Destination(b, k) \in Brokers
  BY <1>1, <1>m, <1>s, ListedFacts
<1>3. ASSUME NEW k \in ToSet(qs), NEW j \in ToSet(qs), Destination(b, k) = Destination(b, j)
      PROVE  k = j
  <2>1. ASSUME k \in ToSet(ms), j \in ToSet(ms)
        PROVE  k = j
    <3>x. PICK x : x = it(NS, b, k)
      OBVIOUS
    <3>y. PICK y : y = it(NS, b, j)
      OBVIOUS
    <3>1. x \in ReportItems /\ x.msg = k /\ origin(x) = Destination(b, k)
      BY <1>s, <2>1, <3>x, CollectedFacts
    <3>2. y \in ReportItems /\ y.msg = j /\ origin(y) = Destination(b, j)
      BY <1>s, <2>1, <3>y, CollectedFacts
    <3>3. Unique(ReportItems)
      BY DEF World, Placed
    <3>4. x = y
      BY <1>3, <3>1, <3>2, <3>3 DEF Unique
    <3> QED
      BY <3>1, <3>2, <3>4
  <2> QED
    BY <1>1, <1>3, <2>1
<1>o. PICK os : os = [i \in 1 .. Len(qs) |-> Destination(b, qs[i])]
  OBVIOUS
<1>4. Len(qs) \in Nat /\ DOMAIN qs = 1 .. Len(qs) /\ \A i \in DOMAIN qs : qs[i] \in ToSet(qs)
  BY <1>1, ElementsType
<1>5. os \in Seq(Brokers) /\ Len(os) = Len(qs) /\ DOMAIN os = 1 .. Len(qs)
  BY <1>2, <1>4, <1>o
<1>6. Distinct(os)
  <2>1. ASSUME NEW i \in DOMAIN os, NEW j \in DOMAIN os, os[i] = os[j]
        PROVE  i = j
    <3>1. qs[i] \in ToSet(qs) /\ qs[j] \in ToSet(qs) /\ i \in DOMAIN qs /\ j \in DOMAIN qs
      BY <1>4, <1>5
    <3>2. Destination(b, qs[i]) = Destination(b, qs[j])
      BY <1>4, <1>5, <1>o, <2>1
    <3>3. qs[i] = qs[j]
      BY <1>3, <3>1, <3>2
    <3> QED
      BY <1>1, <3>1, <3>3 DEF Tidy, Distinct
  <2> QED
    BY <2>1 DEF Distinct
<1>7. Cardinality(ToSet(os)) = Len(os)
  BY <1>5, <1>6, DistinctLength
<1>8. ToSet(os) \subseteq Members(b)
  <2>1. \A i \in DOMAIN os : os[i] \in Members(b)
    BY <1>2, <1>4, <1>5, <1>o
  <2> QED
    BY <2>1 DEF ToSet
<1>9. IsFiniteSet(Members(b)) /\ Members(b) \subseteq Brokers
  <2>1. Members(b) \subseteq Brokers
    BY WorldHolds DEF TypeOK, BrokerState, Members
  <2> QED
    BY <2>1, FiniteAssumption, FS_Subset
<1>10. ToSet(os) = Members(b)
  BY <1>1, <1>5, <1>7, <1>8, <1>9, <1>s, FS_Subset
<1>11. PICK i \in DOMAIN os : os[i] = c
  BY <1>10 DEF ToSet
<1>12. qs[i] \in ToSet(qs) /\ Destination(b, qs[i]) = c
  BY <1>4, <1>5, <1>11, <1>o
<1> QED
  BY <1>1, <1>12, <1>m, <1>s

(* The path back without its first step.                                   *)
LEMMA PathTail ==
    ASSUME NEW p \in Seq(Brokers), p # <<>>, PathBack(p), NEW q, q = Tail(p)
    PROVE  /\ q \in Seq(Brokers) /\ PathBack(q) /\ ToSet(q) \cup {Head(p)} \subseteq ToSet(p)
           /\ Head(p) \in Brokers
           /\ q # <<>> => Head(q) \in Linked(Head(p))
           /\ q = <<>> => Last(p) = Head(p)
           /\ q # <<>> => Last(q) = Last(p)
<1>1. /\ q \in Seq(Brokers) /\ Head(p) \in ToSet(p) /\ Head(p) = p[1]
      /\ Len(q) = Len(p) - 1 /\ \A i \in 1 .. Len(p) - 1 : q[i] = p[i + 1]
      /\ ToSet(q) \subseteq ToSet(p)
  BY TailElements
<1>2. Len(p) \in Nat \ {0} /\ Head(p) \in Brokers
  OBVIOUS
<1>3. PathBack(q)
  <2>1. ASSUME NEW i \in 1 .. Len(q) - 1
        PROVE  q[i + 1] \in Linked(q[i])
    <3>1. i \in 1 .. Len(p) - 1 /\ i + 1 \in 1 .. Len(p) - 1
      BY <1>1, <1>2
    <3>2. q[i] = p[i + 1] /\ q[i + 1] = p[(i + 1) + 1]
      BY <1>1, <3>1
    <3>3. p[(i + 1) + 1] \in Linked(p[i + 1])
      BY <3>1 DEF PathBack
    <3> QED
      BY <3>2, <3>3
  <2> QED
    BY <2>1 DEF PathBack
<1>4. ASSUME q # <<>>
      PROVE  Head(q) \in Linked(Head(p)) /\ Last(q) = Last(p)
  <2>1. Len(q) \in Nat \ {0}
    BY <1>1, <1>4
  <2>2. 1 \in 1 .. Len(p) - 1
    BY <1>1, <1>2, <2>1
  <2>3. Head(q) = p[1 + 1] /\ p[1 + 1] \in Linked(p[1])
    BY <1>1, <1>4, <2>2 DEF PathBack
  <2>4. Len(q) \in 1 .. Len(p) - 1 /\ Len(q) + 1 = Len(p)
    BY <1>1, <1>2, <2>1
  <2>5. q[Len(q)] = p[Len(p)]
    BY <1>1, <2>4
  <2> QED
    BY <1>1, <2>3, <2>5 DEF Last
<1>5. q = <<>> => Last(p) = Head(p)
  <2>1. q = <<>> => Len(p) = 1
    BY <1>1, <1>2
  <2> QED
    BY <1>1, <2>1 DEF Last
<1> QED
  BY <1>1, <1>2, <1>3, <1>4, <1>5

(* An order on its way back.                                               *)
Ordered1(y, b, o, c) ==
    /\ origin(y) = o /\ y = it(y.from, y.to, y.msg)
    /\ y.msg \in ExpandMessage /\ y.msg \in Message
    /\ y.msg.type = "Expand" /\ y.msg.broker = c
    /\ y.from \in {NULL, b} /\ Shaped(y) /\ y.to \in Brokers
    /\ ToSet(y.msg.piggyback) \cup {y.to} \subseteq Members(o)
    /\ PathBack(y.msg.piggyback)
    /\ y.msg.piggyback # <<>> => Head(y.msg.piggyback) \in Linked(y.to)

(* The order goes to the next broker of the path, or is due here.          *)
LEMMA OrderSent ==
    ASSUME NEW b \in Brokers, NEW e, Clean(e), e.self = b, SentBy(b, e) = {}, ~e.fault, WellDue(e),
           e.st = broker[b], NEW f \in Effect, NEW k, Orders(e, f, k),
           NEW o, o = Destination(b, k), NEW c \in Brokers, c = k.broker,
           k.piggyback \in Seq(Brokers), PathBack(k.piggyback),
           o \in Members(b), b \in Members(b), Members(o) = Members(b),
           ToSet(k.piggyback) \subseteq Members(b),
           k.piggyback # <<>> => Head(k.piggyback) \in Linked(b)
    PROVE  /\ Clean(f) /\ ~f.fault /\ WellDue(f)
           /\ \E y : SentBy(b, f) = {y} /\ Ordered1(y, b, o, c)
<1>0. b \in Nodes /\ NULL \notin Brokers
  BY NodesAssumption DEF Nodes
<1>p. PICK p : p = k.piggyback
  OBVIOUS
<1>1. p \in Seq(Brokers) /\ PathBack(p)
  BY <1>p
<1>2. CASE p = <<>>
  <2>m. PICK m : m = orderOf(c, p)
    OBVIOUS
  <2>y. PICK y : y = it(NULL, b, m)
    OBVIOUS
  <2>1. m \in ExpandMessage /\ m \in Message /\ m.type = "Expand" /\ m.broker = c /\ m.piggyback = p
    <3>1. m \in ExpandMessage /\ m \in Message
      BY <1>1, <2>m, OrderIs
    <3> QED
      BY <2>m, <3>1 DEF orderOf
  <2>2. SendsNow(e, f, b, m)
    BY <1>2, <1>p, <2>m DEF Orders
  <2>3. Clean(f) /\ SentBy(b, f) = {y}
    <3>1. it(NULL, b, m) \notin SentBy(b, e)
      OBVIOUS
    <3>2. Clean(f) /\ SentBy(b, f) = SentBy(b, e) \cup {it(NULL, b, m)}
      <4>1. b \in Nodes /\ m \in Message /\ SendsNow(e, f, b, m)
        BY <1>0, <2>1, <2>2
      <4> QED
        BY <3>1, <4>1, NowClean
    <3> QED
      BY <2>y, <3>2
  <2>4. ~f.fault
    BY <2>2 DEF SendsNow
  <2>5. Quick(To(b, m))
    BY <2>1 DEF Quick, Named, To
  <2>6. WellDue(f)
    <3>1. e \in Effect
      BY DEF Clean
    <3> QED
      BY <2>1, <2>2, <2>5, <3>1, SentNowWell
  <2>7. o = b
    BY <1>2, <1>p DEF Destination
  <2>8. y.from = NULL /\ y.to = b /\ y.msg = m /\ y = it(y.from, y.to, y.msg)
    BY <2>y DEF it
  <2>9. ToSet(p) = {} /\ PathBack(p)
    BY <1>1, <1>2, NoElements
  <2>10. origin(y) = o
    BY <1>2, <2>1, <2>7, <2>8 DEF origin, Destination
  <2>11. Shaped(y)
    BY <1>2, <2>1, <2>8 DEF Shaped
  <2>13. ToSet(p) \cup {b} \subseteq Members(o) /\ PathBack(p) /\ ~(p # <<>>)
    BY <1>2, <2>9
  <2>12. Ordered1(y, b, o, c)
    BY <2>1, <2>8, <2>10, <2>11, <2>13 DEF Ordered1
  <2> QED
    BY <2>3, <2>4, <2>6, <2>12
<1>3. CASE p # <<>>
  <2>q. PICK q : q = Tail(p)
    OBVIOUS
  <2>h. PICK h : h = Head(p)
    OBVIOUS
  <2>m. PICK m : m = orderOf(c, q)
    OBVIOUS
  <2>y. PICK y : y = it(b, h, m)
    OBVIOUS
  <2>0. /\ q \in Seq(Brokers) /\ PathBack(q) /\ ToSet(q) \cup {h} \subseteq ToSet(p)
        /\ h \in Brokers
        /\ q # <<>> => Head(q) \in Linked(h)
        /\ q = <<>> => Last(p) = h
        /\ q # <<>> => Last(q) = Last(p)
    BY <1>1, <1>3, <2>q, <2>h, PathTail
  <2>1. m \in ExpandMessage /\ m \in Message /\ m.type = "Expand" /\ m.broker = c /\ m.piggyback = q
    <3>1. m \in ExpandMessage /\ m \in Message
      BY <2>0, <2>m, OrderIs
    <3> QED
      BY <2>m, <3>1 DEF orderOf
  <2>2. SendsOver(e, f, h, m)
    BY <1>3, <1>p, <2>m, <2>q, <2>h DEF Orders
  <2>3. Clean(f) /\ SentBy(b, f) = {y} /\ ~f.fault
    <3>1. it(b, h, m) \notin SentBy(b, e)
      OBVIOUS
    <3>2. h \in NeighbourBrokers(e.st.neighboursMap)
      BY <1>3, <1>p, <2>h DEF Linked
    <3>3. m.type # "Update"
      BY <2>1
    <3>4. Clean(f) /\ SentBy(b, f) = SentBy(b, e) \cup {it(b, h, m)} /\ (f.fault <=> e.fault)
      BY Zenon, <2>0, <2>1, <2>2, <3>1, <3>2, <3>3, OverClean
    <3> QED
      BY <2>y, <3>4
  <2>6. WellDue(f)
    BY <2>2 DEF SendsOver, WellDue
  <2>7. o = Last(p)
    BY <1>3, <1>p DEF Destination
  <2>8. y.from = b /\ y.to = h /\ y.msg = m /\ y = it(y.from, y.to, y.msg)
    BY <2>y DEF it
  <2>10. origin(y) = o
    BY <2>0, <2>1, <2>7, <2>8 DEF origin, Destination
  <2>11. Shaped(y)
    BY <1>0, <2>0, <2>1, <2>8 DEF Shaped
  <2>12. ToSet(q) \cup {h} \subseteq Members(o)
    BY <1>p, <2>0
  <2>13. Ordered1(y, b, o, c)
    BY <2>0, <2>1, <2>8, <2>10, <2>11, <2>12 DEF Ordered1
  <2> QED
    BY <2>3, <2>6, <2>13
<1> QED
  BY <1>2, <1>3

(* The best of the reports, when all have come.                            *)
LEMMA BestReport ==
    ASSUME NEW H, World(H), NEW b \in Brokers, NEW a \in Arrivals(b), a.msg.type = "MWOE",
           NEW e, Starts(e, b, a), NEW f, Counts(e, f, a.msg), isLeader(e),
           Len(e.st.receivedMWOEs) + 1 = Cardinality(e.st.members)
    PROVE  \E k \in ToSet(broker[b].receivedMWOEs) \cup {a.msg} :
              /\ Orders(e, f, k)
              /\ \A j \in ToSet(broker[b].receivedMWOEs) \cup {a.msg} : k.delay <= j.delay
<1>s. PICK ms : ms = broker[b].receivedMWOEs
  OBVIOUS
<1>q. PICK qs : qs = Append(broker[b].receivedMWOEs, a.msg)
  OBVIOUS
<1>1. /\ Tidy(qs) /\ qs \in Seq(MWOEMessage) /\ ToSet(qs) = ToSet(ms) \cup {a.msg}
      /\ Len(qs) = Len(ms) + 1
  BY <1>q, <1>s, OneMoreReport
<1>2. e.st.receivedMWOEs = ms /\ ms \in Seq(MWOEMessage)
  BY <1>s, ReportArrives
<1>3. Chooses(e, f, qs)
  BY <1>2, <1>q, <1>s DEF Counts
<1>4. /\ Len(qs) \in Nat /\ DOMAIN qs = 1 .. Len(qs)
      /\ \A i \in DOMAIN qs : qs[i] \in ToSet(qs)
      /\ \A j \in ToSet(qs) : \E i \in DOMAIN qs : qs[i] = j
  BY <1>1, ElementsType DEF ToSet
<1>5. 1 \in DOMAIN qs
  BY <1>1, <1>2, <1>4
<1>6. PICK i \in DOMAIN qs :
         /\ \A j \in DOMAIN qs : qs[j].broker # NULL => qs[i].delay <= qs[j].delay
         /\ Orders(e, f, qs[i])
  BY <1>1, <1>3, <1>5 DEF Chooses, Tidy, ReportsNamed
<1>7. \A j \in ToSet(qs) : qs[i].delay <= j.delay
  BY <1>1, <1>4, <1>6 DEF Tidy, ReportsNamed
<1> QED
  BY <1>1, <1>4, <1>6, <1>7, <1>s

(* Its way is one along links.                                             *)
LEMMA OrderTripSame ==
    ASSUME NEW b \in Brokers, NEW o \in Brokers, NEW c \in Brokers, NEW y, Ordered1(y, b, o, c),
           \A d \in Brokers : Members(d)' = Members(d) /\ Linked(d)' = Linked(d)
    PROVE  IsOrder(y) /\ OrderTrip(y)'
<1>p. PICK p : p = y.msg.piggyback
  OBVIOUS
<1>1. /\ origin(y) = o /\ y = it(y.from, y.to, y.msg)
      /\ y.msg \in ExpandMessage /\ y.msg.type = "Expand" /\ y.msg.broker = c
      /\ y.from \in {NULL, b} /\ y.to \in Brokers
      /\ ToSet(p) \cup {y.to} \subseteq Members(o) /\ PathBack(p)
      /\ p # <<>> => Head(p) \in Linked(y.to)
  BY <1>p DEF Ordered1
<1>2. p \in Seq(Brokers)
  BY <1>1, <1>p DEF ExpandMessage
<1>3. IsOrder(y)
  BY <1>1, <1>2, <1>p DEF IsOrder
<1>4. (origin(y))' = o /\ Members(o)' = Members(o) /\ Linked(y.to)' = Linked(y.to)
  BY <1>1 DEF origin, Destination
<1>5. PathBack(p)'
  <2>1. ASSUME NEW i \in 1 .. Len(p) - 1
        PROVE  p[i + 1] \in Linked(p[i])'
    <3>1. p[i] \in ToSet(p) /\ ToSet(p) \subseteq Brokers
      BY <1>2, PathIn
    <3>2. Linked(p[i])' = Linked(p[i])
      BY <3>1
    <3> QED
      BY <1>1, <3>2 DEF PathBack
  <2> QED
    BY <2>1 DEF PathBack
<1> QED
  BY <1>1, <1>3, <1>4, <1>5, <1>p DEF OrderTrip

(* An order has a broker that has been told to ask.                        *)
LEMMA OrderFacts ==
    ASSUME NEW H, World(H), NEW x \in OrderItems
    PROVE  /\ IsOrder(x) /\ OrderTrip(x) /\ origin(x) \in Brokers /\ x.msg.broker \in Brokers
           /\ ToldToAsk[origin(x)] = x.msg.broker /\ ToldToAsk[origin(x)] # NULL
<1>1. ItemsOK /\ ViewsOK
  BY WorldHolds
<1>2. OrderTrip(x)
  BY DEF World, Trips
<1>3. IsOrder(x)
  BY <1>1 DEF ItemsOK
<1>4. origin(x) \in Brokers /\ x.msg.broker \in Brokers
  BY <1>3 DEF IsOrder
<1>5. ToldToAsk[origin(x)] = x.msg.broker
  BY <1>1, <1>4 DEF ViewsOK
<1> QED
  BY <1>2, <1>3, <1>4, <1>5, NodesAssumption

(* The reports that are gone once a leader has chosen.                     *)
LEMMA ReportsUsed ==
    ASSUME NEW H, World(H), IInv', NEW b \in Brokers, NEW a \in Arrivals(b), a.msg.type = "MWOE",
           NEW f, Acts(b, a, f), f.st.receivedMWOEs = <<>>, Sent(b, f, "MWOE") = {},
           Len(broker[b].receivedMWOEs) + 1 = Cardinality(Members(b)), NEW x
    PROVE  x \in ReportItems' <=> x \in ReportItems /\ origin(x) \notin Members(b)
<1>g. PICK g : g = it(a.from, b, a.msg)
  OBVIOUS
<1>s. PICK ms : ms = broker[b].receivedMWOEs
  OBVIOUS
<1>0. Placed /\ IsWork(a.msg) /\ ItemsOK
  BY WorldHolds DEF World, IsWork
<1>1. x \in ReportItems' <=> x \in ReportItems /\ x # g /\ (x.from = NS => x.to # b)
  <2>1. x \in ReportItems' <=>
              \/ x \in ReportItems /\ x # g /\ (x.from = NS => x.to # b)
              \/ x \in Sent(b, f, "MWOE")
              \/ \E k \in ToSet(f.st.receivedMWOEs) : x = it(NS, b, k)
    BY <1>0, <1>g, ReportsMove
  <2>2. ToSet(f.st.receivedMWOEs) = {}
    BY NoElements
  <2> QED
    BY <2>1, <2>2
<1>2. /\ g \in ReportItems /\ origin(g) \in Members(b) /\ g.to = b /\ g.msg = a.msg
  BY <1>g, ReportCame DEF it
<1>3. ASSUME x \in ReportItems, x.from = NS, x.to = b
      PROVE  origin(x) \in Members(b)
  <2>1. x \in Collected
    BY <1>0, <1>3 DEF ItemsOK
  <2>2. x.msg \in ToSet(ms)
    BY <1>3, <1>s, <2>1, CollectedShape
  <2>3. Destination(b, x.msg) \in Members(b)
    BY <1>s, <2>2, ListedFacts
  <2> QED
    BY <1>3, <2>3 DEF origin
<1>4. ASSUME x \in ReportItems, origin(x) \in Members(b), x # g
      PROVE  x.from = NS /\ x.to = b
  <2>1. PICK k \in ToSet(ms) \cup {a.msg} : Destination(b, k) = origin(x)
    BY <1>4, <1>s, AllInList
  <2>2. k # a.msg
    <3>1. origin(g) = Destination(b, a.msg)
      BY <1>2 DEF origin
    <3> QED
      BY <1>0, <1>2, <1>4, <2>1, <3>1 DEF Placed, Unique
  <2>z. PICK z : z = it(NS, b, k)
    OBVIOUS
  <2>3. z \in ReportItems /\ z.from = NS /\ z.to = b /\ origin(z) = Destination(b, k)
    BY <1>s, <2>1, <2>2, <2>z, CollectedFacts
  <2>4. x = z
    BY <1>0, <1>4, <2>1, <2>3 DEF Placed, Unique
  <2> QED
    BY <2>3, <2>4
<1> QED
  BY <1>1, <1>2, <1>3, <1>4

(* The leader has all reports: the best edge is chosen.                    *)
LEMMA ReportChosen ==
    ASSUME NEW H, World(H), IInv', NEW b \in Brokers, NEW a \in Arrivals(b), a.msg.type = "MWOE",
           NEW e, Starts(e, b, a), NEW f, Counts(e, f, a.msg), isLeader(e),
           Len(e.st.receivedMWOEs) + 1 = Cardinality(e.st.members), Acts(b, a, f)
    PROVE  Stepped
<1>g. PICK g : g = it(a.from, b, a.msg)
  OBVIOUS
<1>s. PICK ms : ms = broker[b].receivedMWOEs
  OBVIOUS
<1>0. /\ IInv /\ Placed /\ FragmentsHold /\ ItemsOK /\ ViewsOK /\ IsWork(a.msg)
      /\ NULL \notin Brokers /\ Fits!FragmentsInv
  BY WorldHolds, NodesAssumption DEF World, IsWork
<1>1. /\ Clean(e) /\ e.self = b /\ e.st = broker[b] /\ SentBy(b, e) = {} /\ ~e.fault
      /\ WellDue(e)
  BY ReportArrives
<1>2. PICK k \in ToSet(ms) \cup {a.msg} :
         Orders(e, f, k) /\ \A j \in ToSet(ms) \cup {a.msg} : k.delay <= j.delay
  BY <1>s, BestReport
<1>o. PICK o : o = Destination(b, k)
  OBVIOUS
<1>c. PICK c : c = k.broker
  OBVIOUS
<1>3. /\ o \in Brokers /\ o \in Members(b) /\ Awake(o) /\ Members(o) = Members(b)
      /\ c \in Brokers /\ k.piggyback \in Seq(Brokers)
      /\ Reported[o] = c /\ k.delay = conditionTable[o][c]
      /\ PathBack(k.piggyback) /\ ToSet(k.piggyback) \subseteq Members(b)
      /\ k.piggyback # <<>> => Head(k.piggyback) \in Linked(b)
  BY <1>2, <1>o, <1>c, <1>s, ListedFacts
<1>4. /\ f \in Effect /\ SameView(broker[b], f.st) /\ SameConnects(broker[b], f.st)
      /\ f.st.receivedMWOEs = <<>>
  BY <1>1 DEF Counts
<1>5. /\ g \in ReportItems /\ origin(g) \in Members(b) /\ b \in Members(b)
      /\ g.to = b /\ g.msg = a.msg
  BY <1>g, ReportCame DEF it
<1>6. Len(ms) + 1 = Cardinality(Members(b))
  BY <1>1, <1>s DEF Members
<1>7. /\ Clean(f) /\ ~f.fault /\ WellDue(f)
      /\ \E y : SentBy(b, f) = {y} /\ Ordered1(y, b, o, c)
  BY <1>1, <1>2, <1>3, <1>4, <1>5, <1>o, <1>c, OrderSent
<1>8. PICK y : SentBy(b, f) = {y} /\ Ordered1(y, b, o, c)
  BY <1>7
<1>9. y.msg.type = "Expand" /\ y.msg.broker = c /\ origin(y) = o /\ Shaped(y)
  BY <1>8 DEF Ordered1
<1>10. Sent(b, f, "MWOE") = {} /\ Sent(b, f, "Expand") = {y}
  BY <1>8, <1>9 DEF Sent
<1>11. ToldToAsk[o] = NULL
  <2>1. Fits!FragmentsInv /\ Reported[o] # NULL
    BY <1>0, <1>3
  <2> QED
    BY <1>3, <2>1, Fits!NotBoth
<1>12. ASSUME NEW x \in OrderItems
       PROVE  origin(x) # o
  BY <1>11, <1>12, OrderFacts
<1>13. y \notin OrderItems /\ y \notin Moving
  BY <1>9, <1>12 DEF OrderItems
<1>14. OrderItems' = OrderItems \cup {y}
  <2>1. OrderItems' = (OrderItems \ {g}) \cup Sent(b, f, "Expand")
    BY <1>0, <1>g, OrdersMove
  <2>2. g \notin OrderItems
    BY <1>5 DEF OrderItems
  <2> QED
    BY <1>10, <2>1, <2>2
<1>15. ASSUME NEW x
       PROVE  x \in ReportItems' <=> x \in ReportItems /\ origin(x) \notin Members(b)
  BY <1>4, <1>6, <1>10, <1>s, ReportsUsed
<1>16. Unique(ReportItems') /\ Unique(OrderItems')
  <2>1. Unique(ReportItems')
    <3>1. ReportItems' \subseteq ReportItems
      BY <1>15
    <3> QED
      BY <1>0, <3>1 DEF Unique, Placed
  <2>2. Unique(OrderItems')
    BY <1>0, <1>9, <1>12, <1>14 DEF Unique, Placed
  <2> QED
    BY <2>1, <2>2
<1>17. Placed'
  <2>1. Distinct(f.direct) /\ NeatOut(f.out)
    BY <1>7 DEF Clean
  <2>2. \A x \in SentBy(b, f) : x \notin Moving /\ Shaped(x) /\ x.msg.type # "Update"
    BY <1>8, <1>9, <1>13
  <2>3. Tidy(f.st.receivedMWOEs)
    BY <1>4, NoElements DEF Tidy, ReportsNamed
  <2> QED
    BY <1>16, <2>1, <2>2, <2>3, PlacedStep
<1>18. /\ Rounds' = Rounds /\ TakingPart' = TakingPart /\ BuildsOver' = BuildsOver
       /\ KnownMembers' = KnownMembers /\ LinkedTo' = LinkedTo
       /\ conditionTable' = conditionTable
       /\ Asked' = Asked /\ KeptForLater' = KeptForLater
       /\ \A d \in Brokers : Members(d)' = Members(d) /\ Linked(d)' = Linked(d)
  BY <1>0, <1>4, <1>7, WorkViews
<1>19. (ItemsOK /\ ViewsOK)'
  BY <1>17, ViewsFitNext
<1>20. Asks' = Asks /\ UnderWay' = UnderWay
  <2>1. Moving' = (Moving \ Consumed(b, a)) \cup SentBy(b, f) /\ Consumed(b, a) = {g}
    BY <1>0, <1>g, ItemsMove, WorkItem
  <2>2. \A x \in Consumed(b, a) \cup SentBy(b, f) : x.msg.type # "Connect" /\ x.msg.type # "Update"
    BY <1>5, <1>8, <1>9, <2>1
  <2>3. Asks' = Asks
    BY <1>0, <1>19, <2>1, <2>2, AsksSame
  <2>4. UnderWay' = UnderWay
    BY <1>0, <1>19, <2>1, <2>2, UnderWaySame
  <2> QED
    BY <2>3, <2>4
<1>21. ASSUME NEW d \in Brokers
       PROVE  Reported'[d] = IF d \in Members(b) THEN NULL ELSE Reported[d]
  <2>1. CASE d \in Members(b)
    <3>1. \A x \in ReportItems' : origin(x) # d
      BY <1>15, <2>1
    <3>2. Reported'[d] = NULL
      BY <1>19, <3>1, ReportedNot
    <3> QED
      BY <2>1, <3>2
  <2>2. CASE d \notin Members(b)
    <3>1. \A z \in Brokers : (\E x \in ReportItems' : origin(x) = d /\ x.msg.broker = z)
                               <=> \E x \in ReportItems : origin(x) = d /\ x.msg.broker = z
      BY <1>15, <2>2
    <3>2. Reported'[d] = Reported[d]
      BY <1>0, <1>19, <3>1, ReportedSame
    <3> QED
      BY <2>2, <3>2
  <2> QED
    BY <2>1, <2>2
<1>22. ASSUME NEW d \in Brokers
       PROVE  ToldToAsk'[d] = IF d = o THEN c ELSE ToldToAsk[d]
  <2>1. CASE d = o
    <3>1. ToldToAsk'[origin(y)] = y.msg.broker
      <4>1. y \in OrderItems' /\ origin(y) \in Brokers /\ y.msg.broker \in Brokers
        BY <1>3, <1>9, <1>14
      <4> QED
        BY <1>19, <4>1, ToldNow
    <3> QED
      BY <1>9, <2>1, <3>1
  <2>2. CASE d # o
    <3>1. \A z \in Brokers : (\E x \in OrderItems' : origin(x) = d /\ x.msg.broker = z)
                               <=> \E x \in OrderItems : origin(x) = d /\ x.msg.broker = z
      BY <1>9, <1>14, <2>2
    <3>2. ToldToAsk'[d] = ToldToAsk[d]
      BY <1>0, <1>19, <3>1, ToldSame
    <3> QED
      BY <2>2, <3>2
  <2> QED
    BY <2>1, <2>2
<1>23. Fits!Choose(o)
  <2>1. TakingPart[o] /\ KnownMembers[o] = Members(b)
    BY <1>3, ViewFunctions
  <2>2. ASSUME NEW d \in Members(b)
        PROVE  /\ Reported[d] # NULL /\ KnownMembers[d] = Members(b)
               /\ conditionTable[o][Reported[o]] <= conditionTable[d][Reported[d]]
    <3>1. PICK j \in ToSet(ms) \cup {a.msg} : Destination(b, j) = d
      BY <1>6, <1>s, AllInList
    <3>2. /\ d \in Brokers /\ Members(d) = Members(b) /\ j.broker \in Brokers
          /\ Reported[d] = j.broker /\ j.delay = conditionTable[d][j.broker]
      BY <1>s, <3>1, ListedFacts
    <3>3. k.delay <= j.delay
      BY <1>2
    <3>4. KnownMembers[d] = Members(b)
      BY <3>2, ViewFunctions
    <3> QED
      BY <1>0, <1>3, <3>2, <3>3, <3>4
  <2>3. Reported' = [d \in Brokers |-> IF d \in Members(b) THEN NULL ELSE Reported[d]]
    <3>1. Reported' = [d \in Brokers |-> Reported'[d]]
      BY <1>19 DEF ViewsOK
    <3> QED
      BY <1>21, <3>1
  <2>4. ToldToAsk' = [ToldToAsk EXCEPT ![o] = Reported[o]]
    <3>1. ToldToAsk' = [d \in Brokers |-> ToldToAsk'[d]]
      BY <1>19 DEF ViewsOK
    <3>2. ToldToAsk = [d \in Brokers |-> ToldToAsk[d]]
      BY <1>0 DEF ViewsOK
    <3> QED
      BY <1>3, <1>22, <3>1, <3>2
  <2> QED
    BY <1>18, <1>20, <2>1, <2>2, <2>3, <2>4 DEF Fits!Choose
<1>24. Abstractly
  BY <1>3, <1>23 DEF Abstractly, Fits!FragmentsNext
<1>25. ~crashed'
  BY <1>7 DEF Acts, End
<1>26. ASSUME NEW x \in ReportItems'
       PROVE  ReportTrip(x) /\ Reported[origin(x)] # NULL
  BY <1>15, ReportFacts
<1>27. ASSUME NEW x \in OrderItems'
       PROVE  (OrderTrip(x) /\ ToldToAsk[origin(x)] # NULL) \/ OrderTrip(x)'
  <2>1. CASE x \in OrderItems
    BY <2>1, OrderFacts
  <2>2. CASE x = y
    <3>1. OrderTrip(y)'
      BY <1>3, <1>8, <1>18, OrderTripSame
    <3> QED
      BY <2>2, <3>1
  <2> QED
    BY <1>14, <2>1, <2>2
<1> QED
  BY <1>17, <1>18, <1>24, <1>25, <1>26, <1>27 DEF Stepped

(* The handler has a member to start from.                                 *)
LEMMA Finished ==
    ASSUME NEW b \in Brokers, NEW a \in Arrivals(b), NEW f \in Effect, Finish(b, a, f),
           Members(b) # {} \/ ~IsWork(a.msg)
    PROVE  Acts(b, a, f)
BY DEF Finish, Acts, ReadsUninitialized, Members, IsWork

(* handleMWOEMessage is a step of Fragments or none.                       *)
LEMMA ReportWorld ==
    ASSUME NEW H, World(H), IInv', NEW b \in Brokers, HandleMWOEMessage(b)
    PROVE  Stepped
<1> PICK a \in Arrivals(b) :
         a.msg.type = "MWOE" /\ Finish(b, a, handleMWOEMessage(Start(b, a), a.msg))
  BY DEF HandleMWOEMessage, Arriving
<1>e. PICK e : Starts(e, b, a)
  BY DEF Starts
<1>f. PICK f : f = handleMWOEMessage(e, a.msg)
  OBVIOUS
<1>1. /\ Clean(e) /\ a.msg \in MWOEMessage /\ MapOK(broker[b].neighboursMap)
      /\ e.st = broker[b]
  BY <1>e, ReportArrives
<1>2. Counts(e, f, a.msg)
  BY <1>1, <1>f, CountIs DEF Clean
<1>3. f \in Effect
  BY <1>2 DEF Counts
<1>4. Finish(b, a, f)
  BY <1>e, <1>f DEF Starts
<1>5. Members(b) # {}
  BY ReportCame
<1>6. Acts(b, a, f)
  BY <1>3, <1>4, <1>5, Finished
<1>7. CASE ~isLeader(e)
  BY <1>e, <1>2, <1>6, <1>7, ReportForwarded
<1>8. CASE isLeader(e) /\ Len(e.st.receivedMWOEs) + 1 # Cardinality(e.st.members)
  BY <1>e, <1>2, <1>6, <1>8, ReportCollected
<1>9. CASE isLeader(e) /\ Len(e.st.receivedMWOEs) + 1 = Cardinality(e.st.members)
  BY <1>e, <1>2, <1>6, <1>9, ReportChosen
<1> QED
  BY <1>7, <1>8, <1>9

-----------------------------------------------------------------------------
(* An order to expand arrives.                                             *)

(* What is known when a broker that takes part has to work.                *)
LEMMA WorkStarts ==
    ASSUME NEW H, World(H), NEW b \in Brokers, NEW a \in Arrivals(b), IsWork(a.msg), Awake(b),
           NEW e, Starts(e, b, a)
    PROVE  /\ Clean(e) /\ e.self = b /\ e.st = broker[b] /\ SentBy(b, e) = {} /\ ~e.fault
           /\ WellDue(e) /\ e.timers = timers[b]
           /\ MapOK(broker[b].neighboursMap) /\ Linked(b) \subseteq Brokers \ {b}
           /\ Tidy(broker[b].receivedMWOEs)
           /\ broker[b].componentId # b => broker[b].leaderHop \in Linked(b)
           /\ b \in Members(b) /\ Member(e)
<1>1. IInv /\ JoinsOK(H) /\ FragmentsHold /\ Placed
  BY WorldHolds DEF World
<1>2. Clean(e) /\ e.self = b /\ e.st = broker[b] /\ SentBy(b, e) = {} /\ ~e.fault
  BY <1>1, StartClean DEF Starts
<1>3. WellDue(e)
  BY <1>1, StartWell DEF Starts
<1>4. /\ MapOK(broker[b].neighboursMap)
      /\ broker[b].componentId # b => broker[b].leaderHop \in Linked(b)
  BY <1>1, AwakeRuns
<1>5. Linked(b) \subseteq Brokers \ {b} /\ b \in Members(b)
  BY <1>1, OwnFacts DEF Linked, NeighbourBrokers
<1>6. Tidy(broker[b].receivedMWOEs)
  BY <1>1 DEF Placed
<1>7. e.timers = timers[b]
  BY <1>1, WorkArrives DEF Starts, IsWork
<1>8. Member(e)
  BY <1>1, <1>2, <1>5 DEF Member, Clean, IInv, Leaders, Members
<1> QED
  BY <1>2, <1>3, <1>4, <1>5, <1>6, <1>7, <1>8

(* What is known when an order arrives.                                    *)
LEMMA OrderCame ==
    ASSUME NEW H, World(H), NEW b \in Brokers, NEW a \in Arrivals(b), a.msg.type = "Expand",
           NEW g, g = it(a.from, b, a.msg)
    PROVE  /\ g \in OrderItems /\ g.to = b /\ g.msg = a.msg /\ IsWork(a.msg)
           /\ origin(g) \in Members(b) /\ Awake(b) /\ Members(origin(g)) = Members(b)
           /\ b \in Members(b) /\ origin(g) \in Brokers
           /\ ToldToAsk[origin(g)] = a.msg.broker /\ a.msg.broker \in Brokers
           /\ a.msg \in ExpandMessage /\ a.msg.piggyback \in Seq(Brokers)
           /\ PathBack(a.msg.piggyback) /\ ToSet(a.msg.piggyback) \subseteq Members(b)
           /\ a.msg.piggyback # <<>> => Head(a.msg.piggyback) \in Linked(b)
           /\ a.msg.piggyback = <<>> => origin(g) = b
<1>0. FragmentsHold /\ IsWork(a.msg) /\ Fits!FragmentsInv
  BY WorldHolds DEF IsWork, World
<1>1. g \in Moving /\ g.to = b /\ g.msg = a.msg
  BY <1>0, WorkItem
<1>2. g \in OrderItems
  BY <1>1 DEF OrderItems
<1>3. /\ IsOrder(g) /\ OrderTrip(g) /\ origin(g) \in Brokers /\ g.msg.broker \in Brokers
      /\ ToldToAsk[origin(g)] = g.msg.broker /\ ToldToAsk[origin(g)] # NULL
  BY <1>2, OrderFacts
<1>o. PICK o : o = origin(g)
  OBVIOUS
<1>4. /\ TakingPart[o] /\ Fits!Full(o)
  BY <1>0, <1>3, <1>o DEF Fits!FragmentsInv, Fits!ChosenOK
<1>5. KnownMembers[o] = Members(o) /\ Awake(o)
  BY <1>3, <1>4, <1>o, ViewFunctions
<1>6. /\ b \in Members(o) /\ ToSet(a.msg.piggyback) \subseteq Members(o)
      /\ PathBack(a.msg.piggyback)
      /\ a.msg.piggyback # <<>> => Head(a.msg.piggyback) \in Linked(b)
  BY <1>1, <1>3, <1>o DEF OrderTrip
<1>7. TakingPart[b] /\ KnownMembers[b] = Members(o)
  BY <1>4, <1>5, <1>6 DEF Fits!Full, Fits!Peers
<1>8. Awake(b) /\ Members(b) = Members(o)
  BY <1>7, ViewFunctions
<1>9. o \in Members(o)
  BY <1>0, <1>3, <1>5, <1>o, OwnFacts
<1>10. a.msg.piggyback = <<>> => o = b
  BY <1>1, <1>o DEF origin, Destination
<1> QED
  BY <1>0, <1>1, <1>2, <1>3, <1>6, <1>8, <1>9, <1>10, <1>o DEF IsOrder

(* A broker passes an order on towards the one it is for.                  *)
LEMMA OrderForwarded ==
    ASSUME NEW H, World(H), IInv', NEW b \in Brokers, NEW a \in Arrivals(b), a.msg.type = "Expand",
           NEW e, Starts(e, b, a), NEW f \in Effect, Orders(e, f, a.msg), OnlySends(e, f),
           a.msg.piggyback # <<>>, Acts(b, a, f)
    PROVE  Stepped
<1>g. PICK g : g = it(a.from, b, a.msg)
  OBVIOUS
<1>c. PICK c : c = a.msg.broker
  OBVIOUS
<1>o. PICK o : o = origin(g)
  OBVIOUS
<1>0. /\ IInv /\ Placed /\ FragmentsHold /\ ItemsOK /\ ViewsOK /\ NULL \notin Brokers
  BY WorldHolds, NodesAssumption DEF World
<1>1. /\ g \in OrderItems /\ g.to = b /\ g.msg = a.msg /\ IsWork(a.msg)
      /\ o \in Members(b) /\ Awake(b) /\ Members(o) = Members(b)
      /\ b \in Members(b) /\ o \in Brokers
      /\ ToldToAsk[o] = c /\ c \in Brokers
      /\ a.msg \in ExpandMessage /\ a.msg.piggyback \in Seq(Brokers)
      /\ PathBack(a.msg.piggyback) /\ ToSet(a.msg.piggyback) \subseteq Members(b)
      /\ Head(a.msg.piggyback) \in Linked(b)
  BY <1>g, <1>c, <1>o, OrderCame
<1>2. /\ Clean(e) /\ e.self = b /\ e.st = broker[b] /\ SentBy(b, e) = {} /\ ~e.fault
      /\ WellDue(e) /\ Linked(b) \subseteq Brokers \ {b} /\ Tidy(broker[b].receivedMWOEs)
  BY <1>1, WorkStarts
<1>3. o = Destination(b, a.msg)
  BY <1>1, <1>o DEF origin
<1>4. /\ Clean(f) /\ ~f.fault /\ WellDue(f)
      /\ \E y : SentBy(b, f) = {y} /\ Ordered1(y, b, o, c)
  BY <1>1, <1>2, <1>3, <1>c, OrderSent
<1>5. PICK y : SentBy(b, f) = {y} /\ Ordered1(y, b, o, c)
  BY <1>4
<1>6. /\ y.msg.type = "Expand" /\ y.msg.broker = c /\ origin(y) = o /\ Shaped(y)
      /\ OrderTrip(y)
  BY <1>5 DEF Ordered1, OrderTrip
<1>7. f.st = broker[b]
  BY <1>2 DEF OnlySends
<1>8. y # g
  <2>1. it(b, Head(a.msg.piggyback), orderOf(a.msg.broker, Tail(a.msg.piggyback))) \in SentBy(b, f)
    <3>h. PICK h : h = Head(a.msg.piggyback)
      OBVIOUS
    <3>m. PICK m : m = orderOf(a.msg.broker, Tail(a.msg.piggyback))
      OBVIOUS
    <3>1. h \in Brokers /\ h \in Nodes /\ b \in Nodes
      BY <1>1, <1>2, <3>h DEF Nodes
    <3>2. m \in Message
      <4>1. Tail(a.msg.piggyback) \in Seq(Brokers)
        BY <1>1
      <4> QED
        BY <1>1, <1>c, <3>m, <4>1, OrderIs
    <3>3. f.out = Posted(e.out, {h}, m)
      <4>1. SendsOver(e, f, h, m)
        BY <3>h, <3>m DEF Orders
      <4>2. h \in NeighbourBrokers(e.st.neighboursMap)
        BY <1>1, <1>2, <3>h DEF Linked
      <4> QED
        BY <4>1, <4>2 DEF SendsOver
    <3>4. e.out \in [Nodes -> Seq(Message)] /\ f.direct \in Seq(Event) /\ f.out \in [Nodes -> Seq(Message)]
      BY <1>2, <1>4 DEF Clean, Effect
    <3>5. m \in ToSet(f.out[h])
      <4>t. PICK t : t = e.out
        OBVIOUS
      <4>1. t \in [Nodes -> Seq(Message)]
        BY <3>4, <4>t
      <4>2. m \in ToSet(Posted(t, {h}, m)[h])
        BY <3>1, <3>2, <4>1, PostedHolds
      <4> QED
        BY <3>3, <4>2, <4>t
    <3> QED
      BY <3>1, <3>4, <3>5, <3>h, <3>m, SentOver
  <2>2. y.to = Head(a.msg.piggyback)
    BY <1>5, <2>1 DEF it
  <2> QED
    BY <1>1, <1>2, <2>2
<1>9. y \notin OrderItems /\ y \notin Moving
  BY <1>0, <1>1, <1>6, <1>8, <1>o DEF OrderItems, Placed, Unique
<1>10. Sent(b, f, "MWOE") = {} /\ Sent(b, f, "Expand") = {y}
  BY <1>5, <1>6 DEF Sent
<1>11. OrderItems' = (OrderItems \ {g}) \cup {y}
  BY <1>0, <1>1, <1>10, <1>g, OrdersMove
<1>12. ReportItems' = ReportItems
  <2>1. f.st.receivedMWOEs = broker[b].receivedMWOEs
    BY <1>7
  <2>2. ReportItems' = (ReportItems \ {g}) \cup Sent(b, f, "MWOE")
    BY <1>0, <1>1, <1>g, <2>1, ReportsMoveSame
  <2>3. g \notin ReportItems
    <3>1. g \in ReportItems => IsReport(g)
      BY ReportFacts
    <3> QED
      BY <1>1, <3>1 DEF IsReport
  <2> QED
    BY <1>10, <2>2, <2>3
<1>13. Unique(ReportItems') /\ Unique(OrderItems')
  <2>1. Unique(OrderItems')
    BY <1>0, <1>1, <1>6, <1>11, <1>o DEF Unique, Placed
  <2> QED
    BY <1>0, <1>12, <2>1 DEF Placed
<1>14. Placed'
  <2>1. Distinct(f.direct) /\ NeatOut(f.out)
    BY <1>4 DEF Clean
  <2>2. \A x \in SentBy(b, f) : x \notin Moving /\ Shaped(x) /\ x.msg.type # "Update"
    BY <1>5, <1>6, <1>9
  <2>3. Tidy(f.st.receivedMWOEs)
    BY <1>2, <1>7
  <2> QED
    BY <1>13, <2>1, <2>2, <2>3, PlacedStep
<1>15. /\ Rounds' = Rounds /\ TakingPart' = TakingPart /\ BuildsOver' = BuildsOver
       /\ KnownMembers' = KnownMembers /\ LinkedTo' = LinkedTo
       /\ conditionTable' = conditionTable
       /\ Asked' = Asked /\ KeptForLater' = KeptForLater
  <2>1. SameView(broker[b], f.st) /\ SameConnects(broker[b], f.st)
    BY <1>7 DEF SameView, SameConnects
  <2> QED
    BY <1>1, <1>4, <2>1, WorkViews
<1>16. (ItemsOK /\ ViewsOK)'
  BY <1>14, ViewsFitNext
<1>17. Asks' = Asks /\ UnderWay' = UnderWay
  <2>1. Moving' = (Moving \ Consumed(b, a)) \cup SentBy(b, f) /\ Consumed(b, a) = {g}
    BY <1>0, <1>1, <1>g, ItemsMove, WorkItem
  <2>2. \A x \in Consumed(b, a) \cup SentBy(b, f) : x.msg.type # "Connect" /\ x.msg.type # "Update"
    BY <1>1, <1>5, <1>6, <2>1
  <2>3. Asks' = Asks
    BY <1>0, <1>16, <2>1, <2>2, AsksSame
  <2>4. UnderWay' = UnderWay
    BY <1>0, <1>16, <2>1, <2>2, UnderWaySame
  <2> QED
    BY <2>3, <2>4
<1>18. Reported' = Reported
  <2>1. ASSUME NEW d \in Brokers
        PROVE  Reported'[d] = Reported[d]
    BY <1>0, <1>12, <1>16, ReportedSame
  <2> QED
    BY <1>0, <1>16, <2>1, AllReported
<1>19. ToldToAsk' = ToldToAsk
  <2>1. ASSUME NEW d \in Brokers
        PROVE  ToldToAsk'[d] = ToldToAsk[d]
    <3>1. \A z \in Brokers : (\E x \in OrderItems' : origin(x) = d /\ x.msg.broker = z)
                               <=> \E x \in OrderItems : origin(x) = d /\ x.msg.broker = z
      BY <1>1, <1>6, <1>11, <1>o, <1>c
    <3> QED
      BY <1>0, <1>16, <3>1, ToldSame
  <2> QED
    BY <1>0, <1>16, <2>1, AllTold
<1>20. UNCHANGED Fits!fragments
  BY <1>15, <1>17, <1>18, <1>19 DEF Fits!fragments
<1>21. ~crashed'
  BY <1>4 DEF Acts, End
<1>22. ASSUME NEW x \in ReportItems'
       PROVE  ReportTrip(x) /\ Reported[origin(x)] # NULL
  BY <1>12, ReportFacts
<1>23. ASSUME NEW x \in OrderItems'
       PROVE  OrderTrip(x) /\ ToldToAsk[origin(x)] # NULL
  <2>1. CASE x \in OrderItems
    BY <2>1, OrderFacts
  <2>2. CASE x = y
    BY <1>0, <1>1, <1>6, <2>2
  <2> QED
    BY <1>11, <2>1, <2>2
<1> QED
  BY <1>14, <1>15, <1>20, <1>21, <1>22, <1>23 DEF Stepped, Abstractly

(* A broker's own request, as a message and as a request.                  *)
LEMMA OwnRequest ==
    ASSUME NEW H, World(H), NEW b \in Brokers, NEW e, e \in Effect, e.self = b, e.st = broker[b],
           NEW c \in Brokers, NEW m, m = connectOf(e)
    PROVE  /\ m \in Message /\ m \in ConnectMessage /\ m.type = "Connect"
           /\ Asking(c, m) = Fits!request(b, c)
           /\ Shaped(it(NULL, c, m)) /\ Quick(To(c, m))
<1>1. m \in ConnectMessage /\ m \in Message
  BY RequestIs
<1>2. m.type = "Connect" /\ m.broker = b /\ m.convergenceNumber = Round(b) /\ m.members = Members(b)
  BY DEF connectOf, Round, Members
<1>3. Rounds[b] = Round(b) /\ KnownMembers[b] = Members(b)
  BY ViewFunctions
<1>4. Asking(c, m) = Fits!request(b, c)
  BY <1>2, <1>3 DEF Asking, Fits!request
<1>5. Shaped(it(NULL, c, m))
  BY <1>2 DEF Shaped, it
<1>6. Quick(To(c, m))
  BY <1>2 DEF Quick, To, Named
<1> QED
  BY <1>1, <1>2, <1>4, <1>5, <1>6

(* It is not under way before the broker has been told to ask.             *)
LEMMA NotAskedYet ==
    ASSUME NEW H, World(H), NEW b \in Brokers, NEW c \in Brokers, ToldToAsk[b] = c,
           NEW m, m.type = "Connect", Asking(c, m) = Fits!request(b, c)
    PROVE  it(NULL, c, m) \notin Moving
<1>1. ViewsOK /\ Fits!FragmentsInv /\ ToldToAsk[b] # NULL
  BY WorldHolds, NodesAssumption DEF World
<1>2. \A k \in Asks : ~(k.from = b /\ k.to = ToldToAsk[b])
  BY <1>1, Fits!SilentAsks
<1>3. ASSUME it(NULL, c, m) \in Moving
      PROVE  FALSE
  <2>x. PICK x : x = it(NULL, c, m)
    OBVIOUS
  <2>1. x \in Moving /\ x.to = c /\ x.msg = m
    BY <1>3, <2>x DEF it
  <2>2. Asking(c, m) \in Asks
    BY <1>1, <2>1 DEF ViewsOK
  <2>3. Fits!request(b, c).from = b /\ Fits!request(b, c).to = c
    BY DEF Fits!request
  <2> QED
    BY <1>2, <2>2, <2>3
<1> QED
  BY <1>3

(* That one asks the broker the order names.                               *)
LEMMA OrderAsks ==
    ASSUME NEW H, World(H), IInv', NEW b \in Brokers, NEW a \in Arrivals(b), a.msg.type = "Expand",
           a.msg.piggyback = <<>>, NEW e, Starts(e, b, a), NEW f, Requests(e, f, a.msg.broker),
           ConnectsFrom(e, a.msg.broker) = {}, Acts(b, a, f)
    PROVE  Stepped
<1>g. PICK g : g = it(a.from, b, a.msg)
  OBVIOUS
<1>c. PICK c : c = a.msg.broker
  OBVIOUS
<1>m. PICK m : m = connectOf(e)
  OBVIOUS
<1>y. PICK y : y = it(NULL, c, m)
  OBVIOUS
<1>0. /\ IInv /\ Placed /\ FragmentsHold /\ ItemsOK /\ ViewsOK /\ NULL \notin Brokers
      /\ QueueOK(now) /\ Fits!FragmentsInv
  BY WorldHolds, NodesAssumption DEF World
<1>1. /\ g \in OrderItems /\ g.to = b /\ g.msg = a.msg /\ IsWork(a.msg)
      /\ Awake(b) /\ origin(g) = b /\ ToldToAsk[b] = c /\ c \in Brokers
  BY <1>g, <1>c, OrderCame
<1>2. /\ Clean(e) /\ e.self = b /\ e.st = broker[b] /\ SentBy(b, e) = {} /\ ~e.fault
      /\ WellDue(e) /\ Tidy(broker[b].receivedMWOEs)
  BY <1>1, WorkStarts
<1>3. /\ f \in Effect /\ SendsNow(e, f, c, m) /\ SameView(broker[b], f.st)
      /\ f.st.receivedMWOEs = broker[b].receivedMWOEs
      /\ f.st.receivedConnects = broker[b].receivedConnects
      /\ f.st.sentConnects = broker[b].sentConnects \cup {c}
  BY <1>2, <1>c, <1>m DEF Requests
<1>4. /\ m \in Message /\ m.type = "Connect" /\ Asking(c, m) = Fits!request(b, c)
      /\ Shaped(y) /\ Quick(To(c, m))
  <2>1. e \in Effect
    BY <1>2 DEF Clean
  <2> QED
    BY <1>1, <1>2, <1>m, <1>y, <2>1, OwnRequest
<1>5. y.from = NULL /\ y.to = c /\ y.msg = m
  BY <1>y DEF it
<1>6. Clean(f) /\ SentBy(b, f) = {y} /\ ~f.fault /\ WellDue(f)
  <2>1. c \in Nodes /\ it(NULL, c, m) \notin SentBy(b, e)
    BY <1>1, <1>2 DEF Nodes
  <2>2. Clean(f) /\ SentBy(b, f) = SentBy(b, e) \cup {it(NULL, c, m)}
    BY <1>2, <1>3, <1>4, <2>1, NowClean
  <2>3. f.fault <=> e.fault
    BY <1>3 DEF SendsNow
  <2>4. WellDue(f)
    <3>1. e \in Effect
      BY <1>2 DEF Clean
    <3> QED
      BY <1>1, <1>2, <1>3, <1>4, <3>1, SentNowWell
  <2> QED
    BY <1>2, <1>y, <2>2, <2>3, <2>4
<1>7. y \notin Moving
  BY <1>1, <1>4, <1>y, NotAskedYet
<1>8. Sent(b, f, "MWOE") = {} /\ Sent(b, f, "Expand") = {}
  BY <1>4, <1>5, <1>6 DEF Sent
<1>9. OrderItems' = OrderItems \ {g}
  <2>1. OrderItems' = (OrderItems \ {g}) \cup Sent(b, f, "Expand")
    BY <1>0, <1>1, <1>g, OrdersMove
  <2> QED
    BY <1>8, <2>1
<1>10. ReportItems' = ReportItems
  <2>2. ReportItems' = (ReportItems \ {g}) \cup Sent(b, f, "MWOE")
    BY <1>0, <1>1, <1>3, <1>g, ReportsMoveSame
  <2>3. g \notin ReportItems
    <3>1. g \in ReportItems => IsReport(g)
      BY ReportFacts
    <3> QED
      BY <1>1, <3>1 DEF IsReport
  <2> QED
    BY <1>8, <2>2, <2>3
<1>11. Placed'
  <2>1. Unique(ReportItems') /\ Unique(OrderItems')
    BY <1>0, <1>9, <1>10 DEF Unique, Placed
  <2>2. Distinct(f.direct) /\ NeatOut(f.out)
    BY <1>6 DEF Clean
  <2>3. \A x \in SentBy(b, f) : x \notin Moving /\ Shaped(x) /\ x.msg.type # "Update"
    BY <1>4, <1>5, <1>6, <1>7
  <2>4. Tidy(f.st.receivedMWOEs)
    BY <1>2, <1>3
  <2> QED
    BY <2>1, <2>2, <2>3, <2>4, PlacedStep
<1>12. (ItemsOK /\ ViewsOK)'
  BY <1>11, ViewsFitNext
<1>13. /\ Rounds' = Rounds /\ BuildsOver' = BuildsOver /\ KnownMembers' = KnownMembers
       /\ LinkedTo' = LinkedTo /\ conditionTable' = conditionTable
       /\ f.st.initial = broker[b].initial
  BY <1>0, <1>3, ViewsKept
<1>14. TakingPart' = TakingPart
  BY <1>0, <1>1, <1>6, <1>13, WorkKeepsPart
<1>15. Asked' = [Asked EXCEPT ![b] = @ \cup {c}]
  <2>1. Asked' = [Asked EXCEPT ![b] = f.st.sentConnects]
    BY <1>0, StateViews
  <2>2. Asked[b] = broker[b].sentConnects
    BY ViewFunctions
  <2> QED
    BY <1>3, <2>1, <2>2
<1>16. KeptForLater' = KeptForLater
  <2>1. KeptForLater' = [KeptForLater EXCEPT ![b] =
                           {Asking(b, con) : con \in f.st.receivedConnects}]
    BY <1>0, StateViews
  <2>2. KeptForLater[b] = {Asking(b, con) : con \in broker[b].receivedConnects}
    BY ViewFunctions
  <2> QED
    BY <1>3, <2>1, <2>2 DEF KeptForLater
<1>17. Moving' = (Moving \ Consumed(b, a)) \cup SentBy(b, f) /\ Consumed(b, a) = {g}
  BY <1>0, <1>1, <1>g, ItemsMove, WorkItem
<1>18. UnderWay' = UnderWay
  <2>1. \A x \in Consumed(b, a) \cup SentBy(b, f) : x.msg.type # "Update"
    BY <1>1, <1>4, <1>5, <1>6, <1>17
  <2> QED
    BY <1>0, <1>12, <1>17, <2>1, UnderWaySame
<1>19. Asks' = Asks \cup {Fits!request(b, c)}
  <2>1. \A x \in Consumed(b, a) : x.msg.type # "Connect"
    BY <1>1, <1>17
  <2>2. Asks' = Asks \cup {Asking(x.to, x.msg) :
                             x \in {z \in SentBy(b, f) : z.msg.type = "Connect"}}
    BY <1>0, <1>12, <1>17, <2>1, AsksMove
  <2>3. {z \in SentBy(b, f) : z.msg.type = "Connect"} = {y}
    BY <1>4, <1>5, <1>6
  <2>4. {Asking(x.to, x.msg) : x \in {y}} = {Fits!request(b, c)}
    BY <1>4, <1>5
  <2> QED
    BY <2>2, <2>3, <2>4
<1>20. Reported' = Reported
  <2>1. ASSUME NEW d \in Brokers
        PROVE  Reported'[d] = Reported[d]
    BY <1>0, <1>10, <1>12, ReportedSame
  <2> QED
    BY <1>0, <1>12, <2>1, AllReported
<1>21. ASSUME NEW d \in Brokers
       PROVE  ToldToAsk'[d] = IF d = b THEN NULL ELSE ToldToAsk[d]
  <2>1. CASE d = b
    <3>1. \A x \in OrderItems' : origin(x) # d
      BY <1>0, <1>1, <1>9, <2>1 DEF Placed, Unique
    <3> QED
      BY <1>12, <2>1, <3>1, ToldNot
  <2>2. CASE d # b
    <3>1. \A z \in Brokers : (\E x \in OrderItems' : origin(x) = d /\ x.msg.broker = z)
                               <=> \E x \in OrderItems : origin(x) = d /\ x.msg.broker = z
      BY <1>1, <1>9, <2>2
    <3>2. ToldToAsk'[d] = ToldToAsk[d]
      BY <1>0, <1>12, <3>1, ToldSame
    <3> QED
      BY <2>2, <3>2
  <2> QED
    BY <2>1, <2>2
<1>22. Fits!Ask(b)
  <2>1. ToldToAsk' = [ToldToAsk EXCEPT ![b] = NULL]
    <3>1. ToldToAsk' = [d \in Brokers |-> ToldToAsk'[d]]
      BY <1>12 DEF ViewsOK
    <3>2. ToldToAsk = [d \in Brokers |-> ToldToAsk[d]]
      BY <1>0 DEF ViewsOK
    <3> QED
      BY <1>21, <3>1, <3>2
  <2>2. ASSUME NEW k \in KeptForLater[b], k.from = ToldToAsk[b], k.number = Rounds[b]
        PROVE  FALSE
    <3>1. PICK con \in broker[b].receivedConnects : k = Asking(b, con)
      BY ViewFunctions
    <3>2. con.broker = c /\ con.convergenceNumber = Round(b)
      BY <1>1, <2>2, <3>1, ViewFunctions DEF Asking
    <3>3. con \in ConnectsFrom(e, c)
      BY <1>2, <3>2 DEF ConnectsFrom, Round
    <3> QED
      BY <1>c, <3>3
  <2> QED
    BY <1>0, <1>1, <1>13, <1>14, <1>15, <1>16, <1>18, <1>19, <1>20, <2>1, <2>2 DEF Fits!Ask
<1>23. Abstractly
  BY <1>22 DEF Abstractly, Fits!FragmentsNext
<1>24. ~crashed'
  BY <1>6 DEF Acts, End
<1>25. ASSUME NEW x \in ReportItems'
       PROVE  ReportTrip(x) /\ Reported[origin(x)] # NULL
  BY <1>10, ReportFacts
<1>26. ASSUME NEW x \in OrderItems'
       PROVE  OrderTrip(x) /\ ToldToAsk[origin(x)] # NULL
  BY <1>9, OrderFacts
<1> QED
  BY <1>11, <1>13, <1>23, <1>24, <1>25, <1>26 DEF Stepped

-----------------------------------------------------------------------------
(* A fragment grows.                                                       *)

(* A report of broker b, which knows M of the brokers V and is linked to   *)
(* the brokers N.                                                          *)
FirstReport(r, b, M, V, N) ==
    /\ r = it(r.from, r.to, r.msg) /\ r.msg \in Message /\ r.msg.type = "MWOE"
    /\ r.msg.broker \in V \ M /\ r.msg.broker \in Brokers /\ V \ M # {}
    /\ r.msg.delay = conditionTable[b][r.msg.broker]
    /\ \A c \in V \ M : conditionTable[b][r.msg.broker] <= conditionTable[b][c]
    /\ \/ r.from = NULL /\ r.to = b /\ r.msg.piggyback = <<>>
       \/ r.from = b /\ r.to \in N /\ r.to \in Brokers /\ r.msg.piggyback = <<b>>

(* What a broker sends when it looks for an edge.                          *)
LEMMA SearchSends ==
    ASSUME IsConditionTable(conditionTable), NEW b \in Brokers, NEW g, Clean(g), g.self = b,
           NEW F, Found(g, F), WellDue(g), ~g.fault,
           \A x \in SentBy(b, g) : x.msg.type # "MWOE",
           NEW N, N = NeighbourBrokers(g.st.neighboursMap), N \subseteq Brokers,
           g.st.componentId # b => g.st.leaderHop \in N,
           TimerJoins(g.timers) = {},
           NEW M, M = g.st.members, NEW V, V = ToSet(g.st.availableBrokers)
    PROVE  /\ Clean(F) /\ ~F.fault /\ WellDue(F)
           /\ Done(g.st) => SentBy(b, F) = SentBy(b, g)
           /\ ~Done(g.st) => \E r : /\ SentBy(b, F) = SentBy(b, g) \cup {r}
                                    /\ FirstReport(r, b, M, V, N)
<1>0. /\ g \in Effect /\ F \in Effect /\ V \in SUBSET Brokers /\ b \in Nodes
      /\ g.st.awaitingNSMsgs \in Seq(JoinMessage) /\ NULL \notin Brokers
  <2>1. g \in Effect /\ F \in Effect
    BY DEF Clean, Found
  <2>2. g.st.availableBrokers \in Seq(Brokers) /\ g.st.awaitingNSMsgs \in Seq(JoinMessage)
    BY <2>1 DEF Effect, BrokerState
  <2>3. V \in SUBSET Brokers
    BY <2>2, ElementsType
  <2> QED
    BY <2>1, <2>2, <2>3, NodesAssumption DEF Nodes
<1>1. CASE Done(g.st)
  <2>1. Rests(g, F)
    BY <1>1 DEF Found
  <2>2. F.direct = g.direct /\ F.out = g.out
    BY <2>1 DEF Rests
  <2>3. Clean(F) /\ WellDue(F)
    BY <1>0, <2>2 DEF Clean, WellDue
  <2>4. SentBy(b, F) = SentBy(b, g)
    BY <2>2 DEF SentBy
  <2>5. ~F.fault
    <3>1. CASE g.st.awaitingNSMsgs = <<>>
      BY <2>1, <3>1 DEF Rests
    <3>2. CASE g.st.awaitingNSMsgs # <<>>
      <4>1. F.fault <=> g.fault \/ Head(g.st.awaitingNSMsgs) \in g.timers
        BY <2>1, <3>2 DEF Rests
      <4>2. Head(g.st.awaitingNSMsgs) \in JoinMessage
        BY <1>0, <3>2
      <4>3. Head(g.st.awaitingNSMsgs).type = "Join"
        BY <4>2 DEF JoinMessage
      <4> QED
        BY <4>1, <4>3 DEF TimerJoins
    <3> QED
      BY <3>1, <3>2
  <2> QED
    BY <1>1, <2>3, <2>4, <2>5
<1>2. CASE ~Done(g.st)
  <2>1. Seeks(g, F)
    BY <1>2 DEF Found
  <2>2. V \ M # {}
    BY <2>1 DEF Seeks
  <2>3. CASE isLeader(g)
    <3>s. PICK s : s = <<>>
      OBVIOUS
    <3>m. PICK m : m = reportOf(b, M, V, s)
      OBVIOUS
    <3>r. PICK r : r = it(NULL, b, m)
      OBVIOUS
    <3>0. s \in Seq(Brokers)
      BY <3>s
    <3>1. /\ m \in Message /\ m.type = "MWOE" /\ m.piggyback = s
          /\ m.broker \in V \ M /\ m.broker \in Brokers
          /\ m.delay = conditionTable[b][m.broker]
          /\ \A c \in V \ M : m.delay <= conditionTable[b][c]
      BY <1>0, <2>2, <3>0, <3>m, ReportIs
    <3>2. SendsNow(g, F, b, m)
      BY <2>1, <2>3, <3>m, <3>s DEF Seeks
    <3>3. it(NULL, b, m) \notin SentBy(b, g)
      BY <3>1 DEF it
    <3>4. Clean(F) /\ SentBy(b, F) = SentBy(b, g) \cup {r}
      <4>1. Clean(F) /\ SentBy(b, F) = SentBy(b, g) \cup {it(NULL, b, m)}
        BY <1>0, <3>1, <3>2, <3>3, NowClean
      <4> QED
        BY <3>r, <4>1
    <3>5. ~F.fault
      BY <3>2 DEF SendsNow
    <3>6. WellDue(F)
      <4>1. Quick(To(b, m))
        BY <1>0, <3>1 DEF Quick, To, Named
      <4> QED
        BY <1>0, <3>1, <3>2, <4>1, SentNowWell
    <3>7. r.from = NULL /\ r.to = b /\ r.msg = m /\ r = it(r.from, r.to, r.msg)
      BY <3>r DEF it
    <3>8. FirstReport(r, b, M, V, N)
      BY <2>2, <3>1, <3>7, <3>s DEF FirstReport
    <3> QED
      BY <1>2, <3>4, <3>5, <3>6, <3>8
  <2>4. CASE ~isLeader(g)
    <3>s. PICK s : s = <<b>>
      OBVIOUS
    <3>m. PICK m : m = reportOf(b, M, V, s)
      OBVIOUS
    <3>h. PICK h : h = g.st.leaderHop
      OBVIOUS
    <3>r. PICK r : r = it(b, h, m)
      OBVIOUS
    <3>0. s \in Seq(Brokers) /\ h \in N /\ h \in Brokers
      <4>1. s \in Seq(Brokers)
        BY <3>s
      <4>2. h \in N /\ h \in Brokers
        BY <2>4, <3>h DEF isLeader
      <4> QED
        BY <4>1, <4>2
    <3>1. /\ m \in Message /\ m.type = "MWOE" /\ m.piggyback = s
          /\ m.broker \in V \ M /\ m.broker \in Brokers
          /\ m.delay = conditionTable[b][m.broker]
          /\ \A c \in V \ M : m.delay <= conditionTable[b][c]
      BY <1>0, <2>2, <3>0, <3>m, ReportIs
    <3>2. SendsOver(g, F, h, m)
      BY <2>1, <2>4, <3>m, <3>s, <3>h DEF Seeks
    <3>3. it(b, h, m) \notin SentBy(b, g)
      BY <3>1 DEF it
    <3>4. Clean(F) /\ SentBy(b, F) = SentBy(b, g) \cup {r} /\ ~F.fault
      <4>1. m.type # "Update" /\ h \in NeighbourBrokers(g.st.neighboursMap)
        BY <3>0, <3>1
      <4>2. Clean(F) /\ SentBy(b, F) = SentBy(b, g) \cup {it(b, h, m)} /\ (F.fault <=> g.fault)
        BY <1>0, <3>0, <3>1, <3>2, <3>3, <4>1, OverClean
      <4> QED
        BY <3>r, <4>2
    <3>6. WellDue(F)
      BY <3>2 DEF SendsOver, WellDue
    <3>7. r.from = b /\ r.to = h /\ r.msg = m /\ r = it(r.from, r.to, r.msg)
      BY <3>r DEF it
    <3>8. FirstReport(r, b, M, V, N)
      BY <2>2, <3>0, <3>1, <3>7, <3>s DEF FirstReport
    <3> QED
      BY <1>2, <3>4, <3>6, <3>8
  <2> QED
    BY <2>3, <2>4
<1> QED
  BY <1>1, <1>2

(* The updates of broker b for the brokers of D.                           *)
Told(b, D, M) == {it(b, d, updateOf(b, M)) : d \in D}

(* Broker b, with effect f, goes over to the members M and the links N,    *)
(* tells its neighbours D, makes the reports R (one or none), and sends    *)
(* the requests C.                                                         *)
Grows(b, f, D, M, N, R, C) ==
    /\ Clean(f) /\ ~f.fault /\ WellDue(f)
    /\ f.st.initial = broker[b].initial
    /\ f.st.currentConvergence = broker[b].currentConvergence
    /\ f.st.availableBrokers = broker[b].availableBrokers
    /\ f.st.receivedMWOEs = broker[b].receivedMWOEs
    /\ f.st.members = M /\ M \in SUBSET Brokers /\ M # Members(b) /\ b \in M
    /\ NeighbourBrokers(f.st.neighboursMap) = N /\ N \in SUBSET Brokers
    /\ D \subseteq Linked(b) /\ Linked(b) \subseteq Brokers \ {b}
    /\ SentBy(b, f) = (Told(b, D, M) \cup R) \cup C
    /\ \/ M = Available(b) /\ R = {}
       \/ M # Available(b) /\ \E r : R = {r} /\ FirstReport(r, b, M, Available(b), N)

(* A handler posts an update,                                              *)
PostsUpdate(e, g, D, b, M) == Posts(e, g, D, updateOf(b, M))

(* and nothing else,                                                       *)
LEMMA PostedOnly ==
    ASSUME NEW b \in Brokers, NEW e, NEW g, Clean(e), g \in Effect, SentBy(b, e) = {},
           NEW D \in SUBSET Brokers, NEW m \in Message, Posts(e, g, D, m)
    PROVE  Clean(g) /\ SentBy(b, g) = {it(b, d, m) : d \in D}
<1>1. \A d \in D : it(b, d, m) \notin SentBy(b, e)
  OBVIOUS
<1>2. \A x \in SentBy(b, e) : x.msg.type # "MWOE"
  OBVIOUS
<1>3. Clean(g) /\ SentBy(b, g) = SentBy(b, e) \cup {it(b, d, m) : d \in D}
  BY <1>1, <1>2, PostClean
<1> QED
  BY <1>3

(* so that the neighbours are told.                                        *)
LEMMA UpdatesPosted ==
    ASSUME NEW b \in Brokers, NEW e, NEW g, Clean(e), g \in Effect, SentBy(b, e) = {},
           NEW D \in SUBSET Brokers, NEW M \in SUBSET Brokers, PostsUpdate(e, g, D, b, M)
    PROVE  Clean(g) /\ SentBy(b, g) = Told(b, D, M)
<1>m. PICK m : m = updateOf(b, M)
  OBVIOUS
<1>1. m \in Message
  BY <1>m, UpdateIs
<1>2. Posts(e, g, D, m)
  BY <1>m DEF PostsUpdate
<1>3. Clean(g) /\ SentBy(b, g) = {it(b, d, m) : d \in D}
  BY <1>1, <1>2, PostedOnly
<1> QED
  BY <1>3, <1>m DEF Told

(* A fragment that has grown looks for an edge, after its neighbours have  *)
(* been told.                                                              *)
LEMMA GrowthIs ==
    ASSUME NEW H, World(H), NEW b \in Brokers, NEW a \in Arrivals(b), IsWork(a.msg), Awake(b),
           Members(b) # Available(b), NEW e, Starts(e, b, a), NEW g, Grown(e, g),
           NEW D, D \subseteq Linked(b), NEW M, M = g.st.members, M # Members(b),
           NEW N, N = NeighbourBrokers(g.st.neighboursMap),
           PostsUpdate(e, g, D, b, M), g.fault <=> e.fault,
           NEW F, F = findAndSendMWOE(g)
    PROVE  Found(g, F) /\ \E R : Grows(b, F, D, M, N, R, {})
<1>0. /\ IsConditionTable(conditionTable) /\ IInv /\ FragmentsHold /\ JoinsOK(H)
  BY WorldHolds DEF World
<1>1. /\ Clean(e) /\ e.self = b /\ e.st = broker[b] /\ SentBy(b, e) = {} /\ ~e.fault
      /\ WellDue(e) /\ e.timers = timers[b] /\ Linked(b) \subseteq Brokers \ {b}
  BY WorkStarts
<1>2. /\ ListOK(H, broker[b]) /\ broker[b].bufferedSubs = {} /\ TimerJoins(timers[b]) = {}
  BY <1>0, AwakeRuns
<1>3. /\ g \in Effect /\ g.self = b /\ SameRound(broker[b], g.st) /\ g.timers = timers[b]
      /\ g.direct = e.direct /\ MapOK(g.st.neighboursMap)
      /\ b \in M /\ N \subseteq M /\ M \subseteq ToSet(g.st.availableBrokers)
      /\ g.st.componentId # b => g.st.leaderHop \in N
  BY <1>1 DEF Grown
<1>4. g.st.availableBrokers = broker[b].availableBrokers
  BY <1>3 DEF SameRound
<1>5. Searching(g)
  <2>1. g.st.bufferedSubs = {} /\ Distinct(g.st.availableBrokers)
    BY <1>2, <1>3 DEF SameRound, ListOK
  <2> QED
    BY <1>3, <2>1 DEF Searching
<1>6. Found(g, F)
  BY <1>0, <1>5, SearchIs
<1>7. M \in SUBSET Brokers /\ N \in SUBSET Brokers
  <2>1. g.st.availableBrokers \in Seq(Brokers)
    BY <1>3 DEF Effect, BrokerState
  <2>2. ToSet(g.st.availableBrokers) \subseteq Brokers
    BY <2>1, ElementsType
  <2> QED
    BY <1>3, <2>2
<1>9. Clean(g) /\ SentBy(b, g) = Told(b, D, M)
  <2>1. D \in SUBSET Brokers
    BY <1>1
  <2>2. Clean(e) /\ g \in Effect /\ SentBy(b, e) = {}
    BY <1>1, <1>3
  <2> QED
    BY <1>7, <2>1, <2>2, UpdatesPosted
<1>10. WellDue(g) /\ ~g.fault
  BY <1>1, <1>3 DEF WellDue
<1>11. \A x \in SentBy(b, g) : x.msg.type # "MWOE"
  BY <1>9 DEF Told, it, updateOf
<1>v. PICK V : V = ToSet(g.st.availableBrokers)
  OBVIOUS
<1>12. /\ Clean(F) /\ ~F.fault /\ WellDue(F)
       /\ Done(g.st) => SentBy(b, F) = SentBy(b, g)
       /\ ~Done(g.st) => \E r : /\ SentBy(b, F) = SentBy(b, g) \cup {r}
                                /\ FirstReport(r, b, M, V, N)
  <2>1. TimerJoins(g.timers) = {} /\ N \subseteq Brokers
    BY <1>2, <1>3, <1>7
  <2> QED
    BY <1>0, <1>3, <1>6, <1>9, <1>10, <1>11, <1>v, <2>1, SearchSends
<1>13. V = Available(b)
  BY <1>v, <1>4 DEF Available
<1>14. Done(g.st) <=> M = Available(b)
  BY <1>4 DEF Done, Available
<1>15. /\ F.st.initial = broker[b].initial
       /\ F.st.currentConvergence = broker[b].currentConvergence
       /\ F.st.availableBrokers = broker[b].availableBrokers
       /\ F.st.receivedMWOEs = broker[b].receivedMWOEs
       /\ F.st.members = M
       /\ NeighbourBrokers(F.st.neighboursMap) = N
  BY <1>3, <1>6 DEF Found, SameView, SameRound
<1>16. ASSUME NEW R, SentBy(b, F) = Told(b, D, M) \cup R,
              \/ M = Available(b) /\ R = {}
              \/ M # Available(b) /\ \E r : R = {r} /\ FirstReport(r, b, M, Available(b), N)
       PROVE  Grows(b, F, D, M, N, R, {})
  <2>1. SentBy(b, F) = (Told(b, D, M) \cup R) \cup {}
    BY <1>16
  <2> QED
    BY <1>1, <1>3, <1>7, <1>12, <1>15, <1>16, <2>1 DEF Grows
<1>17. CASE Done(g.st)
  <2>1. SentBy(b, F) = Told(b, D, M) \cup {}
    BY <1>9, <1>12, <1>17
  <2> QED
    BY <1>6, <1>14, <1>16, <1>17, <2>1
<1>18. CASE ~Done(g.st)
  <2>1. PICK r : SentBy(b, F) = SentBy(b, g) \cup {r} /\ FirstReport(r, b, M, Available(b), N)
    BY <1>12, <1>13, <1>18
  <2>2. SentBy(b, F) = Told(b, D, M) \cup {r}
    BY <1>9, <2>1
  <2> QED
    BY <1>6, <1>14, <1>16, <1>18, <2>1, <2>2
<1> QED
  BY <1>17, <1>18

(* A broker of which no fragment-mate is reporting has no report on its    *)
(* way, neither of its own nor one it passed on.                           *)
LEMMA QuietSender ==
    ASSUME NEW H, World(H), NEW b \in Brokers, Fits!Silent(b)
    PROVE  /\ \A x \in ReportItems : origin(x) # b
           /\ \A x \in Moving : x.from = b => x.msg.type # "MWOE"
           /\ Reported[b] = NULL
<1>0. NULL \notin Brokers /\ Fits!FragmentsInv
  BY NodesAssumption DEF World
<1>1. Reported[b] = NULL
  BY <1>0, Fits!SilentHasNone
<1>2. ASSUME NEW x \in ReportItems
      PROVE  origin(x) # b
  BY <1>1, <1>2, ReportFacts
<1>3. ASSUME NEW x \in Moving, x.from = b, x.msg.type = "MWOE"
      PROVE  FALSE
  <2>1. x \in ReportItems
    BY <1>3 DEF ReportItems
  <2>2. Shaped(x)
    BY DEF World, Placed, AllShaped
  <2>3. x.msg.piggyback # <<>> /\ Head(x.msg.piggyback) = b
    BY <1>0, <1>3, <2>2 DEF Shaped
  <2>4. IsReport(x) /\ origin(x) \in Brokers /\ Reported[origin(x)] # NULL
    BY <2>1, ReportFacts
  <2>5. b \in side(x)
    <3>1. x.msg.piggyback \in Seq(Brokers)
      BY <2>4 DEF IsReport
    <3>2. Head(x.msg.piggyback) \in ToSet(x.msg.piggyback)
      BY <2>3, <3>1, PathIn
    <3> QED
      BY <2>3, <3>2 DEF side
  <2>6. SameSide(b, origin(x))
    BY <2>1, <2>5, ReportFacts
  <2>7. KnownMembers[b] = Members(b) /\ KnownMembers[origin(x)] = Members(origin(x))
    BY <2>4, ViewFunctions
  <2> QED
    BY <2>4, <2>6, <2>7 DEF SameSide, Fits!Silent
<1> QED
  BY <1>1, <1>2, <1>3

(* What a growing broker sends is new.                                     *)
LEMMA ToldFresh ==
    ASSUME NEW H, World(H), NEW b \in Brokers, Awake(b), NEW M \in SUBSET Brokers, M # Members(b),
           NEW D, D \subseteq Linked(b), Linked(b) \subseteq Brokers, NEW x \in Told(b, D, M)
    PROVE  x \notin Moving /\ Shaped(x) /\ x.msg.type = "Update" /\ x.from = b /\ x.to \in D
           /\ Telling(x.from, x.to, x.msg) = [from |-> b, to |-> x.to, members |-> M]
<1>1. PICK d \in D : x = it(b, d, updateOf(b, M))
  BY DEF Told
<1>2. x.from = b /\ x.to = d /\ x.msg = updateOf(b, M) /\ d \in Brokers
  BY <1>1 DEF it
<1>3. x.msg.type = "Update" /\ x.msg.sender = b /\ x.msg.members = M
  BY <1>2 DEF updateOf
<1>4. Shaped(x)
  BY <1>2, <1>3 DEF Shaped
<1>5. Telling(x.from, x.to, x.msg) = [from |-> b, to |-> x.to, members |-> M]
  BY <1>2, <1>3 DEF Telling
<1>6. ASSUME x \in Moving
      PROVE  FALSE
  <2>u. PICK u : u = Telling(x.from, x.to, x.msg)
    OBVIOUS
  <2>1. u \in UnderWay
    BY <1>3, <1>6, <2>u, WorldHolds DEF ViewsOK
  <2>2. u.from = b /\ u.to = d /\ u.members = M
    BY <1>2, <1>5, <2>u
  <2>3. TakingPart[b] /\ LinkedTo[b] = Linked(b) /\ KnownMembers[b] = Members(b)
    BY ViewFunctions
  <2>4. u.members = KnownMembers[b]
    <3>1. u.to \in LinkedTo[b] /\ Fits!FragmentsInv
      BY <2>2, <2>3 DEF World
    <3> QED
      BY <2>1, <2>2, <2>3, <3>1, Fits!UpdateIsLast
  <2> QED
    BY <2>2, <2>3, <2>4
<1> QED
  BY <1>2, <1>3, <1>4, <1>5, <1>6

(* The first report of a broker about an edge.                             *)
LEMMA FirstReportFacts ==
    ASSUME NEW b \in Brokers, NEW r, NEW M, NEW V, NEW N, FirstReport(r, b, M, V, N)
    PROVE  Shaped(r) /\ r.msg.type = "MWOE" /\ origin(r) = b /\ r.from # NS
<1>0. NULL \notin Brokers /\ NS \notin Brokers /\ NULL # NS
  BY NodesAssumption
<1>1. CASE r.msg.piggyback = <<>> /\ r.from = NULL /\ r.to = b
  BY <1>0, <1>1 DEF FirstReport, Shaped, origin, Destination
<1>2. CASE r.msg.piggyback = <<b>> /\ r.from = b
  <2>1. <<b>> # <<>> /\ Head(<<b>>) = b /\ Last(<<b>>) = b
    BY DEF Last
  <2> QED
    BY <1>0, <1>2, <2>1 DEF FirstReport, Shaped, origin, Destination
<1> QED
  BY <1>1, <1>2 DEF FirstReport

(* The items after a growing step.                                         *)
LEMMA GrowthItems ==
    ASSUME NEW H, World(H), IInv', NEW b \in Brokers, NEW a \in Arrivals(b), IsWork(a.msg),
           a.msg.type # "MWOE", Awake(b), Fits!Silent(b),
           NEW f, Acts(b, a, f), NEW D, NEW M, NEW N, NEW R, NEW C, Grows(b, f, D, M, N, R, C),
           \A x \in C : x \notin Moving /\ Shaped(x) /\ x.msg.type = "Connect",
           NEW g, g = it(a.from, b, a.msg)
    PROVE  /\ Placed'
           /\ ReportItems' = ReportItems \cup R /\ OrderItems' = OrderItems \ {g}
           /\ \A x \in R : Shaped(x) /\ origin(x) = b /\ x.msg.type = "MWOE"
<1>0. /\ IInv /\ Placed /\ ItemsOK /\ ViewsOK
      /\ Linked(b) \subseteq Brokers /\ D \subseteq Linked(b) /\ M \in SUBSET Brokers
      /\ M # Members(b)
  BY WorldHolds DEF World, Grows
<1>1. /\ \A x \in ReportItems : origin(x) # b
      /\ \A x \in Moving : x.from = b => x.msg.type # "MWOE"
  BY QuietSender
<1>2. /\ Clean(f) /\ SentBy(b, f) = (Told(b, D, M) \cup R) \cup C
      /\ f.st.receivedMWOEs = broker[b].receivedMWOEs
  BY DEF Grows
<1>3. \A x \in Told(b, D, M) : x \notin Moving /\ Shaped(x) /\ x.msg.type = "Update"
  BY <1>0, ToldFresh
<1>4. \A x \in R : Shaped(x) /\ origin(x) = b /\ x.msg.type = "MWOE"
  BY FirstReportFacts DEF Grows
<1>5. \A x \in R : x \notin Moving
  BY <1>1, <1>4 DEF ReportItems
<1>6. Sent(b, f, "MWOE") = R /\ Sent(b, f, "Expand") = {}
  BY <1>2, <1>3, <1>4 DEF Sent
<1>7. g.msg.type # "MWOE"
  BY DEF it
<1>8. ReportItems' = ReportItems \cup R
  <2>1. ReportItems' = (ReportItems \ {g}) \cup Sent(b, f, "MWOE")
    BY <1>0, <1>2, ReportsMoveSame
  <2>2. g \notin ReportItems
    BY <1>7, ReportFacts DEF IsReport
  <2> QED
    BY <1>6, <2>1, <2>2
<1>9. OrderItems' = OrderItems \ {g}
  <2>1. OrderItems' = (OrderItems \ {g}) \cup Sent(b, f, "Expand")
    BY <1>0, OrdersMove
  <2> QED
    BY <1>6, <2>1
<1>10. Unique(ReportItems') /\ Unique(OrderItems')
  <2>1. \A x, y \in R : x = y
    BY DEF Grows
  <2>2. Unique(ReportItems) /\ Unique(OrderItems)
    BY <1>0 DEF Placed
  <2>3. Unique(ReportItems \cup R)
    BY <1>1, <1>4, <2>1, <2>2 DEF Unique
  <2>4. Unique(OrderItems \ {g})
    BY <2>2 DEF Unique
  <2> QED
    BY <1>8, <1>9, <2>3, <2>4
<1>11. Placed'
  <2>1. Distinct(f.direct) /\ NeatOut(f.out)
    BY <1>2 DEF Clean
  <2>2. \A x \in SentBy(b, f) : x \notin Moving /\ Shaped(x)
    BY <1>2, <1>3, <1>4, <1>5
  <2>3. Tidy(f.st.receivedMWOEs)
    BY <1>0, <1>2 DEF Placed
  <2> QED
    BY <1>1, <1>10, <2>1, <2>2, <2>3, PlacedStep
<1> QED
  BY <1>4, <1>8, <1>9, <1>11

(* Two Connect messages that say the same are one item,                    *)
LEMMA RequestItem ==
    ASSUME IInv, Placed, NEW x \in Moving, NEW y \in Moving,
           x.msg.type = "Connect", y.msg.type = "Connect", Asking(x.to, x.msg) = Asking(y.to, y.msg)
    PROVE  x = y
<1>1. x = it(x.from, x.to, x.msg) /\ x.msg \in ConnectMessage /\ x.from = NULL
  BY ItemsFit, MessageTypes DEF ItemsOK, Placed, AllShaped, Shaped
<1>2. y = it(y.from, y.to, y.msg) /\ y.msg \in ConnectMessage /\ y.from = NULL
  BY ItemsFit, MessageTypes DEF ItemsOK, Placed, AllShaped, Shaped
<1>3. x.to = y.to
  BY DEF Asking
<1>4. x.msg = y.msg
  BY <1>1, <1>2, <1>3, AskingIs
<1> QED
  BY <1>1, <1>2, <1>3, <1>4

(* and so are two updates.                                                 *)
LEMMA UpdateItem ==
    ASSUME IInv, Placed, NEW x \in Moving, NEW y \in Moving,
           x.msg.type = "Update", y.msg.type = "Update",
           Telling(x.from, x.to, x.msg) = Telling(y.from, y.to, y.msg)
    PROVE  x = y
<1>1. x = it(x.from, x.to, x.msg) /\ x.msg \in UpdateMessage /\ x.msg.sender = x.from
  BY ItemsFit, MessageTypes DEF ItemsOK, Placed, AllShaped, Shaped
<1>2. y = it(y.from, y.to, y.msg) /\ y.msg \in UpdateMessage /\ y.msg.sender = y.from
  BY ItemsFit, MessageTypes DEF ItemsOK, Placed, AllShaped, Shaped
<1>3. x.to = y.to /\ x.from = y.from /\ x.msg.members = y.msg.members
  BY DEF Telling
<1>4. x.msg = y.msg
  BY <1>1, <1>2, <1>3 DEF UpdateMessage
<1> QED
  BY <1>1, <1>2, <1>3, <1>4

(* A request is taken,                                                     *)
LEMMA AsksLess ==
    ASSUME IInv, Placed, ViewsOK, ViewsOK', NEW g \in Moving, g.msg.type = "Connect",
           NEW N, Moving' = (Moving \ {g}) \cup N, \A x \in N : x.msg.type # "Connect"
    PROVE  Asks' = Asks \ {Asking(g.to, g.msg)}
<1>1. ASSUME NEW r
      PROVE  r \in Asks' <=> \E x \in Moving' : x.msg.type = "Connect" /\ r = Asking(x.to, x.msg)
  BY DEF ViewsOK, Asking
<1>2. ASSUME NEW r
      PROVE  r \in Asks <=> \E x \in Moving : x.msg.type = "Connect" /\ r = Asking(x.to, x.msg)
  BY DEF ViewsOK
<1>3. \A x \in Moving : x.msg.type = "Connect" /\ Asking(x.to, x.msg) = Asking(g.to, g.msg) => x = g
  BY RequestItem
<1>4. ASSUME NEW r
      PROVE  r \in Asks' <=> r \in Asks \ {Asking(g.to, g.msg)}
  BY <1>1, <1>2, <1>3
<1> QED
  BY <1>4

(* or an update.                                                           *)
LEMMA UnderWayLess ==
    ASSUME IInv, Placed, ViewsOK, ViewsOK', NEW g \in Moving, g.msg.type = "Update",
           NEW N, Moving' = (Moving \ {g}) \cup N
    PROVE  UnderWay' = (UnderWay \ {Telling(g.from, g.to, g.msg)}) \cup
              {Telling(x.from, x.to, x.msg) : x \in {y \in N : y.msg.type = "Update"}}
<1>1. ASSUME NEW r
      PROVE  r \in UnderWay' <=>
               \E x \in Moving' : x.msg.type = "Update" /\ r = Telling(x.from, x.to, x.msg)
  BY DEF ViewsOK, Telling
<1>2. ASSUME NEW r
      PROVE  r \in UnderWay <=>
               \E x \in Moving : x.msg.type = "Update" /\ r = Telling(x.from, x.to, x.msg)
  BY DEF ViewsOK
<1>3. \A x \in Moving : x.msg.type = "Update" =>
         (Telling(x.from, x.to, x.msg) = Telling(g.from, g.to, g.msg) => x = g)
  BY UpdateItem
<1>4. ASSUME NEW r
      PROVE  r \in UnderWay' <=> r \in (UnderWay \ {Telling(g.from, g.to, g.msg)}) \cup
              {Telling(x.from, x.to, x.msg) : x \in {y \in N : y.msg.type = "Update"}}
  BY <1>1, <1>2, <1>3
<1> QED
  BY <1>4

(* The state of the brokers after a growing step.                          *)
LEMMA GrowthState ==
    ASSUME IInv, QueueOK(now), NEW b \in Brokers, NEW a \in Arrivals(b), IsWork(a.msg),
           NEW f, Acts(b, a, f), NEW D, NEW M, NEW N, NEW R, NEW C, Grows(b, f, D, M, N, R, C)
    PROVE  /\ Rounds' = Rounds /\ BuildsOver' = BuildsOver /\ TakingPart' = TakingPart
           /\ KnownMembers' = [KnownMembers EXCEPT ![b] = M]
           /\ LinkedTo' = [LinkedTo EXCEPT ![b] = N]
           /\ conditionTable' = conditionTable
           /\ Asked' = [Asked EXCEPT ![b] = f.st.sentConnects]
           /\ KeptForLater' = [KeptForLater EXCEPT ![b] =
                                 {Asking(b, con) : con \in f.st.receivedConnects}]
           /\ ~crashed'
<1>1. /\ Rounds' = [Rounds EXCEPT ![b] = f.st.currentConvergence]
      /\ BuildsOver' = [BuildsOver EXCEPT ![b] = ToSet(f.st.availableBrokers)]
      /\ KnownMembers' = [KnownMembers EXCEPT ![b] = f.st.members]
      /\ LinkedTo' = [LinkedTo EXCEPT ![b] = NeighbourBrokers(f.st.neighboursMap)]
      /\ Asked' = [Asked EXCEPT ![b] = f.st.sentConnects]
      /\ KeptForLater' = [KeptForLater EXCEPT ![b] =
                                 {Asking(b, con) : con \in f.st.receivedConnects}]
      /\ conditionTable' = conditionTable
  BY StateViews
<1>2. /\ f.st.currentConvergence = Round(b) /\ ToSet(f.st.availableBrokers) = Available(b)
      /\ f.st.members = M /\ NeighbourBrokers(f.st.neighboursMap) = N
      /\ f.st.initial = broker[b].initial /\ WellDue(f) /\ ~f.fault
  BY DEF Grows, Round, Available
<1>3. Rounds' = Rounds /\ BuildsOver' = BuildsOver
  BY <1>1, <1>2 DEF Rounds, BuildsOver
<1>4. TakingPart' = TakingPart
  BY <1>2, WorkKeepsPart
<1>5. ~crashed'
  BY <1>2 DEF Acts, End
<1> QED
  BY <1>1, <1>2, <1>3, <1>4, <1>5

(* The updates broker b sends to D when its members have become M.         *)
NewUpdates(b, D, M) == {[from |-> b, to |-> d, members |-> M] : d \in D}

(* What growing does to the updates and the requests on their way.         *)
Exchanged(a, b, U, C) ==
    /\ a.msg.type # "Update" => UnderWay' = UnderWay \cup U
    /\ a.msg.type = "Update" =>
         UnderWay' = (UnderWay \ {Telling(a.from, b, a.msg)}) \cup U
    /\ a.msg.type # "Connect" => Asks' = Asks \cup {Asking(x.to, x.msg) : x \in C}
    /\ a.msg.type = "Connect" /\ C = {} => Asks' = Asks \ {Asking(b, a.msg)}

(* The requests and updates after a fragment has grown.                    *)
LEMMA GrowthMessages ==
    ASSUME NEW H, World(H), IInv', NEW b \in Brokers, NEW a \in Arrivals(b), IsWork(a.msg),
           Awake(b), NEW f, Acts(b, a, f), NEW D, NEW M, NEW N, NEW R, NEW C,
           Grows(b, f, D, M, N, R, C), \A x \in C : x.msg.type = "Connect", Placed'
    PROVE  Exchanged(a, b, NewUpdates(b, D, M), C)
<1>g. PICK g : g = it(a.from, b, a.msg)
  OBVIOUS
<1>U. PICK U : U = NewUpdates(b, D, M)
  OBVIOUS
<1>R. \A x \in R : x.msg.type = "MWOE"
  BY DEF Grows, FirstReport
<1>0. /\ IInv /\ Placed /\ ViewsOK /\ ViewsOK'
  BY WorldHolds, ViewsFitNext DEF World
<1>1. SentBy(b, f) = (Told(b, D, M) \cup R) \cup C
  BY DEF Grows
<1>2. /\ Moving' = (Moving \ {g}) \cup SentBy(b, f)
      /\ g \in Moving /\ g.from = a.from /\ g.to = b /\ g.msg = a.msg
  BY <1>0, <1>g, ItemsMove, WorkItem
<1>3. \A x \in Told(b, D, M) :
         /\ x.msg.type = "Update"
         /\ Telling(x.from, x.to, x.msg) = [from |-> b, to |-> x.to, members |-> M]
         /\ x.to \in D
  BY ToldFresh DEF Grows
<1>4. \A d \in D : \E x \in Told(b, D, M) : x.to = d
  <2>1. ASSUME NEW d \in D
        PROVE  \E x \in Told(b, D, M) : x.to = d
    <3>1. it(b, d, updateOf(b, M)) \in Told(b, D, M)
      BY DEF Told
    <3>2. it(b, d, updateOf(b, M)).to = d
      BY DEF it
    <3> QED
      BY <3>1, <3>2
  <2> QED
    BY <2>1
<1>5. {y \in SentBy(b, f) : y.msg.type = "Update"} = Told(b, D, M)
  BY <1>1, <1>3, <1>R
<1>6. {y \in SentBy(b, f) : y.msg.type = "Connect"} = C
  BY <1>1, <1>3, <1>R
<1>7. {Telling(x.from, x.to, x.msg) : x \in Told(b, D, M)} = U
  <2>1. {Telling(x.from, x.to, x.msg) : x \in Told(b, D, M)} =
          {[from |-> b, to |-> x.to, members |-> M] : x \in Told(b, D, M)}
    BY <1>3
  <2> QED
    BY <1>3, <1>4, <1>U, <2>1 DEF NewUpdates
<1>8. ASSUME a.msg.type # "Update"
      PROVE  UnderWay' = UnderWay \cup U
  <2>G. PICK G : G = {g}
    OBVIOUS
  <2>S. PICK S : S = SentBy(b, f)
    OBVIOUS
  <2>1. /\ ViewsOK /\ ViewsOK' /\ Moving' = (Moving \ G) \cup S
        /\ \A x \in G : x.msg.type # "Update"
    BY <1>0, <1>2, <1>8, <2>G, <2>S
  <2>2. UnderWay' = UnderWay \cup
              {Telling(x.from, x.to, x.msg) : x \in {y \in S : y.msg.type = "Update"}}
    BY <2>1, UnderWayMove
  <2> QED
    BY <1>5, <1>7, <2>S, <2>2
<1>9. ASSUME a.msg.type = "Update"
      PROVE  UnderWay' = (UnderWay \ {Telling(a.from, b, a.msg)}) \cup U
  <2>2. UnderWay' = (UnderWay \ {Telling(g.from, g.to, g.msg)}) \cup
              {Telling(x.from, x.to, x.msg) : x \in {y \in SentBy(b, f) : y.msg.type = "Update"}}
    BY <1>0, <1>2, <1>9, UnderWayLess
  <2> QED
    BY <1>2, <1>5, <1>7, <2>2
<1>10. ASSUME a.msg.type # "Connect"
       PROVE  Asks' = Asks \cup {Asking(x.to, x.msg) : x \in C}
  <2>G. PICK G : G = {g}
    OBVIOUS
  <2>S. PICK S : S = SentBy(b, f)
    OBVIOUS
  <2>1. /\ ViewsOK /\ ViewsOK' /\ Moving' = (Moving \ G) \cup S
        /\ \A x \in G : x.msg.type # "Connect"
    BY <1>0, <1>2, <1>10, <2>G, <2>S
  <2>2. Asks' = Asks \cup
              {Asking(x.to, x.msg) : x \in {y \in S : y.msg.type = "Connect"}}
    BY <2>1, AsksMove
  <2> QED
    BY <1>6, <2>S, <2>2
<1>11. ASSUME a.msg.type = "Connect", C = {}
       PROVE  Asks' = Asks \ {Asking(b, a.msg)}
  <2>1. \A x \in SentBy(b, f) : x.msg.type # "Connect"
    BY <1>6, <1>11
  <2>2. Asks' = Asks \ {Asking(g.to, g.msg)}
    BY <1>0, <1>2, <1>11, <2>1, AsksLess
  <2> QED
    BY <1>2, <2>2
<1> QED
  BY <1>8, <1>9, <1>10, <1>11, <1>U DEF Exchanged

(* What broker b reports after a growing step.                             *)
LEMMA GrowthReport ==
    ASSUME ViewsOK, ViewsOK', NEW b \in Brokers, NEW f, NEW D, NEW M, NEW N, NEW R, NEW C,
           Grows(b, f, D, M, N, R, C), ReportItems' = ReportItems \cup R,
           \A x \in ReportItems : origin(x) # b
    PROVE  \E c \in Fits!Reports(b, M, Available(b)) : Reported' = [Reported EXCEPT ![b] = c]
<1>0. Reported \in [Brokers -> Brokers \cup {NULL}] /\ Reported' \in [Brokers -> Brokers \cup {NULL}]
  BY DEF ViewsOK
<1>1. \A x \in R : origin(x) = b
  BY FirstReportFacts DEF Grows
<1>2. ASSUME NEW d \in Brokers, d # b
      PROVE  Reported'[d] = Reported[d]
  <2>1. \A z \in Brokers : (\E x \in ReportItems' : origin(x) = d /\ x.msg.broker = z)
                             <=> \E x \in ReportItems : origin(x) = d /\ x.msg.broker = z
    BY <1>1, <1>2
  <2> QED
    BY <2>1, ReportedSame
<1>3. ASSUME NEW c, Reported'[b] = c
      PROVE  Reported' = [Reported EXCEPT ![b] = c]
  <2>1. \A d \in Brokers : Reported'[d] = [Reported EXCEPT ![b] = c][d]
    BY <1>0, <1>2, <1>3
  <2> QED
    BY <1>0, <1>3, <2>1
<1>4. CASE M = Available(b) /\ R = {}
  <2>1. Reported'[b] = NULL
    BY <1>4, ReportedNot
  <2>2. NULL \in Fits!Reports(b, M, Available(b))
    BY <1>4 DEF Fits!Reports
  <2> QED
    BY <1>3, <2>1, <2>2
<1>5. CASE M # Available(b)
  <2>1. PICK r : R = {r} /\ FirstReport(r, b, M, Available(b), N)
    BY <1>5 DEF Grows
  <2>2. /\ r \in ReportItems' /\ origin(r) = b /\ r.msg.broker \in Brokers
        /\ r.msg.broker \in Available(b) \ M
        /\ \A c \in Available(b) \ M : conditionTable[b][r.msg.broker] <= conditionTable[b][c]
    BY <1>1, <2>1 DEF FirstReport
  <2>3. Reported'[b] = r.msg.broker
    BY <2>2, ReportedNow
  <2>4. r.msg.broker \in Fits!Reports(b, M, Available(b))
    BY <1>5, <2>2 DEF Fits!Reports
  <2> QED
    BY <1>3, <2>3, <2>4
<1> QED
  BY <1>4, <1>5 DEF Grows

(* What brokers have been told to ask.                                     *)
LEMMA GrowthTold ==
    ASSUME ViewsOK, ViewsOK', Placed, NEW b \in Brokers, NEW g, OrderItems' = OrderItems \ {g}
    PROVE  /\ g \notin OrderItems => ToldToAsk' = ToldToAsk
           /\ g \in OrderItems /\ origin(g) = b => ToldToAsk' = [ToldToAsk EXCEPT ![b] = NULL]
<1>0. ToldToAsk \in [Brokers -> Brokers \cup {NULL}] /\ ToldToAsk' \in [Brokers -> Brokers \cup {NULL}]
  BY DEF ViewsOK
<1>1. ASSUME g \notin OrderItems
      PROVE  ToldToAsk' = ToldToAsk
  <2>1. OrderItems' = OrderItems
    BY <1>1
  <2>2. ASSUME NEW d \in Brokers
        PROVE  ToldToAsk'[d] = ToldToAsk[d]
    BY <2>1, ToldSame
  <2> QED
    BY <2>2, AllTold
<1>2. ASSUME g \in OrderItems, origin(g) = b
      PROVE  ToldToAsk' = [ToldToAsk EXCEPT ![b] = NULL]
  <2>1. \A x \in OrderItems' : origin(x) # b
    BY <1>2 DEF Placed, Unique
  <2>2. ToldToAsk'[b] = NULL
    BY <2>1, ToldNot
  <2>3. ASSUME NEW d \in Brokers, d # b
        PROVE  ToldToAsk'[d] = ToldToAsk[d]
    <3>1. \A z \in Brokers : (\E x \in OrderItems' : origin(x) = d /\ x.msg.broker = z)
                               <=> \E x \in OrderItems : origin(x) = d /\ x.msg.broker = z
      BY <1>2, <2>3
    <3> QED
      BY <3>1, ToldSame
  <2>4. \A d \in Brokers : ToldToAsk'[d] = [ToldToAsk EXCEPT ![b] = NULL][d]
    BY <1>0, <2>2, <2>3
  <2> QED
    BY <1>0, <2>2, <2>4
<1> QED
  BY <1>1, <1>2

(* The first report's way.                                                 *)
LEMMA FirstReportTrip ==
    ASSUME NEW b \in Brokers, NEW r, NEW M, NEW V, NEW N, FirstReport(r, b, M, V, N),
           TakingPart'[b], Linked(b)' = N, conditionTable' = conditionTable
    PROVE  ReportTrip(r)'
<1>0. NULL \notin Brokers /\ NS \notin Brokers /\ NULL # NS
  BY NodesAssumption
<1>1. origin(r) = b /\ r.from # NS
  BY FirstReportFacts
<1>2. SameSide(b, b)'
  BY DEF SameSide, Fits!Peers
<1>3. r.from \in Brokers => r.from = b /\ r.to \in N
  BY <1>0 DEF FirstReport
<1>4. r.msg.delay = conditionTable[b][r.msg.broker]
  BY DEF FirstReport
<1>5. ToSet(r.msg.piggyback) \subseteq {b} /\ PathBack(r.msg.piggyback)'
  <2>1. CASE r.msg.piggyback = <<>>
    BY <2>1, NoElements DEF PathBack
  <2>2. CASE r.msg.piggyback = <<b>>
    <3>1. ToSet(<<b>>) = {b} /\ Len(<<b>>) = 1
      BY OneElement
    <3> QED
      BY <2>2, <3>1 DEF PathBack
  <2> QED
    BY <2>1, <2>2 DEF FirstReport
<1>6. \A y \in side(r) : y = b
  BY <1>1, <1>5 DEF side
<1>7. side(r)' = side(r) /\ origin(r)' = origin(r)
  OBVIOUS
<1> QED
  BY <1>1, <1>2, <1>3, <1>4, <1>5, <1>6 DEF ReportTrip

(* What a growing step is to the fragments.                                *)
Merged(b, f, D, M, N) ==
    /\ Rounds' = Rounds /\ BuildsOver' = BuildsOver /\ TakingPart' = TakingPart
    /\ KnownMembers' = [KnownMembers EXCEPT ![b] = M]
    /\ LinkedTo' = [LinkedTo EXCEPT ![b] = N]
    /\ conditionTable' = conditionTable
    /\ Asked' = [Asked EXCEPT ![b] = f.st.sentConnects]
    /\ KeptForLater' = [KeptForLater EXCEPT ![b] =
                          {Asking(b, con) : con \in f.st.receivedConnects}]
    /\ \E c \in Fits!Reports(b, M, Available(b)) : Reported' = [Reported EXCEPT ![b] = c]

(* What Fragments sees of it,                                              *)
LEMMA GrowthMerges ==
    ASSUME NEW H, World(H), IInv', NEW b \in Brokers, NEW a \in Arrivals(b), IsWork(a.msg),
           a.msg.type # "MWOE", Awake(b), Fits!Silent(b),
           NEW f, Acts(b, a, f), NEW D, NEW M, NEW N, NEW R, NEW C, Grows(b, f, D, M, N, R, C),
           \A x \in C : x \notin Moving /\ Shaped(x) /\ x.msg.type = "Connect",
           NEW g, g = it(a.from, b, a.msg)
    PROVE  /\ Placed' /\ (ItemsOK /\ ViewsOK)' /\ ~crashed'
           /\ ReportItems' = ReportItems \cup R /\ OrderItems' = OrderItems \ {g}
           /\ Merged(b, f, D, M, N)
<1>0. /\ IInv /\ Placed /\ ItemsOK /\ ViewsOK /\ QueueOK(now)
  BY WorldHolds DEF World
<1>1. /\ Placed' /\ ReportItems' = ReportItems \cup R /\ OrderItems' = OrderItems \ {g}
  BY GrowthItems
<1>2. (ItemsOK /\ ViewsOK)'
  BY <1>1, ViewsFitNext
<1>3. /\ Rounds' = Rounds /\ BuildsOver' = BuildsOver /\ TakingPart' = TakingPart
      /\ KnownMembers' = [KnownMembers EXCEPT ![b] = M]
      /\ LinkedTo' = [LinkedTo EXCEPT ![b] = N]
      /\ conditionTable' = conditionTable
      /\ Asked' = [Asked EXCEPT ![b] = f.st.sentConnects]
      /\ KeptForLater' = [KeptForLater EXCEPT ![b] =
                            {Asking(b, con) : con \in f.st.receivedConnects}]
      /\ ~crashed'
  BY <1>0, GrowthState
<1>4. \E c \in Fits!Reports(b, M, Available(b)) : Reported' = [Reported EXCEPT ![b] = c]
  <2>1. \A x \in ReportItems : origin(x) # b
    BY QuietSender
  <2> QED
    BY <1>0, <1>1, <1>2, <2>1, GrowthReport
<1> QED
  BY <1>1, <1>2, <1>3, <1>4 DEF Merged

(* and the reports and orders on their way are still good.                 *)
LEMMA GrowthStepped ==
    ASSUME NEW H, World(H), NEW b \in Brokers, Awake(b), NEW g,
           NEW f, NEW D, NEW M, NEW N, NEW R, NEW C, Grows(b, f, D, M, N, R, C),
           Placed', ~crashed', ReportItems' = ReportItems \cup R, OrderItems' = OrderItems \ {g},
           Merged(b, f, D, M, N), Abstractly
    PROVE  Stepped
<1>1. TakingPart'[b] /\ Linked(b)' = N /\ conditionTable' = conditionTable
  <2>1. TakingPart'[b] = TakingPart[b] /\ TakingPart[b] = Awake(b)
    BY ViewFunctions DEF Merged
  <2>2. LinkedTo'[b] = Linked(b)' /\ LinkedTo'[b] = N
    BY ViewFunctionsNext DEF Merged, LinkedTo
  <2> QED
    BY <2>1, <2>2 DEF Merged
<1>2. \A x \in R : ReportTrip(x)'
  BY <1>1, FirstReportTrip DEF Grows
<1>3. \A x \in ReportItems : ReportTrip(x) /\ Reported[origin(x)] # NULL
  BY ReportFacts
<1>4. \A x \in OrderItems : OrderTrip(x) /\ ToldToAsk[origin(x)] # NULL
  BY OrderFacts
<1> QED
  BY <1>1, <1>2, <1>3, <1>4 DEF Stepped

-----------------------------------------------------------------------------
(* A fragment is linked to another one.                                    *)

(* A broker that links to c, and takes over the members K.                 *)
Linking(b, c, K, f, D, M, N) ==
    /\ M = Members(b) \cup K /\ N = Linked(b) \cup {c} /\ D = Linked(b)
    /\ Merged(b, f, D, M, N)
    /\ UnderWay' = UnderWay \cup NewUpdates(b, D, M)

(* A broker that links to c merges the fragments.                          *)
LEMMA LinkingMerges ==
    ASSUME NEW b \in Brokers, NEW c, NEW K, NEW f, NEW D, NEW M, NEW N,
           Linking(b, c, K, f, D, M, N)
    PROVE  Fits!Merge(b, c, K)
<1>0. /\ M = Members(b) \cup K /\ N = Linked(b) \cup {c} /\ D = Linked(b)
      /\ Merged(b, f, D, M, N)
      /\ UnderWay' = UnderWay \cup {[from |-> b, to |-> d, members |-> M] : d \in D}
  BY DEF Linking, NewUpdates
<1>1. KnownMembers[b] = Members(b) /\ LinkedTo[b] = Linked(b) /\ BuildsOver[b] = Available(b)
  BY ViewFunctions
<1>2. KnownMembers' = [KnownMembers EXCEPT ![b] = @ \cup K]
  BY <1>0, <1>1 DEF Merged
<1>3. LinkedTo' = [LinkedTo EXCEPT ![b] = @ \cup {c}]
  BY <1>0, <1>1 DEF Merged
<1>4. \E r \in Fits!Reports(b, KnownMembers[b] \cup K, BuildsOver[b]) :
         Reported' = [Reported EXCEPT ![b] = r]
  BY <1>0, <1>1 DEF Merged
<1>5. UnderWay' = UnderWay \cup
        {[from |-> b, to |-> d, members |-> KnownMembers[b] \cup K] : d \in LinkedTo[b]}
  BY <1>0, <1>1
<1> QED
  BY <1>0, <1>2, <1>3, <1>4, <1>5 DEF Merged, Fits!Merge

(* Data members for requests that stay as they are.                        *)
LEMMA RequestsStay ==
    ASSUME NEW b \in Brokers, NEW f, NEW D, NEW M, NEW N, Merged(b, f, D, M, N),
           f.st.sentConnects = broker[b].sentConnects,
           f.st.receivedConnects = broker[b].receivedConnects
    PROVE  Asked' = Asked /\ KeptForLater' = KeptForLater
<1>1. Asked[b] = broker[b].sentConnects
      /\ KeptForLater[b] = {Asking(b, con) : con \in broker[b].receivedConnects}
  BY ViewFunctions
<1>2. Asked' = [Asked EXCEPT ![b] = Asked[b]]
  BY <1>1 DEF Merged
<1>3. KeptForLater' = [KeptForLater EXCEPT ![b] = KeptForLater[b]]
  BY <1>1 DEF Merged
<1>4. Asked' = Asked
  BY <1>2 DEF Asked
<1>5. KeptForLater' = KeptForLater
  BY <1>3 DEF KeptForLater
<1> QED
  BY <1>4, <1>5

(* What a merging broker does first.                                       *)
LEMMA MergeGrowth ==
    ASSUME NEW H, World(H), NEW b \in Brokers, NEW a \in Arrivals(b), IsWork(a.msg), Awake(b),
           NEW e, Starts(e, b, a), NEW con \in ConnectMessage, Joinable(b, con),
           NEW g, Merges(e, g, con.broker, con.members),
           NEW F, F = findAndSendMWOE(g),
           NEW M, M = Members(b) \cup con.members, NEW N, N = Linked(b) \cup {con.broker}
    PROVE  /\ Members(b) # Available(b)
           /\ \E R : Grows(b, F, Linked(b), M, N, R, {})
           /\ F.st.sentConnects = broker[b].sentConnects
           /\ F.st.receivedConnects = broker[b].receivedConnects
<1>0. IInv /\ FragmentsHold /\ JoinsOK(H)
  BY WorldHolds DEF World
<1>1. /\ con.broker \in Available(b) \ Members(b) /\ con.broker \in con.members
      /\ con.members \subseteq Available(b)
  BY DEF Joinable
<1>2. Members(b) # Available(b)
  BY <1>1
<1>3. /\ e \in Effect /\ e.self = b /\ e.st = broker[b] /\ WellSent(b, e.out)
  <2>1. e = Start(b, a)
    BY DEF Starts
  <2> QED
    BY <1>0, <2>1, StartWell
<1>4. Grown(e, g)
  <2>1. con.members \in SUBSET Available(b)
    BY <1>1
  <2> QED
    BY <1>0, <1>1, <1>3, <2>1, MergeGrows
<1>5. /\ M = g.st.members /\ N = NeighbourBrokers(g.st.neighboursMap)
      /\ g.fault <=> e.fault
      /\ PostsUpdate(e, g, Linked(b), b, M)
      /\ g.st.sentConnects = broker[b].sentConnects
      /\ g.st.receivedConnects = broker[b].receivedConnects
  BY <1>3 DEF Merges, PostsUpdate, Posts, Linked, Members, SameConnects
<1>6. M # Members(b)
  BY <1>1
<1>7. Found(g, F) /\ \E R : Grows(b, F, Linked(b), M, N, R, {})
  BY <1>2, <1>4, <1>5, <1>6, GrowthIs
<1>8. SameConnects(g.st, F.st)
  BY <1>7 DEF Found
<1> QED
  BY <1>2, <1>5, <1>7, <1>8 DEF SameConnects

(* An answer is sent after the report.                                     *)
LEMMA GrowsMore ==
    ASSUME NEW b \in Brokers, NEW F, NEW D, NEW M, NEW N, NEW R, Grows(b, F, D, M, N, R, {}),
           NEW c \in Brokers, NEW k \in Message, k.type = "Connect", Quick(To(c, k)),
           NEW f, SendsNow(F, f, c, k), OnlySends(F, f), NEW y, y = it(NULL, c, k)
    PROVE  Grows(b, f, D, M, N, R, {y})
<1>1. /\ Clean(F) /\ ~F.fault /\ WellDue(F) /\ SentBy(b, F) = (Told(b, D, M) \cup R) \cup {}
      /\ F \in Effect
  BY DEF Grows, Clean
<1>2. c \in Nodes /\ f \in Effect
  BY DEF Nodes, OnlySends
<1>3. it(NULL, c, k) \notin SentBy(b, F)
  <2>1. \A x \in Told(b, D, M) : x.msg.type = "Update"
    BY DEF Told, it, updateOf
  <2>2. \A x \in R : x.msg.type = "MWOE"
    BY DEF Grows, FirstReport
  <2>3. it(NULL, c, k).msg.type = "Connect"
    BY DEF it
  <2> QED
    BY <1>1, <2>1, <2>2, <2>3
<1>4. Clean(f) /\ SentBy(b, f) = SentBy(b, F) \cup {it(NULL, c, k)}
  BY <1>1, <1>2, <1>3, NowClean
<1>5. SentBy(b, f) = (Told(b, D, M) \cup R) \cup {y}
  BY <1>1, <1>4
<1>6. WellDue(f)
  BY <1>1, SentNowWell
<1>7. ~f.fault
  BY <1>1 DEF SendsNow
<1>8. f.st = F.st
  BY DEF OnlySends
<1> QED
  BY <1>4, <1>5, <1>6, <1>7, <1>8 DEF Grows

(* Broker b has been asked already: it links, and answers.                 *)
LEMMA OrderAnswers ==
    ASSUME NEW H, World(H), IInv', NEW b \in Brokers, NEW a \in Arrivals(b), a.msg.type = "Expand",
           a.msg.piggyback = <<>>, NEW e, Starts(e, b, a),
           ConnectsFrom(e, a.msg.broker) # {},
           NEW f, f = handleExpandMessage(e, a.msg), Acts(b, a, f)
    PROVE  Stepped
<1>g. PICK g : g = it(a.from, b, a.msg)
  OBVIOUS
<1>c. PICK c : c = a.msg.broker
  OBVIOUS
<1>k. PICK k : k = connectOf(e)
  OBVIOUS
<1>y. PICK y : y = it(NULL, c, k)
  OBVIOUS
<1>0. /\ IInv /\ Placed /\ FragmentsHold /\ ItemsOK /\ ViewsOK /\ NULL \notin Brokers
      /\ QueueOK(now) /\ Fits!FragmentsInv
  BY WorldHolds, NodesAssumption DEF World
<1>1. /\ g \in OrderItems /\ g.to = b /\ g.msg = a.msg /\ IsWork(a.msg)
      /\ Awake(b) /\ origin(g) = b /\ ToldToAsk[b] = c /\ c \in Brokers
      /\ a.msg \in ExpandMessage
  BY <1>g, <1>c, OrderCame
<1>2. /\ Clean(e) /\ e.self = b /\ e.st = broker[b] /\ e \in Effect
      /\ MapOK(broker[b].neighboursMap) /\ Member(e)
  <2>1. /\ Clean(e) /\ e.self = b /\ e.st = broker[b]
        /\ MapOK(broker[b].neighboursMap) /\ Member(e)
    BY <1>1, WorkStarts
  <2> QED
    BY <2>1 DEF Clean
<1>22. PICK con \in ConnectsFrom(e, c) : \E x :
        /\ con \in ConnectMessage
        /\ Merges(e, x, con.broker, con.members)
        /\ f = SendDirect(findAndSendMWOE(x), c, k)
  <2>1. MapOK(e.st.neighboursMap)
    BY <1>2
  <2>2. \E con \in ConnectsFrom(e, a.msg.broker) : \E x :
             /\ con \in ConnectMessage
             /\ Merges(e, x, con.broker, con.members)
             /\ handleExpandMessage(e, a.msg) =
                  SendDirect(findAndSendMWOE(x), a.msg.broker, connectOf(e))
    BY <1>1, <1>2, <2>1, AnswerIs
  <2> QED
    BY <1>c, <1>k, <2>2
<1>3. PICK x : /\ con \in ConnectMessage
               /\ Merges(e, x, con.broker, con.members)
               /\ f = SendDirect(findAndSendMWOE(x), c, k)
  BY <1>22
<1>4. /\ con \in broker[b].receivedConnects /\ con.broker = c /\ con.convergenceNumber = Round(b)
  BY <1>2, <1>3 DEF ConnectsFrom, Round
<1>5. Joinable(b, con)
  <2>1. ToldToAsk[b] # NULL /\ con.broker = ToldToAsk[b]
    BY <1>0, <1>1, <1>4
  <2> QED
    BY <1>0, <1>4, <2>1, AnswerFacts
<1>F. PICK F : F = findAndSendMWOE(x)
  OBVIOUS
<1>D. PICK D : D = Linked(b)
  OBVIOUS
<1>M. PICK M : M = Members(b) \cup con.members
  OBVIOUS
<1>N. PICK N : N = Linked(b) \cup {con.broker}
  OBVIOUS
<1>6. PICK R :
         /\ Grows(b, F, D, M, N, R, {})
         /\ F.st.sentConnects = broker[b].sentConnects
         /\ F.st.receivedConnects = broker[b].receivedConnects
  <2>1. /\ IsWork(a.msg) /\ Awake(b) /\ con \in ConnectMessage /\ Joinable(b, con)
        /\ Merges(e, x, con.broker, con.members)
    BY <1>1, <1>3, <1>5
  <2>2. /\ \E R : Grows(b, F, Linked(b), M, N, R, {})
        /\ F.st.sentConnects = broker[b].sentConnects
        /\ F.st.receivedConnects = broker[b].receivedConnects
    BY <1>F, <1>M, <1>N, <2>1, MergeGrowth
  <2> QED
    BY <1>D, <2>2
<1>7. /\ k \in Message /\ k.type = "Connect" /\ Asking(c, k) = Fits!request(b, c)
      /\ Shaped(y) /\ Quick(To(c, k))
  BY <1>1, <1>2, <1>k, <1>y, OwnRequest
<1>8. f \in Effect /\ OnlySends(F, f) /\ SendsNow(F, f, c, k)
  <2>1. F \in Effect /\ c \in Nodes
    BY <1>1, <1>6 DEF Grows, Clean, Nodes
  <2>2. f = SendDirect(F, c, k)
    BY <1>3, <1>F
  <2>3. OnlySends(F, f) /\ SendsNow(F, f, c, k)
    BY <1>7, <2>1, <2>2, SendDirectIs
  <2> QED
    BY <2>3 DEF OnlySends
<1>9. Grows(b, f, D, M, N, R, {y})
  BY <1>1, <1>6, <1>7, <1>8, <1>y, GrowsMore
<1>10. f.st.sentConnects = broker[b].sentConnects /\ f.st.receivedConnects = broker[b].receivedConnects
  BY <1>6, <1>8 DEF OnlySends
<1>11. y \notin Moving /\ y.msg.type = "Connect" /\ y.to = c /\ y.msg = k
  <2>1. y \notin Moving
    BY <1>1, <1>7, <1>y, NotAskedYet
  <2> QED
    BY <1>7, <1>y, <2>1 DEF it
<1>12. Fits!Silent(b)
  BY <1>0, <1>1, Fits!SilentAsks
<1>13. \A z \in {y} : z \notin Moving /\ Shaped(z) /\ z.msg.type = "Connect"
  BY <1>7, <1>11
<1>14. /\ Placed' /\ (ItemsOK /\ ViewsOK)' /\ ~crashed'
       /\ ReportItems' = ReportItems \cup R /\ OrderItems' = OrderItems \ {g}
       /\ Merged(b, f, D, M, N)
  <2>1. a.msg.type # "MWOE"
    OBVIOUS
  <2> QED
    BY <1>1, <1>9, <1>12, <1>13, <1>g, <2>1, GrowthMerges
<1>15. /\ UnderWay' = UnderWay \cup NewUpdates(b, D, M)
       /\ Asks' = Asks \cup {Asking(z.to, z.msg) : z \in {y}}
  <2>1. \A z \in {y} : z.msg.type = "Connect"
    BY <1>11
  <2>2. Exchanged(a, b, NewUpdates(b, D, M), {y})
    BY <1>1, <1>9, <1>14, <2>1, GrowthMessages
  <2>3. a.msg.type # "Update" /\ a.msg.type # "Connect"
    OBVIOUS
  <2> QED
    BY <2>2, <2>3 DEF Exchanged
<1>16. Asks' = Asks \cup {Fits!request(b, c)}
  BY <1>7, <1>11, <1>15
<1>17. ToldToAsk' = [ToldToAsk EXCEPT ![b] = NULL]
  BY <1>0, <1>1, <1>14, GrowthTold
<1>18. Asked' = Asked /\ KeptForLater' = KeptForLater
  BY <1>10, <1>14, RequestsStay
<1>19. Fits!Answer(b)
  <2>1. Fits!Merge(b, c, con.members)
    <3>K. PICK K : K = con.members
      OBVIOUS
    <3>1. Linking(b, c, K, f, D, M, N)
      BY <1>4, <1>14, <1>15, <1>D, <1>M, <1>N, <3>K DEF Linking
    <3>2. Fits!Merge(b, c, K)
      BY <3>1, LinkingMerges
    <3> QED
      BY <3>2, <3>K
  <2>q. PICK q : q = Asking(b, con)
    OBVIOUS
  <2>2. q.from = c /\ q.number = Round(b) /\ q.members = con.members
    BY <1>4, <2>q DEF Asking
  <2>3. q \in KeptForLater[b]
    BY <1>4, <2>q, ViewFunctions
  <2>4. Rounds[b] = Round(b)
    BY ViewFunctions
  <2> QED
    BY <1>0, <1>1, <1>16, <1>17, <1>18, <2>1, <2>2, <2>3, <2>4 DEF Fits!Answer
<1>20. Abstractly
  BY <1>19 DEF Abstractly, Fits!FragmentsNext
<1> QED
  BY <1>1, <1>9, <1>14, <1>20, GrowthStepped

(* Handling an order to expand.                                            *)
LEMMA ExpandWorld ==
    ASSUME NEW H, World(H), IInv', NEW b \in Brokers, HandleExpandMessage(b)
    PROVE  Stepped
<1>1. PICK a \in Arrivals(b) : a.msg.type = "Expand"
                               /\ Finish(b, a, handleExpandMessage(Start(b, a), a.msg))
  BY DEF HandleExpandMessage, Arriving
<1>2. PICK e : Starts(e, b, a)
  BY DEF Starts
<1>3. PICK f : f = handleExpandMessage(e, a.msg)
  OBVIOUS
<1>g. PICK g : g = it(a.from, b, a.msg)
  OBVIOUS
<1>4. /\ Awake(b) /\ b \in Members(b) /\ IsWork(a.msg) /\ a.msg \in ExpandMessage
      /\ a.msg.piggyback \in Seq(Brokers)
  BY <1>1, <1>g, OrderCame
<1>5. /\ e \in Effect /\ e.self = b /\ e.st = broker[b]
      /\ MapOK(e.st.neighboursMap) /\ Member(e)
  <2>1. /\ Clean(e) /\ e.self = b /\ e.st = broker[b]
        /\ MapOK(broker[b].neighboursMap) /\ Member(e)
    BY <1>2, <1>4, WorkStarts
  <2> QED
    BY <2>1 DEF Clean
<1>6. f \in Effect => Acts(b, a, f)
  <2>1. Finish(b, a, f)
    BY <1>1, <1>2, <1>3 DEF Starts
  <2> QED
    BY <1>4, <2>1, Finished
<1>7. CASE a.msg.piggyback # <<>>
  <2>1. /\ OnlySends(e, f)
        /\ SendsOver(e, f, Head(a.msg.piggyback), orderOf(a.msg.broker, Tail(a.msg.piggyback)))
    BY <1>3, <1>4, <1>5, <1>7, PassDownIs
  <2>2. f \in Effect /\ Orders(e, f, a.msg)
    BY <1>7, <2>1 DEF OnlySends, Orders
  <2> QED
    BY <1>1, <1>2, <1>6, <1>7, <2>1, <2>2, OrderForwarded
<1>8. CASE a.msg.piggyback = <<>> /\ ConnectsFrom(e, a.msg.broker) = {}
  <2>1. Requests(e, f, a.msg.broker)
    BY <1>3, <1>4, <1>5, <1>8, AskIs
  <2>2. f \in Effect
    BY <2>1 DEF Requests
  <2> QED
    BY <1>1, <1>2, <1>6, <1>8, <2>1, <2>2, OrderAsks
<1>9. CASE a.msg.piggyback = <<>> /\ ConnectsFrom(e, a.msg.broker) # {}
  <2>1. f \in Effect
    <3>1. IsConditionTable(conditionTable)
      BY WorldHolds
    <3> QED
      BY <1>3, <1>4, <1>5, <3>1, HandleExpandPreserves DEF Member
  <2> QED
    BY <1>1, <1>2, <1>3, <1>6, <1>9, <2>1, OrderAnswers
<1> QED
  BY <1>7, <1>8, <1>9

-----------------------------------------------------------------------------
(* A request arrives.                                                      *)

(* Where a request comes from.                                             *)
LEMMA RequestCame ==
    ASSUME NEW H, World(H), NEW b \in Brokers, NEW a \in Arrivals(b), a.msg.type = "Connect",
           NEW g, g = it(a.from, b, a.msg), NEW q, q = Asking(b, a.msg)
    PROVE  /\ g \in Moving /\ g.to = b /\ g.msg = a.msg /\ IsWork(a.msg)
           /\ a.msg \in ConnectMessage
           /\ now # <<>> /\ Head(now) = To(b, a.msg) /\ To(b, a.msg) \in ToSet(now)
           /\ q \in Asks /\ q.to = b /\ q.from = a.msg.broker
           /\ q.number = a.msg.convergenceNumber /\ q.members = a.msg.members
           /\ g \notin ReportItems /\ g \notin OrderItems
<1>0. IInv /\ ItemsOK /\ ViewsOK /\ IsWork(a.msg) /\ KernelTypeOK
  BY WorldHolds DEF IsWork, World
<1>1. /\ g \in Moving /\ Shaped(g) /\ g.from = a.from /\ g.to = b /\ g.msg = a.msg
      /\ a.from = NULL => now # <<>> /\ Head(now) = To(b, a.msg)
  BY <1>0, WorkItem
<1>2. a.from = NULL
  BY <1>1 DEF Shaped
<1>3. a.msg \in ConnectMessage
  <2>1. a.msg \in Message
    BY <1>0, <1>1 DEF ItemsOK
  <2> QED
    BY <2>1, MessageTypes
<1>4. q \in Asks
  <2>1. q = Asking(g.to, g.msg) /\ g.msg.type = "Connect"
    BY <1>1
  <2> QED
    BY <1>0, <1>1, <2>1 DEF ViewsOK
<1>5. To(b, a.msg) \in ToSet(now)
  <2>1. Head(now) \in ToSet(now)
    BY <1>0, <1>1, <1>2 DEF KernelTypeOK, ToSet
  <2> QED
    BY <1>1, <1>2, <2>1
<1>6. /\ q.to = b /\ q.from = a.msg.broker
      /\ q.number = a.msg.convergenceNumber /\ q.members = a.msg.members
  BY DEF Asking
<1>7. g \notin ReportItems /\ g \notin OrderItems
  <2>1. g \in ReportItems => IsReport(g)
    BY <1>0 DEF ItemsOK
  <2> QED
    BY <1>1, <2>1 DEF IsReport, OrderItems
<1> QED
  BY <1>0, <1>1, <1>2, <1>3, <1>4, <1>5, <1>6, <1>7

(* With a request in the queue nobody has a round that others lack.        *)
LEMMA WithRequest ==
    ASSUME NEW H, World(H), NEW ev \in ToSet(now), ev.msg.type = "Connect"
    PROVE  \E L \in Nat : \A b \in Brokers :
             \/ Up(H, b, L, 0)
             \/ ~Awake(b) /\ \E T : Down(H, b, L, T)
<1>0. TypeOK /\ QueueOK(now) /\ Phase(H) /\ KernelTypeOK
  BY WorldHolds DEF World, JoinsOK
<1>L. convergenceNumber - 1 \in Nat /\ convergenceNumber \in Nat
  <2>1. convergenceNumber > 0 /\ convergenceNumber \in Nat
    BY <1>0 DEF World, JoinsOK, HistoryOK, TypeOK, NSTypeOK
  <2> QED
    BY <2>1
<1>1. \A v \in ToSet(now) : ~IsJoin(v)
  <2>1. PICK i \in DOMAIN now : now[i] = ev
    BY DEF ToSet
  <2>2. ASSUME NEW v \in ToSet(now), IsJoin(v)
        PROVE  FALSE
    <3>1. PICK k \in DOMAIN now : now[k] = v
      BY DEF ToSet
    <3> QED
      BY <1>0, <2>1, <2>2, <3>1 DEF QueueOK
  <2> QED
    BY <2>2
<1>2. ev \notin Control
  BY DEF Control, ControlOf, IsControl
<1>3. Len(now) = 1 => Control = {}
  <2>1. ASSUME Len(now) = 1
        PROVE  Control = {}
    <3>1. \A v \in ToSet(now) : v = ev
      BY <1>0, <2>1 DEF KernelTypeOK, ToSet
    <3> QED
      BY <1>2, <3>1 DEF Control, ControlOf
  <2> QED
    BY <2>1
<1>4. ASSUME NEW D, NEW j, j.type = "Join", Announced(D, j) \subseteq Control
      PROVE  D = {}
  <2>1. ASSUME NEW d \in D
        PROVE  FALSE
    <3>1. To(d, j) \in ToSet(now) /\ IsJoin(To(d, j))
      BY <1>4 DEF Announced, Control, ControlOf, IsJoin, To
    <3> QED
      BY <1>1, <3>1
  <2> QED
    BY <2>1
<1>5. ASSUME Calm(H)
      PROVE  \A b \in Brokers :
                \/ Up(H, b, convergenceNumber - 1, 0)
                \/ ~Awake(b) /\ \E T : Down(H, b, convergenceNumber - 1, T)
  <2>1. ASSUME NEW b \in Brokers
        PROVE  \/ Up(H, b, convergenceNumber - 1, 0)
               \/ ~Awake(b) /\ \E T : Down(H, b, convergenceNumber - 1, T)
    <3>1. b \in Brokers \ {NULL}
      BY NodesAssumption
    <3>2. \/ b \in RegisteredBrokers /\ Up(H, b, convergenceNumber - 1, 0)
          \/ b \notin RegisteredBrokers /\ Down(H, b, convergenceNumber - 1, {"WakeUp"})
      BY <1>5, <3>1 DEF Calm, Others
    <3> QED
      BY <3>2 DEF Awake
  <2> QED
    BY <2>1
<1>6. ASSUME NEW x \in Brokers, NEW D \in SUBSET Brokers, Leaving(H, x, D)
      PROVE  \A b \in Brokers :
                \/ Up(H, b, convergenceNumber, 0)
                \/ ~Awake(b) /\ \E T : Down(H, b, convergenceNumber, T)
  <2>1. D = {}
    <3>1. Announced(D, join(x, convergenceNumber, TRUE)) \subseteq Control
          /\ join(x, convergenceNumber, TRUE).type = "Join"
      BY <1>6 DEF Leaving, join
    <3> QED
      BY <1>4, <3>1
  <2>2. Others(H, x, convergenceNumber, {}) /\ Down(H, x, convergenceNumber, {"WakeUp"})
        /\ departure(x) \in Control
    BY <1>6, <2>1 DEF Leaving
  <2>3. ~Awake(x)
    BY <2>2, AwakeIs DEF Undisturbed, departure, To
  <2>4. ASSUME NEW b \in Brokers, b # x
        PROVE  \/ Up(H, b, convergenceNumber, 0)
               \/ ~Awake(b) /\ \E T : Down(H, b, convergenceNumber, T)
    <3>1. \/ b \in RegisteredBrokers /\ Up(H, b, convergenceNumber, 0)
          \/ b \notin RegisteredBrokers /\ Down(H, b, convergenceNumber, {"WakeUp"})
      BY <2>2, <2>4 DEF Others
    <3> QED
      BY <3>1 DEF Awake
  <2> QED
    BY <2>2, <2>3, <2>4
<1>7. ASSUME NEW x \in Brokers, Requesting(H, x) \/ Answering(H, x)
      PROVE  FALSE
  BY <1>3, <1>7 DEF Requesting, Answering
<1>8. ASSUME NEW x \in Brokers, NEW D \in SUBSET Brokers, Joining(H, x, D)
      PROVE  FALSE
  <2>1. Announced(D, join(x, convergenceNumber - 1, FALSE)) \subseteq Control /\ D # {}
        /\ join(x, convergenceNumber - 1, FALSE).type = "Join"
    BY <1>8 DEF Joining, join
  <2> QED
    BY <1>4, <2>1
<1> QED
  BY <1>0, <1>L, <1>5, <1>6, <1>7, <1>8 DEF Phase

(* A broker that is asked has begun.                                       *)
LEMMA AskedHasBegun ==
    ASSUME NEW H, World(H), NEW b \in Brokers, NEW a \in Arrivals(b), a.msg.type = "Connect"
    PROVE  Members(b) # {}
<1>g. PICK g : g = it(a.from, b, a.msg)
  OBVIOUS
<1>q. PICK q : q = Asking(b, a.msg)
  OBVIOUS
<1>0. /\ FragmentsHold /\ Fits!FragmentsInv /\ TypeOK /\ Fits!Begun /\ H \in Histories /\ H[0] = {}
      /\ JoinsOK(H)
  BY WorldHolds DEF World, JoinsOK, HistoryOK
<1>1. q \in Asks /\ q.to = b /\ To(b, a.msg) \in ToSet(now)
  BY <1>g, <1>q, RequestCame
<1> SUFFICES ASSUME Members(b) = {}
             PROVE  FALSE
  OBVIOUS
<1>2. ~Awake(b) /\ ~TakingPart[b]
  BY <1>0, OwnFacts, ViewFunctions
<1>3. Round(b) = 0
  <2>1. KnownMembers[b] = {} /\ Rounds[b] = Round(b)
    BY ViewFunctions
  <2> QED
    BY <1>0, <2>1 DEF Fits!Begun
<1>4. PICK c \in Brokers : Awake(c) /\ b \in Available(c)
  <2>1. Fits!Open(q) \/ Fits!Pending(q.to, q.from)
    BY <1>0, <1>1 DEF Fits!FragmentsInv, Fits!SentOK
  <2>2. Fits!Open(q)
    BY <1>1, <1>2, <2>1 DEF Fits!Pending
  <2>3. q.from \in Brokers
    BY <1>0, <1>1 DEF Fits!FragmentsInv, Fits!FragmentsTypeOK, Fits!Request
  <2>4. Fits!Pending(q.from, b)
    BY <1>1, <2>2 DEF Fits!Open
  <2>5. TakingPart[q.from] /\ b \in BuildsOver[q.from]
    BY <1>0, <2>3, <2>4 DEF Fits!FragmentsInv, Fits!PendingOK, Fits!Shortest, Fits!Pending
  <2> QED
    BY <2>3, <2>5, ViewFunctions
<1>5. To(b, a.msg).msg.type = "Connect"
  BY DEF To
<1>6. PICK L \in Nat : \A d \in Brokers :
         \/ Up(H, d, L, 0)
         \/ ~Awake(d) /\ \E T : Down(H, d, L, T)
  BY <1>1, <1>5, WithRequest
<1>7. b \in H[Round(c)] /\ Round(c) \in 0 .. L /\ Round(c) \in Nat
  <2>1. ListOK(H, broker[c])
    BY <1>0, <1>4, AwakeRuns
  <2>2. broker[c] \in BrokerState /\ Round(c) \in Nat
    BY <1>0 DEF TypeOK, BrokerState, Round
  <2>3. Up(H, c, L, 0)
    BY <1>4, <1>6
  <2>4. Round(c) <= L
    <3>1. Round(c) + Held(timers[c]) + Len(broker[c].awaitingNSMsgs) + 0 = L
      BY <2>3 DEF Up, UpState, Runs, Waiting, Round
    <3>2. Held(timers[c]) \in Nat /\ Len(broker[c].awaitingNSMsgs) \in Nat
      BY <2>2 DEF Held, BrokerState
    <3> QED
      BY <2>2, <3>1, <3>2
  <2> QED
    BY <1>4, <2>1, <2>2, <2>4 DEF ListOK, Available, Round
<1>8. CASE Up(H, b, L, 0)
  <2>1. \A n \in 0 .. L : b \in H[n]
    BY <1>3, <1>8 DEF Up, UpState, Runs, Round
  <2> QED
    BY <1>0, <2>1
<1>9. CASE \E T : Down(H, b, L, T)
  <2>1. \A n \in 0 + 1 .. L : b \notin H[n]
    BY <1>3, <1>9 DEF Down, DownState, Round
  <2>2. Round(c) = 0
    BY <1>7, <2>1
  <2> QED
    BY <1>0, <1>7, <2>2
<1> QED
  BY <1>6, <1>8, <1>9

(* A request that does not fit is kept or dropped.                         *)
LEMMA RequestKept ==
    ASSUME NEW H, World(H), IInv', NEW b \in Brokers, NEW a \in Arrivals(b), a.msg.type = "Connect",
           NEW e, Starts(e, b, a), ~Fitting(e, a.msg), NEW f, Keeps(e, f, a.msg), Acts(b, a, f)
    PROVE  Stepped
<1>g. PICK g : g = it(a.from, b, a.msg)
  OBVIOUS
<1>q. PICK q : q = Asking(b, a.msg)
  OBVIOUS
<1>0. /\ IInv /\ Placed /\ FragmentsHold /\ ItemsOK /\ ViewsOK /\ NULL \notin Brokers
      /\ QueueOK(now) /\ Fits!FragmentsInv
  BY WorldHolds, NodesAssumption DEF World
<1>1. /\ g \in Moving /\ g.to = b /\ g.msg = a.msg /\ IsWork(a.msg)
      /\ a.msg \in ConnectMessage
      /\ q \in Asks /\ q.to = b /\ q.from = a.msg.broker
      /\ q.number = a.msg.convergenceNumber
      /\ g \notin ReportItems /\ g \notin OrderItems
  BY <1>g, <1>q, RequestCame
<1>2. /\ Clean(e) /\ e.self = b /\ e.st = broker[b] /\ SentBy(b, e) = {} /\ ~e.fault
      /\ WellDue(e)
  <2>1. e = Start(b, a)
    BY DEF Starts
  <2>2. Clean(e) /\ e.self = b /\ e.st = broker[b] /\ SentBy(b, e) = {} /\ ~e.fault
    BY <1>0, <2>1, StartClean
  <2>3. WellDue(e)
    BY <2>1, StartWell DEF World
  <2> QED
    BY <2>2, <2>3
<1>3. /\ f \in Effect /\ SendsNothing(e, f) /\ SameView(broker[b], f.st)
      /\ f.st.receivedMWOEs = broker[b].receivedMWOEs
      /\ f.st.sentConnects = broker[b].sentConnects
      /\ f.st.receivedConnects = IF a.msg.convergenceNumber >= Round(b)
                                 THEN broker[b].receivedConnects \cup {a.msg}
                                 ELSE broker[b].receivedConnects
  BY <1>2 DEF Keeps, Round
<1>4. Clean(f) /\ SentBy(b, f) = {} /\ ~f.fault /\ WellDue(f)
  <2>1. Clean(f) /\ SentBy(b, f) = SentBy(b, e) /\ (f.fault <=> e.fault)
    BY <1>2, <1>3, NothingMore
  <2> QED
    BY <1>2, <1>3, <2>1 DEF WellDue, SendsNothing
<1>5. Sent(b, f, "MWOE") = {} /\ Sent(b, f, "Expand") = {}
  BY <1>4 DEF Sent
<1>6. OrderItems' = OrderItems
  <2>1. OrderItems' = (OrderItems \ {g}) \cup Sent(b, f, "Expand")
    BY <1>0, <1>1, <1>g, OrdersMove
  <2> QED
    BY <1>1, <1>5, <2>1
<1>7. ReportItems' = ReportItems
  <2>1. ReportItems' = (ReportItems \ {g}) \cup Sent(b, f, "MWOE")
    BY <1>0, <1>1, <1>3, <1>g, ReportsMoveSame
  <2> QED
    BY <1>1, <1>5, <2>1
<1>8. Placed'
  <2>1. Unique(ReportItems') /\ Unique(OrderItems')
    BY <1>0, <1>6, <1>7 DEF Unique, Placed
  <2>2. Distinct(f.direct) /\ NeatOut(f.out)
    BY <1>4 DEF Clean
  <2>3. \A x \in SentBy(b, f) : x \notin Moving /\ Shaped(x) /\ x.msg.type # "Update"
    BY <1>4
  <2>4. Tidy(f.st.receivedMWOEs)
    BY <1>0, <1>3 DEF Placed
  <2> QED
    BY <2>1, <2>2, <2>3, <2>4, PlacedStep
<1>9. (ItemsOK /\ ViewsOK)'
  BY <1>8, ViewsFitNext
<1>10. /\ Rounds' = Rounds /\ BuildsOver' = BuildsOver /\ KnownMembers' = KnownMembers
       /\ LinkedTo' = LinkedTo /\ conditionTable' = conditionTable
       /\ f.st.initial = broker[b].initial
  BY <1>0, <1>3, ViewsKept
<1>11. TakingPart' = TakingPart
  BY <1>0, <1>1, <1>4, <1>10, WorkKeepsPart
<1>12. Asked' = Asked
  <2>1. Asked' = [Asked EXCEPT ![b] = f.st.sentConnects]
    BY <1>0, StateViews
  <2>2. Asked[b] = broker[b].sentConnects
    BY ViewFunctions
  <2> QED
    BY <1>3, <2>1, <2>2 DEF Asked
<1>13. KeptForLater' = IF q.number >= Rounds[q.to]
                       THEN [KeptForLater EXCEPT ![q.to] = @ \cup {q}] ELSE KeptForLater
  <2>1. KeptForLater' = [KeptForLater EXCEPT ![b] =
                           {Asking(b, con) : con \in f.st.receivedConnects}]
    BY <1>0, StateViews
  <2>2. KeptForLater[b] = {Asking(b, con) : con \in broker[b].receivedConnects}
        /\ Rounds[b] = Round(b)
    BY ViewFunctions
  <2>3. CASE a.msg.convergenceNumber >= Round(b)
    <3>1. {Asking(b, con) : con \in broker[b].receivedConnects \cup {a.msg}}
             = KeptForLater[b] \cup {q}
      BY <1>q, <2>2
    <3>2. KeptForLater' = [KeptForLater EXCEPT ![b] = KeptForLater[b] \cup {q}]
      BY <1>3, <2>1, <2>3, <3>1
    <3> QED
      BY <1>1, <2>2, <2>3, <3>2
  <2>4. CASE ~(a.msg.convergenceNumber >= Round(b))
    <3>1. KeptForLater' = [KeptForLater EXCEPT ![b] = KeptForLater[b]]
      BY <1>3, <2>1, <2>2, <2>4
    <3>2. KeptForLater' = KeptForLater
      BY <3>1 DEF KeptForLater
    <3> QED
      BY <1>1, <2>2, <2>4, <3>2
  <2> QED
    BY <2>3, <2>4
<1>14. Moving' = (Moving \ {g}) \cup {}
  <2>1. Moving' = (Moving \ Consumed(b, a)) \cup SentBy(b, f) /\ Consumed(b, a) = {g}
    BY <1>0, <1>1, <1>g, ItemsMove, WorkItem
  <2> QED
    BY <1>4, <2>1
<1>15. UnderWay' = UnderWay
  <2>1. \A x \in {g} \cup {} : x.msg.type # "Update"
    BY <1>1
  <2> QED
    BY <1>0, <1>9, <1>14, <2>1, UnderWaySame
<1>16. Asks' = Asks \ {q}
  <2>S. PICK S : S = {}
    OBVIOUS
  <2>1. /\ g.msg.type = "Connect" /\ g \in Moving /\ Moving' = (Moving \ {g}) \cup S
        /\ \A x \in S : x.msg.type # "Connect"
    BY <1>1, <1>14, <2>S
  <2>2. Asks' = Asks \ {Asking(g.to, g.msg)}
    BY <1>0, <1>9, <2>1, AsksLess
  <2> QED
    BY <1>1, <1>q, <2>2
<1>17. Reported' = Reported
  <2>1. ASSUME NEW d \in Brokers
        PROVE  Reported'[d] = Reported[d]
    BY <1>0, <1>7, <1>9, ReportedSame
  <2> QED
    BY <1>0, <1>9, <2>1, AllReported
<1>18. ToldToAsk' = ToldToAsk
  <2>1. ASSUME NEW d \in Brokers
        PROVE  ToldToAsk'[d] = ToldToAsk[d]
    BY <1>0, <1>6, <1>9, ToldSame
  <2> QED
    BY <1>0, <1>9, <2>1, AllTold
<1>19. Fits!Keep(q)
  <2>1. ~(q.number = Rounds[q.to] /\ q.from \in Asked[q.to])
    BY <1>1, <1>2, ViewFunctions DEF Fitting, Round
  <2> QED
    BY <1>1, <1>10, <1>11, <1>12, <1>13, <1>15, <1>16, <1>17, <1>18, <2>1 DEF Fits!Keep
<1>20. Abstractly
  BY <1>1, <1>19 DEF Abstractly, Fits!FragmentsNext
<1>21. ~crashed'
  BY <1>4 DEF Acts, End
<1>22. ASSUME NEW x \in ReportItems'
       PROVE  ReportTrip(x) /\ Reported[origin(x)] # NULL
  BY <1>7, ReportFacts
<1>23. ASSUME NEW x \in OrderItems'
       PROVE  OrderTrip(x) /\ ToldToAsk[origin(x)] # NULL
  BY <1>6, OrderFacts
<1> QED
  BY <1>8, <1>10, <1>20, <1>21, <1>22, <1>23 DEF Stepped

(* One that fits completes the link.                                       *)
LEMMA RequestMet ==
    ASSUME NEW H, World(H), IInv', NEW b \in Brokers, NEW a \in Arrivals(b), a.msg.type = "Connect",
           NEW e, Starts(e, b, a), Fitting(e, a.msg), Joinable(b, a.msg),
           NEW x, Merges(e, x, a.msg.broker, a.msg.members),
           NEW f, f = findAndSendMWOE(x), Acts(b, a, f)
    PROVE  Stepped
<1>g. PICK g : g = it(a.from, b, a.msg)
  OBVIOUS
<1>q. PICK q : q = Asking(b, a.msg)
  OBVIOUS
<1>c. PICK c : c = a.msg.broker
  OBVIOUS
<1>K. PICK K : K = a.msg.members
  OBVIOUS
<1>D. PICK D : D = Linked(b)
  OBVIOUS
<1>M. PICK M : M = Members(b) \cup K
  OBVIOUS
<1>N. PICK N : N = Linked(b) \cup {c}
  OBVIOUS
<1>C. PICK C : C = {}
  OBVIOUS
<1>0. /\ IInv /\ Placed /\ FragmentsHold /\ ItemsOK /\ ViewsOK /\ Fits!FragmentsInv
  BY WorldHolds DEF World
<1>1. /\ g \in Moving /\ g.to = b /\ g.msg = a.msg /\ IsWork(a.msg)
      /\ a.msg \in ConnectMessage
      /\ q \in Asks /\ q.to = b /\ q.from = c /\ q.members = K
      /\ q.number = a.msg.convergenceNumber
      /\ g \notin ReportItems /\ g \notin OrderItems
  BY <1>g, <1>q, <1>c, <1>K, RequestCame
<1>2. Awake(b) /\ c \in Available(b) \ Members(b) /\ c \in Brokers
  <2>1. Available(b) \subseteq Brokers
    BY <1>0 DEF IInv, TypeOK, BrokerState, Available, ToSet
  <2> QED
    BY <1>c, <2>1 DEF Joinable
<1>3. e.st = broker[b] /\ a.msg.convergenceNumber = Round(b) /\ c \in broker[b].sentConnects
  <2>1. e.st = broker[b]
    BY <1>0, StartIs DEF Starts
  <2> QED
    BY <1>c, <2>1 DEF Fitting, Round
<1>4. PICK R : /\ Grows(b, f, D, M, N, R, C)
               /\ f.st.sentConnects = broker[b].sentConnects
               /\ f.st.receivedConnects = broker[b].receivedConnects
  <2>1. \E R : Grows(b, f, Linked(b), M, N, R, {})
        /\ f.st.sentConnects = broker[b].sentConnects
        /\ f.st.receivedConnects = broker[b].receivedConnects
    <3>con. PICK con : con = a.msg
      OBVIOUS
    <3>1. /\ World(H) /\ IsWork(a.msg) /\ Awake(b) /\ Starts(e, b, a) /\ con \in ConnectMessage
          /\ Joinable(b, con) /\ Merges(e, x, con.broker, con.members)
          /\ f = findAndSendMWOE(x)
          /\ M = Members(b) \cup con.members /\ N = Linked(b) \cup {con.broker}
      BY <1>1, <1>2, <1>M, <1>N, <1>K, <1>c, <3>con
    <3>2. /\ Members(b) # Available(b)
          /\ \E R : Grows(b, f, Linked(b), M, N, R, {})
          /\ f.st.sentConnects = broker[b].sentConnects
          /\ f.st.receivedConnects = broker[b].receivedConnects
      BY <3>1, MergeGrowth
    <3> QED
      BY <3>2
  <2> QED
    BY <2>1, <1>D, <1>C
<1>5. Fits!Silent(b)
  <2>1. Fits!Pending(b, c)
    BY <1>2, <1>3, ViewFunctions DEF Fits!Pending
  <2> QED
    BY <1>0, <1>2, <2>1, Fits!SilentWaits
<1>6. \A z \in C : z \notin Moving /\ Shaped(z) /\ z.msg.type = "Connect"
  BY <1>C
<1>7. /\ Placed' /\ (ItemsOK /\ ViewsOK)' /\ ~crashed'
      /\ ReportItems' = ReportItems \cup R /\ OrderItems' = OrderItems \ {g}
      /\ Merged(b, f, D, M, N)
  <2>1. a.msg.type # "MWOE"
    OBVIOUS
  <2> QED
    BY <1>1, <1>2, <1>4, <1>5, <1>6, <1>g, <2>1, GrowthMerges
<1>8. UnderWay' = UnderWay \cup NewUpdates(b, D, M) /\ Asks' = Asks \ {q}
  <2>1. Exchanged(a, b, NewUpdates(b, D, M), C)
    BY <1>1, <1>2, <1>4, <1>6, <1>7, GrowthMessages
  <2>2. a.msg.type # "Update"
    OBVIOUS
  <2> QED
    BY <2>1, <2>2, <1>C, <1>q DEF Exchanged
<1>9. ToldToAsk' = ToldToAsk
  BY <1>0, <1>1, <1>7, GrowthTold
<1>10. Asked' = Asked /\ KeptForLater' = KeptForLater
  BY <1>4, <1>7, RequestsStay
<1>11. Fits!Merge(b, c, K)
  <2>1. Linking(b, c, K, f, D, M, N)
    BY <1>7, <1>8, <1>D, <1>M, <1>N DEF Linking
  <2> QED
    BY <2>1, LinkingMerges
<1>12. Fits!Meet(q)
  <2>1. q.number = Rounds[q.to] /\ q.from \in Asked[q.to]
    BY <1>1, <1>3, ViewFunctions
  <2>2. Fits!Merge(q.to, q.from, q.members)
    BY <1>1, <1>11
  <2> QED
    BY <1>1, <1>8, <1>9, <1>10, <2>1, <2>2 DEF Fits!Meet
<1>13. Abstractly
  BY <1>1, <1>12 DEF Abstractly, Fits!FragmentsNext
<1> QED
  BY <1>2, <1>4, <1>7, <1>13, GrowthStepped

(* Handling a request.                                                     *)
LEMMA ConnectWorld ==
    ASSUME NEW H, World(H), IInv', NEW b \in Brokers, HandleConnectionMessage(b)
    PROVE  Stepped
<1>1. PICK a \in Arrivals(b) : a.msg.type = "Connect"
                               /\ Finish(b, a, handleConnectionMessage(Start(b, a), a.msg))
  BY DEF HandleConnectionMessage, Arriving
<1>2. PICK e : Starts(e, b, a)
  BY DEF Starts
<1>3. PICK f : f = handleConnectionMessage(e, a.msg)
  OBVIOUS
<1>g. PICK g : g = it(a.from, b, a.msg)
  OBVIOUS
<1>q. PICK q : q = Asking(b, a.msg)
  OBVIOUS
<1>0. /\ IInv /\ FragmentsHold /\ JoinsOK(H) /\ TypeOK
  BY WorldHolds DEF World
<1>4. /\ IsWork(a.msg) /\ a.msg \in ConnectMessage /\ To(b, a.msg) \in ToSet(now)
      /\ Members(b) # {}
  BY <1>1, <1>g, <1>q, RequestCame, AskedHasBegun
<1>5. /\ e \in Effect /\ e.self = b /\ e.st = broker[b] /\ MapOK(e.st.neighboursMap)
  <2>1. e \in Effect /\ e.self = b /\ e.st = broker[b]
    BY <1>0, <1>2, StartIs DEF Starts
  <2>2. MapOK(broker[b].neighboursMap)
    BY <1>0, <1>1, WorkArrives
  <2> QED
    BY <2>1, <2>2
<1>6. f \in Effect => Acts(b, a, f)
  <2>1. Finish(b, a, f)
    BY <1>1, <1>2, <1>3 DEF Starts
  <2> QED
    BY <1>4, <2>1, Finished
<1>7. CASE ~Fitting(e, a.msg)
  <2>1. Keeps(e, f, a.msg)
    BY <1>3, <1>4, <1>5, <1>7, KeepIs
  <2>2. f \in Effect
    BY <2>1 DEF Keeps
  <2> QED
    BY <1>1, <1>2, <1>6, <1>7, <2>1, <2>2, RequestKept
<1>8. CASE Fitting(e, a.msg)
  <2>1. PICK i \in DOMAIN now : now[i] = To(b, a.msg)
    BY <1>4 DEF ToSet
  <2>2. now[i].to = b /\ now[i].msg = a.msg
    BY <2>1 DEF To
  <2>3. a.msg.convergenceNumber = Round(b) /\ a.msg.broker \in broker[b].sentConnects
    BY <1>5, <1>8 DEF Fitting, Round
  <2>4. Joinable(b, a.msg)
    <3>1. /\ Awake(b) /\ a.msg.broker \in Available(b) \ Members(b)
          /\ a.msg.broker \in a.msg.members /\ a.msg.members \subseteq Available(b)
      BY <1>0, <1>1, <2>2, <2>3, ConnectFacts
    <3> QED
      BY <3>1 DEF Joinable
  <2>5. Member(e)
    BY <1>1, <1>2, <1>4, <2>4, WorkStarts DEF Joinable
  <2>6. PICK x : Merges(e, x, a.msg.broker, a.msg.members) /\ f = findAndSendMWOE(x)
    BY <1>3, <1>4, <1>5, <1>8, <2>5, MeetIs
  <2>7. f \in Effect
    <3>1. IsConditionTable(conditionTable)
      BY WorldHolds
    <3> QED
      BY <1>3, <1>4, <1>5, <2>5, <3>1, HandleConnectionPreserves DEF Member
  <2> QED
    BY <1>1, <1>2, <1>6, <1>8, <2>4, <2>6, <2>7, RequestMet
<1> QED
  BY <1>7, <1>8

-----------------------------------------------------------------------------
(* An update arrives.                                                      *)

(* Where an update comes from.                                             *)
LEMMA UpdateCame ==
    ASSUME NEW H, World(H), NEW b \in Brokers, NEW a \in Arrivals(b), a.msg.type = "Update",
           NEW g, g = it(a.from, b, a.msg), NEW u, u = Telling(a.from, b, a.msg)
    PROVE  /\ g \in Moving /\ g.to = b /\ g.msg = a.msg /\ IsWork(a.msg)
           /\ a.msg \in UpdateMessage /\ a.msg.sender = a.from
           /\ u \in UnderWay /\ u.to = b /\ u.from = a.from /\ u.members = a.msg.members
           /\ Awake(b) /\ a.from \in Linked(b) /\ a.from \in Brokers
           /\ Members(b) \subseteq a.msg.members /\ Members(b) # a.msg.members
           /\ a.msg.members \subseteq Available(b)
           /\ Fits!Silent(b) /\ g \notin OrderItems
<1>0. IInv /\ ItemsOK /\ ViewsOK /\ IsWork(a.msg) /\ Fits!FragmentsInv
  BY WorldHolds DEF IsWork, World
<1>1. g \in Moving /\ Shaped(g) /\ g.from = a.from /\ g.to = b /\ g.msg = a.msg
  BY <1>0, WorkItem
<1>2. a.from \in Brokers /\ a.msg.sender = a.from
  BY <1>1 DEF Shaped
<1>3. a.msg \in UpdateMessage
  <2>1. a.msg \in Message
    BY <1>0, <1>1 DEF ItemsOK
  <2> QED
    BY <2>1, MessageTypes
<1>4. u \in UnderWay
  <2>1. u = Telling(g.from, g.to, g.msg) /\ g.msg.type = "Update"
    BY <1>1
  <2> QED
    BY <1>0, <1>1, <2>1 DEF ViewsOK
<1>5. u.to = b /\ u.from = a.from /\ u.members = a.msg.members
  BY DEF Telling
<1>6. /\ TakingPart[b] /\ u.from \in LinkedTo[b] /\ KnownMembers[b] \subseteq u.members
      /\ KnownMembers[b] # u.members /\ u.members \subseteq BuildsOver[b]
  BY <1>0, <1>4, <1>5 DEF Fits!FragmentsInv, Fits!UpdatesOK
<1>7. Fits!Silent(b)
  BY <1>0, <1>4, <1>5, Fits!SilentLearns
<1>8. g \notin OrderItems
  BY <1>1 DEF OrderItems
<1> QED
  BY <1>0, <1>1, <1>2, <1>3, <1>4, <1>5, <1>6, <1>7, <1>8, ViewFunctions

(* A broker hears of new members and passes it on.                         *)
LEMMA UpdateHeard ==
    ASSUME NEW H, World(H), IInv', NEW b \in Brokers, NEW a \in Arrivals(b), a.msg.type = "Update",
           NEW e, Starts(e, b, a), NEW x, Hears(e, x, a.msg.sender, a.msg.members),
           NEW f, f = findAndSendMWOE(x), Acts(b, a, f)
    PROVE  Stepped
<1>g. PICK g : g = it(a.from, b, a.msg)
  OBVIOUS
<1>u. PICK u : u = Telling(a.from, b, a.msg)
  OBVIOUS
<1>c. PICK c : c = a.from
  OBVIOUS
<1>D. PICK D : D = Linked(b) \ {c}
  OBVIOUS
<1>M. PICK M : M = a.msg.members
  OBVIOUS
<1>N. PICK N : N = Linked(b)
  OBVIOUS
<1>C. PICK C : C = {}
  OBVIOUS
<1>0. /\ IInv /\ Placed /\ FragmentsHold /\ ItemsOK /\ ViewsOK /\ Fits!FragmentsInv /\ JoinsOK(H)
  BY WorldHolds DEF World
<1>1. /\ g \in Moving /\ g.to = b /\ g.msg = a.msg /\ IsWork(a.msg)
      /\ a.msg \in UpdateMessage /\ a.msg.sender = c
      /\ u \in UnderWay /\ u.to = b /\ u.from = c /\ u.members = M
      /\ Awake(b) /\ c \in Linked(b) /\ c \in Brokers
      /\ Members(b) \subseteq M /\ Members(b) # M /\ M \subseteq Available(b)
      /\ Fits!Silent(b) /\ g \notin OrderItems
  BY <1>g, <1>u, <1>c, <1>M, UpdateCame
<1>2. Members(b) # Available(b)
  BY <1>0, <1>1, OwnFacts
<1>3. /\ e \in Effect /\ e.self = b /\ e.st = broker[b] /\ WellSent(b, e.out)
  <2>1. e = Start(b, a)
    BY DEF Starts
  <2> QED
    BY <1>0, <2>1, StartWell
<1>4. Hears(e, x, c, M)
  BY <1>1, <1>M
<1>5. Grown(e, x)
  <2>1. M \in SUBSET Available(b)
    BY <1>1
  <2> QED
    BY <1>0, <1>1, <1>3, <1>4, <2>1, HearGrows
<1>6. /\ M = x.st.members /\ N = NeighbourBrokers(x.st.neighboursMap)
      /\ x.fault <=> e.fault
      /\ PostsUpdate(e, x, D, b, M)
      /\ x.st.sentConnects = broker[b].sentConnects
      /\ x.st.receivedConnects = broker[b].receivedConnects
  BY <1>1, <1>3, <1>4, <1>D, <1>N
     DEF Hears, PostsUpdate, Posts, Linked, Members, SameConnects
<1>7. Found(x, f) /\ \E R : Grows(b, f, D, M, N, R, {})
  <2>1. D \subseteq Linked(b) /\ M # Members(b)
    BY <1>1, <1>D
  <2> QED
    BY <1>1, <1>2, <1>5, <1>6, <2>1, GrowthIs
<1>8. PICK R : Grows(b, f, D, M, N, R, C)
  BY <1>7, <1>C
<1>9. /\ f.st.sentConnects = broker[b].sentConnects
      /\ f.st.receivedConnects = broker[b].receivedConnects
  BY <1>6, <1>7 DEF Found, SameConnects
<1>10. \A z \in C : z \notin Moving /\ Shaped(z) /\ z.msg.type = "Connect"
   BY <1>C
<1>11. /\ Placed' /\ (ItemsOK /\ ViewsOK)' /\ ~crashed'
       /\ ReportItems' = ReportItems \cup R /\ OrderItems' = OrderItems \ {g}
       /\ Merged(b, f, D, M, N)
  <2>1. a.msg.type # "MWOE"
    OBVIOUS
  <2> QED
    BY <1>1, <1>8, <1>10, <1>g, <2>1, GrowthMerges
<1>12. UnderWay' = (UnderWay \ {u}) \cup NewUpdates(b, D, M) /\ Asks' = Asks
  <2>1. Exchanged(a, b, NewUpdates(b, D, M), C)
    BY <1>1, <1>8, <1>10, <1>11, GrowthMessages
  <2>2. a.msg.type # "Connect"
    OBVIOUS
  <2> QED
    BY <2>1, <2>2, <1>C, <1>u DEF Exchanged
<1>13. ToldToAsk' = ToldToAsk
  BY <1>0, <1>1, <1>11, GrowthTold
<1>14. Asked' = Asked /\ KeptForLater' = KeptForLater
  BY <1>9, <1>11, RequestsStay
<1>15. KnownMembers[b] = Members(b) /\ LinkedTo[b] = Linked(b) /\ BuildsOver[b] = Available(b)
  BY ViewFunctions
<1>16. /\ KnownMembers' = [KnownMembers EXCEPT ![b] = @ \cup M]
       /\ \E r \in Fits!Reports(b, KnownMembers[b] \cup M, BuildsOver[b]) :
             Reported' = [Reported EXCEPT ![b] = r]
  <2>1. KnownMembers[b] \cup M = M
    BY <1>1, <1>15
  <2> QED
    BY <1>11, <1>15, <2>1 DEF Merged
<1>17. LinkedTo' = LinkedTo
  <2>1. LinkedTo' = [LinkedTo EXCEPT ![b] = LinkedTo[b]]
    BY <1>11, <1>15, <1>N DEF Merged
  <2> QED
    BY <2>1 DEF LinkedTo
<1>18. Fits!Learn(u)
  <2>1. UnderWay' = (UnderWay \ {u}) \cup
          {[from |-> b, to |-> d, members |-> M] : d \in LinkedTo[b] \ {c}}
    BY <1>12, <1>15, <1>D DEF NewUpdates
  <2>2. /\ u \in UnderWay
        /\ KnownMembers' = [KnownMembers EXCEPT ![u.to] = @ \cup u.members]
    BY <1>1, <1>16
  <2>3. \E r \in Fits!Reports(u.to, KnownMembers[u.to] \cup u.members, BuildsOver[u.to]) :
           Reported' = [Reported EXCEPT ![u.to] = r]
    BY <1>1, <1>16
  <2>4. UnderWay' = (UnderWay \ {u}) \cup
          {[from |-> u.to, to |-> d, members |-> u.members] : d \in LinkedTo[u.to] \ {u.from}}
    BY <1>1, <2>1
  <2>5. /\ Rounds' = Rounds /\ TakingPart' = TakingPart /\ BuildsOver' = BuildsOver
        /\ conditionTable' = conditionTable /\ LinkedTo' = LinkedTo
        /\ ToldToAsk' = ToldToAsk /\ Asks' = Asks /\ Asked' = Asked
        /\ KeptForLater' = KeptForLater
    BY <1>11, <1>12, <1>13, <1>14, <1>17 DEF Merged
  <2> QED
    BY <2>2, <2>3, <2>4, <2>5 DEF Fits!Learn
<1>19. Abstractly
  BY <1>1, <1>18 DEF Abstractly, Fits!FragmentsNext
<1> QED
  BY <1>1, <1>8, <1>11, <1>19, GrowthStepped

(* Handling an update.                                                     *)
LEMMA UpdateWorld ==
    ASSUME NEW H, World(H), IInv', NEW b \in Brokers, HandleUpdateMessage(b)
    PROVE  Stepped
<1>1. PICK a \in Arrivals(b) : a.msg.type = "Update"
                               /\ Finish(b, a, handleUpdateMessage(Start(b, a), a.msg))
  BY DEF HandleUpdateMessage, Arriving
<1>2. PICK e : Starts(e, b, a)
  BY DEF Starts
<1>3. PICK f : f = handleUpdateMessage(e, a.msg)
  OBVIOUS
<1>g. PICK g : g = it(a.from, b, a.msg)
  OBVIOUS
<1>u. PICK u : u = Telling(a.from, b, a.msg)
  OBVIOUS
<1>4. /\ IsWork(a.msg) /\ a.msg \in UpdateMessage /\ Awake(b)
  BY <1>1, <1>g, <1>u, UpdateCame
<1>5. /\ e \in Effect /\ e.self = b /\ e.st = broker[b]
      /\ MapOK(e.st.neighboursMap) /\ Member(e) /\ b \in Members(b)
  <2>1. /\ Clean(e) /\ e.self = b /\ e.st = broker[b]
        /\ MapOK(broker[b].neighboursMap) /\ Member(e) /\ b \in Members(b)
    BY <1>2, <1>4, WorkStarts
  <2> QED
    BY <2>1 DEF Clean
<1>6. PICK x : Hears(e, x, a.msg.sender, a.msg.members) /\ f = findAndSendMWOE(x)
  BY <1>3, <1>4, <1>5, HearIs
<1>7. f \in Effect
  <2>1. IsConditionTable(conditionTable)
    BY WorldHolds
  <2> QED
    BY <1>3, <1>4, <1>5, <2>1, HandleUpdatePreserves DEF Member
<1>8. Acts(b, a, f)
  <2>1. Finish(b, a, f)
    BY <1>1, <1>2, <1>3 DEF Starts
  <2> QED
    BY <1>4, <1>5, <1>7, <2>1, Finished
<1> QED
  BY <1>1, <1>2, <1>6, <1>8, UpdateHeard

-----------------------------------------------------------------------------
(* Other events: the name server, sleeping and waking up.                  *)

(* A control message or a timer is handled with effect e, in which R are   *)
(* the reports.                                                            *)
Turn(n, a, e, R) ==
    /\ a \in Arrivals(n) /\ ~IsWork(a.msg) /\ End(n, a, e)
    /\ e.direct \in Seq(Event) /\ Distinct(e.direct) /\ e.out = [d \in Nodes |-> <<>>]
    /\ \A ev \in ToSet(e.direct) :
          \/ IsControl(ev) /\ ev \notin Control
          \/ it(NULL, ev.to, ev.msg) \in R
    /\ \A x \in R : /\ x = it(NULL, x.to, x.msg) /\ x.msg.type = "MWOE" /\ Shaped(x)
                    /\ x \notin ReportItems /\ To(x.to, x.msg) \in ToSet(e.direct)
    /\ Unique(ReportItems \cup R)
    /\ \A c \in Brokers : broker'[c].receivedMWOEs = broker[c].receivedMWOEs

(* What it does to the items.                                              *)
Turned(R) ==
    /\ Placed' /\ (ItemsOK /\ ViewsOK)'
    /\ ReportItems' = ReportItems \cup R /\ OrderItems' = OrderItems
    /\ Asks' = Asks /\ UnderWay' = UnderWay /\ ToldToAsk' = ToldToAsk

(* The items after such a step,                                            *)
LEMMA TurnMoves ==
    ASSUME NEW H, World(H), IInv', NEW n \in Nodes, NEW a, NEW e, NEW R, Turn(n, a, e, R)
    PROVE  /\ Moving' = (Moving \ Consumed(n, a)) \cup SentBy(n, e)
           /\ \A x \in Consumed(n, a) : ~IsWork(x.msg)
           /\ \A x \in SentBy(n, e) : x \notin Moving /\ (x \in R \/ ~IsWork(x.msg))
           /\ R \subseteq SentBy(n, e)
           /\ Neat'
<1>0. /\ IInv /\ Placed /\ KernelTypeOK /\ KernelTypeOK' /\ NULL \notin Nodes
  BY NodesAssumption DEF World, IInv, TypeOK, Nodes
<1>1. e.out \in [Nodes -> Seq(Message)] /\ \A d \in Nodes : ToSet(e.out[d]) = {}
  <2>1. \A d \in Nodes : e.out[d] = <<>>
    BY DEF Turn
  <2> QED
    BY <2>1, NoElements DEF Turn
<1>2. Moving' = (Moving \ Consumed(n, a)) \cup SentBy(n, e)
  BY <1>0, <1>1, MovingStep DEF Turn, Placed
<1>3. \A x \in Consumed(n, a) : ~IsWork(x.msg)
  BY DEF Consumed, Turn, it
<1>4. ASSUME NEW x \in SentBy(n, e)
      PROVE  x \notin Moving /\ (x \in R \/ ~IsWork(x.msg))
  <2>1. x = it(NULL, x.to, x.msg) /\ To(x.to, x.msg) \in ToSet(e.direct)
    <3>1. /\ x = it(x.from, x.to, x.msg)
          /\ \/ x.from = NULL /\ To(x.to, x.msg) \in ToSet(e.direct)
             \/ x.from = n /\ x.to \in Nodes /\ x.msg \in ToSet(e.out[x.to])
      BY <1>1, <1>4, SentItem DEF Turn
    <3> QED
      BY <1>1, <3>1
  <2>2. To(x.to, x.msg).to = x.to /\ To(x.to, x.msg).msg = x.msg
    BY DEF To
  <2>3. CASE IsControl(To(x.to, x.msg)) /\ To(x.to, x.msg) \notin Control
    <3>1. To(x.to, x.msg) \notin ToSet(now)
      BY <2>3 DEF Control, ControlOf
    <3>2. it(NULL, x.to, x.msg) \notin Moving
      BY <1>0, <3>1, MovingIs
    <3>3. ~IsWork(x.msg)
      BY <2>2, <2>3 DEF IsControl, IsWork
    <3> QED
      BY <2>1, <3>2, <3>3
  <2>4. CASE it(NULL, x.to, x.msg) \in R
    <3>1. x \in R /\ x \notin ReportItems /\ x.msg.type = "MWOE"
      BY <2>1, <2>4 DEF Turn
    <3> QED
      BY <3>1 DEF ReportItems
  <2>5. \/ IsControl(To(x.to, x.msg)) /\ To(x.to, x.msg) \notin Control
        \/ it(NULL, To(x.to, x.msg).to, To(x.to, x.msg).msg) \in R
    BY <2>1 DEF Turn
  <2> QED
    BY <2>2, <2>3, <2>4, <2>5
<1>5. R \subseteq SentBy(n, e)
  <2>1. ASSUME NEW x \in R
        PROVE  x \in SentBy(n, e)
    <3>1. x = it(NULL, x.to, x.msg) /\ To(x.to, x.msg) \in ToSet(e.direct)
      BY <2>1 DEF Turn
    <3>2. PICK t, m : t = x.to /\ m = x.msg
      OBVIOUS
    <3>3. e.direct \in Seq(Event) /\ To(t, m) \in ToSet(e.direct)
      BY <3>1, <3>2 DEF Turn
    <3>4. it(NULL, t, m) \in SentBy(n, e)
      BY <1>1, <3>3, SentByIs
    <3> QED
      BY <3>1, <3>2, <3>4
  <2> QED
    BY <2>1
<1>6. Neat'
  <2>1. NeatOut(e.out)
    BY NothingIsNeat DEF Turn
  <2>2. SentBy(n, e) \cap Moving = {}
    BY <1>4
  <2>3. \A d \in Nodes : \A m \in ToSet(e.out[d]) : m.type # "Update"
    BY <1>1
  <2> QED
    BY <1>0, <1>1, <2>1, <2>2, <2>3, NeatStep DEF Turn, Placed
<1> QED
  BY <1>2, <1>3, <1>4, <1>5, <1>6

(* and what Fragments sees of them.                                        *)
LEMMA TurnPlaces ==
    ASSUME NEW H, World(H), IInv', NEW n \in Nodes, NEW a, NEW e, NEW R, Turn(n, a, e, R)
    PROVE  Turned(R)
<1>0. /\ IInv /\ Placed /\ ItemsOK /\ ViewsOK
  BY WorldHolds DEF World
<1>G. PICK G : G = Consumed(n, a)
  OBVIOUS
<1>S. PICK S : S = SentBy(n, e)
  OBVIOUS
<1>1. /\ Moving' = (Moving \ G) \cup S
      /\ \A x \in G : ~IsWork(x.msg)
      /\ \A x \in S : x \notin Moving /\ (x \in R \/ ~IsWork(x.msg))
      /\ R \subseteq S /\ Neat'
  BY TurnMoves, <1>G, <1>S
<1>2. \A x \in R : x.msg.type = "MWOE" /\ Shaped(x)
  BY DEF Turn
<1>3. Collected' = Collected
  BY DEF Turn, Collected
<1>4. ReportItems' = ReportItems \cup R
  BY <1>1, <1>2, <1>3 DEF ReportItems, IsWork
<1>5. OrderItems' = OrderItems
  BY <1>1, <1>2 DEF OrderItems, IsWork
<1>6. AllShaped'
  <2>1. \A x \in Moving' : Shaped(x)
    BY <1>0, <1>1, <1>2 DEF AllShaped, Placed, Shaped, IsWork
  <2> QED
    BY <2>1 DEF AllShaped, Shaped
<1>7. (\A c \in Brokers : Tidy(broker[c].receivedMWOEs))'
  <2>1. \A c \in Brokers : Tidy(broker'[c].receivedMWOEs)
    BY <1>0 DEF Turn, Placed
  <2> QED
    BY <2>1 DEF Tidy, Distinct, ReportsNamed
<1>8. Unique(ReportItems)' /\ Unique(OrderItems)'
  <2>1. Unique(ReportItems') /\ Unique(OrderItems')
    BY <1>0, <1>4, <1>5 DEF Turn, Placed
  <2> QED
    BY <2>1 DEF Unique, origin, Destination
<1>9. Placed'
  BY <1>1, <1>6, <1>7, <1>8 DEF Placed
<1>10. (ItemsOK /\ ViewsOK)'
  BY <1>9, ViewsFitNext
<1>11. Asks' = Asks
  <2>1. /\ ViewsOK /\ ViewsOK' /\ Moving' = (Moving \ G) \cup S
        /\ \A x \in G \cup S : x.msg.type # "Connect"
    BY <1>0, <1>1, <1>2, <1>10 DEF IsWork
  <2> QED
    BY <2>1, AsksSame
<1>12. UnderWay' = UnderWay
  <2>1. /\ ViewsOK /\ ViewsOK' /\ Moving' = (Moving \ G) \cup S
        /\ \A x \in G \cup S : x.msg.type # "Update"
    BY <1>0, <1>1, <1>2, <1>10 DEF IsWork
  <2> QED
    BY <2>1, UnderWaySame
<1>13. ToldToAsk' = ToldToAsk
  <2>1. ASSUME NEW c \in Brokers
        PROVE  ToldToAsk'[c] = ToldToAsk[c]
    BY <1>0, <1>5, <1>10, ToldSame
  <2> QED
    BY <1>0, <1>10, <2>1, AllTold
<1> QED
  BY <1>4, <1>5, <1>9, <1>10, <1>11, <1>12, <1>13 DEF Turned

(* A turn without a report.                                                *)
LEMMA SameReports ==
    ASSUME NEW H, World(H), Turned({})
    PROVE  /\ Reported' = Reported
           /\ Abstractly /\ conditionTable' = conditionTable /\ ~crashed' => Stepped
<1>0. /\ ItemsOK /\ ViewsOK /\ ViewsOK'
  BY WorldHolds DEF Turned
<1>1. ReportItems' = ReportItems /\ OrderItems' = OrderItems /\ Placed'
  BY DEF Turned
<1>2. Reported' = Reported
  <2>1. ASSUME NEW c \in Brokers
        PROVE  Reported'[c] = Reported[c]
    BY <1>0, <1>1, ReportedSame
  <2> QED
    BY <1>0, <2>1, AllReported
<1>3. \A x \in ReportItems : ReportTrip(x) /\ Reported[origin(x)] # NULL
  BY ReportFacts
<1>4. \A x \in OrderItems : OrderTrip(x) /\ ToldToAsk[origin(x)] # NULL
  BY OrderFacts
<1> QED
  BY <1>1, <1>2, <1>3, <1>4 DEF Stepped

(* Brokers take part as before.                                            *)
LEMMA PartStays ==
    ASSUME \A c \in Brokers : Awake(c)' <=> Awake(c)
    PROVE  TakingPart' = TakingPart
<1>1. \A c \in Brokers : TakingPart[c] = Awake(c) /\ TakingPart'[c] = Awake(c)'
  BY ViewFunctions, ViewFunctionsNext
<1>2. \A c \in Brokers : (Awake(c)' <=> Awake(c)) => Awake(c)' = Awake(c)
  BY DEF Awake
<1>3. TakingPart' = [c \in Brokers |-> Awake(c)']
  BY DEF TakingPart
<1> QED
  BY <1>2, <1>3 DEF TakingPart

(* Who is disturbed by the control messages of the phases.                 *)
LEMMA NoneDisturbed ==
    ASSUME NEW c, NEW x, NEW n, NEW D
    PROVE  /\ Undisturbed({}, c)
           /\ Undisturbed({To(NS, [type |-> "NSRequest", requester |-> x])}, c)
           /\ Undisturbed(Announced(D, join(x, n, FALSE)), c)
  BY DEF Undisturbed, To, Announced, join

(* An answer of the name server, or a leave, is about one broker.          *)
LEMMA OneDisturbed ==
    ASSUME NEW c, NEW x, NEW n, NEW list, NEW D
    PROVE  /\ Undisturbed({To(x, answer(list, n))}, c) <=> c # x
           /\ Undisturbed(Announced(D, join(x, n, TRUE))
                            \cup (IF x \in D THEN {} ELSE {departure(x)}), c) <=> c # x
<1>1. Undisturbed({To(x, answer(list, n))}, c) <=> c # x
  BY DEF Undisturbed, To, answer
<1>2. ASSUME NEW C, C = Announced(D, join(x, n, TRUE))
                            \cup (IF x \in D THEN {} ELSE {departure(x)}), c # x
      PROVE  Undisturbed(C, c)
  <2>1. \A ev \in C : \/ ev.msg.type = "Join" /\ ev.msg.requester = x
                      \/ ev.msg.type = "Disconnection" /\ ev.msg.requester = x
    <3>1. \A ev \in Announced(D, join(x, n, TRUE)) : ev.msg.type = "Join" /\ ev.msg.requester = x
      BY DEF Announced, join, To
    <3>2. departure(x).msg.type = "Disconnection" /\ departure(x).msg.requester = x
      BY DEF To, departure
    <3>3. \A ev \in C : ev \in Announced(D, join(x, n, TRUE)) \/ ev = departure(x)
      BY <1>2
    <3> QED
      BY <3>1, <3>2, <3>3
  <2>2. ASSUME NEW ev \in C
        PROVE  /\ ev.msg.type = "NSMessage" => ev.to # c
               /\ ev.msg.type = "Disconnection" => ev.msg.requester # c
               /\ ev.msg.type = "Join" => ~(ev.msg.leaving /\ ev.msg.requester = c)
    <3>1. c # x
      BY <1>2
    <3>2. \/ ev.msg.type = "Join" /\ ev.msg.requester = x
          \/ ev.msg.type = "Disconnection" /\ ev.msg.requester = x
      BY <2>1, <2>2
    <3> QED
      BY <3>1, <3>2
  <2> QED
    BY <2>2 DEF Undisturbed
<1>3. ASSUME NEW C, C = Announced(D, join(x, n, TRUE))
                            \cup (IF x \in D THEN {} ELSE {departure(x)})
      PROVE  ~Undisturbed(C, x)
  <2>1. CASE x \in D
    <3>1. To(x, join(x, n, TRUE)) \in C
      BY <1>3, <2>1 DEF Announced
    <3>2. /\ To(x, join(x, n, TRUE)).msg.type = "Join" /\ To(x, join(x, n, TRUE)).msg.leaving
          /\ To(x, join(x, n, TRUE)).msg.requester = x
      BY DEF To, join
    <3> QED
      BY <3>1, <3>2 DEF Undisturbed
  <2>2. CASE x \notin D
    <3>1. departure(x) \in C
      BY <1>3, <2>2
    <3>2. departure(x).msg.type = "Disconnection" /\ departure(x).msg.requester = x
      BY DEF To, departure
    <3> QED
      BY <3>1, <3>2 DEF Undisturbed
  <2> QED
    BY <2>1, <2>2
<1> QED
  BY <1>1, <1>2, <1>3

(* Who takes part, while a broker leaves.                                  *)
LEMMA BrokerTurn ==
    ASSUME IInv, NEW b \in Brokers, NEW a, NEW e, Acts(b, a, e), ~IsWork(a.msg),
           e.st.receivedMWOEs = broker[b].receivedMWOEs, e.out = [d \in Nodes |-> <<>>],
           NEW R, Distinct(e.direct),
           \A ev \in ToSet(e.direct) :
              \/ IsControl(ev) /\ ev \notin Control
              \/ it(NULL, ev.to, ev.msg) \in R,
           \A x \in R : /\ x = it(NULL, x.to, x.msg) /\ x.msg.type = "MWOE" /\ Shaped(x)
                        /\ x \notin ReportItems /\ To(x.to, x.msg) \in ToSet(e.direct),
           Unique(ReportItems \cup R)
    PROVE  Turn(b, a, e, R)
<1>1. broker \in [Brokers -> BrokerState] /\ broker' = [broker EXCEPT ![b] = e.st]
  BY DEF IInv, TypeOK, Acts
<1>2. \A c \in Brokers : broker'[c].receivedMWOEs = broker[c].receivedMWOEs
  BY <1>1
<1>3. e.direct \in Seq(Event)
  BY DEF Acts, Effect
<1> QED
  BY <1>2, <1>3 DEF Turn, Acts

(* No report is added.                                                     *)
LEMMA SilentTurn ==
    ASSUME NEW H, World(H), NEW b \in Brokers, NEW a, NEW e, Acts(b, a, e), ~IsWork(a.msg),
           e.st.receivedMWOEs = broker[b].receivedMWOEs, e.out = [d \in Nodes |-> <<>>],
           Distinct(e.direct), \A ev \in ToSet(e.direct) : IsControl(ev) /\ ev \notin Control
    PROVE  Turn(b, a, e, {})
<1>R. PICK R : R = {}
  OBVIOUS
<1>1. Unique(ReportItems \cup R)
  BY <1>R DEF World, Placed
<1>2. /\ \A ev \in ToSet(e.direct) :
            \/ IsControl(ev) /\ ev \notin Control
            \/ it(NULL, ev.to, ev.msg) \in R
      /\ \A x \in R : /\ x = it(NULL, x.to, x.msg) /\ x.msg.type = "MWOE" /\ Shaped(x)
                      /\ x \notin ReportItems /\ To(x.to, x.msg) \in ToSet(e.direct)
  BY <1>R
<1>3. Turn(b, a, e, R)
  BY <1>1, <1>2, BrokerTurn DEF World
<1> QED
  BY <1>3, <1>R

(* A turn that changes nothing the fragments tell apart.                   *)
LEMMA UnmovedStep ==
    ASSUME NEW H, World(H), IInv', NEW n \in Nodes, NEW a, NEW e, Turn(n, a, e, {}),
           Rounds' = Rounds, BuildsOver' = BuildsOver, KnownMembers' = KnownMembers,
           LinkedTo' = LinkedTo, Asked' = Asked, KeptForLater' = KeptForLater,
           TakingPart' = TakingPart, conditionTable' = conditionTable, ~crashed'
    PROVE  Stepped
<1>1. Turned({})
  BY TurnPlaces
<1>2. Reported' = Reported
  BY <1>1, SameReports
<1>3. Asks' = Asks /\ UnderWay' = UnderWay /\ ToldToAsk' = ToldToAsk
  BY <1>1 DEF Turned
<1>4. UNCHANGED Fits!fragments
  BY <1>2, <1>3 DEF Fits!fragments
<1>5. Abstractly
  BY <1>4 DEF Abstractly
<1> QED
  BY <1>1, <1>5, SameReports

(* One event is due.                                                       *)
LEMMA NoneTwice ==
    ASSUME NEW ev \in Event, NEW d, d = <<>> \o <<ev>>
    PROVE  Distinct(d) /\ ToSet(d) = {ev} /\ d \in Seq(Event)
<1>1. d = <<ev>>
  BY SingleEvent
<1> QED
  BY <1>1, OneElement, SingleEvent

(* A broker wakes up.                                                      *)
LEMMA WakeWorld ==
    ASSUME NEW H, World(H), IInv', NEW b \in Brokers, WakeUp(b)
    PROVE  Stepped
<1> PICK a \in Arrivals(b) : a.msg.type = "WakeUp" /\ Finish(b, a, wakeUp(Start(b, a)))
  BY DEF WakeUp, Arriving
<1>e. PICK e : e = Start(b, a)
  OBVIOUS
<1>f. PICK f : f = wakeUp(e)
  OBVIOUS
<1>q. PICK request : request = [type |-> "NSRequest", requester |-> b]
  OBVIOUS
<1>v. PICK ev : ev = To(NS, request)
  OBVIOUS
<1>0. IInv /\ JoinsOK(H) /\ QueueOK(now)
  BY DEF World, JoinsOK
<1>1. /\ e \in Effect /\ e.self = b /\ e.st = broker[b]
      /\ e.direct = <<>> /\ e.out = [d \in Nodes |-> <<>>] /\ ~e.fault
  BY <1>0, <1>e, StartIs
<1>2. OnlySends(e, f) /\ SendsNow(e, f, NS, request)
  BY <1>1, <1>f, <1>q, WakeIs
<1>3. Acts(b, a, f)
  <2>1. f \in Effect /\ Finish(b, a, f)
    BY <1>2, <1>e, <1>f DEF OnlySends
  <2> QED
    BY <2>1, Finished DEF IsWork
<1>4. now = <<>>
  BY <1>0, ControlArrives
<1>5. Calm(H) /\ Control = {}
  BY <1>0, <1>4, CalmWhenIdle DEF Calm
<1>6. ev \in Event /\ IsControl(ev) /\ f.direct = <<>> \o <<ev>>
  <2>1. ev \in Event /\ IsControl(ev)
    BY <1>q, <1>v DEF Message, ProtocolMessage, NSRequest, To, Event, Nodes, IsControl
  <2> QED
    BY <1>1, <1>2, <1>v, <2>1 DEF SendsNow
<1>7. /\ Distinct(f.direct) /\ ToSet(f.direct) = {ev}
      /\ Control' = {ev}
  <2>1. Distinct(f.direct) /\ ToSet(f.direct) = {ev} /\ ControlOf(f.direct) = {ev}
    BY <1>6, NoneTwice, SingleEvent
  <2>2. now' = rest(a) \o f.direct
    BY <1>0, <1>3, StepFacts
  <2>3. rest(a) = <<>> /\ f.direct \in Seq(Event)
    BY <1>4, <1>6, NoneTwice, ControlArrives, <1>0 DEF rest
  <2>4. now' = f.direct
    BY <2>2, <2>3, EmptyFront
  <2> QED
    BY <2>1, <2>4 DEF Control
<1>8. Turn(b, a, f, {})
  <2>1. f.st.receivedMWOEs = broker[b].receivedMWOEs /\ f.out = [d \in Nodes |-> <<>>]
    BY <1>1, <1>2 DEF OnlySends, SendsNow
  <2>2. \A v \in ToSet(f.direct) : IsControl(v) /\ v \notin Control
    BY <1>5, <1>6, <1>7
  <2>3. ~IsWork(a.msg)
    BY DEF IsWork
  <2> QED
    BY <1>3, <1>7, <2>1, <2>2, <2>3, SilentTurn
<1>9. TakingPart' = TakingPart
  <2>1. ASSUME NEW c \in Brokers
        PROVE  Awake(c)' <=> Awake(c)
    <3>1. Undisturbed(Control, c) /\ Undisturbed(Control', c)
      BY <1>5, <1>7, <1>q, <1>v, NoneDisturbed
    <3>2. RegisteredBrokers' = RegisteredBrokers /\ broker'[c] = broker[c]
      BY <1>0, <1>1, <1>2, <1>3, StepFacts DEF OnlySends
    <3> QED
      BY <3>1, <3>2, AwakeIs, AwakeNextIs
  <2> QED
    BY <2>1, PartStays
<1>10. /\ Rounds' = Rounds /\ BuildsOver' = BuildsOver /\ KnownMembers' = KnownMembers
       /\ LinkedTo' = LinkedTo /\ conditionTable' = conditionTable
       /\ Asked' = Asked /\ KeptForLater' = KeptForLater
  <2>1. SameView(broker[b], f.st) /\ SameConnects(broker[b], f.st)
    BY <1>1, <1>2 DEF OnlySends, SameView, SameConnects
  <2> QED
    BY <1>0, <1>3, <2>1, ViewsKept
<1>11. ~crashed'
  BY <1>1, <1>2, <1>3 DEF Acts, End, SendsNow
<1>12. b \in Nodes
  BY DEF Nodes
<1> QED
  BY <1>8, <1>9, <1>10, <1>11, <1>12, UnmovedStep

(* The name server leaves what the fragments tell apart of the brokers.    *)
LEMMA ServerTurn ==
    ASSUME NEW H, World(H), NEW a \in Arrivals(NS), ~IsWork(a.msg), NEW e, End(NS, a, e),
           e.direct \in Seq(Event), Distinct(e.direct), e.out = [d \in Nodes |-> <<>>],
           \A ev \in ToSet(e.direct) : IsControl(ev) /\ ev \notin Control,
           broker' = broker
    PROVE  Turn(NS, a, e, {})
<1>R. PICK R : R = {}
  OBVIOUS
<1>1. Unique(ReportItems \cup R)
  BY <1>R DEF World, Placed
<1>2. /\ \A ev \in ToSet(e.direct) :
            \/ IsControl(ev) /\ ev \notin Control
            \/ it(NULL, ev.to, ev.msg) \in R
      /\ \A x \in R : /\ x = it(NULL, x.to, x.msg) /\ x.msg.type = "MWOE" /\ Shaped(x)
                      /\ x \notin ReportItems /\ To(x.to, x.msg) \in ToSet(e.direct)
  BY <1>R
<1>3. Turn(NS, a, e, R)
  BY <1>1, <1>2 DEF Turn
<1> QED
  BY <1>3, <1>R

(* No broker changes.                                                      *)
LEMMA BrokersKept ==
    ASSUME broker' = broker
    PROVE  /\ Rounds' = Rounds /\ BuildsOver' = BuildsOver /\ KnownMembers' = KnownMembers
           /\ LinkedTo' = LinkedTo /\ Asked' = Asked /\ KeptForLater' = KeptForLater
  BY DEF Rounds, Round, BuildsOver, Available, KnownMembers, Members, LinkedTo, Linked, Asked,
         KeptForLater

(* The name server's list has one broker more.                             *)
LEMMA OneMoreElement ==
    ASSUME NEW s \in Seq(Brokers), NEW x \in Brokers
    PROVE  ToSet(Append(s, x)) = ToSet(s) \cup {x}
<1>1. Append(s, x) = s \o <<x>> /\ <<x>> \in Seq(Brokers)
  BY AppendElements
<1>2. ToSet(s \o <<x>>) = ToSet(s) \cup ToSet(<<x>>)
  BY <1>1, ConcatElements
<1>3. ToSet(<<x>>) = {x}
  BY OneElement
<1> QED
  BY <1>1, <1>2, <1>3

(* The name server registers a broker.                                     *)
LEMMA RegisterWorld ==
    ASSUME NEW H, World(H), IInv', HandleBrokerRequest
    PROVE  Stepped
<1> PICK a \in Arrivals(NS) :
         /\ a.msg.type = "NSRequest" /\ a.msg.requester \in Brokers
         /\ LET b == a.msg.requester
                reply == [type |-> "NSMessage", requestedNodes |-> registerBroker(b),
                          convergenceNumber |-> convergenceNumber]
            IN  /\ brokerList' = registerBroker(b)
                /\ convergenceNumber' = convergenceNumber + 1
                /\ End(NS, a, SendDirect(Begin(NS, a, NULL), b, reply))
  BY DEF HandleBrokerRequest, handleBrokerRequest
<1>x. PICK x : x = a.msg.requester
  OBVIOUS
<1>r. PICK reply : reply = answer(registerBroker(x), convergenceNumber)
  OBVIOUS
<1>f. PICK f : f = SendDirect(Begin(NS, a, NULL), x, reply)
  OBVIOUS
<1>v. PICK ev : ev = To(x, reply)
  OBVIOUS
<1>0. /\ IInv /\ JoinsOK(H) /\ QueueOK(now) /\ Phase(H) /\ now \in Seq(Event)
      /\ brokerList \in Seq(Brokers) /\ convergenceNumber \in Nat
  BY DEF World, JoinsOK, IInv, TypeOK, KernelTypeOK, NSTypeOK
<1>1. /\ x \in Brokers /\ brokerList' = registerBroker(x)
      /\ End(NS, a, f)
      /\ broker' = broker /\ conditionTable' = conditionTable
  BY <1>x, <1>r, <1>f DEF HandleBrokerRequest, answer
<1>2. /\ f.out = [n \in Nodes |-> <<>>] /\ f.direct = Append(<<>>, ev) /\ ~f.fault
      /\ f.timers = IF a.from = NS THEN timers[NS] \ {a.msg} ELSE timers[NS]
  BY <1>f, <1>v DEF SendDirect, Begin, To
<1>3. /\ now # <<>> /\ Head(now) = To(NS, a.msg) /\ To(NS, a.msg) \in Control
      /\ now' = Tail(now) \o f.direct
  BY <1>0, <1>1, <1>2, NameServerFacts
<1>4. Requesting(H, x)
  <2>1. Belongs(H, NS, a.msg)
    BY <1>0, <1>3, PhaseOf
  <2>2. PICK y \in Brokers :
             /\ Requesting(H, y)
             /\ To(NS, a.msg) = To(NS, [type |-> "NSRequest", requester |-> y])
    BY <2>1 DEF Belongs
  <2>3. a.msg = [type |-> "NSRequest", requester |-> y]
    BY <2>2 DEF To
  <2>4. x = y
    BY <2>3, <1>x
  <2> QED
    BY <2>2, <2>4
<1>5. /\ x \notin RegisteredBrokers /\ Len(now) = 1
      /\ Control = {To(NS, [type |-> "NSRequest", requester |-> x])}
  BY <1>4 DEF Requesting
<1>6. /\ brokerList' = Append(brokerList, x)
      /\ RegisteredBrokers' = RegisteredBrokers \cup {x}
      /\ reply = answer(Append(brokerList, x), convergenceNumber)
  <2>1. brokerList' = Append(brokerList, x) /\ registerBroker(x) = Append(brokerList, x)
    BY <1>1, <1>5 DEF registerBroker
  <2>2. RegisteredBrokers = ToSet(brokerList) /\ RegisteredBrokers' = ToSet(brokerList')
    BY DEF RegisteredBrokers, ToSet
  <2>3. ToSet(Append(brokerList, x)) = ToSet(brokerList) \cup {x}
    <3>1. brokerList \in Seq(Brokers) /\ x \in Brokers
      BY <1>0, <1>1
    <3> QED
      BY <3>1, OneMoreElement
  <2> QED
    BY <1>r, <2>1, <2>2, <2>3
<1>7. ev \in Event /\ IsControl(ev) /\ ev \notin Control /\ f.direct = <<>> \o <<ev>>
  <2>1. reply \in Message /\ reply.type = "NSMessage"
    <3>1. Append(brokerList, x) \in Seq(Brokers)
      BY <1>0, <1>1
    <3> QED
      BY <1>0, <1>6, <3>1 DEF answer, Message, ProtocolMessage, NSMessage
  <2>2. ev \in Event /\ IsControl(ev)
    BY <1>1, <1>v, <2>1 DEF To, Event, Nodes, IsControl
  <2>3. ev \notin Control
    BY <1>5, <1>v, <2>1 DEF To
  <2>4. Append(<<>>, ev) = <<>> \o <<ev>>
    BY <2>2, AppendElements
  <2> QED
    BY <1>2, <2>2, <2>3, <2>4
<1>8. Distinct(f.direct) /\ ToSet(f.direct) = {ev} /\ f.direct \in Seq(Event)
  BY <1>7, NoneTwice
<1>9. Control' = {ev}
  <2>1. Tail(now) = <<>>
    BY <1>0, <1>3, <1>5, TailOfOne
  <2>2. now' = f.direct
    BY <1>3, <1>8, <2>1, EmptyFront
  <2> QED
    BY <1>7, <2>2, SingleEvent DEF Control
<1>10. Turn(NS, a, f, {})
  <2>1. ~IsWork(a.msg)
    BY DEF IsWork
  <2>2. \A v \in ToSet(f.direct) : IsControl(v) /\ v \notin Control
    BY <1>7, <1>8
  <2> QED
    BY <1>1, <1>2, <1>8, <2>1, <2>2, ServerTurn
<1>11. TakingPart' = TakingPart
  <2>1. ASSUME NEW c \in Brokers
        PROVE  Awake(c)' <=> Awake(c)
    <3>1. Undisturbed(Control, c)
      BY <1>5, NoneDisturbed
    <3>2. Undisturbed(Control', c) <=> c # x
      BY <1>6, <1>9, <1>v, OneDisturbed
    <3>3. broker'[c] = broker[c]
      BY <1>1
    <3> QED
      BY <1>5, <1>6, <3>1, <3>2, <3>3, AwakeIs, AwakeNextIs
  <2> QED
    BY <2>1, PartStays
<1>12. ~crashed'
  BY <1>1, <1>2 DEF End
<1>13. NS \in Nodes
  BY DEF Nodes
<1> QED
  BY <1>1, <1>10, <1>11, <1>12, <1>13, BrokersKept, UnmovedStep

(* The name server removes a broker.                                       *)
LEMMA UnregisterWorld ==
    ASSUME NEW H, World(H), IInv', HandleUnregisterRequest
    PROVE  Stepped
<1> PICK a \in Arrivals(NS) :
         /\ a.msg.type = "Disconnection" /\ a.msg.requester \in Brokers
         /\ brokerList' = RemoveFirst(brokerList, a.msg.requester)
         /\ convergenceNumber' = convergenceNumber + 1
         /\ LET e == Begin(NS, a, NULL)
            IN  End(NS, a, IF brokerList = <<>> THEN Fault(e) ELSE e)
  BY DEF HandleUnregisterRequest, handleUnregisterRequest
<1>x. PICK x : x = a.msg.requester
  OBVIOUS
<1>f. PICK f : f = IF brokerList = <<>> THEN Fault(Begin(NS, a, NULL)) ELSE Begin(NS, a, NULL)
  OBVIOUS
<1>0. /\ IInv /\ JoinsOK(H) /\ QueueOK(now) /\ Phase(H) /\ now \in Seq(Event)
      /\ brokerList \in Seq(Brokers) /\ Distinct(brokerList)
  BY DEF World, JoinsOK, IInv, TypeOK, KernelTypeOK, NSTypeOK, HistoryOK
<1>1. /\ x \in Brokers /\ brokerList' = RemoveFirst(brokerList, x)
      /\ End(NS, a, f)
      /\ broker' = broker /\ conditionTable' = conditionTable
  BY <1>x, <1>f DEF HandleUnregisterRequest
<1>2. /\ f.out = [n \in Nodes |-> <<>>] /\ f.direct = <<>> /\ (f.fault => brokerList = <<>>)
      /\ f.timers = IF a.from = NS THEN timers[NS] \ {a.msg} ELSE timers[NS]
  BY <1>f DEF Fault, Begin
<1>3. /\ now # <<>> /\ Head(now) = To(NS, a.msg) /\ To(NS, a.msg) \in Control
      /\ now' = Tail(now) \o f.direct
  BY <1>0, <1>1, <1>2, NameServerFacts
<1>4. PICK D \in SUBSET Brokers : Leaving(H, x, D) /\ x \notin D
  <2>1. Belongs(H, NS, a.msg)
    BY <1>0, <1>3, PhaseOf
  <2>2. PICK y \in Brokers : \E D \in SUBSET Brokers :
           Leaving(H, y, D) /\ y \notin D /\ To(NS, a.msg) = departure(y)
    BY <2>1 DEF Belongs
  <2>3. a.msg = [type |-> "Disconnection", requester |-> y]
    BY <2>2 DEF To, departure
  <2>4. x = y
    BY <2>3, <1>x
  <2> QED
    BY <2>2, <2>4
<1>5. /\ Control = Announced(D, join(x, convergenceNumber, TRUE))
                     \cup (IF x \in D THEN {} ELSE {departure(x)})
      /\ x \in RegisteredBrokers
  BY <1>4 DEF Leaving
<1>6. RegisteredBrokers' = RegisteredBrokers \ {x} /\ brokerList # <<>>
  <2>1. RegisteredBrokers = ToSet(brokerList) /\ RegisteredBrokers' = ToSet(brokerList')
    BY DEF RegisteredBrokers, ToSet
  <2>2. ToSet(RemoveFirst(brokerList, x)) = ToSet(brokerList) \ {x}
    BY <1>0, <1>5, <2>1, RemoveFirstIs
  <2>3. brokerList # <<>>
    BY <1>5, <2>1, NoElements
  <2> QED
    BY <1>1, <2>1, <2>2, <2>3
<1>7. Control' = Control \ {departure(x)}
  <2>1. /\ Tail(now) \in Seq(Event) /\ ControlOf(Tail(now)) = Control \ {Head(now)}
    BY <1>0, <1>3, QueueTail DEF Control
  <2>2. now' = Tail(now)
    BY <1>2, <1>3, <2>1, EmptyBack
  <2>3. Head(now) = departure(x)
    <3>1. a.msg = [type |-> "Disconnection", requester |-> x]
      <4>1. Belongs(H, NS, a.msg)
        BY <1>0, <1>3, PhaseOf
      <4>2. PICK y \in Brokers : \E E \in SUBSET Brokers :
               Leaving(H, y, E) /\ y \notin E /\ To(NS, a.msg) = departure(y)
        BY <4>1 DEF Belongs
      <4>3. a.msg = [type |-> "Disconnection", requester |-> y]
        BY <4>2 DEF To, departure
      <4> QED
        BY <4>3, <1>x
    <3> QED
      BY <1>3, <3>1 DEF departure
  <2> QED
    BY <2>1, <2>2, <2>3 DEF Control
<1>8. Turn(NS, a, f, {})
  <2>1. ~IsWork(a.msg)
    BY DEF IsWork
  <2>2. /\ f.direct \in Seq(Event) /\ Distinct(f.direct)
        /\ \A v \in ToSet(f.direct) : IsControl(v) /\ v \notin Control
    BY <1>2, NoElements
  <2> QED
    BY <1>1, <1>2, <2>1, <2>2, ServerTurn
<1>9. TakingPart' = TakingPart
  <2>1. ASSUME NEW c \in Brokers
        PROVE  Awake(c)' <=> Awake(c)
    <3>1. Undisturbed(Control, c) <=> c # x
      BY <1>5, OneDisturbed
    <3>2. Undisturbed(Control, c) => Undisturbed(Control', c)
      BY <1>7 DEF Undisturbed
    <3>3. broker'[c] = broker[c]
      BY <1>1
    <3> QED
      BY <1>6, <3>1, <3>2, <3>3, AwakeIs, AwakeNextIs
  <2> QED
    BY <2>1, PartStays
<1>10. ~crashed'
  BY <1>1, <1>2, <1>6 DEF End
<1>11. NS \in Nodes
  BY DEF Nodes
<1> QED
  BY <1>1, <1>8, <1>9, <1>10, <1>11, BrokersKept, UnmovedStep

(* A join is announced to every broker of the list, once.                  *)
LEMMA JoinsOnce ==
    ASSUME NEW list \in Seq(Brokers), Distinct(list), NEW m \in JoinMessage,
           NEW d, d = joinsTo(list, m)
    PROVE  /\ d \in Seq(Event) /\ Distinct(d) /\ ToSet(d) = Announced(ToSet(list), m)
           /\ \A ev \in ToSet(d) : IsControl(ev)
<1>1. /\ m \in Message /\ m.type = "Join"
  BY DEF Message, ProtocolMessage, JoinMessage
<1>2. /\ DOMAIN list = 1 .. Len(list) /\ Len(list) \in Nat
      /\ \A i \in DOMAIN list : list[i] \in Brokers
  BY ElementsType
<1>3. /\ DOMAIN d = DOMAIN list
      /\ \A i \in DOMAIN list : d[i] = To(list[i], m)
  BY DEF joinsTo
<1>4. \A i \in DOMAIN list : To(list[i], m) \in Event
  BY <1>1, <1>2 DEF To, Event, Nodes
<1>5. d \in Seq(Event)
  <2>1. d = [i \in DOMAIN list |-> To(list[i], m)]
    BY DEF joinsTo
  <2>2. d \in [1 .. Len(list) -> Event]
    BY <1>2, <1>4, <2>1
  <2> QED
    BY <1>2, <2>2, SeqDef
<1>6. Distinct(d)
  <2>1. \A i, j \in DOMAIN list : To(list[i], m) = To(list[j], m) => list[i] = list[j]
    BY DEF To
  <2> QED
    BY <1>3, <2>1 DEF Distinct
<1>7. ToSet(d) = Announced(ToSet(list), m)
  BY <1>3 DEF ToSet, Announced
<1>8. \A ev \in ToSet(d) : IsControl(ev)
  BY <1>1, <1>7 DEF Announced, To, IsControl
<1> QED
  BY <1>5, <1>6, <1>7, <1>8

(* No request is under way unless a Connect message is due.                *)
LEMMA NoRequests ==
    ASSUME NEW H, World(H), \A ev \in ToSet(now) : ev.msg.type # "Connect"
    PROVE  Asks = {}
<1>0. KernelTypeOK /\ ViewsOK /\ AllShaped
  BY WorldHolds DEF World, Placed
<1>1. ASSUME NEW r \in Asks
      PROVE  FALSE
  <2>1. PICK x \in Moving : x.msg.type = "Connect" /\ r = Asking(x.to, x.msg)
    BY <1>0 DEF ViewsOK
  <2>2. x.from = NULL /\ x = it(x.from, x.to, x.msg)
    BY <1>0, <2>1, MovingShape DEF AllShaped, Shaped
  <2>3. PICK t, m : t = x.to /\ m = x.msg
    OBVIOUS
  <2>4. it(NULL, t, m) \in Moving
    BY <2>1, <2>2, <2>3
  <2>5. To(t, m) \in ToSet(now)
    BY <1>0, <2>4, MovingIs
  <2>6. To(t, m).msg.type = "Connect"
    BY <2>1, <2>3 DEF To
  <2> QED
    BY <2>5, <2>6
<1> QED
  BY <1>1

(* A broker that stays where it is, or calls on all to let it leave.       *)
LEMMA SleepWorld ==
    ASSUME ~SleepInWindow, NEW H, World(H), IInv', NEW b \in Brokers, Sleep(b)
    PROVE  Stepped
<1> PICK a \in Arrivals(b) : a.msg.type = "Sleep" /\ Finish(b, a, sleep(Start(b, a)))
  BY DEF Sleep, Arriving
<1>e. PICK e : e = Start(b, a)
  OBVIOUS
<1>f. PICK f : f = sleep(e)
  OBVIOUS
<1>0. /\ IInv /\ JoinsOK(H) /\ QueueOK(now) /\ FragmentsHold /\ TypeOK
      /\ broker \in [Brokers -> BrokerState]
  BY WorldHolds DEF World, TypeOK
<1>1. /\ e \in Effect /\ e.self = b /\ e.st = broker[b]
      /\ e.direct = <<>> /\ e.out = [d \in Nodes |-> <<>>] /\ ~e.fault
      /\ e.timers = IF a.from = b THEN timers[b] \ {a.msg} ELSE timers[b]
  BY <1>0, <1>e, StartIs
<1>2. /\ now = <<>> /\ a.from = b /\ a.msg = sleepDelayMsg /\ sleepDelayMsg \in timers[b]
      /\ timers[b] \in SUBSET Message
  <2>1. now = <<>> /\ a.from = b /\ a.msg \in timers[b]
    BY <1>0, ControlArrives
  <2>2. timers[b] \in SUBSET Message
    BY <1>0 DEF IInv, TypeOK, KernelTypeOK, Nodes
  <2> QED
    BY <2>1, <2>2, DelayMessages
<1>3. Calm(H) /\ Control = {}
  BY <1>0, <1>2, CalmWhenIdle DEF Calm
<1>4. f \in Effect /\ f.st = broker[b] /\ f.out = e.out
  BY <1>1, <1>f, SleepIs DEF OnlySends
<1>5. Acts(b, a, f)
  <2>1. f \in Effect /\ Finish(b, a, f)
    BY <1>4, <1>e, <1>f
  <2> QED
    BY <2>1, Finished DEF IsWork
<1>6. /\ now' = rest(a) \o f.direct /\ rest(a) = <<>>
      /\ RegisteredBrokers' = RegisteredBrokers
      /\ \A c \in Brokers : broker'[c] = broker[c]
  <2>1. rest(a) = <<>>
    BY <1>2, NodesAssumption DEF rest
  <2>2. /\ now' = rest(a) \o f.direct
        /\ broker'[b] = f.st /\ \A c \in Brokers \ {b} : broker'[c] = broker[c]
        /\ RegisteredBrokers' = RegisteredBrokers
    BY <1>0, <1>5, StepFacts
  <2> QED
    BY <1>4, <2>1, <2>2
<1>7. /\ Rounds' = Rounds /\ BuildsOver' = BuildsOver /\ KnownMembers' = KnownMembers
      /\ LinkedTo' = LinkedTo /\ conditionTable' = conditionTable
      /\ Asked' = Asked /\ KeptForLater' = KeptForLater
  <2>1. SameView(broker[b], f.st) /\ SameConnects(broker[b], f.st)
    BY <1>4 DEF SameView, SameConnects
  <2> QED
    BY <1>0, <1>5, <2>1, ViewsKept
<1>8. b \in Nodes /\ ~IsWork(a.msg)
  BY DEF Nodes, IsWork
<1>9. CASE ~CanSleep(broker[b])
  <2>1. f.direct = <<>> /\ ~f.fault
    <3>1. /\ f.direct = e.direct
          /\ (f.fault <=> e.fault \/ sleepDelayMsg \in e.timers)
      BY <1>1, <1>9, <1>f, SleepIs
    <3> QED
      BY <1>1, <1>2, <3>1
  <2>2. Control' = {}
    <3>1. now' = <<>>
      BY <1>6, <2>1
    <3> QED
      BY <3>1, NoQueue DEF Control
  <2>3. Turn(b, a, f, {})
    <3>1. Distinct(f.direct) /\ \A ev \in ToSet(f.direct) : IsControl(ev) /\ ev \notin Control
      BY <2>1, NoElements
    <3>2. f.st.receivedMWOEs = broker[b].receivedMWOEs /\ f.out = [d \in Nodes |-> <<>>]
      BY <1>1, <1>4
    <3> QED
      BY <1>5, <1>8, <3>1, <3>2, SilentTurn
  <2>4. TakingPart' = TakingPart
    <3>1. ASSUME NEW c \in Brokers
          PROVE  Awake(c)' <=> Awake(c)
      BY <1>3, <1>6, <2>2, AwakeIs, AwakeNextIs
    <3> QED
      BY <3>1, PartStays
  <2>5. ~crashed'
    BY <1>5, <2>1 DEF Acts, End
  <2> QED
    BY <1>7, <1>8, <2>3, <2>4, <2>5, UnmovedStep
<1>10. CASE CanSleep(broker[b])
  <2>L. PICK list : list = broker[b].availableBrokers
    OBVIOUS
  <2>c. PICK call : call = join(b, convergenceNumber, TRUE)
    OBVIOUS
  <2>1. /\ b \in RegisteredBrokers /\ broker[b].converged
        /\ Round(b) = convergenceNumber - 1 /\ Up(H, b, convergenceNumber - 1, 0)
        /\ Distinct(list) /\ ToSet(list) = RegisteredBrokers
    <3>1. TimerJoins(timers[b]) = {}
      BY DEF Sleep, TimerJoins
    <3> QED
      BY <1>0, <1>2, <1>3, <1>10, <2>L, <3>1, SleeperFacts
  <2>2. list \in Seq(Brokers)
    BY <1>0, <2>L DEF BrokerState
  <2>3. leaveOf(e) = call
    <3>1. broker[b].currentConvergence + 1 = convergenceNumber
      BY <1>0, <2>1 DEF Round, TypeOK, NSTypeOK
    <3> QED
      BY <1>1, <2>c, <3>1 DEF leaveOf, join
  <2>4. /\ call \in JoinMessage /\ f.direct = e.direct \o joinsTo(list, call)
        /\ ~f.fault
    BY <1>1, <1>10, <1>f, <2>3, <2>L, SleepIs
  <2>d. PICK calls : calls = joinsTo(list, call)
    OBVIOUS
  <2>5. /\ calls \in Seq(Event) /\ Distinct(calls)
        /\ ToSet(calls) = Announced(RegisteredBrokers, call)
        /\ \A ev \in ToSet(calls) : IsControl(ev)
    BY <2>1, <2>2, <2>4, <2>d, JoinsOnce
  <2>6. f.direct = calls /\ now' = calls
    <3>1. f.direct = calls
      BY <1>1, <2>4, <2>5, <2>d, EmptyFront
    <3>2. now' = rest(a) \o calls
      BY <1>6, <3>1
    <3> QED
      BY <1>6, <2>5, <3>1, <3>2, EmptyFront
  <2>7. Control' = Announced(RegisteredBrokers, call)
    BY <2>5, <2>6 DEF Control, ControlOf
  <2>8. Turn(b, a, f, {})
    <3>1. Distinct(f.direct) /\ \A ev \in ToSet(f.direct) : IsControl(ev) /\ ev \notin Control
      BY <1>3, <2>5, <2>6
    <3>2. f.st.receivedMWOEs = broker[b].receivedMWOEs /\ f.out = [d \in Nodes |-> <<>>]
      BY <1>1, <1>4
    <3> QED
      BY <1>5, <1>8, <3>1, <3>2, SilentTurn
  <2>9. Turned({})
    BY <1>8, <2>8, TurnPlaces
  <2>10. ASSUME NEW c \in Brokers
         PROVE  Awake(c)' <=> Awake(c) /\ c # b
    <3>1. Undisturbed(Control, c)
      BY <1>3, NoneDisturbed
    <3>2. Undisturbed(Control', c) <=> c # b
      <4>1. Control' = Announced(RegisteredBrokers, join(b, convergenceNumber, TRUE))
                         \cup (IF b \in RegisteredBrokers THEN {} ELSE {departure(b)})
        BY <2>1, <2>7, <2>c
      <4> QED
        BY <4>1, OneDisturbed
    <3> QED
      BY <1>6, <3>1, <3>2, AwakeIs, AwakeNextIs
  <2>11. Awake(b)
    <3>1. Undisturbed(Control, b) /\ ~broker[b].initial
      BY <1>3, <2>1, NoneDisturbed DEF Up, UpState, Runs
    <3> QED
      BY <2>1, <3>1, AwakeIs
  <2>12. TakingPart' = [TakingPart EXCEPT ![b] = FALSE]
    <3>1. \A c \in Brokers : TakingPart[c] = Awake(c) /\ TakingPart'[c] = Awake(c)'
      BY ViewFunctions, ViewFunctionsNext
    <3>2. TakingPart' = [c \in Brokers |-> TakingPart'[c]]
      BY DEF TakingPart
    <3>3. TakingPart = [c \in Brokers |-> TakingPart[c]]
      BY DEF TakingPart
    <3>4. \A c \in Brokers : Awake(c) \in BOOLEAN /\ Awake(c)' \in BOOLEAN
      BY DEF Awake
    <3>5. \A c \in Brokers : TakingPart'[c] = IF c = b THEN FALSE ELSE TakingPart[c]
      BY <2>10, <3>1, <3>4
    <3> QED
      BY <3>2, <3>3, <3>5
  <2>13. Members(b) = Available(b)
    BY <2>1 DEF Up, UpState, Done, Members, Available
  <2>14. Asks = {}
    BY <1>2, NoElements, NoRequests
  <2>15. Fits!Stop(b)
    <3>1. TakingPart[b] /\ KnownMembers[b] = BuildsOver[b]
      BY <2>11, <2>13, ViewFunctions
    <3>2. Reported' = Reported
      BY <2>9, SameReports
    <3>3. Asks' = Asks /\ UnderWay' = UnderWay /\ ToldToAsk' = ToldToAsk
      BY <2>9 DEF Turned
    <3> QED
      BY <1>7, <2>12, <2>14, <3>1, <3>2, <3>3 DEF Fits!Stop
  <2>16. Abstractly
    BY <2>15 DEF Abstractly, Fits!FragmentsNext
  <2>17. ~crashed'
    BY <1>5, <2>4 DEF Acts, End
  <2> QED
    BY <1>7, <2>9, <2>16, <2>17, SameReports
<1> QED
  BY <1>9, <1>10

(* What a step leaves of the parts it does not write.                      *)
LEMMA UntouchedViews ==
    ASSUME IInv, NEW b \in Brokers, NEW a, NEW e, Acts(b, a, e)
    PROVE  /\ e.st.currentConvergence = broker[b].currentConvergence => Rounds' = Rounds
           /\ e.st.availableBrokers = broker[b].availableBrokers => BuildsOver' = BuildsOver
           /\ e.st.members = broker[b].members => KnownMembers' = KnownMembers
           /\ e.st.neighboursMap = broker[b].neighboursMap => LinkedTo' = LinkedTo
           /\ SameConnects(broker[b], e.st) => Asked' = Asked /\ KeptForLater' = KeptForLater
           /\ conditionTable' = conditionTable
<1>1. /\ Rounds' = [Rounds EXCEPT ![b] = e.st.currentConvergence]
      /\ BuildsOver' = [BuildsOver EXCEPT ![b] = ToSet(e.st.availableBrokers)]
      /\ KnownMembers' = [KnownMembers EXCEPT ![b] = e.st.members]
      /\ LinkedTo' = [LinkedTo EXCEPT ![b] = NeighbourBrokers(e.st.neighboursMap)]
      /\ Asked' = [Asked EXCEPT ![b] = e.st.sentConnects]
      /\ KeptForLater' = [KeptForLater EXCEPT ![b] =
                            {Asking(b, con) : con \in e.st.receivedConnects}]
      /\ conditionTable' = conditionTable
  BY StateViews
<1>2. /\ Rounds[b] = broker[b].currentConvergence
      /\ BuildsOver[b] = ToSet(broker[b].availableBrokers)
      /\ KnownMembers[b] = broker[b].members
      /\ LinkedTo[b] = NeighbourBrokers(broker[b].neighboursMap)
      /\ Asked[b] = broker[b].sentConnects
      /\ KeptForLater[b] = {Asking(b, con) : con \in broker[b].receivedConnects}
  BY ViewFunctions DEF Round, Available, Members, Linked
<1>3. /\ DOMAIN Rounds = Brokers /\ Rounds = [c \in Brokers |-> Rounds[c]]
      /\ BuildsOver = [c \in Brokers |-> BuildsOver[c]]
      /\ KnownMembers = [c \in Brokers |-> KnownMembers[c]]
      /\ LinkedTo = [c \in Brokers |-> LinkedTo[c]]
      /\ Asked = [c \in Brokers |-> Asked[c]]
      /\ KeptForLater = [c \in Brokers |-> KeptForLater[c]]
  BY DEF Rounds, BuildsOver, KnownMembers, LinkedTo, Asked, KeptForLater
<1>4. e.st.currentConvergence = broker[b].currentConvergence => Rounds' = Rounds
  BY <1>1, <1>2, <1>3
<1>5. e.st.availableBrokers = broker[b].availableBrokers => BuildsOver' = BuildsOver
  BY <1>1, <1>2, <1>3
<1>6. e.st.members = broker[b].members => KnownMembers' = KnownMembers
  BY <1>1, <1>2, <1>3
<1>7. e.st.neighboursMap = broker[b].neighboursMap => LinkedTo' = LinkedTo
  BY <1>1, <1>2, <1>3
<1>8. SameConnects(broker[b], e.st) => Asked' = Asked /\ KeptForLater' = KeptForLater
  BY <1>1, <1>2, <1>3 DEF SameConnects
<1> QED
  BY <1>1, <1>4, <1>5, <1>6, <1>7, <1>8

(* A broker that is told which brokers are registered.                     *)
LEMMA WelcomeWorld ==
    ASSUME NEW H, World(H), IInv', NEW b \in Brokers, HandleNameServerMessage(b)
    PROVE  Stepped
<1> PICK a \in Arrivals(b) :
         a.msg.type = "NSMessage" /\ Finish(b, a, handleNameServerMessage(Start(b, a), a.msg))
  BY DEF HandleNameServerMessage, Arriving
<1>e. PICK e : e = Start(b, a)
  OBVIOUS
<1>m. PICK m : m = a.msg
  OBVIOUS
<1>f. PICK f : f = handleNameServerMessage(e, m)
  OBVIOUS
<1>0. /\ IInv /\ JoinsOK(H) /\ QueueOK(now) /\ Phase(H) /\ TypeOK
      /\ broker \in [Brokers -> BrokerState] /\ now \in Seq(Event)
      /\ brokerList \in Seq(Brokers) /\ Distinct(brokerList)
  BY WorldHolds DEF World, JoinsOK, TypeOK, KernelTypeOK, NSTypeOK, HistoryOK
<1>1. /\ e \in Effect /\ e.self = b /\ e.st = broker[b]
      /\ e.direct = <<>> /\ e.out = [d \in Nodes |-> <<>>] /\ ~e.fault
      /\ e.timers = IF a.from = b THEN timers[b] \ {a.msg} ELSE timers[b]
  BY <1>0, <1>e, StartIs
<1>2. now # <<>> /\ a.from = NULL /\ Head(now) = To(b, m) /\ To(b, m) \in Control
  BY <1>0, <1>m, ControlArrives
<1>3. Answering(H, b) /\ m = answer(brokerList, convergenceNumber - 1)
  <2>1. Belongs(H, b, m)
    BY <1>0, <1>2, PhaseOf
  <2>2. m.type = "NSMessage"
    BY <1>m
  <2>3. PICK y \in Brokers :
             Answering(H, y) /\ To(b, m) = To(y, answer(brokerList, convergenceNumber - 1))
    BY <2>1, <2>2 DEF Belongs
  <2>4. b = y /\ m = answer(brokerList, convergenceNumber - 1)
    BY <2>3 DEF To
  <2> QED
    BY <2>3, <2>4
<1>4. /\ Len(now) = 1 /\ b \in RegisteredBrokers
      /\ Control = {To(b, answer(brokerList, convergenceNumber - 1))}
      /\ Down(H, b, convergenceNumber - 2, {})
  BY <1>3 DEF Answering
<1>5. /\ m.requestedNodes = brokerList /\ m.convergenceNumber = convergenceNumber - 1
      /\ m \in NSMessage /\ brokerList # <<>> /\ ToSet(brokerList) = RegisteredBrokers
  <2>1. m.requestedNodes = brokerList /\ m.convergenceNumber = convergenceNumber - 1
    BY <1>3 DEF answer
  <2>2. a.msg \in Message
    BY <1>0, ArrivalCases DEF IInv, TypeOK, Nodes
  <2>3. m \in NSMessage
    BY <1>m, <2>2, MessageTypes
  <2>4. ToSet(brokerList) = RegisteredBrokers
    BY DEF RegisteredBrokers, ToSet
  <2>5. brokerList # <<>>
    BY <1>4, <2>4, NoElements
  <2> QED
    BY <2>1, <2>3, <2>4, <2>5
<1>c. PICK call : call = join(b, convergenceNumber - 1, FALSE)
  OBVIOUS
<1>d. PICK calls : calls = joinsTo(brokerList, call)
  OBVIOUS
<1>6. /\ f \in Effect /\ f.out = e.out
      /\ (f.fault <=> e.fault \/ sleepDelayMsg \in e.timers)
      /\ call \in JoinMessage /\ f.direct = e.direct \o calls
      /\ f.st.initial /\ f.st.neighboursMap = e.st.neighboursMap /\ f.st.members = e.st.members
      /\ f.st.currentConvergence = e.st.currentConvergence
      /\ f.st.receivedMWOEs = e.st.receivedMWOEs
      /\ SameConnects(e.st, f.st)
      /\ f.st.availableBrokers = brokerList
  <2>1. call = join(e.self, m.convergenceNumber, FALSE)
    BY <1>1, <1>5, <1>c
  <2>2. calls = joinsTo(m.requestedNodes, join(e.self, m.convergenceNumber, FALSE))
    BY <1>5, <1>d, <2>1
  <2> QED
    BY <1>1, <1>5, <1>f, <2>1, <2>2, WelcomeIs
<1>7. Acts(b, a, f)
  <2>1. f \in Effect /\ Finish(b, a, f)
    BY <1>6, <1>e, <1>f, <1>m
  <2> QED
    BY <2>1, Finished DEF IsWork
<1>8. /\ calls \in Seq(Event) /\ Distinct(calls)
      /\ ToSet(calls) = Announced(RegisteredBrokers, call)
      /\ \A ev \in ToSet(calls) : IsControl(ev)
  BY <1>0, <1>5, <1>6, <1>d, JoinsOnce
<1>9. /\ f.direct = calls /\ now' = calls /\ broker'[b] = f.st
      /\ \A c \in Brokers \ {b} : broker'[c] = broker[c]
      /\ RegisteredBrokers' = RegisteredBrokers
  <2>1. rest(a) = <<>>
    BY <1>0, <1>2, <1>4, TailOfOne DEF rest
  <2>2. f.direct = calls
    BY <1>1, <1>6, <1>8, EmptyFront
  <2>3. /\ now' = rest(a) \o f.direct /\ broker'[b] = f.st
        /\ \A c \in Brokers \ {b} : broker'[c] = broker[c]
        /\ RegisteredBrokers' = RegisteredBrokers
    BY <1>0, <1>7, StepFacts
  <2>4. now' = calls
    BY <1>8, <2>1, <2>2, <2>3, EmptyFront
  <2> QED
    BY <2>2, <2>3, <2>4
<1>10. Control' = Announced(RegisteredBrokers, call)
  BY <1>8, <1>9 DEF Control, ControlOf
<1>11. b \in Nodes /\ ~IsWork(a.msg)
  BY DEF Nodes, IsWork
<1>12. Turn(b, a, f, {})
  <2>1. ASSUME NEW ev \in ToSet(f.direct)
        PROVE  IsControl(ev) /\ ev \notin Control
    <3>1. ev \in Announced(RegisteredBrokers, call) /\ IsControl(ev)
      BY <1>8, <1>9, <2>1
    <3>2. ev.msg.type = "Join"
      BY <1>c, <3>1 DEF Announced, To, join
    <3>3. ev \notin Control
      BY <1>4, <3>2 DEF To, answer
    <3> QED
      BY <3>1, <3>3
  <2>2. Distinct(f.direct)
    BY <1>8, <1>9
  <2>3. f.st.receivedMWOEs = broker[b].receivedMWOEs /\ f.out = [d \in Nodes |-> <<>>]
    BY <1>1, <1>6
  <2> QED
    BY <1>7, <1>11, <2>1, <2>2, <2>3, SilentTurn
<1>13. Turned({})
  BY <1>11, <1>12, TurnPlaces
<1>14. ~Awake(b)
  <2>1. ~Undisturbed(Control, b)
    BY <1>4, OneDisturbed
  <2> QED
    BY <2>1, AwakeIs
<1>15. TakingPart' = TakingPart
  <2>1. ASSUME NEW c \in Brokers
        PROVE  Awake(c)' <=> Awake(c)
    <3>1. Undisturbed(Control', c)
      BY <1>10, <1>c, NoneDisturbed
    <3>2. CASE c = b
      <4>1. ~(Awake(b)')
        BY <1>6, <1>9, AwakeNextIs
      <4> QED
        BY <1>14, <3>2, <4>1
    <3>3. CASE c # b
      <4>1. Undisturbed(Control, c)
        BY <1>4, <3>3, OneDisturbed
      <4>2. broker'[c] = broker[c]
        BY <1>9, <3>3
      <4> QED
        BY <1>9, <3>1, <4>1, <4>2, AwakeIs, AwakeNextIs
    <3> QED
      BY <3>2, <3>3
  <2> QED
    BY <2>1, PartStays
<1>16. /\ Rounds' = Rounds /\ KnownMembers' = KnownMembers /\ LinkedTo' = LinkedTo
       /\ conditionTable' = conditionTable /\ Asked' = Asked /\ KeptForLater' = KeptForLater
  BY <1>0, <1>1, <1>6, <1>7, UntouchedViews
<1>17. Fits!Rest(b)
  <2>1. BuildsOver' = [BuildsOver EXCEPT ![b] = RegisteredBrokers]
    <3>1. BuildsOver' = [BuildsOver EXCEPT ![b] = ToSet(f.st.availableBrokers)]
      BY <1>0, <1>7, StateViews
    <3> QED
      BY <1>5, <1>6, <3>1
  <2>2. RegisteredBrokers \in SUBSET Brokers
    BY <1>0, <1>5, ElementsType
  <2>3. LinkedTo[b] = {}
    <3>1. broker[b].neighboursMap = NoNeighbours
      BY <1>4 DEF Down, DownState
    <3> QED
      BY <3>1, NoMap, ViewFunctions DEF Linked
  <2>4. ~TakingPart[b]
    BY <1>14, ViewFunctions
  <2>5. Reported' = Reported
    BY <1>13, SameReports
  <2>6. Asks' = Asks /\ UnderWay' = UnderWay /\ ToldToAsk' = ToldToAsk
    BY <1>13 DEF Turned
  <2> QED
    BY <1>15, <1>16, <2>1, <2>2, <2>3, <2>4, <2>5, <2>6 DEF Fits!Rest
<1>18. ~crashed'
  <2>1. b # NULL
    BY NodesAssumption
  <2>2. TypesOf(timers[b]) \subseteq {}
    BY <1>4 DEF Down, DownState
  <2>3. sleepDelayMsg \notin e.timers
    BY <1>1, <1>2, <2>1, <2>2 DEF TypesOf
  <2> QED
    BY <1>1, <1>6, <1>7, <2>3 DEF Acts, End
<1>19. Abstractly
  BY <1>17 DEF Abstractly, Fits!FragmentsNext
<1> QED
  BY <1>13, <1>16, <1>18, <1>19, SameReports

-----------------------------------------------------------------------------
(* A broker begins a fragment.                                             *)

(* A broker that takes no part, or whose fragment is complete, has made no *)
(* report that is still to be counted.                                     *)
LEMMA NoneReported ==
    ASSUME NEW H, World(H), NEW b \in Brokers, Awake(b) => Members(b) = Available(b)
    PROVE  \A x \in ReportItems : origin(x) # b
<1> SUFFICES ASSUME NEW x \in ReportItems, origin(x) = b
             PROVE  FALSE
  OBVIOUS
<1>1. Awake(b) /\ Reported[b] # NULL
  BY ReportFacts
<1>2. Reported[b] \in BuildsOver[b] \ KnownMembers[b]
  BY <1>1 DEF World, Fits!FragmentsInv, Fits!EdgeOK
<1> QED
  BY <1>1, <1>2, ViewFunctions

(* What a restart sends.                                                   *)
Opens(b, f, R, V) ==
    /\ Clean(f) /\ ~f.fault /\ f.out = [d \in Nodes |-> <<>>]
    /\ SentBy(b, f) = R
    /\ \/ V = {b} /\ R = {}
       \/ V # {b} /\ \E r : R = {r} /\ FirstReport(r, b, {b}, V, {})

(* A broker that begins a fragment looks for its first edge.               *)
LEMMA OpeningIs ==
    ASSUME NEW H, World(H), NEW b \in Brokers, NEW a \in Arrivals(b), NEW e, Starts(e, b, a),
           NEW g, NEW list, NEW n, Renews(e, g, list, n), g.fault <=> e.fault,
           e.direct = <<>>, broker[b].bufferedSubs = {},
           TimerJoins(e.timers) = {}, Distinct(list), NEW V, V = ToSet(list), b \in V,
           NEW F, F = findAndSendMWOE(g)
    PROVE  Found(g, F) /\ \E R : Opens(b, F, R, V)
<1>0. /\ IsConditionTable(conditionTable) /\ IInv
  BY WorldHolds DEF World
<1>1. /\ Clean(e) /\ e.self = b /\ e.st = broker[b] /\ SentBy(b, e) = {} /\ ~e.fault
  BY <1>0, StartClean DEF Starts
<1>2. e.out = [d \in Nodes |-> <<>>]
  BY <1>0, StartIs DEF Starts
<1>3. /\ g \in Effect /\ g.self = b /\ g.timers = e.timers /\ g.direct = <<>> /\ g.out = e.out
      /\ g.st.componentId = b /\ g.st.members = {b} /\ g.st.availableBrokers = list
      /\ g.st.neighboursMap = NoNeighbours /\ g.st.bufferedSubs = {} /\ ~g.fault
  BY <1>1 DEF Renews
<1>4. Searching(g)
  BY <1>3, NoMap DEF Searching
<1>5. Found(g, F)
  BY <1>0, <1>4, SearchIs
<1>6. Clean(g) /\ SentBy(b, g) = {}
  <2>1. g.direct = e.direct /\ g.out = e.out
    BY <1>3
  <2>2. Clean(g)
    BY <1>1, <1>3, <2>1 DEF Clean
  <2>3. SentBy(b, g) = SentBy(b, e)
    BY <2>1 DEF SentBy
  <2> QED
    BY <1>1, <2>2, <2>3
<1>7. WellDue(g)
  BY <1>3, NoElements DEF WellDue
<1>M. PICK M : M = {b}
  OBVIOUS
<1>N. PICK N : N = {}
  OBVIOUS
<1>8. M = g.st.members /\ N = NeighbourBrokers(g.st.neighboursMap) /\ N \subseteq Brokers
      /\ V = ToSet(g.st.availableBrokers) /\ (g.st.componentId # b => g.st.leaderHop \in N)
      /\ TimerJoins(g.timers) = {}
  <2>1. NeighbourBrokers(g.st.neighboursMap) = {}
    BY <1>3, NoMap
  <2>2. g.st.componentId = b /\ V = ToSet(g.st.availableBrokers) /\ M = g.st.members
    BY <1>3, <1>M
  <2>3. TimerJoins(g.timers) = {}
    BY <1>3
  <2> QED
    BY <2>1, <2>2, <2>3, <1>N
<1>9. \A x \in SentBy(b, g) : x.msg.type # "MWOE"
  BY <1>6
<1>10. /\ Clean(F) /\ ~F.fault /\ WellDue(F)
       /\ Done(g.st) => SentBy(b, F) = SentBy(b, g)
       /\ ~Done(g.st) => \E r : /\ SentBy(b, F) = SentBy(b, g) \cup {r}
                                /\ FirstReport(r, b, M, V, N)
  <2>1. /\ IsConditionTable(conditionTable) /\ Clean(g) /\ g.self = b /\ Found(g, F) /\ WellDue(g)
        /\ ~g.fault
        /\ \A x \in SentBy(b, g) : x.msg.type # "MWOE"
        /\ N = NeighbourBrokers(g.st.neighboursMap) /\ N \subseteq Brokers
        /\ g.st.componentId # b => g.st.leaderHop \in N
        /\ TimerJoins(g.timers) = {}
        /\ M = g.st.members /\ V = ToSet(g.st.availableBrokers)
    BY <1>0, <1>3, <1>5, <1>6, <1>7, <1>8, <1>9
  <2> QED
    BY <2>1, SearchSends
<1>11. Done(g.st) <=> V = {b}
  BY <1>3 DEF Done
<1>12. F.out = [d \in Nodes |-> <<>>]
  <2>1. Done(g.st) => F.out = g.out
    BY <1>5 DEF Found, Rests
  <2>2. isLeader(g)
    BY <1>3 DEF isLeader
  <2>3. ~Done(g.st) => F.out = g.out
    BY <1>5, <2>2 DEF Found, Seeks, SendsNow
  <2> QED
    BY <1>2, <1>3, <2>1, <2>3
<1>13. CASE V = {b}
  <2>1. SentBy(b, F) = {}
    BY <1>6, <1>10, <1>11, <1>13
  <2>R. PICK R : R = {}
    OBVIOUS
  <2>2. Opens(b, F, R, V)
    BY <1>10, <1>12, <1>13, <2>1, <2>R DEF Opens
  <2> QED
    BY <1>5, <2>2
<1>14. CASE V # {b}
  <2>1. PICK r : SentBy(b, F) = SentBy(b, g) \cup {r} /\ FirstReport(r, b, M, V, N)
    BY <1>10, <1>11, <1>14
  <2>R. PICK R : R = {r}
    OBVIOUS
  <2>2. SentBy(b, F) = R
    BY <1>6, <2>1, <2>R
  <2>3. FirstReport(r, b, {b}, V, {})
    BY <2>1, <1>M, <1>N
  <2>4. Opens(b, F, R, V)
    BY <1>10, <1>12, <1>14, <2>2, <2>3, <2>R DEF Opens
  <2> QED
    BY <1>5, <2>4
<1> QED
  BY <1>13, <1>14

(* The turn of a broker that begins a round.                               *)
LEMMA OpeningTurn ==
    ASSUME NEW H, World(H), NEW b \in Brokers, NEW a, ~IsWork(a.msg), NEW f, Acts(b, a, f),
           NEW R, NEW V, Opens(b, f, R, V),
           f.st.receivedMWOEs = broker[b].receivedMWOEs,
           \A x \in ReportItems : origin(x) # b
    PROVE  Turn(b, a, f, R)
<1>0. NULL \notin Brokers /\ IInv
  BY NodesAssumption DEF World
<1>1. /\ f \in Effect /\ Distinct(f.direct) /\ f.out = [d \in Nodes |-> <<>>] /\ SentBy(b, f) = R
      /\ f.direct \in Seq(Event) /\ f.out \in [Nodes -> Seq(Message)] /\ b \in Nodes
  BY DEF Opens, Clean, Effect, Nodes
<1>2. \A x \in R : /\ FirstReport(x, b, {b}, V, {}) /\ R = {x}
  BY DEF Opens
<1>3. ASSUME NEW x \in R
      PROVE  /\ x = it(NULL, x.to, x.msg) /\ x.msg.type = "MWOE" /\ Shaped(x)
             /\ x \notin ReportItems /\ To(x.to, x.msg) \in ToSet(f.direct) /\ origin(x) = b
  <2>1. Shaped(x) /\ x.msg.type = "MWOE" /\ origin(x) = b
    BY <1>2, FirstReportFacts
  <2>2. x = it(x.from, x.to, x.msg) /\ x.from = NULL
    BY <1>2 DEF FirstReport
  <2>3. x \notin ReportItems
    BY <2>1
  <2>t. PICK t, m : t = x.to /\ m = x.msg
    OBVIOUS
  <2>4. it(NULL, t, m) \in SentBy(b, f)
    BY <1>1, <2>2, <2>t
  <2>5. To(t, m) \in ToSet(f.direct)
    BY <1>1, <2>4, SentByIs
  <2> QED
    BY <2>1, <2>2, <2>3, <2>5, <2>t
<1>4. \A ev \in ToSet(f.direct) : it(NULL, ev.to, ev.msg) \in R
  <2> SUFFICES ASSUME NEW ev \in ToSet(f.direct) PROVE it(NULL, ev.to, ev.msg) \in R
    OBVIOUS
  <2>1. ev \in Event
    BY <1>1, ElementsType
  <2>t. PICK t, m : t = ev.to /\ m = ev.msg
    OBVIOUS
  <2>2. ev = To(t, m)
    BY <2>1, <2>t DEF Event, To
  <2>3. it(NULL, t, m) \in SentBy(b, f)
    BY <1>1, <2>2, SentByIs
  <2> QED
    BY <1>1, <2>3, <2>t
<1>5. Unique(ReportItems \cup R)
  <2>1. Unique(ReportItems)
    BY DEF World, Placed
  <2> QED
    BY <1>2, <1>3, <2>1 DEF Unique
<1>6. /\ \A ev \in ToSet(f.direct) :
            \/ IsControl(ev) /\ ev \notin Control
            \/ it(NULL, ev.to, ev.msg) \in R
      /\ \A x \in R : /\ x = it(NULL, x.to, x.msg) /\ x.msg.type = "MWOE" /\ Shaped(x)
                      /\ x \notin ReportItems /\ To(x.to, x.msg) \in ToSet(f.direct)
  BY <1>3, <1>4
<1> QED
  BY <1>0, <1>1, <1>5, <1>6, BrokerTurn

(* When broker b may start a round n over the brokers V.                   *)
MayStart(b, V, n) ==
    /\ Asks = {} /\ n \in Nat /\ V \in SUBSET Brokers
    /\ IF Awake(b) THEN n = Round(b) + 1 /\ Members(b) = Available(b) ELSE n > Round(b)
    /\ b \in V /\ \A c \in V : Round(c) <= n /\ (Round(c) = n => Awake(c))
    /\ \A c \in Brokers :
          Awake(c) => /\ Round(c) = n => Available(c) = V
                      /\ ~Awake(b) /\ Round(c) > Round(b) /\ Round(c) < n => b \notin Available(c)

(* The state with which it starts.                                         *)
Fresh(b, st, V, n) ==
    /\ st.currentConvergence = n /\ ToSet(st.availableBrokers) = V /\ st.members = {b}
    /\ st.neighboursMap = NoNeighbours /\ st.sentConnects = {}
    /\ st.receivedConnects =
          {con \in broker[b].receivedConnects : con.convergenceNumber >= n}
    /\ st.receivedMWOEs = broker[b].receivedMWOEs

(* What it reports first.                                                  *)
LEMMA OpeningReport ==
    ASSUME NEW H, World(H), NEW b \in Brokers, NEW f, NEW R, NEW V, Opens(b, f, R, V),
           V \in SUBSET Brokers, b \in V, Turned(R), \A x \in ReportItems : origin(x) # b
    PROVE  \E c \in Fits!Reports(b, {b}, V) : Reported' = [Reported EXCEPT ![b] = c]
<1>v. ViewsOK /\ ViewsOK' /\ ReportItems' = ReportItems \cup R
  BY WorldHolds DEF Turned
<1>0. Reported \in [Brokers -> Brokers \cup {NULL}] /\ Reported' \in [Brokers -> Brokers \cup {NULL}]
  BY <1>v DEF ViewsOK
<1>1. \A x \in R : origin(x) = b
  BY FirstReportFacts DEF Opens
<1>2. ASSUME NEW d \in Brokers, d # b
      PROVE  Reported'[d] = Reported[d]
  <2>1. \A z \in Brokers : (\E x \in ReportItems' : origin(x) = d /\ x.msg.broker = z)
                             <=> \E x \in ReportItems : origin(x) = d /\ x.msg.broker = z
    BY <1>v, <1>1, <1>2
  <2> QED
    BY <1>v, <2>1, ReportedSame
<1>3. ASSUME NEW c, Reported'[b] = c
      PROVE  Reported' = [Reported EXCEPT ![b] = c]
  <2>1. \A d \in Brokers : Reported'[d] = [Reported EXCEPT ![b] = c][d]
    BY <1>0, <1>2, <1>3
  <2> QED
    BY <1>0, <1>3, <2>1
<1>4. CASE V = {b} /\ R = {}
  <2>1. \A x \in ReportItems' : origin(x) # b
    BY <1>v, <1>4
  <2>2. Reported'[b] = NULL
    BY <1>v, <2>1, ReportedNot
  <2>3. NULL \in Fits!Reports(b, {b}, V)
    BY <1>4 DEF Fits!Reports
  <2> QED
    BY <1>3, <2>2, <2>3
<1>5. CASE V # {b}
  <2>1. PICK r : R = {r} /\ FirstReport(r, b, {b}, V, {})
    BY <1>5 DEF Opens
  <2>2. /\ r \in ReportItems' /\ origin(r) = b /\ r.msg.broker \in Brokers
        /\ r.msg.broker \in V \ {b}
        /\ \A c \in V \ {b} : conditionTable[b][r.msg.broker] <= conditionTable[b][c]
    BY <1>v, <1>1, <2>1 DEF FirstReport
  <2>3. Reported'[b] = r.msg.broker
    BY <1>v, <2>2, ReportedNow
  <2>4. r.msg.broker \in Fits!Reports(b, {b}, V)
    BY <1>5, <2>2 DEF Fits!Reports
  <2> QED
    BY <1>3, <2>3, <2>4
<1> QED
  BY <1>4, <1>5 DEF Opens

(* The requests it keeps.                                                  *)
LEMMA KeptAfter ==
    ASSUME IInv, NEW b \in Brokers, NEW a, NEW f, Acts(b, a, f), NEW V, NEW n,
           Fresh(b, f.st, V, n)
    PROVE  KeptForLater' =
             [KeptForLater EXCEPT ![b] = {k \in KeptForLater[b] : k.number >= n}]
<1>1. KeptForLater' = [KeptForLater EXCEPT ![b] =
                         {Asking(b, con) : con \in f.st.receivedConnects}]
  BY StateViews
<1>2. {Asking(b, con) : con \in f.st.receivedConnects}
        = {k \in KeptForLater[b] : k.number >= n}
  <2>1. \A con : Asking(b, con).number = con.convergenceNumber
    BY DEF Asking
  <2>2. KeptForLater[b] = {Asking(b, con) : con \in broker[b].receivedConnects}
    BY ViewFunctions
  <2>3. \A con : con \in f.st.receivedConnects <=>
                   con \in broker[b].receivedConnects /\ con.convergenceNumber >= n
    BY DEF Fresh
  <2> QED
    BY <2>1, <2>2, <2>3
<1>S. PICK S : S = {Asking(b, con) : con \in f.st.receivedConnects}
  OBVIOUS
<1>T. PICK T : T = {k \in KeptForLater[b] : k.number >= n}
  OBVIOUS
<1>3. KeptForLater' = [KeptForLater EXCEPT ![b] = S] /\ S = T
  BY <1>1, <1>2, <1>S, <1>T
<1>4. KeptForLater' = [KeptForLater EXCEPT ![b] = T]
  BY <1>3
<1> QED
  BY <1>4, <1>T

(* If Fragments may start there, the restart is that step.                 *)
LEMMA OpeningStarts ==
    ASSUME NEW H, World(H), IInv', NEW b \in Brokers, NEW a, ~IsWork(a.msg),
           NEW f, Acts(b, a, f), NEW R, NEW V, NEW n, Opens(b, f, R, V), Fresh(b, f.st, V, n),
           MayStart(b, V, n), TakingPart' = [TakingPart EXCEPT ![b] = TRUE]
    PROVE  Stepped
<1>0. IInv /\ b \in Nodes
  BY DEF World, Nodes
<1>1. \A x \in ReportItems : origin(x) # b
  <2>1. Awake(b) => Members(b) = Available(b)
    BY DEF MayStart
  <2> QED
    BY <2>1, NoneReported
<1>2. Turn(b, a, f, R)
  <2>1. f.st.receivedMWOEs = broker[b].receivedMWOEs
    BY DEF Fresh
  <2> QED
    BY <1>1, <2>1, OpeningTurn
<1>3. Turned(R)
  BY <1>0, <1>2, TurnPlaces
<1>4. \E c \in Fits!Reports(b, {b}, V) : Reported' = [Reported EXCEPT ![b] = c]
  <2>1. V \in SUBSET Brokers /\ b \in V
    BY DEF MayStart
  <2> QED
    BY <1>1, <1>3, <2>1, OpeningReport
<1>5. /\ Rounds' = [Rounds EXCEPT ![b] = n]
      /\ BuildsOver' = [BuildsOver EXCEPT ![b] = V]
      /\ KnownMembers' = [KnownMembers EXCEPT ![b] = {b}]
      /\ LinkedTo' = [LinkedTo EXCEPT ![b] = {}]
      /\ Asked' = [Asked EXCEPT ![b] = {}]
      /\ conditionTable' = conditionTable
  <2>1. /\ Rounds' = [Rounds EXCEPT ![b] = f.st.currentConvergence]
        /\ BuildsOver' = [BuildsOver EXCEPT ![b] = ToSet(f.st.availableBrokers)]
        /\ KnownMembers' = [KnownMembers EXCEPT ![b] = f.st.members]
        /\ LinkedTo' = [LinkedTo EXCEPT ![b] = NeighbourBrokers(f.st.neighboursMap)]
        /\ Asked' = [Asked EXCEPT ![b] = f.st.sentConnects]
        /\ conditionTable' = conditionTable
    BY <1>0, StateViews
  <2>2. /\ f.st.currentConvergence = n /\ ToSet(f.st.availableBrokers) = V
        /\ f.st.members = {b} /\ NeighbourBrokers(f.st.neighboursMap) = {}
        /\ f.st.sentConnects = {}
    BY NoMap DEF Fresh
  <2> QED
    BY <2>1, <2>2
<1>6. KeptForLater' = [KeptForLater EXCEPT ![b] = {k \in KeptForLater[b] : k.number >= n}]
  BY <1>0, KeptAfter
<1>7. Asks' = Asks /\ UnderWay' = UnderWay /\ ToldToAsk' = ToldToAsk
  BY <1>3 DEF Turned
<1>8. Rounds'[b] = n
  <2>1. Rounds \in [Brokers -> Nat]
    BY WorldHolds DEF Rounds, TypeOK, BrokerState, Round
  <2> QED
    BY <1>5, <2>1
<1>9. Fits!Start(b, V)
  <2>1. /\ Asks = {} /\ Rounds'[b] \in Nat
        /\ IF TakingPart[b] THEN Rounds'[b] = Rounds[b] + 1 /\ KnownMembers[b] = BuildsOver[b]
           ELSE Rounds'[b] > Rounds[b]
        /\ b \in V
    BY <1>8, ViewFunctions DEF MayStart
  <2>2. \A c \in V : Rounds[c] <= Rounds'[b] /\ (Rounds[c] = Rounds'[b] => TakingPart[c])
    BY <1>8, ViewFunctions DEF MayStart
  <2>3. \A c \in Brokers :
          TakingPart[c] =>
             /\ Rounds[c] = Rounds'[b] => BuildsOver[c] = V
             /\ ~TakingPart[b] /\ Rounds[c] > Rounds[b] /\ Rounds[c] < Rounds'[b]
                  => b \notin BuildsOver[c]
    BY <1>8, ViewFunctions DEF MayStart
  <2> QED
    BY <1>4, <1>5, <1>6, <1>7, <1>8, <2>1, <2>2, <2>3 DEF Fits!Start
<1>10. Abstractly
  <2>1. V \in SUBSET Brokers
    BY DEF MayStart
  <2> QED
    BY <1>9, <2>1 DEF Abstractly, Fits!FragmentsNext
<1>11. ASSUME NEW x \in ReportItems'
       PROVE  (ReportTrip(x) /\ Reported[origin(x)] # NULL) \/ ReportTrip(x)'
  <2>1. CASE x \in ReportItems
    BY <2>1, ReportFacts
  <2>2. CASE x \in R
    <3>1. FirstReport(x, b, {b}, V, {})
      BY <2>2 DEF Opens
    <3>2. Linked(b)' = {}
      <4>1. LinkedTo'[b] = {}
        <5>1. LinkedTo \in [Brokers -> SUBSET Brokers]
          BY DEF World, Fits!FragmentsInv, Fits!FragmentsTypeOK, Fits!Set
        <5> QED
          BY <1>5, <5>1
      <4> QED
        BY <4>1, ViewFunctionsNext
    <3>3. TakingPart'[b]
      BY DEF TakingPart
    <3> QED
      BY <1>5, <3>1, <3>2, <3>3, FirstReportTrip
  <2> QED
    BY <1>3, <2>1, <2>2 DEF Turned
<1>12. ASSUME NEW x \in OrderItems'
       PROVE  OrderTrip(x) /\ ToldToAsk[origin(x)] # NULL
  BY <1>3, OrderFacts DEF Turned
<1>13. ~crashed'
  BY DEF Opens, Acts, End
<1> QED
  BY <1>3, <1>5, <1>10, <1>11, <1>12, <1>13 DEF Stepped, Turned

(* With joins due, or nothing at all, no request is under way.             *)
LEMMA JoinsWithoutRequests ==
    ASSUME NEW H, World(H), NEW b \in Brokers, NEW a \in Arrivals(b), a.msg.type = "Join"
    PROVE  Asks = {}
<1>0. IInv /\ JoinsOK(H) /\ QueueOK(now) /\ now \in Seq(Event)
  BY WorldHolds DEF World, JoinsOK, KernelTypeOK
<1>1. CASE now = <<>>
  <2>1. \A ev \in ToSet(now) : ev.msg.type # "Connect"
    BY <1>1, NoElements
  <2> QED
    BY <2>1, NoRequests
<1>2. CASE now # <<>>
  <2>1. Head(now) = To(b, a.msg)
    BY <1>0, <1>2, ControlArrives
  <2>2. Head(now) \in ToSet(now) /\ IsJoin(Head(now))
    BY <1>0, <1>2, <2>1, QueueTail DEF IsJoin, To
  <2>3. \A v \in ToSet(now) : v.msg.type \in {"Join", "MWOE", "Disconnection"}
    BY <1>0, <1>2, <2>2, QueueTail
  <2>4. \A ev \in ToSet(now) : ev.msg.type # "Connect"
    BY <2>3
  <2> QED
    BY <2>4, NoRequests
<1> QED
  BY <1>1, <1>2

(* Broker b is about to go on to round n.                                  *)
GoesOn(H, b, n) ==
    /\ n \in Nat /\ b \in H[n]
    /\ IF Awake(b) THEN n = Round(b) + 1 /\ Members(b) = Available(b)
       ELSE n > Round(b) /\ \A k \in Round(b) + 1 .. n - 1 : b \notin H[k]

(* Fragments may start: everybody the broker builds over has come as far.  *)
LEMMA NextMayStart ==
    ASSUME NEW H, World(H), NEW b \in Brokers, NEW n, GoesOn(H, b, n), Asks = {},
           NEW V, V = H[n]
    PROVE  MayStart(b, V, n)
<1>0. /\ H \in Histories /\ RoundsOK(H) /\ n \in Nat /\ JoinsOK(H) /\ FragmentsHold
      /\ \A c \in Brokers : Round(c) \in Nat
  BY WorldHolds DEF World, JoinsOK, HistoryOK, GoesOn, TypeOK, BrokerState, Round
<1>1. V \in SUBSET Brokers /\ b \in V
  BY <1>0 DEF Histories, GoesOn
<1>2. n > Round(b)
  BY <1>0 DEF GoesOn
<1>3. ASSUME NEW c \in V
      PROVE  Round(c) <= n /\ (Round(c) = n => Awake(c))
  <2>1. c \in Brokers
    BY <1>1
  <2>2. ASSUME n <= Round(c), Through(c, n)
        PROVE  FALSE
    <3>1. n \in 0 .. Round(c)
      BY <1>0, <2>1, <2>2
    <3>2. c \in H[n] /\ b \in H[n]
      BY <1>1
    <3>3. Round(b) >= n
      BY <1>0, <2>1, <2>2, <3>1, <3>2 DEF RoundsOK
    <3> QED
      BY <1>0, <1>2, <3>3
  <2> QED
    BY <1>0, <2>1, <2>2 DEF Through
<1>4. ASSUME NEW c \in Brokers, Awake(c)
      PROVE  /\ Round(c) = n => Available(c) = V
             /\ ~Awake(b) /\ Round(c) > Round(b) /\ Round(c) < n => b \notin Available(c)
  <2>1. Available(c) = H[Round(c)]
    BY <1>0, <1>4, AwakeRuns DEF ListOK, Available, Round
  <2>2. ASSUME ~Awake(b), Round(c) > Round(b), Round(c) < n
        PROVE  b \notin Available(c)
    <3>1. Round(c) \in Round(b) + 1 .. n - 1
      BY <1>0, <2>2
    <3> QED
      BY <2>1, <2>2, <3>1 DEF GoesOn
  <2> QED
    BY <2>1, <2>2
<1>5. IF Awake(b) THEN n = Round(b) + 1 /\ Members(b) = Available(b) ELSE n > Round(b)
  BY DEF GoesOn
<1> QED
  BY <1>0, <1>1, <1>3, <1>4, <1>5 DEF MayStart

(* The control messages that are left.                                     *)
LEMMA OpeningControl ==
    ASSUME IInv, QueueOK(now), NEW b \in Brokers, NEW a, NEW f, Acts(b, a, f),
           NEW R, NEW V, V \in SUBSET Brokers, Opens(b, f, R, V)
    PROVE  Control' = Control \ {To(b, a.msg)}
<1>0. NULL \notin Brokers
  BY NodesAssumption
<1>1. /\ f \in Effect /\ SentBy(b, f) = R
      /\ f.direct \in Seq(Event) /\ f.out \in [Nodes -> Seq(Message)] /\ b \in Nodes
  BY DEF Opens, Clean, Effect, Nodes
<1>2. \A x \in R : FirstReport(x, b, {b}, V, {})
  BY DEF Opens
<1>3. ASSUME NEW ev \in ToSet(f.direct)
      PROVE  Quick(ev) /\ ev.msg.type = "MWOE"
  <2>1. ev \in Event
    BY <1>1, ElementsType
  <2>t. PICK t, m : t = ev.to /\ m = ev.msg
    OBVIOUS
  <2>2. ev = To(t, m)
    BY <2>1, <2>t DEF Event, To
  <2>x. PICK x : x = it(NULL, t, m)
    OBVIOUS
  <2>3. it(NULL, t, m) \in SentBy(b, f)
    BY <1>1, <2>2, SentByIs
  <2>4. FirstReport(x, b, {b}, V, {})
    BY <1>1, <1>2, <2>3, <2>x
  <2>5. x.from = NULL /\ x.to = t /\ x.msg = m
    BY <2>x DEF it
  <2>6. t = b /\ m.type = "MWOE" /\ m.broker \in Brokers
    BY <1>0, <2>4, <2>5 DEF FirstReport
  <2> QED
    BY <1>0, <2>6, <2>t DEF Quick, Named
<1>4. OnlyReports(f)
  BY <1>1, <1>3 DEF OnlyReports
<1>s. PICK s : s = rest(a)
  OBVIOUS
<1>5. now' = s \o f.direct /\ s \in Seq(Event) /\ QueueOK(s)
      /\ ControlOf(s) = Control \ {To(b, a.msg)}
  BY <1>s, StepFacts
<1>6. ControlOf(s \o f.direct) = ControlOf(s)
  BY <1>4, <1>5, ReportsInQueue
<1> QED
  BY <1>5, <1>6 DEF Control

(* The broker takes part, and the others as before.                        *)
LEMMA PartBegins ==
    ASSUME IInv, QueueOK(now), NEW b \in Brokers, NEW a, NEW f, Acts(b, a, f),
           b \in RegisteredBrokers, ~f.st.initial, Undisturbed(Control', b),
           \A c \in Brokers \ {b} : Undisturbed(Control', c) <=> Undisturbed(Control, c)
    PROVE  TakingPart' = [TakingPart EXCEPT ![b] = TRUE]
<1>1. /\ RegisteredBrokers' = RegisteredBrokers /\ broker'[b] = f.st
      /\ \A c \in Brokers \ {b} : broker'[c] = broker[c]
  BY StepFacts
<1>2. Awake(b)'
  BY <1>1, AwakeNextIs
<1>3. \A c \in Brokers \ {b} : Awake(c)' <=> Awake(c)
  BY <1>1, AwakeIs, AwakeNextIs
<1>4. TakingPart' = [c \in Brokers |-> Awake(c)']
  BY DEF TakingPart
<1>5. ASSUME NEW c \in Brokers
      PROVE  Awake(c)' \in BOOLEAN /\ Awake(c) \in BOOLEAN
  BY AwakeIs, AwakeNextIs
<1>6. ASSUME NEW c \in Brokers
      PROVE  TakingPart'[c] = [TakingPart EXCEPT ![b] = TRUE][c]
  <2>1. CASE c = b
    <3>1. TakingPart'[b] = TRUE
      BY <1>2, <1>4, <1>5
    <3>2. [TakingPart EXCEPT ![b] = TRUE][b] = TRUE
      BY DEF TakingPart
    <3> QED
      BY <2>1, <3>1, <3>2
  <2>2. CASE c # b
    <3>1. TakingPart'[c] = Awake(c)
      BY <1>3, <1>4, <1>5, <2>2
    <3>2. [TakingPart EXCEPT ![b] = TRUE][c] = Awake(c)
      BY <2>2 DEF TakingPart
    <3> QED
      BY <3>1, <3>2
  <2> QED
    BY <2>1, <2>2
<1> QED
  BY <1>4, <1>6 DEF TakingPart

-----------------------------------------------------------------------------
(* Joins and leaves arrive.                                                *)

(* Who else takes part is not disturbed by the join that a broker takes.   *)
KeepsOut(b, m) ==
    /\ b \in RegisteredBrokers
    /\ Undisturbed(Control \ {To(b, m)}, b)
    /\ \A c \in Brokers \ {b} :
          Undisturbed(Control \ {To(b, m)}, c) <=> Undisturbed(Control, c)

(* A broker that accepts a change begins anew, alone, in the convergence   *)
(* of the change.                                                          *)
LEMMA JoinAccepted ==
    ASSUME NEW H, World(H), IInv', NEW b \in Brokers, NEW a \in Arrivals(b),
           a.msg.type = "Join", NEW m \in JoinMessage, m = a.msg, NEW e, Starts(e, b, a),
           NEW f, f = Restart(e, m), Finish(b, a, f), KeepsOut(b, m),
           NEW n, n = m.convergenceNo, GoesOn(H, b, n),
           NEW list, list = RestartList(e, m), Distinct(list), ToSet(list) = H[n],
           MapOK(broker[b].neighboursMap), broker[b].bufferedSubs = {},
           TimerJoins(e.timers) = {}, ~(m.leaving /\ broker[b].availableBrokers = <<>>)
    PROVE  Stepped
<1>0. IInv /\ JoinsOK(H) /\ QueueOK(now) /\ H \in Histories /\ n \in Nat
  BY WorldHolds DEF World, JoinsOK, HistoryOK, GoesOn
<1>1. /\ e \in Effect /\ e.self = b /\ e.st = broker[b]
      /\ e.direct = <<>> /\ ~e.fault
  BY <1>0, StartIs DEF Starts
<1>2. PICK g : /\ f = findAndSendMWOE(g)
               /\ Renews(e, g, list, n)
               /\ (g.fault <=> e.fault)
  <2>1. \E g : /\ Restart(e, m) = findAndSendMWOE(g)
               /\ Renews(e, g, RestartList(e, m), m.convergenceNo)
               /\ (g.fault <=> e.fault \/ (m.leaving /\ e.st.availableBrokers = <<>>))
    BY <1>1, RestartIs
  <2> QED
    BY <1>1, <2>1
<1>v. PICK V : V = H[n]
  OBVIOUS
<1>3. V \in SUBSET Brokers /\ b \in V /\ V = ToSet(list)
  BY <1>0, <1>v DEF Histories, GoesOn
<1>4. Found(g, f) /\ \E R : Opens(b, f, R, V)
  BY <1>1, <1>2, <1>3, OpeningIs
<1>5. PICK R : Opens(b, f, R, V)
  BY <1>4
<1>6. /\ f \in Effect /\ SameView(g.st, f.st) /\ SameConnects(g.st, f.st)
      /\ f.st.receivedMWOEs = g.st.receivedMWOEs
  BY <1>4 DEF Found
<1>7. ~IsWork(a.msg)
  BY DEF IsWork
<1>8. Acts(b, a, f)
  BY <1>6, <1>7, Finished
<1>9. Fresh(b, f.st, V, n) /\ ~f.st.initial
  BY <1>1, <1>2, <1>3, <1>6 DEF Renews, SameView, SameConnects, Fresh
<1>10. Control' = Control \ {To(b, m)}
  BY <1>0, <1>3, <1>5, <1>8, OpeningControl
<1>11. TakingPart' = [TakingPart EXCEPT ![b] = TRUE]
  <2>1. /\ b \in RegisteredBrokers /\ ~f.st.initial /\ Undisturbed(Control', b)
        /\ \A c \in Brokers \ {b} : Undisturbed(Control', c) <=> Undisturbed(Control, c)
    BY <1>9, <1>10 DEF KeepsOut
  <2> QED
    BY <1>0, <1>8, <2>1, PartBegins
<1>12. MayStart(b, V, n)
  <2>1. Asks = {}
    BY JoinsWithoutRequests
  <2> QED
    BY <1>v, <2>1, NextMayStart
<1> QED
  BY <1>5, <1>7, <1>8, <1>9, <1>11, <1>12, OpeningStarts

(* A broker that holds a change back does nothing else.                    *)
LEMMA JoinHeldBack ==
    ASSUME NEW H, World(H), IInv', NEW b \in Brokers, NEW a \in Arrivals(b),
           a.msg.type = "Join", NEW m \in JoinMessage, m = a.msg, NEW e, Starts(e, b, a),
           NEW f, f = handleJoinMessage(e, m), Finish(b, a, f), ~AcceptsJoin(broker[b], m),
           \A c \in Brokers : Undisturbed(Control \ {To(b, m)}, c) <=> Undisturbed(Control, c)
    PROVE  Stepped
<1>0. IInv /\ JoinsOK(H) /\ QueueOK(now) /\ TypeOK /\ broker \in [Brokers -> BrokerState]
  BY WorldHolds DEF World, JoinsOK, TypeOK
<1>1. /\ e \in Effect /\ e.self = b /\ e.st = broker[b]
      /\ e.direct = <<>> /\ ~e.fault /\ e.out = [d \in Nodes |-> <<>>]
  BY <1>0, StartIs DEF Starts
<1>2. /\ f \in Effect /\ SendsNothing(e, f)
      /\ f.st = [e.st EXCEPT !.awaitingNSMsgs = Append(e.st.awaitingNSMsgs, m)]
  BY <1>1, QueueIs
<1>3. ~IsWork(a.msg)
  BY DEF IsWork
<1>4. Acts(b, a, f)
  BY <1>2, <1>3, Finished
<1>5. f.direct = <<>> /\ f.out = [d \in Nodes |-> <<>>] /\ ~f.fault
  BY <1>1, <1>2 DEF SendsNothing
<1>6. /\ f.st.receivedMWOEs = broker[b].receivedMWOEs /\ f.st.initial = broker[b].initial
      /\ f.st.currentConvergence = broker[b].currentConvergence
      /\ f.st.availableBrokers = broker[b].availableBrokers
      /\ f.st.members = broker[b].members /\ f.st.neighboursMap = broker[b].neighboursMap
      /\ SameConnects(broker[b], f.st)
  <2>1. broker[b] \in BrokerState
    BY <1>0
  <2> QED
    BY <1>1, <1>2, <2>1 DEF BrokerState, SameConnects
<1>7. Turn(b, a, f, {})
  <2>1. Distinct(f.direct) /\ \A ev \in ToSet(f.direct) : IsControl(ev) /\ ev \notin Control
    BY <1>5, NoElements DEF Distinct
  <2> QED
    BY <1>3, <1>4, <1>5, <1>6, <2>1, SilentTurn
<1>8. Control' = Control \ {To(b, m)}
  <2>1. /\ now' = rest(a) \o f.direct /\ rest(a) \in Seq(Event)
        /\ ControlOf(rest(a)) = Control \ {To(b, a.msg)}
    BY <1>0, <1>4, StepFacts
  <2>2. now' = rest(a)
    BY <1>5, <2>1, EmptyBack
  <2> QED
    BY <2>1, <2>2 DEF Control
<1>9. TakingPart' = TakingPart
  <2>1. /\ RegisteredBrokers' = RegisteredBrokers /\ broker'[b] = f.st
        /\ \A c \in Brokers \ {b} : broker'[c] = broker[c]
    BY <1>0, <1>4, StepFacts
  <2>2. ASSUME NEW c \in Brokers
        PROVE  Awake(c)' <=> Awake(c)
    BY <1>6, <1>8, <2>1, AwakeIs, AwakeNextIs
  <2> QED
    BY <2>2, PartStays
<1>10. /\ Rounds' = Rounds /\ BuildsOver' = BuildsOver /\ KnownMembers' = KnownMembers
       /\ LinkedTo' = LinkedTo /\ conditionTable' = conditionTable
       /\ Asked' = Asked /\ KeptForLater' = KeptForLater
  BY <1>0, <1>4, <1>6, UntouchedViews
<1>11. ~crashed'
  BY <1>4, <1>5, WorldHolds DEF Acts, End
<1>12. b \in Nodes
  BY DEF Nodes
<1> QED
  BY <1>7, <1>9, <1>10, <1>11, <1>12, UnmovedStep

(* A broker whose fragment is complete takes the change that follows.      *)
LEMMA ChangeAccepted ==
    ASSUME NEW H, World(H), IInv', NEW b \in Brokers, NEW a \in Arrivals(b),
           a.msg.type = "Join", NEW m \in JoinMessage, m = a.msg, NEW e, Starts(e, b, a),
           NEW f, f = Restart(e, m), Finish(b, a, f), KeepsOut(b, m),
           Undisturbed(Control, b), NEW L \in Nat, NEW k,
           Runs(H, b, broker[b], timers[b], L, k), Done(broker[b]),
           IsChange(H, m, Round(b)), Round(b) + 1 <= L, TimerJoins(e.timers) = {}
    PROVE  Stepped
<1>0. IInv /\ JoinsOK(H) /\ TypeOK /\ H \in Histories /\ Round(b) \in Nat
  BY WorldHolds DEF World, JoinsOK, HistoryOK, TypeOK, BrokerState, Round
<1>1. e \in Effect /\ e.self = b /\ e.st = broker[b]
  BY <1>0, StartIs DEF Starts
<1>2. /\ ~broker[b].initial /\ ListOK(H, broker[b]) /\ MapOK(broker[b].neighboursMap)
      /\ broker[b].bufferedSubs = {} /\ \A i \in Round(b) .. L : b \in H[i]
  BY DEF Runs, Round
<1>n. PICK n : n = m.convergenceNo
  OBVIOUS
<1>3. n = Round(b) + 1 /\ b \in H[n] /\ b \in H[Round(b)]
  <2>1. n = Round(b) + 1
    BY <1>n DEF IsChange
  <2>2. Round(b) \in Round(b) .. L /\ Round(b) + 1 \in Round(b) .. L
    BY <1>0
  <2> QED
    BY <1>2, <2>1, <2>2
<1>4. m.requester # b
  BY <1>3, <1>n DEF IsChange
<1>l. PICK list : list = RestartList(e, m)
  OBVIOUS
<1>5. Distinct(list) /\ ToSet(list) = H[n]
  <2>1. ListOK(H, e.st) /\ IsChange(H, m, e.st.currentConvergence) /\ m.requester # e.self
    BY <1>1, <1>2, <1>4 DEF Round
  <2> QED
    BY <1>0, <1>1, <1>l, <1>n, <2>1, ChangedList
<1>6. GoesOn(H, b, n)
  <2>1. Awake(b)
    BY <1>2, AwakeIs DEF KeepsOut
  <2>2. Members(b) = Available(b)
    BY DEF Done, Members, Available
  <2> QED
    BY <1>0, <1>3, <2>1, <2>2 DEF GoesOn
<1>7. broker[b].availableBrokers # <<>>
  <2>1. b \in ToSet(broker[b].availableBrokers)
    BY <1>2, <1>3 DEF ListOK, Round
  <2> QED
    BY <2>1, NoElements
<1> QED
  BY <1>2, <1>5, <1>6, <1>7, <1>l, <1>n, JoinAccepted

(* A change that waited out its delay begins.                              *)
LEMMA DelayedWorld ==
    ASSUME NEW H, World(H), IInv', NEW b \in Brokers, HandleJoinMessage(b), now = <<>>
    PROVE  Stepped
<1>a. PICK a \in Arrivals(b) :
         a.msg.type = "Join" /\ Finish(b, a, handleJoinMessage(Start(b, a), a.msg))
  BY DEF HandleJoinMessage, Arriving
<1>m. PICK m : m = a.msg
  OBVIOUS
<1>l. PICK L : L = convergenceNumber - 1
  OBVIOUS
<1>0. IInv /\ JoinsOK(H) /\ FragmentsHold
  BY WorldHolds DEF World
<1>1. /\ now = <<>> /\ a.from = b /\ m \in timers[b] /\ m \in JoinMessage
      /\ timers[b] \in SUBSET Message
  <2>1. now = <<>> /\ a.from = b /\ m \in timers[b]
    BY <1>0, <1>a, <1>m, ControlArrives
  <2>2. timers[b] \in SUBSET Message
    BY <1>0 DEF IInv, TypeOK, KernelTypeOK, Nodes
  <2>3. m.type = "Join" /\ m \in Message
    BY <1>a, <1>m, <2>1, <2>2
  <2> QED
    BY <2>1, <2>2, <2>3, MessageTypes
<1>2. /\ Calm(H) /\ H \in Histories /\ convergenceNumber \in Nat /\ convergenceNumber > 0
      /\ L \in Nat /\ broker[b] \in BrokerState /\ Control = {}
  BY <1>0, <1>1, <1>l, CalmWhenIdle DEF JoinsOK, IInv, TypeOK, NSTypeOK, HistoryOK, Calm
<1>3. Place(H, b, L, {})
  <2>1. \A c \in Brokers \ {NULL} : Place(H, c, L, {})
    BY <1>2, <1>l, OthersPlace DEF Calm
  <2> QED
    BY <2>1, NodesAssumption
<1>4. b \in RegisteredBrokers /\ Up(H, b, L, 0)
  <2>1. "Join" \in TypesOf(timers[b])
    BY <1>1, <1>a, <1>m DEF TypesOf
  <2>2. ~Down(H, b, L, {"WakeUp"})
    BY <2>1 DEF Down, DownState
  <2> QED
    BY <1>3, <2>2 DEF Place
<1>5. m \in TimerJoins(timers[b])
  BY <1>1, <1>a, <1>m DEF TimerJoins
<1>6. /\ Runs(H, b, broker[b], timers[b], L, 0)
      /\ broker[b].converged /\ Done(broker[b])
  BY <1>4, <1>5 DEF Up, UpState
<1>q. PICK q : q = broker[b].awaitingNSMsgs
  OBVIOUS
<1>7. Held(timers[b]) = 1 /\ Round(b) \in Nat /\ q \in Seq(JoinMessage) /\ Len(q) \in Nat
  BY <1>2, <1>5, <1>q DEF Held, Round, BrokerState
<1>8. IsChange(H, m, Round(b)) /\ Round(b) + 1 <= L
  <2>1. Waiting(H, broker[b], timers[b], L, 0)
    BY <1>6 DEF Runs
  <2>2. IsChange(H, m, Round(b))
    BY <1>5, <2>1 DEF Waiting, Round
  <2>3. Round(b) + Held(timers[b]) + Len(q) + 0 = L
    BY <1>q, <2>1 DEF Waiting, Round
  <2> QED
    BY <1>2, <1>7, <2>2, <2>3
<1>e. PICK e : e = Start(b, a)
  OBVIOUS
<1>f. PICK f : f = handleJoinMessage(e, m)
  OBVIOUS
<1>9. e \in Effect /\ e.self = b /\ e.st = broker[b] /\ e.timers = timers[b] \ {m}
  <2>1. /\ Start(b, a) \in Effect /\ Start(b, a).self = b /\ Start(b, a).st = broker[b]
        /\ Start(b, a).timers = IF a.from = b THEN timers[b] \ {a.msg} ELSE timers[b]
    BY <1>0, StartIs
  <2> QED
    BY <1>1, <1>e, <1>m, <2>1
<1>10. TimerJoins(e.timers) = {}
  <2> SUFFICES ASSUME NEW j \in TimerJoins(timers[b]) PROVE j = m
    BY <1>9 DEF TimerJoins
  <2>1. j \in JoinMessage
    BY <1>1, MessageTypes DEF TimerJoins
  <2>2. IsChange(H, j, Round(b))
    BY <1>6 DEF Runs, Waiting, Round
  <2> QED
    BY <1>1, <1>2, <1>7, <1>8, <2>1, <2>2, ChangeIsOne
<1>11. f = Restart(e, m)
  <2>1. m.convergenceNo = Round(b) + 1
    BY <1>8 DEF IsChange
  <2>2. AcceptsJoin(broker[b], m)
    BY <1>6, <2>1 DEF AcceptsJoin, Round
  <2>3. m.requester # b
    <3>1. Round(b) \in Round(b) .. L /\ Round(b) + 1 \in Round(b) .. L
      BY <1>2, <1>7, <1>8
    <3>2. b \in H[Round(b)] /\ b \in H[Round(b) + 1]
      BY <1>6, <3>1 DEF Runs, Round
    <3> QED
      BY <1>8, <3>2 DEF IsChange
  <2> QED
    BY <1>9, <1>f, <2>2, <2>3 DEF handleJoinMessage
<1>12. \A c \in Brokers : Undisturbed(Control, c) /\ Undisturbed(Control \ {To(b, m)}, c)
  BY <1>2 DEF Undisturbed
<1>13. KeepsOut(b, m) /\ Undisturbed(Control, b)
  BY <1>4, <1>12 DEF KeepsOut
<1>14. /\ Starts(e, b, a) /\ Finish(b, a, f) /\ m \in JoinMessage /\ m = a.msg
       /\ a.msg.type = "Join"
  BY <1>1, <1>a, <1>e, <1>f, <1>m DEF Starts
<1> QED
  BY <1>2, <1>6, <1>8, <1>10, <1>11, <1>13, <1>14, ChangeAccepted

(* A change of another broker is taken, or held back behind the others.    *)
LEMMA ChangeTaken ==
    ASSUME NEW H, World(H), IInv', NEW b \in Brokers, b \in RegisteredBrokers,
           NEW L \in Nat, Up(H, b, L, 1), NEW a \in Arrivals(b), a.from = NULL,
           a.msg.type = "Join", NEW m \in JoinMessage, m = a.msg, m.requester # b,
           IsChange(H, m, L - 1), Undisturbed(Control, b),
           NEW e, Starts(e, b, a), NEW f, f = handleJoinMessage(e, m), Finish(b, a, f),
           \A c \in Brokers : Undisturbed(Control \ {To(b, m)}, c) <=> Undisturbed(Control, c)
    PROVE  Stepped
<1>0. IInv /\ JoinsOK(H) /\ TypeOK /\ broker[b] \in BrokerState /\ Round(b) \in Nat
  BY WorldHolds DEF World, TypeOK, BrokerState, Round
<1>1. e \in Effect /\ e.self = b /\ e.st = broker[b] /\ e.timers = timers[b]
  <2>1. e = Start(b, a)
    BY DEF Starts
  <2> QED
    BY <1>0, <2>1, StartNow
<1>2. CASE ~AcceptsJoin(broker[b], m)
  BY <1>2, JoinHeldBack
<1>3. CASE AcceptsJoin(broker[b], m)
  <2>1. /\ Runs(H, b, broker[b], timers[b], L, 1)
        /\ broker[b].converged => Done(broker[b])
    BY DEF Up, UpState
  <2>2. m.convergenceNo = L
    <3>1. m.convergenceNo = L - 1 + 1
      BY DEF IsChange
    <3> QED
      BY <3>1
  <2>3. broker[b].converged /\ L = Round(b) + 1 /\ ~broker[b].initial
    BY <1>3, <2>1, <2>2 DEF AcceptsJoin, Round, Runs
  <2>q. PICK q : q = broker[b].awaitingNSMsgs
    OBVIOUS
  <2>4. /\ Held(timers[b]) \in Nat /\ (Held(timers[b]) = 0 <=> TimerJoins(timers[b]) = {})
        /\ Len(q) \in Nat
    BY <1>0, <2>q DEF Held, BrokerState
  <2>5. Round(b) + Held(timers[b]) + Len(q) + 1 = L
    BY <2>1, <2>q DEF Runs, Waiting, Round
  <2>6. Held(timers[b]) = 0
    BY <1>0, <2>3, <2>4, <2>5
  <2>7. TimerJoins(e.timers) = {}
    BY <1>1, <2>4, <2>6
  <2>8. IsChange(H, m, Round(b)) /\ Round(b) + 1 <= L
    <3>1. L - 1 = Round(b)
      BY <1>0, <2>3
    <3> QED
      BY <1>0, <2>3, <3>1
  <2>9. f = Restart(e, m)
    BY <1>1, <1>3 DEF handleJoinMessage
  <2>10. KeepsOut(b, m)
    BY DEF KeepsOut
  <2>11. Done(broker[b])
    BY <2>1, <2>3
  <2> QED
    BY <2>1, <2>7, <2>8, <2>9, <2>10, <2>11, ChangeAccepted
<1> QED
  BY <1>2, <1>3

(* The joins and leaves of other brokers that are still under way.         *)
LEMMA AnnouncedUndisturbed ==
    ASSUME NEW D, NEW b, NEW j, j.type = "Join" /\ ~j.leaving,
           NEW C, C = Announced(D, j), NEW c
    PROVE  Undisturbed(C, c) /\ Undisturbed(C \ {To(b, j)}, c)
<1>1. \A ev \in C : ev.msg.type = "Join" /\ ~ev.msg.leaving
  BY DEF Announced, To
<1> QED
  BY <1>1 DEF Undisturbed

(* What is left of the leave of broker x: its announcements, and, when x   *)
(* has heard of it itself, its departure.                                  *)
Leavers(C, D, j, x) == C = Announced(D, j) \cup (IF x \in D THEN {} ELSE {departure(x)})

(* A leave that is announced disturbs the broker that leaves.              *)
LEMMA LeavingUndisturbed ==
    ASSUME NEW x, NEW D, NEW b, b # x, NEW j, j.type = "Join" /\ j.leaving /\ j.requester = x,
           NEW c, NEW C, Leavers(C, D, j, x)
    PROVE  /\ Undisturbed(C, c) <=> c # x
           /\ Undisturbed(C \ {To(b, j)}, c) <=> c # x
<1>1. /\ j.type = "Join" /\ j.leaving /\ j.requester = x
      /\ departure(x).msg.type = "Disconnection" /\ departure(x).msg.requester = x
      /\ To(b, j).msg = j /\ To(b, j).to = b /\ To(x, j).msg = j /\ To(x, j).to = x
  BY DEF departure, To
<1>2. \A ev \in C : \/ ev.msg = j
                    \/ ev.msg.type = "Disconnection" /\ ev.msg.requester = x
  <2>1. ASSUME NEW ev \in Announced(D, j)
        PROVE  ev.msg = j
    BY DEF Announced, To
  <2>2. \A ev \in C : ev \in Announced(D, j) \/ ev = departure(x)
    BY DEF Leavers
  <2> QED
    BY <1>1, <2>1, <2>2
<1>3. CASE c # x
  BY <1>1, <1>2, <1>3 DEF Undisturbed
<1>4. CASE c = x
  <2>1. CASE x \in D
    <3>1. To(x, j) \in C /\ To(x, j) # To(b, j)
      BY <1>1, <2>1 DEF Leavers, Announced
    <3> QED
      BY <1>1, <1>4, <3>1 DEF Undisturbed
  <2>2. CASE x \notin D
    <3>1. departure(x) \in C /\ departure(x) # To(b, j)
      BY <1>1, <2>2 DEF Leavers
    <3> QED
      BY <1>1, <1>4, <3>1 DEF Undisturbed
  <2> QED
    BY <2>1, <2>2
<1> QED
  BY <1>3, <1>4

(* The join of another broker reaches a broker,                            *)
LEMMA JoinTakenWorld ==
    ASSUME NEW H, World(H), IInv', NEW x \in Brokers, NEW D \in SUBSET Brokers,
           Joining(H, x, D), NEW b \in D, b # x,
           NEW a \in Arrivals(b), a.from = NULL, a.msg.type = "Join",
           NEW m \in JoinMessage, m = a.msg,
           m.requester = x, m.convergenceNo = convergenceNumber - 1, m.leaving = FALSE,
           NEW e, Starts(e, b, a), NEW f, f = handleJoinMessage(e, m), Finish(b, a, f)
    PROVE  Stepped
<1>a. PICK L : L = convergenceNumber - 1
  OBVIOUS
<1>0. IInv /\ JoinsOK(H)
  BY DEF World
<1>1. /\ Control = Announced(D, join(x, L, FALSE))
      /\ D \subseteq RegisteredBrokers /\ x \in RegisteredBrokers
      /\ convergenceNumber > 1 /\ H[convergenceNumber - 2] = RegisteredBrokers \ {x}
      /\ Others(H, x, L, D)
  BY <1>a DEF Joining
<1>2. convergenceNumber \in Nat /\ H[convergenceNumber - 1] = RegisteredBrokers
  BY <1>0 DEF IInv, TypeOK, NSTypeOK, JoinsOK, HistoryOK
<1>3. /\ L \in Nat /\ H[L] = RegisteredBrokers /\ H[L - 1] = RegisteredBrokers \ {x}
      /\ (L - 1) + 1 = L
  <2>1. L - 1 = convergenceNumber - 2 /\ L \in Nat /\ (L - 1) + 1 = L
    BY <1>1, <1>2, <1>a
  <2> QED
    BY <1>1, <1>2, <1>a, <2>1
<1>4. m.requester = x /\ m.convergenceNo = L /\ m.leaving = FALSE /\ m = join(x, L, FALSE)
  <2>1. m.requester = x /\ m.convergenceNo = L /\ m.leaving = FALSE
    BY <1>a
  <2> QED
    BY <2>1, JoinIs
<1>5. IsChange(H, m, L - 1)
  <2>1. m.convergenceNo = (L - 1) + 1 /\ ~m.leaving /\ m.requester \notin H[L - 1]
    BY <1>3, <1>4
  <2>2. H[(L - 1) + 1] = H[L - 1] \cup {m.requester}
    <3>1. RegisteredBrokers = (RegisteredBrokers \ {x}) \cup {x}
      BY <1>1
    <3>2. H[(L - 1) + 1] = RegisteredBrokers
      BY <1>3
    <3> QED
      BY <1>3, <1>4, <3>1, <3>2
  <2> QED
    BY <2>1, <2>2 DEF IsChange
<1>6. b \in RegisteredBrokers /\ b \in Brokers
  BY <1>1
<1>7. Up(H, b, L, 1)
  <2>1. Place(H, b, L, D)
    BY <1>1, <1>6, OthersPlace
  <2> QED
    BY <1>6, <2>1 DEF Place
<1>8. \A c \in Brokers : Undisturbed(Control, c) /\ Undisturbed(Control \ {To(b, m)}, c)
  <2>C. PICK C : C = Control
    OBVIOUS
  <2>1. C = Announced(D, m) /\ m.type = "Join" /\ ~m.leaving
    BY <1>1, <1>4, <2>C
  <2>2. ASSUME NEW c
        PROVE  Undisturbed(C, c) /\ Undisturbed(C \ {To(b, m)}, c)
    BY <2>1, AnnouncedUndisturbed
  <2> QED
    BY <2>2, <2>C
<1> QED
  BY <1>3, <1>4, <1>5, <1>6, <1>7, <1>8, ChangeTaken

(* or its leave.                                                           *)
LEMMA LeaveTakenWorld ==
    ASSUME NEW H, World(H), IInv', NEW x \in Brokers, NEW D \in SUBSET Brokers,
           Leaving(H, x, D), NEW b \in D, b # x,
           NEW a \in Arrivals(b), a.from = NULL, a.msg.type = "Join",
           NEW m \in JoinMessage, m = a.msg,
           m.requester = x, m.convergenceNo = convergenceNumber, m.leaving = TRUE,
           NEW e, Starts(e, b, a), NEW f, f = handleJoinMessage(e, m), Finish(b, a, f)
    PROVE  Stepped
<1>a. PICK L : L = convergenceNumber
  OBVIOUS
<1>0. IInv /\ JoinsOK(H)
  BY DEF World
<1>1. /\ Control = Announced(D, join(x, L, TRUE))
                     \cup (IF x \in D THEN {} ELSE {departure(x)})
      /\ D \subseteq RegisteredBrokers /\ x \in RegisteredBrokers
      /\ H[L] = RegisteredBrokers \ {x}
      /\ Others(H, x, L, D)
  BY <1>a DEF Leaving
<1>2. L \in Nat /\ H[L - 1] = RegisteredBrokers /\ (L - 1) + 1 = L
  <2>1. L \in Nat /\ H[L - 1] = RegisteredBrokers
    BY <1>0, <1>a DEF IInv, TypeOK, NSTypeOK, JoinsOK, HistoryOK
  <2> QED
    BY <2>1
<1>3. m.requester = x /\ m.convergenceNo = L /\ m.leaving = TRUE /\ m = join(x, L, TRUE)
  <2>1. m.requester = x /\ m.convergenceNo = L /\ m.leaving = TRUE
    BY <1>a
  <2> QED
    BY <2>1, JoinIs
<1>4. IsChange(H, m, L - 1)
  <2>1. m.convergenceNo = (L - 1) + 1 /\ m.leaving /\ m.requester \in H[L - 1]
    BY <1>1, <1>2, <1>3
  <2>2. H[(L - 1) + 1] = H[L - 1] \ {m.requester}
    BY <1>1, <1>2, <1>3
  <2> QED
    BY <2>1, <2>2 DEF IsChange
<1>5. b \in RegisteredBrokers /\ b \in Brokers
  BY <1>1
<1>6. Up(H, b, L, 1)
  <2>1. Place(H, b, L, D)
    BY <1>1, <1>5, OthersPlace
  <2> QED
    BY <1>5, <2>1 DEF Place
<1>7. \A c \in Brokers : /\ Undisturbed(Control, c) <=> c # x
                         /\ Undisturbed(Control \ {To(b, m)}, c) <=> c # x
  <2>C. PICK C : C = Control
    OBVIOUS
  <2>1. Leavers(C, D, m, x)
    BY <1>1, <1>3, <2>C DEF Leavers
  <2>2. m.type = "Join" /\ m.leaving /\ m.requester = x
    BY <1>3
  <2>3. ASSUME NEW c
        PROVE  /\ Undisturbed(C, c) <=> c # x
               /\ Undisturbed(C \ {To(b, m)}, c) <=> c # x
    BY <2>1, <2>2, LeavingUndisturbed
  <2> QED
    BY <2>3, <2>C
<1>8. /\ Undisturbed(Control, b)
      /\ \A c \in Brokers : Undisturbed(Control \ {To(b, m)}, c) <=> Undisturbed(Control, c)
  BY <1>7
<1> QED
  BY <1>2, <1>3, <1>4, <1>5, <1>6, <1>8, ChangeTaken

(* The broker that joins takes its own join.                               *)
LEMMA OwnJoinWorld ==
    ASSUME NEW H, World(H), IInv', NEW x \in Brokers, NEW D \in SUBSET Brokers,
           Joining(H, x, D), x \in D,
           NEW a \in Arrivals(x), a.from = NULL, a.msg.type = "Join",
           NEW m \in JoinMessage, m = a.msg,
           m.requester = x, m.convergenceNo = convergenceNumber - 1, m.leaving = FALSE,
           NEW e, Starts(e, x, a), NEW f, f = handleJoinMessage(e, m), Finish(x, a, f)
    PROVE  Stepped
<1>a. PICK L : L = convergenceNumber - 1
  OBVIOUS
<1>0. /\ IInv /\ JoinsOK(H) /\ Round(x) \in Nat /\ convergenceNumber \in Nat
      /\ Distinct(brokerList) /\ ToSet(brokerList) = RegisteredBrokers
      /\ H[convergenceNumber - 1] = RegisteredBrokers
  BY WorldHolds DEF World, TypeOK, BrokerState, Round, NSTypeOK, JoinsOK, HistoryOK,
                    RegisteredBrokers, ToSet
<1>1. /\ Control = Announced(D, join(x, L, FALSE)) /\ x \in RegisteredBrokers
      /\ Down(H, x, convergenceNumber - 2, {"Sleep"})
      /\ broker[x].initial /\ broker[x].availableBrokers = brokerList
      /\ convergenceNumber > 1
  BY <1>a DEF Joining
<1>2. L \in Nat /\ convergenceNumber - 2 = L - 1 /\ H[L] = RegisteredBrokers
  BY <1>0, <1>1, <1>a
<1>3. /\ broker[x].converged /\ broker[x].awaitingNSMsgs = <<>>
      /\ broker[x].neighboursMap = NoNeighbours /\ broker[x].bufferedSubs = {}
      /\ TypesOf(timers[x]) \subseteq {"Sleep"} /\ Round(x) <= L - 1
      /\ \A k \in Round(x) + 1 .. L - 1 : x \notin H[k]
  BY <1>1, <1>2 DEF Down, DownState, Round
<1>4. e \in Effect /\ e.self = x /\ e.st = broker[x] /\ e.timers = timers[x]
  <2>1. e = Start(x, a)
    BY DEF Starts
  <2> QED
    BY <1>0, <2>1, StartNow
<1>5. f = Restart(e, m)
  BY <1>1, <1>3, <1>4 DEF handleJoinMessage, AcceptsJoin
<1>l. PICK list : list = RestartList(e, m)
  OBVIOUS
<1>6. list = brokerList
  BY <1>1, <1>4, <1>l DEF RestartList
<1>n. PICK n : n = m.convergenceNo
  OBVIOUS
<1>7. n = L /\ Distinct(list) /\ ToSet(list) = H[n]
  BY <1>0, <1>2, <1>6, <1>a, <1>n
<1>8. TimerJoins(e.timers) = {}
  BY <1>3, <1>4 DEF TypesOf, TimerJoins
<1>9. GoesOn(H, x, n)
  <2>1. ~Awake(x)
    BY <1>1, AwakeIs
  <2>2. n \in Nat /\ n > Round(x) /\ x \in H[n]
    BY <1>0, <1>1, <1>2, <1>3, <1>7
  <2> QED
    BY <1>3, <1>7, <2>1, <2>2 DEF GoesOn
<1>10. KeepsOut(x, m)
  <2>C. PICK C : C = Control
    OBVIOUS
  <2>1. C = Announced(D, m) /\ m.type = "Join" /\ ~m.leaving
    <3>1. m = join(x, L, FALSE)
      BY <1>a, JoinIs
    <3> QED
      BY <1>1, <2>C, <3>1
  <2>2. ASSUME NEW c
        PROVE  Undisturbed(C, c) /\ Undisturbed(C \ {To(x, m)}, c)
    BY <2>1, AnnouncedUndisturbed
  <2> QED
    BY <1>1, <2>2, <2>C DEF KeepsOut
<1>11. MapOK(broker[x].neighboursMap)
  BY <1>3, NoMap
<1>12. ~(m.leaving /\ broker[x].availableBrokers = <<>>)
  OBVIOUS
<1> QED
  BY <1>3, <1>5, <1>7, <1>8, <1>9, <1>10, <1>11, <1>12, <1>l, <1>n, JoinAccepted

(* The broker that leaves takes its own leave: it gives up its links and   *)
(* departs.                                                                *)
LEMMA OwnLeaveWorld ==
    ASSUME NEW H, World(H), IInv', NEW x \in Brokers, NEW D \in SUBSET Brokers,
           Leaving(H, x, D), x \in D,
           NEW a \in Arrivals(x), a.from = NULL, a.msg.type = "Join",
           NEW m \in JoinMessage, m = a.msg,
           m.requester = x, m.convergenceNo = convergenceNumber, m.leaving = TRUE,
           NEW e, Starts(e, x, a), NEW f, f = handleJoinMessage(e, m), Finish(x, a, f)
    PROVE  Stepped
<1>a. PICK L : L = convergenceNumber
  OBVIOUS
<1>j. PICK j : j = join(x, L, TRUE)
  OBVIOUS
<1>0. /\ IInv /\ JoinsOK(H) /\ QueueOK(now) /\ broker[x] \in BrokerState
      /\ L \in Nat /\ L - 1 + 1 = L
  <2>1. L \in Nat
    BY WorldHolds, <1>a DEF TypeOK, NSTypeOK
  <2> QED
    BY WorldHolds, <2>1, BackAndForth DEF World, TypeOK
<1>1. /\ Control = Announced(D, j) /\ x \in RegisteredBrokers
      /\ Up(H, x, L - 1, 0)
      /\ broker[x].converged /\ Round(x) = L - 1
  BY <1>a, <1>j DEF Leaving
<1>2. m = j /\ m.convergenceNo = L
  <2>1. m.convergenceNo = L
    BY <1>a
  <2> QED
    BY <2>1, <1>j, JoinIs
<1>3. /\ e \in Effect /\ e.self = x /\ e.st = broker[x] /\ e.timers = timers[x]
      /\ e.direct = <<>> /\ e.out = [d \in Nodes |-> <<>>] /\ ~e.fault
  <2>1. e = Start(x, a) /\ x # NULL
    BY NodesAssumption DEF Starts
  <2>2. LET s == Start(x, a)
        IN  /\ s \in Effect /\ s.self = x /\ s.st = broker[x] /\ s.direct = <<>>
            /\ s.out = [n \in Nodes |-> <<>>] /\ ~s.fault
            /\ s.timers = IF a.from = x THEN timers[x] \ {a.msg} ELSE timers[x]
    <3>1. IInv
      BY <1>0
    <3> QED
      BY <3>1, StartIs, Zenon
  <2> QED
    BY <2>1, <2>2
<1>4. f = Leave(e, m)
  <2>1. AcceptsJoin(e.st, m)
    BY <1>0, <1>1, <1>2, <1>3 DEF AcceptsJoin, Round
  <2> QED
    BY <1>3, <2>1 DEF handleJoinMessage
<1>d. PICK ev : ev = departure(x)
  OBVIOUS
<1>5. Runs(H, x, broker[x], timers[x], L - 1, 0)
  BY <1>1 DEF Up, UpState
<1>6. /\ f \in Effect
      /\ f.st = [[broker[x] EXCEPT !.initial = FALSE] EXCEPT !.neighboursMap = NoNeighbours]
      /\ f.direct = <<>> \o <<ev>>
      /\ f.out = [d \in Nodes |-> <<>>] /\ ~f.fault
  <2>1. MapOK(e.st.neighboursMap)
    BY <1>3, <1>5 DEF Runs
  <2>2. /\ f \in Effect
        /\ f.st = [[e.st EXCEPT !.initial = FALSE] EXCEPT !.neighboursMap = NoNeighbours]
        /\ f.direct = e.direct \o <<To(NS, [type |-> "Disconnection", requester |-> e.self])>>
        /\ f.out = e.out
        /\ (f.fault <=> e.fault \/ wakeUpDelayMsg \in e.timers)
    <3>1. e \in Effect /\ MapOK(e.st.neighboursMap)
      BY <1>3, <2>1
    <3>2. LET g == Leave(e, m)
          IN  /\ g \in Effect /\ g.self = e.self
              /\ g.st = [[e.st EXCEPT !.initial = FALSE] EXCEPT !.neighboursMap = NoNeighbours]
              /\ g.direct = e.direct \o <<To(NS, [type |-> "Disconnection", requester |-> e.self])>>
              /\ g.out = e.out /\ g.timers = e.timers \cup {wakeUpDelayMsg}
              /\ (g.fault <=> e.fault \/ wakeUpDelayMsg \in e.timers)
      BY <3>1, LeaveIs, Zenon
    <3> QED
      BY <1>4, <3>2
  <2>3. To(NS, [type |-> "Disconnection", requester |-> e.self]) = ev
    BY <1>3, <1>d DEF departure
  <2>4. wakeUpDelayMsg \notin timers[x]
    <3>1. TypesOf(timers[x]) \subseteq {"Sleep", "Join"}
      BY <1>5 DEF Runs
    <3> QED
      BY <3>1 DEF TypesOf, wakeUpDelayMsg
  <2> QED
    BY <1>3, <2>2, <2>3, <2>4
<1>7. /\ f.st.initial = FALSE /\ f.st.receivedMWOEs = broker[x].receivedMWOEs
      /\ f.st.currentConvergence = broker[x].currentConvergence
      /\ f.st.availableBrokers = broker[x].availableBrokers
      /\ f.st.members = broker[x].members /\ f.st.neighboursMap = NoNeighbours
      /\ SameConnects(broker[x], f.st)
  BY <1>0, <1>6 DEF BrokerState, SameConnects
<1>8. ~IsWork(a.msg)
  BY DEF IsWork
<1>9. Acts(x, a, f)
  BY <1>6, <1>8, Finished
<1>10. /\ now' = rest(a) \o f.direct /\ rest(a) \in Seq(Event) /\ QueueOK(rest(a))
       /\ ControlOf(rest(a)) = Control \ {To(x, m)}
       /\ broker'[x] = f.st /\ RegisteredBrokers' = RegisteredBrokers
       /\ \A c \in Brokers \ {x} : broker'[c] = broker[c]
  <2>1. /\ now' = rest(a) \o f.direct /\ rest(a) \in Seq(Event) /\ QueueOK(rest(a))
        /\ ControlOf(rest(a)) = Control \ {To(x, a.msg)}
        /\ broker'[x] = f.st /\ RegisteredBrokers' = RegisteredBrokers
        /\ \A c \in Brokers \ {x} : broker'[c] = broker[c]
    <3>1. IInv /\ QueueOK(now) /\ Acts(x, a, f)
      BY <1>0, <1>9
    <3>2. /\ now' = rest(a) \o f.direct
          /\ rest(a) \in Seq(Event) /\ QueueOK(rest(a))
          /\ ControlOf(rest(a)) = Control \ {To(x, a.msg)}
      BY <3>1, StepFacts
    <3>3. /\ broker'[x] = f.st /\ RegisteredBrokers' = RegisteredBrokers
          /\ \A c \in Brokers \ {x} : broker'[c] = broker[c]
      BY <3>1, StepFacts
    <3> QED
      BY <3>2, <3>3
  <2> QED
    BY <2>1
<1>11. /\ ev \in Event /\ ev.msg.type = "Disconnection" /\ ev.msg.requester = x
       /\ ev \notin Control /\ IsControl(ev)
  <2>1. [type |-> "Disconnection", requester |-> x] \in Message
    BY DEF Message, ProtocolMessage, DisconnectionRequestMessage, Nodes
  <2>2. ev \in Event /\ ev.msg.type = "Disconnection" /\ ev.msg.requester = x
    BY <1>d, <2>1 DEF departure, To, Event, Nodes
  <2>3. \A v \in Control : v.msg.type = "Join"
    BY <1>1, <1>j DEF Announced, To, join
  <2> QED
    BY <2>2, <2>3 DEF IsControl
<1>12. Distinct(f.direct) /\ ToSet(f.direct) = {ev}
  BY <1>6, <1>11, NoneTwice
<1>13. ev \in Control' /\ \A v \in Control' : v \in Control \/ v = ev
  <2>1. ev \notin ControlOf(rest(a))
    BY <1>10, <1>11
  <2>2. ControlOf(rest(a) \o f.direct) = ControlOf(rest(a)) \cup {ev}
    BY <1>6, <1>10, <1>11, <2>1, DepartureInQueue
  <2> QED
    BY <1>10, <2>2 DEF Control
<1>14. Turn(x, a, f, {})
  <2>1. \A v \in ToSet(f.direct) : IsControl(v) /\ v \notin Control
    BY <1>11, <1>12
  <2> QED
    BY <1>6, <1>7, <1>8, <1>9, <1>12, <2>1, SilentTurn
<1>15. Turned({})
  <2>1. x \in Nodes
    BY DEF Nodes
  <2> QED
    BY <1>14, <2>1, TurnPlaces
<1>16. ~Awake(x) /\ ~Awake(x)'
  <2>1. To(x, j) \in Control /\ To(x, j).msg = m /\ m.type = "Join"
    BY <1>1, <1>2 DEF Announced, To
  <2>2. ~Undisturbed(Control, x)
    BY <2>1 DEF Undisturbed
  <2>3. ~Undisturbed(Control', x)
    BY <1>11, <1>13 DEF Undisturbed
  <2> QED
    BY <2>2, <2>3, AwakeIs, AwakeNextIs
<1>17. TakingPart' = TakingPart
  <2>1. ASSUME NEW c \in Brokers \ {x}
        PROVE  Awake(c)' <=> Awake(c)
    <3>1. \A v \in Control : v.msg.type = "Join" /\ v.msg.requester = x
      BY <1>1, <1>j DEF Announced, To, join
    <3>2. Undisturbed(Control, c)
      BY <3>1 DEF Undisturbed
    <3>3. Undisturbed(Control', c)
      BY <1>11, <1>13, <3>1 DEF Undisturbed
    <3> QED
      BY <1>10, <3>2, <3>3, AwakeIs, AwakeNextIs
  <2>2. \A c \in Brokers : Awake(c)' <=> Awake(c)
    BY <1>16, <2>1
  <2> QED
    BY <2>2, PartStays
<1>18. /\ Rounds' = Rounds /\ BuildsOver' = BuildsOver /\ KnownMembers' = KnownMembers
       /\ conditionTable' = conditionTable
       /\ Asked' = Asked /\ KeptForLater' = KeptForLater
  BY <1>0, <1>7, <1>9, UntouchedViews
<1>19. LinkedTo' = [LinkedTo EXCEPT ![x] = {}]
  <2>1. LinkedTo' = [LinkedTo EXCEPT ![x] = NeighbourBrokers(f.st.neighboursMap)]
    BY <1>0, <1>9, StateViews
  <2>2. NeighbourBrokers(NoNeighbours) = {}
    BY NoMap
  <2> QED
    BY <1>7, <2>1, <2>2
<1>20. Fits!Rest(x)
  <2>1. \A c \in {x} : ~TakingPart[c]
    BY <1>16, ViewFunctions
  <2>2. Reported' = Reported
    BY <1>15, SameReports
  <2>3. Asks' = Asks /\ UnderWay' = UnderWay /\ ToldToAsk' = ToldToAsk
    BY <1>15 DEF Turned
  <2> QED
    BY <1>17, <1>18, <1>19, <2>1, <2>2, <2>3 DEF Fits!Rest
<1>21. Abstractly
  BY <1>20 DEF Abstractly, Fits!FragmentsNext
<1>22. ~crashed'
  BY <1>6, <1>9, WorldHolds DEF Acts, End
<1> QED
  BY <1>15, <1>18, <1>21, <1>22, SameReports

(* A broker handles a join.                                                *)
LEMMA JoinWorld ==
    ASSUME NEW H, World(H), IInv', NEW b \in Brokers, HandleJoinMessage(b)
    PROVE  Stepped
<1>0. IInv /\ JoinsOK(H)
  BY DEF World
<1>1. CASE now = <<>>
  BY <1>1, DelayedWorld
<1>2. CASE now # <<>>
  <2>a. PICK a \in Arrivals(b) :
             a.msg.type = "Join" /\ Finish(b, a, handleJoinMessage(Start(b, a), a.msg))
    BY DEF HandleJoinMessage, Arriving
  <2>1. a.from = NULL /\ To(b, a.msg) \in Control
    BY <1>0, <1>2, <2>a, ControlArrives
  <2>2. a.msg \in JoinMessage
    <3>1. a.msg \in Message
      BY <1>0, ArrivalCases DEF IInv, TypeOK, Nodes
    <3> QED
      BY <2>a, <3>1, MessageTypes
  <2>3. Belongs(H, b, a.msg)
    BY <1>0, <2>1, PhaseOf DEF JoinsOK
  <2>4. PICK x \in Brokers : \E D \in SUBSET Brokers :
           /\ b \in D
           /\ \/ Joining(H, x, D) /\ a.msg = join(x, convergenceNumber - 1, FALSE)
              \/ Leaving(H, x, D) /\ a.msg = join(x, convergenceNumber, TRUE)
    BY <2>3, <2>a DEF Belongs
  <2>5. PICK D \in SUBSET Brokers :
           /\ b \in D
           /\ \/ Joining(H, x, D) /\ a.msg = join(x, convergenceNumber - 1, FALSE)
              \/ Leaving(H, x, D) /\ a.msg = join(x, convergenceNumber, TRUE)
    BY <2>4
  <2>m. PICK m \in JoinMessage : m = a.msg
    BY <2>2
  <2>e. PICK e : e = Start(b, a)
    OBVIOUS
  <2>f. PICK f : f = handleJoinMessage(e, m)
    OBVIOUS
  <2>6. /\ Starts(e, b, a) /\ Finish(b, a, f) /\ a.msg.type = "Join" /\ a.from = NULL
        /\ b \in D
    BY <2>1, <2>5, <2>a, <2>e, <2>f, <2>m DEF Starts
  <2>7. CASE Joining(H, x, D) /\ a.msg = join(x, convergenceNumber - 1, FALSE)
    <3>1. /\ m.requester = x /\ m.convergenceNo = convergenceNumber - 1 /\ m.leaving = FALSE
      BY <2>7, <2>m DEF join
    <3>2. Joining(H, x, D)
      BY <2>7
    <3>3. CASE b = x
      BY <2>6, <2>f, <2>m, <3>1, <3>2, <3>3, OwnJoinWorld
    <3>4. CASE b # x
      BY <2>6, <2>f, <2>m, <3>1, <3>2, <3>4, JoinTakenWorld
    <3> QED
      BY <3>3, <3>4
  <2>8. CASE Leaving(H, x, D) /\ a.msg = join(x, convergenceNumber, TRUE)
    <3>1. /\ m.requester = x /\ m.convergenceNo = convergenceNumber /\ m.leaving = TRUE
      BY <2>8, <2>m DEF join
    <3>2. Leaving(H, x, D)
      BY <2>8
    <3>3. CASE b = x
      BY <2>6, <2>f, <2>m, <3>1, <3>2, <3>3, OwnLeaveWorld
    <3>4. CASE b # x
      BY <2>6, <2>f, <2>m, <3>1, <3>2, <3>4, LeaveTakenWorld
    <3> QED
      BY <3>3, <3>4
  <2> QED
    BY <2>5, <2>7, <2>8
<1> QED
  BY <1>1, <1>2

(* Every step of the brokers is one of the fragments, or none.             *)
LEMMA NextStepped ==
    ASSUME ~SleepInWindow, NEW H, World(H), IInv', Next
    PROVE  Stepped
<1>1. ASSUME NEW b \in Brokers, WakeUp(b) \/ Sleep(b) \/ Protocol(b)
      PROVE  Stepped
  <2>1. \/ WakeUp(b) \/ Sleep(b) \/ HandleNameServerMessage(b) \/ HandleJoinMessage(b)
        \/ HandleMWOEMessage(b) \/ HandleExpandMessage(b) \/ HandleConnectionMessage(b)
        \/ HandleUpdateMessage(b)
    BY <1>1 DEF Protocol
  <2> QED
    BY <2>1, WakeWorld, SleepWorld, WelcomeWorld, JoinWorld, ReportWorld, ExpandWorld,
       ConnectWorld, UpdateWorld
<1>2. ASSUME NameServerNext
      PROVE  Stepped
  BY <1>2, RegisterWorld, UnregisterWorld DEF NameServerNext
<1> QED
  BY <1>1, <1>2 DEF Next

(* A step of nothing leaves the items as they are.                         *)
LEMMA StutterItems ==
    ASSUME UNCHANGED vars
    PROVE  /\ now' = now /\ chan' = chan /\ broker' = broker /\ conditionTable' = conditionTable
           /\ crashed' = crashed /\ brokerList' = brokerList
           /\ Moving' = Moving /\ ReportItems' = ReportItems /\ OrderItems' = OrderItems
<1>1. /\ now' = now /\ chan' = chan /\ broker' = broker /\ conditionTable' = conditionTable
      /\ crashed' = crashed /\ brokerList' = brokerList
  BY DEF vars, kernel, nameServer
<1>2. Moving' = Moving
  BY <1>1 DEF Moving
<1>3. Collected' = Collected
  BY <1>1 DEF Collected
<1> QED
  BY <1>1, <1>2, <1>3 DEF ReportItems, OrderItems

(* nor does it move them,                                                  *)
LEMMA StutterTurned ==
    ASSUME NEW H, World(H), IInv', UNCHANGED vars
    PROVE  Turned({})
<1>0. ItemsOK /\ ViewsOK
  BY WorldHolds
<1>1. /\ now' = now /\ chan' = chan /\ broker' = broker
      /\ Moving' = Moving /\ ReportItems' = ReportItems /\ OrderItems' = OrderItems
  BY StutterItems
<1>2. Placed'
  <2>1. Neat' /\ AllShaped'
    BY <1>1 DEF World, Placed, Neat, AllShaped
  <2>2. (\A b \in Brokers : Tidy(broker[b].receivedMWOEs))'
    BY <1>1 DEF World, Placed
  <2>3. Unique(ReportItems)' /\ Unique(OrderItems)'
    BY <1>1 DEF World, Placed, Unique
  <2> QED
    BY <2>1, <2>2, <2>3 DEF Placed
<1>3. (ItemsOK /\ ViewsOK)'
  BY <1>2, ViewsFitNext
<1>S. PICK S : S = {}
  OBVIOUS
<1>4. /\ ViewsOK /\ ViewsOK' /\ Moving' = (Moving \ S) \cup S
      /\ \A x \in S \cup S : x.msg.type # "Connect" /\ x.msg.type # "Update"
  BY <1>0, <1>1, <1>3, <1>S
<1>5. Asks' = Asks
  BY <1>4, AsksSame
<1>6. UnderWay' = UnderWay
  BY <1>4, UnderWaySame
<1>7. ToldToAsk' = ToldToAsk
  <2>1. ASSUME NEW c \in Brokers
        PROVE  ToldToAsk'[c] = ToldToAsk[c]
    BY <1>0, <1>1, <1>3, ToldSame
  <2> QED
    BY <1>0, <1>3, <2>1, AllTold
<1> QED
  BY <1>1, <1>2, <1>3, <1>5, <1>6, <1>7 DEF Turned

(* and so it is no step of the fragments either.                           *)
LEMMA StutterStepped ==
    ASSUME NEW H, World(H), IInv', UNCHANGED vars
    PROVE  Stepped
<1>0. /\ broker' = broker /\ conditionTable' = conditionTable /\ now' = now /\ chan' = chan
      /\ brokerList' = brokerList /\ crashed' = crashed
  BY StutterItems
<1>1. /\ Rounds' = Rounds /\ BuildsOver' = BuildsOver /\ KnownMembers' = KnownMembers
      /\ LinkedTo' = LinkedTo /\ Asked' = Asked
  BY <1>0 DEF Rounds, BuildsOver, KnownMembers, LinkedTo, Asked, Round, Available, Members, Linked
<1>2. KeptForLater' = KeptForLater
  BY <1>0 DEF KeptForLater, Asking
<1>3. TakingPart' = TakingPart
  <2>1. RegisteredBrokers' = RegisteredBrokers /\ Control' = Control
    BY <1>0 DEF RegisteredBrokers, Control
  <2>2. \A c \in Brokers : Awake(c)' <=> Awake(c)
    BY <1>0, <2>1, AwakeIs, AwakeNextIs
  <2> QED
    BY <2>2, PartStays
<1>4. Turned({})
  BY StutterTurned
<1>5. Reported' = Reported
  BY <1>4, SameReports
<1>6. Asks' = Asks /\ UnderWay' = UnderWay /\ ToldToAsk' = ToldToAsk
  BY <1>4 DEF Turned
<1>7. Abstractly
  BY <1>0, <1>1, <1>2, <1>3, <1>5, <1>6 DEF Abstractly, Fits!fragments
<1>8. ~crashed'
  BY <1>0 DEF World
<1> QED
  BY <1>0, <1>4, <1>7, <1>8, SameReports

-----------------------------------------------------------------------------
(* All that is known of the brokers holds again after each step.           *)
LEMMA NextWorld ==
    ASSUME ~SleepInWindow, NEW H, World(H), [Next]_vars
    PROVE  Abstractly /\ \E G : World(G)'
<1>1. IInv'
  BY NextIInv DEF World
<1>2. Stepped
  <2>1. CASE Next
    BY <1>1, <2>1, NextStepped
  <2>2. CASE UNCHANGED vars
    BY <1>1, <2>2, StutterStepped
  <2> QED
    BY <2>1, <2>2
<1>3. /\ Abstractly /\ Placed' /\ conditionTable' = conditionTable /\ ~crashed'
  BY <1>2 DEF Stepped
<1>4. Trips'
  <2>1. /\ \A x \in ReportItems' :
              (ReportTrip(x) /\ Reported[origin(x)] # NULL) \/ ReportTrip(x)'
        /\ \A x \in OrderItems' :
              (OrderTrip(x) /\ ToldToAsk[origin(x)] # NULL) \/ OrderTrip(x)'
    BY <1>2 DEF Stepped
  <2> QED
    BY <1>1, <1>3, <2>1, TripsStep
<1>5. Fits!FragmentsInv' /\ Fits!Begun'
  <2>1. Fits!FragmentsInv /\ Fits!Begun
    BY DEF World
  <2>2. Fits!FragmentsNext \/ UNCHANGED Fits!fragments
    BY <1>3 DEF Abstractly
  <2>3. Fits!Begun'
    BY <2>1, <2>2, Fits!BegunStays
  <2>4. CASE Fits!FragmentsNext
    BY <2>1, <2>3, <2>4, Fits!NextInv
  <2>5. CASE UNCHANGED Fits!fragments
    BY <2>1, <2>3, <2>5, Fits!NothingMoves
  <2> QED
    BY <2>2, <2>3, <2>4, <2>5
<1>6. PICK G : JoinsOK(G)'
  <2>1. Frag!FragmentsNext \/ UNCHANGED Frag!fragments
    <3>1. Fits!FragmentsNext => Frag!FragmentsNext
      BY SameActions, Zenon
    <3>2. UNCHANGED Fits!fragments => UNCHANGED Frag!fragments
      BY DEF Fits!fragments, Frag!fragments
    <3> QED
      BY <1>3, <3>1, <3>2 DEF Abstractly
  <2>2. IInv /\ FragmentsHold /\ JoinsOK(H)
    BY WorldHolds DEF World
  <2> QED
    BY <2>1, <2>2, NextJoins
<1>7. World(G)'
  BY <1>1, <1>3, <1>4, <1>5, <1>6 DEF World
<1> QED
  BY <1>3, <1>7

-----------------------------------------------------------------------------
(* The brokers implement Fragments.                                        *)

(* The two instances begin alike.                                          *)
LEMMA SameStart == Fits!FragmentsInit => Frag!FragmentsInit
BY DEF Fits!FragmentsInit, Frag!FragmentsInit

(* In the beginning nothing is on its way, and nobody takes part.          *)
LEMMA InitItems ==
    ASSUME Init
    PROVE  /\ now = <<>> /\ chan = [n \in Nodes |-> [m \in Nodes |-> <<>>]] /\ ~crashed
           /\ broker = [b \in Brokers |-> InitialState] /\ RegisteredBrokers = {}
           /\ IsConditionTable(conditionTable)
           /\ Moving = {} /\ ReportItems = {} /\ OrderItems = {}
<1>1. /\ now = <<>> /\ chan = [n \in Nodes |-> [m \in Nodes |-> <<>>]] /\ crashed = FALSE
      /\ brokerList = <<>> /\ broker = [b \in Brokers |-> InitialState]
      /\ conditionTable \in ConditionTables
  BY DEF Init, KernelInit, NSInit
<1>2. RegisteredBrokers = {}
  BY <1>1, NoElements DEF RegisteredBrokers
<1>3. IsConditionTable(conditionTable)
  BY <1>1, TablesAssumption
<1>4. Moving = {}
  <2>1. DOMAIN now = {}
    BY <1>1
  <2>2. \A s, d \in Nodes : ToSet(chan[s][d]) = {}
    BY <1>1, NoElements
  <2> QED
    BY <2>1, <2>2 DEF Moving, Items
<1>5. Collected = {}
  <2>1. ASSUME NEW b \in Brokers
        PROVE  ToSet(broker[b].receivedMWOEs) = {}
    BY <1>1, NoElements DEF InitialState
  <2> QED
    BY <2>1 DEF Collected
<1> QED
  BY <1>1, <1>2, <1>3, <1>4, <1>5 DEF ReportItems, OrderItems

(* Nothing is out of place,                                                *)
LEMMA InitPlaced ==
    ASSUME Init
    PROVE  Placed /\ Trips /\ ViewsOK
<1>1. /\ now = <<>> /\ chan = [n \in Nodes |-> [m \in Nodes |-> <<>>]]
      /\ broker = [b \in Brokers |-> InitialState]
      /\ Moving = {} /\ ReportItems = {} /\ OrderItems = {}
  BY InitItems
<1>2. Neat
  <2>1. Distinct(<<>>) /\ UpdatesFirst(<<>>)
    BY DEF Distinct, UpdatesFirst
  <2> QED
    BY <1>1, <2>1 DEF Neat, NeatOut
<1>3. \A b \in Brokers : Tidy(broker[b].receivedMWOEs)
  BY <1>1 DEF InitialState, Tidy, Distinct, ReportsNamed
<1>4. AllShaped /\ Unique(ReportItems) /\ Unique(OrderItems)
  BY <1>1 DEF AllShaped, Unique
<1>5. Placed
  BY <1>2, <1>3, <1>4 DEF Placed
<1>6. Trips
  BY <1>1 DEF Trips
<1>7. ViewsOK
  BY <1>5, InitIInv, ViewsFit
<1> QED
  BY <1>5, <1>6, <1>7

(* and the fragments are none,                                             *)
LEMMA InitFragments ==
    ASSUME Init
    PROVE  Fits!FragmentsInit
<1>1. /\ broker = [b \in Brokers |-> InitialState] /\ RegisteredBrokers = {}
      /\ IsConditionTable(conditionTable)
      /\ Moving = {} /\ ReportItems = {} /\ OrderItems = {}
  BY InitItems
<1>2. ViewsOK
  BY InitPlaced
<1>3. ASSUME NEW b \in Brokers
      PROVE  /\ broker[b].currentConvergence = 0 /\ broker[b].availableBrokers = <<>>
             /\ broker[b].members = {} /\ broker[b].neighboursMap = NoNeighbours
             /\ broker[b].sentConnects = {} /\ broker[b].receivedConnects = {}
  BY <1>1 DEF InitialState
<1>4. Rounds = [b \in Brokers |-> 0]
  BY <1>3 DEF Rounds, Round
<1>5. TakingPart = [b \in Brokers |-> FALSE]
  <2>1. ASSUME NEW b \in Brokers
        PROVE  Awake(b) = FALSE
    BY <1>1 DEF Awake
  <2> QED
    BY <2>1 DEF TakingPart
<1>6. BuildsOver = [b \in Brokers |-> {}]
  BY <1>3, NoElements DEF BuildsOver, Available
<1>7. KnownMembers = [b \in Brokers |-> {}]
  BY <1>3 DEF KnownMembers, Members
<1>8. LinkedTo = [b \in Brokers |-> {}]
  BY <1>3, NoMap DEF LinkedTo, Linked
<1>9. Asked = [b \in Brokers |-> {}]
  BY <1>3 DEF Asked
<1>10. KeptForLater = [b \in Brokers |-> {}]
  <2>1. ASSUME NEW b \in Brokers
        PROVE  {Asking(b, con) : con \in broker[b].receivedConnects} = {}
    BY <1>3
  <2> QED
    BY <2>1 DEF KeptForLater
<1>11. Reported = [b \in Brokers |-> NULL]
  <2>1. Reported \in [Brokers -> Brokers \cup {NULL}]
    BY <1>2 DEF ViewsOK
  <2>2. ASSUME NEW c \in Brokers
        PROVE  Reported[c] = NULL
    BY <1>1, <1>2 DEF ViewsOK
  <2> QED
    BY <2>1, <2>2
<1>12. ToldToAsk = [b \in Brokers |-> NULL]
  <2>1. ToldToAsk \in [Brokers -> Brokers \cup {NULL}]
    BY <1>2 DEF ViewsOK
  <2>2. ASSUME NEW c \in Brokers
        PROVE  ToldToAsk[c] = NULL
    BY <1>1, <1>2 DEF ViewsOK
  <2> QED
    BY <2>1, <2>2
<1>13. Asks = {} /\ UnderWay = {}
  BY <1>1, <1>2 DEF ViewsOK
<1> QED
  BY <1>1, <1>4, <1>5, <1>6, <1>7, <1>8, <1>9, <1>10, <1>11, <1>12, <1>13
     DEF Fits!FragmentsInit, IsConditionTable

(* so that the empty history explains it.                                  *)
LEMMA InitWorld ==
    ASSUME Init
    PROVE  Frag!FragmentsInit /\ \E H : World(H)
<1>1. Fits!FragmentsInit
  BY InitFragments
<1>2. Fits!FragmentsInv
  BY <1>1, Fits!InitInv
<1>3. Fits!Begun
  BY <1>1 DEF Fits!FragmentsInit, Fits!Begun
<1>4. PICK H : JoinsOK(H)
  BY InitJoins
<1>5. World(H)
  BY <1>2, <1>3, <1>4, InitIInv, InitItems, InitPlaced DEF World
<1> QED
  BY <1>1, <1>5, SameStart

(* Some history explains it all.                                           *)
Explained == \E H : World(H)

(* At all times                                                            *)
LEMMA ExplainedAlways ==
    ASSUME ~SleepInWindow
    PROVE  Spec => []Explained
<1>1. Init => Explained
  BY InitWorld DEF Explained
<1>2. Explained /\ [Next]_vars => Explained'
  <2> SUFFICES ASSUME Explained, [Next]_vars
               PROVE  Explained'
    OBVIOUS
  <2>1. PICK H : World(H)
    BY DEF Explained
  <2>2. \E G : World(G)'
    BY <2>1, NextWorld
  <2> QED
    BY <2>2 DEF Explained
<1> QED
  BY <1>1, <1>2, PTL DEF Spec

(* Every handler of the brokers is a step of Fragments or none, whatever   *)
(* the order of events and however many brokers register, join, converge   *)
(* and leave: reports that are counted are those of the whole fragment,    *)
(* and a broker links only to one that has asked it and whom it has asked. *)
THEOREM BrokersMergeFragments ==
    ASSUME ~SleepInWindow
    PROVE  Spec => MergesFragments
<1>1. Init => Frag!FragmentsInit
  BY InitWorld
<1>2. Explained /\ [Next]_vars => [Frag!FragmentsNext]_Frag!fragments
  <2> SUFFICES ASSUME Explained, [Next]_vars
               PROVE  Frag!FragmentsNext \/ UNCHANGED Frag!fragments
    OBVIOUS
  <2>1. PICK H : World(H)
    BY DEF Explained
  <2>2. Fits!FragmentsNext \/ UNCHANGED Fits!fragments
    BY <2>1, NextWorld DEF Abstractly
  <2>3. Fits!FragmentsNext => Frag!FragmentsNext
    BY SameActions, Zenon
  <2>4. UNCHANGED Fits!fragments => UNCHANGED Frag!fragments
    BY DEF Fits!fragments, Frag!fragments
  <2> QED
    BY <2>2, <2>3, <2>4
<1> QED
  BY <1>1, <1>2, ExplainedAlways, PTL DEF Spec, MergesFragments, Frag!FragmentsSpec

-----------------------------------------------------------------------------
(* What follows for the tree.                                              *)

(* Fragments are nested, every broker that a fragment waits for is one of  *)
(* its own, and every handshake is between the two that have begun it.     *)
THEOREM FragmentsAreSound ==
    ASSUME ~SleepInWindow
    PROVE  Spec => []FragmentsHold
BY BrokersMergeFragments, BrokersFit, PTL

(* A link that a broker adds is the shortest way out of both fragments, as *)
(* the links make them at that moment.                                     *)
THEOREM ForestIsBuilt ==
    ASSUME ~SleepInWindow
    PROVE  Spec => BuildsForest
BY BrokersMergeFragments, BrokersBuildForest, PTL

(* The links of a convergence never contain a cycle, at any moment of its  *)
(* construction: no publication runs in circles.                           *)
THEOREM NoCycleOfLinks ==
    ASSUME ~SleepInWindow
    PROVE  Spec => []Forest
BY BrokersMergeFragments, BrokersKeepForest, PTL

(* Every link is one of a minimum spanning tree of the brokers that its    *)
(* owner builds over, while brokers come and go.                           *)
THEOREM LinksStayShortest ==
    ASSUME ~SleepInWindow
    PROVE  Spec => []Forests!LinksAreShortest
BY BrokersMergeFragments, BrokersLinkShortest, PTL

-----------------------------------------------------------------------------
(* What follows for the handlers.                                          *)

(* No handler sends over a gate that is NULL or disconnected (a stale      *)
(* leaderHop, an Expand message whose path is gone), reads a data member   *)
(* that has no value yet, schedules a timer that is set, or takes the      *)
(* first broker of an empty list.                                          *)
THEOREM HandlersNeverFail ==
    ASSUME ~SleepInWindow
    PROVE  Spec => []NoRuntimeError
<1>1. Explained => NoRuntimeError
  BY DEF Explained, World, NoRuntimeError
<1> QED
  BY <1>1, ExplainedAlways, PTL

(* The reports that a leader has counted come from different members of    *)
(* its present fragment, so that allMWOEReceived() compares the right      *)
(* numbers: none is left over from a smaller fragment or an earlier        *)
(* convergence, and none is counted twice.                                 *)
THEOREM LeadersCountMembers ==
    ASSUME ~SleepInWindow
    PROVE  Spec => []OneReportPerMember
<1>1. ASSUME NEW H, World(H), NEW b \in Brokers, NEW ms, ms = broker[b].receivedMWOEs,
             NEW i \in DOMAIN ms
      PROVE  /\ Origin(b, ms[i]) \in Members(b)
             /\ \A j \in DOMAIN ms : Origin(b, ms[i]) = Origin(b, ms[j]) => i = j
  <2>1. Tidy(ms) /\ Unique(ReportItems) /\ Fits!Own
    BY <1>1 DEF World, Placed, Fits!FragmentsInv
  <2>2. \A j \in DOMAIN ms : ms[j] \in ToSet(ms)
    BY DEF ToSet
  <2>3. ASSUME NEW j \in DOMAIN ms
        PROVE  /\ it(NS, b, ms[j]) \in ReportItems
               /\ origin(it(NS, b, ms[j])) = Origin(b, ms[j])
               /\ Origin(b, ms[j]) \in Brokers /\ Awake(Origin(b, ms[j]))
               /\ Members(Origin(b, ms[j])) = Members(b)
    <3>1. Destination(b, ms[j]) = Origin(b, ms[j])
      BY DEF Destination, Origin
    <3> QED
      BY <1>1, <2>2, <3>1, CollectedFacts
  <2>4. Origin(b, ms[i]) \in Members(b)
    <3>1. PICK o \in Brokers : o = Origin(b, ms[i]) /\ Awake(o) /\ Members(o) = Members(b)
      BY <2>3
    <3>2. TakingPart[o] /\ KnownMembers[o] = Members(o)
      BY <3>1, ViewFunctions
    <3>3. o \in KnownMembers[o]
      BY <2>1, <3>2 DEF Fits!Own
    <3> QED
      BY <3>1, <3>2, <3>3
  <2>5. ASSUME NEW j \in DOMAIN ms, Origin(b, ms[i]) = Origin(b, ms[j])
        PROVE  i = j
    <3>1. it(NS, b, ms[i]) = it(NS, b, ms[j])
      BY <2>1, <2>3, <2>5 DEF Unique
    <3>2. ms[i] = ms[j]
      BY <3>1 DEF it
    <3> QED
      BY <2>1, <3>2 DEF Tidy, Distinct
  <2> QED
    BY <2>4, <2>5
<1>2. Explained => OneReportPerMember
  BY <1>1 DEF Explained, OneReportPerMember
<1> QED
  BY <1>2, ExplainedAlways, PTL

-----------------------------------------------------------------------------
(* What follows for joins and leaves.                                      *)

(* Some history fits at all times.                                         *)
Ordered == \E H : JoinsOK(H)

(* So it does, and so do the fragments.                                    *)
LEMMA JoinsInvariance ==
    ASSUME ~SleepInWindow
    PROVE  Spec => [](IInv /\ FragmentsHold /\ Ordered)
<1>1. Explained => Ordered
  BY DEF Explained, Ordered, World
<1> QED
  BY <1>1, ExplainedAlways, Invariance, FragmentsAreSound, PTL

(* Brokers in the same convergence build over the same brokers.            *)
THEOREM SameListInSameRound ==
    ASSUME ~SleepInWindow
    PROVE  Spec => []SameRoundSameBrokers
<1>1. IInv /\ FragmentsHold /\ Ordered => SameRoundSameBrokers
  BY SameBrokers DEF Ordered
<1> QED
  BY <1>1, JoinsInvariance, PTL

(* A broker keeps every join that it has been told of and has not begun,   *)
(* in its queue or as the one that waits out its delay, once each and      *)
(* without a gap: however many brokers join and leave while it converges,  *)
(* queueJoin() and the timer of findAndSendMWOE() lose none.               *)
THEOREM EveryJoinIsHeld ==
    ASSUME ~SleepInWindow
    PROVE  Spec => []NoJoinIsLost
<1>1. IInv /\ FragmentsHold /\ Ordered => NoJoinIsLost
  BY NoneLost DEF Ordered
<1> QED
  BY <1>1, JoinsInvariance, PTL

(* A broker that finds itself converged has all the brokers of its         *)
(* convergence as members, and none of them is still in an earlier one.    *)
THEOREM ConvergedIsComplete ==
    ASSUME ~SleepInWindow
    PROVE  Spec => []ConvergedMeansAll
<1>1. IInv /\ FragmentsHold /\ Ordered => ConvergedMeansAll
  BY DoneMeansAll DEF Ordered
<1> QED
  BY <1>1, JoinsInvariance, PTL

(* No broker has two gates to the same neighbour, although links are added *)
(* by requests and by answers and places of removed neighbours are used    *)
(* again.                                                                  *)
THEOREM OneGateIsEnough ==
    ASSUME ~SleepInWindow
    PROVE  Spec => []OneLinkEach
<1>1. IInv /\ FragmentsHold /\ Ordered => OneLinkEach
  BY OneLink DEF Ordered, IInv
<1> QED
  BY <1>1, JoinsInvariance, PTL

(* Whenever no handler is due, of two registered brokers in the same       *)
(* convergence either both have the link to the other or neither: the      *)
(* handshake of Expand and Connect messages never leaves half a link       *)
(* behind, even as others join and leave.                                  *)
THEOREM BothMakeTheLink ==
    ASSUME ~SleepInWindow
    PROVE  Spec => []LinksAreMutual
<1>1. IInv /\ FragmentsHold /\ Ordered => LinksAreMutual
  BY Mutual DEF Ordered
<1> QED
  BY <1>1, JoinsInvariance, PTL

(* The reports that a leader compares all name an edge: findBestMWOE()     *)
(* never chooses among nothing, because only a broker that has not found   *)
(* all its members looks for an edge.                                      *)
THEOREM EveryReportNames ==
    ASSUME ~SleepInWindow
    PROVE  Spec => []NoEmptyReport
<1>1. IInv /\ FragmentsHold /\ Ordered => NoEmptyReport
  BY DEF Ordered, JoinsOK
<1> QED
  BY <1>1, JoinsInvariance, PTL

(* Once a broker is registered the name server's list is never empty       *)
(* again: a broker alone refuses to sleep, and no two may leave at once.   *)
THEOREM NeverEmptyAgain ==
    ASSUME ~SleepInWindow
    PROVE  Spec => OneBrokerStays
<1>1. IInv /\ FragmentsHold /\ Ordered /\ [Next]_vars
        => [Len(brokerList) > 0 => Len(brokerList') > 0]_vars
  BY OneStays DEF Ordered
<1> QED
  BY <1>1, JoinsInvariance, PTL DEF Spec, OneBrokerStays

(* Of the requests that a broker keeps for later, a new one is of a later  *)
(* convergence than all those of the same broker: each is kept once, and   *)
(* the first one found is the oldest.                                      *)
THEOREM ConnectsAreOrdered ==
    ASSUME ~SleepInWindow
    PROVE  Spec => ConnectsInOrder
<1>1. IInv /\ IInv' /\ FragmentsHold /\ [Frag!FragmentsNext]_Frag!fragments
        => [\A b \in Brokers :
              \A new \in broker'[b].receivedConnects \ broker[b].receivedConnects :
                \A old \in broker[b].receivedConnects :
                  old.broker = new.broker => old.convergenceNumber < new.convergenceNumber]_vars
  BY InOrder
<1>2. MergesFragments => [][Frag!FragmentsNext]_Frag!fragments
  BY PTL DEF MergesFragments, Frag!FragmentsSpec
<1> QED
  BY <1>1, <1>2, Invariance, BrokersMergeFragments, FragmentsAreSound, PTL DEF ConnectsInOrder

=============================================================================
