----------------------------- MODULE Simulation -----------------------------
(***************************************************************************)
(* The part of the OMNeT++ kernel the nodes rely on (external to the       *)
(* repository): the future event set, seen as three kinds of event.        *)
(*                                                                         *)
(*   now     events with no delay: sendDirect(), scheduleAt(simTime()).    *)
(*           They have the smallest time stamp and keep their insertion    *)
(*           order, so they run one after the other before anything else.  *)
(*   chan    messages in a delay channel: send() on a connected gate.  All *)
(*           the channels from one node to another have the delay of the   *)
(*           condition table, so these messages arrive in the order sent,  *)
(*           also when the gate has been disconnected meanwhile.           *)
(*   timers  messages a node has scheduled for itself with a delay.        *)
(*                                                                         *)
(* Time itself is not modelled: an event of the last two kinds may occur   *)
(* whenever no event of the first kind is due.  Sending over a gate that   *)
(* is NULL or not connected, or scheduling a message that is scheduled     *)
(* already, is a runtime error, which ends the simulation (crashed).       *)
(*                                                                         *)
(* A handler is a function on effects: it maps what has happened so far in *)
(* the event (the node's state, the messages sent, the timers set) to what *)
(* has happened after it, so that handlers compose as the calls do.        *)
(***************************************************************************)
EXTENDS Messages

VARIABLES
    now,        \* sequence of [to, msg]
    chan,       \* chan[n][m]: messages on their way from n to m
    timers,     \* timers[n]: the self-messages node n has scheduled
    crashed     \* has a runtime error ended the simulation?

kernel == <<now, chan, timers, crashed>>

Event == [to : Nodes, msg : Message]

KernelTypeOK ==
    /\ now \in Seq(Event)
    /\ chan \in [Nodes -> [Nodes -> Seq(Message)]]
    /\ timers \in [Nodes -> SUBSET Message]
    /\ crashed \in BOOLEAN

KernelInit ==
    /\ now = <<>>
    /\ chan = [n \in Nodes |-> [m \in Nodes |-> <<>>]]
    /\ timers = [n \in Nodes |-> IF n = NS THEN {} ELSE {wakeUpDelayMsg}]
    /\ crashed = FALSE

-----------------------------------------------------------------------------
(* What may happen to node n next: `from' says where the message comes     *)
(* from: NULL for an event with no delay, n itself for a timer, the sender *)
(* for a channel.                                                          *)
Arrivals(n) ==
    IF crashed THEN {}
    ELSE IF now # <<>>
         THEN {[from |-> NULL, msg |-> ev.msg] : ev \in {x \in {Head(now)} : x.to = n}}
         ELSE {[from |-> n, msg |-> m] : m \in timers[n]}
                \cup {[from |-> s, msg |-> Head(chan[s][n])] :
                        s \in {x \in Nodes \ {n} : chan[x][n] # <<>>}}

(* The effect with which the handling of arrival a at node n begins.       *)
Begin(n, a, state) ==
    [self |-> n, st |-> state, direct |-> <<>>, out |-> [m \in Nodes |-> <<>>],
     timers |-> IF a.from = n THEN timers[n] \ {a.msg} ELSE timers[n],
     fault |-> FALSE]

Fault(e) == [e EXCEPT !.fault = TRUE]

(* sendDirect(m, n) and scheduleAt(simTime(), m) *)
SendDirect(e, n, m) == [e EXCEPT !.direct = Append(@, [to |-> n, msg |-> m])]
ScheduleNow(e, m) == SendDirect(e, e.self, m)

(* cancelEvent(m) for each of a set of self-messages *)
Cancel(e, ms) == [e EXCEPT !.timers = @ \ ms]

(* scheduleAt(simTime() + delay, m) *)
Schedule(e, m) ==
    [e EXCEPT !.timers = @ \cup {m}, !.fault = @ \/ m \in e.timers]

(* send(m, gate) once for each of count(n) gates connected to each node n. *)
SendCopies(e, count, m) ==
    [e EXCEPT !.out = [n \in Nodes |-> @[n] \o [i \in 1 .. count[n] |-> m]]]

(* send(m, gate) on one gate that is connected to node n.                  *)
SendTo(e, n, m) == [e EXCEPT !.out[n] = Append(@, m)]

(* The handling of arrival a at node n has ended with effect e.            *)
End(n, a, e) ==
    /\ now' = (IF a.from = NULL THEN Tail(now) ELSE now) \o e.direct
    /\ chan' = [s \in Nodes |-> [d \in Nodes |->
                  IF s = n THEN chan[s][d] \o e.out[d]
                  ELSE IF s = a.from /\ d = n THEN Tail(chan[s][d])
                  ELSE chan[s][d]]]
    /\ timers' = [timers EXCEPT ![n] = e.timers]
    /\ crashed' = e.fault

(* The arrivals at n of one type of message.                               *)
Arriving(n, type) == {a \in Arrivals(n) : a.msg.type = type}

(* Nothing is on its way and no delayed join waits: only the timers of     *)
(* what nodes do by themselves may be set.                                 *)
Quiet ==
    /\ now = <<>>
    /\ \A s, d \in Nodes : chan[s][d] = <<>>
    /\ \A n \in Nodes : \A m \in timers[n] : m.type # "Join"
=============================================================================
