# st-project-ds in TLA+

`st-project-ds` is an OMNeT++ simulation of a content-free publish/subscribe
overlay: clients attach to the nearest broker, brokers pass subscriptions and
publications on to each other, and a name server knows which brokers are awake.
Brokers and clients fall asleep and wake up again all the time. Whenever a
broker comes or goes, all brokers drop their links and build a new minimum
spanning tree of link delays, in the way of Boruvka and of Gallager, Humblet and
Spira.

The source has no documentation beside its comments and no tests. All paths
below are relative to `src/STProject`.

## Inventory

| part | source | state | operations | interacts by |
|---|---|---|---|---|
| Spanning tree broker | `Nodes/Brokers/OptimalBroker` | `converged`, `initial`, `currentConvergence`, `componentId`, `leaderHop`, `members`, `availableBrokers`, `sentConnects`, `receivedConnects`, `receivedMWOEs`, `awaitingNSMsgs`, `bufferedSubs` | `wakeUp`, `sleep`, one handler per message type | direct messages (Join, Connect, name server) that take no time; messages over links (MWOE, Expand, Update, Subscription, Disconnection) that take the delay of the link; self-messages, immediate or delayed |
| Name server | `Nodes/NameServer` | `brokerList`, `convergenceNumber` | register, unregister, answer a client | direct messages |
| Neighbours map | `Nodes/Brokers/NeighboursMap` | the vector of entries (node, gate, topics) with holes | add, remove, look up, subscribe, unsubscribe | called by its broker |
| Publish/subscribe layer | `Nodes/Brokers/AcyclicBroker` | neighbours map, subscription monitor | subscription, unsubscription, publication, connection, disconnection | messages over links |
| Base broker | `Nodes/Brokers/Broker` | gates | connect and disconnect a node; its other handlers are overridden, or no broker of the network dispatches to them | gates of other modules, read directly |
| Client | `Nodes/Clients/Client` | subscriptions, one vector clock per topic, postponed messages, five timers, one output gate | wake up, go to sleep, reconnect, subscribe, unsubscribe, publish, receive | name server (direct), its broker (link) |
| Vector clocks | `Nodes/Clients/vectorClocks`, `Messages/PublishMessage` | list of (node, value) | search, update (merge), clone | called by the client; copied into messages |
| Subscription monitor | `Nodes/SubscriptionMonitor` | one flag per topic | set, reset, pick a topic at random | called by its owner |
| Condition table | `Utilities/NetworkConditionTable` | delays between all pairs of nodes | draw the delays, look one up | `STNode::ping` |
| Containers | `Utilities/*` | linked list (nodes, `start`, `end`, `size`), multimap (an array that grows and shrinks); queue and stack over the list | add, remove, find, clear | called by their owners, which also loop over a map while removing from it |
| Node base class, messages | `Nodes/_STNode`, `Messages` | two timers; plain data | - | - |
| Kernel | OMNeT++ (external) | future event set, gates, channels | - | - |
| Topology | `mainTopology.ned`, `omnetpp.ini` | parameters | - | - |

What is hard in it:

* **Interleaving.** Joins and connection requests go by `sendDirect` and take no
  time, reports and updates travel over links; so brokers restart in the middle of
  what others still do for the previous tree, and messages of the old tree arrive
  in the new one. Only Join and Connect messages carry a convergence number.
* **Decentralised agreement.** Every broker keeps its own list of available brokers,
  its own member list and computes its leader and its convergence by itself.
* **Sleep and wake-up at any time**, also while others do.
* **Pointers and gates that go stale**: `leaderHop`, the path recorded in a
  message, the gate of a node that has been disconnected.
* **Uninitialised members**: the constructor sets two of them.
* **Containers with several copies of a fact**: `end` and `size` beside the chain of
  nodes, `length` and `physicalLength` beside the array, a key stored twice.
* **Cached state on both sides of a link.** A broker keeps subscriptions of
  neighbours it may no longer have, a client keeps clocks of clients it may no
  longer hear; requests to disconnect, subscriptions and publications cross.

What makes it correct: of the tree, the links form a tree over the available brokers, of minimum
weight, whenever nothing is on its way; they never contain a cycle at any moment;
both ends agree on a link; every broker converges; no change of the set of brokers
is lost; no handler uses a pointer it does not have; the name server never runs
out of brokers. Of the publish/subscribe layer: whenever nothing is on its way,
every broker knows the way to every subscriber, and keeps no way to nobody; a
client is never left without a broker for good; clients see publications in
causal order; a client's clock never claims more than others have published;
releasing postponed publications comes to an end. Of the utilities: whatever calls
are made, a list or a map does what a plain list of items would do, and the
table of delays is symmetric without equal delays. `PROJECT.json` lists the hazards with their lines and the
properties that cover them.

## Modules

```
Pointers            the NULL pointer
  Messages          nodes, messages, the piggyback stack, what delays look like
    Simulation      the kernel: due events, channels, timers; effects of a handler
      NameServer    brokerList, convergenceNumber
      Client        a client, its vector clocks and causal delivery
        CausalDelivery       clients over a network without order; MCCausalDelivery
          CausalDelivery_proofs  theorems
    NeighboursMap   operators on the vector of neighbours
      AcyclicBroker routing              (EXTENDS Simulation, NeighboursMap)
        OptimalBroker brokers and name server (EXTENDS AcyclicBroker, NameServer)
          BrokerFragments      brokers and messages read as Fragments
            MCOptimalBroker      instances for TLC
            OptimalBroker_proofs types, leaders; the handlers; joins and leaves
              BrokerFragments_proofs OptimalBroker implements Fragments, and what follows
          Overlay   the whole network    (EXTENDS OptimalBroker, Client)
            MCOverlay          instances for TLC
    NetworkConditionTable      how delays are drawn     (EXTENDS Map too)
  LinkedList, Map   operators on the data members of the two containers
    Containers      a list and a map under any calls, and the loops over a map
      Utilities_proofs         theorems about Containers and NetworkConditionTable
      MCUtilities              both for TLC

abstract specifications        implemented by
  SpanningForest               Fragments and OptimalBroker (BuildsForest);
                               SpanningForest_proofs
  Fragments                    OptimalBroker (MergesFragments in BrokerFragments);
                               Fragments_proofs
  CausalBroadcast              Overlay (ServesBroadcast), CausalDelivery
                               (DeliversBroadcast); CausalBroadcast_proofs
  ItemList                     Containers (ListKeepsItems, MapKeepsItems)

Folding              induction and folds, for the proofs that need them
```

**Simulation** is the assumption about OMNeT++ everything rests on. `now` is the
sequence of events that are due without delay, run in the order they were made:
`sendDirect` and `scheduleAt(simTime())`. `chan[n][m]` is the messages on their
way from `n` to `m`: all links from `n` to `m`, of whatever convergence, have the
delay of the condition table, so they arrive in the order sent, and those sent
before a `disconnect()` still arrive. `timers[n]` is what `n` has scheduled for
later. An event of `chan` or `timers` may occur whenever `now` is empty: time is
not modelled, so the model allows more orders than the delays do. The one place
where that is too much is explained below (`SleepInWindow`).

**Handlers are functions on effects.** OMNeT++ runs one handler at a time, to its
end, so a handler is one atomic step. Since handlers call each other
(`handleUpdateMessage` calls `findAndSendMWOE`, which calls `handleSubscription`
...), each is an operator from effect to effect: the node's state so far, the
messages sent so far, its timers, and whether it has failed. The actions
`WakeUp(b)`, `Sleep(b)`, `HandleJoinMessage(b)` ... take an arrival, apply the
handler to the effect it begins with and install what comes out (`Finish`).
Names are those of the source.

**Failure.** Sending over a NULL or disconnected gate, scheduling a message that is
scheduled already, dereferencing the head of an empty list and reading a member
that was never set all become `fault`, after which `crashed` holds and nothing
happens any more. `NoRuntimeError` says that none is ever reached.

**Clients and brokers together.** `Overlay` adds the publish/subscribe messages and
the clients to the actions of `OptimalBroker`, whose steps leave the clients
alone. A client's handlers are functions on effects as well. Its `Subscription`
and `Connection` messages go over the same channel as its publications; what a
broker has sent to a client arrives even if the client has disconnected.

**Abstract specifications.** They state promises and translate no code, so `map` names
no lines for them; the refinement runs tie them to the modules that do. `SpanningForest` says what building a tree means with
no messages in it: brokers go through rounds, and the first end of a link is added
only if the link is the shortest way out of the fragments at both of its ends, as
they are in that very step; the second end may follow at any time.
The refinement mapping takes the convergence a broker is in for its round and the
brokers in its neighbours map for its links. The code decides on a link from
reports that have travelled up the fragment and an Expand message that has
travelled down it, while other fragments merge; that what it adds is still the
shortest way out when it is added is the point of the refinement.
`Fragments` lies between the two. It keeps what the brokers know: which members, which
edge each has reported, who has been told to ask, which requests (Connect messages) and
updates are under way; it leaves out how messages travel, leaders, and the way to
them. The mapping (`BrokerFragments`) finds the report a broker has made wherever it is: due, on
its way over any number of hops, or collected by some leader; and in the same way
the order to expand. A broker takes part (`Awake`) from its own join until the order to leave,
its own or the name server's, is handled.
`CausalBroadcast` has only what each client has seen: a client may be handed a
publication when it has been handed all that its sender had seen before. `Overlay`
implements it by channels that keep the order and a tree, over all topics
together; `CausalDelivery` by the clocks alone, topic by topic.
`ItemList` is a list of items with keys, and a record of the last call and its result,
so that a call can only be explained by the method of its own name.

**Containers.** `LinkedList` keeps the nodes that have been allocated and not deleted
as a heap, and gives deleted memory out again; `Map` keeps the array with its
slots, `length` and `physicalLength`. `Containers` lets any caller call any method, and adds the
two loops in which `OptimalBroker` uses the map of received Connects:
removing all that are below a number (`initiateProtocol`) and looking for the one of a
convergence (`getReceivedConnectsForCurrentConvergence`). The first one calls
`removeMapping(index)`, which removes the first mapping with the same key; it works because
the mappings of a key are in the order of their numbers (`InOrder`), and
`ConnectsInOrder` shows for `OptimalBroker` that they are. So the set that stands
for the multimap in `OptimalBroker` is justified.
`NetworkConditionTable` draws the table row by row over `Map`; `TableIsSound` is what the other
modules assume of delays (`IsConditionTable`, `IsPing`), and `TableIsDrawn` proves it for any number of nodes.

What the model identifies or leaves out:

* a gate is the node it leads to, and gates do not run out (`getFreeOutputGate`
  never returns NULL; see `OneLinkEach` below); so `leaderHop` is a node, and a send over it succeeds iff
  that node is in the neighbours map, since every handler that disconnects a gate
  removes the entry and never leaves an older gate to the same node behind;
* `members` and `sentConnects` are sets, as they are filled without duplicates and
  only searched and counted; `receivedConnects`, a multimap, is a set of
  messages (see Containers above);
* the first minimum in a list is any minimum, because all delays differ;
* several Subscription messages that a node sends in one handler travel together
  and are one message with a set of topics; the free places a `NeighbourEntry`
  keeps for removed topics are one mark, since only whether there are any can be
  seen (`getSubscriptions` then lists topic 0);
* `seen` of a client is a history variable: the publications it has made and those
  `exportMessage` has handed up. The code only logs the latter;
* `checkPostponed` and `releaseMessages` are folds over the postponed messages, with
  as many rounds as can make a difference; a message left after them is one
  `releaseMessages` would loop on for ever, which is made a fault;
* `UpdateMessage.componentId` is written and never read; ids are natural numbers.

## Runs

| run | instance | question | time |
|---|---|---|---|
| `spanning_tree_four` | 4 brokers, 4 orders of delays, 4 to 5 changes | safety of the protocol with overlapping convergences, refinement of `Fragments` | 60 s |
| `spanning_tree_three` | 3 brokers, all 6 orders of delays, 5 changes, weak fairness | refinement of `SpanningForest`, the final state, that the last broker stays, liveness | 105 s |
| `sleep_in_window` | 3 brokers, 6 changes, `SleepInWindow` | a violation, see Findings | 2 s |
| `routes` | line of 3 brokers, 2 clients, 1 topic; attach, subscribe, unsubscribe, sleep | are routes complete, is none left over, has a client one entry | 75 s |
| `idle_route` | the same | a violation, see Findings | 3 s |
| `group` | line of 3 brokers, 3 subscribed clients, 2 topics, 3 publications | refinement of `CausalBroadcast` over the tree, and delivery | 10 s |
| `members` | line of 3 brokers, 2 clients that subscribe, unsubscribe, publish | clocks that are dropped and relearned; does a broker withdraw what only one neighbour wants | 35 s |
| `rebuild` | 2 brokers and 1 client from scratch, 4 changes | timers, gates and routes while the tree is rebuilt | 15 s |
| `publish_rebuild` | 2 brokers and 2 clients from scratch, 3 changes, 4 publications | postponing and releasing while the tree is rebuilt | 50 s |
| `reattaches` | 2 brokers, 1 client, 3 changes, weak fairness | liveness of clients | 20 s |
| `causal_delivery` | 3 clients, 4 publications in any order | refinement of `CausalBroadcast` by the clocks alone | 25 s |
| `utilities` | a list and a map of up to 5 items, 2 keys, 2 values; a table for 3 brokers and a client, 7 delays | soundness of the containers, refinement of `ItemList`, the table | 105 s |

Bounds. `MaxConvergence` bounds the number the name server has reached when a broker
may still wake up or announce a leave; everything the brokers do by themselves is
unbounded. With four brokers the first four changes are the wake-ups, the fifth is a
leave, or the return of one that left earlier: fragments of two members merge with each other, Expand messages
travel over two hops, and convergences overlap, since a broker may wake up at
any moment of another one's convergence. With three brokers there is room for
a leave and a return, or two leaves, after the three wake-ups. The delays enter only by their order:
three brokers have 6 orders, all taken; four brokers have 720, of which the
four shapes that differ in how fragments meet are taken (a line whose
cheapest link is in the middle or at an end, a star, two pairs). The ids are not
symmetric (the least is the leader), so no symmetry is used.
The model stops at the bound; `CHECK_DEADLOCK FALSE` says so, and
`QuietMeansSettled` describes the states in which it may stop.

Runs with clients bound which client timers may go off (`ClientTimers`), how many
messages may be under way when one does (`MaxInFlight`) and how many publications
there are (`MaxPublications`). A client's timers run for two seconds and more and
a link takes at most one, so one or two messages under way is what the
periods allow each client; `group` allows all. The line 1 - 2 - 3 has a
broker in the middle with neighbours on both sides and a client of its own,
which is where all cases of `handleUnsubscription` differ. `routes`, `group` and
`members` begin in the state the brokers of the line reach when they wake up one
after the other (`LineIsBuilt`, taken from a behaviour of `OptimalBroker`), with
`MaxConvergence` reached so that they stay; clients are asleep or subscribed.
A map of 5 items grows from 4 to 8 slots and shrinks down to 1 and grows again; two keys
with several mappings each and two values tell every order apart. Lists, maps and the
table share nothing, so `MCUtilities` takes them one at a time. Of the 7 delays zero
is refused, and the six links of 3 brokers and a client take the others in every order.
Two brokers and one client reach every combination of a client's timers
with a restart and a leave; two clients are needed for a publication to be missed
and its successor postponed.

`TypeOK` types everything. `Forest`, `LinksAreMutual`, `OneLinkEach` are about
links, `MembersAreLinked`, `AgreeOnLeader`, `OneReportPerMember`, `NoHopCycle`,
`NoEmptyReport` about what brokers know of their fragment, `SameRoundSameBrokers`,
`NoJoinIsLost`, `ConvergedMeansAll` about agreement between brokers,
`ConnectsInOrder` and `OneBrokerStays` about steps, `Converges` about progress.
`RoutesComplete` and `RoutesAreUsed` relate the clients' subscriptions to the entries
of all brokers, `NoIdleRoute` the entries of two neighbours. `ServesBroadcast`,
`InSenderOrder`, `Delivered`, `DeliversBroadcast` and `AllSeen` are stated on what
clients have seen, not on the clocks the code uses; `ClocksAreSound` relates the
clocks of different clients. On a tree of channels that keep the order, causal
order would hold without the clocks (`group`); `causal_delivery` takes the order
away and shows that the clocks restore it for clients that know each other.

`OneLinkEach` and `OneEntryPerClient` are what stands for gates. `connect` and
`handleConnectionRequest` take a free gate without looking whether there is one. A
broker never has two entries for the same broker, so that one gate in each
direction per other broker is enough; and while the tree stays, a client has one entry at
one broker. While brokers restart, an entry of a client may be left behind until the
next convergence and another be made beside it; that is not claimed.
`RoutesAreUsed` is not claimed while brokers restart, where a subscription of a
client that has just been dropped is passed on but not stored.
Each has a mutant of a handler, in the module itself, that TLC must catch.

Fairness (`Fairness`): as long as some message, due event or delayed join
remains, one of them is eventually handled. The kernel executes every event it
holds, so this is justified, and it is weak: it does not say which one, and
nothing is assumed of wake-ups and sleeps. `Converges` follows even so.

`OverlayFairness` does the same for the whole network and adds that a client's
wake-up timer goes off, as the kernel makes it; nothing is assumed of the timers of
attached clients or of brokers.

Two assumptions stand for time. A client wakes up only when its own publications
have arrived (`ClientWakeUp`); with several slow links in a row, or a very
short sleep, they could reach it through its new broker, and `releaseMessages`
would not end. The other is `SleepInWindow`. When a broker converges and another join waits in its queue, it
schedules that join for 1 s per broker later and is meanwhile `converged`: a
`sleep()` in that window announces a leave under the number of the join that
waits. Sleep timers run for 120 to 240 s, so this needs a coincidence which
the code does not exclude. With `SleepInWindow = FALSE` the model excludes it,
and everything else is allowed to interleave; the one run with
`SleepInWindow = TRUE` shows what follows from it.

## Findings

`sleep_in_window`: `NameServer.h:26-28` promises that once brokers have registered,
the list never becomes empty. TLC finds a run of three brokers in which one falls
asleep in the window above. The two changes then have the same number, brokers
take them in different orders, lists of available brokers keep names of
brokers that have unregistered, and the last registered broker, whose
neighbour has already gone, counts it as a neighbour and leaves too.

`idle_route`: `AcyclicBroker.cc:65` says the handler decides whether to unsubscribe
when no client is subscribed to a topic. `handleDisconnectionRequest` does so only
when no subscriber at all is left; the case of one neighbouring broker left, which
`handleUnsubscription` treats (line 124), is missing. A broker then keeps receiving
publications nobody on its side wants. `members` shows the property to hold for
clients that unsubscribe and stay.

## Proofs

`OptimalBroker_proofs` proves with TLAPS, for every set of brokers and clients,
every table of delays and any number of changes (`MaxConvergence` and
`SleepInWindow` are arbitrary):

* `TypeCorrect`: `Spec => []TypeOK`;
* `LeadersAgree`: `Spec => []AgreeOnLeader`.

The assumptions are the named ones of the modules: broker ids are natural
numbers and finitely many, the kinds of nodes are disjoint, tables are symmetric with distinct
delays. Every handler has a lemma for the type of its effect
and one that it preserves `Good`, the part of the invariant about the state it
returns and the messages it sends. `AgreeOnLeader` is not inductive: a
broker takes members from Connect and Update messages and computes its leader as
the minimum of the present leader and the new members. The invariant `IInv` adds
to `TypeOK` that every broker that has begun a convergence has the least of
its members as leader, and is one of them itself, and that every Connect and Update
message, on its way or stored, carries a set with its sender in it. So brokers
with the same members compute the same minimum. The first part of the module has the
facts on the neighbours vector that the type lemmas cite.

The abstract specifications have proofs of their own, for every value of their constants. What
they say holds for the code as far as it implements them, which is proved of brokers for `Fragments` and
`SpanningForest` and of clients for `CausalBroadcast` (`CausalDelivery`), and checked by a run for `Overlay`.

* `OnlyShortestLinks` (`SpanningForest_proofs`): `ForestSpec => []LinksAreShortest`.
  Every link is a shortest one over some cut of the brokers its owner builds
  over, which is what makes a tree of them minimal. When the first end is added, the
  cut is the fragment; the second end inherits the cut of the first, turned round,
  since both build over the same brokers; and a broker changes its set of brokers only
  when it has no links.
* `LinksFormAForest`: `ForestSpec => []NoCycle`. Every link is the only one between two
  sets of brokers. A new one joins two different fragments, so the fragment is such a
  set, and the sets of the older links are extended to the side the new link
  does not separate.
* `BroadcastIsCausal` (`CausalBroadcast_proofs`):
  `BroadcastSpec => [](SeenOnce /\ CausalOrder)`. Lists only grow at their end, so what
  a publication follows at its sender never changes once it is made; being handed one
  requires all of it to be there already.

`Utilities_proofs` is about the whole of `Containers`, for any keys and values, any size and any number of
calls (`ContainersAssumption`: what is compared in the loops is a number, and NULL is no key, number or address):

* `ArrayHasRoom`: `ContainersSpec => []MapIsSound`. The invariant `IsMap` adds to it that the record
  has the three members it should and that `physicalLength` is a number. The one step that
  needs thought is a removal: it halves the array only when `length` is exactly half,
  and then the one mapping that goes makes the rest fit.
* `MethodsKeepItems`: `ContainersSpec => MapKeepsItems`, the refinement of `ItemList`. Taking a slot out
  of the array takes the item after it out of the list (`WithoutKeeps`), and the
  first slot of a key, which exists because the numbers are well-founded (`LeastIs`),
  is its first item (`FirstPlace`). The loop that removes mappings while it counts through them: after n
  rounds the first n mappings have been seen, those of them that stay are in front in their old
  order, and the rest has only moved up (`Seen`). The mapping a round removes is the first of its key, although the method
  is given the key and not the slot, because those of the key before it would be older still and are gone
  already (`OldestOfKey`); this needs `InOrder`. The search passes every mapping of the key before it gives up (`SearchedTo`).
* `NodesFormAChain`: `ContainersSpec => []ListIsSound`. The invariant `IsList` says that there is a
  way p through the nodes (`IsChain`): from `start`, along `next`, to `end`, meeting each node once. `PathIs` shows that it is the one the
  loops of the code take (`Path`), `FreshIs` that `new` gives an address that is not in use. The methods put a node in front of the way or
  behind it (`FrontKeeps`, `BackKeeps`) or take one out of it (`WithoutIsChain`); `removeAll` is
  a fold, which leaves nothing because every round takes a node away (`RemoveAllKeeps`).
* `NodesKeepItems`: `ContainersSpec => ListKeepsItems`: a node put in or taken out is the item in
  the same place (`ItemsAre`, `WithoutIsExcept`).

and about the table of delays, for any finite sets of clients and brokers and whatever is drawn:

* `TableIsDrawn`: `TableSpec => []TableIsSound`, which is what `TablesAssumption` and `PingAssumption` ask of
  delays, read through `getDelay`. The invariant `TableInv` says how far the three loops are: after p rows (`DrawnTo`), which
  nodes are registered (`TableAt`; a node that is registered a second time is still found by its first mapping),
  which rows hold what (`ClientRows`, `CopiedRows`, `CompleteRows`), and that the delays between brokers drawn so far are
  all different (`NoneTwice`). A row is filled with a fold of `setMapping`, of which only the first mapping of a
  node can be read (`SetGives`, `FilledIs`): the second turn over a broker's row works because the
  first has put clients in and the second puts in brokers only, and a copy is right because the
  row it is taken from has been filled already.

`Fragments_proofs` proves `FragmentsFit`: `FragmentsSpec => []FragmentsInv`, for every set of
brokers, all delays and whatever order requests and updates are handled in. The parts of the invariant are

* `Own`, `Nested`: a broker knows itself; of two brokers of a round whose fragments
  overlap one knows all that the other knows; what is known of a broker it has started
  itself or will start (`Knows` says what a broker that lags behind, or has gone on, knows of the round).
* `Waits`: as soon as some broker knows of a larger fragment (`Surpassed`), all members of the
  smaller one know at least that one. So the levels of merging do not get mixed up.
* `EdgeOK`, `ChosenOK`: a report or an order that is outstanding is not out of date.
  When all members of a fragment know it (`Full`) and have reported, no broker outside can know of
  more; so the least of the reports is `Shortest`.
* `PendingOK`, `SentOK`, `ReceivedOK`: a broker that has asked and is not linked yet (`Pending`) is
  the only one of its fragment, nobody reports meanwhile, and its request is under way, kept by the other
  side, or has been answered by one that has linked already (`Half`).
* `UpdatesOK`, `LinksOK`: each link is the only one between two sets (`OnlyOut`), and between its
  ends there is an update whenever the one end knows more. So an update brings
  exactly what the sender knows, and never comes back to where it was.

There is one lemma per action, and one more for each of the parts that follow. `ForestInv` adds three
of them, which are about links and give the refinement of `SpanningForest`:

* `Connected`: the links of a broker whose members are all still in its round lead to all of them.
* `LinksForward`: a link leads to a broker that is in the same round or has gone on, and one that has
  gone to sleep since is known to have been one to build over.
* `Bridges`: every link is the only one of its round between two sets of brokers. `NoCycle` of
  `SpanningForest` says so of the links whose ends are both in the round still; this one counts
  the others too, as `Forest` does.

`LinksSpan` is `FragmentsSpec => []ForestInv`. From it follows `FragmentsBuildForest`: `FragmentsSpec => BuildsForest`.
A fragment that all its members know, and nobody knows more of, is the one the links make (`FragmentIs`): no
link leads out of it, since its other end would know more, and links lead to all of it. At the first end of a
link both fragments are of that kind, and `ChosenOK` and `PendingOK` say that the link is the shortest way out
of either; the second end finds the first half there.

Linking is two of them: the first end merges two fragments
that are both `Full` and knows what nobody else does; the second end finds the first linked
and its own fragment as it was. 
Theorems about `Fragments` hold of brokers that implement it. `OptimalBroker_proofs` has the lemmas that take them over,
with `MergesFragments` as hypothesis; the one that needs work is `BrokersKeepForest`, from bridges to
the count of links in `Forest`, by induction over the number of brokers: a set of
them is cut in two at one of its links (`LinksAreFew`).

### Joining and leaving

`OptimalBroker_proofs` goes on with what each handler does
(`SearchIs`, `CountIs`, `ConnectIs`, ... : what is sent, what is scheduled and what changes), and with
brokers that register, join and leave while others converge. Its invariant is `JoinsOK(H)` for some history
`H`, where `H[n]` is the set of brokers that are registered after change n:

* `Phase`: there is one change under way at a time, and where it is: nothing (`Calm`), a broker asks the name
  server (`Requesting`), is answered (`Answering`), its join is due at the brokers of a set `D` (`Joining`), or a
  leave is (`Leaving`). Another one cannot begin before that is over, since all of it happens without delay (`QueueOK`: joins
  come before what else is due, none twice).
* `Up`: a registered broker builds over `H[n]` for the number n of its convergence, and the joins it has scheduled or
  queued are the changes after n without a gap; `Down`: one that sleeps has nothing left.
* `RoundsOK`: no broker is past a convergence before all brokers of it have begun it.
* `ChannelsOK`: what travels over links, and that reports on it name an edge.

A leave is the delicate change: a broker may only announce it if it has
converged in the last convergence (`SleeperFacts`), since all others would take the number it uses for another change
otherwise; that is where `~SleepInWindow` is used, and the run `sleep_in_window` shows that the theorems do not hold
without. When it has left, its members are all in its convergence and done with its links (`LeaverFacts`).

### The brokers implement Fragments

`BrokerFragments_proofs` proves `BrokersMergeFragments`: `Spec => MergesFragments` if `~SleepInWindow`, for every set of
brokers, all delays, any number of changes and every order of events. In a step of `Fragments` a fragment chooses
among what its members have reported, and the broker whose edge is chosen is told in that very step; updates are a set. In the code a report climbs
from leader hop to leader hop until a broker that leads counts it, and the order to expand goes back along the stack the report
has collected, while links are added next to it. The inductive invariant `World(H)` is `IInv`, `JoinsOK(H)`, the
invariant of `Fragments` read through the mapping, `~crashed`, and what ties the two levels together:

* `Placed`: no message is twice on a channel or due twice, and on a channel no update is behind a report
  (`Neat`). A broker has at most one report, wherever it is: due, on a channel, or counted by a leader; and at most one
  order to expand. So the mapping, which looks for them everywhere, has one thing to find (`ViewsOK`).
* `Trips`: a report carries the delay of the edge it names; all brokers on its stack, and the one that counted it, are in the round of
  the broker that made it and know the same members; and from each of them to the next leads a link. An order
  goes back over links, among members of the broker that it is for.

A report is not overtaken by a change of its fragment since `Fragments` says that nobody learns of more while a report or
order is outstanding, except by an update; and on the way of a report the update is ahead of it, which is what `Neat` is for. So `leaderHop` is never stale when a report is
passed on, and the leader that counts one is the leader of the fragment that made it.

The proof has two halves. `Turn` and `Items` say what a step of the kernel does with messages, as a set
of items (from, to, message): one is consumed, some are added. Each handler then is one step of `Fragments`: `Learn`
for an update, `Choose` for the last of the reports that is counted, `Ask`, `Keep`, `Answer` and `Meet` for orders and requests
(`Merged` and `Linking` for the two that add a link), `Start` for a join, `Rest` and `Stop` around a leave; a report or
an order that is passed on is none. And each keeps `Placed` and `Trips`, for which the invariant of `Fragments` of the next
state may be used already, since the step that leads there is known by then.

From it follow, all for `~SleepInWindow` and nothing else:

* `FragmentsAreSound`, `ForestIsBuilt` (`BuildsForest`), `NoCycleOfLinks` (`[]Forest`), `LinksStayShortest`: what is proved of
  `Fragments` and `SpanningForest`, of the brokers themselves;
* `HandlersNeverFail` (`[]NoRuntimeError`): the way of a report or an order is one of links, so that no gate is
  missing, and every broker that gets a message of a convergence has begun it;
* `LeadersCountMembers` (`[]OneReportPerMember`), from `Placed` and `Trips`;
* `SameListInSameRound`, `EveryJoinIsHeld`, `ConvergedIsComplete`, `EveryReportNames` (`[]SameRoundSameBrokers`,
  `[]NoJoinIsLost`, `[]ConvergedMeansAll`, `[]NoEmptyReport`);
* `OneGateIsEnough` and `BothMakeTheLink` (`[]OneLinkEach`, `[]LinksAreMutual`): a broker links only to one that is not
  a member yet, and half a link is one whose other half is due at once;
* `NeverEmptyAgain` (`OneBrokerStays`): who leaves has a neighbour, which is registered and stays;
* `ConnectsAreOrdered` (`ConnectsInOrder`): a request is stored once, and later ones are of later convergences.

### Causal delivery

`CausalDelivery_proofs` is about the vector clocks, for any clients, topics and number of publications, over a
network that loses nothing and delivers in any order. `DeliveryBounds` assumes what the instance needs: that
there are finitely many clients and a broker.

* `ClocksDeliverBroadcast`: `DeliverySpec => DeliversBroadcast`. The invariant `DInv` says that
  the clock of a client counts, publisher by publisher, what it has seen (`Accurate`); that a time stamp is the
  clock of its sender when it published, and all that it counts exists (`Sent`, `Genuine`); and
  that clocks know everybody (`Full`). So when `handlePublishMessage` finds the stamp of a message next for
  its sender and not ahead for any other, all that the sender had seen has been handed over: a step of
  `CausalBroadcast`. `releaseMessages` hands over several in one step; each is shown to
  be next in turn, by induction over the fold.
* `NothingIsLeft`: `DeliverySpec => []AllSeen`. `AInv` adds that a publication a client has not seen is under
  way to it or postponed, not both and only once, and that none of the postponed can be released
  (`Settled`): `releaseMessages` runs as often as there are messages to release. When nothing is
  under way and something is missing, take a missing publication with the least stamp: it could be
  released, which is a contradiction.

Folds and induction. `FoldLeft` is defined by recursion over a set, and the library's
induction theorems take a predicate the provers cannot instantiate. `Folding` restates induction over
numbers and sequences with a set for the hypothesis, and proves what `FoldLeft` returns for
an empty sequence and an appended one, for any operator; `CausalDelivery_proofs` instantiates it with the steps of
the three folds of `Client`. To make that possible `merge` and `Examine` are operators of their own in `Client`,
and `SeenOnTopic` is a fold.

Only model-checked, of the brokers: `NoHopCycle` and `MembersAreLinked`, and `QuietMeansSettled`; and all of `Overlay`, whose
brokers and clients share channels. Out of the prover's reach: `Converges` and `Reattaches` (liveness under fairness).
With `SleepInWindow` only `TypeCorrect` and `LeadersAgree` are proved; the run `sleep_in_window` shows that `OneBrokerStays`
is false then.

## Not modelled

`Broker::handleNameServerMessage`, `Broker::sleep`, `AcyclicBroker::sleep` and
`handleNewBrokerNotification` never run in this network, whose brokers are all
`OptimalBroker`s. Gates do not run out, so the places that retry or dereference
NULL for want of one (`Client.cc:182-187`, `OptimalBroker.cc:587`) are left out;
`OneLinkEach` and `OneEntryPerClient` show how many can be in use. Time is not modelled, and so neither
are the draws of the condition table that are refused, which end with probability
only, nor publications that catch up with their own sender. `finishTime`, printing and
logging change nothing. `Topology and configuration` declares parameters, which are the
constants of the model.

## Plan

1. (done) The spanning tree protocol with the name server, its runs, `TypeCorrect`
   and `LeadersAgree`.
2. (done) Routing over a fixed tree with clients that attach and leave; causal
   delivery; the composition with brokers that rebuild the tree.
3. (done) `SpanningForest`, implemented by `OptimalBroker`, with proofs that its links are
   minimal and form a forest.
4. (done) `CausalBroadcast`, implemented by `Overlay` on a fixed tree and by
   `CausalDelivery`, with a proof that it is causal.
5. (done) The containers against `ItemList`, with proofs that they implement it; the condition table, with a proof;
   how many gates are in use.
6. (done) `Fragments`, implemented by `OptimalBroker`, with proofs of its invariant and that it
   implements `SpanningForest`; proofs that the
   clocks implement `CausalBroadcast` and that nothing is left postponed.
7. (done) Proofs about brokers that join and leave: what they build over, the joins they hold, their links.
8. (done) Proofs that `OptimalBroker` implements `Fragments` when `SleepInWindow` is FALSE, and what follows: acyclic and
   shortest links, no runtime errors, reports that are counted once.
9. Proofs of `NoHopCycle` (the leader of the next hop is never larger) and `MembersAreLinked`; type correctness of
   `Overlay`, `ClocksAreSound`.
