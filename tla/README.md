# Verification of the DCell controller

TLA+ models of this repository: a POX controller that routes packets in a
DCell network, the POX components it is built on, and the topology it is
written for. TLC checks the models on small instances; TLAPS proves what
matters most for all values of the constants.

Contents: the system, the models, the runs and their bounds, fairness, what
is proved, disagreements between code and text, what is not modelled, plan.

## The system

A process runs POX with three components started by `ext/main.py`:
`openflow.of_01`, `openflow.discovery` and `dcell_controller` (or, for the
comparison in the README's second experiment, `of_01` and `tree_controller`).
Mininet runs the switches (Open vSwitch) and hosts of `ext/topo.py`.

| Component | State | Operations | Interacts through |
|---|---|---|---|
| Addressing, `ext/comm.py` | none | counts, host id to tuple and back, MAC and IP addresses | calls from topology and controller |
| Topology, `ext/topo.py` | hosts, switches, links in the order of `addLink` | `_build_dcell`, `_build_tree` | port numbers that the controller computes again on its own |
| Routes, `Controller._build_route` | none of its own | `_build_dcell_route` (recursive), `_select_proxy`, `_middle_link` | reads `_bad_links`; `_add_flow` |
| Controller, `ext/dcell_controller.py` | `_num_connect`, `_bad_links`, `_flow_table` | handlers of `ConnectionUp`, `LinkEvent`, `PacketIn` | events of discovery and OpenFlow; messages to switches |
| Tree controller, `ext/tree_controller.py` | `_mac_port` of each switch | handlers of `ConnectionUp`, `PacketIn` | events of OpenFlow; messages to switches |
| Discovery, `openflow/discovery.py` | `adjacency`, `_this_cycle`, `_next_cycle`, timers | sends LLDP packets in turn, `_handle_openflow_PacketIn`, `_expire_links`, `_delete_links` | raises `LinkEvent`; events of OpenFlow; recoco timers |
| Connections, `openflow/of_01.py`, `openflow/__init__.py` | sockets, handshake state, `disconnected`, `disconnection_raised`, `nexus._connections` | accept, read and dispatch, handshake, `send`, `disconnect`, `close` | raises `ConnectionUp`, `ConnectionDown`, `PacketIn`, `PortStatus` |
| Deferred sender, `openflow/of_01.py` | `_dataForConnection`, `sending`, a lock | `send` from other threads, the loop of its own thread | sockets; raises `ConnectionDown` through `disconnect` |
| recoco, `lib/recoco` | ready queue, tasks of the select hub, timers, functions to be called later, locks | `schedule`, slices of tasks, `select`, `callLater`, `BlockingTask`, `SyncTask`; two threads of its own | everything with a timer or a socket |
| IO workers, `lib/ioworker` | workers and their buffers, commands of the loop | accept, read, write, close; `BackoffWorker` connects again and again | recoco's `select`; timers |
| Events, `lib/revent` | lists of listeners of each source | `addListener`, `removeListener`, `raiseEvent` | handlers that do all of this themselves |
| Core, `core.py`, `boot.py` | components, who waits for them, phases of start and end | `register`, `call_when_ready`, `listen_to_dependencies`, `goUp`, `quit` | events; threads of `quit` |
| Messages, `openflow/libopenflow_01.py`, parts of `nicira.py`, `util.py` | none | pack, unpack and length of each class; readers of a connection | connections and software switch |
| Packets, `lib/packet`, `lib/addresses.py` | none | parse and pack of each protocol; addresses to and from text | switch, discovery, controllers, DHCP |
| Software switch, `datapaths`, `openflow/flow_table.py` | ports, flow table, buffered packets, connection | messages of OpenFlow, packets, header actions, expiry | messages; IO workers |
| DHCP, `proto/dhcpd.py`, `proto/dhcp_client.py` | pool, offers, leases; state and timers of a client | DISCOVER, REQUEST, RELEASE and their answers | `PacketIn`; recoco timers |

Handlers run one after another on the scheduler thread. The behaviours that
are hard to test:

* a route build is a loop of sends, and each send may find a connection broken
  (the map of connections changes at once, the event follows later);
* every direction of a link has its own events, while the controller keeps one
  bit per link; events of several links interleave with rebuilds;
* the pairs to rebuild are looked up in a table that older routes of the same
  pairs have left entries in;
* discovery races packets against timeouts, and every change of a port or a
  switch starts its send timer anew;
* a switch may come back before its old connection is closed, and messages
  that were read together are handled although the connection broke meanwhile;
* one component, the deferred sender, has a thread of its own and raises events
  on it;
* recoco is used from any thread: a wake-up may come while the scheduler decides
  to sleep;
* handlers and callbacks change the lists that they are being called from;
* a message has its length computed in three places, and arrives cut anywhere;
* the software switch gives out buffers and lets entries run out while the
  controller acts on what it was told before;
* a DHCP server and its clients meet late and repeated messages;
* controller and topology compute neighbours and port numbers independently.

What makes each correct: a route that was built completely delivers, and avoids
links known to be broken; the list of broken links agrees with discovery's map;
the flow table knows every entry a switch forwards by; working links are found
and dead ones forgotten in time; connections are announced as up and down in an
order listeners can rely on; bytes are neither lost nor reordered; a learning
switch forwards towards the host. `PROJECT.json` lists the hazards by line.

## The models

```
DCellAddr ── DCellRouting ── DCellTopo ─┬─ DCellForwarding
                                        └─ DCellNetwork          MCNetwork
             DCellController ──────────────┘ └ DCellControllerProofs

            LinkLayer   SwitchSessions                (abstract)
                │ implements │
PythonLists ── Discovery   OFConnections              MCDiscovery, MCOFConnections
  │                └ DiscoveryProofs └ OFConnectionsProofs
  ├ Revent ── Core (└ CoreProofs)                     MCCore
  └ PythonListProofs                   (under DiscoveryProofs and CoreProofs)

DCellForwarding, LearningSwitch (└ LearningSwitchProofs)  MCDelivery
DCellForwarding, DHCP                                 MCFailures

Scheduler ── Tasks ── IOWorkers (└ IOWorkersProofs)   MCScheduler

Matches ─┬─ Wire ─┬─ OFMessages ── MessageStream ────────────────────────────┐
         │        └─ PacketParts ── PacketPath   MCPacketPath ────────────────┼ MCFormats
         └─ Addresses                                                        │
DeferredSender ──────────────────────────────────────────────────────────────┘
  └ ServicesProofs                     (of DeferredSender and DHCP, which share nothing)
SoftwareSwitch                                        MCSoftwareSwitch
```

Lines are EXTENDS unless a text below says otherwise. An MC module that joins
several systems has a variable (`subject`, `topo`, `about`) that says which of them a
behaviour is about, so that they share no step.

**DCellAddr** (`comm.py`). Operators with the names of the functions. Python
counts entries of a tuple from 0, TLA+ from 1.

**DCellTopo** (`topo.py`). The sequence of `addLink` calls, in the
code's order, and the ports they give (`Ports[switch][port]` is the node at the
other end), because the controller relies on that order without seeing it. It stands on
DCellRouting, which has the ids of hosts and switches.

**DCellRouting** (`_build_route`). `DCellRoute` is the recursion of
`_build_dcell_route`; its result says which entries are added in which order,
whether the code logged a failure (`gap`) and whether it raised an exception.
Python's recursion limit is the constant `LIMIT`, the depth after which a call
raises: 8 instead of about 1000. A recursion that ends at all has, in the
instances checked, fewer calls on its stack; one that does not ends at any
limit with the same exception.

**DCellForwarding**. One packet of one pair on a network just programmed: the
source asks for the MAC address (ARP, answered by the controller), then the
packet goes from entry to entry. The sets of broken links are an input.

**DCellController** (`dcell_controller.py`, with what it sees of discovery and
of the connections). `connections`, `up` and `closing` are the nexus' map, the
switches whose `ConnectionUp` was raised, and those found broken whose
`ConnectionDown` is still to come. A handler that builds routes is one step
per pair. There are three such loops (`Loops`, with the pairs each has left in `todo`): that of
`_build_all_routes`, that of the `LinkEvent` handler on the scheduler's thread, and that of the same handler on the
deferred sender's thread. The last one is there because the sender raises `ConnectionDown` itself when a write
fails (`onSender`): discovery then deletes links and the controller builds routes in the middle of
what the scheduler's thread does, and the two take turns at `_mutex_link_state` (`LinkStateFree`). While the sender does
so it holds its own lock, for which every send of the scheduler's thread waits (`CanSend`): the two
can wait for each other, and then the model stops as the program does. `BuildOne`, `BuildDeleteFails` and
`BuildAddFails` are the three ways a round can go: no send fails, the delete message of an entry fails (the add
message after it then raises `KeyError`), the add message fails. `LinkRemoved`
and `FinishDelete` are the two halves of `_delete_links`, which raises all
events before it forgets the first link. The route computation is the constant
operator `Route`, so that the proofs hold for every one.
One `_delete_links` runs at a time in the model (`Deleting`), though both threads may be in one: this leaves out two
calls for the same link with the link found anew between them, of which the second then forgets a link that
the controller takes for sound.

**PythonLists** is what several modules do with lists of Python: a comprehension that leaves some
entries out. It is a recursive function, so that `PythonListProofs` can say what it returns.

**DCellNetwork** puts `DCellRouting` into `DCellController` and follows packets
through the entries that are left after any sequence of events.

**LinkLayer** is what discovery promises its listeners: a link is announced
before it is forgotten, all links of a removal are announced before the first is
forgotten. `Discovery` implements it. `DCellController` does not rest on it: it has what it needs of
discovery's map in its own actions, since connections break there inside its handlers.

**Discovery** (`discovery.py`). The lists of the sender, its timer and intervals,
packets with their age, time stamps, the periodic check, and `_delete_links`.
Time is discrete: `Tick` is possible when no timer is due. `up` merges the
nexus' map with the switches announced, because a connection that breaks is
closed before the next handler here. Intervals are whole ticks, rounded down, and the ports of a
features reply come in some fixed order (`Listing`) that nothing is assumed of. What happens in between is the subject of
OFConnections and DCellController.

**SwitchSessions** is what `core.openflow` promises about the connections of switches, of which
one switch may have several: each is announced as up and as down at most once, and after it is down nothing
more is heard of it. It has what surprises listeners: a connection can be found broken, and missing from the map,
before its `ConnectionUp`, or be registered after it was found broken; the end of an old
connection takes the new one out of the map. `OFConnections` implements it.

**OFConnections** (`of_01.py`, `openflow/__init__.py`). Any number of connections,
each to a switch. The switches send what the protocol lets them; the task reads
a chunk of messages (`buf`) and handles all of them before another connection.
A write fails, or is lost silently, once the other end has gone; that may be the first `hello`. `Break` is
`disconnect(defer_event=True)` as `send` calls it, `Close` is `close()`. A switch comes back whenever it likes
once it has gone, and asks for echoes at any point; the constant `StrayBarrier` says whether it also sends a barrier reply
nobody asked for.

**DeferredSender** (`of_01.py`). Two threads. A message is two pieces, so that a
socket may take one of them; pieces are numbered, which makes loss, duplication
and reordering visible. `lock` is the lock of the sender, `mutex` that of the
controller's `LinkEvent` handler, which may run on either thread. `kill` is
not modelled: its only call is commented out.

**LearningSwitch** (`tree_controller.py`, `topo.py`). Frames on links, the tables of
the switches, frames on their way to the controller and its answers back. A
switch that loses its connection keeps forwarding by its entries, and starts
without entries and with a new `Switch` object when it is back.

**Scheduler, Tasks, IOWorkers** (`lib/recoco/recoco.py`, `events.py`,
`lib/ioworker/__init__.py`, `workers.py`). Scheduler has the two threads step by
step: the scheduler between two slices, looking at the queues, waiting for and
clearing its event; the hub taking what is new, selecting, returning tasks. What is
left of times counts down in ticks, and a wait that the code cuts off after
`CYCLE_MAXIMUM` seconds has no end here: nothing may depend on that limit.
Tasks has what a task can do: sleep, wait for files, locks, events, make a blocking
call, start others, start and cancel timers; `callLater` from any thread. Its programs are
data (`code`), one operation after another, and the operations that give up control
end a slice. What programs must not do (start a task twice, release a lock of another) is
`Disciplined`, an assumption on the jobs: `TasksAssumption`. IOWorkers is the task `RecocoIOLoop` with the life of a `BackoffWorker`: open,
refused at once or later, connected, lost, closed, opened again after a delay; the switch is
launched once (`WorkersAssumption`). A message of another version closes nothing: `OFConnection.close()` only asks for the end of
the sending (`shut`), which comes when something has been sent after that. A switch that had not understood
any message before (`starting`) answers with an error, shuts down its end, and the controller hangs up
(`HangsUp`); one that had goes on as it is and meets the same message at every read.

**Revent, Core** (`lib/revent/revent.py`, `core.py`, `boot.py`). A thread is a stack of
calls. `raiseEvent` holds the Python list it iterates over: `addListener` changes that
list, `removeListener` puts another in its place, so a dispatch knows whether its list
still is the source's; a weak listener is stored as a proxy, so it goes by its number or with its object, and never by its
function. `raiseEventNoErrors` catches what handlers raise (`Caught`) but for the errors of revent itself, which end
the caller too. Core adds components, sinks that wait for them, start-up, and
`quit` with its threads. `_try_waiter` is two steps, between which other threads may run: the entry is found
among those who wait (`Find`), then looked up, removed and called (`Try`); to remove it fails when another thread
was faster. `cut` says that an exception has ended a search since the last one that began. A handler, a callback or a `launch` may do any operation
of the core, `MaxOps` in all.

**Matches, Wire, OFMessages** (`libopenflow_01.py`, `nicira.py`,
`util.py`). A class is a layout: the fields that `pack` writes, those that `unpack`
reads and the fixed part of `__len__`, written apart as in the code. `Wire` turns layouts
into `Pack`, `Unpack` and `Length`; `Matches` is `ofp_match` with its wildcards, networks and
`from_packet`, and has what reads and writes bytes. Numbers of four bytes are kept in two's complement.

**MessageStream** (`Connection.read`, `OFConnection.read`). Objects are packed into a
stream that arrives in pieces; the reader cuts, unpacks, handles. The readers of
controller and switch differ in what they do with what they cannot read: the controller closes, the switch
keeps a message of another version in its buffer and meets it again with every read (`stuck`).

**PacketParts** (`lib/packet`). Parse and header of each protocol.
A parse that gives up leaves bytes, an exception stays where it happened.
**PacketPath** (`lib/packet`, actions of `datapaths/switch.py`) has the whole frames, and sends a frame through two
switches; beside the bytes runs what they should say, and `Encode` writes that down
without the packet library.

**Addresses** (`lib/addresses.py`). Addresses are bytes; a text is what its readers
tell apart.

**SoftwareSwitch** (`openflow/flow_table.py`, `datapaths/switch.py`). Beside the
switch runs what a controller can know of it (`view`): the table as its messages, the errors
and the `flow_removed` messages make it, the buffers given and not used, the ports. A match
has three fields here; Matches has all twelve.

**DHCP** (`proto/dhcpd.py`, `proto/dhcp_client.py`). The server, POX clients with their
states and timers, other hosts that send what they like. The network is the set of all
messages ever sent: any of them may be delivered at any time, again, or never. A
time that a client waits is a number of ticks; a client knows the replies to its last
message from older ones by the `xid`.

Definitions whose comment begins with "Variant:" are wrong versions of the
definition after them; they are used in no specification, only to show that the
properties notice such a mistake (`mutants` in `PROJECT.json`).

## The runs and their bounds

| Run | Checks | Instance |
|---|---|---|
| `delivery` | `DeliveredInDCell`; `EntriesLead`, `DeliveredInTree` | DCell_2, n = 2: recursion over two levels; one sender, no failure or one failed link or host. Tree: two leaves and a root, one host each, any three frames; one connection lost |
| `failures` | `DeliveredAroundFailures`, `GapMeansUnreachable`; `AddressesKept`, `ClientsFinish` | DCell_1, n = 3: all 64 sets of broken links between its four DCell_0s. DHCP: a pool of two addresses, a client and a host that asks for one |
| `leases` | refutes `AddressesApart` | the DHCP of `failures`; a host asks three times, and nothing fails |
| `fwd_reroute` | refutes `ReroutesWhenReachable` | the DCell_1 of `failures` |
| `network` | `RoutesDeliver`, `RoutesRestored`, `BadLinkIsMissing`, `InstalledIsRecorded`, `LossIsRecorded`, `RemovalsEnd` | DCell_1, n = 2 (nine switches), two pairs of hosts. Either one direction of every link between DCell_0s and of a link to a mini-switch, up to two expire at once, no bound on the number of events; or both directions of one link, three connections lost at its ends, at any point of a loop and announced by either thread |
| `net_reconnect` | refutes `BuiltAfterAllConnected` | one connection lost |
| `discovery` | `EveryPortOnce`, `SentEveryCycle`, `StaleLinksGo`, `NoFalseTimeout`, `ImplementsLinkLayer`, `Converges` | two switches, a cable, a third port; two external events at any moment; timeout 4, check period 2 (the ratio of the default timing), delay at most 1 |
| `connections` | `SwitchesAsKnown`, `ImplementsSwitchSessions`, `LossIsAnnounced` | two connections of one switch, the second made before or after the first is closed, both may break; two messages unasked: port changes, echoes, stray barrier replies |
| `formats` | `InStep`, `AnsweredOnce`, `AllHandled`; `PacketsKept`; `AddressKept`; `NothingLost`, `WrittenIfAllStay` | every message class with chosen fields, two in a row, in pieces of 3, 9 or 70 bytes; frames of every protocol whole, padded, and cut off after each of 6 to 75 bytes, two switches, every header action; 256 patterns of zeros in IPv6 texts, networks of all lengths; two switches, sockets of three pieces, three messages of two pieces, one may go |
| `switch` | `TableAsBooked`, `PictureIsTrue` | two ports, two entries, two buffers, seven flow_mods, five inputs, time up to 2 |
| `runtime` | `NothingTwice`, `NeverEarly`, `Settles` | nine jobs of up to three tasks and two foreign threads: a lock, timers that are cancelled or stop, calls from all threads, the end of the scheduler, events, a file with a timeout, a blocking call; and a switch that connects, two losses |
| `core` | `HeardByAll`, `CalledWhenReady`, `QuitEnds` | three threads, two components, a callback and a sink that need two, two listeners, three operations by whatever is called, one signal |

Why these are enough. A DCell_1 with n = 2 is the smallest with a proxy, and
with n = 3 the smallest in which a search for a proxy can go in circles; level 2
has the only recursion inside a recursion. (The configured size, k = 1 and n = 4,
differs from n = 3 in numbers only: the same code runs over more sub-DCells.) The
two pairs of `network` lie in different DCell_0s, and one's way around the
broken link passes the other's: pairs meet only in the tables and through links.
Two links removed at once are the smallest case of events between two halves of
`_delete_links`. In `Discovery` two events are what it takes to go and come back
within one cycle; with two ports one packet at a time is enough, with three it is
not and the list wraps around in the middle of a handler. Three pieces of room and
three messages of two pieces let a socket be full, half full and empty in the
middle of a message. Three frames are one that floods, one that installs entries
back, and one that uses entries. A message class is a straight line of fields, so
samples with each optional part present, absent and repeated meet every branch of
its code; pieces of 3 and 9 bytes cut headers and bodies, 70 joins messages. Two
switches on a path are one that changes a packet and one that reads what the first wrote.
Two entries and two buffers are the smallest full table, overlap, and slot used
again. In `runtime` each job holds one way of waking a task; three tasks and two
threads are one that waits, one that holds and one that comes in between. In DHCP
two addresses let one be refused and another taken, and a client and a host are all it takes to
confuse two hosts. The bounds are constants and appear only in
guards (`MaxConnects`, `MaxLosses`, `MaxBatch`, `Fragile`, `MaxDelay`, `MaxEvents`,
`MaxGone`, `MaxExtra`, `MaxSent`, `MaxDead`, `MaxFrames`, `MaxDown`, `MaxItems`,
`MaxPieces`, `MaxHops`, `MaxReads`, `MaxLeft`, `MaxDelay`, `MaxTime`, `MaxInputs`, `MaxOps`,
`MaxSignals`, `MaxListeners`, `MaxOffers`, `MaxFaults`, `MaxAsked`). Deadlock is not
checked where the bounds, or a network at rest, end the model; `Discovery` never
rests and is checked.

Conditions in the properties, and what they leave out:

* `RoutesDeliver` and `RoutesRestored` speak of states in
  which no loop was cut short and no entry was lost (`disturbed`), and
  of pairs whose last build was complete (`whole`). Otherwise they fail: a
  `KeyError` ends the loop and the pairs after it stay where they were, and a
  switch that reconnects has been told to delete entries that the flow table
  still has and that nobody sends again. For the same reasons no property says that a switch has all that the flow
  table says of it; `InstalledIsRecorded` is the other direction, and has no condition.
* `SentEveryCycle` and `NoFalseTimeout` speak of few enough ports
  (`Unrounded`), and of times without changes: each change of a port or switch
  starts the send timer anew, so a port may wait as long as changes go on.
* `SwitchesAsKnown` (its part `PortsUpToDate`) leaves out connections with a port that changed during the
  handshake (`missed`): `PORT_STATUS` has no handler then, and nothing corrects it.
* `ImplementsSwitchSessions` has no condition. What it leaves to rely on is little: the map may lack a switch that is
  connected, or have one that is not. A connection whose handshake failed keeps its entry, without a dpid.
* `CalledWhenReady` allows for waiters that are ready and not called once an exception has ended a search for them
  (`cut`), until the next `register` begins another.
* `WrittenIfAllStay` and `DeliveredInTree` speak of runs in which every connection
  stays. After a loss the sender's thread ends, and frames that were on their way to
  the controller are gone.
* `ClientsFinish` leaves out clients whose switch goes away.
* `PacketsKept` asks only of `sturdy` sources that nothing raises, and only of sources that
  are not `Opaque` that the bytes are right; MCPacketPath lists the others (`Odd`, and `Fragile` for those
  that are not sturdy when cut off: LLDP, EAP, IPv6).
* `PictureIsTrue` compares which buffers are taken, and not which packet is in one.
* `PictureIsTrue` leaves a buffer open whose message was answered by an error, and
  what is lost with the connection.
* `HeardByAll` allows a listener to be called twice when one with a priority was added
  during the dispatch (`moved`): that sorts the list the loop goes over.
* `Settles` speaks of runs in which the controller of the switch stays up at last, and leaves out a switch that
  stands at a message it cannot read after others that it could (`Stalls`).

## Fairness

* DCellController: a handler that has begun is continued (`HandlerSteps`), by whichever
  thread it runs on. Events themselves need not happen.
* Discovery: timers fire and time goes on (`Progress`). A due timer runs before
  the next tick, which takes the scheduler thread to be fast in comparison with
  intervals of half a second. Packets arrive within `MaxDelay` ticks.
* OFConnections: for each connection, what was read is handled, what has
  arrived is read, and an end of stream is found: the `select` loop goes over
  all sockets that are ready. Switches owe nothing: no answer is assumed.
* DeferredSender: both threads run, and switches that are there read their
  sockets. No lock is assumed to be handed over fairly.
* LearningSwitch: something that can move moves. Each frame is handled in a
  bounded number of steps, so this is fairness to every frame.
* DCellForwarding: the packet moves on while it can.
* Scheduler: the scheduler thread, the hub and the other threads each run (`Sched`, `Hub`,
  `OtherThreads`), the other end of a connection answers attempts, and hangs up when it has read a stream to its end (`Answering`), and
  time goes on (`Tick`). The controller does the latter: `Connection.read` closes at the end of the stream. Losses are not owed.
* Core: every thread goes on with the call it is in, and so does the main thread.
* MessageStream: what has been sent arrives at last (`Drain`), in whatever pieces.
* DHCP: timers run out (`Progress`). No message is owed: a client must end without a server.

## What is proved

`DCellControllerProofs` proves, for every topology, every set of pairs, every
route computation, and without the bounds' values mattering:

* `TypeCorrect`: `TypeOK`, from the assumption `RouteOutcome` on what a route
  computation returns.
* `BadLinksAreMissing`: `BadLinkIsMissing` is inductive with `TypeOK`.
* `LossesAreRecorded`: `LossIsRecorded` is a property of steps. It needs the
  invariant `RaisedIsBad` (a link being deleted whose event was raised is on the
  list): only `FinishDelete` forgets links, and then all events were raised.
* `EntriesAreRecorded`: `InstalledIsRecorded`. The lemma `AppliedKeeps` says that
  `_add_flow`, applied to two tables, adds no difference; each way a round may
  fail leaves a difference only at a switch that is dropped.

`DiscoveryProofs` proves for all sizes, times and bounds:

* `LinksAsPromised`: `Discovery` implements `LinkLayer`. The invariant `LinksKnown`
  ties the links told to the map and to the running `_delete_links` call.
* `StaleLinksAreDeleted`: `StaleLinksGo`, from `FreshUntilCheck`: a time stamp that
  is not being deleted is no older than the timeout plus the time since the last
  check; the check deletes what is older than the timeout, and time stands still
  until it has.

* `EveryPortIsQueued`: `EveryPortOnce`. The invariant `ListsInv` says that neither list has a port
  twice, no port is in both, together they are the physical ports of the connected switches, and the
  timer runs just when there are any. The lemmas `Listed` and `Turn` say that `_timer_handler` loses and
  doubles no port, however often it starts the next cycle.
* `EveryPortInTime`: `SentEveryCycle`. With one packet at a time the place of a port in the
  queue says how long ago its last packet was (`Due`): `SentInv` adds (`Served`) that no port has waited
  longer than that, unless something has changed more recently.
* `WorkingLinksStay`: `NoFalseTimeout`, if `MaxDelay + send_cycle_time < link_timeout`. The invariant
  `FreshInv` adds (`Fresh`) that the stamp of a working link is as young as the last
  packet of its port, or a younger packet is on the way, unless something changed since. With the default
  timing a cycle is half of the timeout, and the condition says that packets take less than the other half.

`OFConnectionsProofs` proves for all switches, connections and ports:

* `KnownAsTheyAre`: `SwitchesAsKnown`. That the ports of an announced connection are up to
  date depends on what is still to be read, and on the answers of the switch standing behind what it said
  before. The invariant `KnownInv` adds where each message of the handshake may stand (`Places`,
  `Handshake`) and that for *every* connection past its features reply, what was
  read and what is coming give the ports (`PortsFollow`).
* `SessionsImplemented`: `ImplementsSwitchSessions`, for switches that come back before their old connection is closed
  too. `SessionInv` adds (`Ends`) that `ConnectionDown` is raised only for a connection that is closed, and that a connection whose
  switch was forgotten again is broken.

`ServicesProofs` proves two theorems. `NoPieceIsLost`: `NothingLost`, for all sockets, messages and
numbers of them. The invariant adds what the flag `sending` means (`FlagHolds`): while it is
down nothing is queued. The scheduler thread writes by itself, and hands over what is left of a
message, only while it is down, and so never overtakes what is queued.

`AddressesAreKept`: `AddressesKept`, for every pool, any number of clients, hosts,
faults and timeouts, and hosts that ask for and release what they like. The conditions on constants are `DHCPShape`. The network
never forgets a message, so the invariant `LeaseInv` says of every message ever sent what it may still do: a host's offer
and lease are of one address and what has left the pool is somebody's (`Accounted`), other hosts send what hosts send (`HostsAsk`), a client
was told, asks for and is bound to the one address the server keeps for it (`ClientMessages`, `ClientsTold`). The lemmas
`OutcomeKeeps` and `LeaseKept` say what one answer of the server does to offers and leases. That an address is not
leased twice is not among this: it is not so (`AddressesApart`, below).

`LearningSwitchProofs` proves `TreeLearns`: `EntriesLead`, for every number of leaves and of hosts at each
(`TreeShape`), with any frames and lost connections. That no host gets a frame twice depends on everything
the tree is doing, so `Inv` says of every frame on a link, question and answer that it comes from where
its source is, and of every entry that it leads to the destination (`Guided`, `Learned`). `OneCopy` says that of the
copies of a frame that floods make, at most one is on the way from the source over the root to the destination, or received. The
lemma `AwayFromSource` is about the tree itself: a frame that leaves a switch by any port but the one
towards its source gets further away from it, and just one of these ports is on the way.

`CoreProofs` proves, for all threads, events, priorities, components and command lines, and for any
number of operations of the callbacks:

* `AllHaveHeard`: `HeardByAll`. A dispatch goes over a list that other calls change, or that was put
  aside, so the property says nothing of a dispatch that is not at its end. `Sound` does: its list is the one of
  the source or still has everybody who is due and subscribed, and of those due whoever stands before
  its place has heard it. To keep this, each list must be in order (`Ranked`): only then does `Insert` put a new
  listener behind the place of the loop, or in front of it with the list marked as sorted (`Added`, `Inserted`); and
  a listener must stand above the dispatch that called it (`Nested`), or `halt` would end something else.
* `AllAreCalled`: `CalledWhenReady`. It speaks of states in which nobody is trying; the invariant,
  `Waiting`, of all: whoever waits for nothing any more is among the entries of a `_try_waiters` under way, or
  that one will look again (`Covered`), unless a search was cut short. Exceptions of callbacks take calls off the stack
  and stop at one that tries (`Caught`); those of revent, and of a thread that removes an entry second, take searches
  with them, and then `cut` is set. Two threads that found the same entry call it once, as only one removes it.

Both follow from `CoreInvariant`. Assumed of the constants: which events and threads there are (`CoreNames`), and
that subscriptions have priorities and events that exist (`Subscriptions`). Its lemmas are split by what a step does to the stacks (`Turned`), to the lists
(`SeenByAll`, `Unsubscribed`) and to who waits (`Lasting`, `Step`), so that a step of the code has a short proof.

`IOWorkersProofs` proves, for any tasks, foreign threads, workers, delays and intervals, any number of
losses, and every list of jobs that keeps the rules below:

* `NothingIsDoneTwice`: `NothingTwice`. The property counts places: each task has one, a lock one holder, the
  switch one thing that works at its connection. Which step takes a task from its place, and which puts
  it into another, is for two threads and foreign ones to agree on, so `SchedInv` names the places and says
  they exclude each other, and also what holds them apart:
  * `SeatsOK`: a task that lives is ready, on its way to the hub, in it, running, in a blocking call, or waiting for the lock, and in
    one of these only; or it has an appointment, one only: a `ScheduleTask` waits in the ready queue, the
    waiter for events will wake it, a step that starts it is still to come, `callLater` was never called.
    No list has an entry twice. One that is done has neither.
  * `WaiterOK`: at most one thread owes the waiting task its wake-up, and then the waiter will not give another.
  * `HubOK`: what `_select` is about to return is in the hub, and the task whose time ends first does not outlast
    the timeout of the `select`; so the hub never returns a task it does not have.
  * `LockOK`: the holder is inside the brackets of its program, or has been told that the lock is its; those
    who wait are where they acquire. Whether a program is inside is told by its place alone (`Held`).
  * `CommandsOK`, `WatchesOpen`: a command of the loop is for an open worker, no two are alike, and a worker
    that is closed has its command on the way, so the loop has forgotten the socket before
    it selects again. `OneWorks`, `RetriesOK`: a worker that is not closed, or else one timer that will
    open the next, as a worker closes just once, whichever of its paths comes first.
* `TimersAreNeverEarly`: `NeverEarly`, an action property, by the part `TimersOK`: what is left of the sleep of a timer,
  wherever it is (on its way to the hub, in it, or neither), and the time since it began make up its interval.
  No early wake-up is lost in between, because a timer is never in two places.

Both follow from `SchedulerKeeps`. They need no fairness, and hold whether or not the controller listens at
the start. The rules, `TasksAssumption` and `WorkersAssumption`, are
conditions on constants; TLC evaluates them on the nine jobs of MCScheduler. A task is started once and by a program that runs once:
`schedule` finds a task that is ready, not one that sleeps, and `Timer.start` asserts it. One task
waits at a `ReventWaiter`, which has room for one (`_task`). A lock is released by who acquired it, and a program
has released it where it ends or begins again: `_do_release` asks only whether the lock is taken, and a task
that ends with it would keep it. A timer's function starts nothing, and cancels timers only. `do_launch` runs once, in a thread
that is not the scheduler's. Programs that break these rules
meet what is listed below under recoco.

`PythonListProofs` has what these proofs need to know of lists: `Filtered` (what `Without` keeps of one, in which
order; `KeptExists`, by a least-number argument, since it is recursive), `Joined`, `Cut`, `Spliced`,
`Continued`. `LeastNumber` (a non-empty set of naturals has a least element) comes from
`WellFoundedInduction`, in a form that needs no operator parameter.

Only model-checked:

* liveness, which is out of the prover's reach: `RemovalsEnd`, `Converges`,
  `LossIsAnnounced`, `WrittenIfAllStay`, `DeliveredInDCell`, `DeliveredAroundFailures`,
  `DeliveredInTree`, `AllHandled`, `Settles`, `QuitEnds`, `ClientsFinish`;
* what recursion computes, as induction over data is, too: `DCellRoute` and with it
  `GapMeansUnreachable`, `RoutesDeliver`, `RoutesRestored`; packing and parsing, and with them `InStep`,
  `AnsweredOnce`, `PacketsKept`, `AddressKept`; and `TableAsBooked`, `PictureIsTrue`, whose
  module reaches a RECURSIVE operator.

`TypeOK` of DCellController is proved and no longer part of a run.

## Disagreements between the code and what is said of it

Each is a run that TLC ends with a counterexample; `findings` in `PROJECT.json`
quotes the text.

* `fwd_reroute`: a proxy search without memory goes round in circles after three
  failures, although sound links lead to the destination.
* `net_reconnect`: a switch that connects twice is counted twice; routes are built
  while a switch is missing, and never again.
* `leases`: `exec_request` leases an offer and leaves it in `offers`. After DISCOVER, REQUEST and RELEASE
  the address is in the pool and still offered; a second REQUEST, or the first one delivered
  late, leases it without taking it from the pool. Another host gets it too, and the release by
  either raises "already in this pool".

Other surprising behaviour is part of the models, or was met while they were written and is
left out of them where a line says so. No run is spent on it, though some of it contradicts a
comment.

Connections. `ConnectionUp` may be raised for a connection already found broken
(`SwitchSessions!Announce`). The end of an old connection removes the new one of a switch that
reconnects (`nexus._disconnect`). The deferred sender ends with the first closed socket,
and in a handler with its own lock held waits for a lock whose holder may wait for the
sender (`HandleOnSender`, and `CanSend` of DCellController, and the `network` run comes to such states). A statistics reply that does not fit the one before it raises
`AttributeError` (`_previous_stats_reply`) and blocks those after it (not modelled).

recoco. A task that is scheduled while it is parked in the hub and then returned by it is
scheduled twice, though `schedule` "will not schedule a task to run multiple times" but by itself (`recoco.py:192`); one registered twice ends the hub's thread (`assert task not in tasks`). `Send` never
sends; a task that yields `None` ends the scheduler; two tasks may not wait for one file;
a task that dies with a lock keeps it; `quit` is noticed only by a timeout of the idle wait.
Programs in MCScheduler do none of this, nor do those that `TasksAssumption` allows.

revent and core. An error of revent itself passes through `raiseEventNoErrors` (`revent.py:242`), so that `register` ends before
`_try_waiters`, and who waited for that component only is left until the next `register`; two threads that
call `_try_waiter` for one entry end the search of the second with `ValueError`. The list of listeners is not copied, in spite of the comment at
`revent.py:287`. A `once` listener is called again by a handler that raises the event anew, and
stays when it raises an exception. Two threads in `_quit` may both raise `GoingDownEvent`
("Should probably do locking here"), and the main thread may exit before `DownEvent` when the
scheduler does not end in time. `openflow` is looked up only until a component is found missing,
so `of_01` may not be launched by what waits for it.

Messages and packets. A body of statistics is packed once and kept, though it may change
(`_body_packed_cache`). The packet library does not write IP options, the CFI bit, SACK and
unknown TCP options, some options of neighbour discovery and IPv6 extension headers as it read
them; LLDP, EAP and IPv6 raise when they are cut short.

Addresses. `EthAddr` takes groups of seven digits, such as `0:1:2:3:4:5f`, for one of twelve and raises
`ValueError`, though groups of any size are to be read ("This actually comes up");
`infer_netmask` returns nothing for class E, 10.0.0.0 without a mask is taken
for a network, IPv6 texts with too few groups are accepted.

Software switch. `ENQUEUE` without transport ports, an unknown `flow_mod` command, an action
`OFPP_TABLE` in an entry (a recursion without end) and `stats_port` of an unknown port raise; an exception
in `unpack` (`switch.py:1155`) ends the IO loop of all workers. After a message of another version `close()` closes
nothing (`switch.py:1243`): the switch meets the message at each read, and shuts down its sending only once
something has been sent. Buffers filled while the
controller is away stay filled.

DHCP. Leases never
expire and are forgotten by a restart; the NAK of a `DHCPLease` listener leaves the
lease recorded. In the client, a NAK raises `NameError` (`self.state = INIT`), a request timeout fails an
assertion and waits for the total timeout, and a setter whose switch has gone raises `KeyError`
before it starts its timer.

## What is not modelled, and why

* Open vSwitch and Mininet are external: a message to a switch takes effect when
  it is read, links lose packets only when cut.
* Messages: text output, comparison beyond what `InStep` uses, and most of `nicira.py`'s NXM
  classes, which are made by a metaclass from tables; `nx_flow_mod` is packed and not cloned.
* Packets: text output; the parts of `icmpv6.py` and `ipv6.py` for options and extension headers
  beyond those in MCPacketPath. Addresses: hashing and comparison.
* recoco: epoll (`lib/epoll_select.py`), tasks made of generators that call each other
  (`task_function`), `elist`. revent: the error hook. Core: banner, version checks, and how `boot.py`
  reads options and finds modules.
* Software switch: answers that change no state (descriptions and statistics), queues, pcap
  ports and the command line.
* Statistics replies, SSL, capture files, several nexuses, shutdown of connections.
* Components of POX that this system does not start (`forwarding`, `messenger`,
  `host_tracker`, `topology`, `web`, `misc`, `spanning_tree`, `keepalive`, the other protocols), and
  tools beside POX (`tools/pox-pydoc.py`).
* The measurements of `ext/main.py`; the failures it causes are inputs.

The map covers 33 of 100 lines of the Python files under `src/`; the components above are most
of the rest.

## Plan

Done: the DCell system (DCellAddr to DCellNetwork, LearningSwitch) with its proofs; LinkLayer,
Discovery and the proofs; SwitchSessions, OFConnections, DeferredSender; then the messages and
the stream, packets and addresses, the software switch, recoco with the IO workers, events
and core, DHCP. Proofs of all of these but the messages, packets, addresses, the software switch
and what follows from the route computation.

Next:

1. Proofs: `TableAsBooked` of SoftwareSwitch, once `rx_packet` is a recursive
   function over the actions and the bisection of the flow table has a lemma of its own.
2. **SpanningTree, HostTracker, Keepalive**: other components of POX that run beside a
   controller, on Discovery and OFConnections.
3. A software switch in place of the external switches of DCellNetwork: the flow table of SoftwareSwitch under the
   entries that `_add_flow` sends.
4. `_delete_links` on both threads at once (`Deleting` of DCellController), with a property that says when the
   list of broken links loses a link by it.
