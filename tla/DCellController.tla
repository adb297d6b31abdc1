-------------------------- MODULE DCellController --------------------------
(***************************************************************************)
(* The controller of pox/ext/dcell_controller.py, together with what it    *)
(* sees of its surroundings: the OpenFlow connections that core.openflow   *)
(* knows, the links openflow.discovery knows, and the flow entries that    *)
(* sit in the switches.                                                    *)
(*                                                                         *)
(* POX runs event handlers one after another on its scheduler thread, but  *)
(* the thread that writes deferred data (DeferredSender) raises            *)
(* ConnectionDown itself when a write fails, and so discovery's handler    *)
(* and the controller's run there, in the middle of what the scheduler     *)
(* thread does.  A handler that builds routes holds a lock while it loops  *)
(* over host pairs; it is modelled as one step per pair (variable todo).   *)
(* A message to a connected switch takes effect at once: connections are   *)
(* ordered and the properties below compare states between pairs.          *)
(*                                                                         *)
(* The route computation is a parameter: Route(pair, bad) is what          *)
(* _build_route does for a pair of hosts when the links in bad are broken  *)
(* (DCellRouting!BuildRoute).                                              *)
(***************************************************************************)
EXTENDS Integers, Sequences, FiniteSets

CONSTANTS Dpids,            \* switches, by datapath id
          Pairs,            \* pairs <<src, dst>> of hosts that get routes
          Links,            \* directed links [dpid1, port1, dpid2, port2]
          Route(_, _),      \* the route computation
          Early,            \* switches already connected initially
          Fragile,          \* bound: switches whose connections may break
          MaxConnects,      \* bound: ConnectionUp events
          MaxLosses,        \* bound: connections that break
          MaxBatch          \* bound: links that expire at the same time
                            \* (and one _delete_links at a time: see Deleting)

\* event.link.uni and link_tuple: both directions of a link have one name,
\* its two switches in order.
LinkTuple(l) == IF l.dpid1 <= l.dpid2 THEN <<l.dpid1, l.dpid2>>
                                      ELSE <<l.dpid2, l.dpid1>>
LinkTuples == {LinkTuple(l) : l \in Links}
Ends(l) == {[dpid |-> l.dpid1, port |-> l.port1],
            [dpid |-> l.dpid2, port |-> l.port2]}

\* The number of switches the controller waits for is that of the topology.
NumDpids == Cardinality(Dpids)

Entry == [dpid : Dpids, port : Nat, pair : Pairs]
Outcome == [adds   : Seq([kind : {"add"}, dpid : Dpids, port : Nat]),
            raised : BOOLEAN,
            gap    : BOOLEAN]

ASSUME DpidsAreNumbers == Dpids \subseteq Nat /\ IsFiniteSet(Dpids)
ASSUME EarlySwitches == Early \subseteq Dpids
ASSUME LinkShape ==
  Links \subseteq [dpid1 : Dpids, port1 : Nat, dpid2 : Dpids, port2 : Nat]
ASSUME RouteOutcome ==
  \A pair \in Pairs, bad \in SUBSET LinkTuples : Route(pair, bad) \in Outcome

VARIABLES connections,  \* keys of core.openflow.connections
          up,           \* ConnectionUp raised, ConnectionDown not yet
          closing,      \* found broken, ConnectionDown not raised yet
          lost,         \* number of connections broken so far
          num_connect,  \* _num_connect
          adjacency,    \* links discovery knows
          deleting,     \* links in a running _delete_links call
          pending,      \* those of them whose LinkEvent is still to be raised
          bad_links,    \* _bad_links
          flow_table,   \* _flow_table: entries the controller has recorded
          installed,    \* entries in the switches
          onSender,     \* the running _delete_links is on the sender's thread
          todo,         \* pairs left in each running loop
          whole,        \* history: pairs whose last route build was complete
          original,     \* history: pairs built completely with no link broken
          disturbed     \* history: a loop was cut short by an exception, an add
                        \* message was lost, or a switch that reconnected has
                        \* lost its entries
conn_vars == <<connections, up, closing, lost, num_connect>>
link_vars == <<adjacency, deleting, pending, onSender>>
flow_vars == <<flow_table, installed, whole, original>>
vars == <<conn_vars, link_vars, bad_links, flow_vars, todo, disturbed>>

\* The loops that build routes: that of _build_all_routes, with _mutex_connect
\* held, and those of the handler of LinkEvents, with _mutex_link_state held,
\* on the scheduler's thread and on that of the sender.
Loops == {"connect", "link", "sender"}

TypeOK ==
  /\ connections \subseteq Dpids
  /\ up \subseteq Dpids
  /\ closing \subseteq Dpids
  /\ lost \in Nat
  /\ num_connect \in Nat
  /\ adjacency \subseteq Links
  /\ deleting \subseteq Links
  /\ pending \subseteq deleting
  /\ bad_links \subseteq LinkTuples
  /\ flow_table \subseteq Entry
  /\ installed \subseteq Entry
  /\ onSender \in BOOLEAN
  /\ todo \in [Loops -> SUBSET Pairs]
  /\ whole \subseteq Pairs
  /\ original \subseteq Pairs
  /\ disturbed \in BOOLEAN

\* A _delete_links call is running.  Bound: only one is at a time, though both
\* threads may be in one; see the README.
Deleting == deleting # {}

\* The scheduler's thread can handle the next event.
SchedulerFree == todo["connect"] = {} /\ todo["link"] = {} /\ (Deleting => onSender)

\* _mutex_link_state is free.
LinkStateFree == todo["link"] = {} /\ todo["sender"] = {}

\* The sender holds its lock while it raises ConnectionDown: sends of the
\* scheduler's thread, which are deferred, wait for it.
CanSend(loop) == loop = "sender" \/ ~onSender

\* No handler is running and no event is waiting to be raised.
Idle == (\A loop \in Loops : todo[loop] = {}) /\ ~Deleting

Init ==
  /\ connections = Early
  /\ up = Early
  /\ closing = {}
  /\ lost = 0
  /\ num_connect = Cardinality(Early)
  /\ adjacency = {}
  /\ deleting = {}
  /\ pending = {}
  /\ bad_links = {}
  /\ flow_table = {}
  /\ installed = {}
  /\ onSender = FALSE
  /\ todo = [loop \in Loops |-> {}]
  /\ whole = {}
  /\ original = {}
  /\ disturbed = FALSE

-----------------------------------------------------------------------------
\* Connections.

\* Variant: the switch keeps its entries.
RegisterKeeping(d) ==
  /\ SchedulerFree /\ ~onSender
  /\ d \notin connections \cup up \cup closing
  /\ connections' = connections \cup {d}
  /\ UNCHANGED <<up, closing, lost, num_connect, link_vars, bad_links, flow_vars, todo, disturbed>>

\* FEATURES_REPLY: the switch is registered and told to drop its entries.
\* (Its previous connection, if any, has been closed before.)
Register(d) ==
  /\ SchedulerFree /\ ~onSender
  /\ d \notin connections \cup up \cup closing
  /\ connections' = connections \cup {d}
  /\ installed' = {e \in installed : e.dpid # d}
  /\ disturbed' = (disturbed \/ \E e \in flow_table : e.dpid = d)
  /\ UNCHANGED <<up, closing, lost, num_connect, link_vars, bad_links, flow_table, whole, original, todo>>

\* BARRIER_REPLY: ConnectionUp, even if the connection has been found broken.
\* The controller counts it, and builds all routes when the count reaches the
\* number of switches.
ConnectionUp(d) ==
  /\ SchedulerFree
  /\ num_connect < MaxConnects
  /\ d \in (connections \cup closing) \ up
  /\ up' = up \cup {d}
  /\ num_connect' = num_connect + 1
  /\ todo' = [todo EXCEPT !["connect"] = IF num_connect' = NumDpids THEN Pairs ELSE {}]
  /\ UNCHANGED <<connections, closing, lost, link_vars, bad_links, flow_vars, disturbed>>

\* A write to the switch fails: its connection leaves core.openflow.connections
\* at once, ConnectionDown is raised later (disconnect with defer_event).
Drop(d) ==
  /\ lost < MaxLosses
  /\ d \in connections \cap Fragile
  /\ lost' = lost + 1
  /\ connections' = connections \ {d}
  /\ closing' = closing \cup {d}
  /\ UNCHANGED <<up, num_connect>>

\* A write that belongs to no route build (an LLDP packet, deferred data); the
\* thread that writes deferred data may find out in the middle of a loop.
Lose(d) ==
  /\ Drop(d)
  /\ UNCHANGED <<link_vars, bad_links, flow_vars, todo, disturbed>>

\* ConnectionDown: discovery deletes the switch's links.  It is raised when the
\* connection is closed, on the scheduler's thread, or by the sender when data
\* it wants to write to the switch fails, whatever the scheduler's thread does.
ConnectionDown(d) ==
  /\ ~Deleting
  /\ d \in closing
  /\ closing' = closing \ {d}
  /\ up' = up \ {d}
  /\ deleting' = {l \in adjacency : d \in {l.dpid1, l.dpid2}}
  /\ pending' = deleting'
  /\ \/ SchedulerFree /\ onSender' = FALSE
     \/ onSender' = (deleting' # {})
  /\ UNCHANGED <<connections, lost, num_connect, adjacency, bad_links, flow_vars,
                 todo, disturbed>>

-----------------------------------------------------------------------------
\* Links.

\* Variant: the link stays on the list of broken links.
LinkAddedStillBad(l) ==
  /\ SchedulerFree /\ LinkStateFree
  /\ l \in Links \ adjacency
  /\ l.dpid1 \in connections
  /\ l.dpid2 \in up
  /\ adjacency' = adjacency \cup {l}
  /\ UNCHANGED <<conn_vars, deleting, pending, onSender, bad_links, flow_vars, todo, disturbed>>

\* Variant: as on removal, only routes with an entry for the link are rebuilt.
LinkAddedOwnRoutes(l) ==
  /\ SchedulerFree /\ LinkStateFree
  /\ l \in Links \ adjacency
  /\ l.dpid1 \in connections
  /\ l.dpid2 \in up
  /\ adjacency' = adjacency \cup {l}
  /\ bad_links' = bad_links \ {LinkTuple(l)}
  /\ todo' = [todo EXCEPT !["link"] =
                IF LinkTuple(l) \in bad_links
                  THEN {e.pair : e \in {e \in flow_table :
                                          [dpid |-> e.dpid, port |-> e.port] \in Ends(l)}}
                  ELSE {}]
  /\ UNCHANGED <<conn_vars, deleting, pending, onSender, flow_vars, disturbed>>

\* An LLDP packet from a registered switch arrives over the connection of one
\* that is up (it may have been found broken since), and shows a link that was
\* not known: LinkEvent(added).
LinkAdded(l) ==
  /\ SchedulerFree /\ LinkStateFree
  /\ l \in Links \ adjacency
  /\ l.dpid1 \in connections
  /\ l.dpid2 \in up
  /\ adjacency' = adjacency \cup {l}
  /\ bad_links' = bad_links \ {LinkTuple(l)}
  /\ todo' = [todo EXCEPT !["link"] =
                IF LinkTuple(l) \in bad_links
                  THEN {e.pair : e \in {e \in flow_table : e.dpid \in {l.dpid1, l.dpid2}}}
                  ELSE {}]
  /\ UNCHANGED <<conn_vars, deleting, pending, onSender, flow_vars, disturbed>>

\* _expire_links finds links that have been silent for too long.
Expire(expired) ==
  /\ SchedulerFree /\ ~Deleting
  /\ expired # {}
  /\ deleting' = expired
  /\ pending' = expired
  /\ UNCHANGED <<conn_vars, adjacency, onSender, bad_links, flow_vars, todo, disturbed>>

\* The loop of the LinkEvents that a removal raises.
Remover == IF onSender THEN "sender" ELSE "link"

\* Variant: only the first end of the link is looked up in the flow table.
LinkRemovedOneEnd(l) ==
  /\ LinkStateFree
  /\ l \in pending
  /\ pending' = pending \ {l}
  /\ bad_links' = bad_links \cup {LinkTuple(l)}
  /\ todo' = [todo EXCEPT ![Remover] =
                IF LinkTuple(l) \notin bad_links
                  THEN {e.pair : e \in {e \in flow_table : e.dpid = l.dpid1 /\ e.port = l.port1}}
                  ELSE {}]
  /\ UNCHANGED <<conn_vars, adjacency, deleting, onSender, flow_vars, disturbed>>

\* Variant: a link is only put on the list when routes pass it.
LinkRemovedIfUsed(l) ==
  /\ LinkStateFree
  /\ l \in pending
  /\ pending' = pending \ {l}
  /\ todo' = [todo EXCEPT ![Remover] =
                {e.pair : e \in {e \in flow_table :
                                   [dpid |-> e.dpid, port |-> e.port] \in Ends(l)}}]
  /\ bad_links' = IF todo'[Remover] = {} THEN bad_links ELSE bad_links \cup {LinkTuple(l)}
  /\ UNCHANGED <<conn_vars, adjacency, deleting, onSender, flow_vars, disturbed>>

\* _delete_links raises LinkEvent(removed) for each link ...
LinkRemoved(l) ==
  /\ LinkStateFree
  /\ l \in pending
  /\ pending' = pending \ {l}
  /\ bad_links' = bad_links \cup {LinkTuple(l)}
  /\ todo' = [todo EXCEPT ![Remover] =
                IF LinkTuple(l) \notin bad_links
                  THEN {e.pair : e \in {e \in flow_table :
                                          [dpid |-> e.dpid, port |-> e.port] \in Ends(l)}}
                  ELSE {}]
  /\ UNCHANGED <<conn_vars, adjacency, deleting, onSender, flow_vars, disturbed>>

\* ... and then takes all of them out of the adjacency map.
FinishDelete ==
  /\ Deleting
  /\ pending = {}
  /\ todo[Remover] = {}
  /\ adjacency' = adjacency \ deleting
  /\ deleting' = {}
  /\ onSender' = FALSE
  /\ UNCHANGED <<conn_vars, pending, bad_links, flow_vars, todo, disturbed>>

-----------------------------------------------------------------------------
\* Building routes.

\* _add_flow for each of adds: it deletes the switch's entry for the pair,
\* then adds the new one.
Applied(table, pair, adds) ==
  LET last(i) == \A j \in DOMAIN adds : j > i => adds[j].dpid # adds[i].dpid
  IN  {e \in table : e.pair = pair => \A i \in DOMAIN adds : adds[i].dpid # e.dpid}
      \cup {[dpid |-> adds[i].dpid, port |-> adds[i].port, pair |-> pair] :
              i \in {i \in DOMAIN adds : last(i)}}

Outgoing(pair) == Route(pair, bad_links)

Prefixes(adds) == {SubSeq(adds, 1, n) : n \in 0..Len(adds)}

\* The loop over adds goes on from entry m to entry n: to the last one, or to
\* the one before the first that is for a switch not in conns (KeyError).
Reaches(adds, m, n, conns) ==
  /\ n \in m..Len(adds)
  /\ \A j \in (m + 1)..n : adds[j].dpid \in conns
  /\ n < Len(adds) => adds[n + 1].dpid \notin conns

Raises(out, n) == n < Len(out.adds) \/ out.raised

\* Variant: a pair whose build raises is tried again.
EndRoundRetrying(loop, pair, out, n) ==
  /\ todo' = IF Raises(out, n) THEN todo ELSE [todo EXCEPT ![loop] = @ \ {pair}]
  /\ whole' = IF Raises(out, n) \/ out.gap THEN whole \ {pair} ELSE whole \cup {pair}
  /\ original' = IF pair \in whole' /\ bad_links = {} THEN original \cup {pair} ELSE original

\* _build_route has returned or raised after n entries: an exception ends the
\* handler's loop, otherwise the next pair follows.
EndRound(loop, pair, out, n) ==
  /\ todo' = [todo EXCEPT ![loop] = IF Raises(out, n) THEN {} ELSE @ \ {pair}]
  /\ whole' = IF Raises(out, n) \/ out.gap THEN whole \ {pair} ELSE whole \cup {pair}
  /\ original' = IF pair \in whole' /\ bad_links = {} THEN original \cup {pair} ELSE original

\* One round of a handler's loop, _build_route(pair), without a failing send.
BuildOne(loop, pair, out) ==
  \E done \in Prefixes(out.adds) :
    /\ done # <<>> => CanSend(loop)
    /\ Reaches(out.adds, 0, Len(done), connections)
    /\ flow_table' = Applied(flow_table, pair, done)
    /\ installed' = Applied(installed, pair, done)
    /\ EndRound(loop, pair, out, Len(done))
    /\ disturbed' = (disturbed \/ Raises(out, Len(done)))
    /\ UNCHANGED <<conn_vars, link_vars, bad_links>>

\* Sending the delete message of the entry after done fails (on the scheduler's
\* thread: the sender only queues what its own handlers send): the connection is
\* dropped, the switch's entry is deleted from the controller's table only,
\* and looking the connection up again for the add message is a KeyError.
BuildDeleteFails(loop, pair, out) ==
  \E done \in Prefixes(out.adds) \ {out.adds} :
    LET d == out.adds[Len(done) + 1].dpid
    IN  /\ loop # "sender" /\ CanSend(loop)
        /\ \A j \in 1..(Len(done) + 1) : out.adds[j].dpid \in connections
        /\ Drop(d)
        /\ flow_table' = {e \in Applied(flow_table, pair, done) :
                            ~(e.dpid = d /\ e.pair = pair)}
        /\ installed' = Applied(installed, pair, done)
        /\ EndRound(loop, pair, out, Len(done))
        /\ disturbed' = TRUE
        /\ UNCHANGED <<link_vars, bad_links>>

\* Sending the add message of entry m fails: the connection is dropped, but
\* the entry is recorded and the route is built on, as far as it comes.
BuildAddFails(loop, pair, out) ==
  \E m \in DOMAIN out.adds, done \in Prefixes(out.adds) :
    LET d == out.adds[m].dpid
    IN  /\ loop # "sender" /\ CanSend(loop)
        /\ \A j \in 1..m : out.adds[j].dpid \in connections
        /\ Reaches(out.adds, m, Len(done), connections \ {d})
        /\ Drop(d)
        /\ flow_table' = Applied(flow_table, pair, done)
        /\ installed' = {e \in Applied(installed, pair, done) :
                           ~(e.dpid = d /\ e.pair = pair)}
        /\ EndRound(loop, pair, out, Len(done))
        /\ disturbed' = TRUE
        /\ UNCHANGED <<link_vars, bad_links>>

\* (out is bound by a quantifier so that the route is computed once.)
Build(loop, pair) ==
  /\ pair \in todo[loop]
  /\ \E out \in {Outgoing(pair)} :
       BuildOne(loop, pair, out) \/ BuildDeleteFails(loop, pair, out) \/ BuildAddFails(loop, pair, out)

Next ==
  \/ \E d \in Dpids : Register(d) \/ ConnectionUp(d) \/ Lose(d) \/ ConnectionDown(d)
  \/ \E l \in Links : LinkAdded(l) \/ LinkRemoved(l)
  \/ \E expired \in {s \in SUBSET adjacency : Cardinality(s) <= MaxBatch} : Expire(expired)
  \/ FinishDelete
  \/ \E loop \in Loops, pair \in Pairs : Build(loop, pair)

\* Both threads run their handlers to the end, unless they wait for each other.
HandlerSteps ==
  \/ \E l \in Links : LinkRemoved(l)
  \/ FinishDelete
  \/ \E loop \in Loops, pair \in Pairs : Build(loop, pair)

Spec == Init /\ [][Next]_vars /\ WF_vars(HandlerSteps)

-----------------------------------------------------------------------------
\* A link is taken for broken only if discovery has lost one of its
\* directions (or is about to take it out of its map): a sound link does not
\* stay on the list that routes avoid.
BadLinkIsMissing ==
  \A t \in bad_links :
    \E l \in Links : LinkTuple(l) = t /\ (l \notin adjacency \/ l \in deleting)

\* When discovery loses the last direction of a link, the controller has it
\* on its list.  (After the loss of one direction of two it need not: the
\* list has one bit per link, and either direction coming back clears it.)
Known(t) == \E l \in adjacency : LinkTuple(l) = t
LossIsRecorded ==
  [][\A t \in LinkTuples : Known(t) /\ ~Known(t)' => t \in bad_links']_vars

\* A connected switch forwards by no entry the controller does not remember:
\* a failed link is looked up in _flow_table to find the routes to rebuild.
InstalledIsRecorded ==
  \A e \in installed : e.dpid \in connections => e \in flow_table

\* No event is stuck behind a handler that does not return: links being
\* deleted are eventually deleted, even if building a route never ends.
DeletionsEnd == Deleting ~> ~Deleting

\* dcell_controller.py, _handle_openflow_ConnectionUp: "build routing tables
\* after all switches connected".  Refuted: a switch that connects twice is
\* counted twice.
BuiltAfterAllConnected ==
  [][num_connect' # num_connect /\ todo'["connect"] # {} => up' = Dpids]_vars
=============================================================================
