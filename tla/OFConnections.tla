---------------------------- MODULE OFConnections ----------------------------
(***************************************************************************)
(* The life of OpenFlow connections, pox/pox/openflow/of_01.py: the task   *)
(* that accepts and reads them, the handshake, Connection.send and         *)
(* Connection.disconnect, and the map of connections in openflow/__init__. *)
(*                                                                         *)
(* The task reads a chunk of messages from one connection and handles them *)
(* all before it turns to another; a write fails only when the other end   *)
(* has gone.  Writes that are deferred are the subject of DeferredSender.  *)
(***************************************************************************)
EXTENDS Naturals, Sequences, FiniteSets

CONSTANTS Conns,          \* connections, numbered as by Connection.ID
          Dpids,
          SwitchOf,       \* the switch at the other end of each connection
          Ports,          \* ports that switches may have
          NoConn,         \* no connection
          StrayBarrier,   \* a switch may send a BARRIER_REPLY nobody asked for
          MaxGone,        \* bound: connections that break
          MaxExtra        \* bound: messages switches send on their own

ASSUME ConnShape ==
  /\ Conns \subseteq Nat /\ NoConn \notin Conns
  /\ SwitchOf \in [Conns -> Dpids]
  /\ StrayBarrier \in BOOLEAN
  /\ {MaxGone, MaxExtra} \subseteq Nat

VARIABLES stage,         \* "none", "open" (in the task's sockets) or "closed"
          alive,         \* connections whose other end is there
          wire,          \* messages from the switch that have not been read
          request,       \* the request the switch has still to answer
          ports,         \* the ports each switch has
          reading,       \* the connection being read
          buf,           \* its messages that have been read and not handled
          asked,         \* _features_request_sent
          dpid_known,    \* connections whose dpid is not None
          barrier,       \* connections with a _barrier
          announced,     \* handshake finished, ConnectionUp raised
          disconnected,  \* connections with disconnected set
          raised,        \* disconnection_raised
          con_ports,     \* ports of each connection
          connections,   \* nexus._connections
          missed,        \* history: a PORT_STATUS ignored in the handshake
          gone,          \* number of connections broken so far
          extra          \* number of messages switches sent on their own
switch_vars == <<alive, wire, request, ports, gone, extra>>
shake_vars == <<asked, dpid_known, barrier, announced, con_ports, missed>>
end_vars == <<disconnected, raised, connections>>
vars == <<stage, switch_vars, reading, buf, shake_vars, end_vars>>

Message == [type : {"hello", "features", "port_added", "port_deleted", "barrier",
                    "stray", "error", "echo"}, ports : SUBSET Ports]
Plain(type) == [type |-> type, ports |-> {}]
Open == {c \in Conns : stage[c] = "open"}

TypeOK ==
  /\ stage \in [Conns -> {"none", "open", "closed"}]
  /\ wire \in [Conns -> Seq(Message)]
  /\ request \in [Conns -> {"none", "features", "barrier"}]
  /\ ports \in [Dpids -> SUBSET Ports]
  /\ reading \in Conns \cup {NoConn}
  /\ buf \in Seq(Message) /\ (buf = <<>> <=> reading = NoConn)
  /\ raised \subseteq disconnected
  /\ announced \subseteq barrier /\ barrier \subseteq asked
  /\ asked \cup disconnected \cup alive \subseteq {c \in Conns : stage[c] # "none"}
  /\ dpid_known \cup missed \subseteq asked
  /\ con_ports \in [Conns -> SUBSET Ports]
  /\ connections \in [Dpids -> Conns \cup {NoConn}]
  /\ gone \in 0..MaxGone
  /\ extra \in 0..MaxExtra

Init ==
  /\ stage = [c \in Conns |-> "none"]
  /\ alive = {}
  /\ wire = [c \in Conns |-> <<>>]
  /\ request = [c \in Conns |-> "none"]
  /\ ports \in {[d \in Dpids |-> set] : set \in SUBSET Ports}
  /\ reading = NoConn
  /\ buf = <<>>
  /\ asked = {}
  /\ dpid_known = {}
  /\ barrier = {}
  /\ announced = {}
  /\ disconnected = {}
  /\ raised = {}
  /\ con_ports = [c \in Conns |-> {}]
  /\ connections = [d \in Dpids |-> NoConn]
  /\ missed = {}
  /\ gone = 0
  /\ extra = 0

-----------------------------------------------------------------------------
\* The switches.

\* A switch connects and is accepted, even if its old connection is still to
\* be closed.  Both ends say hello; the controller's may fail.
Connect(c) ==
  /\ reading = NoConn
  /\ stage[c] = "none"
  /\ \A b \in Conns : SwitchOf[b] = SwitchOf[c] /\ b < c =>
       stage[b] # "none" /\ b \notin alive
  /\ stage' = [stage EXCEPT ![c] = "open"]
  /\ \/ /\ alive' = alive \cup {c}
        /\ wire' = [wire EXCEPT ![c] = <<Plain("hello")>>]
        /\ UNCHANGED <<gone, disconnected>>
     \/ /\ gone < MaxGone
        /\ gone' = gone + 1
        /\ disconnected' = disconnected \cup {c}
        /\ \E sent \in {<<>>, <<Plain("hello")>>} : wire' = [wire EXCEPT ![c] = sent]
        /\ UNCHANGED alive
  /\ UNCHANGED <<request, ports, extra, reading, buf, shake_vars, raised, connections>>

\* The switch answers a request; one that does not know barriers says so.
Answer(c) ==
  /\ c \in alive
  /\ \E reply \in CASE request[c] = "features" ->
                        {[type |-> "features", ports |-> ports[SwitchOf[c]]]}
                    [] request[c] = "barrier" -> {Plain("barrier"), Plain("error")}
                    [] OTHER -> {} :
       wire' = [wire EXCEPT ![c] = Append(@, reply)]
  /\ request' = [request EXCEPT ![c] = "none"]
  /\ UNCHANGED <<stage, alive, ports, gone, extra, reading, buf, shake_vars, end_vars>>

\* A port of a switch comes or goes: PORT_STATUS.
PortChange(d, p) ==
  /\ extra < MaxExtra
  /\ extra' = extra + 1
  /\ ports' = [ports EXCEPT ![d] = IF p \in @ THEN @ \ {p} ELSE @ \cup {p}]
  /\ LET type == IF p \in ports[d] THEN "port_deleted" ELSE "port_added"
     IN  wire' = [c \in Conns |-> IF c \in alive /\ SwitchOf[c] = d
                                    THEN Append(wire[c], [type |-> type, ports |-> {p}])
                                    ELSE wire[c]]
  /\ UNCHANGED <<stage, alive, request, gone, reading, buf, shake_vars, end_vars>>

\* ECHO_REQUEST, or a BARRIER_REPLY with a number of its own.
Unasked(c) ==
  /\ c \in alive
  /\ extra < MaxExtra
  /\ extra' = extra + 1
  /\ \E type \in {"echo", "stray"} :
       /\ type = "stray" => StrayBarrier
       /\ wire' = [wire EXCEPT ![c] = Append(@, Plain(type))]
  /\ UNCHANGED <<stage, alive, request, ports, gone, reading, buf, shake_vars, end_vars>>

\* The other end is no longer there; what it has sent may still arrive.
Gone(c) ==
  /\ gone < MaxGone
  /\ c \in alive
  /\ gone' = gone + 1
  /\ alive' = alive \ {c}
  /\ request' = [request EXCEPT ![c] = "none"]
  /\ UNCHANGED <<stage, wire, ports, extra, reading, buf, shake_vars, end_vars>>

-----------------------------------------------------------------------------
\* Connection.disconnect and Connection.send.

\* nexus._disconnect removes whatever connection the switch has.
Unregister(c) == connections' = [connections EXCEPT ![SwitchOf[c]] = NoConn]

\* Variant: the map is left to close().
BreakRegistered(c) ==
  /\ disconnected' = disconnected \cup {c}
  /\ UNCHANGED <<raised, connections>>

\* disconnect(defer_event = True): ConnectionDown is left to close().
Break(c) ==
  /\ disconnected' = disconnected \cup {c}
  /\ IF c \in dpid_known THEN Unregister(c) ELSE UNCHANGED connections
  /\ UNCHANGED raised

\* What handlers send to c: nothing once it is disconnected.
CanSend(c) == c \in alive /\ c \notin disconnected
MayFail(c) == c \notin alive /\ c \notin disconnected

\* Some component writes to a connection it got from the map or from an event.
Send(c) ==
  /\ MayFail(c)
  /\ c \in Open
  /\ c \in announced \/ connections[SwitchOf[c]] = c
  /\ Break(c)
  /\ UNCHANGED <<stage, switch_vars, reading, buf, shake_vars>>

\* Variant: disconnect is told to defer the event here as well.
CloseDeferring(c) ==
  /\ reading = NoConn
  /\ c \in Open
  /\ c \notin alive \/ c \in disconnected
  /\ stage' = [stage EXCEPT ![c] = "closed"]
  /\ alive' = alive \ {c}
  /\ Break(c)
  /\ UNCHANGED <<wire, request, ports, gone, extra, reading, buf, shake_vars>>

\* Variant: only a connection that was announced is taken out of the map.
CloseAnnounced(c) ==
  /\ reading = NoConn
  /\ c \in Open
  /\ c \notin alive \/ c \in disconnected
  /\ stage' = [stage EXCEPT ![c] = "closed"]
  /\ alive' = alive \ {c}
  /\ disconnected' = disconnected \cup {c}
  /\ IF c \in announced
       THEN Unregister(c) /\ raised' = raised \cup {c}
       ELSE UNCHANGED <<connections, raised>>
  /\ UNCHANGED <<wire, request, ports, gone, extra, reading, buf, shake_vars>>

\* read() finds the end of the stream or an error: close().
Close(c) ==
  /\ reading = NoConn
  /\ c \in Open
  /\ c \notin alive \/ c \in disconnected
  /\ stage' = [stage EXCEPT ![c] = "closed"]
  /\ alive' = alive \ {c}
  /\ disconnected' = disconnected \cup {c}
  /\ IF c \in dpid_known
       THEN Unregister(c) /\ raised' = raised \cup {c}
       ELSE UNCHANGED <<connections, raised>>
  /\ UNCHANGED <<wire, request, ports, gone, extra, reading, buf, shake_vars>>

-----------------------------------------------------------------------------
\* Reading and handling messages.

\* Some of the messages that have arrived are read at once.
Read(c) ==
  /\ reading = NoConn
  /\ c \in Open
  /\ \E n \in 1..Len(wire[c]) :
       /\ buf' = SubSeq(wire[c], 1, n)
       /\ wire' = [wire EXCEPT ![c] = SubSeq(@, n + 1, Len(@))]
  /\ reading' = c
  /\ UNCHANGED <<stage, alive, request, ports, gone, extra, shake_vars, end_vars>>

\* The next message of the connection being read has one of these types.
Handles(c, types) ==
  /\ reading = c
  /\ Head(buf).type \in types
  /\ buf' = Tail(buf)
  /\ reading' = IF Len(buf) = 1 THEN NoConn ELSE c
  /\ UNCHANGED <<stage, alive, wire, ports, gone, extra>>

\* The first HELLO is answered with a features request: it is received, gets
\* lost, or fails.
HandleHello(c) ==
  /\ Handles(c, {"hello"})
  /\ c \notin asked
  /\ asked' = asked \cup {c}
  /\ request' = IF CanSend(c) THEN [request EXCEPT ![c] = "features"] ELSE request
  /\ UNCHANGED end_vars \/ (MayFail(c) /\ Break(c))
  /\ UNCHANGED <<dpid_known, barrier, announced, con_ports, missed>>

\* The connection is registered; the switch is told to drop its flow entries,
\* and is sent a barrier.
HandleFeatures(c) ==
  /\ Handles(c, {"features"})
  /\ dpid_known' = dpid_known \cup {c}
  /\ con_ports' = [con_ports EXCEPT ![c] = Head(buf).ports]
  /\ barrier' = barrier \cup {c}
  /\ request' = IF CanSend(c) THEN [request EXCEPT ![c] = "barrier"] ELSE request
  /\ \/ /\ connections' = [connections EXCEPT ![SwitchOf[c]] = c]
        /\ UNCHANGED <<disconnected, raised>>
     \/ /\ MayFail(c)
        /\ disconnected' = disconnected \cup {c}
        /\ Unregister(c)
        /\ UNCHANGED raised
  /\ UNCHANGED <<asked, announced, missed>>

\* BARRIER_REPLY, or the error of a switch without barriers: ConnectionUp.
HandleBarrier(c) ==
  /\ Handles(c, {"barrier", "error"})
  /\ announced' = IF c \in barrier THEN announced \cup {c} ELSE announced
  /\ UNCHANGED <<request, end_vars, asked, dpid_known, barrier, con_ports, missed>>

\* A BARRIER_REPLY with another number: "failed connect".
HandleStray(c) ==
  /\ Handles(c, {"stray"})
  /\ IF c \in barrier \ announced
       THEN /\ dpid_known' = dpid_known \ {c}
            /\ disconnected' = disconnected \cup {c}
            /\ UNCHANGED <<connections, raised>>
       ELSE UNCHANGED <<dpid_known, end_vars>>
  /\ UNCHANGED <<request, asked, barrier, announced, con_ports, missed>>

HandleEcho(c) ==
  /\ Handles(c, {"echo"})
  /\ \/ UNCHANGED end_vars
     \/ MayFail(c) /\ Break(c)
  /\ UNCHANGED <<request, shake_vars>>

\* Variant: a port that is deleted is not masked.
HandlePortStatusAdds(c) ==
  /\ Handles(c, {"port_added", "port_deleted"})
  /\ con_ports' = IF c \in announced /\ Head(buf).type = "port_added"
                    THEN [con_ports EXCEPT ![c] = @ \cup Head(buf).ports] ELSE con_ports
  /\ missed' = IF c \in barrier \ announced THEN missed \cup {c} ELSE missed
  /\ UNCHANGED <<request, end_vars, asked, dpid_known, barrier, announced>>

\* PORT_STATUS has no handler during the handshake.
HandlePortStatus(c) ==
  /\ Handles(c, {"port_added", "port_deleted"})
  /\ LET port == Head(buf).ports
     IN  con_ports' = IF c \notin announced THEN con_ports
                      ELSE [con_ports EXCEPT ![c] =
                              IF Head(buf).type = "port_added" THEN @ \cup port ELSE @ \ port]
  /\ missed' = IF c \in barrier \ announced THEN missed \cup {c} ELSE missed
  /\ UNCHANGED <<request, end_vars, asked, dpid_known, barrier, announced>>

Handle(c) ==
  \/ HandleHello(c) \/ HandleFeatures(c) \/ HandleBarrier(c) \/ HandleStray(c)
  \/ HandleEcho(c) \/ HandlePortStatus(c)

Next ==
  \/ \E c \in Conns : Connect(c) \/ Answer(c) \/ Unasked(c) \/ Gone(c) \/ Send(c)
  \/ \E c \in Conns : Close(c) \/ Read(c) \/ Handle(c)
  \/ \E d \in Dpids, p \in Ports : PortChange(d, p)

\* The task handles what it has read, and its loop leaves out no connection.
Fairness == \A c \in Conns : WF_vars(Handle(c)) /\ WF_vars(Read(c)) /\ WF_vars(Close(c))

Spec == Init /\ [][Next]_vars /\ Fairness
-----------------------------------------------------------------------------
\* No connection stays in the map after it is closed, but one whose handshake
\* failed: its dpid has been reset by then, and is not looked for in the map.
\* (And every variable keeps its type.)
ClosedIsForgotten ==
  /\ TypeOK
  /\ \A d \in Dpids : connections[d] \in dpid_known => connections[d] \in Open

\* A connection that breaks once its switch is known is announced as gone, in
\* whatever state the handshake is, and whoever finds out first (only a failed
\* handshake forgets the switch again).
LossIsAnnounced ==
  \A c \in Conns : c \in dpid_known /\ c \notin alive ~> c \in raised \/ c \notin dpid_known

\* The ports of an announced connection are those of the switch once the
\* messages on their way have been handled, unless a change met the handshake.
\* (The last message about a port says whether it is there.)
Changes(messages, p) ==
  {i \in DOMAIN messages : /\ messages[i].type \in {"port_added", "port_deleted"}
                           /\ p \in messages[i].ports}
After(messages, known) ==
  {p \in Ports :
     \/ p \in known /\ Changes(messages, p) = {}
     \/ \E i \in Changes(messages, p) : /\ messages[i].type = "port_added"
                                       /\ \A j \in Changes(messages, p) : j <= i}
Coming(c) == IF reading = c THEN buf \o wire[c] ELSE wire[c]
PortsCurrent(c) == After(Coming(c), con_ports[c]) = ports[SwitchOf[c]]
PortsUpToDate ==
  \A c \in announced \cap alive : c \notin missed => PortsCurrent(c)

\* A connection that is closed is forgotten, and the ports of one that is
\* announced are those of its switch, whatever happens during the handshake.
SwitchesAsKnown == ClosedIsForgotten /\ PortsUpToDate

\* What listeners hear and what the map of connections holds is as promised,
\* whatever breaks at whatever point of the handshake, and when a switch comes
\* back before its old connection has been closed.
Sessions == INSTANCE SwitchSessions WITH
  known <- dpid_known,
  failed <- barrier \ dpid_known,
  broken <- disconnected,
  up <- announced,
  down <- raised,
  entry <- connections
ImplementsSwitchSessions == Sessions!Spec
=============================================================================
