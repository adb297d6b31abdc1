------------------------------ MODULE Discovery ------------------------------
(***************************************************************************)
(* Link discovery, pox/pox/openflow/discovery.py: the LLDPSender, which    *)
(* sends a packet out of every port of every connected switch in turn, and *)
(* Discovery, which takes a link for working while such packets arrive.    *)
(*                                                                         *)
(* Time passes in ticks.  A timer that is due runs before the next tick    *)
(* (the scheduler thread is taken to be fast enough), and a packet takes   *)
(* at most MaxDelay ticks.  All handlers run on the scheduler thread.      *)
(***************************************************************************)
EXTENDS PythonLists

CONSTANTS Dpids,
          Wires,         \* directed wires [dpid1, port1, dpid2, port2]
          PortsOf,       \* the ports each switch has at first
          Early,         \* switches that are connected at first
          OFPP_MAX,      \* larger port numbers are not physical ports
          link_timeout,  \* _link_timeout, in ticks
          check_period,  \* _timeout_check_period
          shortest,      \* 1 / _sends_per_sec: the shortest timer interval
          MaxDelay,      \* bound: ticks a packet is on its way
          MaxEvents      \* bound: connections, ports and cables that change

\* Variant: the whole timeout.
SendCycleWhole == link_timeout

\* Half the timeout, so that a link can miss one packet.
send_cycle_time == link_timeout \div 2

PortIds == Dpids \X UNION {PortsOf[d] : d \in Dpids}

ASSUME Times ==
  /\ {link_timeout, send_cycle_time, check_period, shortest} \subseteq Nat \ {0}
  /\ MaxDelay \in Nat /\ MaxEvents \in Nat
ASSUME PortShape ==
  /\ Early \subseteq Dpids /\ IsFiniteSet(Early)
  /\ DOMAIN PortsOf = Dpids
  /\ \A d \in Dpids : PortsOf[d] \subseteq Nat /\ IsFiniteSet(PortsOf[d])
  /\ OFPP_MAX \in Nat
ASSUME WireShape == Wires \subseteq [dpid1 : Dpids, port1 : Nat, dpid2 : Dpids, port2 : Nat]

VARIABLES up,          \* switches that are connected
          ports,       \* ports each switch has
          live,        \* wires that carry packets
          this_cycle,  \* _this_cycle: ports to send from in this cycle
          next_cycle,  \* _next_cycle: ports already sent from
          timer,       \* ticks until the sender's timer is due, or Off
          check,       \* ticks until _expire_links is due
          flying,      \* LLDP packets on their way, with their age
          adjacency,   \* age of each known link's time stamp
          deleting,    \* links in a running _delete_links call
          told,        \* history: links whose last LinkEvent said "added"
          wait,        \* history: ticks since a port's last packet
          quiet,       \* history: ticks since the last external event
          events       \* number of external events
sender_vars == <<this_cycle, next_cycle, timer>>
link_vars == <<adjacency, deleting, told>>
vars == <<up, ports, live, sender_vars, check, flying, link_vars, wait, quiet, events>>

Off == -1
Least(a, b) == IF a < b THEN a ELSE b
Queued == ToSet(this_cycle) \cup ToSet(next_cycle)

TypeOK ==
  /\ up \subseteq Dpids
  /\ DOMAIN ports = Dpids
  /\ live \subseteq Wires
  /\ this_cycle \in Seq(PortIds) /\ next_cycle \in Seq(PortIds)
  /\ timer \in {Off} \cup 0..send_cycle_time \cup 0..shortest
  /\ check \in 0..check_period
  /\ flying \subseteq [link : Wires, age : 0..MaxDelay]
  /\ DOMAIN adjacency \subseteq Wires
  /\ deleting \subseteq DOMAIN adjacency
  /\ told \subseteq DOMAIN adjacency
  /\ wait \in [PortIds -> 0..(send_cycle_time + 1)]
  /\ quiet \in 0..(link_timeout + 1)
  /\ events \in 0..MaxEvents

-----------------------------------------------------------------------------
\* The sender.

\* Variant: one packet per cycle.
IntervalWhole(num_packets) ==
  IF num_packets * shortest > send_cycle_time THEN shortest ELSE send_cycle_time

\* Every packet once per cycle, but not more often than allowed: then the
\* timer handler sends several packets at once.
Interval(num_packets) ==
  IF num_packets * shortest > send_cycle_time THEN shortest ELSE send_cycle_time \div num_packets
Chunks(num_packets) ==
  IF num_packets * shortest > send_cycle_time
    THEN {(num_packets * shortest) \div send_cycle_time,
          (num_packets * shortest + send_cycle_time - 1) \div send_cycle_time}
    ELSE {1}

\* _set_timer: the old timer is cancelled, the new one starts from zero.
TimerFor(num_packets) == IF num_packets = 0 THEN Off ELSE Interval(num_packets)
SetTimer == timer' = TimerFor(Len(this_cycle') + Len(next_cycle'))

PortsOfSwitch(d, of) == {d} \X {p \in of[d] : p <= OFPP_MAX}
\* The order in which a features reply has the ports, which may be any.
Listing(portset) == CHOOSE s \in [1..Cardinality(portset) -> portset] : ToSet(s) = portset

\* The switches in Early have just connected, one after the other.
Init ==
  /\ up = Early
  /\ ports = PortsOf
  /\ live = Wires
  /\ this_cycle = <<>>
  /\ next_cycle = Listing(UNION {PortsOfSwitch(d, PortsOf) : d \in Early})
  /\ timer = TimerFor(Len(next_cycle))
  /\ check = check_period
  /\ flying = {}
  /\ adjacency = <<>>
  /\ deleting = {}
  /\ told = {}
  /\ wait = [p \in PortIds |-> 0]
  /\ quiet = 0
  /\ events = 0

\* No _delete_links call is running.
Idle == deleting = {}

External == events < MaxEvents /\ events' = events + 1 /\ quiet' = 0

\* Variant: the switch's ports stay in the list of the running cycle.
ConnectionDownNextOnly(d) ==
  /\ Idle /\ External
  /\ d \in up
  /\ up' = up \ {d}
  /\ deleting' = {l \in DOMAIN adjacency : d \in {l.dpid1, l.dpid2}}
  /\ next_cycle' = Without(next_cycle, {p \in PortIds : p[1] = d})
  /\ UNCHANGED this_cycle
  /\ SetTimer
  /\ UNCHANGED <<ports, live, check, flying, adjacency, told, wait>>

\* A switch connects, or connects again before its old connection is closed:
\* its ports go to the end of the next cycle.
ConnectionUp(d) ==
  /\ Idle /\ External
  /\ up' = up \cup {d}
  /\ this_cycle' = Without(this_cycle, {p \in PortIds : p[1] = d})
  /\ next_cycle' = Without(next_cycle, {p \in PortIds : p[1] = d})
                     \o Listing(PortsOfSwitch(d, ports))
  /\ wait' = [p \in PortIds |-> IF p[1] = d THEN 0 ELSE wait[p]]
  /\ SetTimer
  /\ UNCHANGED <<ports, live, check, flying, link_vars>>

\* Discovery, which listens first, deletes the switch's links (see Removed);
\* the sender forgets its ports.
ConnectionDown(d) ==
  /\ Idle /\ External
  /\ d \in up
  /\ up' = up \ {d}
  /\ deleting' = {l \in DOMAIN adjacency : d \in {l.dpid1, l.dpid2}}
  /\ this_cycle' = Without(this_cycle, {p \in PortIds : p[1] = d})
  /\ next_cycle' = Without(next_cycle, {p \in PortIds : p[1] = d})
  /\ SetTimer
  /\ UNCHANGED <<ports, live, check, flying, adjacency, told, wait>>

\* A switch gets a port: PortStatus(added) if it is connected.
PortAdded(d, p) ==
  /\ Idle /\ External
  /\ p \in PortsOf[d] \ ports[d]
  /\ ports' = [ports EXCEPT ![d] = @ \cup {p}]
  /\ IF d \in up /\ p <= OFPP_MAX
       THEN /\ this_cycle' = Without(this_cycle, {<<d, p>>})
            /\ next_cycle' = Append(Without(next_cycle, {<<d, p>>}), <<d, p>>)
            /\ wait' = [wait EXCEPT ![<<d, p>>] = 0]
            /\ SetTimer
       ELSE UNCHANGED <<sender_vars, wait>>
  /\ UNCHANGED <<up, live, check, flying, link_vars>>

\* A switch loses a port: PortStatus(deleted) if it is connected.
PortDeleted(d, p) ==
  /\ Idle /\ External
  /\ p \in ports[d]
  /\ ports' = [ports EXCEPT ![d] = @ \ {p}]
  /\ IF d \in up /\ p <= OFPP_MAX
       THEN /\ this_cycle' = Without(this_cycle, {<<d, p>>})
            /\ next_cycle' = Without(next_cycle, {<<d, p>>})
            /\ SetTimer
       ELSE UNCHANGED sender_vars
  /\ UNCHANGED <<up, live, check, flying, link_vars, wait>>

\* A packet sent from a port of a connected switch passes its wire.
Carries(w) == w \in live /\ w.port1 \in ports[w.dpid1] /\ w.port2 \in ports[w.dpid2]

\* The next num ports. When this_cycle is used up the next cycle starts, maybe
\* more than once, with all ports.
Take(num) ==
  LET m == Len(this_cycle)
      all == this_cycle \o next_cycle
      n == Len(all)
      round == next_cycle \o this_cycle
      last == ((num - m - 1) % n) + 1             \* sent in the cycle started last
  IN  [sent |-> {all[((j - 1) % n) + 1] : j \in 1..num},
       this |-> IF num <= m THEN SubSeq(this_cycle, num + 1, m) ELSE SubSeq(round, last + 1, n),
       next |-> IF num <= m THEN next_cycle \o SubSeq(this_cycle, 1, num) ELSE SubSeq(round, 1, last)]

\* _timer_handler.
SendPackets ==
  /\ Idle
  /\ timer = 0
  /\ \E num \in Chunks(Len(this_cycle) + Len(next_cycle)) :
       LET taken == Take(num)
       IN  /\ this_cycle' = taken.this
           /\ next_cycle' = taken.next
           /\ flying' = flying \cup {[link |-> w, age |-> 0] :
                                       w \in {w \in Wires : Carries(w) /\ <<w.dpid1, w.port1>> \in taken.sent}}
           /\ wait' = [p \in PortIds |-> IF p \in taken.sent THEN 0 ELSE wait[p]]
  /\ timer' = Interval(Len(this_cycle) + Len(next_cycle))
  /\ UNCHANGED <<up, ports, live, check, link_vars, quiet, events>>

-----------------------------------------------------------------------------
\* The receiver.

\* The map with a fresh time stamp for l.
Stamped(l) == [k \in DOMAIN adjacency \cup {l} |-> IF k = l THEN 0 ELSE adjacency[k]]

\* Variant: the time stamp of a known link is not refreshed.
PacketInFirstOnly(f) ==
  /\ Idle
  /\ f \in flying
  /\ flying' = flying \ {f}
  /\ IF {f.link.dpid1, f.link.dpid2} \subseteq up /\ f.link \notin DOMAIN adjacency
       THEN adjacency' = Stamped(f.link) /\ told' = told \cup {f.link}
       ELSE UNCHANGED <<adjacency, told>>
  /\ UNCHANGED <<up, ports, live, sender_vars, check, deleting, wait, quiet, events>>

\* The packet reaches the controller as a PacketIn, and is ignored unless both
\* switches are connected; it shows a link or refreshes its time stamp.
PacketIn(f) ==
  /\ Idle
  /\ f \in flying
  /\ flying' = flying \ {f}
  /\ IF {f.link.dpid1, f.link.dpid2} \subseteq up
       THEN /\ adjacency' = Stamped(f.link)
            /\ told' = IF f.link \in DOMAIN adjacency THEN told ELSE told \cup {f.link}
       ELSE UNCHANGED <<adjacency, told>>
  /\ UNCHANGED <<up, ports, live, sender_vars, check, deleting, wait, quiet, events>>

\* Variant: the links are taken out of the map without an event.
ExpireLinksSilently ==
  /\ Idle
  /\ check = 0
  /\ check' = check_period
  /\ adjacency' = [l \in {l \in DOMAIN adjacency : adjacency[l] <= link_timeout} |-> adjacency[l]]
  /\ told' = told \cap DOMAIN adjacency'
  /\ UNCHANGED <<up, ports, live, sender_vars, flying, deleting, wait, quiet, events>>

\* Variant: only a link whose time has just run out is deleted.
ExpireLinksExact ==
  /\ Idle
  /\ check = 0
  /\ check' = check_period
  /\ deleting' = {l \in DOMAIN adjacency : adjacency[l] = link_timeout + 1}
  /\ UNCHANGED <<up, ports, live, sender_vars, flying, adjacency, told, wait, quiet, events>>

\* _expire_links deletes the links whose last packet is too old.
ExpireLinks ==
  /\ Idle
  /\ check = 0
  /\ check' = check_period
  /\ deleting' = {l \in DOMAIN adjacency : adjacency[l] > link_timeout}
  /\ UNCHANGED <<up, ports, live, sender_vars, flying, adjacency, told, wait, quiet, events>>

\* _delete_links raises LinkEvent(removed) for each link ...
Removed(l) ==
  /\ l \in deleting \cap told
  /\ told' = told \ {l}
  /\ UNCHANGED <<up, ports, live, sender_vars, check, flying, adjacency, deleting, wait, quiet, events>>

\* ... and then takes all of them out of the map.
FinishDelete ==
  /\ deleting # {}
  /\ deleting \cap told = {}
  /\ adjacency' = [l \in DOMAIN adjacency \ deleting |-> adjacency[l]]
  /\ deleting' = {}
  /\ UNCHANGED <<up, ports, live, sender_vars, check, flying, told, wait, quiet, events>>

-----------------------------------------------------------------------------
\* The surroundings.

Opposite(w) == [dpid1 |-> w.dpid2, port1 |-> w.port2, dpid2 |-> w.dpid1, port2 |-> w.port1]

\* A cable is unplugged or plugged in again, both directions at once.
\* (PortStatus says "modified", which the sender ignores.)
Unplug(w) ==
  /\ Idle /\ External
  /\ w \in live
  /\ live' = live \ {w, Opposite(w)}
  /\ UNCHANGED <<up, ports, sender_vars, check, flying, link_vars, wait>>
Replug(w) ==
  /\ Idle /\ External
  /\ w \in Wires \ live
  /\ live' = live \cup ({w, Opposite(w)} \cap Wires)
  /\ UNCHANGED <<up, ports, sender_vars, check, flying, link_vars, wait>>

\* A packet is lost on a wire that has been cut since.
Lost(f) ==
  /\ Idle
  /\ f \in flying /\ ~Carries(f.link)
  /\ flying' = flying \ {f}
  /\ UNCHANGED <<up, ports, live, sender_vars, check, link_vars, wait, quiet, events>>

Tick ==
  /\ Idle
  /\ timer # 0 /\ check # 0
  /\ \A f \in flying : f.age < MaxDelay
  /\ timer' = IF timer = Off THEN Off ELSE timer - 1
  /\ check' = check - 1
  /\ flying' = {[f EXCEPT !.age = @ + 1] : f \in flying}
  /\ adjacency' = [l \in DOMAIN adjacency |-> Least(adjacency[l], link_timeout + check_period) + 1]
  /\ wait' = [p \in PortIds |-> Least(wait[p], send_cycle_time) + 1]
  /\ quiet' = Least(quiet, link_timeout) + 1
  /\ UNCHANGED <<up, ports, live, this_cycle, next_cycle, deleting, told, events>>

\* What happens without the outside: the scheduler thread and time go on.
Progress ==
  \/ SendPackets \/ ExpireLinks \/ FinishDelete \/ Tick
  \/ \E f \in flying : PacketIn(f) \/ Lost(f)
  \/ \E l \in Wires : Removed(l)

Next ==
  \/ Progress
  \/ \E d \in Dpids : ConnectionUp(d) \/ ConnectionDown(d)
  \/ \E d \in Dpids, p \in UNION {PortsOf[e] : e \in Dpids} : PortAdded(d, p) \/ PortDeleted(d, p)
  \/ \E w \in Wires : Unplug(w) \/ Replug(w)

Spec == Init /\ [][Next]_vars /\ WF_vars(Progress)

-----------------------------------------------------------------------------
\* The links that LLDP packets can pass.
Working == {w \in Wires : Carries(w) /\ {w.dpid1, w.dpid2} \subseteq up}

\* LLDPSender: every port of a connected switch is in one of the two lists,
\* exactly once, whatever switches and ports come and go in the middle of a
\* cycle; nothing else is.  (And every variable keeps its type.)
EveryPortOnce ==
  /\ TypeOK
  /\ Queued = UNION {PortsOfSwitch(d, ports) : d \in up}
  /\ Len(this_cycle) + Len(next_cycle) = Cardinality(Queued)

\* One packet at a time is enough.  (Otherwise the number of packets is rounded
\* at random, and a cycle may take up to twice its time.)
Unrounded == Cardinality(Queued) * shortest <= send_cycle_time

\* LLDPSender: once nothing has changed for a cycle, every port has had a
\* packet within the last one.
SentEveryCycle ==
  quiet > send_cycle_time /\ Unrounded => \A p \in Queued : wait[p] <= send_cycle_time

\* Discovery: a link that does not work is noticed at the latest by the first
\* check after its timeout, so no time stamp is older than that.
StaleLinksGo == \A l \in DOMAIN adjacency : adjacency[l] <= link_timeout + check_period

\* Discovery: a working link is taken for dead only within link_timeout of a
\* change somewhere in the network (which starts the sender's timer anew).
NoFalseTimeout ==
  [][\A l \in deleting' \ deleting : l \in Working' /\ Unrounded => quiet < link_timeout]_vars

\* Discovery: after the last change the map becomes that of the working
\* links, and stays so.
Converges == <>[](DOMAIN adjacency = Working)

\* Discovery promises what its listeners rely on.
LL == INSTANCE LinkLayer WITH Links <- Wires, known <- DOMAIN adjacency
ImplementsLinkLayer == LL!Spec

=============================================================================
