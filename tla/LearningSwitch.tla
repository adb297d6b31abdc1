--------------------------- MODULE LearningSwitch ---------------------------
(***************************************************************************)
(* The two-level tree of ext/topo.py (_build_tree) with the controller of  *)
(* ext/tree_controller.py, which makes a learning switch of every switch.  *)
(* A frame that matches no entry goes to the controller; the answer is a   *)
(* message that floods it, or adds an entry and forwards it.               *)
(*                                                                         *)
(* Switch i of the Leaves below the root has the root at port 1 and its    *)
(* hosts at the ports after it; the root has switch i at port i.           *)
(***************************************************************************)
EXTENDS Naturals, Sequences, FiniteSets

CONSTANTS Leaves,      \* switches below the root
          Servers,     \* hosts of each
          MaxFrames,   \* bound: frames sent
          MaxDown      \* bound: connections to the controller lost

TreeShape == {Leaves, Servers, MaxFrames, MaxDown} \subseteq Nat /\ Leaves > 0

Root == Leaves + 1
Switches == 1..Root
TreeHosts == 1..(Leaves * Servers)
TreePorts(s) == IF s = Root THEN 1..Leaves ELSE 1..(Servers + 1)
LeafOf(h) == ((h - 1) \div Servers) + 1
PortOf(h) == ((h - 1) % Servers) + 2

\* The node at the other end of a port, and its port there.
Peer(s, p) ==
  IF s = Root THEN [at |-> <<"s", p>>, port |-> 1]
  ELSE IF p = 1 THEN [at |-> <<"s", Root>>, port |-> s]
  ELSE [at |-> <<"h", (s - 1) * Servers + p - 1>>, port |-> 1]

VARIABLES frames,      \* source and destination of the frames sent so far
          links,       \* frames on their way to a port of a switch or a host
          flows,       \* the entries of each switch: host pair to port
          mac_port,    \* Switch._mac_port: host to port
          connected,   \* switches connected to the controller
          packet_in,   \* frames each switch has asked the controller about
          commands,    \* answers on their way to each switch
          received,    \* how often the destination has got each frame
          downs        \* number of connections lost
control_vars == <<mac_port, connected, packet_in, commands, downs>>
treeVars == <<frames, links, flows, control_vars, received>>

Pairs == {p \in TreeHosts \X TreeHosts : p[1] # p[2]}
AllPorts == 1..(Leaves + Servers + 1)
Arrival == [id : 1..MaxFrames, port : AllPorts]

TypeOK ==
  /\ frames \in Seq(Pairs) /\ Len(frames) <= MaxFrames
  /\ \A f \in links : f.id \in 1..Len(frames) /\ f.port \in AllPorts
  /\ \A s \in Switches : flows[s] \in [DOMAIN flows[s] -> AllPorts] /\ DOMAIN flows[s] \subseteq Pairs
  /\ \A s \in Switches :
       mac_port[s] \in [DOMAIN mac_port[s] -> AllPorts] /\ DOMAIN mac_port[s] \subseteq TreeHosts
  /\ connected \subseteq Switches
  /\ packet_in \in [Switches -> Seq(Arrival)]
  /\ \A s \in Switches : s \notin connected => packet_in[s] = <<>> /\ commands[s] = <<>>
  /\ received \in [1..MaxFrames -> Nat]
  /\ downs \in 0..MaxDown

TreeInit ==
  /\ frames = <<>>
  /\ links = {}
  /\ flows = [s \in Switches |-> <<>>]
  /\ mac_port = [s \in Switches |-> <<>>]
  /\ connected = Switches
  /\ packet_in = [s \in Switches |-> <<>>]
  /\ commands = [s \in Switches |-> <<>>]
  /\ received = [i \in 1..MaxFrames |-> 0]
  /\ downs = 0

With(f, x, y) == [z \in DOMAIN f \cup {x} |-> IF z = x THEN y ELSE f[z]]

\* A switch never sends a frame back through the port it came in.
Output(s, ports, f) ==
  {[id |-> f.id, at |-> Peer(s, p).at, port |-> Peer(s, p).port] : p \in ports \ {f.port}}

-----------------------------------------------------------------------------
\* The network.

\* A host sends a frame to another.
Send(src, dst) ==
  /\ Len(frames) < MaxFrames
  /\ frames' = Append(frames, <<src, dst>>)
  /\ links' = links \cup {[id |-> Len(frames'), at |-> <<"s", LeafOf(src)>>, port |-> PortOf(src)]}
  /\ UNCHANGED <<flows, control_vars, received>>

\* A host takes the frames for it and ignores the others.
Receive(f) ==
  /\ f \in links /\ f.at[1] = "h"
  /\ links' = links \ {f}
  /\ received' = IF frames[f.id][2] = f.at[2]
                   THEN [received EXCEPT ![f.id] = @ + 1] ELSE received
  /\ UNCHANGED <<frames, flows, control_vars>>

\* A switch looks a frame up.  Without an entry it asks the controller; when
\* it has none either, the frame is lost.
Lookup(f) ==
  /\ f \in links /\ f.at[1] = "s"
  /\ LET s == f.at[2]
         pair == frames[f.id]
     IN  IF pair \in DOMAIN flows[s]
           THEN /\ links' = (links \ {f}) \cup Output(s, {flows[s][pair]}, f)
                /\ UNCHANGED packet_in
           ELSE /\ links' = links \ {f}
                /\ packet_in' = IF s \notin connected THEN packet_in
                                ELSE [packet_in EXCEPT
                                        ![s] = Append(@, [id |-> f.id, port |-> f.port])]
  /\ UNCHANGED <<frames, flows, mac_port, connected, commands, received, downs>>

\* Variant: the entry is sent without the frame that asked for it.
ApplyEntryOnly(s) ==
  /\ commands[s] # <<>>
  /\ LET c == Head(commands[s])
     IN  IF c.out = "all"
           THEN links' = links \cup Output(s, TreePorts(s), c) /\ UNCHANGED flows
           ELSE flows' = [flows EXCEPT ![s] = With(@, frames[c.id], c.to)] /\ UNCHANGED links
  /\ commands' = [commands EXCEPT ![s] = Tail(@)]
  /\ UNCHANGED <<frames, mac_port, connected, packet_in, received, downs>>

\* A switch carries out the next message of the controller.
Apply(s) ==
  /\ commands[s] # <<>>
  /\ LET c == Head(commands[s])
         pair == frames[c.id]
     IN  IF c.out = "all"
           THEN links' = links \cup Output(s, TreePorts(s), c) /\ UNCHANGED flows
           ELSE /\ flows' = [flows EXCEPT ![s] = With(@, pair, c.to)]
                /\ links' = links \cup Output(s, {c.to}, c)
  /\ commands' = [commands EXCEPT ![s] = Tail(@)]
  /\ UNCHANGED <<frames, mac_port, connected, packet_in, received, downs>>

-----------------------------------------------------------------------------
\* The controller.

\* Variant: the entry is for the way back, over the port the frame came from.
HandlePacketInReverse(s) ==
  /\ packet_in[s] # <<>>
  /\ LET f == Head(packet_in[s])
         pair == frames[f.id]
         known == With(mac_port[s], pair[1], f.port)
         answer == IF pair[2] \notin DOMAIN known
                     THEN [out |-> "all", id |-> f.id, port |-> f.port]
                     ELSE [out |-> "entry", id |-> f.id, port |-> f.port, to |-> known[pair[1]]]
     IN  /\ mac_port' = [mac_port EXCEPT ![s] = known]
         /\ commands' = [commands EXCEPT ![s] = Append(@, answer)]
  /\ packet_in' = [packet_in EXCEPT ![s] = Tail(@)]
  /\ UNCHANGED <<frames, links, flows, connected, received, downs>>

\* Switch._handle_PacketIn.
HandlePacketIn(s) ==
  /\ packet_in[s] # <<>>
  /\ LET f == Head(packet_in[s])
         pair == frames[f.id]
         known == With(mac_port[s], pair[1], f.port)
         answer == IF pair[2] \notin DOMAIN known
                     THEN [out |-> "all", id |-> f.id, port |-> f.port]
                     ELSE [out |-> "entry", id |-> f.id, port |-> f.port, to |-> known[pair[2]]]
     IN  /\ mac_port' = [mac_port EXCEPT ![s] = known]
         /\ commands' = [commands EXCEPT ![s] = Append(@, answer)]
  /\ packet_in' = [packet_in EXCEPT ![s] = Tail(@)]
  /\ UNCHANGED <<frames, links, flows, connected, received, downs>>

\* The connection breaks, and the messages on it are lost.
Disconnect(s) ==
  /\ downs < MaxDown
  /\ s \in connected
  /\ downs' = downs + 1
  /\ connected' = connected \ {s}
  /\ packet_in' = [packet_in EXCEPT ![s] = <<>>]
  /\ commands' = [commands EXCEPT ![s] = <<>>]
  /\ UNCHANGED <<frames, links, flows, mac_port, received>>

\* ConnectionUp: a new Switch object, for a switch whose entries were deleted.
Reconnect(s) ==
  /\ s \notin connected
  /\ connected' = connected \cup {s}
  /\ flows' = [flows EXCEPT ![s] = <<>>]
  /\ mac_port' = [mac_port EXCEPT ![s] = <<>>]
  /\ UNCHANGED <<frames, links, packet_in, commands, received, downs>>

Progress ==
  \/ \E f \in links : Receive(f) \/ Lookup(f)
  \/ \E s \in Switches : Apply(s) \/ HandlePacketIn(s)

TreeNext ==
  \/ Progress
  \/ \E p \in Pairs : Send(p[1], p[2])
  \/ \E s \in Switches : Disconnect(s) \/ Reconnect(s)

\* A frame is handled in a bounded number of steps, so that fairness of all
\* steps together is fairness to each frame.
TreeSpec == TreeInit /\ [][TreeNext]_treeVars /\ WF_treeVars(Progress)
-----------------------------------------------------------------------------
\* The port of a switch that leads to a host.
Towards(s, h) ==
  IF s = Root THEN LeafOf(h) ELSE IF s = LeafOf(h) THEN PortOf(h) ELSE 1

\* What a switch has learned and what its entries say leads to the host, with
\* packets of several pairs under way, answers that come late and switches
\* that come back with nothing; and no frame reaches a host twice, once
\* flooded and once by an entry.
EntriesLead ==
  /\ TypeOK
  /\ \A i \in 1..MaxFrames : received[i] <= 1
  /\ \A s \in Switches :
       /\ \A p \in DOMAIN flows[s] : flows[s][p] = Towards(s, p[2])
       /\ \A h \in DOMAIN mac_port[s] : mac_port[s][h] = Towards(s, h)

\* A host gets each frame that is sent to it, as long as the switches stay connected.
DeliveredInTree == \A i \in 1..MaxFrames : i <= Len(frames) ~> received[i] = 1 \/ downs > 0
=============================================================================
