-------------------------- MODULE DCellForwarding --------------------------
(***************************************************************************)
(* A packet on a network the controller has just programmed: the links of  *)
(* the topology, a set of broken links, the entries BuildRoute installs    *)
(* for one host pair into empty switches, and the packet's way along them. *)
(* The source asks for the MAC address of the destination first; its       *)
(* switch has no entry for a broadcast, and the controller answers.  A     *)
(* switch outputs a packet on the port of its entry for the addresses of   *)
(* the pair; a switch without one sends it to the controller, which drops  *)
(* it (Switch._handle_PacketIn answers ARP requests and nothing else).     *)
(***************************************************************************)
EXTENDS DCellTopo

CONSTANTS Sources,     \* source hosts tried
          BadSets      \* sets of broken links tried

(* Sets of sets of broken links. *)

\* No link, any one link between host switches, or every link of a host
\* switch but the one to its host (how main.py simulates a failed node).
OneFailure ==
  {{}} \cup {{l} : l \in CrossLinks}
       \cup {{l \in CrossLinks : h \in {l[1], l[2]}} \cup {LinkOf(h, MiniDpid(h))} :
               h \in Hosts}

\* Any links between host switches, for a DCell with few of them.
AnyCrossLinks == SUBSET CrossLinks

\* The hosts of the first DCell_0: enough senders where the links broken
\* range over the whole DCell.
FirstCell == 1..DCELL_N

ASSUME ForwardingConstants == Sources \subseteq Hosts

VARIABLES bad,         \* broken links, as the controller knows them
          pair,        \* the host pair <<src, dst>>
          route,       \* what BuildRoute returned
          dl_dst,      \* the MAC address the source sends to, once it knows
          node,        \* the node the packet has reached
          visited      \* the nodes it has left, in order

vars == <<bad, pair, route, dl_dst, node, visited>>

Broken(a, b) == a[1] = "s" /\ b[1] = "s" /\ LinkOf(a[2], b[2]) \in bad

Init ==
  /\ bad \in BadSets
  /\ pair \in {p \in HostPairs : p[1] \in Sources}
  /\ route = BuildRoute(pair[1], pair[2], bad)
  /\ dl_dst = <<>>
  /\ node = Switch(pair[1])
  /\ visited = <<>>

\* The answer to the ARP request: an address computed from the IP address.
SendArpReply ==
  /\ dl_dst = <<>>
  /\ dl_dst' = ip_to_mac(ip_to_str(pair[2]))
  /\ UNCHANGED <<bad, pair, route, node, visited>>

Entry == Entries(route.adds)
HasEntry ==
  /\ dl_dst = mac_to_str(pair[2])
  /\ node[1] = "s" /\ node[2] \in DOMAIN Entry
NextNode == Ports[node[2]][Entry[node[2]]]

\* The walk is cut after as many hops as there are switches: it is in a loop.
Forward ==
  /\ HasEntry
  /\ ~Broken(node, NextNode)
  /\ Len(visited) < NumSwitches
  /\ visited' = Append(visited, node)
  /\ node' = NextNode
  /\ UNCHANGED <<bad, pair, route, dl_dst>>

Next == SendArpReply \/ Forward
Spec == Init /\ [][Next]_vars /\ WF_vars(Next)

-----------------------------------------------------------------------------
\* The code logged no failure: neither "no proxy node", nor "cannot handle
\* rack failure", nor an exception.
Complete == ~route.raised /\ ~route.gap

\* The packet of a route the code believes complete arrives at the host it is
\* for, over sound links and without a loop.  _build_dcell_route concatenates
\* sub-routes, and a later one may overwrite the entry of a switch an earlier
\* one passes; and the ports and neighbours it recomputes from the addresses
\* have to be those of the topology that was built.
Delivered == Complete ~> node = Host(pair[2])

\* The DCell_0s joined to the source's by sound links (k = 1: a DCell_0 is
\* complete in itself as long as only links between DCell_0s break).
CellOf(h) == (h - 1) \div DCELL_N
Reachable ==
  LET joined(S) == {c \in 0..(NumHosts \div DCELL_N) :
                      \E l \in CrossLinks \ bad :
                        \/ CellOf(l[1]) \in S /\ CellOf(l[2]) = c
                        \/ CellOf(l[2]) \in S /\ CellOf(l[1]) = c}
      within[i \in 0..NumHosts] ==
        IF i = 0 THEN {CellOf(pair[1])}
                 ELSE within[i - 1] \cup joined(within[i - 1])
  IN  CellOf(pair[2]) \in within[NumHosts \div DCELL_N]

\* "no proxy node" is only said of destinations that no route could reach.
GapMeansUnreachable == route.gap => ~Reachable

\* README, Fault-Tolerant Routing: when a link is broken the packet is sent
\* to a proxy and from the proxy to the destination.  Refuted: the search for
\* a proxy has no memory and may send the route back and forth for ever.
ReroutesWhenReachable == Reachable => Complete
=============================================================================
