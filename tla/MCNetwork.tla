----------------------------- MODULE MCNetwork -----------------------------
\* Instances of DCellNetwork: a DCell_1 of two hosts per DCell_0 (three
\* DCell_0s, six hosts, nine switches), the smallest with proxies.
EXTENDS DCellNetwork, TLC

AllDpids == 1..NumSwitches

\* Every switch but the last mini-switch is connected: the model starts just
\* before the routes are built.
AllButOne == AllDpids \ {NumSwitches}

\* Two pairs of hosts between different DCell_0s.
MCPairs == {<<1, 5>>, <<2, 3>>}

\* The route computation, tabulated for the pairs and links of the model (@@
\* makes TLC compute the table once).
RouteTable ==
  [pair \in Pairs, bad \in SUBSET LinkTuples |-> BuildRoute(pair[1], pair[2], bad)] @@ <<>>
TabledRoute(pair, bad) == RouteTable[pair, bad]

LinkAt(a, p, b, q) == [dpid1 |-> a, port1 |-> p, dpid2 |-> b, port2 |-> q]

\* The links between DCell_0s, each in the direction from its lower switch,
\* and with them the link of a host switch with the first mini-switch.
WithMini == {LinkAt(1, 3, 3, 3), LinkAt(2, 3, 5, 3), LinkAt(4, 3, 6, 3), LinkAt(1, 2, 7, 1)}

\* Both directions of one of the links between DCell_0s, and its ends.
OneLink == {LinkAt(1, 3, 3, 3), LinkAt(3, 3, 1, 3)}
LinkEnds == {1, 3}
MCLinks == WithMini \cup OneLink

\* A behaviour is about four links, with connections that stay, or about the
\* connections at the ends of one link.
VARIABLE about
NetworkVars == <<vars, about>>
NetworkInit == Init /\ about \in {"links", "connections"}
NetworkNext ==
  /\ Next
  /\ UNCHANGED about
  /\ about = "links" => lost' = 0 /\ adjacency' \subseteq WithMini
  /\ about = "connections" => adjacency' \subseteq OneLink
NetworkSpec == NetworkInit /\ [][NetworkNext]_NetworkVars /\ WF_vars(HandlerSteps)

\* While no connection breaks, every removal of links comes to its end; see
\* DeletionsEnd.  (When one does, the two threads may wait for each other.)
RemovalsEnd == about = "links" => DeletionsEnd
=============================================================================
