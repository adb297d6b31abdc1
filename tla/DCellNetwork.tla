---------------------------- MODULE DCellNetwork ----------------------------
(***************************************************************************)
(* The controller on the DCell it is written for: DCellController with the *)
(* route computation of DCellRouting (the constant Route is BuildRoute),   *)
(* and the way packets take through the entries it leaves in the switches  *)
(* after any sequence of link and connection events.                       *)
(***************************************************************************)
EXTENDS DCellController, DCellTopo

\* The links that break are links of the network, with its port numbers.
ASSUME LinksAreWired == \A l \in Links : l \in Directions(l.dpid1, l.dpid2)

\* The node a packet of the pair goes to from a node; itself if it stays.
Hop(pair, node) ==
  LET here == {e \in installed : node = Switch(e.dpid) /\ e.pair = pair}
  IN  IF here = {} THEN node
      ELSE Ports[node[2]][(CHOOSE e \in here : TRUE).port]

\* The node reached after i hops.
Walk(pair) ==
  LET walk[i \in 0..NumSwitches] ==
        IF i = 0 THEN Switch(pair[1]) ELSE Hop(pair, walk[i - 1])
  IN  walk

\* A walk of as many hops as there are switches has ended, or it never will.
Arrives(pair) == Walk(pair)[NumSwitches] = Host(pair[2])

Crosses(pair, link) ==
  \E i \in 1..NumSwitches :
    LET a == Walk(pair)[i - 1]
        b == Walk(pair)[i]
    IN  a # b /\ b[1] = "s" /\ LinkOf(a[2], b[2]) = link

-----------------------------------------------------------------------------
\* Between handlers, a pair whose last route build was complete has a route
\* that arrives and avoids every link known to be broken.  Old entries that
\* other routes left on other switches do not divert it, and a pair that no
\* handler rebuilt after an event was not concerned by it.
RoutesDeliver ==
  Idle /\ ~disturbed =>
    \A pair \in whole :
      /\ Arrives(pair)
      /\ \A link \in bad_links : ~Crosses(pair, link)

\* README, Experiments: "After the re-plug at 42s, the route path changes back
\* to the original one."  A pair that has once had its original route has it
\* again whenever all links are sound, whatever failed and recovered meanwhile
\* and in whatever order.
OriginalEntries == [pair \in Pairs |-> Entries(Route(pair, {}).adds)]
OnOriginalRoute(pair) ==
  \A d \in DOMAIN OriginalEntries[pair] :
    [dpid |-> d, port |-> OriginalEntries[pair][d], pair |-> pair] \in installed
RoutesRestored ==
  Idle /\ ~disturbed /\ bad_links = {} =>
    \A pair \in original : OnOriginalRoute(pair)

=============================================================================
