----------------------------- MODULE DCellTopo -----------------------------
(***************************************************************************)
(* The network pox/ext/topo.py hands to Mininet.  build_helper visits the  *)
(* sub-DCells depth first and calls addLink; Mininet gives every switch    *)
(* its port numbers in the order of the addLink calls that name it (that   *)
(* numbering is Mininet's, it is not in this repository).  The controller  *)
(* never sees this object: it recomputes ports and neighbours from the     *)
(* addresses, so the two have to agree.                                    *)
(***************************************************************************)
EXTENDS DCellRouting

LOCAL INSTANCE SequencesExt

\* Sub-DCells of a DCell_l: g[l] of _build_dcell (g[0] = 1).
Subs(l, n) == IF l = 0 THEN 1 ELSE LevelCounts(l - 1, n)[l - 1].hosts + 1

Switch(i) == <<"s", i>>
Host(i)   == <<"h", i>>

\* The prefixes of the DCell_0s in the order build_helper reaches them.  The
\* counters _nhost, _nswitch and _nswitch0 follow that order.
Cells(k, n) ==
  LET below[l \in 0..k, p \in Seq(Nat)] ==
        IF l = 0 THEN <<p>>
        ELSE FlattenSeq([i \in 1..Subs(l, n) |-> below[l - 1, Append(p, i - 1)]])
  IN  below[k, <<>>]

\* The addLink calls of build_helper for the whole DCell, in order.
AddLinks(k, n) ==
  LET cells == Cells(k, n)
      place(p) == CHOOSE c \in DOMAIN cells : cells[c] = p
      mini(p) == Switch(LevelCounts(k, n)[k].hosts + place(p))
      number(t) == (place(SubSeq(t, 1, k)) - 1) * n + t[k + 1] + 1
      cell(p) ==
        FlattenSeq([i \in 1..n |->
          LET h == number(Append(p, i - 1))
          IN  << <<Switch(h), Host(h)>>, <<mini(p), Switch(h)>> >>])
      cross(p, level) ==
        LET end(a, b) == Switch(number(Append(p, a) \o tuple_id(b, level - 1, n)))
        IN  FlattenSeq([i \in 1..(Subs(level, n) - 1) |->
              [d \in 1..(Subs(level, n) - i) |->
                << end(i - 1, i - 1 + d), end(i - 1 + d, i) >>]])
      build_helper[level \in 0..k, p \in Seq(Nat)] ==
        IF level = 0
          THEN cell(p)
          ELSE FlattenSeq([i \in 1..Subs(level, n) |->
                             build_helper[level - 1, Append(p, i - 1)]])
                 \o cross(p, level)
  IN  build_helper[k, <<>>]

\* The node behind each port of each node, from a list of addLink calls.
PortsOf(calls, node) ==
  LET mine == SelectSeq(calls, LAMBDA c : node \in {c[1], c[2]})
  IN  [p \in 1..Len(mine) |-> IF mine[p][1] = node THEN mine[p][2] ELSE mine[p][1]]

-----------------------------------------------------------------------------
\* The network for the configured DCELL_K and DCELL_N, as switches and LLDP
\* packets see it: what is behind each port of each switch, and which links
\* join two switches.
Calls == AddLinks(DCELL_K, DCELL_N)
Ports == [i \in 1..NumSwitches |-> PortsOf(Calls, Switch(i))]

\* The links between host switches, each by its two switches.
CrossLinks ==
  LET hostSwitches == {Switch(h) : h \in Hosts}
      between == SelectSeq(Calls, LAMBDA c : {c[1], c[2]} \subseteq hostSwitches)
  IN  {LinkOf(between[i][1][2], between[i][2][2]) : i \in DOMAIN between}

\* Both directions of the link between switches a and b, with their ports.
Directions(a, b) ==
  LET port(x, y) == CHOOSE p \in DOMAIN Ports[x] : Ports[x][p] = Switch(y)
      link(x, y) == [dpid1 |-> x, port1 |-> port(x, y), dpid2 |-> y, port2 |-> port(y, x)]
  IN  {link(a, b), link(b, a)}
=============================================================================
