----------------------------- MODULE MCDiscovery -----------------------------
\* Instances of Discovery: two switches with a cable between their ports 1 and a
\* port of one that leads nowhere.
EXTENDS Discovery, TLC

TwoSwitches == {1, 2}
CablePorts == 1 :> {1, 2} @@ 2 :> {1}
Cable == {[dpid1 |-> 1, port1 |-> 1, dpid2 |-> 2, port2 |-> 1],
          [dpid1 |-> 2, port1 |-> 1, dpid2 |-> 1, port2 |-> 1]}
=============================================================================
