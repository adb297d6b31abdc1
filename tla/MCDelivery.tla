---------------------------- MODULE MCDelivery ----------------------------
\* Frames from host to host, in the two networks of ext/topo.py under the two
\* controllers of ext: a DCell with the routes of dcell_controller, and a tree
\* of learning switches.  A behaviour is one of the network that topo names.
EXTENDS DCellForwarding, LearningSwitch

\* One sender: the last host of the first DCell_0.
LastOfFirstCell == {DCELL_N}

VARIABLE topo

ASSUME TreeOfTwo == TreeShape

DeliveryInit ==
  /\ topo \in {"dcell", "tree"}
  /\ Init /\ TreeInit
  /\ topo = "tree" => bad = {} /\ pair = <<DCELL_N, 1>>
DeliveryNext ==
  /\ UNCHANGED topo
  /\ \/ topo = "dcell" /\ Next /\ UNCHANGED treeVars
     \/ topo = "tree" /\ TreeNext /\ UNCHANGED vars
DeliverySpec ==
  /\ DeliveryInit /\ [][DeliveryNext]_<<topo, vars, treeVars>>
  /\ WF_vars(topo = "dcell" /\ Next) /\ WF_treeVars(topo = "tree" /\ Progress)

\* The packet of a route that the DCell controller believes complete arrives
\* at the host it is for; see DCellForwarding.
DeliveredInDCell == topo = "dcell" /\ Complete ~> node = Host(pair[2])
=============================================================================
