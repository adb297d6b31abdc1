----------------------------- MODULE MCFailures -----------------------------
(* What hosts get when something fails: routes around broken links, and addresses although      *)
(* messages, connections and controllers go.  A behaviour is about one of the two.              *)
EXTENDS DCellForwarding, DHCP

VARIABLE subject

\* What the DHCPLease listeners of these instances may answer.
NoneOrReject == {"none", "reject"}
ASSUME PoolOfTwo == DHCPShape

FailuresVars == <<subject, vars, dhcpVars>>
FailuresInit ==
  /\ Init /\ DHCPInit
  /\ \/ subject = "routes" /\ connected = {}
     \/ subject = "leases" /\ bad = {} /\ pair = <<1, 2>>
FailuresNext ==
  /\ UNCHANGED subject
  /\ \/ subject = "routes" /\ Next /\ UNCHANGED dhcpVars
     \/ subject = "leases" /\ DHCPNext /\ UNCHANGED vars
FailuresSpec ==
  /\ FailuresInit /\ [][FailuresNext]_FailuresVars
  /\ WF_vars(subject = "routes" /\ Next)
  /\ WF_dhcpVars(subject = "leases" /\ Progress)

\* The packet of a route without a gap arrives, over sound links; see DCellForwarding.
DeliveredAroundFailures == subject = "routes" => Delivered
\* A client is bound for good or fails in time; see DHCP.
ClientsFinish == Finishes
=============================================================================
