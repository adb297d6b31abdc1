--------------------------- MODULE MCOFConnections ---------------------------
\* An instance of OFConnections: a switch that connects and comes back.
EXTENDS OFConnections, TLC

OneSwitch == {1}
TwoConns == {1, 2}
ComesBack == 1 :> 1 @@ 2 :> 1
OnePort == {1}
=============================================================================
