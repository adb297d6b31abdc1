--------------------------- MODULE SwitchSessions ---------------------------
(***************************************************************************)
(* What core.openflow and its map of connections promise to their          *)
(* listeners.  Of each connection listeners hear at most once that its     *)
(* switch is up, and at most once that it is down, after which they hear   *)
(* nothing more of it; what they hear need not come in pairs.  A switch    *)
(* may have several connections at a time, and then the map has but one    *)
(* entry for it: the connection registered last, until any of them is      *)
(* found broken or closed.                                                 *)
(***************************************************************************)
CONSTANTS Conns, Dpids,
          SwitchOf,  \* the switch of each connection
          NoConn     \* no connection

VARIABLES known,   \* connections whose switch has said who it is
          failed,  \* connections whose switch was forgotten again
          broken,  \* connections that are no longer written to
          up,      \* ConnectionUp raised
          down,    \* ConnectionDown raised
          entry    \* core.openflow.connections
vars == <<known, failed, broken, up, down, entry>>

Init ==
  /\ known = {} /\ failed = {} /\ broken = {} /\ up = {} /\ down = {}
  /\ entry = [d \in Dpids |-> NoConn]

Enter(d, c) == entry' = [entry EXCEPT ![d] = c]

\* The switch has said who it is: it is entered, even if the connection is
\* broken already, unless writing to it fails just then.
Register(c) ==
  /\ c \notin known \cup failed \cup up \cup down
  /\ known' = known \cup {c}
  /\ \/ Enter(SwitchOf[c], c) /\ UNCHANGED broken
     \/ c \notin broken /\ Enter(SwitchOf[c], NoConn) /\ broken' = broken \cup {c}
  /\ UNCHANGED <<failed, up, down>>

\* A write fails.  Whatever connection the switch has leaves the map.
Break(c) ==
  /\ c \notin broken \cup down
  /\ broken' = broken \cup {c}
  /\ IF c \in known THEN Enter(SwitchOf[c], NoConn) ELSE UNCHANGED entry
  /\ UNCHANGED <<known, failed, up, down>>

\* ConnectionUp, even for a connection that is broken.
Announce(c) ==
  /\ c \in (known \cup failed) \ (up \cup down)
  /\ up' = up \cup {c}
  /\ UNCHANGED <<known, failed, broken, down, entry>>

\* The handshake fails: the connection is broken off and its switch forgotten,
\* so that ConnectionDown is never raised; an entry of it stays.
Fail(c) ==
  /\ c \in known \ (up \cup down)
  /\ known' = known \ {c}
  /\ failed' = failed \cup {c}
  /\ broken' = broken \cup {c}
  /\ UNCHANGED <<up, down, entry>>

\* The connection is closed: ConnectionDown, announced or not.
Down(c) ==
  /\ c \in known \ down
  /\ down' = down \cup {c}
  /\ broken' = broken \cup {c}
  /\ Enter(SwitchOf[c], NoConn)
  /\ UNCHANGED <<known, failed, up>>

Next ==
  \E c \in Conns : Register(c) \/ Break(c) \/ Announce(c) \/ Fail(c) \/ Down(c)

Spec == Init /\ [][Next]_vars
=============================================================================
