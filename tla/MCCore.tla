------------------------------- MODULE MCCore -------------------------------
(* Small instances of Core: two components, a callback and a sink. *)
EXTENDS Core

MCEvents == {"ComponentRegistered", "GoingUp", "Up", "GoingDown", "Down",
             "RereadConfiguration"}
MCThreads == {"main", "scheduler", "quitter"}
MCNeeds == [s \in {"callback", "sink"} |->
              IF s = "callback" THEN <<"a", "b">> ELSE <<"core", "b", "openflow">>]
MCBinds == [s \in {"callback", "sink"} |->
              IF s = "callback" THEN <<>>
              ELSE <<"GoingUp", "GoingDown", "RereadConfiguration">>]
MCStyles ==
  {[priority |-> 0, once |-> FALSE, weak |-> FALSE],
   [priority |-> 0, once |-> FALSE, weak |-> TRUE],
   [priority |-> 1, once |-> TRUE, weak |-> FALSE]}
MCCommandLines == {<<"b">>}
=============================================================================
