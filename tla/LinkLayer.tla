------------------------------ MODULE LinkLayer ------------------------------
(***************************************************************************)
(* What openflow.discovery promises to the components that listen to its   *)
(* LinkEvents: a link is announced as added when it becomes known, and     *)
(* announced as removed exactly once before it is forgotten.  The links of *)
(* one removal are all announced before the first of them is forgotten,    *)
(* and nothing else happens to the map meanwhile.                          *)
(*                                                                         *)
(* Discovery implements this specification.  DCellController keeps a map   *)
(* of its own, since it runs with connections that break in its handlers.  *)
(***************************************************************************)
CONSTANT Links

VARIABLES known,     \* links in the map
          told,      \* links whose last LinkEvent said "added"
          deleting   \* links that are being removed
vars == <<known, told, deleting>>

Init == known = {} /\ told = {} /\ deleting = {}

\* A link is found: LinkEvent(added).
Found(l) ==
  /\ deleting = {}
  /\ l \in Links \ known
  /\ known' = known \cup {l}
  /\ told' = told \cup {l}
  /\ UNCHANGED deleting

\* Some links are given up, because of their age or with one of their switches.
GiveUp(links) ==
  /\ deleting = {}
  /\ links \subseteq known
  /\ deleting' = links
  /\ UNCHANGED <<known, told>>

\* LinkEvent(removed).
Tell(l) ==
  /\ l \in deleting \cap told
  /\ told' = told \ {l}
  /\ UNCHANGED <<known, deleting>>

Forget ==
  /\ deleting # {}
  /\ deleting \cap told = {}
  /\ known' = known \ deleting
  /\ deleting' = {}
  /\ UNCHANGED told

Next ==
  \/ \E l \in Links : Found(l) \/ Tell(l)
  \/ \E links \in SUBSET known : GiveUp(links)
  \/ Forget

Spec == Init /\ [][Next]_vars
=============================================================================
