----------------------- MODULE DCellControllerProofs -----------------------
(***************************************************************************)
(* What the controller guarantees for every topology, every set of host    *)
(* pairs, every route computation (the constant Route) and every bound:    *)
(* type correctness, and the safety properties that relate its lists of    *)
(* links and flow entries to those of discovery and of the switches.       *)
(***************************************************************************)
EXTENDS DCellController, FiniteSetTheorems, SequenceTheorems, TLAPS

AddSpec == [kind : {"add"}, dpid : Dpids, port : Nat]

\* A link's name joins two switches.
LEMMA LinkTupleType == ASSUME NEW l \in Links PROVE LinkTuple(l) \in LinkTuples
BY DEF LinkTuples

\* What the route computation returns has the type its assumption gives it.
LEMMA OutgoingType ==
  ASSUME NEW pair \in Pairs, bad_links \subseteq LinkTuples
  PROVE  /\ Outgoing(pair) \in Outcome
         /\ Outgoing(pair).adds \in Seq(AddSpec)
         /\ Len(Outgoing(pair).adds) \in Nat
<1>1. bad_links \in SUBSET LinkTuples
  OBVIOUS
<1>2. Route(pair, bad_links) \in Outcome
  BY <1>1, RouteOutcome
<1>3. Outgoing(pair) \in Outcome
  BY <1>2 DEF Outgoing
<1>4. Outgoing(pair).adds \in Seq(AddSpec)
  BY <1>3 DEF Outcome, AddSpec
<1>5. QED
  BY <1>3, <1>4, LenProperties

\* What a loop over a sequence of entries has done is such a sequence.
LEMMA PrefixType ==
  ASSUME NEW adds \in Seq(AddSpec), NEW done \in Prefixes(adds)
  PROVE  done \in Seq(AddSpec)
<1>1. PICK n \in 0..Len(adds) : done = SubSeq(adds, 1, n)
  BY DEF Prefixes
<1>2. n \in Int /\ \A i \in 1..n : adds[i] \in AddSpec
  OBVIOUS
<1>3. QED
  BY <1>1, <1>2, SubSeqProperties, 1 \in Int

\* _add_flow keeps a table a set of entries.
LEMMA AppliedType ==
  ASSUME NEW table \in SUBSET Entry, NEW pair \in Pairs, NEW adds \in Seq(AddSpec)
  PROVE  Applied(table, pair, adds) \subseteq Entry
<1>1. \A i \in DOMAIN adds : adds[i] \in AddSpec
  OBVIOUS
<1>2. \A i \in DOMAIN adds :
        [dpid |-> adds[i].dpid, port |-> adds[i].port, pair |-> pair] \in Entry
  BY <1>1 DEF Entry, AddSpec
<1>3. QED
  BY <1>2 DEF Applied

\* A change made by _add_flow to two tables keeps their difference where it was.
LEMMA AppliedKeeps ==
  ASSUME NEW small, NEW large, NEW pair, NEW adds, NEW e,
         e \in small => e \in large,
         e \in Applied(small, pair, adds)
  PROVE  e \in Applied(large, pair, adds)
BY DEF Applied

-----------------------------------------------------------------------------
\* Type correctness.

\* Both tables of a round of a handler's loop remain sets of entries.
LEMMA RoundTables ==
  ASSUME TypeOK, NEW pair \in Pairs, NEW done \in Prefixes(Outgoing(pair).adds)
  PROVE  /\ Applied(flow_table, pair, done) \subseteq Entry
         /\ Applied(installed, pair, done) \subseteq Entry
<1>1. done \in Seq(AddSpec)
  BY OutgoingType, PrefixType DEF TypeOK
<1>2. QED
  BY <1>1, AppliedType DEF TypeOK

\* The lists of pairs remain lists of pairs.
LEMMA RoundPairs ==
  ASSUME TypeOK, NEW loop \in Loops, NEW pair \in Pairs, NEW out, NEW n, EndRound(loop, pair, out, n)
  PROVE  /\ todo' \in [Loops -> SUBSET Pairs]
         /\ whole' \subseteq Pairs
         /\ original' \subseteq Pairs
BY DEF TypeOK, EndRound

LEMMA BuildType ==
  ASSUME TypeOK, NEW loop \in Loops, NEW pair \in Pairs, Build(loop, pair)
  PROVE  TypeOK'
<1> DEFINE out == Outgoing(pair)
<1>1. CASE BuildOne(loop, pair, out)
  <2>1. PICK done \in Prefixes(out.adds) :
          /\ flow_table' = Applied(flow_table, pair, done)
          /\ installed' = Applied(installed, pair, done)
          /\ EndRound(loop, pair, out, Len(done))
          /\ disturbed' = (disturbed \/ Raises(out, Len(done)))
          /\ UNCHANGED <<conn_vars, link_vars, bad_links>>
    BY <1>1 DEF BuildOne
  <2>2. Raises(out, Len(done)) \in BOOLEAN
    BY OutgoingType DEF TypeOK, Outcome, Raises
  <2>3. disturbed' \in BOOLEAN
    BY <2>1, <2>2 DEF TypeOK
  <2>4. flow_table' \subseteq Entry /\ installed' \subseteq Entry
    BY <2>1, RoundTables
  <2>5. QED
    BY <2>1, <2>3, <2>4, RoundPairs DEF TypeOK, conn_vars, link_vars
<1>2. CASE BuildDeleteFails(loop, pair, out)
  <2>1. PICK done \in Prefixes(out.adds) :
          LET d == out.adds[Len(done) + 1].dpid
          IN  /\ Drop(d)
              /\ flow_table' = {e \in Applied(flow_table, pair, done) :
                                  ~(e.dpid = d /\ e.pair = pair)}
              /\ installed' = Applied(installed, pair, done)
              /\ EndRound(loop, pair, out, Len(done))
              /\ disturbed' = TRUE
              /\ UNCHANGED <<link_vars, bad_links>>
    BY <1>2 DEF BuildDeleteFails
  <2>2. flow_table' \subseteq Entry /\ installed' \subseteq Entry
    BY <2>1, RoundTables
  <2>3. UNCHANGED <<up, num_connect>> /\ lost' \in Nat /\ connections' \subseteq Dpids /\ closing' \subseteq Dpids
    BY <2>1 DEF TypeOK, Drop
  <2>4. QED
    BY <2>1, <2>2, <2>3, RoundPairs DEF TypeOK, link_vars
<1>3. CASE BuildAddFails(loop, pair, out)
  <2>1. PICK m \in DOMAIN out.adds, done \in Prefixes(out.adds) :
          LET d == out.adds[m].dpid
          IN  /\ Drop(d)
              /\ flow_table' = Applied(flow_table, pair, done)
              /\ installed' = {e \in Applied(installed, pair, done) :
                                 ~(e.dpid = d /\ e.pair = pair)}
              /\ EndRound(loop, pair, out, Len(done))
              /\ disturbed' = TRUE
              /\ UNCHANGED <<link_vars, bad_links>>
    BY <1>3 DEF BuildAddFails
  <2>2. flow_table' \subseteq Entry /\ installed' \subseteq Entry
    BY <2>1, RoundTables
  <2>3. UNCHANGED <<up, num_connect>> /\ lost' \in Nat /\ connections' \subseteq Dpids /\ closing' \subseteq Dpids
    BY <2>1 DEF TypeOK, Drop
  <2>4. QED
    BY <2>1, <2>2, <2>3, RoundPairs DEF TypeOK, link_vars
<1>4. QED
  BY <1>1, <1>2, <1>3 DEF Build

LEMMA InitType == Init => TypeOK
<1> SUFFICES ASSUME Init PROVE TypeOK
  OBVIOUS
<1>1. IsFiniteSet(Early)
  BY DpidsAreNumbers, EarlySwitches, FS_Subset
<1>2. num_connect \in Nat
  BY <1>1, FS_CardinalityType DEF Init
<1>3. connections \subseteq Dpids /\ up \subseteq Dpids
  BY EarlySwitches DEF Init
<1>4. disturbed \in BOOLEAN
  BY DEF Init
<1>5. QED
  BY <1>2, <1>3, <1>4 DEF Init, TypeOK

LEMMA StepType == TypeOK /\ [Next]_vars => TypeOK'
<1> SUFFICES ASSUME TypeOK, [Next]_vars
             PROVE  TypeOK'
  OBVIOUS
<1> USE DEF TypeOK, conn_vars, link_vars, flow_vars
<1>1. ASSUME NEW d \in Dpids, Register(d) PROVE TypeOK'
  BY <1>1 DEF Register
<1>2. ASSUME NEW d \in Dpids, ConnectionUp(d) PROVE TypeOK'
  BY <1>2 DEF ConnectionUp, Loops
<1>3. ASSUME NEW d \in Dpids, Lose(d) PROVE TypeOK'
  BY <1>3 DEF Lose, Drop
<1>4. ASSUME NEW d \in Dpids, ConnectionDown(d) PROVE TypeOK'
  BY <1>4 DEF ConnectionDown
<1>5. ASSUME NEW l \in Links, LinkAdded(l) PROVE TypeOK'
  <2>1. todo' \in [Loops -> SUBSET Pairs]
    BY <1>5 DEF LinkAdded, Entry, Loops
  <2>2. QED
    BY <1>5, <2>1 DEF LinkAdded
<1>6. ASSUME NEW l \in Links, LinkRemoved(l) PROVE TypeOK'
  <2>1. todo' \in [Loops -> SUBSET Pairs]
    BY <1>6 DEF LinkRemoved, Entry, Loops, Remover
  <2>2. QED
    BY <1>6, <2>1, LinkTupleType DEF LinkRemoved
<1>7. ASSUME NEW expired \in SUBSET adjacency, Expire(expired) PROVE TypeOK'
  BY <1>7 DEF Expire
<1>8. CASE FinishDelete
  BY <1>8 DEF FinishDelete
<1>9. ASSUME NEW loop \in Loops, NEW pair \in Pairs, Build(loop, pair) PROVE TypeOK'
  BY <1>9, BuildType
<1>10. CASE UNCHANGED vars
  BY <1>10 DEF vars
<1>11. QED
  BY <1>1, <1>2, <1>3, <1>4, <1>5, <1>6, <1>7, <1>8, <1>9, <1>10 DEF Next

\* Every variable of the controller and its surroundings keeps its type,
\* whatever the topology and the route computation.
THEOREM TypeCorrect == Spec => []TypeOK
<1>1. QED
  BY InitType, StepType, PTL DEF Spec

-----------------------------------------------------------------------------
\* The controller's list of broken links and discovery's map.

\* Building a route changes neither of them.
LEMMA BuildFrame ==
  ASSUME NEW loop, NEW pair, Build(loop, pair)
  PROVE  UNCHANGED <<adjacency, deleting, pending, bad_links>>
BY DEF Build, BuildOne, BuildDeleteFails, BuildAddFails, link_vars

LEMMA InitBadLinks == Init => BadLinkIsMissing
BY DEF Init, BadLinkIsMissing

LEMMA StepBadLinks == TypeOK /\ BadLinkIsMissing /\ [Next]_vars => BadLinkIsMissing'
<1> SUFFICES ASSUME TypeOK, BadLinkIsMissing, [Next]_vars
             PROVE  BadLinkIsMissing'
  OBVIOUS
<1> DEFINE Missing(t) ==
             \E l \in Links : LinkTuple(l) = t /\ (l \notin adjacency \/ l \in deleting)
<1>1. ASSUME UNCHANGED <<adjacency, deleting, bad_links>> PROVE BadLinkIsMissing'
  BY <1>1 DEF BadLinkIsMissing
<1>2. ASSUME NEW d \in Dpids, ConnectionDown(d) PROVE BadLinkIsMissing'
  BY <1>2 DEF ConnectionDown, BadLinkIsMissing, Deleting
<1>3. ASSUME NEW added \in Links, LinkAdded(added) PROVE BadLinkIsMissing'
  <2>1. ASSUME NEW t \in bad_links' PROVE Missing(t)'
    <3>1. t \in bad_links /\ t # LinkTuple(added)
      BY <1>3, <2>1 DEF LinkAdded
    <3>2. PICK l \in Links : LinkTuple(l) = t /\ (l \notin adjacency \/ l \in deleting)
      BY <3>1 DEF BadLinkIsMissing
    <3>3. l # added
      BY <3>1, <3>2
    <3>4. l \notin adjacency' \/ l \in deleting'
      BY <1>3, <3>2, <3>3 DEF LinkAdded
    <3>5. QED
      BY <3>2, <3>4
  <2>2. QED
    BY <2>1 DEF BadLinkIsMissing
<1>4. ASSUME NEW removed \in Links, LinkRemoved(removed) PROVE BadLinkIsMissing'
  <2>1. removed \in deleting'
    BY <1>4 DEF LinkRemoved, TypeOK
  <2>2. QED
    BY <1>4, <2>1 DEF LinkRemoved, BadLinkIsMissing
<1>5. ASSUME NEW expired \in SUBSET adjacency, Expire(expired) PROVE BadLinkIsMissing'
  BY <1>5 DEF Expire, BadLinkIsMissing, Deleting
<1>6. CASE FinishDelete
  BY <1>6 DEF FinishDelete, BadLinkIsMissing
<1>7. ASSUME NEW d \in Dpids, Register(d) \/ ConnectionUp(d) \/ Lose(d)
      PROVE  UNCHANGED <<adjacency, deleting, bad_links>>
  BY <1>7 DEF Register, ConnectionUp, Lose, link_vars
<1>8. ASSUME NEW loop \in Loops, NEW pair \in Pairs, Build(loop, pair) PROVE UNCHANGED <<adjacency, deleting, bad_links>>
  BY <1>8, BuildFrame
<1>9. CASE UNCHANGED vars
  BY <1>1, <1>9 DEF vars, link_vars
<1>10. QED
  BY <1>1, <1>2, <1>3, <1>4, <1>5, <1>6, <1>7, <1>8, <1>9 DEF Next

\* A sound link never stays on the list of links that routes avoid: every
\* link on it lacks a direction in discovery's map, or is being deleted there.
THEOREM BadLinksAreMissing == Spec => []BadLinkIsMissing
<1>1. QED
  BY InitType, StepType, InitBadLinks, StepBadLinks, PTL DEF Spec

\* Only known links are being deleted.
DeletingKnown == deleting \subseteq adjacency

LEMMA StepDeleting == DeletingKnown /\ [Next]_vars => DeletingKnown'
<1> SUFFICES ASSUME DeletingKnown, [Next]_vars PROVE DeletingKnown'
  OBVIOUS
<1>1. ASSUME UNCHANGED <<adjacency, deleting>> PROVE DeletingKnown'
  BY <1>1 DEF DeletingKnown
<1>2. ASSUME NEW d \in Dpids, Register(d) \/ ConnectionUp(d) \/ Lose(d)
      PROVE  UNCHANGED <<adjacency, deleting>>
  BY <1>2 DEF Register, ConnectionUp, Lose, link_vars
<1>3. ASSUME NEW d \in Dpids, ConnectionDown(d) PROVE DeletingKnown'
  BY <1>3 DEF ConnectionDown, DeletingKnown
<1>4. ASSUME NEW l \in Links, LinkAdded(l) \/ LinkRemoved(l) PROVE DeletingKnown'
  BY <1>4 DEF LinkAdded, LinkRemoved, DeletingKnown
<1>5. ASSUME NEW expired \in SUBSET adjacency, Expire(expired) PROVE DeletingKnown'
  BY <1>5 DEF Expire, DeletingKnown
<1>6. CASE FinishDelete
  BY <1>6 DEF FinishDelete, DeletingKnown
<1>7. ASSUME NEW loop \in Loops, NEW pair \in Pairs, Build(loop, pair)
      PROVE  UNCHANGED <<adjacency, deleting>>
  BY <1>7, BuildFrame
<1>8. CASE UNCHANGED vars
  BY <1>1, <1>8 DEF vars, link_vars
<1>9. QED
  BY <1>1, <1>2, <1>3, <1>4, <1>5, <1>6, <1>7, <1>8 DEF Next

\* A link of a running _delete_links call whose event has been raised is on the
\* controller's list, unless its other direction has been found meanwhile (on
\* the scheduler's thread, while the sender deletes): what makes its deletion
\* from the map safe.
Survives(l) == \E k \in adjacency \ deleting : LinkTuple(k) = LinkTuple(l)
RaisedIsBad == \A l \in deleting \ pending : LinkTuple(l) \in bad_links \/ Survives(l)

LEMMA InitRaised == Init => RaisedIsBad
BY DEF Init, RaisedIsBad

\* The direction that has been found is not being deleted itself.
LEMMA AddedRaised ==
  ASSUME DeletingKnown, RaisedIsBad, NEW added \in Links, LinkAdded(added)
  PROVE  RaisedIsBad'
<1> SUFFICES ASSUME NEW l \in (deleting \ pending)', LinkTuple(l) \notin bad_links'
             PROVE  Survives(l)'
  BY DEF RaisedIsBad
<1>1. /\ adjacency' = adjacency \cup {added} /\ bad_links' = bad_links \ {LinkTuple(added)}
      /\ added \notin adjacency /\ deleting' = deleting /\ pending' = pending
  BY DEF LinkAdded
<1>2. CASE LinkTuple(l) \in bad_links
  <2>1. LinkTuple(l) = LinkTuple(added)
    BY <1>1, <1>2
  <2>2. added \in adjacency' \ deleting'
    BY <1>1 DEF DeletingKnown
  <2>3. QED
    BY <2>1, <2>2 DEF Survives
<1>3. CASE LinkTuple(l) \notin bad_links
  <2>1. PICK k \in adjacency \ deleting : LinkTuple(k) = LinkTuple(l)
    BY <1>1, <1>3 DEF RaisedIsBad, Survives
  <2>2. k \in adjacency' \ deleting'
    BY <1>1, <2>1
  <2>3. QED
    BY <2>1, <2>2 DEF Survives
<1>4. QED
  BY <1>2, <1>3

LEMMA StepRaised == DeletingKnown /\ RaisedIsBad /\ [Next]_vars => RaisedIsBad'
<1> SUFFICES ASSUME DeletingKnown, RaisedIsBad, [Next]_vars
             PROVE  RaisedIsBad'
  OBVIOUS
<1>1. ASSUME UNCHANGED <<adjacency, deleting, pending, bad_links>> PROVE RaisedIsBad'
  BY <1>1 DEF RaisedIsBad, Survives
<1>2. ASSUME NEW d \in Dpids, ConnectionDown(d) PROVE RaisedIsBad'
  BY <1>2 DEF ConnectionDown, RaisedIsBad
<1>3. ASSUME NEW l \in Links, LinkAdded(l) PROVE RaisedIsBad'
  BY <1>3, AddedRaised
<1>4. ASSUME NEW l \in Links, LinkRemoved(l) PROVE RaisedIsBad'
  BY <1>4 DEF LinkRemoved, RaisedIsBad, Survives
<1>5. ASSUME NEW expired \in SUBSET adjacency, Expire(expired) PROVE RaisedIsBad'
  BY <1>5 DEF Expire, RaisedIsBad
<1>6. CASE FinishDelete
  BY <1>6 DEF FinishDelete, RaisedIsBad
<1>7. ASSUME NEW d \in Dpids, Register(d) \/ ConnectionUp(d) \/ Lose(d)
      PROVE  UNCHANGED <<adjacency, deleting, pending, bad_links>>
  BY <1>7 DEF Register, ConnectionUp, Lose, link_vars
<1>8. ASSUME NEW loop \in Loops, NEW pair \in Pairs, Build(loop, pair)
      PROVE  UNCHANGED <<adjacency, deleting, pending, bad_links>>
  BY <1>8, BuildFrame
<1>9. CASE UNCHANGED vars
  BY <1>1, <1>9 DEF vars, link_vars
<1>10. QED
  BY <1>1, <1>2, <1>3, <1>4, <1>5, <1>6, <1>7, <1>8, <1>9 DEF Next

\* Only the end of _delete_links takes links out of discovery's map.
LEMMA OnlyFinishDeletes ==
  ASSUME [Next]_vars, NEW l, l \in adjacency, l \notin adjacency'
  PROVE  FinishDelete
<1>1. ASSUME NEW d \in Dpids, Register(d) \/ ConnectionUp(d) \/ Lose(d) \/ ConnectionDown(d)
      PROVE  adjacency' = adjacency
  BY <1>1 DEF Register, ConnectionUp, Lose, ConnectionDown, link_vars
<1>2. ASSUME NEW k \in Links, LinkAdded(k) \/ LinkRemoved(k)
      PROVE  adjacency \subseteq adjacency'
  BY <1>2 DEF LinkAdded, LinkRemoved
<1>3. ASSUME NEW expired \in SUBSET adjacency, Expire(expired)
      PROVE  adjacency' = adjacency
  BY <1>3 DEF Expire
<1>4. ASSUME NEW loop \in Loops, NEW pair \in Pairs, Build(loop, pair)
      PROVE  adjacency' = adjacency
  BY <1>4, BuildFrame
<1>5. CASE UNCHANGED vars
  BY <1>5 DEF vars, link_vars
<1>6. QED
  BY <1>1, <1>2, <1>3, <1>4, <1>5 DEF Next

LEMMA StepLoss ==
  RaisedIsBad /\ [Next]_vars =>
    [\A t \in LinkTuples : Known(t) /\ ~Known(t)' => t \in bad_links']_vars
<1> SUFFICES ASSUME RaisedIsBad, [Next]_vars,
                    NEW t \in LinkTuples, Known(t), ~Known(t)'
             PROVE  t \in bad_links'
  OBVIOUS
<1>1. PICK l \in adjacency : LinkTuple(l) = t
  BY DEF Known
<1>2. l \notin adjacency'
  BY <1>1 DEF Known
<1>3. FinishDelete
  BY <1>2, OnlyFinishDeletes
<1>4. l \in deleting \ pending
  BY <1>2, <1>3 DEF FinishDelete
<1>5. ~Survives(l)
  <2>1. ASSUME NEW k \in adjacency \ deleting, LinkTuple(k) = LinkTuple(l) PROVE FALSE
    <3>1. k \in adjacency'
      BY <1>3, <2>1 DEF FinishDelete
    <3>2. QED
      BY <1>1, <2>1, <3>1 DEF Known
  <2>2. QED
    BY <2>1 DEF Survives
<1>6. QED
  BY <1>1, <1>3, <1>4, <1>5 DEF RaisedIsBad, FinishDelete

\* Whenever discovery loses the last direction of a link, by timeout or with
\* one of its switches, the controller has the link on its list.
THEOREM LossesAreRecorded == Spec => LossIsRecorded
<1>1. Init => DeletingKnown
  BY DEF Init, DeletingKnown
<1>2. QED
  BY <1>1, StepDeleting, InitRaised, StepRaised, StepLoss, PTL DEF Spec, LossIsRecorded

-----------------------------------------------------------------------------
\* The controller's flow table and the entries in the switches.

LEMMA InitTables == Init => InstalledIsRecorded
BY DEF Init, InstalledIsRecorded

\* A round makes the same changes to both tables; where only one of them
\* changes, the switch is no longer connected.
LEMMA BuildRecorded ==
  ASSUME InstalledIsRecorded, NEW loop, NEW pair, Build(loop, pair)
  PROVE  InstalledIsRecorded'
<1> DEFINE out == Outgoing(pair)
<1> SUFFICES ASSUME NEW e \in installed', e.dpid \in connections'
             PROVE  e \in flow_table'
  BY DEF InstalledIsRecorded
<1>1. CASE BuildOne(loop, pair, out)
  <2>1. PICK done : /\ flow_table' = Applied(flow_table, pair, done)
                    /\ installed' = Applied(installed, pair, done)
                    /\ connections' = connections
    BY <1>1 DEF BuildOne, conn_vars
  <2>2. e \in installed => e \in flow_table
    BY <2>1 DEF InstalledIsRecorded
  <2>3. QED
    BY <2>1, <2>2, AppliedKeeps
<1>2. CASE BuildDeleteFails(loop, pair, out)
  <2>1. PICK done : LET d == out.adds[Len(done) + 1].dpid
                    IN  /\ connections' = connections \ {d}
                        /\ flow_table' = {f \in Applied(flow_table, pair, done) :
                                            ~(f.dpid = d /\ f.pair = pair)}
                        /\ installed' = Applied(installed, pair, done)
    BY <1>2 DEF BuildDeleteFails, Drop
  <2>2. e \in installed => e \in flow_table
    BY <2>1 DEF InstalledIsRecorded
  <2>3. e \in Applied(flow_table, pair, done)
    BY <2>1, <2>2, AppliedKeeps
  <2>4. QED
    BY <2>1, <2>3
<1>3. CASE BuildAddFails(loop, pair, out)
  <2>1. PICK m, done : LET d == out.adds[m].dpid
                       IN  /\ connections' = connections \ {d}
                           /\ flow_table' = Applied(flow_table, pair, done)
                           /\ installed' = {f \in Applied(installed, pair, done) :
                                              ~(f.dpid = d /\ f.pair = pair)}
    BY <1>3 DEF BuildAddFails, Drop
  <2>2. e \in installed => e \in flow_table
    BY <2>1 DEF InstalledIsRecorded
  <2>3. e \in Applied(installed, pair, done)
    BY <2>1
  <2>4. QED
    BY <2>1, <2>2, <2>3, AppliedKeeps
<1>4. QED
  BY <1>1, <1>2, <1>3 DEF Build

LEMMA StepRecorded == InstalledIsRecorded /\ [Next]_vars => InstalledIsRecorded'
<1> SUFFICES ASSUME InstalledIsRecorded, [Next]_vars
             PROVE  InstalledIsRecorded'
  OBVIOUS
<1>1. ASSUME UNCHANGED <<flow_table, installed>>, connections' \subseteq connections
      PROVE  InstalledIsRecorded'
  BY <1>1 DEF InstalledIsRecorded
<1>2. ASSUME NEW d \in Dpids, Register(d) PROVE InstalledIsRecorded'
  BY <1>2 DEF Register, InstalledIsRecorded
<1>3. ASSUME NEW d \in Dpids, ConnectionUp(d) \/ Lose(d) \/ ConnectionDown(d)
      PROVE  UNCHANGED <<flow_table, installed>> /\ connections' \subseteq connections
  BY <1>3 DEF ConnectionUp, Lose, Drop, ConnectionDown, flow_vars
<1>4. ASSUME NEW l \in Links, LinkAdded(l) \/ LinkRemoved(l)
      PROVE  UNCHANGED <<flow_table, installed, connections>>
  BY <1>4 DEF LinkAdded, LinkRemoved, conn_vars, flow_vars
<1>5. ASSUME NEW expired \in SUBSET adjacency, Expire(expired)
      PROVE  UNCHANGED <<flow_table, installed, connections>>
  BY <1>5 DEF Expire, conn_vars, flow_vars
<1>6. CASE FinishDelete
  BY <1>1, <1>6 DEF FinishDelete, conn_vars, flow_vars
<1>7. ASSUME NEW loop \in Loops, NEW pair \in Pairs, Build(loop, pair) PROVE InstalledIsRecorded'
  BY <1>7, BuildRecorded
<1>8. CASE UNCHANGED vars
  BY <1>1, <1>8 DEF vars, conn_vars, flow_vars
<1>9. QED
  BY <1>1, <1>2, <1>3, <1>4, <1>5, <1>6, <1>7, <1>8 DEF Next

\* The controller remembers every entry by which a connected switch forwards:
\* it can always tell which routes a failed link has broken.
THEOREM EntriesAreRecorded == Spec => []InstalledIsRecorded
<1>1. QED
  BY InitTables, StepRecorded, PTL DEF Spec
=============================================================================
