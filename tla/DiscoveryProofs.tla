-------------------------- MODULE DiscoveryProofs --------------------------
(***************************************************************************)
(* What Discovery guarantees for every network, every order of its events  *)
(* and all timing parameters: it is the LinkLayer its listeners rely on,   *)
(* and no link outlives its time stamp by more than one check period.      *)
(* Its sender has every port in its lists once and serves it every cycle,  *)
(* and so a link that works is not taken for dead, if packets are fast     *)
(* enough.                                                                 *)
(***************************************************************************)
EXTENDS Discovery, PythonListProofs

-----------------------------------------------------------------------------
\* Links come and go as promised.

\* Only known links are being deleted, and known links are wires.
LinksKnown ==
  /\ DOMAIN adjacency \subseteq Wires
  /\ deleting \subseteq DOMAIN adjacency
  /\ told \subseteq DOMAIN adjacency
  /\ \A f \in flying : f.link \in Wires

\* The actions that leave the map of links alone.
Elsewhere ==
  \/ SendPackets
  \/ \E f \in flying : Lost(f)
  \/ \E d \in Dpids : ConnectionUp(d)
  \/ \E d \in Dpids, p \in UNION {PortsOf[e] : e \in Dpids} : PortAdded(d, p) \/ PortDeleted(d, p)
  \/ \E w \in Wires : Unplug(w) \/ Replug(w)

\* What they leave alone.
LEMMA ElsewhereFrame ==
  ASSUME Elsewhere
  PROVE  UNCHANGED <<check, adjacency, deleting, told>>
BY DEF Elsewhere, SendPackets, Lost, ConnectionUp, PortAdded, PortDeleted, Unplug, Replug, link_vars

\* Packets go out on wires only.
LEMMA ElsewhereFlying ==
  ASSUME Elsewhere, \A f \in flying : f.link \in Wires
  PROVE  \A f \in flying' : f.link \in Wires
<1>1. CASE SendPackets
  <2>1. PICK sent : flying' = flying \cup {[link |-> w, age |-> 0] :
                      w \in {w \in Wires : Carries(w) /\ <<w.dpid1, w.port1>> \in sent}}
    BY <1>1 DEF SendPackets
  <2>2. \A f \in flying' : f \in flying \/ \E w \in Wires : f = [link |-> w, age |-> 0]
    BY <2>1
  <2>3. QED
    BY <2>2
<1>2. CASE ~SendPackets
  <2>1. flying' \subseteq flying
    BY <1>2 DEF Elsewhere, Lost, ConnectionUp, PortAdded, PortDeleted, Unplug, Replug
  <2>2. QED
    BY <2>1
<1>3. QED
  BY <1>1, <1>2

\* The actions of Next, sorted by what they do to the map of links.
LEMMA NextCases ==
  ASSUME [Next]_vars
  PROVE  \/ Elsewhere \/ UNCHANGED vars
         \/ \E d \in Dpids : ConnectionDown(d)
         \/ \E f \in flying : PacketIn(f)
         \/ ExpireLinks \/ FinishDelete \/ Tick
         \/ \E l \in Wires : Removed(l)
BY DEF Next, Progress, Elsewhere

\* LinksKnown is inductive.
LEMMA StepKnown == LinksKnown /\ [Next]_vars => LinksKnown'
<1> SUFFICES ASSUME LinksKnown, [Next]_vars PROVE LinksKnown'
  OBVIOUS
<1>1. CASE Elsewhere
  BY <1>1, ElsewhereFrame, ElsewhereFlying DEF LinksKnown
<1>2. CASE UNCHANGED vars
  BY <1>2 DEF LinksKnown, vars, link_vars
<1>3. ASSUME NEW d \in Dpids, ConnectionDown(d) PROVE LinksKnown'
  BY <1>3 DEF LinksKnown, ConnectionDown
<1>4. ASSUME NEW f \in flying, PacketIn(f) PROVE LinksKnown'
  BY <1>4 DEF LinksKnown, PacketIn, Stamped, Idle
<1>5. CASE ExpireLinks
  BY <1>5 DEF LinksKnown, ExpireLinks
<1>6. CASE FinishDelete
  BY <1>6 DEF LinksKnown, FinishDelete
<1>7. CASE Tick
  <2>1. DOMAIN adjacency' = DOMAIN adjacency /\ UNCHANGED <<deleting, told>>
    BY <1>7 DEF Tick
  <2>2. flying' = {[f EXCEPT !.age = @ + 1] : f \in flying}
    BY <1>7 DEF Tick
  <2>3. ASSUME NEW g \in flying' PROVE g.link \in Wires
    <3>1. PICK f \in flying : g = [f EXCEPT !.age = @ + 1]
      BY <2>2
    <3>2. g.link = f.link
      BY <3>1
    <3>3. QED
      BY <3>2 DEF LinksKnown
  <2>4. QED
    BY <2>1, <2>3 DEF LinksKnown
<1>8. ASSUME NEW l \in Wires, Removed(l) PROVE LinksKnown'
  BY <1>8 DEF LinksKnown, Removed
<1>9. QED
  BY <1>1, <1>2, <1>3, <1>4, <1>5, <1>6, <1>7, <1>8, NextCases

\* Every step is one of LinkLayer, or none.
LEMMA StepLinkLayer == LinksKnown /\ [Next]_vars => [LL!Next]_(LL!vars)
<1> SUFFICES ASSUME LinksKnown, [Next]_vars PROVE LL!Next \/ UNCHANGED LL!vars
  OBVIOUS
<1>1. CASE Elsewhere \/ UNCHANGED vars
  <2>1. UNCHANGED <<adjacency, deleting, told>>
    BY <1>1, ElsewhereFrame DEF vars, link_vars
  <2>2. QED
    BY <2>1 DEF LL!vars
<1>2. ASSUME NEW d \in Dpids, ConnectionDown(d) PROVE LL!Next
  <2>1. deleting' \in SUBSET DOMAIN adjacency
    BY <1>2 DEF ConnectionDown
  <2>2. LL!GiveUp(deleting')
    BY <1>2, <2>1 DEF ConnectionDown, Idle, LL!GiveUp
  <2>3. QED
    BY <2>1, <2>2 DEF LL!Next
<1>3. ASSUME NEW f \in flying, PacketIn(f) PROVE LL!Next \/ UNCHANGED LL!vars
  <2>1. CASE f.link \in DOMAIN adjacency \/ ~({f.link.dpid1, f.link.dpid2} \subseteq up)
    <3>1. DOMAIN adjacency' = DOMAIN adjacency /\ UNCHANGED <<deleting, told>>
      BY <1>3, <2>1 DEF PacketIn, Stamped
    <3>2. QED
      BY <3>1 DEF LL!vars
  <2>2. CASE f.link \notin DOMAIN adjacency /\ {f.link.dpid1, f.link.dpid2} \subseteq up
    <3>1. f.link \in Wires
      BY DEF LinksKnown
    <3>2. LL!Found(f.link)
      BY <1>3, <2>2, <3>1 DEF PacketIn, Stamped, Idle, LL!Found
    <3>3. QED
      BY <3>1, <3>2 DEF LL!Next
  <2>3. QED
    BY <2>1, <2>2
<1>4. CASE ExpireLinks
  <2>1. deleting' \in SUBSET DOMAIN adjacency
    BY <1>4 DEF ExpireLinks
  <2>2. LL!GiveUp(deleting')
    BY <1>4, <2>1 DEF ExpireLinks, Idle, LL!GiveUp
  <2>3. QED
    BY <2>1, <2>2 DEF LL!Next
<1>5. CASE FinishDelete
  <2>1. LL!Forget
    BY <1>5 DEF FinishDelete, LL!Forget
  <2>2. QED
    BY <2>1 DEF LL!Next
<1>6. CASE Tick
  <2>1. DOMAIN adjacency' = DOMAIN adjacency /\ UNCHANGED <<deleting, told>>
    BY <1>6 DEF Tick
  <2>2. QED
    BY <2>1 DEF LL!vars
<1>7. ASSUME NEW l \in Wires, Removed(l) PROVE LL!Next
  <2>1. LL!Tell(l)
    BY <1>7 DEF Removed, LL!Tell
  <2>2. QED
    BY <2>1 DEF LL!Next
<1>8. QED
  BY <1>1, <1>2, <1>3, <1>4, <1>5, <1>6, <1>7, NextCases

\* Discovery implements LinkLayer, the abstract specification the controller's
\* links are shown to follow too.
THEOREM LinksAsPromised == Spec => ImplementsLinkLayer
<1>1. Init => LL!Init /\ LinksKnown
  BY DEF Init, LL!Init, LinksKnown
<1>2. QED
  BY <1>1, StepKnown, StepLinkLayer, PTL DEF Spec, ImplementsLinkLayer, LL!Spec

-----------------------------------------------------------------------------
\* No link outlives its time stamp.

\* When the next check comes, no link that is not being deleted will be older
\* than the timeout and a whole period.
FreshUntilCheck ==
  /\ check \in 0..check_period
  /\ deleting \subseteq DOMAIN adjacency
  /\ \A l \in DOMAIN adjacency : adjacency[l] \in 0..(link_timeout + check_period)
  /\ \A l \in DOMAIN adjacency \ deleting : adjacency[l] + check <= link_timeout + check_period

\* FreshUntilCheck is inductive.
LEMMA StepFresh == FreshUntilCheck /\ [Next]_vars => FreshUntilCheck'
<1> SUFFICES ASSUME FreshUntilCheck, [Next]_vars PROVE FreshUntilCheck'
  OBVIOUS
<1> USE Times
<1>1. CASE Elsewhere \/ UNCHANGED vars
  <2>1. UNCHANGED <<check, adjacency, deleting>>
    BY <1>1, ElsewhereFrame DEF vars, link_vars
  <2>2. QED
    BY <2>1 DEF FreshUntilCheck
<1>2. ASSUME NEW d \in Dpids, ConnectionDown(d) PROVE FreshUntilCheck'
  BY <1>2 DEF FreshUntilCheck, ConnectionDown, Idle
<1>3. ASSUME NEW f \in flying, PacketIn(f) PROVE FreshUntilCheck'
  <2>1. CASE adjacency' = adjacency
    BY <1>3, <2>1 DEF FreshUntilCheck, PacketIn
  <2>2. CASE adjacency' = Stamped(f.link)
    <3>1. /\ DOMAIN adjacency' = DOMAIN adjacency \cup {f.link}
          /\ \A l \in DOMAIN adjacency' :
               adjacency'[l] = IF l = f.link THEN 0 ELSE adjacency[l]
      BY <2>2 DEF Stamped
    <3>2. UNCHANGED check /\ deleting' = {}
      BY <1>3 DEF PacketIn, Idle
    <3>3. deleting = {}
      BY <1>3 DEF PacketIn, Idle
    <3>4. QED
      BY <3>1, <3>2, <3>3 DEF FreshUntilCheck
  <2>3. QED
    BY <1>3, <2>1, <2>2 DEF PacketIn
<1>4. CASE ExpireLinks
  BY <1>4 DEF FreshUntilCheck, ExpireLinks
<1>5. CASE FinishDelete
  BY <1>5 DEF FreshUntilCheck, FinishDelete
<1>6. CASE Tick
  <2>1. /\ DOMAIN adjacency' = DOMAIN adjacency
        /\ \A l \in DOMAIN adjacency :
             adjacency'[l] = Least(adjacency[l], link_timeout + check_period) + 1
        /\ check' = check - 1 /\ check # 0
        /\ deleting = {} /\ deleting' = {}
    BY <1>6 DEF Tick, Idle
  <2>2. ASSUME NEW l \in DOMAIN adjacency PROVE adjacency'[l] = adjacency[l] + 1
    BY <2>1 DEF FreshUntilCheck, Least
  <2>3. QED
    BY <2>1, <2>2 DEF FreshUntilCheck
<1>7. ASSUME NEW l \in Wires, Removed(l) PROVE FreshUntilCheck'
  BY <1>7 DEF FreshUntilCheck, Removed
<1>8. QED
  BY <1>1, <1>2, <1>3, <1>4, <1>5, <1>6, <1>7, NextCases

\* A link whose packets stop coming is gone after the timeout and at most one
\* check period more, whatever else happens.
THEOREM StaleLinksAreDeleted == Spec => []StaleLinksGo
<1>1. Init => FreshUntilCheck
  BY Times DEF Init, FreshUntilCheck
<1>2. FreshUntilCheck => StaleLinksGo
  BY Times DEF FreshUntilCheck, StaleLinksGo
<1>3. QED
  BY <1>1, <1>2, StepFresh, PTL DEF Spec
-----------------------------------------------------------------------------
\* Lists of ports.

\* A finite set has a listing, with all of its elements once.
LEMMA Listed ==
  ASSUME NEW S, IsFiniteSet(S)
  PROVE  Listing(S) \in Seq(S) /\ ToSet(Listing(S)) = S /\ Distinct(Listing(S))
<1> DEFINE n == Cardinality(S)
<1> DEFINE l == Listing(S)
<1>1. n \in Nat
  BY FS_CardinalityType
<1>2. PICK f \in Bijection(1..n, S) : TRUE
  BY FS_CardinalityType DEF ExistsBijection
<1>3. f \in [1..n -> S] /\ ToSet(f) = S
  BY <1>2 DEF Bijection, Injection, Surjection, ToSet
<1>4. l \in [1..n -> S] /\ ToSet(l) = S
  BY <1>3 DEF Listing
<1> HIDE DEF l
<1>5. l \in Surjection(1..n, S)
  BY <1>4 DEF Surjection, ToSet
<1>6. IsFiniteSet(1..n) /\ Cardinality(1..n) = n
  BY <1>1, FS_Interval
<1>7. l \in Injection(1..n, S)
  BY <1>5, <1>6, FS_Surjection
<1>8. Distinct(l)
  BY <1>4, <1>7 DEF Injection, Distinct, IsInjective
<1>9. l \in Seq(S)
  BY <1>1, <1>4
<1>10. QED
  BY <1>4, <1>8, <1>9 DEF l

Number == Len(this_cycle) + Len(next_cycle)
Once == /\ Distinct(this_cycle) /\ Distinct(next_cycle)
        /\ ToSet(this_cycle) \cap ToSet(next_cycle) = {}
Physical == UNION {PortsOfSwitch(d, ports) : d \in up}
Lists ==
  /\ this_cycle \in Seq(PortIds) /\ next_cycle \in Seq(PortIds)
  /\ up \subseteq Dpids
  /\ DOMAIN ports = Dpids /\ \A d \in Dpids : ports[d] \subseteq PortsOf[d]
  /\ Once
  /\ Queued = Physical

\* As long as there are ports the timer runs.
TimerRuns == IF Number = 0 THEN timer = Off ELSE timer \in 0..Interval(Number)

\* The time between two packets, and what all of them take.
LEMMA IntervalFits ==
  ASSUME NEW n \in Nat \ {0}
  PROVE  /\ Interval(n) \in Nat \ {0}
         /\ Interval(n) <= send_cycle_time \/ Interval(n) <= shortest
         /\ n * shortest <= send_cycle_time => n * Interval(n) <= send_cycle_time
<1>1. send_cycle_time \in Nat \ {0} /\ shortest \in Nat \ {0} /\ n * shortest \in Nat
  BY Times
<1> DEFINE c == send_cycle_time
<1> HIDE DEF c
<1>2. c \in Nat \ {0} /\ c = send_cycle_time
  BY <1>1 DEF c
<1>3. CASE n * shortest > c
  <2>1. Interval(n) = shortest
    BY <1>2, <1>3 DEF Interval
  <2>2. QED
    BY <1>1, <1>2, <1>3, <2>1
<1>4. CASE n * shortest <= c
  <2>1. Interval(n) = c \div n
    BY <1>1, <1>2, <1>4 DEF Interval
  <2>2. n <= n * shortest
    BY <1>1
  <2>3. n <= c
    BY <1>1, <1>2, <1>4, <2>2
  <2>4. c \div n \in Nat /\ n * (c \div n) <= c
    BY <1>2
  <2>5. c \div n # 0
    BY <1>2, <2>3
  <2>6. c \div n <= c
    BY <1>2
  <2>7. QED
    BY <1>2, <2>1, <2>4, <2>5, <2>6
<1>5. QED
  BY <1>1, <1>2, <1>3, <1>4

\* The timer after it was set, for n ports.
LEMMA TimerSet ==
  ASSUME NEW n \in Nat
  PROVE  /\ TimerFor(n) \in {Off} \cup 0..send_cycle_time \cup 0..shortest
         /\ IF n = 0 THEN TimerFor(n) = Off ELSE TimerFor(n) \in 0..Interval(n)
<1>1. send_cycle_time \in Nat \ {0} /\ shortest \in Nat \ {0}
  BY Times
<1>2. CASE n = 0
  BY <1>2 DEF TimerFor
<1>3. CASE n # 0
  <2>1. TimerFor(n) = Interval(n)
    BY <1>3 DEF TimerFor
  <2>2. QED
    BY <1>1, <1>3, <2>1, IntervalFits
<1>4. QED
  BY <1>2, <1>3

\* The batches: at least one packet each.
LEMMA Batches ==
  ASSUME NEW n \in Nat \ {0}
  PROVE  /\ Chunks(n) \subseteq Nat \ {0}
         /\ n * shortest <= send_cycle_time => Chunks(n) = {1}
<1>1. send_cycle_time \in Nat \ {0} /\ shortest \in Nat \ {0} /\ n * shortest \in Nat
  BY Times
<1> DEFINE c == send_cycle_time
<1> DEFINE w == n * shortest
<1> HIDE DEF c, w
<1>2. c \in Nat \ {0} /\ c = send_cycle_time /\ w \in Nat /\ w = n * shortest
  BY <1>1 DEF c, w
<1>3. CASE w > c
  <2>1. w \div c \in Nat \ {0}
    BY <1>2, <1>3
  <2>2. (w + c - 1) \div c \in Nat \ {0}
    BY <1>2, <1>3
  <2>3. Chunks(n) = {w \div c, (w + c - 1) \div c}
    BY <1>2, <1>3 DEF Chunks
  <2>4. QED
    BY <1>2, <1>3, <2>1, <2>2, <2>3
<1>4. CASE w <= c
  <2>1. Chunks(n) = {1}
    BY <1>2, <1>4 DEF Chunks
  <2>2. QED
    BY <2>1
<1>5. QED
  BY <1>2, <1>3, <1>4

\* The number of ports is that of the list entries.
LEMMA Numbers ==
  ASSUME Lists
  PROVE  /\ Number \in Nat /\ Number = Cardinality(Queued)
         /\ Len(this_cycle) \in Nat /\ Len(next_cycle) \in Nat
<1>1. Len(this_cycle) \in Nat /\ Len(next_cycle) \in Nat
  BY DEF Lists
<1>2. /\ IsFiniteSet(ToSet(this_cycle)) /\ Cardinality(ToSet(this_cycle)) = Len(this_cycle)
      /\ IsFiniteSet(ToSet(next_cycle)) /\ Cardinality(ToSet(next_cycle)) = Len(next_cycle)
  BY Counted DEF Lists, Once
<1>3. Cardinality(ToSet(this_cycle) \cap ToSet(next_cycle)) = 0
  BY FS_EmptySet DEF Lists, Once
<1>4. Cardinality(Queued) = Len(this_cycle) + Len(next_cycle) - 0
  BY <1>2, <1>3, FS_Union DEF Queued
<1>5. QED
  BY <1>1, <1>4 DEF Number

\* Ports taken out of both lists.
LEMMA TakenOut ==
  ASSUME Lists, NEW gone, NEW t, NEW n, t = Without(this_cycle, gone), n = Without(next_cycle, gone)
  PROVE  /\ t \in Seq(PortIds) /\ n \in Seq(PortIds)
         /\ Distinct(t) /\ Distinct(n) /\ ToSet(t) \cap ToSet(n) = {}
         /\ ToSet(t) \cup ToSet(n) = Physical \ gone
<1>1. /\ t \in Seq(PortIds) /\ Distinct(t) /\ ToSet(t) = ToSet(this_cycle) \ gone
  BY Filtered DEF Lists, Once
<1>2. /\ n \in Seq(PortIds) /\ Distinct(n) /\ ToSet(n) = ToSet(next_cycle) \ gone
  BY Filtered DEF Lists, Once
<1>3. QED
  BY <1>1, <1>2 DEF Lists, Once, Queued

\* The ports of one switch.
LEMMA OfSwitch ==
  ASSUME NEW d \in Dpids, NEW of, of[d] \subseteq PortsOf[d]
  PROVE  /\ PortsOfSwitch(d, of) \subseteq PortIds
         /\ IsFiniteSet(PortsOfSwitch(d, of))
         /\ \A q \in PortsOfSwitch(d, of) : q[1] = d /\ q[2] <= OFPP_MAX
<1> DEFINE P == {p \in of[d] : p <= OFPP_MAX}
<1>1. P \subseteq PortsOf[d] /\ IsFiniteSet(PortsOf[d])
  BY PortShape
<1>2. IsFiniteSet(P) /\ IsFiniteSet({d})
  BY <1>1, FS_Subset, FS_Singleton
<1>3. IsFiniteSet({d} \X P)
  BY <1>2, FS_Product
<1>4. P \subseteq UNION {PortsOf[e] : e \in Dpids}
  BY <1>1
<1>5. {d} \X P \subseteq PortIds /\ \A q \in {d} \X P : q[1] = d /\ q[2] <= OFPP_MAX
  BY <1>4 DEF PortIds
<1>6. QED
  BY <1>3, <1>5 DEF PortsOfSwitch

\* Ports put at the end of the lists they were taken out of.
LEMMA PutBack ==
  ASSUME NEW t \in Seq(PortIds), NEW n \in Seq(PortIds), NEW more \in Seq(PortIds),
         Distinct(t), Distinct(n), Distinct(more), ToSet(t) \cap ToSet(n) = {},
         (ToSet(t) \cup ToSet(n)) \cap ToSet(more) = {}
  PROVE  /\ n \o more \in Seq(PortIds) /\ Distinct(n \o more)
         /\ ToSet(t) \cap ToSet(n \o more) = {}
         /\ ToSet(t) \cup ToSet(n \o more) = (ToSet(t) \cup ToSet(n)) \cup ToSet(more)
<1>1. /\ n \o more \in Seq(PortIds) /\ ToSet(n \o more) = ToSet(n) \cup ToSet(more)
      /\ Distinct(n \o more) <=> Distinct(n) /\ Distinct(more) /\ ToSet(n) \cap ToSet(more) = {}
  BY Joined
<1>2. QED
  BY <1>1

\* A batch goes round: the ports stay the same.
LEMMA Turn ==
  ASSUME Lists, Number # 0, NEW num \in Nat \ {0}
  PROVE  LET t == Take(num).this
             n == Take(num).next
         IN  /\ t \in Seq(PortIds) /\ n \in Seq(PortIds)
             /\ Distinct(t) /\ Distinct(n) /\ ToSet(t) \cap ToSet(n) = {}
             /\ ToSet(t) \cup ToSet(n) = Queued
             /\ Len(t) + Len(n) = Number
<1> DEFINE t == Take(num).this
<1> DEFINE n == Take(num).next
<1> DEFINE m == Len(this_cycle)
<1>1. /\ this_cycle \in Seq(PortIds) /\ next_cycle \in Seq(PortIds) /\ Once
      /\ m \in Nat /\ Len(next_cycle) \in Nat
  BY Numbers DEF Lists
<1>2. CASE num <= m
  <2> DEFINE a == SubSeq(this_cycle, 1, num)
  <2> DEFINE b == SubSeq(this_cycle, num + 1, m)
  <2>1. t = b /\ n = next_cycle \o a
    BY <1>2 DEF Take
  <2>2. num \in 0..m
    BY <1>1, <1>2
  <2>3. /\ a \in Seq(PortIds) /\ b \in Seq(PortIds) /\ a \o b = this_cycle
        /\ Len(a) = num /\ Len(b) = m - num
    BY <1>1, <2>2, Cut
  <2> HIDE DEF a, b, t, n
  <2>4. /\ ToSet(this_cycle) = ToSet(a) \cup ToSet(b)
        /\ Distinct(a) /\ Distinct(b) /\ ToSet(a) \cap ToSet(b) = {}
    <3>1. /\ ToSet(a \o b) = ToSet(a) \cup ToSet(b)
          /\ Distinct(a \o b) <=> Distinct(a) /\ Distinct(b) /\ ToSet(a) \cap ToSet(b) = {}
      <4>1. a \in Seq(PortIds) /\ b \in Seq(PortIds)
        BY <2>3
      <4>2. QED
        BY <4>1, Joined
    <3>2. QED
      BY <1>1, <2>3, <3>1 DEF Once
  <2>5. /\ n \in Seq(PortIds) /\ Len(n) = Len(next_cycle) + num
        /\ ToSet(n) = ToSet(next_cycle) \cup ToSet(a)
        /\ Distinct(n)
    <3>1. /\ n \in Seq(PortIds) /\ Len(n) = Len(next_cycle) + Len(a)
          /\ ToSet(n) = ToSet(next_cycle) \cup ToSet(a)
          /\ Distinct(n) <=> Distinct(next_cycle) /\ Distinct(a) /\ ToSet(next_cycle) \cap ToSet(a) = {}
      <4>1. /\ next_cycle \o a \in Seq(PortIds) /\ Len(next_cycle \o a) = Len(next_cycle) + Len(a)
            /\ ToSet(next_cycle \o a) = ToSet(next_cycle) \cup ToSet(a)
            /\ Distinct(next_cycle \o a) <=> Distinct(next_cycle) /\ Distinct(a)
                                            /\ ToSet(next_cycle) \cap ToSet(a) = {}
        BY <1>1, <2>3, Joined
      <4>2. QED
        BY <2>1, <4>1
    <3>2. QED
      BY <1>1, <2>3, <2>4, <3>1 DEF Once
  <2>6. t \in Seq(PortIds) /\ Distinct(t) /\ ToSet(t) = ToSet(b) /\ Len(t) = m - num
    BY <2>1, <2>3, <2>4
  <2>7. ToSet(t) \cap ToSet(n) = {} /\ ToSet(t) \cup ToSet(n) = Queued
    BY <1>1, <2>4, <2>5, <2>6 DEF Once, Queued
  <2>8. Len(t) + Len(n) = Number
    BY <1>1, <2>5, <2>6 DEF Number
  <2>9. QED
    BY <2>5, <2>6, <2>7, <2>8 DEF t, n
<1>3. CASE num > m
  <2> DEFINE round == next_cycle \o this_cycle
  <2> DEFINE k == Len(this_cycle \o next_cycle)
  <2> DEFINE last == ((num - m - 1) % k) + 1
  <2> DEFINE a == SubSeq(round, 1, last)
  <2> DEFINE b == SubSeq(round, last + 1, k)
  <2>1. t = b /\ n = a
    <3>1. ~(num <= m)
      BY <1>1, <1>3
    <3>2. QED
      BY <3>1 DEF Take
  <2>2. /\ round \in Seq(PortIds) /\ Len(round) = Number /\ k = Number
        /\ ToSet(round) = Queued /\ Distinct(round)
    <3>1. /\ round \in Seq(PortIds) /\ Len(round) = Len(next_cycle) + m
          /\ ToSet(round) = ToSet(next_cycle) \cup ToSet(this_cycle)
          /\ Distinct(round) <=> Distinct(next_cycle) /\ Distinct(this_cycle)
                                 /\ ToSet(next_cycle) \cap ToSet(this_cycle) = {}
      BY <1>1, Joined
    <3>2. k = m + Len(next_cycle)
      BY <1>1, Joined
    <3>3. QED
      BY <1>1, <3>1, <3>2 DEF Once, Queued, Number
  <2>3. k \in Nat \ {0} /\ num - m - 1 \in Nat
    BY <1>1, <1>3, <2>2, Numbers
  <2>4. last \in 0..k
    <3> HIDE DEF k
    <3>1. (num - m - 1) % k \in 0..(k - 1)
      BY <2>3
    <3>2. QED
      BY <2>3, <3>1
  <2> HIDE DEF last, k
  <2>5. k = Len(round)
    BY <2>2
  <2> HIDE DEF round
  <2>6. /\ a \in Seq(PortIds) /\ b \in Seq(PortIds) /\ a \o b = round
        /\ Len(a) = last /\ Len(b) = k - last
    BY <2>2, <2>4, <2>5, Cut
  <2> HIDE DEF a, b, t, n
  <2>7. /\ ToSet(round) = ToSet(a) \cup ToSet(b)
        /\ Distinct(a) /\ Distinct(b) /\ ToSet(a) \cap ToSet(b) = {}
    <3>1. /\ ToSet(a \o b) = ToSet(a) \cup ToSet(b)
          /\ Distinct(a \o b) <=> Distinct(a) /\ Distinct(b) /\ ToSet(a) \cap ToSet(b) = {}
      BY <2>6, Joined
    <3>2. QED
      BY <2>2, <2>6, <3>1
  <2>8. Len(b) + Len(a) = Number
    BY <2>2, <2>3, <2>4, <2>6
  <2>9. QED
    BY <2>1, <2>2, <2>6, <2>7, <2>8 DEF t, n
<1>4. QED
  <2>1. num <= m \/ num > m
    BY <1>1
  <2> HIDE DEF m, t, n
  <2>2. QED
    BY <1>2, <1>3, <2>1 DEF t, n

\* The steps by what they do to the lists.
Unmoved ==
  \/ ExpireLinks \/ FinishDelete \/ UNCHANGED vars
  \/ \E f \in flying : PacketIn(f) \/ Lost(f)
  \/ \E l \in Wires : Removed(l)
  \/ \E w \in Wires : Unplug(w) \/ Replug(w)

\* What they leave alone.
LEMMA UnmovedFrame ==
  ASSUME Unmoved
  PROVE  UNCHANGED <<up, ports, this_cycle, next_cycle, timer>>
BY DEF Unmoved, ExpireLinks, FinishDelete, PacketIn, Lost, Removed, Unplug, Replug, vars, sender_vars

\* Which steps change the lists or the timer.
LEMMA NextLists ==
  ASSUME [Next]_vars
  PROVE  \/ Unmoved \/ Tick \/ SendPackets
         \/ \E d \in Dpids : ConnectionUp(d) \/ ConnectionDown(d)
         \/ \E d \in Dpids, p \in UNION {PortsOf[e] : e \in Dpids} : PortAdded(d, p) \/ PortDeleted(d, p)
BY DEF Next, Progress, Unmoved

\* Lists that were changed, with the timer set anew.
LEMMA SetAnew ==
  ASSUME this_cycle' \in Seq(PortIds), next_cycle' \in Seq(PortIds), SetTimer
  PROVE  TimerRuns' /\ timer' \in {Off} \cup 0..send_cycle_time \cup 0..shortest
<1>1. Number' \in Nat
  BY DEF Number
<1>2. timer' = TimerFor(Number')
  BY DEF SetTimer, Number
<1>3. QED
  BY <1>1, <1>2, TimerSet DEF TimerRuns

\* The ports of a switch that connects are taken out of both lists, if they were
\* there, and put at the end of the next cycle.
LEMMA ListsConnectionUp ==
  ASSUME Lists, NEW d \in Dpids, ConnectionUp(d)
  PROVE  Lists'
<1> DEFINE gone == {p \in PortIds : p[1] = d}
<1> DEFINE t == Without(this_cycle, gone)
<1> DEFINE n == Without(next_cycle, gone)
<1> DEFINE more == Listing(PortsOfSwitch(d, ports))
<1>1. this_cycle' = t /\ next_cycle' = n \o more /\ up' = up \cup {d} /\ ports' = ports
  BY DEF ConnectionUp
<1>2. /\ t \in Seq(PortIds) /\ n \in Seq(PortIds)
      /\ Distinct(t) /\ Distinct(n) /\ ToSet(t) \cap ToSet(n) = {}
      /\ ToSet(t) \cup ToSet(n) = Physical \ gone
  BY TakenOut
<1>3. /\ PortsOfSwitch(d, ports) \subseteq PortIds /\ IsFiniteSet(PortsOfSwitch(d, ports))
      /\ \A q \in PortsOfSwitch(d, ports) : q[1] = d
  BY OfSwitch DEF Lists
<1>4. /\ more \in Seq(PortsOfSwitch(d, ports)) /\ Distinct(more)
      /\ ToSet(more) = PortsOfSwitch(d, ports)
  BY <1>3, Listed
<1> HIDE DEF t, n, more
<1>5. more \in Seq(PortIds)
  BY <1>3, <1>4
<1>6. (ToSet(t) \cup ToSet(n)) \cap ToSet(more) = {}
  BY <1>2, <1>3, <1>4
<1>7. /\ n \o more \in Seq(PortIds) /\ Distinct(n \o more)
      /\ ToSet(t) \cap ToSet(n \o more) = {}
      /\ ToSet(t) \cup ToSet(n \o more) = (ToSet(t) \cup ToSet(n)) \cup ToSet(more)
  BY <1>2, <1>4, <1>5, <1>6, PutBack
<1>8. Physical' = (Physical \ gone) \cup PortsOfSwitch(d, ports)
  <2>1. \A e \in up \cup {d} : \A q \in PortsOfSwitch(e, ports) : q \in PortIds /\ q[1] = e
    BY OfSwitch DEF Lists
  <2>2. Physical' = UNION {PortsOfSwitch(e, ports) : e \in up \cup {d}}
    BY <1>1 DEF Physical, PortsOfSwitch
  <2>3. QED
    BY <2>1, <2>2 DEF Physical
<1>9. Queued' = Physical'
  <2>1. Queued' = ToSet(t) \cup ToSet(n \o more)
    BY <1>1 DEF Queued, ToSet
  <2>2. QED
    BY <1>2, <1>4, <1>7, <1>8, <2>1
<1>10. Once'
  <2>1. Distinct(this_cycle') /\ Distinct(next_cycle') /\ ToSet(this_cycle') \cap ToSet(next_cycle') = {}
    BY <1>1, <1>2, <1>7
  <2>2. QED
    BY <2>1 DEF Once, Distinct, ToSet
<1>11. QED
  BY <1>1, <1>2, <1>7, <1>9, <1>10 DEF Lists

\* The ports of a switch that is gone are in no list, and those of others where they were.
LEMMA ListsConnectionDown ==
  ASSUME Lists, NEW d \in Dpids, ConnectionDown(d)
  PROVE  Lists'
<1> DEFINE gone == {p \in PortIds : p[1] = d}
<1> DEFINE t == Without(this_cycle, gone)
<1> DEFINE n == Without(next_cycle, gone)
<1>1. this_cycle' = t /\ next_cycle' = n /\ up' = up \ {d} /\ ports' = ports
  BY DEF ConnectionDown
<1>2. /\ t \in Seq(PortIds) /\ n \in Seq(PortIds)
      /\ Distinct(t) /\ Distinct(n) /\ ToSet(t) \cap ToSet(n) = {}
      /\ ToSet(t) \cup ToSet(n) = Physical \ gone
  BY TakenOut
<1> HIDE DEF t, n
<1>3. Physical' = Physical \ gone
  <2>1. \A e \in up : \A q \in PortsOfSwitch(e, ports) : q \in PortIds /\ q[1] = e
    BY OfSwitch DEF Lists
  <2>2. Physical' = UNION {PortsOfSwitch(e, ports) : e \in up \ {d}}
    BY <1>1 DEF Physical, PortsOfSwitch
  <2>3. QED
    BY <2>1, <2>2 DEF Physical
<1>4. Queued' = Physical' /\ Once'
  <2>1. Queued' = ToSet(t) \cup ToSet(n)
    BY <1>1 DEF Queued, ToSet
  <2>2. Distinct(this_cycle') /\ Distinct(next_cycle') /\ ToSet(this_cycle') \cap ToSet(next_cycle') = {}
    BY <1>1, <1>2
  <2>3. Once'
    BY <2>2 DEF Once, Distinct, ToSet
  <2>4. QED
    BY <1>2, <1>3, <2>1, <2>3
<1>5. QED
  BY <1>1, <1>2, <1>4 DEF Lists

\* A port that is added is in the next cycle, once.
LEMMA ListsPortAdded ==
  ASSUME Lists, NEW d \in Dpids, NEW p, PortAdded(d, p)
  PROVE  Lists'
<1> DEFINE gone == {<<d, p>>}
<1> DEFINE t == Without(this_cycle, gone)
<1> DEFINE n == Without(next_cycle, gone)
<1> DEFINE more == <<<<d, p>>>>
<1>1. /\ ports' = [ports EXCEPT ![d] = @ \cup {p}] /\ up' = up
      /\ p \in PortsOf[d]
  BY DEF PortAdded
<1>2. /\ DOMAIN ports' = Dpids /\ \A e \in Dpids : ports'[e] = IF e = d THEN ports[d] \cup {p} ELSE ports[e]
  BY <1>1 DEF Lists
<1>3. up \subseteq Dpids /\ \A e \in Dpids : ports'[e] \subseteq PortsOf[e]
  BY <1>1, <1>2 DEF Lists
<1>4. CASE d \in up /\ p <= OFPP_MAX
  <2>1. this_cycle' = t /\ next_cycle' = Append(n, <<d, p>>)
    BY <1>4 DEF PortAdded
  <2>2. /\ t \in Seq(PortIds) /\ n \in Seq(PortIds)
        /\ Distinct(t) /\ Distinct(n) /\ ToSet(t) \cap ToSet(n) = {}
        /\ ToSet(t) \cup ToSet(n) = Physical \ gone
    BY TakenOut
  <2> HIDE DEF t, n
  <2>3. <<d, p>> \in PortIds
    BY <1>1 DEF PortIds
  <2>4. more \in Seq(PortIds) /\ Distinct(more) /\ ToSet(more) = gone
    BY <2>3 DEF Distinct, ToSet
  <2>5. Append(n, <<d, p>>) = n \o more
    BY <2>2, <2>3, AppendIsConcat
  <2> HIDE DEF more
  <2>6. /\ n \o more \in Seq(PortIds) /\ Distinct(n \o more)
        /\ ToSet(t) \cap ToSet(n \o more) = {}
        /\ ToSet(t) \cup ToSet(n \o more) = (ToSet(t) \cup ToSet(n)) \cup ToSet(more)
    <3>1. (ToSet(t) \cup ToSet(n)) \cap ToSet(more) = {}
      BY <2>2, <2>4
    <3>2. QED
      BY <2>2, <2>4, <3>1, PutBack
  <2>7. Physical' = Physical \cup gone
    <3>1. \A e \in Dpids : PortsOfSwitch(e, ports') = IF e = d THEN PortsOfSwitch(d, ports) \cup {<<d, p>>}
                                                      ELSE PortsOfSwitch(e, ports)
      BY <1>2, <1>4 DEF PortsOfSwitch
    <3>2. Physical' = UNION {PortsOfSwitch(e, ports') : e \in up}
      BY <1>1 DEF Physical, PortsOfSwitch
    <3>3. QED
      BY <1>3, <1>4, <3>1, <3>2 DEF Physical
  <2>8. Queued' = Physical'
    <3>1. Queued' = ToSet(t) \cup ToSet(n \o more)
      BY <2>1, <2>5 DEF Queued, ToSet
    <3>2. QED
      BY <2>2, <2>4, <2>6, <2>7, <3>1
  <2>9. Once'
    <3>1. Distinct(this_cycle') /\ Distinct(next_cycle') /\ ToSet(this_cycle') \cap ToSet(next_cycle') = {}
      BY <2>1, <2>2, <2>5, <2>6
    <3>2. QED
      BY <3>1 DEF Once, Distinct, ToSet
  <2>10. QED
    BY <1>1, <1>2, <1>3, <2>1, <2>2, <2>5, <2>6, <2>8, <2>9 DEF Lists
<1>5. CASE ~(d \in up /\ p <= OFPP_MAX)
  <2>1. this_cycle' = this_cycle /\ next_cycle' = next_cycle
    BY <1>5 DEF PortAdded, sender_vars
  <2>2. \A e \in up : PortsOfSwitch(e, ports') = PortsOfSwitch(e, ports)
    BY <1>2, <1>3, <1>5 DEF PortsOfSwitch
  <2>3. Physical' = Physical
    <3>1. Physical' = UNION {PortsOfSwitch(e, ports') : e \in up}
      BY <1>1 DEF Physical, PortsOfSwitch
    <3>2. QED
      BY <2>2, <3>1 DEF Physical
  <2>4. Queued' = Queued /\ (Once <=> Once')
    BY <2>1 DEF Queued, Once, ToSet, Distinct
  <2>5. QED
    BY <1>1, <1>2, <1>3, <2>1, <2>3, <2>4 DEF Lists
<1>6. QED
  BY <1>4, <1>5

\* A port that is deleted is in no list.
LEMMA ListsPortDeleted ==
  ASSUME Lists, NEW d \in Dpids, NEW p, PortDeleted(d, p)
  PROVE  Lists'
<1> DEFINE gone == {<<d, p>>}
<1> DEFINE t == Without(this_cycle, gone)
<1> DEFINE n == Without(next_cycle, gone)
<1>1. ports' = [ports EXCEPT ![d] = @ \ {p}] /\ up' = up
  BY DEF PortDeleted
<1>2. /\ DOMAIN ports' = Dpids /\ \A e \in Dpids : ports'[e] = IF e = d THEN ports[d] \ {p} ELSE ports[e]
  BY <1>1 DEF Lists
<1>3. up \subseteq Dpids /\ \A e \in Dpids : ports'[e] \subseteq PortsOf[e]
  BY <1>1, <1>2 DEF Lists
<1>4. CASE d \in up /\ p <= OFPP_MAX
  <2>1. this_cycle' = t /\ next_cycle' = n
    BY <1>4 DEF PortDeleted
  <2>2. /\ t \in Seq(PortIds) /\ n \in Seq(PortIds)
        /\ Distinct(t) /\ Distinct(n) /\ ToSet(t) \cap ToSet(n) = {}
        /\ ToSet(t) \cup ToSet(n) = Physical \ gone
    BY TakenOut
  <2> HIDE DEF t, n
  <2>3. Physical' = Physical \ gone
    <3>1. \A e \in Dpids : PortsOfSwitch(e, ports') = PortsOfSwitch(e, ports) \ {<<d, p>>}
      BY <1>2 DEF PortsOfSwitch
    <3>2. Physical' = UNION {PortsOfSwitch(e, ports') : e \in up}
      BY <1>1 DEF Physical, PortsOfSwitch
    <3>3. QED
      BY <1>3, <3>1, <3>2 DEF Physical
  <2>4. Queued' = Physical'
    <3>1. Queued' = ToSet(t) \cup ToSet(n)
      BY <2>1 DEF Queued, ToSet
    <3>2. QED
      BY <2>2, <2>3, <3>1
  <2>5. Once'
    <3>1. Distinct(this_cycle') /\ Distinct(next_cycle') /\ ToSet(this_cycle') \cap ToSet(next_cycle') = {}
      BY <2>1, <2>2
    <3>2. QED
      BY <3>1 DEF Once, Distinct, ToSet
  <2>6. QED
    BY <1>1, <1>2, <1>3, <2>1, <2>2, <2>4, <2>5 DEF Lists
<1>5. CASE ~(d \in up /\ p <= OFPP_MAX)
  <2>1. this_cycle' = this_cycle /\ next_cycle' = next_cycle
    BY <1>5 DEF PortDeleted, sender_vars
  <2>2. \A e \in up : PortsOfSwitch(e, ports') = PortsOfSwitch(e, ports)
    BY <1>2, <1>3, <1>5 DEF PortsOfSwitch
  <2>3. Physical' = Physical
    <3>1. Physical' = UNION {PortsOfSwitch(e, ports') : e \in up}
      BY <1>1 DEF Physical, PortsOfSwitch
    <3>2. QED
      BY <2>2, <3>1 DEF Physical
  <2>4. Queued' = Queued /\ (Once <=> Once')
    BY <2>1 DEF Queued, Once, ToSet, Distinct
  <2>5. QED
    BY <1>1, <1>2, <1>3, <2>1, <2>3, <2>4 DEF Lists
<1>6. QED
  BY <1>4, <1>5

\* Sending moves ports on, over the end of a cycle too, and neither loses nor doubles one.
LEMMA ListsSendPackets ==
  ASSUME Lists, TimerRuns, SendPackets
  PROVE  /\ Lists' /\ TimerRuns' /\ Number' = Number /\ Queued' = Queued
         /\ Number \in Nat \ {0} /\ timer = 0 /\ timer' = Interval(Number)
<1>1. Number \in Nat \ {0} /\ timer = 0
  BY Numbers DEF SendPackets, TimerRuns, Off
<1>2. PICK num \in Chunks(Number) : this_cycle' = Take(num).this /\ next_cycle' = Take(num).next
  BY DEF SendPackets, Number
<1>3. num \in Nat \ {0}
  BY <1>1, Batches
<1>4. /\ this_cycle' \in Seq(PortIds) /\ next_cycle' \in Seq(PortIds)
      /\ Distinct(this_cycle') /\ Distinct(next_cycle') /\ ToSet(this_cycle') \cap ToSet(next_cycle') = {}
      /\ ToSet(this_cycle') \cup ToSet(next_cycle') = Queued
      /\ Len(this_cycle') + Len(next_cycle') = Number
  BY <1>1, <1>2, <1>3, Turn
<1>5. up' = up /\ ports' = ports /\ timer' = Interval(Number)
  BY DEF SendPackets, Number
<1>6. Once' /\ Queued' = Queued /\ Number' = Number /\ Physical' = Physical
  BY <1>4, <1>5 DEF Once, Queued, Number, Distinct, ToSet, Physical, PortsOfSwitch
<1>7. Lists'
  BY <1>4, <1>5, <1>6 DEF Lists
<1>8. TimerRuns'
  BY <1>1, <1>5, <1>6, IntervalFits DEF TimerRuns
<1>9. QED
  BY <1>1, <1>5, <1>6, <1>7, <1>8

\* The other actions leave the lists in order.
LEMMA SameLists ==
  ASSUME Lists, UNCHANGED <<up, ports, this_cycle, next_cycle>>
  PROVE  Lists' /\ Number' = Number /\ Queued' = Queued
<1>1. Queued' = Queued /\ Number' = Number
  BY DEF Queued, Number, ToSet
<1>2. Physical' = Physical
  BY DEF Physical, PortsOfSwitch
<1>3. Once'
  BY DEF Lists, Once, Distinct, ToSet
<1>4. QED
  BY <1>1, <1>2, <1>3 DEF Lists

\* One tick less.
LEMMA TimerTicks ==
  ASSUME Lists, TimerRuns, Tick
  PROVE  /\ TimerRuns'
         /\ Number # 0 => timer \in 1..Interval(Number) /\ timer' = timer - 1
<1>1. UNCHANGED <<up, ports, this_cycle, next_cycle>> /\ timer # 0
      /\ timer' = IF timer = Off THEN Off ELSE timer - 1
  BY DEF Tick
<1>2. Number' = Number /\ Number \in Nat
  BY <1>1, SameLists, Numbers
<1>3. CASE Number = 0
  BY <1>1, <1>2, <1>3 DEF TimerRuns
<1>4. CASE Number # 0
  <2>1. timer \in 0..Interval(Number) /\ Interval(Number) \in Nat
    BY <1>2, <1>4, IntervalFits DEF TimerRuns
  <2>2. timer \in 1..Interval(Number) /\ timer' = timer - 1
    BY <1>1, <2>1 DEF Off
  <2>3. QED
    BY <1>2, <1>4, <2>1, <2>2 DEF TimerRuns
<1>5. QED
  BY <1>3, <1>4

\* The lists and the timer in each step.
LEMMA ListsStep ==
  ASSUME Lists, TimerRuns, [Next]_vars
  PROVE  Lists' /\ TimerRuns'
<1>1. CASE Unmoved
  <2>1. UNCHANGED <<up, ports, this_cycle, next_cycle, timer>>
    BY <1>1, UnmovedFrame
  <2>2. QED
    BY <2>1, SameLists DEF TimerRuns
<1>2. CASE Tick
  BY <1>2, SameLists, TimerTicks DEF Tick
<1>3. CASE SendPackets
  BY <1>3, ListsSendPackets
<1>4. ASSUME NEW d \in Dpids, ConnectionUp(d) PROVE Lists' /\ TimerRuns'
  <2>1. Lists' /\ SetTimer
    BY <1>4, ListsConnectionUp DEF ConnectionUp
  <2>2. QED
    BY <2>1, SetAnew DEF Lists
<1>5. ASSUME NEW d \in Dpids, ConnectionDown(d) PROVE Lists' /\ TimerRuns'
  <2>1. Lists' /\ SetTimer
    BY <1>5, ListsConnectionDown DEF ConnectionDown
  <2>2. QED
    BY <2>1, SetAnew DEF Lists
<1>6. ASSUME NEW d \in Dpids, NEW p, PortAdded(d, p) PROVE Lists' /\ TimerRuns'
  <2>1. Lists' /\ (SetTimer \/ UNCHANGED sender_vars)
    BY <1>6, ListsPortAdded DEF PortAdded
  <2>2. CASE UNCHANGED sender_vars
    BY <2>1, <2>2 DEF TimerRuns, Number, sender_vars
  <2>3. QED
    BY <2>1, <2>2, SetAnew DEF Lists
<1>7. ASSUME NEW d \in Dpids, NEW p, PortDeleted(d, p) PROVE Lists' /\ TimerRuns'
  <2>1. Lists' /\ (SetTimer \/ UNCHANGED sender_vars)
    BY <1>7, ListsPortDeleted DEF PortDeleted
  <2>2. CASE UNCHANGED sender_vars
    BY <2>1, <2>2 DEF TimerRuns, Number, sender_vars
  <2>3. QED
    BY <2>1, <2>2, SetAnew DEF Lists
<1>8. QED
  BY <1>1, <1>2, <1>3, <1>4, <1>5, <1>6, <1>7, NextLists

-----------------------------------------------------------------------------
\* Types.

LEMMA InitLists == Init => TypeOK /\ Lists /\ TimerRuns
<1> SUFFICES ASSUME Init PROVE TypeOK /\ Lists /\ TimerRuns
  OBVIOUS
<1> DEFINE all == {PortsOfSwitch(d, PortsOf) : d \in Early}
<1>1. \A d \in Dpids : PortsOfSwitch(d, PortsOf) \subseteq PortIds /\ IsFiniteSet(PortsOfSwitch(d, PortsOf))
  BY OfSwitch
<1>2. IsFiniteSet(all)
  <2> DEFINE f == [d \in Early |-> PortsOfSwitch(d, PortsOf)]
  <2>1. f \in Surjection(Early, all)
    BY DEF Surjection
  <2>2. QED
    BY <2>1, FS_Surjection, PortShape
<1>3. IsFiniteSet(UNION all) /\ UNION all \subseteq PortIds
  <2>1. \A T \in all : IsFiniteSet(T) /\ T \subseteq PortIds
    BY <1>1, PortShape
  <2> HIDE DEF all
  <2>2. IsFiniteSet(UNION all)
    BY <1>2, <2>1, FS_UNION
  <2>3. QED
    BY <2>1, <2>2
<1>4. this_cycle = <<>> /\ next_cycle = Listing(UNION all) /\ up = Early /\ ports = PortsOf
  BY DEF Init
<1>5. /\ next_cycle \in Seq(UNION all) /\ Distinct(next_cycle)
      /\ ToSet(next_cycle) = UNION all
  BY <1>3, <1>4, Listed
<1>6. next_cycle \in Seq(PortIds) /\ this_cycle \in Seq(PortIds) /\ ToSet(this_cycle) = {} /\ Distinct(this_cycle)
  BY <1>3, <1>4, <1>5 DEF ToSet, Distinct
<1>7. Lists
  <2>1. Physical = UNION all
    BY <1>4 DEF Physical
  <2>2. Once /\ Queued = Physical
    BY <1>5, <1>6, <2>1 DEF Once, Queued
  <2>3. QED
    BY <1>4, <1>6, <2>2, PortShape DEF Lists
<1>8. Number = Len(next_cycle) /\ Number \in Nat /\ timer = TimerFor(Number)
  BY <1>4, <1>6 DEF Number, Init
<1>9. TimerRuns /\ timer \in {Off} \cup 0..send_cycle_time \cup 0..shortest
  BY <1>8, TimerSet DEF TimerRuns
<1>10. TypeOK
  BY <1>4, <1>6, <1>7, <1>9, Times DEF Init, TypeOK, Lists
<1>11. QED
  BY <1>7, <1>9, <1>10

\* The counters, in an external event.
LEMMA Events ==
  ASSUME TypeOK, External, check' = check
  PROVE  check' \in 0..check_period /\ quiet' \in 0..(link_timeout + 1) /\ events' \in 0..MaxEvents
BY Times DEF TypeOK, External

\* Ports that have waited start again.
LEMMA Reset ==
  ASSUME TypeOK, NEW sent, wait' = [p \in PortIds |-> IF p \in sent THEN 0 ELSE wait[p]]
  PROVE  wait' \in [PortIds -> 0..(send_cycle_time + 1)]
<1>1. 0 \in 0..(send_cycle_time + 1)
  BY Times
<1>2. \A p \in PortIds : wait[p] \in 0..(send_cycle_time + 1)
  BY DEF TypeOK
<1>3. QED
  BY <1>1, <1>2

\* What is neither a list nor the timer.
LEMMA TypeStep ==
  ASSUME TypeOK, Lists, TimerRuns, [Next]_vars, Lists', timer' \in {Off} \cup 0..send_cycle_time \cup 0..shortest
  PROVE  TypeOK'
<1> USE Times DEF Idle, Lists
<1> DEFINE Counters == check' \in 0..check_period /\ quiet' \in 0..(link_timeout + 1) /\ events' \in 0..MaxEvents
<1> DEFINE Links == /\ DOMAIN adjacency' \subseteq Wires /\ deleting' \subseteq DOMAIN adjacency'
                    /\ told' \subseteq DOMAIN adjacency'
<1> DEFINE Frames == live' \subseteq Wires /\ flying' \subseteq [link : Wires, age : 0..MaxDelay]
<1> DEFINE Waits == wait' \in [PortIds -> 0..(send_cycle_time + 1)]
<1>1. SUFFICES Counters /\ Links /\ Frames /\ Waits
  BY DEF TypeOK
<1>2. CASE UNCHANGED vars
  BY <1>2 DEF TypeOK, vars, link_vars
<1>3. CASE SendPackets
  <2>1. PICK num \in Chunks(Len(this_cycle) + Len(next_cycle)) :
             /\ flying' = flying \cup {[link |-> w, age |-> 0] :
                     w \in {w \in Wires : Carries(w) /\ <<w.dpid1, w.port1>> \in Take(num).sent}}
             /\ wait' = [p \in PortIds |-> IF p \in Take(num).sent THEN 0 ELSE wait[p]]
    BY <1>3 DEF SendPackets
  <2>2. Counters /\ Links /\ live' \subseteq Wires
    BY <1>3 DEF SendPackets, link_vars, TypeOK
  <2>3. flying' \subseteq [link : Wires, age : 0..MaxDelay]
    <3>1. 0 \in 0..MaxDelay
      OBVIOUS
    <3>2. \A g \in flying' : g \in flying \/ \E w \in Wires : g = [link |-> w, age |-> 0]
      BY <2>1
    <3>3. flying \subseteq [link : Wires, age : 0..MaxDelay]
      BY DEF TypeOK
    <3>4. \A w \in Wires : [link |-> w, age |-> 0] \in [link : Wires, age : 0..MaxDelay]
      BY <3>1
    <3>5. QED
      BY <3>2, <3>3, <3>4
  <2>4. Waits
    BY <2>1, Reset
  <2>5. QED
    BY <2>2, <2>3, <2>4
<1>4. CASE Tick
  <2>1. /\ flying' = {[f EXCEPT !.age = @ + 1] : f \in flying} /\ \A f \in flying : f.age < MaxDelay
        /\ live' = live
    BY <1>4 DEF Tick
  <2>2. ASSUME NEW f \in flying PROVE [f EXCEPT !.age = @ + 1] \in [link : Wires, age : 0..MaxDelay]
    <3>1. f \in [link : Wires, age : 0..MaxDelay] /\ f.age < MaxDelay
      BY <2>1 DEF TypeOK
    <3>2. f.age + 1 \in 0..MaxDelay
      BY <3>1
    <3>3. QED
      BY <3>1, <3>2
  <2>3. Frames
    BY <2>1, <2>2 DEF TypeOK
  <2>4. Links
    BY <1>4 DEF Tick, TypeOK
  <2>5. Counters
    <3>1. check' = check - 1 /\ check # 0 /\ events' = events /\ quiet' = Least(quiet, link_timeout) + 1
      BY <1>4 DEF Tick
    <3>2. check \in 0..check_period /\ events \in 0..MaxEvents /\ quiet \in 0..(link_timeout + 1)
      BY DEF TypeOK
    <3>3. check' \in 0..check_period /\ events' \in 0..MaxEvents
      BY <3>1, <3>2
    <3>4. quiet' \in 0..(link_timeout + 1)
      BY <3>1, <3>2 DEF Least
    <3>5. QED
      BY <3>3, <3>4
  <2>6. Waits
    <3>1. wait' = [p \in PortIds |-> Least(wait[p], send_cycle_time) + 1]
      BY <1>4 DEF Tick
    <3>2. ASSUME NEW p \in PortIds PROVE Least(wait[p], send_cycle_time) + 1 \in 0..(send_cycle_time + 1)
      <4>1. wait[p] \in 0..(send_cycle_time + 1)
        BY DEF TypeOK
      <4>2. QED
        BY <4>1 DEF Least
    <3>3. QED
      BY <3>1, <3>2
  <2>7. QED
    BY <2>3, <2>4, <2>5, <2>6
<1>5. CASE ExpireLinks
  <2>1. Counters
    BY <1>5 DEF ExpireLinks, TypeOK
  <2>2. Links /\ Frames /\ Waits
    BY <1>5 DEF ExpireLinks, TypeOK
  <2>3. QED
    BY <2>1, <2>2
<1>6. CASE FinishDelete
  BY <1>6 DEF FinishDelete, TypeOK
<1>7. ASSUME NEW f \in flying, PacketIn(f) PROVE Counters /\ Links /\ Frames /\ Waits
  <2>1. Counters /\ Frames /\ Waits
    BY <1>7 DEF PacketIn, TypeOK
  <2>2. f.link \in Wires
    BY DEF TypeOK
  <2>3. DOMAIN Stamped(f.link) = DOMAIN adjacency \cup {f.link}
    BY DEF Stamped
  <2>4. /\ deleting' = deleting
        /\ \/ DOMAIN adjacency' = DOMAIN adjacency \cup {f.link}
           \/ adjacency' = adjacency
        /\ told' = told \/ (adjacency' = Stamped(f.link) /\ told' \subseteq told \cup {f.link})
    BY <1>7, <2>3 DEF PacketIn
  <2>5. Links
    BY <2>2, <2>3, <2>4 DEF TypeOK
  <2>6. QED
    BY <2>1, <2>5
<1>8. ASSUME NEW f \in flying, Lost(f) PROVE Counters /\ Links /\ Frames /\ Waits
  BY <1>8 DEF Lost, TypeOK, link_vars
<1>9. ASSUME NEW l \in Wires, Removed(l) PROVE Counters /\ Links /\ Frames /\ Waits
  BY <1>9 DEF Removed, TypeOK
<1>10. ASSUME NEW w \in Wires, Unplug(w) \/ Replug(w) PROVE Counters /\ Links /\ Frames /\ Waits
  <2>1. Counters
    BY <1>10, Events DEF Unplug, Replug
  <2>2. Links /\ Waits /\ flying' = flying /\ live' \subseteq live \cup Wires
    BY <1>10 DEF Unplug, Replug, TypeOK, link_vars
  <2>3. QED
    BY <2>1, <2>2 DEF TypeOK
<1>11. ASSUME NEW d \in Dpids, ConnectionUp(d) PROVE Counters /\ Links /\ Frames /\ Waits
  <2>1. Counters
    BY <1>11, Events DEF ConnectionUp
  <2>2. Links /\ Frames
    BY <1>11 DEF ConnectionUp, TypeOK, link_vars
  <2>3. wait' = [p \in PortIds |-> IF p[1] = d THEN 0 ELSE wait[p]]
    BY <1>11 DEF ConnectionUp
  <2>4. Waits
    <3>1. wait' = [p \in PortIds |-> IF p \in {q \in PortIds : q[1] = d} THEN 0 ELSE wait[p]]
      BY <2>3
    <3>2. QED
      BY <3>1, Reset
  <2>5. QED
    BY <2>1, <2>2, <2>4
<1>12. ASSUME NEW d \in Dpids, ConnectionDown(d) PROVE Counters /\ Links /\ Frames /\ Waits
  <2>1. Counters
    BY <1>12, Events DEF ConnectionDown
  <2>2. Links /\ Frames /\ Waits
    BY <1>12 DEF ConnectionDown, TypeOK
  <2>3. QED
    BY <2>1, <2>2
<1>13. ASSUME NEW d \in Dpids, NEW p, PortAdded(d, p) PROVE Counters /\ Links /\ Frames /\ Waits
  <2>1. Counters
    BY <1>13, Events DEF PortAdded
  <2>2. Links /\ Frames
    BY <1>13 DEF PortAdded, TypeOK, link_vars
  <2>3. wait' = [wait EXCEPT ![<<d, p>>] = 0] \/ wait' = wait
    BY <1>13 DEF PortAdded
  <2>4. Waits
    <3>1. wait \in [PortIds -> 0..(send_cycle_time + 1)] /\ 0 \in 0..(send_cycle_time + 1)
      BY DEF TypeOK
    <3>2. QED
      BY <2>3, <3>1
  <2>5. QED
    BY <2>1, <2>2, <2>4
<1>14. ASSUME NEW d \in Dpids, NEW p, PortDeleted(d, p) PROVE Counters /\ Links /\ Frames /\ Waits
  <2>1. Counters
    BY <1>14, Events DEF PortDeleted
  <2>2. Links /\ Frames /\ Waits
    BY <1>14 DEF PortDeleted, TypeOK, link_vars
  <2>3. QED
    BY <2>1, <2>2
<1>15. QED
  BY <1>2, <1>3, <1>4, <1>5, <1>6, <1>7, <1>8, <1>9, <1>10, <1>11, <1>12, <1>13, <1>14, NextLists DEF Unmoved

\* The timer in each step.
LEMMA TimerType ==
  ASSUME TypeOK, Lists, TimerRuns, [Next]_vars, Lists'
  PROVE  timer' \in {Off} \cup 0..send_cycle_time \cup 0..shortest
<1>1. CASE Unmoved
  BY <1>1, UnmovedFrame DEF TypeOK
<1>2. CASE Tick
  BY <1>2, Times, SMTT(20) DEF Tick, TypeOK, Off
<1>3. CASE SendPackets
  BY <1>3, ListsSendPackets, IntervalFits, Times
<1>4. ASSUME NEW d \in Dpids, ConnectionUp(d) \/ ConnectionDown(d) PROVE SetTimer
  BY <1>4 DEF ConnectionUp, ConnectionDown
<1>5. ASSUME NEW d \in Dpids, NEW p, PortAdded(d, p) \/ PortDeleted(d, p)
      PROVE  SetTimer \/ timer' = timer
  BY <1>5 DEF PortAdded, PortDeleted, sender_vars
<1>6. CASE SetTimer
  BY <1>6, SetAnew DEF Lists
<1>7. CASE timer' = timer
  BY <1>7 DEF TypeOK
<1>8. QED
  BY <1>1, <1>2, <1>3, <1>4, <1>5, <1>6, <1>7, NextLists

\* Every port of a connected switch is in one of the lists once, and no other
\* port, for every network and every order of events: LLDPSender's add_port,
\* del_port and del_switch between two batches.
ListsInv == TypeOK /\ Lists /\ TimerRuns
THEOREM EveryPortIsQueued == Spec => []EveryPortOnce
<1>1. Init => ListsInv
  BY InitLists DEF ListsInv
<1>2. ListsInv /\ [Next]_vars => ListsInv'
  BY ListsStep, TimerType, TypeStep DEF ListsInv
<1>3. ListsInv => EveryPortOnce
  BY Numbers DEF ListsInv, EveryPortOnce, Lists, Physical, Number
<1>4. QED
  BY <1>1, <1>2, <1>3, PTL DEF Spec

-----------------------------------------------------------------------------
\* No port waits too long.

\* The ports in the order they will be sent from; the ticks since the last
\* packet of the j-th, when all ports were served in time.
Nth(j) == IF j <= Len(this_cycle) THEN this_cycle[j] ELSE next_cycle[j - Len(this_cycle)]
Due(j) == (Number - j + 1) * Interval(Number) - timer
Served ==
  Number * shortest <= send_cycle_time =>
    \A j \in 1..Number : wait[Nth(j)] <= Due(j) \/ quiet <= Due(j)
SentInv == ListsInv /\ Served

\* The ports queued are those that have a turn.
LEMMA NthPorts ==
  ASSUME Lists
  PROVE  /\ \A j \in 1..Number : Nth(j) \in Queued
         /\ \A p \in Queued : p \in PortIds /\ \E j \in 1..Number : p = Nth(j)
<1>1. /\ Len(this_cycle) \in Nat /\ Len(next_cycle) \in Nat
      /\ DOMAIN this_cycle = 1..Len(this_cycle) /\ DOMAIN next_cycle = 1..Len(next_cycle)
      /\ \A i \in 1..Len(this_cycle) : this_cycle[i] \in PortIds
      /\ \A i \in 1..Len(next_cycle) : next_cycle[i] \in PortIds
  BY DEF Lists
<1>2. ASSUME NEW j \in 1..Number PROVE Nth(j) \in Queued
  <2>1. j \in 1..Len(this_cycle) \/ (~(j <= Len(this_cycle)) /\ j - Len(this_cycle) \in 1..Len(next_cycle))
    BY <1>1 DEF Number
  <2>2. QED
    BY <1>1, <2>1 DEF Nth, Queued, ToSet
<1>3. ASSUME NEW p \in Queued PROVE p \in PortIds /\ \E j \in 1..Number : p = Nth(j)
  <2>1. CASE p \in ToSet(this_cycle)
    <3>1. PICK i \in 1..Len(this_cycle) : p = this_cycle[i]
      BY <1>1, <2>1 DEF ToSet
    <3>2. i \in 1..Number /\ Nth(i) = p
      BY <1>1, <3>1 DEF Nth, Number
    <3>3. QED
      BY <1>1, <3>1, <3>2
  <2>2. CASE p \in ToSet(next_cycle)
    <3>1. PICK i \in 1..Len(next_cycle) : p = next_cycle[i]
      BY <1>1, <2>2 DEF ToSet
    <3>2. Len(this_cycle) + i \in 1..Number /\ ~(Len(this_cycle) + i <= Len(this_cycle))
          /\ (Len(this_cycle) + i) - Len(this_cycle) = i
      BY <1>1 DEF Number
    <3>3. Nth(Len(this_cycle) + i) = p
      BY <3>1, <3>2 DEF Nth
    <3>4. QED
      BY <1>1, <3>1, <3>2, <3>3
  <2>3. QED
    BY <2>1, <2>2 DEF Queued
<1>4. QED
  BY <1>2, <1>3

\* What is due is positive and at most a cycle, and goes on by intervals.
LEMMA Dues ==
  ASSUME NEW n \in Nat \ {0}, NEW i \in Nat, NEW t \in 0..i, NEW j \in 1..n
  PROVE  /\ (n - j + 1) * i - t \in Nat
         /\ (n - j + 1) * i - t <= n * i - t
         /\ (n - j + 1) * i = (n - j) * i + i
<1>1. n - j \in Nat /\ n - j + 1 \in 1..n
  OBVIOUS
<1>2. \A k \in 1..n : k * i \in Nat /\ i <= k * i /\ k * i <= n * i
  <2>1. \A k \in 1..n : k * i \in Nat /\ i <= k * i
    OBVIOUS
  <2>2. \A k \in 1..n : k * i <= n * i
    OBVIOUS
  <2>3. QED
    BY <2>1, <2>2
<1>3. (n - j + 1) * i = (n - j) * i + i
  BY <1>1
<1>4. (n - j + 1) * i \in Nat /\ i <= (n - j + 1) * i /\ (n - j + 1) * i <= n * i /\ n * i \in Nat
  BY <1>1, <1>2
<1>5. QED
  BY <1>3, <1>4

\* One packet: the first port becomes the last.
LEMMA TurnOne ==
  ASSUME Lists, Number # 0, this_cycle' = Take(1).this, next_cycle' = Take(1).next
  PROVE  /\ Take(1).sent = {Nth(1)}
         /\ \A j \in 1..Number : Nth(j)' = IF j = Number THEN Nth(1) ELSE Nth(j + 1)
<1> DEFINE m == Len(this_cycle)
<1> DEFINE l == Len(next_cycle)
<1>1. /\ this_cycle \in Seq(PortIds) /\ next_cycle \in Seq(PortIds)
      /\ m \in Nat /\ l \in Nat /\ Number = m + l /\ Number \in Nat \ {0}
  BY Numbers DEF Lists, Number
<1>2. Take(1).sent = {Nth(1)}
  <2> DEFINE all == this_cycle \o next_cycle
  <2>1. Len(all) = Number /\ Take(1).sent = {all[((j - 1) % Len(all)) + 1] : j \in 1..1}
    BY <1>1 DEF Take
  <2>2. 1 - 1 = 0 /\ 0 % Number = 0 /\ 1..1 = {1}
    BY <1>1
  <2>3. ((1 - 1) % Len(all)) + 1 = 1
    BY <2>1, <2>2
  <2>4. all[1] = Nth(1)
    BY <1>1 DEF Nth
  <2> HIDE DEF all
  <2>5. QED
    BY <2>1, <2>2, <2>3, <2>4
<1>3. CASE 1 <= m
  <2> DEFINE a == SubSeq(this_cycle, 1, 1)
  <2>1. this_cycle' = SubSeq(this_cycle, 2, m) /\ next_cycle' = next_cycle \o a
    BY <1>3 DEF Take
  <2>2. Len(this_cycle') = m - 1 /\ \A i \in 1..(m - 1) : this_cycle'[i] = this_cycle[i + 1]
    <3>0. \A k \in Nat \ {0} : k - 2 + 1 = k - 1 /\ k \in Int /\ (~(2 <= k) => k - 1 = 0)
      OBVIOUS
    <3>1. m - 2 + 1 = m - 1 /\ 2 \in Int /\ m \in Int /\ (~(2 <= m) => m - 1 = 0)
      <4>1. m \in Nat \ {0}
        BY <1>1, <1>3
      <4>2. QED
        BY <3>0, <4>1
    <3>2. \A i \in 2..m : this_cycle[i] \in PortIds
      BY <1>1
    <3>3. /\ Len(SubSeq(this_cycle, 2, m)) = IF 2 <= m THEN m - 2 + 1 ELSE 0
          /\ \A i \in 1..(m - 2 + 1) : SubSeq(this_cycle, 2, m)[i] = this_cycle[2 + i - 1]
      BY <3>1, <3>2, SubSeqProperties
    <3>4. \A i \in 1..(m - 1) : 2 + i - 1 = i + 1
      BY <1>1
    <3>5. QED
      BY <2>1, <3>1, <3>3, <3>4
  <2>3. Len(a) = 1 /\ a[1] = this_cycle[1] /\ a \in Seq(PortIds)
    BY <1>1, <1>3
  <2> HIDE DEF a
  <2>4. (\A i \in 1..l : next_cycle'[i] = next_cycle[i]) /\ next_cycle'[l + 1] = this_cycle[1]
    <3>0. Len(next_cycle) = l /\ Len(a) = 1
      BY <2>3
    <3>1. \A i \in 1..(l + 1) : (next_cycle \o a)[i] = IF i <= l THEN next_cycle[i] ELSE a[i - l]
      <4>1. \A i \in 1..(Len(next_cycle) + Len(a)) :
               (next_cycle \o a)[i] = IF i <= Len(next_cycle) THEN next_cycle[i] ELSE a[i - Len(next_cycle)]
        BY <1>1, <2>3, ConcatProperties, SMTT(20)
      <4>2. QED
        BY <3>0, <4>1
    <3>2. l + 1 \in 1..(l + 1) /\ ~(l + 1 <= l) /\ (l + 1) - l = 1
      BY <1>1
    <3>3. \A i \in 1..l : i \in 1..(l + 1) /\ i <= l
      BY <1>1
    <3>4. \A i \in 1..l : (next_cycle \o a)[i] = next_cycle[i]
      BY <3>1, <3>3
    <3>5. (next_cycle \o a)[l + 1] = this_cycle[1]
      BY <2>3, <3>1, <3>2
    <3>6. QED
      BY <2>1, <3>4, <3>5
  <2>5. ASSUME NEW j \in 1..Number, j # Number PROVE Nth(j)' = Nth(j + 1)
    <3>1. CASE j <= m - 1
      BY <1>1, <2>2, <3>1 DEF Nth
    <3>2. CASE ~(j <= m - 1)
      <4>1. j - (m - 1) \in 1..l /\ j - (m - 1) = j + 1 - m /\ ~(j + 1 <= m)
        BY <1>1, <2>5, <3>2
      <4>2. Nth(j)' = next_cycle'[j - (m - 1)]
        BY <2>2, <3>2 DEF Nth
      <4>3. Nth(j + 1) = next_cycle[j + 1 - m]
        BY <4>1 DEF Nth
      <4>4. QED
        BY <2>4, <4>1, <4>2, <4>3
    <3>3. QED
      BY <3>1, <3>2
  <2>6. ASSUME NEW j, j = Number PROVE Nth(j)' = Nth(1)
    <3>1. ~(j <= m - 1) /\ j - (m - 1) = l + 1
      BY <1>1, <2>6
    <3>2. QED
      BY <1>3, <2>2, <2>4, <3>1 DEF Nth
  <2>7. QED
    BY <1>2, <2>5, <2>6
<1>4. CASE m = 0
  <2> DEFINE round == next_cycle \o this_cycle
  <2>1. round = next_cycle /\ Len(this_cycle \o next_cycle) = Number
    BY <1>1, <1>4
  <2>2. ((1 - m - 1) % Number) + 1 = 1 /\ ~(1 <= m)
    <3>1. 1 - m - 1 = 0 /\ 0 % Number = 0
      BY <1>1, <1>4
    <3>2. QED
      BY <1>4, <3>1
  <2>3. this_cycle' = SubSeq(next_cycle, 2, l) /\ next_cycle' = SubSeq(next_cycle, 1, 1)
    <3>1. this_cycle' = SubSeq(round, 1 + 1, Number) /\ next_cycle' = SubSeq(round, 1, 1)
      BY <2>1, <2>2 DEF Take
    <3>2. Number = l
      BY <1>1, <1>4
    <3>3. QED
      BY <2>1, <3>1, <3>2
  <2>4. l \in Nat \ {0} /\ Number = l
    BY <1>1, <1>4
  <2>5. Len(this_cycle') = l - 1 /\ \A i \in 1..(l - 1) : this_cycle'[i] = next_cycle[i + 1]
    BY <1>1, <2>3, <2>4
  <2>6. next_cycle'[1] = next_cycle[1]
    BY <1>1, <2>3, <2>4
  <2>7. \A i \in Nat \ {0} : Nth(i) = next_cycle[i]
    BY <1>4 DEF Nth
  <2>8. ASSUME NEW j \in 1..Number, j # Number PROVE Nth(j)' = Nth(j + 1)
    <3>1. j + 1 \in Nat \ {0} /\ j \in 1..(l - 1) /\ j <= l - 1
      BY <2>4, <2>8
    <3>2. Nth(j)' = this_cycle'[j]
      BY <2>5, <3>1 DEF Nth
    <3>3. QED
      BY <2>5, <2>7, <3>1, <3>2
  <2>9. ASSUME NEW j, j = Number PROVE Nth(j)' = Nth(1)
    <3>1. ~(j <= l - 1) /\ j - (l - 1) = 1
      BY <2>4, <2>9
    <3>2. Nth(j)' = next_cycle'[1]
      BY <2>5, <3>1 DEF Nth
    <3>3. QED
      BY <2>6, <2>7, <3>2
  <2>10. QED
    BY <1>2, <2>8, <2>9
<1>5. QED
  BY <1>1, <1>3, <1>4

\* Steps of the surroundings start the count anew; the receiver leaves the sender alone.
Silent == UNCHANGED <<up, ports, live, this_cycle, next_cycle, timer, wait, quiet>>

\* Which steps change how long ports have waited.
LEMMA NextWaits ==
  ASSUME [Next]_vars
  PROVE  \/ External \/ Silent \/ Tick \/ SendPackets
BY DEF Next, Progress, External, Silent, ExpireLinks, FinishDelete, PacketIn, Lost, Removed, vars, sender_vars,
       ConnectionUp, ConnectionDown, PortAdded, PortDeleted, Unplug, Replug

\* Every step leaves each port served before it is overdue.
LEMMA ServedStep ==
  ASSUME SentInv, [Next]_vars, ListsInv'
  PROVE  Served'
<1> USE Times
<1> DEFINE n == Number
<1>1. n \in Nat /\ Number' \in Nat
  <2>1. n \in Nat
    BY Numbers DEF SentInv, ListsInv
  <2>2. Number' \in Nat
    BY DEF ListsInv, Lists, Number
  <2>3. QED
    BY <2>1, <2>2
<1>2. /\ wait \in [PortIds -> 0..(send_cycle_time + 1)] /\ quiet \in 0..(link_timeout + 1)
      /\ wait' \in [PortIds -> 0..(send_cycle_time + 1)]
      /\ Lists /\ TimerRuns /\ Lists' /\ TimerRuns'
  BY DEF SentInv, ListsInv, TypeOK
<1>3. \A j \in 1..n : Nth(j) \in PortIds
  BY <1>2, NthPorts
<1>4. SUFFICES ASSUME Number' * shortest <= send_cycle_time, NEW j \in 1..Number'
               PROVE  (wait[Nth(j)] <= Due(j) \/ quiet <= Due(j))'
  BY DEF Served
<1>5. Number' \in Nat \ {0}
  BY <1>1
<1>6. CASE External
  <2>1. Interval(Number') \in Nat /\ timer' \in 0..Interval(Number')
    BY <1>2, <1>5, IntervalFits DEF TimerRuns
  <2>2. (Number' - j + 1) * Interval(Number') - timer' \in Nat
    BY <1>5, <2>1, Dues
  <2>3. quiet' = 0
    BY <1>6 DEF External
  <2>4. (quiet <= Due(j))'
    BY <2>2, <2>3 DEF Due
  <2>5. QED
    BY <2>4
<1>7. CASE Silent
  <2>1. Number' = n
    BY <1>7 DEF Silent, Number
  <2>2. Nth(j)' = Nth(j) /\ Due(j)' = Due(j) /\ wait' = wait /\ quiet' = quiet
    BY <1>7, <2>1 DEF Silent, Nth, Due
  <2>3. wait[Nth(j)] <= Due(j) \/ quiet <= Due(j)
    BY <1>4, <2>1 DEF SentInv, Served
  <2>4. QED
    BY <2>2, <2>3
<1>8. CASE Tick
  <2>1. /\ this_cycle' = this_cycle /\ next_cycle' = next_cycle
        /\ wait' = [p \in PortIds |-> Least(wait[p], send_cycle_time) + 1]
        /\ quiet' = Least(quiet, link_timeout) + 1
    BY <1>8 DEF Tick
  <2>2. Number' = n /\ Nth(j)' = Nth(j)
    BY <2>1 DEF Number, Nth
  <2>3. timer \in 1..Interval(n) /\ timer' = timer - 1
    BY <1>2, <1>5, <1>8, <2>2, TimerTicks
  <2>4. Interval(n) \in Nat /\ (n - j + 1) * Interval(n) \in Int
    BY <1>1, <1>5, <2>2, IntervalFits
  <2>5. Due(j)' = Due(j) + 1 /\ Due(j) \in Int
    BY <2>2, <2>3, <2>4 DEF Due
  <2>6. wait[Nth(j)] <= Due(j) \/ quiet <= Due(j)
    BY <1>4, <2>2 DEF SentInv, Served
  <2>7. wait[Nth(j)] \in Nat /\ Nth(j) \in PortIds
    BY <1>2, <1>3, <2>2
  <2>8. wait'[Nth(j)] <= wait[Nth(j)] + 1 /\ wait'[Nth(j)] \in Nat
    BY <2>1, <2>7 DEF Least
  <2>9. quiet' <= quiet + 1 /\ quiet' \in Nat /\ quiet \in Nat
    BY <1>2, <2>1 DEF Least
  <2>10. wait'[Nth(j)] <= Due(j) + 1 \/ quiet' <= Due(j) + 1
    BY <2>5, <2>6, <2>7, <2>8, <2>9
  <2>11. QED
    BY <2>2, <2>5, <2>10
<1>9. CASE SendPackets
  <2>1. n \in Nat \ {0} /\ timer = 0 /\ timer' = Interval(n) /\ Number' = n
    BY <1>2, <1>9, ListsSendPackets
  <2>2. Chunks(n) = {1} /\ n * shortest <= send_cycle_time
    BY <1>4, <2>1, Batches
  <2>3. /\ this_cycle' = Take(1).this /\ next_cycle' = Take(1).next
        /\ wait' = [p \in PortIds |-> IF p \in Take(1).sent THEN 0 ELSE wait[p]]
        /\ quiet' = quiet
    BY <1>9, <2>2 DEF SendPackets, Number
  <2>4. /\ Take(1).sent = {Nth(1)}
        /\ Nth(j)' = IF j = n THEN Nth(1) ELSE Nth(j + 1)
    BY <1>2, <2>1, <2>3, TurnOne
  <2>5. Interval(n) \in Nat
    BY <2>1, IntervalFits
  <2>6. Due(j)' = (n - j + 1) * Interval(n) - Interval(n)
    BY <2>1 DEF Due
  <2>7. (n - j + 1) * Interval(n) = (n - j) * Interval(n) + Interval(n) /\ (n - j) * Interval(n) \in Nat
    <3>1. n - j \in Nat /\ 0 \in 0..Interval(n)
      BY <2>1, <2>5
    <3>2. (n - j) * Interval(n) \in Nat
      BY <2>5, <3>1
    <3>3. QED
      BY <2>1, <2>5, <3>1, <3>2, Dues
  <2>8. Due(j)' = (n - j) * Interval(n)
    BY <2>5, <2>6, <2>7
  <2>9. CASE j = n
    <3>1. Nth(1) \in PortIds /\ Nth(j)' = Nth(1)
      BY <1>3, <2>1, <2>4, <2>9
    <3>2. wait'[Nth(1)] = 0
      BY <2>3, <2>4, <3>1
    <3>3. (wait[Nth(j)])' = 0
      BY <3>1, <3>2
    <3>4. QED
      BY <2>7, <2>8, <3>3
  <2>10. CASE j # n
    <3>1. j + 1 \in 1..n /\ n - (j + 1) + 1 = n - j
      BY <2>1, <2>10
    <3>2. Due(j + 1) = (n - j) * Interval(n)
      BY <2>1, <2>7, <3>1 DEF Due
    <3>3. wait[Nth(j + 1)] <= Due(j + 1) \/ quiet <= Due(j + 1)
      BY <2>2, <3>1 DEF SentInv, Served
    <3>4. Nth(j + 1) \in PortIds /\ Nth(j)' = Nth(j + 1)
      BY <1>3, <2>4, <2>10, <3>1
    <3>5. wait'[Nth(j + 1)] = 0 \/ wait'[Nth(j + 1)] = wait[Nth(j + 1)]
      BY <2>3, <3>4
    <3>6. wait'[Nth(j + 1)] <= Due(j + 1) \/ quiet' <= Due(j + 1)
      BY <2>3, <2>7, <3>2, <3>3, <3>5
    <3>7. QED
      BY <2>8, <3>2, <3>4, <3>6
  <2>11. QED
    BY <2>9, <2>10
<1>10. QED
  BY <1>6, <1>7, <1>8, <1>9, NextWaits

\* What Served comes to: after a cycle in which nothing happens.
LEMMA InTime ==
  ASSUME SentInv, Number * shortest <= send_cycle_time, NEW p \in Queued
  PROVE  /\ p \in PortIds /\ wait[p] \in Nat /\ quiet \in Nat
         /\ wait[p] <= send_cycle_time - timer \/ quiet <= send_cycle_time - timer
         /\ timer \in Nat /\ timer <= send_cycle_time
<1> DEFINE n == Number
<1>1. Lists /\ TimerRuns /\ wait \in [PortIds -> 0..(send_cycle_time + 1)] /\ quiet \in Nat
  BY Times DEF SentInv, ListsInv, TypeOK
<1>2. PICK j \in 1..n : p = Nth(j)
  BY <1>1, NthPorts
<1>3. n \in Nat \ {0} /\ send_cycle_time \in Nat
  BY <1>1, <1>2, Numbers, Times
<1>4. Interval(n) \in Nat /\ timer \in 0..Interval(n) /\ n * Interval(n) <= send_cycle_time
  BY <1>1, <1>3, IntervalFits DEF TimerRuns
<1>5. Due(j) \in Nat /\ Due(j) <= n * Interval(n) - timer
  BY <1>3, <1>4, Dues DEF Due
<1>6. n * Interval(n) \in Nat /\ Interval(n) <= n * Interval(n)
  BY <1>3, <1>4
<1>7. wait[p] <= Due(j) \/ quiet <= Due(j)
  BY <1>2 DEF SentInv, Served
<1>8. p \in PortIds /\ wait[p] \in Nat
  BY <1>1, <1>2, NthPorts
<1>9. QED
  BY <1>1, <1>3, <1>4, <1>5, <1>6, <1>7, <1>8

\* The switches that have just connected are served in time ...
LEMMA InitSent == Init => SentInv
<1> SUFFICES ASSUME Init PROVE SentInv
  OBVIOUS
<1>1. ListsInv
  BY InitLists DEF ListsInv
<1>2. ASSUME NEW j \in 1..Number PROVE quiet <= Due(j)
  <2>1. Number \in Nat \ {0}
    BY <1>1, Numbers DEF ListsInv
  <2>2. Interval(Number) \in Nat /\ timer \in 0..Interval(Number)
    BY <1>1, <2>1, IntervalFits DEF ListsInv, TimerRuns
  <2>3. Due(j) \in Nat
    BY <2>1, <2>2, Dues DEF Due
  <2>4. quiet = 0
    BY DEF Init
  <2>5. QED
    BY <2>3, <2>4
<1>3. QED
  BY <1>1, <1>2 DEF SentInv, Served

\* ... and stay so.
LEMMA StepSent == SentInv /\ [Next]_vars => SentInv'
<1> SUFFICES ASSUME SentInv, [Next]_vars PROVE SentInv'
  OBVIOUS
<1>1. ListsInv'
  BY ListsStep, TimerType, TypeStep DEF SentInv, ListsInv
<1>2. QED
  BY <1>1, ServedStep DEF SentInv

\* Once nothing has changed for a cycle, every port has had a packet within the
\* last one, for every number of ports that one packet at a time is enough for:
\* what the interval of LLDPSender's timer and the order of its lists come to.
THEOREM EveryPortInTime == Spec => []SentEveryCycle
<1>1. SentInv => SentEveryCycle
  <2> SUFFICES ASSUME SentInv, quiet > send_cycle_time, Unrounded, NEW p \in Queued
               PROVE  wait[p] <= send_cycle_time
    BY DEF SentEveryCycle
  <2>1. Number * shortest <= send_cycle_time
    BY Numbers DEF Unrounded, SentInv, ListsInv
  <2>2. QED
    BY <2>1, InTime, Times
<1>2. QED
  BY <1>1, InitSent, StepSent, PTL DEF Spec

-----------------------------------------------------------------------------
\* No link that works is given up.

Source(l) == <<l.dpid1, l.port1>>

\* Packets leave and links start at the ports of the lists.
Sendable ==
  /\ \A f \in flying : f.link.port1 <= OFPP_MAX
  /\ \A l \in DOMAIN adjacency : l.port1 <= OFPP_MAX

\* The time stamp of a link is as new as the last packet, or one that is still
\* under way comes at most a cycle after the one the stamp is of; unless there was
\* none since something has changed.
Newer(l) ==
  \/ adjacency[l] <= wait[Source(l)]
  \/ \E f \in flying : f.link = l /\ (\/ adjacency[l] <= f.age + send_cycle_time
                                      \/ quiet <= f.age + send_cycle_time)
  \/ quiet <= wait[Source(l)]
Fresh == Unrounded => \A l \in DOMAIN adjacency \cap Working : Newer(l)

FreshInv == SentInv /\ FreshUntilCheck /\ Sendable /\ Fresh

\* The source of a working link is a port in the lists.
LEMMA Sources ==
  ASSUME Lists, NEW l \in Wires
  PROVE  /\ Carries(l) => Source(l) \in PortIds
         /\ l \in Working /\ l.port1 <= OFPP_MAX => Source(l) \in Queued
<1>1. l.dpid1 \in Dpids
  BY WireShape
<1>2. Carries(l) => l.port1 \in ports[l.dpid1] /\ ports[l.dpid1] \subseteq PortsOf[l.dpid1]
  BY <1>1 DEF Carries, Lists
<1>3. Carries(l) => Source(l) \in PortIds
  BY <1>1, <1>2 DEF Source, PortIds
<1>4. ASSUME l \in Working, l.port1 <= OFPP_MAX PROVE Source(l) \in Queued
  <2>1. l.dpid1 \in up /\ l.port1 \in ports[l.dpid1]
    BY <1>4 DEF Working, Carries
  <2>2. Source(l) \in PortsOfSwitch(l.dpid1, ports)
    BY <1>4, <2>1 DEF Source, PortsOfSwitch
  <2>3. QED
    BY <2>1, <2>2 DEF Lists, Physical
<1>5. QED
  BY <1>3, <1>4

\* Packets come from physical ports only.
LEMMA SendableStep ==
  ASSUME SentInv, Sendable, [Next]_vars
  PROVE  Sendable'
<1>1. CASE SendPackets
  <2>1. PICK num \in Chunks(Number) :
          flying' = flying \cup {[link |-> w, age |-> 0] :
                     w \in {w \in Wires : Carries(w) /\ <<w.dpid1, w.port1>> \in Take(num).sent}}
    BY <1>1 DEF SendPackets, Number
  <2>2. /\ Number \in Nat \ {0} /\ num \in Nat \ {0} /\ Lists
        /\ this_cycle \in Seq(PortIds) /\ next_cycle \in Seq(PortIds)
    <3>1. Lists /\ TimerRuns /\ Number \in Nat \ {0}
      BY <1>1, ListsSendPackets DEF SentInv, ListsInv
    <3>2. QED
      BY <3>1, Batches DEF Lists
  <2>3. Take(num).sent \subseteq Queued
    <3> DEFINE all == this_cycle \o next_cycle
    <3>1. all \in Seq(PortIds) /\ Len(all) = Number /\ ToSet(all) = Queued
      BY <2>2, Joined DEF Number, Queued
    <3>2. \A j \in 1..num : ((j - 1) % Number) + 1 \in 1..Number
      <4>1. SUFFICES ASSUME NEW j \in 1..num PROVE ((j - 1) % Number) + 1 \in 1..Number
        OBVIOUS
      <4>2. j - 1 \in Nat
        BY <2>2
      <4>3. (j - 1) % Number \in 0..(Number - 1)
        BY <2>2, <4>2
      <4>4. QED
        BY <2>2, <4>3
    <3>3. Take(num).sent = {all[((j - 1) % Len(all)) + 1] : j \in 1..num}
      BY DEF Take
    <3> HIDE DEF all
    <3>4. \A i \in 1..Number : all[i] \in Queued
      BY <3>1 DEF ToSet
    <3>5. QED
      BY <3>1, <3>2, <3>3, <3>4
  <2>4. \A p \in Queued : p[2] <= OFPP_MAX
    BY <2>2, OfSwitch DEF Lists, Physical
  <2>5. \A f \in flying' : f \in flying \/ f.link.port1 <= OFPP_MAX
    <3>1. ASSUME NEW w \in Wires, <<w.dpid1, w.port1>> \in Take(num).sent PROVE w.port1 <= OFPP_MAX
      <4>1. <<w.dpid1, w.port1>>[2] <= OFPP_MAX
        BY <2>3, <2>4, <3>1
      <4>2. QED
        BY <4>1
    <3>2. \A f \in flying' : f \in flying \/ \E w \in Wires : <<w.dpid1, w.port1>> \in Take(num).sent /\ f.link = w
      <4>1. \A f \in flying' : f \in flying \/ \E w \in Wires :
              <<w.dpid1, w.port1>> \in Take(num).sent /\ f = [link |-> w, age |-> 0]
        BY <2>1
      <4>2. QED
        BY <4>1
    <3>3. QED
      BY <3>1, <3>2
  <2>6. adjacency' = adjacency
    BY <1>1 DEF SendPackets, link_vars
  <2>7. QED
    BY <2>5, <2>6 DEF Sendable
<1>2. CASE Tick
  <2>1. /\ flying' = {[f EXCEPT !.age = @ + 1] : f \in flying}
        /\ DOMAIN adjacency' = DOMAIN adjacency
    BY <1>2 DEF Tick
  <2>2. \A g \in flying' : \E f \in flying : g.link = f.link
    <3>1. \A f \in flying : [f EXCEPT !.age = @ + 1].link = f.link
      BY DEF SentInv, ListsInv, TypeOK
    <3>2. QED
      BY <2>1, <3>1
  <2>3. QED
    BY <2>1, <2>2 DEF Sendable
<1>3. ASSUME NEW f \in flying, PacketIn(f) PROVE Sendable'
  BY <1>3 DEF Sendable, PacketIn, Stamped
<1>4. CASE FinishDelete
  BY <1>4 DEF Sendable, FinishDelete
<1>5. CASE /\ flying' \subseteq flying /\ adjacency' = adjacency
  BY <1>5 DEF Sendable
<1>6. QED
  BY <1>1, <1>2, <1>3, <1>4, <1>5
     DEF Next, Progress, ExpireLinks, Lost, Removed, vars, link_vars,
         ConnectionUp, ConnectionDown, PortAdded, PortDeleted, Unplug, Replug

\* While time passes a working link is refreshed, or its packet is still to come.
LEMMA FreshTick ==
  ASSUME FreshInv, Tick, Unrounded, NEW l \in DOMAIN adjacency, l \in Working
  PROVE  Newer(l)'
<1> USE Times
<1>1. /\ l \in Wires /\ l.port1 <= OFPP_MAX /\ Lists /\ Newer(l)
      /\ Number * shortest <= send_cycle_time
  BY Numbers DEF FreshInv, Working, Sendable, SentInv, ListsInv, Fresh, Unrounded
<1>2. Source(l) \in Queued
  BY <1>1, Sources
<1> DEFINE w == wait[Source(l)]
<1>3. /\ Source(l) \in PortIds /\ w \in Nat /\ quiet \in Nat /\ timer \in Nat
      /\ w <= send_cycle_time - timer \/ quiet <= send_cycle_time - timer
  BY <1>1, <1>2, InTime DEF FreshInv
<1>4. timer # 0 /\ send_cycle_time \in Nat /\ send_cycle_time < link_timeout /\ link_timeout \in Nat
  BY DEF Tick, send_cycle_time
<1>5. /\ wait'[Source(l)] = Least(w, send_cycle_time) + 1
      /\ adjacency'[l] = Least(adjacency[l], link_timeout + check_period) + 1
      /\ quiet' = Least(quiet, link_timeout) + 1
      /\ flying' = {[f EXCEPT !.age = @ + 1] : f \in flying}
  BY <1>3 DEF Tick
<1>6. adjacency[l] \in Nat /\ adjacency'[l] <= adjacency[l] + 1 /\ adjacency'[l] \in Nat
  BY <1>5 DEF FreshInv, FreshUntilCheck, Least
<1>7. quiet' <= quiet + 1 /\ quiet' \in Nat
  BY <1>3, <1>5 DEF Least
<1>8. CASE w < send_cycle_time
  <2>1. wait'[Source(l)] = w + 1
    BY <1>3, <1>4, <1>5, <1>8 DEF Least
  <2>2. CASE adjacency[l] <= w \/ quiet <= w
    <3>1. adjacency'[l] <= wait'[Source(l)] \/ quiet' <= wait'[Source(l)]
      BY <1>3, <1>6, <1>7, <2>1, <2>2
    <3>2. QED
      BY <3>1 DEF Newer, Source
  <2>3. ASSUME NEW f \in flying, f.link = l,
               \/ adjacency[l] <= f.age + send_cycle_time
               \/ quiet <= f.age + send_cycle_time
        PROVE  Newer(l)'
    <3> DEFINE g == [f EXCEPT !.age = @ + 1]
    <3>1. f.age \in Nat /\ g \in flying' /\ g.link = l /\ g.age = f.age + 1
      <4>1. f \in [link : Wires, age : 0..MaxDelay]
        BY DEF FreshInv, SentInv, ListsInv, TypeOK
      <4>2. g \in flying'
        BY <1>5
      <4>3. g.link = f.link /\ g.age = f.age + 1 /\ f.age \in Nat
        BY <4>1
      <4>4. QED
        BY <2>3, <4>2, <4>3
    <3> HIDE DEF g
    <3>2. adjacency'[l] <= g.age + send_cycle_time \/ quiet' <= g.age + send_cycle_time
      BY <1>3, <1>4, <1>6, <1>7, <2>3, <3>1
    <3>3. QED
      BY <3>1, <3>2 DEF Newer
  <2>4. QED
    BY <1>1, <2>2, <2>3 DEF Newer
<1>9. CASE ~(w < send_cycle_time)
  <2>1. wait'[Source(l)] = send_cycle_time + 1
    BY <1>3, <1>4, <1>5, <1>9 DEF Least
  <2>2. quiet <= send_cycle_time
    BY <1>3, <1>4, <1>9
  <2>3. quiet' <= wait'[Source(l)]
    BY <1>3, <1>4, <1>7, <2>1, <2>2
  <2>4. QED
    BY <2>3 DEF Newer, Source
<1>10. QED
  BY <1>8, <1>9

\* Every step keeps the links that work fresh.
LEMMA FreshStep ==
  ASSUME FreshInv, [Next]_vars, ListsInv'
  PROVE  Fresh'
<1> USE Times
<1>1. /\ Lists /\ TimerRuns /\ Lists' /\ TypeOK /\ TypeOK' /\ DOMAIN adjacency \subseteq Wires
      /\ DOMAIN adjacency' \subseteq Wires
  BY DEF FreshInv, SentInv, ListsInv, TypeOK
<1>2. SUFFICES ASSUME Unrounded', NEW l \in DOMAIN adjacency', l \in Working' PROVE Newer(l)'
  BY DEF Fresh
<1>3. l \in Wires
  BY <1>1
<1>4. CASE External
  <2>1. Carries(l)'
    BY <1>2 DEF Working
  <2>2. Source(l) \in PortIds
    <3>1. l.dpid1 \in Dpids
      BY <1>3, WireShape
    <3>2. l.port1 \in ports'[l.dpid1] /\ ports'[l.dpid1] \subseteq PortsOf[l.dpid1]
      BY <1>1, <2>1, <3>1 DEF Carries, Lists
    <3>3. QED
      BY <3>1, <3>2 DEF Source, PortIds
  <2>3. wait'[Source(l)] \in Nat
    BY <1>1, <2>2 DEF TypeOK
  <2>4. quiet' = 0
    BY <1>4 DEF External
  <2>5. quiet' <= wait'[Source(l)]
    BY <2>3, <2>4
  <2>6. QED
    BY <2>5 DEF Newer, Source
<1>5. ASSUME UNCHANGED <<up, ports, live, wait, quiet>>, Queued' = Queued,
             l \in DOMAIN adjacency, adjacency'[l] = adjacency[l],
             \A f \in flying : f.link = l => f \in flying'
      PROVE  Newer(l)'
  <2>1. l \in Working /\ Unrounded
    BY <1>2, <1>5 DEF Working, Carries, Unrounded
  <2>2. Newer(l)
    BY <1>5, <2>1 DEF FreshInv, Fresh
  <2>3. QED
    BY <1>5, <2>2 DEF Newer, Source
<1>6. CASE SendPackets
  <2>1. Number \in Nat \ {0} /\ Queued' = Queued
    BY <1>1, <1>6, ListsSendPackets
  <2>2. Number * shortest <= send_cycle_time
    BY <1>1, <1>2, <2>1, Numbers DEF Unrounded
  <2>3. Chunks(Number) = {1}
    BY <2>1, <2>2, Batches
  <2>4. /\ this_cycle' = Take(1).this /\ next_cycle' = Take(1).next
        /\ wait' = [p \in PortIds |-> IF p \in Take(1).sent THEN 0 ELSE wait[p]]
        /\ flying' = flying \cup {[link |-> w, age |-> 0] :
                     w \in {w \in Wires : Carries(w) /\ <<w.dpid1, w.port1>> \in Take(1).sent}}
        /\ UNCHANGED <<up, ports, live, adjacency, quiet>>
    BY <1>6, <2>3 DEF SendPackets, Number, link_vars
  <2>5. l \in Working /\ l \in DOMAIN adjacency /\ Unrounded /\ Carries(l)
    BY <1>2, <2>1, <2>4 DEF Working, Carries, Unrounded
  <2>6. Newer(l)
    BY <2>5 DEF FreshInv, Fresh
  <2>7. Source(l) \in Queued
    BY <1>1, <1>3, <2>5, Sources DEF FreshInv, Sendable
  <2> DEFINE w == wait[Source(l)]
  <2>8. /\ Source(l) \in PortIds /\ w \in Nat /\ quiet \in Nat
        /\ w <= send_cycle_time \/ quiet <= send_cycle_time
    <3>1. /\ Source(l) \in PortIds /\ w \in Nat /\ quiet \in Nat
          /\ w <= send_cycle_time - timer \/ quiet <= send_cycle_time - timer
      BY <2>2, <2>7, InTime DEF FreshInv
    <3>2. timer = 0 /\ send_cycle_time \in Nat
      BY <1>6 DEF SendPackets
    <3>3. QED
      BY <3>1, <3>2
  <2>9. CASE Source(l) \notin Take(1).sent
    <3>1. wait'[Source(l)] = w
      BY <2>4, <2>8, <2>9
    <3>2. QED
      BY <2>4, <2>6, <3>1 DEF Newer, Source
  <2>10. CASE Source(l) \in Take(1).sent
    <3> DEFINE g == [link |-> l, age |-> 0]
    <3>1. g \in flying'
      BY <1>3, <2>4, <2>5, <2>10 DEF Source
    <3>2. CASE adjacency[l] <= w \/ quiet <= w
      <4>1. adjacency[l] \in Nat /\ send_cycle_time \in Nat
        BY <2>5 DEF FreshInv, FreshUntilCheck
      <4>2. adjacency[l] <= 0 + send_cycle_time \/ quiet <= 0 + send_cycle_time
        BY <2>8, <3>2, <4>1
      <4>3. g.link = l /\ g.age = 0
        OBVIOUS
      <4> HIDE DEF g
      <4>4. adjacency'[l] <= g.age + send_cycle_time \/ quiet' <= g.age + send_cycle_time
        BY <2>4, <4>2, <4>3
      <4>5. QED
        BY <3>1, <4>3, <4>4 DEF Newer
    <3>3. CASE \E f \in flying : f.link = l /\ (\/ adjacency[l] <= f.age + send_cycle_time
                                               \/ quiet <= f.age + send_cycle_time)
      BY <2>4, <3>3 DEF Newer
    <3>4. QED
      BY <2>6, <3>2, <3>3 DEF Newer
  <2>11. QED
    BY <2>9, <2>10
<1>7. CASE Tick
  <2>1. UNCHANGED <<up, ports, live, this_cycle, next_cycle>> /\ DOMAIN adjacency' = DOMAIN adjacency
    BY <1>7 DEF Tick
  <2>2. Queued' = Queued
    BY <1>1, <2>1, SameLists
  <2>3. l \in Working /\ l \in DOMAIN adjacency /\ Unrounded
    BY <1>2, <2>1, <2>2 DEF Working, Carries, Unrounded
  <2>4. QED
    BY <1>7, <2>3, FreshTick
<1>8. ASSUME NEW f \in flying, PacketIn(f) PROVE Newer(l)'
  <2>1. /\ UNCHANGED <<up, ports, live, this_cycle, next_cycle, wait, quiet>>
        /\ flying' = flying \ {f}
    BY <1>8 DEF PacketIn, sender_vars
  <2>2. Queued' = Queued
    BY <1>1, <2>1, SameLists
  <2>3. CASE l = f.link
    <3>1. {f.link.dpid1, f.link.dpid2} \subseteq up
      BY <1>2, <2>1, <2>3 DEF Working
    <3>2. adjacency'[l] = 0
      BY <1>8, <2>3, <3>1 DEF PacketIn, Stamped
    <3>3. Source(l) \in PortIds
      <4>1. Carries(l)
        BY <1>2, <2>1 DEF Working, Carries
      <4>2. QED
        BY <1>1, <1>3, <4>1, Sources
    <3>4. wait'[Source(l)] \in Nat
      BY <1>1, <3>3 DEF TypeOK
    <3>5. adjacency'[l] <= wait'[Source(l)]
      BY <3>2, <3>4
    <3>6. QED
      BY <3>5 DEF Newer, Source
  <2>4. CASE l # f.link
    <3>1. l \in DOMAIN adjacency /\ adjacency'[l] = adjacency[l]
      BY <1>2, <1>8, <2>4 DEF PacketIn, Stamped
    <3>2. QED
      BY <1>5, <2>1, <2>2, <2>4, <3>1
  <2>5. QED
    BY <2>3, <2>4
<1>9. ASSUME NEW f \in flying, Lost(f) PROVE Newer(l)'
  <2>1. /\ UNCHANGED <<up, ports, live, this_cycle, next_cycle, wait, quiet, adjacency>>
        /\ flying' = flying \ {f} /\ ~Carries(f.link)
    BY <1>9 DEF Lost, sender_vars, link_vars
  <2>2. f.link # l
    BY <1>2, <2>1 DEF Working, Carries
  <2>3. QED
    BY <1>1, <1>2, <1>5, <2>1, <2>2, SameLists
<1>10. CASE ExpireLinks \/ FinishDelete \/ (\E k \in Wires : Removed(k)) \/ UNCHANGED vars
  <2>1. UNCHANGED <<up, ports, live, this_cycle, next_cycle, wait, quiet, flying>>
    BY <1>10 DEF ExpireLinks, FinishDelete, Removed, sender_vars, link_vars, vars
  <2>2. l \in DOMAIN adjacency /\ adjacency'[l] = adjacency[l]
    BY <1>2, <1>10 DEF ExpireLinks, FinishDelete, Removed, link_vars, vars
  <2>3. QED
    BY <1>1, <1>5, <2>1, <2>2, SameLists
<1>11. QED
  BY <1>4, <1>6, <1>7, <1>8, <1>9, <1>10
     DEF Next, Progress, ConnectionUp, ConnectionDown, PortAdded, PortDeleted, Unplug, Replug

\* A working link is deleted only by a check soon after some change, for all
\* timing parameters by which a packet arrives less than a timeout after the one
\* a cycle before it was sent: _expire_links with LLDPSender's send_cycle_time.
THEOREM WorkingLinksStay ==
  ASSUME MaxDelay + send_cycle_time < link_timeout
  PROVE  Spec => NoFalseTimeout
<1>1. Init => FreshInv
  <2> SUFFICES ASSUME Init PROVE FreshUntilCheck /\ Sendable /\ Fresh
    BY InitSent DEF FreshInv
  <2>1. adjacency = <<>> /\ flying = {} /\ deleting = {} /\ check = check_period
    BY DEF Init
  <2>2. QED
    BY <2>1, Times DEF FreshUntilCheck, Sendable, Fresh
<1>2. FreshInv /\ [Next]_vars => FreshInv'
  <2> SUFFICES ASSUME FreshInv, [Next]_vars PROVE FreshInv'
    OBVIOUS
  <2>1. SentInv'
    BY StepSent DEF FreshInv
  <2>2. FreshUntilCheck' /\ Sendable'
    BY StepFresh, SendableStep DEF FreshInv
  <2>3. Fresh'
    BY <2>1, FreshStep DEF SentInv
  <2>4. QED
    BY <2>1, <2>2, <2>3 DEF FreshInv
<1>3. ASSUME FreshInv, [Next]_vars, NEW l \in deleting' \ deleting, l \in Working', Unrounded
      PROVE  quiet < link_timeout
  <2>1. SUFFICES ASSUME ~(quiet < link_timeout) PROVE FALSE
    OBVIOUS
  <2>2. CASE ExpireLinks
    <3>1. /\ l \in DOMAIN adjacency /\ adjacency[l] > link_timeout
          /\ UNCHANGED <<up, ports, live>>
      BY <1>3, <2>2 DEF ExpireLinks
    <3>2. l \in Working
      BY <1>3, <3>1 DEF Working, Carries
    <3>3. Newer(l)
      BY <1>3, <3>1, <3>2 DEF FreshInv, Fresh
    <3>4. Source(l) \in Queued
      BY <1>3, <3>1, <3>2, Sources DEF FreshInv, SentInv, ListsInv, Sendable, Working
    <3>5. Number * shortest <= send_cycle_time
      BY <1>3, Numbers DEF Unrounded, FreshInv, SentInv, ListsInv
    <3> DEFINE w == wait[Source(l)]
    <3>6. /\ w \in Nat /\ quiet \in Nat /\ timer \in Nat
          /\ w <= send_cycle_time - timer \/ quiet <= send_cycle_time - timer
      BY <1>3, <3>4, <3>5, InTime DEF FreshInv
    <3>7. send_cycle_time \in Nat /\ link_timeout \in Nat /\ MaxDelay \in Nat /\ send_cycle_time < link_timeout
      BY Times DEF send_cycle_time
    <3>8. w <= send_cycle_time /\ send_cycle_time < quiet
      BY <2>1, <3>6, <3>7
    <3>9. adjacency[l] \in Nat
      BY <1>3, <3>1 DEF FreshInv, FreshUntilCheck, ExpireLinks, Idle
    <3>10. ~(adjacency[l] <= w) /\ ~(quiet <= w)
      BY <3>1, <3>6, <3>7, <3>8, <3>9
    <3>11. PICK f \in flying : \/ adjacency[l] <= f.age + send_cycle_time
                               \/ quiet <= f.age + send_cycle_time
      BY <3>3, <3>10 DEF Newer
    <3>12. f.age \in 0..MaxDelay
      BY <1>3 DEF FreshInv, SentInv, ListsInv, TypeOK
    <3>13. QED
      BY <2>1, <3>1, <3>6, <3>7, <3>9, <3>11, <3>12
  <2>3. ASSUME NEW d \in Dpids, ConnectionDown(d) PROVE FALSE
    <3>1. d \in {l.dpid1, l.dpid2} /\ up' = up \ {d}
      BY <1>3, <2>3 DEF ConnectionDown
    <3>2. QED
      BY <1>3, <3>1 DEF Working
  <2>4. CASE deleting' \subseteq deleting
    BY <1>3, <2>4
  <2>5. QED
    BY <1>3, <2>2, <2>3, <2>4
       DEF Next, Progress, SendPackets, FinishDelete, Tick, PacketIn, Lost, Removed, vars, link_vars,
           ConnectionUp, PortAdded, PortDeleted, Unplug, Replug
<1>4. FreshInv /\ [Next]_vars =>
        [\A l \in deleting' \ deleting : l \in Working' /\ Unrounded => quiet < link_timeout]_vars
  BY <1>3
<1>5. QED
  BY <1>1, <1>2, <1>4, PTL DEF Spec, NoFalseTimeout
=============================================================================
