------------------------ MODULE LearningSwitchProofs ------------------------
(***************************************************************************)
(* That the learning switches of tree_controller.py learn, and say by      *)
(* their entries, where each host is, and that no host gets a frame twice, *)
(* for every number of switches, hosts, frames and lost connections.       *)
(***************************************************************************)
EXTENDS LearningSwitch, SequenceTheorems, TLAPS

-----------------------------------------------------------------------------
\* The tree.

\* Numbers, divided by another.
LEMMA Divide ==
  ASSUME NEW n \in Nat, NEW d \in Nat \ {0}
  PROVE  /\ n \div d \in Nat /\ n % d \in 0..(d - 1)
         /\ n - d * (n \div d) = n % d
<1>1. n \div d \in Nat /\ n % d \in 0..(d - 1)
  OBVIOUS
<1>2. n - d * (n \div d) = n % d
  OBVIOUS
<1>3. QED
  BY <1>1, <1>2

\* A quotient and a remainder that fit are the ones.
LEMMA Divided ==
  ASSUME NEW d \in Nat, NEW q \in Nat, NEW r \in 0..(d - 1)
  PROVE  (d * q + r) \div d = q /\ (d * q + r) % d = r
OBVIOUS

\* The quotients by the number of servers are the leaves.
LEMMA Multiples ==
  ASSUME NEW d \in Nat, NEW a \in Nat, NEW b \in Nat
  PROVE  /\ d * a \in Nat
         /\ d * a < d * b => a < b
         /\ a < b => d * a + d <= d * b
<1>1. d * a \in Nat
  OBVIOUS
<1>2. d * a < d * b => a < b
  OBVIOUS
<1>3. a < b => d * a + d <= d * b
  OBVIOUS
<1>4. QED
  BY <1>1, <1>2, <1>3

\* Each host is at a port of a leaf ...
LEMMA WhereHostsAre ==
  ASSUME TreeShape, NEW h \in TreeHosts
  PROVE  /\ Servers > 0
         /\ LeafOf(h) \in 1..Leaves
         /\ PortOf(h) \in 2..(Servers + 1)
         /\ h = (LeafOf(h) - 1) * Servers + PortOf(h) - 1
<1> DEFINE q == (h - 1) \div Servers
           r == (h - 1) % Servers
<1>1. Leaves \in Nat /\ Servers \in Nat /\ h \in 1..(Leaves * Servers)
  BY DEF TreeShape, TreeHosts
<1>2. Servers # 0
  BY <1>1
<1>3. h - 1 \in Nat /\ h - 1 < Leaves * Servers
  BY <1>1
<1>4. q \in Nat /\ r \in 0..(Servers - 1) /\ (h - 1) - Servers * q = r
  BY <1>1, <1>2, <1>3, Divide
<1> HIDE DEF q, r
<1>5. Servers * q \in Nat /\ Leaves * Servers = Servers * Leaves /\ q * Servers = Servers * q
  BY <1>1, <1>4, Multiples
<1>6. Servers * q < Servers * Leaves
  BY <1>1, <1>3, <1>4, <1>5
<1>7. q < Leaves
  BY <1>1, <1>4, <1>6, Multiples
<1>8. LeafOf(h) = q + 1 /\ PortOf(h) = r + 2
  BY DEF LeafOf, PortOf, q, r
<1>9. LeafOf(h) - 1 = q
  BY <1>4, <1>8
<1>10. (LeafOf(h) - 1) * Servers = Servers * q
  BY <1>5, <1>9
<1>11. QED
  BY <1>1, <1>2, <1>3, <1>4, <1>5, <1>7, <1>8, <1>10

\* ... and at each port of a leaf but the first is a host.
LEMMA WhatPortsHave ==
  ASSUME TreeShape, NEW s \in 1..Leaves, NEW p \in 2..(Servers + 1)
  PROVE  LET h == (s - 1) * Servers + p - 1
         IN  h \in TreeHosts /\ LeafOf(h) = s /\ PortOf(h) = p
<1> DEFINE q == s - 1
           r == p - 2
           h == q * Servers + p - 1
<1>1. /\ Leaves \in Nat /\ Servers \in Nat
      /\ q \in Nat /\ q < Leaves /\ r \in 0..(Servers - 1) /\ p = r + 2 /\ s = q + 1
  BY DEF TreeShape
<1> HIDE DEF q, r
<1>2. q * Servers = Servers * q /\ Servers * q \in Nat /\ Servers * q + Servers <= Servers * Leaves
  BY <1>1, Multiples
<1>3. h - 1 = Servers * q + r
  BY <1>1, <1>2
<1>4. (h - 1) \div Servers = q /\ (h - 1) % Servers = r
  BY <1>1, <1>3, Divided
<1>5. LeafOf(h) = s /\ PortOf(h) = p
  BY <1>1, <1>4 DEF LeafOf, PortOf
<1>6. Leaves * Servers = Servers * Leaves
  BY <1>1
<1>7. h \in TreeHosts
  BY <1>1, <1>2, <1>3, <1>6 DEF TreeHosts
<1>8. QED
  BY <1>5, <1>7 DEF q

\* The way of a frame, from switch to switch: through the leaf of its source and
\* that of its destination, and through the root between them.
On(p, s) ==
  \/ s \in {LeafOf(p[1]), LeafOf(p[2])}
  \/ s = Root /\ LeafOf(p[1]) # LeafOf(p[2])
OnWay(p, at) ==
  \/ at = <<"h", p[2]>>
  \/ \E s \in Switches : at = <<"s", s>> /\ On(p, s)

\* Where frames from the source of p arrive at a node: at a switch, through the
\* port that leads back.
Reached(p, n) ==
  \/ \E t \in Switches : n.at = <<"s", t>> /\ n.port = Towards(t, p[1])
  \/ \E h \in TreeHosts : n.at = <<"h", h>> /\ n.port = 1

\* The port towards a host, at each kind of switch.
LEMMA TowardsPort ==
  ASSUME TreeShape, NEW s \in Switches, NEW h \in TreeHosts
  PROVE  /\ Towards(s, h) \in TreePorts(s)
         /\ TreePorts(s) \subseteq AllPorts
         /\ LeafOf(h) \in Switches
<1>1. LeafOf(h) \in 1..Leaves /\ PortOf(h) \in 2..(Servers + 1) /\ Leaves \in Nat /\ Servers \in Nat
  BY WhereHostsAre DEF TreeShape
<1>2. QED
  BY <1>1 DEF Towards, TreePorts, AllPorts, Switches, Root

\* A frame that leaves a switch away from its source gets further away from it;
\* and one of the ports is on its way.
LEMMA AwayFromSource ==
  ASSUME TreeShape, NEW p \in Pairs, NEW s \in Switches, NEW q \in TreePorts(s),
         q # Towards(s, p[1])
  PROVE  /\ Reached(p, Peer(s, q))
         /\ OnWay(p, Peer(s, q).at) <=> On(p, s) /\ q = Towards(s, p[2])
<1> DEFINE src == p[1]
           dst == p[2]
<1>1. src \in TreeHosts /\ dst \in TreeHosts /\ Leaves \in Nat /\ Servers \in Nat
  BY DEF Pairs, TreeShape
<1>2. /\ LeafOf(src) \in 1..Leaves /\ PortOf(src) \in 2..(Servers + 1)
      /\ LeafOf(dst) \in 1..Leaves /\ PortOf(dst) \in 2..(Servers + 1)
      /\ dst = (LeafOf(dst) - 1) * Servers + PortOf(dst) - 1
  BY <1>1, WhereHostsAre
<1>3. Root \in Switches /\ Root \notin 1..Leaves /\ Switches = 1..Leaves \cup {Root}
  BY <1>1 DEF Switches, Root
<1>4. CASE s = Root
  <2>1. q \in 1..Leaves /\ q # LeafOf(src)
    BY <1>4 DEF TreePorts, Towards
  <2>2. Peer(s, q).at = <<"s", q>> /\ Peer(s, q).port = 1 /\ Towards(q, src) = 1
    BY <1>3, <1>4, <2>1 DEF Peer, Towards
  <2>3. Reached(p, Peer(s, q))
    BY <1>3, <2>1, <2>2 DEF Reached
  <2>4. OnWay(p, Peer(s, q).at) <=> q = LeafOf(dst)
    BY <1>2, <1>3, <2>1, <2>2 DEF OnWay, On
  <2>5. On(p, s) /\ q = Towards(s, dst) <=> q = LeafOf(dst)
    BY <1>2, <1>3, <1>4, <2>1 DEF On, Towards
  <2>6. QED
    BY <2>3, <2>4, <2>5
<1>5. CASE s # Root /\ q = 1
  <2>1. s = LeafOf(src)
    BY <1>5 DEF Towards
  <2>2. Peer(s, q).at = <<"s", Root>> /\ Peer(s, q).port = s /\ Towards(Root, src) = s
    BY <1>5, <2>1 DEF Peer, Towards
  <2>3. Reached(p, Peer(s, q))
    BY <1>3, <2>2 DEF Reached
  <2>4. OnWay(p, Peer(s, q).at) <=> s # LeafOf(dst)
    BY <1>2, <1>3, <2>1, <2>2 DEF OnWay, On
  <2>5. On(p, s) /\ q = Towards(s, dst) <=> s # LeafOf(dst)
    BY <1>2, <1>5, <2>1 DEF On, Towards
  <2>6. QED
    BY <2>3, <2>4, <2>5
<1>6. CASE s # Root /\ q # 1
  <2> DEFINE h == (s - 1) * Servers + q - 1
  <2>1. s \in 1..Leaves /\ q \in 2..(Servers + 1)
    BY <1>1, <1>3, <1>6 DEF TreePorts
  <2>2. h \in TreeHosts /\ LeafOf(h) = s /\ PortOf(h) = q
    BY <2>1, WhatPortsHave
  <2>3. Peer(s, q).at = <<"h", h>> /\ Peer(s, q).port = 1
    BY <1>6 DEF Peer
  <2>4. LeafOf(dst) = s /\ PortOf(dst) = q => dst = h
    BY <1>2
  <2> HIDE DEF h
  <2>5. Reached(p, Peer(s, q))
    BY <2>2, <2>3 DEF Reached
  <2>6. OnWay(p, Peer(s, q).at) <=> h = dst
    BY <2>3 DEF OnWay
  <2>7. On(p, s) /\ q = Towards(s, dst) <=> LeafOf(dst) = s /\ PortOf(dst) = q
    BY <1>2, <1>6, <2>1 DEF On, Towards
  <2>8. QED
    BY <2>2, <2>4, <2>5, <2>6, <2>7
<1>7. QED
  BY <1>4, <1>5, <1>6

\* A switch is on the way just if a frame there is.
LEMMA OnWayAt ==
  ASSUME NEW p, NEW s \in Switches, NEW h
  PROVE  (OnWay(p, <<"s", s>>) <=> On(p, s)) /\ (OnWay(p, <<"h", h>>) <=> h = p[2])
BY DEF OnWay

-----------------------------------------------------------------------------
\* The invariant.

Answer == [out : {"all"}, id : 1..MaxFrames, port : AllPorts]
          \cup [out : {"entry"}, id : 1..MaxFrames, port : AllPorts, to : AllPorts]
Tables ==
  /\ commands \in [Switches -> Seq(Answer)]
  /\ DOMAIN flows = Switches /\ DOMAIN mac_port = Switches

\* What the controller is asked and answers at s is about a frame that came
\* from where its source is.
FromSource(s, m) == m.id \in 1..Len(frames) /\ m.port = Towards(s, frames[m.id][1])
ToDestination(s, c) == c.out = "entry" => c.to = Towards(s, frames[c.id][2])

\* What is under way and what is learned has the directions of the tree.
Guided ==
  /\ \A f \in links : f.id \in 1..Len(frames) /\ Reached(frames[f.id], f)
  /\ \A s \in Switches : \A j \in 1..Len(packet_in[s]) : FromSource(s, packet_in[s][j])
  /\ \A s \in Switches : \A j \in 1..Len(commands[s]) :
       FromSource(s, commands[s][j]) /\ ToDestination(s, commands[s][j])
Learned ==
  \A s \in Switches :
    /\ \A p \in DOMAIN flows[s] : flows[s][p] = Towards(s, p[2])
    /\ \A h \in DOMAIN mac_port[s] : mac_port[s][h] = Towards(s, h)

\* Of the copies of frame i, one is on its way, at most: on a link, in a question
\* to the controller or its answer (the k-th there), or received.
At(i, kind, where, k) ==
  /\ \A f \in links : f.id = i /\ OnWay(frames[i], f.at) => kind = "link" /\ where = f
  /\ \A s \in Switches : \A j \in 1..Len(packet_in[s]) :
       packet_in[s][j].id = i /\ On(frames[i], s) => kind = "asked" /\ where = s /\ k = j
  /\ \A s \in Switches : \A j \in 1..Len(commands[s]) :
       commands[s][j].id = i /\ On(frames[i], s) => kind = "told" /\ where = s /\ k = j
  /\ received[i] # 0 => kind = "received" /\ received[i] = 1
OneCopy ==
  /\ \A i \in 1..Len(frames) : \E kind, where, k : At(i, kind, where, k)
  /\ \A i \in 1..MaxFrames : i > Len(frames) => received[i] = 0

Inv == TypeOK /\ Tables /\ Guided /\ Learned /\ OneCopy

\* What the invariant says of a frame sent.
LEMMA Sent ==
  ASSUME TreeShape, TypeOK, NEW i \in 1..Len(frames)
  PROVE  /\ frames[i] \in Pairs /\ frames[i][1] \in TreeHosts /\ frames[i][2] \in TreeHosts
         /\ Len(frames) \in Nat /\ i \in 1..MaxFrames
<1>1. frames \in Seq(Pairs) /\ Len(frames) <= MaxFrames /\ MaxFrames \in Nat
  BY DEF TypeOK, TreeShape
<1>2. frames[i] \in Pairs /\ Len(frames) \in Nat
  BY <1>1
<1>3. frames[i][1] \in TreeHosts /\ frames[i][2] \in TreeHosts
  BY <1>2 DEF Pairs
<1>4. i \in 1..MaxFrames
  BY <1>1, <1>2
<1>5. QED
  BY <1>2, <1>3, <1>4

\* The ports that frames come in are ports.
LEMMA Ports ==
  ASSUME TreeShape, NEW p, p[1] \in TreeHosts, NEW n, Reached(p, n)
  PROVE  n.port \in AllPorts
<1>1. 1 \in AllPorts
  BY DEF AllPorts, TreeShape
<1>2. \A t \in Switches : Towards(t, p[1]) \in AllPorts
  BY TowardsPort
<1>3. QED
  BY <1>1, <1>2 DEF Reached

\* Frame i, sent on by s to where it is going.
Onward(s, i) ==
  LET n == Peer(s, Towards(s, frames[i][2])) IN [id |-> i, at |-> n.at, port |-> n.port]

\* A switch sends a frame on as it should be, and one copy of it is on its way,
\* if the frame was.
LEMMA Outputs ==
  ASSUME TreeShape, TypeOK, NEW s \in Switches, NEW ports \in SUBSET TreePorts(s),
         NEW m, FromSource(s, m), NEW g \in Output(s, ports, m)
  PROVE  /\ g.id = m.id /\ g.id \in 1..Len(frames)
         /\ g.port \in AllPorts /\ Reached(frames[g.id], g)
         /\ OnWay(frames[g.id], g.at) => On(frames[g.id], s) /\ g = Onward(s, m.id)
<1> DEFINE p == frames[m.id]
<1>1. m.id \in 1..Len(frames) /\ p \in Pairs /\ p[1] \in TreeHosts /\ p[2] \in TreeHosts
  BY Sent DEF FromSource
<1>2. PICK q \in ports \ {m.port} :
        g = [id |-> m.id, at |-> Peer(s, q).at, port |-> Peer(s, q).port]
  BY DEF Output
<1>3. q \in TreePorts(s) /\ q # Towards(s, p[1])
  BY <1>2 DEF FromSource
<1>4. g.id = m.id /\ g.at = Peer(s, q).at /\ g.port = Peer(s, q).port
  BY <1>2
<1>5. /\ Reached(p, Peer(s, q))
      /\ OnWay(p, Peer(s, q).at) <=> On(p, s) /\ q = Towards(s, p[2])
  BY <1>1, <1>3, AwayFromSource
<1>6. Reached(p, g)
  BY <1>4, <1>5 DEF Reached
<1>7. g.port \in AllPorts
  BY <1>1, <1>6, Ports DEF Reached
<1>8. OnWay(p, g.at) => On(p, s) /\ g = Onward(s, m.id)
  BY <1>2, <1>4, <1>5 DEF Onward
<1>9. QED
  BY <1>1, <1>4, <1>6, <1>7, <1>8

-----------------------------------------------------------------------------
\* The steps.

\* The elements of the lists of the state.
LEMMA Lists ==
  ASSUME TypeOK, Tables
  PROVE  /\ \A s \in Switches : packet_in[s] \in Seq(Arrival) /\ commands[s] \in Seq(Answer)
         /\ \A s \in Switches : Len(packet_in[s]) \in Nat /\ Len(commands[s]) \in Nat
         /\ \A s \in Switches : \A j \in 1..Len(packet_in[s]) : packet_in[s][j] \in Arrival
         /\ \A s \in Switches : \A j \in 1..Len(commands[s]) : commands[s][j] \in Answer
BY DEF TypeOK, Tables

\* A host sends a frame that is on no link and was not sent before.
LEMMA SendStep ==
  ASSUME TreeShape, Inv, NEW pair \in Pairs, Send(pair[1], pair[2])
  PROVE  Inv'
<1>0. PICK n, sent :
        /\ n = Len(frames) + 1
        /\ sent = [id |-> n, at |-> <<"s", LeafOf(pair[1])>>, port |-> PortOf(pair[1])]
  OBVIOUS
<1>1. /\ TypeOK /\ Tables /\ Guided /\ Learned /\ OneCopy
      /\ frames \in Seq(Pairs) /\ Len(frames) \in Nat /\ Len(frames) < MaxFrames /\ MaxFrames \in Nat
  BY DEF Inv, TypeOK, Send, TreeShape
<1>2. pair[1] \in TreeHosts /\ pair[2] \in TreeHosts /\ pair = <<pair[1], pair[2]>>
  BY DEF Pairs
<1>3. /\ frames' = Append(frames, pair)
      /\ frames' \in Seq(Pairs) /\ Len(frames') = n /\ frames'[n] = pair
      /\ \A i \in 1..Len(frames) : frames'[i] = frames[i] /\ i \in 1..Len(frames') /\ i # n
  <2>1. frames' = Append(frames, pair)
    BY <1>2 DEF Send
  <2>2. /\ frames' \in Seq(Pairs) /\ Len(frames') = n /\ frames'[n] = pair
        /\ \A i \in 1..Len(frames) : frames'[i] = frames[i]
    BY <1>0, <1>1, <2>1, AppendProperties
  <2>3. \A i \in 1..Len(frames) : i \in 1..n /\ i # n
    BY <1>0, <1>1
  <2>4. QED
    BY <2>1, <2>2, <2>3
<1>4. links' = links \cup {sent}
  BY <1>0, <1>3 DEF Send
<1>5. UNCHANGED <<flows, mac_port, connected, packet_in, commands, received, downs>>
  BY DEF Send, control_vars
<1>6. sent.id = n /\ n \in 1..Len(frames') /\ Reached(frames'[n], sent) /\ sent.port \in AllPorts
  <2>1. LeafOf(pair[1]) \in 1..Leaves /\ Leaves \in Nat
    BY <1>2, WhereHostsAre DEF TreeShape
  <2>2. LeafOf(pair[1]) \in Switches /\ Towards(LeafOf(pair[1]), pair[1]) = PortOf(pair[1])
    BY <2>1 DEF Towards, Switches, Root
  <2>3. Reached(pair, sent)
    BY <1>0, <2>2 DEF Reached
  <2>4. sent.id = n /\ n \in 1..n
    BY <1>0, <1>1
  <2>5. QED
    BY <1>2, <1>3, <2>3, <2>4, Ports
<1>7. TypeOK'
  <2>1. \A f \in links' : f.id \in 1..Len(frames') /\ f.port \in AllPorts
    BY <1>1, <1>3, <1>4, <1>6 DEF TypeOK
  <2>2. frames' \in Seq(Pairs) /\ Len(frames') <= MaxFrames
    BY <1>1, <1>3
  <2>3. QED
    BY <1>1, <1>5, <2>1, <2>2 DEF TypeOK
<1>8. Tables' /\ Learned'
  BY <1>1, <1>5 DEF Tables, Learned
<1>9. Guided'
  <2>1. \A f \in links' : f.id \in 1..Len(frames') /\ Reached(frames'[f.id], f)
    BY <1>1, <1>3, <1>4, <1>6 DEF Guided
  <2>2. \A s \in Switches : \A j \in 1..Len(packet_in[s]) : FromSource(s, packet_in[s][j])'
    BY <1>1, <1>3, <1>5 DEF Guided, FromSource
  <2>3. \A s \in Switches : \A j \in 1..Len(commands[s]) :
          FromSource(s, commands[s][j])' /\ ToDestination(s, commands[s][j])'
    BY <1>1, <1>3, <1>5 DEF Guided, FromSource, ToDestination
  <2>4. QED
    BY <1>5, <2>1, <2>2, <2>3 DEF Guided
<1>10. OneCopy'
  <2>1. ASSUME NEW i \in 1..Len(frames) PROVE \E kind, where, k : At(i, kind, where, k)'
    <3>1. PICK kind, where, k : At(i, kind, where, k)
      BY <1>1 DEF OneCopy
    <3>2. At(i, kind, where, k)'
      BY <1>3, <1>4, <1>5, <1>6, <3>1 DEF At
    <3>3. QED
      BY <3>2
  <2>2. At(n, "link", sent, 0)'
    <3>1. received[n] = 0
      BY <1>0, <1>1 DEF OneCopy
    <3>2. \A f \in links' : f.id = n => f = sent
      BY <1>1, <1>3, <1>4 DEF Guided
    <3>3. \A s \in Switches : \A j \in 1..Len(packet_in[s]) : packet_in[s][j].id # n
      BY <1>1, <1>3 DEF Guided, FromSource
    <3>4. \A s \in Switches : \A j \in 1..Len(commands[s]) : commands[s][j].id # n
      BY <1>1, <1>3 DEF Guided, FromSource
    <3>5. QED
      BY <1>5, <3>1, <3>2, <3>3, <3>4 DEF At
  <2>3. \A i \in 1..Len(frames') : i \in 1..Len(frames) \/ i = n
    BY <1>0, <1>1, <1>3
  <2>4. \A i \in 1..Len(frames') : \E kind, where, k : At(i, kind, where, k)'
    <3>1. SUFFICES ASSUME NEW i \in 1..Len(frames') PROVE \E kind, where, k : At(i, kind, where, k)'
      OBVIOUS
    <3>2. CASE i = n
      BY <2>2, <3>2
    <3>3. CASE i \in 1..Len(frames)
      BY <2>1, <3>3
    <3>4. QED
      BY <2>3, <3>2, <3>3
  <2>5. \A i \in 1..MaxFrames : i > Len(frames') => received'[i] = 0
    BY <1>1, <1>3, <1>5 DEF OneCopy
  <2>6. QED
    BY <2>4, <2>5 DEF OneCopy
<1>11. QED
  BY <1>7, <1>8, <1>9, <1>10 DEF Inv

\* A host takes a frame, which is then on its way no more.
LEMMA ReceiveStep ==
  ASSUME TreeShape, Inv, NEW f \in links, Receive(f)
  PROVE  Inv'
<1>1. /\ TypeOK /\ Tables /\ Guided /\ Learned /\ OneCopy
      /\ received \in [1..MaxFrames -> Nat] /\ f.id \in 1..Len(frames)
  BY DEF Inv, TypeOK
<1>2. PICK h \in TreeHosts : f.at = <<"h", h>>
  <2>1. Reached(frames[f.id], f) /\ f.at[1] = "h"
    BY <1>1 DEF Guided, Receive
  <2>2. QED
    BY <2>1 DEF Reached
<1>3. links' = links \ {f} /\ UNCHANGED <<frames, flows, mac_port, connected, packet_in, commands, downs>>
  BY DEF Receive, control_vars
<1>4. received' = IF h = frames[f.id][2] THEN [received EXCEPT ![f.id] = @ + 1] ELSE received
  BY <1>2 DEF Receive
<1>5. received' \in [1..MaxFrames -> Nat] /\ \A i \in 1..MaxFrames : i # f.id => received'[i] = received[i]
  <2>1. \A i \in 1..MaxFrames : received[i] \in Nat /\ received[i] + 1 \in Nat
    BY <1>1
  <2>2. QED
    BY <1>1, <1>4, <2>1
<1>6. TypeOK'
  BY <1>1, <1>3, <1>5 DEF TypeOK
<1>7. Tables' /\ Learned' /\ Guided'
  BY <1>1, <1>3 DEF Tables, Learned, Guided, FromSource, ToDestination
<1>8. f.id \in 1..MaxFrames
  BY <1>1, Sent
<1>9. ASSUME NEW i \in 1..Len(frames) PROVE \E kind, where, k : At(i, kind, where, k)'
  <2>1. PICK kind, where, k : At(i, kind, where, k)
    BY <1>1 DEF OneCopy
  <2>2. CASE i = f.id /\ h = frames[i][2]
    <3>1. OnWay(frames[i], f.at)
      BY <1>2, <2>2 DEF OnWay
    <3>2. kind = "link" /\ where = f
      BY <2>1, <2>2, <3>1 DEF At
    <3>3. received'[i] = 1
      BY <1>1, <1>4, <1>8, <2>1, <2>2, <3>2 DEF At
    <3>4. At(i, "received", 0, 0)'
      BY <1>3, <2>1, <3>2, <3>3 DEF At
    <3>5. QED
      BY <3>4
  <2>3. CASE ~(i = f.id /\ h = frames[i][2])
    <3>1. received'[i] = received[i]
      BY <1>1, <1>4, <1>5, <2>3, Sent
    <3>2. At(i, kind, where, k)'
      BY <1>3, <2>1, <3>1 DEF At
    <3>3. QED
      BY <3>2
  <2>4. QED
    BY <2>2, <2>3
<1>10. \A i \in 1..MaxFrames : i > Len(frames) => received'[i] = 0
  <2>1. \A i \in 1..MaxFrames : i > Len(frames) => i # f.id
    BY <1>1, Sent
  <2>2. QED
    BY <1>1, <1>5, <2>1 DEF OneCopy
<1>11. OneCopy'
  BY <1>3, <1>9, <1>10 DEF OneCopy
<1>12. QED
  BY <1>6, <1>7, <1>11 DEF Inv

\* The step of frame f at switch s, without an entry for it and with one.
LEMMA LookupStep ==
  ASSUME TreeShape, Inv, NEW f \in links, Lookup(f)
  PROVE  Inv'
<1>1. /\ TypeOK /\ Tables /\ Guided /\ Learned /\ OneCopy
      /\ f.id \in 1..Len(frames) /\ f.port \in AllPorts /\ packet_in \in [Switches -> Seq(Arrival)]
  BY DEF Inv, TypeOK
<1>2. PICK s \in Switches : f.at = <<"s", s>> /\ f.port = Towards(s, frames[f.id][1])
  <2>1. Reached(frames[f.id], f) /\ f.at[1] = "s"
    BY <1>1 DEF Guided, Lookup
  <2>2. QED
    BY <2>1 DEF Reached
<1>3. /\ UNCHANGED <<frames, flows, mac_port, connected, commands, received, downs>>
      /\ FromSource(s, f) /\ f.id \in 1..MaxFrames
  BY <1>1, <1>2, Sent DEF Lookup, FromSource
<1>4. OnWay(frames[f.id], f.at) <=> On(frames[f.id], s)
  BY <1>2, OnWayAt
<1>5. Tables' /\ Learned'
  BY <1>1, <1>3 DEF Tables, Learned
<1>6. CASE frames[f.id] \in DOMAIN flows[s]
  <2> DEFINE ports == {flows[s][frames[f.id]]}
  <2>1. links' = (links \ {f}) \cup Output(s, ports, f) /\ packet_in' = packet_in
    BY <1>2, <1>6 DEF Lookup
  <2>2. ports \in SUBSET TreePorts(s)
    BY <1>1, <1>6, Sent, TowardsPort DEF Learned
  <2>3. \A g \in Output(s, ports, f) :
          /\ g.id = f.id /\ g.id \in 1..Len(frames)
          /\ g.port \in AllPorts /\ Reached(frames[g.id], g)
          /\ OnWay(frames[g.id], g.at) => On(frames[g.id], s) /\ g = Onward(s, f.id)
    BY <1>1, <1>3, <2>2, Outputs
  <2> HIDE DEF ports
  <2>4. TypeOK'
    BY <1>1, <1>3, <2>1, <2>3 DEF TypeOK
  <2>5. Guided'
    BY <1>1, <1>3, <2>1, <2>3 DEF Guided, FromSource, ToDestination
  <2>6. ASSUME NEW i \in 1..Len(frames) PROVE \E kind, where, k : At(i, kind, where, k)'
    <3>1. PICK kind, where, k : At(i, kind, where, k)
      BY <1>1 DEF OneCopy
    <3>2. CASE i = f.id /\ OnWay(frames[i], f.at)
      <4>1. kind = "link" /\ where = f
        BY <3>1, <3>2 DEF At
      <4>2. PICK on : on = Onward(s, i)
        OBVIOUS
      <4>3. At(i, "link", on, 0)'
        BY <1>3, <2>1, <2>3, <3>1, <3>2, <4>1, <4>2 DEF At
      <4>4. QED
        BY <4>3
    <3>3. CASE ~(i = f.id /\ OnWay(frames[i], f.at))
      <4>1. At(i, kind, where, k)'
        BY <1>3, <1>4, <2>1, <2>3, <3>1, <3>3 DEF At
      <4>2. QED
        BY <4>1
    <3>4. QED
      BY <3>2, <3>3
  <2>7. OneCopy'
    BY <1>1, <1>3, <2>6 DEF OneCopy
  <2>8. QED
    BY <1>5, <2>4, <2>5, <2>7 DEF Inv
<1>7. CASE frames[f.id] \notin DOMAIN flows[s] /\ s \notin connected
  <2>1. links' = links \ {f} /\ packet_in' = packet_in
    BY <1>2, <1>7 DEF Lookup
  <2>2. TypeOK' /\ Guided'
    BY <1>1, <1>3, <2>1 DEF TypeOK, Guided, FromSource, ToDestination
  <2>3. ASSUME NEW i \in 1..Len(frames) PROVE \E kind, where, k : At(i, kind, where, k)'
    <3>1. PICK kind, where, k : At(i, kind, where, k)
      BY <1>1 DEF OneCopy
    <3>2. At(i, kind, where, k)'
      BY <1>3, <2>1, <3>1 DEF At
    <3>3. QED
      BY <3>2
  <2>4. OneCopy'
    BY <1>1, <1>3, <2>3 DEF OneCopy
  <2>5. QED
    BY <1>5, <2>2, <2>4 DEF Inv
<1>8. CASE frames[f.id] \notin DOMAIN flows[s] /\ s \in connected
  <2>1. PICK n, m : n = Len(packet_in[s]) + 1 /\ m = [id |-> f.id, port |-> f.port]
    OBVIOUS
  <2>2. links' = links \ {f} /\ packet_in' = [packet_in EXCEPT ![s] = Append(@, m)]
    BY <1>2, <1>8, <2>1 DEF Lookup
  <2>3. m \in Arrival /\ m.id = f.id /\ FromSource(s, m)
    BY <1>1, <1>3, <2>1 DEF Arrival, FromSource
  <2>4. packet_in[s] \in Seq(Arrival) /\ Len(packet_in[s]) \in Nat
    BY <1>1
  <2>5. /\ packet_in'[s] \in Seq(Arrival) /\ Len(packet_in'[s]) = n /\ packet_in'[s][n] = m
        /\ \A j \in 1..Len(packet_in[s]) : packet_in'[s][j] = packet_in[s][j]
    BY <1>1, <2>1, <2>2, <2>3, <2>4, AppendProperties
  <2>6. \A j \in 1..n : j \in 1..Len(packet_in[s]) \/ j = n
    BY <2>1, <2>4
  <2>7. packet_in' \in [Switches -> Seq(Arrival)] /\ \A t \in Switches : t # s => packet_in'[t] = packet_in[t]
    BY <1>1, <2>2, <2>5
  <2>8. TypeOK'
    BY <1>1, <1>3, <1>8, <2>2, <2>7 DEF TypeOK
  <2>9. Guided'
    <3>1. ASSUME NEW t \in Switches, NEW j \in 1..Len(packet_in'[t]) PROVE FromSource(t, packet_in'[t][j])
      <4>1. CASE t = s /\ j = n
        BY <2>3, <2>5, <4>1
      <4>2. CASE ~(t = s /\ j = n)
        <5>1. j \in 1..Len(packet_in[t]) /\ packet_in'[t][j] = packet_in[t][j]
          BY <2>5, <2>6, <2>7, <4>2
        <5>2. QED
          BY <1>1, <5>1 DEF Guided
      <4>3. QED
        BY <4>1, <4>2
    <3>2. \A t \in Switches : \A j \in 1..Len(packet_in'[t]) : FromSource(t, packet_in'[t][j])
      BY <3>1
    <3>3. QED
      BY <1>1, <1>3, <2>2, <3>2 DEF Guided, FromSource, ToDestination
  <2>10. ASSUME NEW i \in 1..Len(frames) PROVE \E kind, where, k : At(i, kind, where, k)'
    <3>1. PICK kind, where, k : At(i, kind, where, k)
      BY <1>1 DEF OneCopy
    <3>2. CASE i = f.id /\ OnWay(frames[i], f.at)
      <4>1. kind = "link" /\ where = f
        BY <3>1, <3>2 DEF At
      <4>2. ASSUME NEW t \in Switches, NEW j \in 1..Len(packet_in'[t]),
                   packet_in'[t][j].id = i, On(frames[i], t)
            PROVE  t = s /\ j = n
        <5>1. CASE t = s
          BY <2>5, <2>6, <3>1, <4>1, <4>2, <5>1 DEF At
        <5>2. CASE t # s
          BY <2>7, <3>1, <4>1, <4>2, <5>2 DEF At
        <5>3. QED
          BY <5>1, <5>2
      <4>3. At(i, "asked", s, n)'
        BY <1>3, <2>2, <3>1, <3>2, <4>1, <4>2 DEF At
      <4>4. QED
        BY <4>3
    <3>3. CASE ~(i = f.id /\ OnWay(frames[i], f.at))
      <4>1. ASSUME NEW t \in Switches, NEW j \in 1..Len(packet_in'[t]),
                   packet_in'[t][j].id = i, On(frames[i], t)
            PROVE  kind = "asked" /\ where = t /\ k = j
        <5>1. ~(t = s /\ j = n)
          BY <1>4, <2>3, <2>5, <3>3, <4>1
        <5>2. j \in 1..Len(packet_in[t]) /\ packet_in'[t][j] = packet_in[t][j]
          BY <2>5, <2>6, <2>7, <5>1
        <5>3. QED
          BY <3>1, <4>1, <5>2 DEF At
      <4>2. At(i, kind, where, k)'
        BY <1>3, <2>2, <3>1, <4>1 DEF At
      <4>3. QED
        BY <4>2
    <3>4. QED
      BY <3>2, <3>3
  <2>11. OneCopy'
    BY <1>1, <1>3, <2>10 DEF OneCopy
  <2>12. QED
    BY <1>5, <2>8, <2>9, <2>11 DEF Inv
<1>9. QED
  BY <1>6, <1>7, <1>8

\* A connection ends: its questions and answers end with it.
LEMMA DisconnectStep ==
  ASSUME TreeShape, Inv, NEW s \in Switches, Disconnect(s)
  PROVE  Inv'
<1>1. /\ TypeOK /\ Tables /\ Guided /\ Learned /\ OneCopy
      /\ packet_in \in [Switches -> Seq(Arrival)] /\ commands \in [Switches -> Seq(Answer)]
  BY DEF Inv, TypeOK, Tables
<1>2. /\ packet_in' = [packet_in EXCEPT ![s] = <<>>] /\ commands' = [commands EXCEPT ![s] = <<>>]
      /\ connected' = connected \ {s} /\ downs' = downs + 1 /\ downs < MaxDown
      /\ UNCHANGED <<frames, links, flows, mac_port, received>>
  BY DEF Disconnect
<1>3. /\ packet_in'[s] = <<>> /\ commands'[s] = <<>>
      /\ \A t \in Switches : t # s => packet_in'[t] = packet_in[t] /\ commands'[t] = commands[t]
      /\ packet_in' \in [Switches -> Seq(Arrival)] /\ commands' \in [Switches -> Seq(Answer)]
  <2>1. <<>> \in Seq(Arrival) /\ <<>> \in Seq(Answer)
    OBVIOUS
  <2>2. QED
    BY <1>1, <1>2, <2>1
<1>4. \A j : j \notin 1..Len(<<>>)
  OBVIOUS
<1>5. TypeOK'
  <2>1. downs' \in 0..MaxDown
    BY <1>1, <1>2 DEF TypeOK, TreeShape
  <2>2. QED
    BY <1>1, <1>2, <1>3, <2>1 DEF TypeOK
<1>6. Tables' /\ Learned'
  BY <1>1, <1>2, <1>3 DEF Tables, Learned
<1>7. ASSUME NEW t \in Switches
      PROVE  /\ \A j \in 1..Len(packet_in'[t]) : t # s /\ j \in 1..Len(packet_in[t]) /\ packet_in'[t][j] = packet_in[t][j]
             /\ \A j \in 1..Len(commands'[t]) : t # s /\ j \in 1..Len(commands[t]) /\ commands'[t][j] = commands[t][j]
  BY <1>3, <1>4
<1>8. Guided'
  BY <1>1, <1>2, <1>7 DEF Guided, FromSource, ToDestination
<1>9. ASSUME NEW i \in 1..Len(frames) PROVE \E kind, where, k : At(i, kind, where, k)'
  <2>1. PICK kind, where, k : At(i, kind, where, k)
    BY <1>1 DEF OneCopy
  <2>2. At(i, kind, where, k)'
    BY <1>2, <1>7, <2>1 DEF At
  <2>3. QED
    BY <2>2
<1>10. OneCopy'
  BY <1>1, <1>2, <1>9 DEF OneCopy
<1>11. QED
  BY <1>5, <1>6, <1>8, <1>10 DEF Inv

\* A connection starts with an empty table at both ends.
LEMMA ReconnectStep ==
  ASSUME TreeShape, Inv, NEW s \in Switches, Reconnect(s)
  PROVE  Inv'
<1>1. TypeOK /\ Tables /\ Guided /\ Learned /\ OneCopy
  BY DEF Inv
<1>2. /\ flows' = [flows EXCEPT ![s] = <<>>] /\ mac_port' = [mac_port EXCEPT ![s] = <<>>]
      /\ connected' = connected \cup {s}
      /\ UNCHANGED <<frames, links, packet_in, commands, received, downs>>
  BY DEF Reconnect
<1>3. /\ flows'[s] = <<>> /\ mac_port'[s] = <<>>
      /\ \A t \in Switches : t # s => flows'[t] = flows[t] /\ mac_port'[t] = mac_port[t]
      /\ DOMAIN flows' = Switches /\ DOMAIN mac_port' = Switches
  BY <1>1, <1>2 DEF Tables
<1>4. DOMAIN <<>> = {} /\ <<>> \in [{} -> AllPorts]
  OBVIOUS
<1>5. /\ \A t \in Switches : flows'[t] \in [DOMAIN flows'[t] -> AllPorts] /\ DOMAIN flows'[t] \subseteq Pairs
      /\ \A t \in Switches :
           mac_port'[t] \in [DOMAIN mac_port'[t] -> AllPorts] /\ DOMAIN mac_port'[t] \subseteq TreeHosts
  BY <1>1, <1>3, <1>4 DEF TypeOK
<1>6. TypeOK'
  BY <1>1, <1>2, <1>5 DEF TypeOK
<1>7. Tables' /\ Guided'
  <2>1. Tables'
    BY <1>1, <1>2, <1>3 DEF Tables
  <2>2. Guided'
    BY <1>1, <1>2 DEF Guided, FromSource, ToDestination
  <2>3. QED
    BY <2>1, <2>2
<1>8. Learned'
  BY <1>1, <1>3, <1>4 DEF Learned
<1>9. OneCopy'
  BY <1>1, <1>2 DEF OneCopy, At
<1>10. QED
  BY <1>6, <1>7, <1>8, <1>9 DEF Inv

\* What is left of a list.
LEMMA Rest ==
  ASSUME NEW S, NEW q \in Seq(S), q # <<>>
  PROVE  /\ Tail(q) \in Seq(S) /\ 1 \in 1..Len(q) /\ Head(q) = q[1]
         /\ \A j \in 1..Len(Tail(q)) : j \in Nat /\ j + 1 \in 1..Len(q) /\ j + 1 # 1 /\ Tail(q)[j] = q[j + 1]
<1>1. Tail(q) \in Seq(S) /\ Len(q) \in Nat \ {0} /\ Head(q) = q[1] /\ Len(Tail(q)) = Len(q) - 1
  OBVIOUS
<1>2. \A j \in 1..Len(Tail(q)) : Tail(q)[j] = q[j + 1]
  OBVIOUS
<1>3. \A j \in 1..(Len(q) - 1) : j \in Nat /\ j + 1 \in 1..Len(q) /\ j + 1 # 1
  BY <1>1
<1>4. QED
  BY <1>1, <1>2, <1>3

\* The switch does what the oldest answer says.
LEMMA ApplyStep ==
  ASSUME TreeShape, Inv, NEW s \in Switches, Apply(s)
  PROVE  Inv'
<1>1. /\ TypeOK /\ Tables /\ Guided /\ Learned /\ OneCopy
      /\ commands \in [Switches -> Seq(Answer)] /\ commands[s] \in Seq(Answer) /\ commands[s] # <<>>
  BY DEF Inv, Tables, Apply
<1>2. PICK c : c = Head(commands[s])
  OBVIOUS
<1>3. /\ c = commands[s][1] /\ 1 \in 1..Len(commands[s]) /\ Tail(commands[s]) \in Seq(Answer)
      /\ \A j \in 1..Len(Tail(commands[s])) :
           j \in Nat /\ j + 1 \in 1..Len(commands[s]) /\ j + 1 # 1 /\ Tail(commands[s])[j] = commands[s][j + 1]
  BY <1>1, <1>2, Rest
<1>4. c \in Answer /\ FromSource(s, c) /\ ToDestination(s, c) /\ c.id \in 1..Len(frames)
  <2>1. c \in Answer
    BY <1>1, <1>3
  <2>2. QED
    BY <1>1, <1>3, <2>1 DEF Guided, FromSource
<1>5. frames[c.id] \in Pairs /\ frames[c.id][2] \in TreeHosts
  BY <1>1, <1>4, Sent
<1>6. /\ commands' = [commands EXCEPT ![s] = Tail(@)]
      /\ UNCHANGED <<frames, mac_port, connected, packet_in, received, downs>>
  BY DEF Apply
<1>7. /\ commands'[s] = Tail(commands[s]) /\ commands' \in [Switches -> Seq(Answer)]
      /\ \A t \in Switches : t # s => commands'[t] = commands[t]
  BY <1>1, <1>3, <1>6
<1>8. PICK ports \in SUBSET TreePorts(s) :
        /\ links' = links \cup Output(s, ports, c)
        /\ \/ flows' = flows
           \/ flows' = [flows EXCEPT ![s] = With(@, frames[c.id], Towards(s, frames[c.id][2]))]
  <2>1. CASE c.out = "all"
    BY <1>2, <2>1 DEF Apply
  <2>2. CASE c.out # "all"
    <3>1. c.out = "entry"
      BY <1>4, <2>2 DEF Answer
    <3>2. c.to = Towards(s, frames[c.id][2]) /\ c.to \in TreePorts(s)
      BY <1>4, <1>5, <3>1, TowardsPort DEF ToDestination
    <3>3. links' = links \cup Output(s, {c.to}, c) /\ flows' = [flows EXCEPT ![s] = With(@, frames[c.id], c.to)]
      BY <1>2, <2>2 DEF Apply
    <3>4. QED
      BY <3>2, <3>3
  <2>3. QED
    BY <2>1, <2>2
<1>9. \A g \in Output(s, ports, c) :
        /\ g.id = c.id /\ g.id \in 1..Len(frames)
        /\ g.port \in AllPorts /\ Reached(frames[g.id], g)
        /\ OnWay(frames[g.id], g.at) => On(frames[g.id], s) /\ g = Onward(s, c.id)
  BY <1>1, <1>4, Outputs
<1>10. /\ DOMAIN flows' = Switches
       /\ \A t \in Switches :
            /\ flows'[t] \in [DOMAIN flows'[t] -> AllPorts] /\ DOMAIN flows'[t] \subseteq Pairs
            /\ \A p \in DOMAIN flows'[t] : flows'[t][p] = Towards(t, p[2])
  <2>1. /\ DOMAIN flows = Switches
        /\ \A t \in Switches :
             /\ flows[t] \in [DOMAIN flows[t] -> AllPorts] /\ DOMAIN flows[t] \subseteq Pairs
             /\ \A p \in DOMAIN flows[t] : flows[t][p] = Towards(t, p[2])
    BY <1>1 DEF TypeOK, Tables, Learned
  <2>2. CASE flows' = flows
    BY <2>1, <2>2
  <2>3. CASE flows' = [flows EXCEPT ![s] = With(@, frames[c.id], Towards(s, frames[c.id][2]))]
    <3> DEFINE f == With(flows[s], frames[c.id], Towards(s, frames[c.id][2]))
    <3>1. flows'[s] = f /\ DOMAIN flows' = Switches /\ \A t \in Switches : t # s => flows'[t] = flows[t]
      BY <2>1, <2>3
    <3>2. Towards(s, frames[c.id][2]) \in AllPorts
      BY <1>5, TowardsPort
    <3>3. /\ f \in [DOMAIN f -> AllPorts] /\ DOMAIN f \subseteq Pairs
          /\ f[frames[c.id]] = Towards(s, frames[c.id][2])
          /\ \A p \in DOMAIN f : p # frames[c.id] => p \in DOMAIN flows[s] /\ f[p] = flows[s][p]
      <4>1. flows[s] \in [DOMAIN flows[s] -> AllPorts] /\ DOMAIN flows[s] \subseteq Pairs
        BY <2>1
      <4>2. QED
        BY <1>5, <3>2, <4>1 DEF With
    <3> HIDE DEF f
    <3>4. \A p \in DOMAIN f : f[p] = Towards(s, p[2])
      BY <2>1, <3>3
    <3>5. QED
      BY <2>1, <3>1, <3>3, <3>4
  <2>4. QED
    BY <1>8, <2>2, <2>3
<1>11. Tables' /\ Learned'
  BY <1>1, <1>6, <1>7, <1>10 DEF Tables, Learned
<1>12. TypeOK'
  <2>1. \A t \in Switches : t \notin connected => commands'[t] = <<>>
    <3>1. s \in connected
      BY <1>1 DEF TypeOK
    <3>2. QED
      BY <1>1, <1>7, <3>1 DEF TypeOK
  <2>2. \A f \in links' : f.id \in 1..Len(frames) /\ f.port \in AllPorts
    BY <1>1, <1>8, <1>9 DEF TypeOK
  <2>3. QED
    BY <1>1, <1>6, <1>10, <2>1, <2>2 DEF TypeOK
<1>13. ASSUME NEW t \in Switches, NEW j \in 1..Len(commands'[t])
       PROVE  \/ t = s /\ j + 1 \in 1..Len(commands[s]) /\ j \in Nat /\ j + 1 # 1 /\ commands'[t][j] = commands[s][j + 1]
              \/ t # s /\ j \in 1..Len(commands[t]) /\ commands'[t][j] = commands[t][j]
  BY <1>3, <1>7
<1>14. Guided'
  <2>1. \A t \in Switches : \A j \in 1..Len(commands'[t]) :
          FromSource(t, commands'[t][j]) /\ ToDestination(t, commands'[t][j])
    BY <1>1, <1>13 DEF Guided
  <2>2. \A f \in links' : f.id \in 1..Len(frames) /\ Reached(frames[f.id], f)
    BY <1>1, <1>8, <1>9 DEF Guided
  <2>3. QED
    BY <1>1, <1>6, <2>1, <2>2 DEF Guided, FromSource, ToDestination
<1>15. ASSUME NEW i \in 1..Len(frames) PROVE \E kind, where, k : At(i, kind, where, k)'
  <2>1. PICK kind, where, k : At(i, kind, where, k)
    BY <1>1 DEF OneCopy
  <2>2. CASE i = c.id /\ On(frames[i], s)
    <3>1. kind = "told" /\ where = s /\ k = 1
      BY <1>3, <2>1, <2>2 DEF At
    <3>2. PICK on : on = Onward(s, i)
      OBVIOUS
    <3>3. \A t \in Switches : \A j \in 1..Len(commands'[t]) : ~(commands'[t][j].id = i /\ On(frames[i], t))
      BY <1>13, <2>1, <3>1 DEF At
    <3>4. \A f \in links' : f.id = i /\ OnWay(frames[i], f.at) => f = on
      BY <1>8, <1>9, <2>1, <2>2, <3>1, <3>2 DEF At
    <3>5. At(i, "link", on, 0)'
      BY <1>6, <2>1, <3>1, <3>3, <3>4 DEF At
    <3>6. QED
      BY <3>5
  <2>3. CASE ~(i = c.id /\ On(frames[i], s))
    <3>1. PICK l : l = IF kind = "told" /\ where = s THEN k - 1 ELSE k
      OBVIOUS
    <3>2. \A t \in Switches : \A j \in 1..Len(commands'[t]) :
            commands'[t][j].id = i /\ On(frames[i], t) => kind = "told" /\ where = t /\ l = j
      <4>1. SUFFICES ASSUME NEW t \in Switches, NEW j \in 1..Len(commands'[t]),
                            commands'[t][j].id = i, On(frames[i], t)
                     PROVE  kind = "told" /\ where = t /\ l = j
        OBVIOUS
      <4>2. CASE t = s
        <5>1. j + 1 \in 1..Len(commands[s]) /\ j \in Nat /\ commands[s][j + 1].id = i
          BY <1>13, <4>1, <4>2
        <5>2. kind = "told" /\ where = s /\ k = j + 1
          BY <2>1, <4>1, <4>2, <5>1 DEF At
        <5>3. QED
          BY <3>1, <4>2, <5>1, <5>2
      <4>3. CASE t # s
        BY <1>13, <2>1, <3>1, <4>1, <4>3 DEF At
      <4>4. QED
        BY <4>2, <4>3
    <3>3. \A f \in links' : f.id = i /\ OnWay(frames[i], f.at) => kind = "link" /\ where = f
      BY <1>8, <1>9, <2>1, <2>3 DEF At
    <3>4. \A t \in Switches : \A j \in 1..Len(packet_in[t]) :
            packet_in[t][j].id = i /\ On(frames[i], t) => kind = "asked" /\ where = t /\ l = j
      BY <2>1, <3>1 DEF At
    <3>5. At(i, kind, where, l)'
      BY <1>6, <2>1, <3>2, <3>3, <3>4 DEF At
    <3>6. QED
      BY <3>5
  <2>4. QED
    BY <2>2, <2>3
<1>16. OneCopy'
  BY <1>1, <1>6, <1>15 DEF OneCopy
<1>17. QED
  BY <1>11, <1>12, <1>14, <1>16 DEF Inv

\* The controller learns a source and answers: an entry, or a flood.
LEMMA HandlePacketInStep ==
  ASSUME TreeShape, Inv, NEW s \in Switches, HandlePacketIn(s)
  PROVE  Inv'
<1>1. /\ TypeOK /\ Tables /\ Guided /\ Learned /\ OneCopy
      /\ packet_in \in [Switches -> Seq(Arrival)] /\ packet_in[s] \in Seq(Arrival) /\ packet_in[s] # <<>>
      /\ commands \in [Switches -> Seq(Answer)] /\ commands[s] \in Seq(Answer) /\ Len(commands[s]) \in Nat
  BY DEF Inv, TypeOK, Tables, HandlePacketIn
<1>2. PICK f : f = Head(packet_in[s])
  OBVIOUS
<1>3. /\ f = packet_in[s][1] /\ 1 \in 1..Len(packet_in[s]) /\ Tail(packet_in[s]) \in Seq(Arrival)
      /\ \A j \in 1..Len(Tail(packet_in[s])) :
           j \in Nat /\ j + 1 \in 1..Len(packet_in[s]) /\ j + 1 # 1 /\ Tail(packet_in[s])[j] = packet_in[s][j + 1]
  BY <1>1, <1>2, Rest
<1>4. f \in Arrival /\ FromSource(s, f) /\ f.id \in 1..Len(frames) /\ f.id \in 1..MaxFrames
  <2>1. f \in Arrival
    BY <1>1, <1>3
  <2>2. FromSource(s, f)
    BY <1>1, <1>3 DEF Guided
  <2>3. QED
    BY <2>1, <2>2 DEF FromSource, Arrival
<1>5. /\ frames[f.id][1] \in TreeHosts /\ frames[f.id][2] \in TreeHosts
      /\ f.port = Towards(s, frames[f.id][1]) /\ f.port \in AllPorts
  BY <1>1, <1>4, Sent DEF FromSource, Arrival
<1>6. PICK known : known = With(mac_port[s], frames[f.id][1], f.port)
  OBVIOUS
<1>7. /\ known \in [DOMAIN known -> AllPorts] /\ DOMAIN known \subseteq TreeHosts
      /\ \A h \in DOMAIN known : known[h] = Towards(s, h)
  <2>1. mac_port[s] \in [DOMAIN mac_port[s] -> AllPorts] /\ DOMAIN mac_port[s] \subseteq TreeHosts
    BY <1>1 DEF TypeOK
  <2>2. \A h \in DOMAIN mac_port[s] : mac_port[s][h] = Towards(s, h)
    BY <1>1 DEF Learned
  <2>3. /\ known \in [DOMAIN known -> AllPorts] /\ DOMAIN known \subseteq TreeHosts
        /\ known[frames[f.id][1]] = f.port
        /\ \A z \in DOMAIN known : z # frames[f.id][1] => z \in DOMAIN mac_port[s] /\ known[z] = mac_port[s][z]
    BY <1>5, <1>6, <2>1 DEF With
  <2>4. QED
    BY <1>5, <2>2, <2>3
<1>8. PICK n, c :
        /\ n = Len(commands[s]) + 1
        /\ c = IF frames[f.id][2] \notin DOMAIN known
                 THEN [out |-> "all", id |-> f.id, port |-> f.port]
                 ELSE [out |-> "entry", id |-> f.id, port |-> f.port, to |-> known[frames[f.id][2]]]
  OBVIOUS
<1>9. /\ mac_port' = [mac_port EXCEPT ![s] = known] /\ commands' = [commands EXCEPT ![s] = Append(@, c)]
      /\ packet_in' = [packet_in EXCEPT ![s] = Tail(@)]
      /\ UNCHANGED <<frames, links, flows, connected, received, downs>>
  BY <1>2, <1>6, <1>8 DEF HandlePacketIn
<1>10. c \in Answer /\ c.id = f.id /\ FromSource(s, c) /\ ToDestination(s, c)
  <2>1. CASE frames[f.id][2] \notin DOMAIN known
    <3>1. c = [out |-> "all", id |-> f.id, port |-> f.port]
      BY <1>8, <2>1
    <3>2. QED
      BY <1>4, <1>5, <3>1 DEF Answer, FromSource, ToDestination
  <2>2. CASE frames[f.id][2] \in DOMAIN known
    <3>1. c = [out |-> "entry", id |-> f.id, port |-> f.port, to |-> known[frames[f.id][2]]]
      BY <1>8, <2>2
    <3>2. known[frames[f.id][2]] \in AllPorts /\ known[frames[f.id][2]] = Towards(s, frames[f.id][2])
      BY <1>7, <2>2
    <3>3. QED
      BY <1>4, <1>5, <3>1, <3>2 DEF Answer, FromSource, ToDestination
  <2>3. QED
    BY <2>1, <2>2
<1>11. /\ packet_in'[s] = Tail(packet_in[s]) /\ packet_in' \in [Switches -> Seq(Arrival)]
       /\ \A t \in Switches : t # s => packet_in'[t] = packet_in[t]
  BY <1>1, <1>3, <1>9
<1>12. /\ commands'[s] \in Seq(Answer) /\ Len(commands'[s]) = n /\ commands'[s][n] = c
       /\ \A j \in 1..Len(commands[s]) : commands'[s][j] = commands[s][j]
       /\ \A t \in Switches : t # s => commands'[t] = commands[t]
       /\ commands' \in [Switches -> Seq(Answer)]
  <2>1. commands'[s] = Append(commands[s], c) /\ \A t \in Switches : t # s => commands'[t] = commands[t]
    BY <1>1, <1>9
  <2>2. /\ commands'[s] \in Seq(Answer) /\ Len(commands'[s]) = n /\ commands'[s][n] = c
        /\ \A j \in 1..Len(commands[s]) : commands'[s][j] = commands[s][j]
    BY <1>1, <1>8, <1>10, <2>1, AppendProperties
  <2>3. commands' \in [Switches -> Seq(Answer)]
    BY <1>1, <1>9, <2>1, <2>2
  <2>4. QED
    BY <2>1, <2>2, <2>3
<1>13. \A j \in 1..n : j \in 1..Len(commands[s]) \/ j = n
  BY <1>1, <1>8
<1>14. /\ DOMAIN mac_port' = Switches
       /\ \A t \in Switches :
            /\ mac_port'[t] \in [DOMAIN mac_port'[t] -> AllPorts] /\ DOMAIN mac_port'[t] \subseteq TreeHosts
            /\ \A h \in DOMAIN mac_port'[t] : mac_port'[t][h] = Towards(t, h)
  <2>1. /\ DOMAIN mac_port = Switches
        /\ \A t \in Switches :
             /\ mac_port[t] \in [DOMAIN mac_port[t] -> AllPorts] /\ DOMAIN mac_port[t] \subseteq TreeHosts
             /\ \A h \in DOMAIN mac_port[t] : mac_port[t][h] = Towards(t, h)
    BY <1>1 DEF TypeOK, Tables, Learned
  <2>2. mac_port'[s] = known /\ DOMAIN mac_port' = Switches /\ \A t \in Switches : t # s => mac_port'[t] = mac_port[t]
    BY <1>9, <2>1
  <2>3. QED
    BY <1>7, <2>1, <2>2
<1>15. Tables' /\ Learned'
  BY <1>1, <1>9, <1>12, <1>14 DEF Tables, Learned
<1>16. TypeOK'
  <2>1. s \in connected
    BY <1>1 DEF TypeOK
  <2>2. \A t \in Switches : t \notin connected => packet_in'[t] = <<>> /\ commands'[t] = <<>>
    BY <1>1, <1>11, <1>12, <2>1 DEF TypeOK
  <2>3. QED
    BY <1>1, <1>9, <1>11, <1>14, <2>2 DEF TypeOK
<1>17. ASSUME NEW t \in Switches, NEW j \in 1..Len(packet_in'[t])
       PROVE  \/ /\ t = s /\ j + 1 \in 1..Len(packet_in[s]) /\ j \in Nat /\ j + 1 # 1
                 /\ packet_in'[t][j] = packet_in[s][j + 1]
              \/ t # s /\ j \in 1..Len(packet_in[t]) /\ packet_in'[t][j] = packet_in[t][j]
  BY <1>3, <1>11
<1>18. ASSUME NEW t \in Switches, NEW j \in 1..Len(commands'[t])
       PROVE  \/ t = s /\ j = n /\ commands'[t][j] = c
              \/ j \in 1..Len(commands[t]) /\ commands'[t][j] = commands[t][j]
  BY <1>12, <1>13
<1>19. Guided'
  <2>1. \A t \in Switches : \A j \in 1..Len(packet_in'[t]) : FromSource(t, packet_in'[t][j])
    BY <1>1, <1>17 DEF Guided
  <2>2. \A t \in Switches : \A j \in 1..Len(commands'[t]) :
          FromSource(t, commands'[t][j]) /\ ToDestination(t, commands'[t][j])
    BY <1>1, <1>10, <1>18 DEF Guided
  <2>3. QED
    BY <1>1, <1>9, <2>1, <2>2, SMTT(20) DEF Guided, FromSource, ToDestination
<1>20. ASSUME NEW i \in 1..Len(frames) PROVE \E kind, where, k : At(i, kind, where, k)'
  <2>1. PICK kind, where, k : At(i, kind, where, k)
    BY <1>1 DEF OneCopy
  <2>2. CASE i = f.id /\ On(frames[i], s)
    <3>1. kind = "asked" /\ where = s /\ k = 1
      BY <1>3, <2>1, <2>2 DEF At
    <3>2. \A t \in Switches : \A j \in 1..Len(packet_in'[t]) : ~(packet_in'[t][j].id = i /\ On(frames[i], t))
      <4>1. SUFFICES ASSUME NEW t \in Switches, NEW j \in 1..Len(packet_in'[t]),
                            packet_in'[t][j].id = i, On(frames[i], t)
                     PROVE  FALSE
        OBVIOUS
      <4>2. CASE t = s
        <5>1. j + 1 \in 1..Len(packet_in[s]) /\ j + 1 # 1 /\ packet_in[s][j + 1].id = i
          BY <1>17, <4>1, <4>2
        <5>2. k = j + 1
          BY <2>1, <4>1, <4>2, <5>1 DEF At
        <5>3. QED
          BY <3>1, <5>1, <5>2
      <4>3. CASE t # s
        <5>1. j \in 1..Len(packet_in[t]) /\ packet_in[t][j].id = i
          BY <1>17, <4>1, <4>3
        <5>2. where = t
          BY <2>1, <4>1, <5>1 DEF At
        <5>3. QED
          BY <3>1, <4>3, <5>2
      <4>4. QED
        BY <4>2, <4>3
    <3>3. \A t \in Switches : \A j \in 1..Len(commands'[t]) :
            commands'[t][j].id = i /\ On(frames[i], t) => t = s /\ j = n
      BY <1>18, <2>1, <3>1 DEF At
    <3>4. At(i, "told", s, n)'
      BY <1>9, <2>1, <3>1, <3>2, <3>3 DEF At
    <3>5. QED
      BY <3>4
  <2>3. CASE ~(i = f.id /\ On(frames[i], s))
    <3>1. PICK l : l = IF kind = "asked" /\ where = s THEN k - 1 ELSE k
      OBVIOUS
    <3>2. \A t \in Switches : \A j \in 1..Len(packet_in'[t]) :
            packet_in'[t][j].id = i /\ On(frames[i], t) => kind = "asked" /\ where = t /\ l = j
      <4>1. SUFFICES ASSUME NEW t \in Switches, NEW j \in 1..Len(packet_in'[t]),
                            packet_in'[t][j].id = i, On(frames[i], t)
                     PROVE  kind = "asked" /\ where = t /\ l = j
        OBVIOUS
      <4>2. CASE t = s
        <5>1. j + 1 \in 1..Len(packet_in[s]) /\ j \in Nat /\ packet_in[s][j + 1].id = i
          BY <1>17, <4>1, <4>2
        <5>2. kind = "asked" /\ where = s /\ k = j + 1
          BY <2>1, <4>1, <4>2, <5>1 DEF At
        <5>3. QED
          BY <3>1, <4>2, <5>1, <5>2
      <4>3. CASE t # s
        BY <1>17, <2>1, <3>1, <4>1, <4>3 DEF At
      <4>4. QED
        BY <4>2, <4>3
    <3>3. \A t \in Switches : \A j \in 1..Len(commands'[t]) :
            commands'[t][j].id = i /\ On(frames[i], t) => kind = "told" /\ where = t /\ l = j
      BY <1>10, <1>18, <2>1, <2>3, <3>1 DEF At
    <3>4. At(i, kind, where, l)'
      BY <1>9, <2>1, <3>2, <3>3 DEF At
    <3>5. QED
      BY <3>4
  <2>4. QED
    BY <2>2, <2>3
<1>21. OneCopy'
  BY <1>1, <1>9, <1>20 DEF OneCopy
<1>22. QED
  BY <1>15, <1>16, <1>19, <1>21 DEF Inv

-----------------------------------------------------------------------------
\* The initial states.
LEMMA InitInv ==
  ASSUME TreeShape, TreeInit
  PROVE  Inv
<1>1. /\ frames = <<>> /\ links = {} /\ Len(frames) = 0 /\ 1..Len(frames) = {}
      /\ flows = [s \in Switches |-> <<>>] /\ mac_port = [s \in Switches |-> <<>>]
      /\ connected = Switches /\ downs = 0
      /\ packet_in = [s \in Switches |-> <<>>] /\ commands = [s \in Switches |-> <<>>]
      /\ received = [i \in 1..MaxFrames |-> 0] /\ MaxFrames \in Nat /\ MaxDown \in Nat
  BY DEF TreeInit, TreeShape
<1>2. DOMAIN <<>> = {} /\ <<>> \in [{} -> AllPorts] /\ 1..Len(<<>>) = {}
  OBVIOUS
<1>3. <<>> \in Seq(Pairs) /\ <<>> \in Seq(Arrival) /\ <<>> \in Seq(Answer)
  OBVIOUS
<1>4. TypeOK /\ Tables
  BY <1>1, <1>2, <1>3 DEF TypeOK, Tables
<1>5. Guided /\ Learned /\ OneCopy
  BY <1>1, <1>2 DEF Guided, Learned, OneCopy
<1>6. QED
  BY <1>4, <1>5 DEF Inv

\* Every switch knows and every entry says where the hosts are, and no host
\* gets a frame twice, in every tree: what tree_controller.py installs.
THEOREM TreeLearns ==
  ASSUME TreeShape
  PROVE  TreeSpec => []EntriesLead
<1>1. TreeInit => Inv
  BY InitInv
<1>2. Inv /\ [TreeNext]_treeVars => Inv'
  <2>1. SUFFICES ASSUME Inv, [TreeNext]_treeVars PROVE Inv'
    OBVIOUS
  <2>2. CASE UNCHANGED treeVars
    BY <2>1, <2>2 DEF treeVars, control_vars, Inv, TypeOK, Tables, Guided, Learned, OneCopy, At,
                      FromSource, ToDestination
  <2>3. CASE TreeNext
    <3>1. CASE Progress
      BY <2>1, <3>1, ReceiveStep, LookupStep, ApplyStep, HandlePacketInStep DEF Progress
    <3>2. CASE \E p \in Pairs : Send(p[1], p[2])
      BY <2>1, <3>2, SendStep
    <3>3. CASE \E s \in Switches : Disconnect(s) \/ Reconnect(s)
      BY <2>1, <3>3, DisconnectStep, ReconnectStep
    <3>4. QED
      BY <2>3, <3>1, <3>2, <3>3 DEF TreeNext
  <2>4. QED
    BY <2>1, <2>2, <2>3
<1>3. Inv => EntriesLead
  <2>1. SUFFICES ASSUME Inv PROVE EntriesLead
    OBVIOUS
  <2>2. TypeOK /\ Learned /\ OneCopy /\ Len(frames) \in Nat
    BY <2>1 DEF Inv, TypeOK
  <2>3. ASSUME NEW i \in 1..MaxFrames PROVE received[i] <= 1
    <3>1. CASE i > Len(frames)
      BY <2>2, <3>1 DEF OneCopy
    <3>2. CASE i \in 1..Len(frames)
      BY <2>2, <3>2 DEF OneCopy, At
    <3>3. QED
      BY <2>2, <3>1, <3>2
  <2>4. QED
    BY <2>2, <2>3 DEF EntriesLead, Learned
<1>4. QED
  BY <1>1, <1>2, <1>3, PTL DEF TreeSpec
=============================================================================
