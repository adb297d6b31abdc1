------------------------ MODULE OFConnectionsProofs ------------------------
(***************************************************************************)
(* What OFConnections guarantees for every number of switches, connections *)
(* and ports, and every order of messages, breaks and reconnections: what  *)
(* the nexus knows of connections and ports is true, and its listeners see *)
(* what SwitchSessions promises of each connection.                        *)
(***************************************************************************)
EXTENDS OFConnections, SequenceTheorems, TLAPS

-----------------------------------------------------------------------------
\* The inductive invariant.

\* A connection that is read, or whose other end is there, is open; and a
\* connection is registered for its own switch, once that has said who it is.
Places ==
  /\ reading # NoConn => reading \in Open
  /\ alive \subseteq Open
  /\ dpid_known \subseteq barrier
  /\ \A d \in Dpids : connections[d] # NoConn =>
       connections[d] \in barrier /\ SwitchOf[connections[d]] = d

\* What is on its way from a switch: its hello comes first, and the answer to
\* each request comes once, before the next request is sent.
Pending(c, i, type) == i \in DOMAIN Coming(c) /\ Coming(c)[i].type = type
Shaking(c) ==
  /\ request[c] # "none" => c \in asked
  /\ request[c] = "features" => c \notin barrier
  /\ \A i \in DOMAIN Coming(c) :
       /\ Pending(c, i, "hello") => i = 1 /\ c \notin asked
       /\ Pending(c, i, "features") =>
            /\ c \in asked \ barrier /\ request[c] # "features"
            /\ \A j \in DOMAIN Coming(c) : Pending(c, j, "features") => j = i
Handshake == \A c \in Conns : Shaking(c)

\* The ports after the messages from the n-th on.
AfterFrom(messages, n, known) ==
  {p \in Ports :
     LET about == {i \in Changes(messages, p) : i > n}
     IN  \/ p \in known /\ about = {}
         \/ \E i \in about : messages[i].type = "port_added" /\ \A j \in about : j <= i}

\* The messages on their way lead from the ports a connection is known to have
\* (or the answer with its first ports, from what it says) to those of its switch.
PortsLeadOn(c) ==
  /\ c \in barrier /\ c \notin missed => PortsCurrent(c)
  /\ \A i \in DOMAIN Coming(c) : Pending(c, i, "features") =>
       AfterFrom(Coming(c), i, Coming(c)[i].ports) = ports[SwitchOf[c]]
PortsFollow == \A c \in alive : PortsLeadOn(c)

KnownInv == ClosedIsForgotten /\ Places /\ Handshake /\ PortsFollow

\* ConnectionDown is raised when a connection is closed, and not before; one
\* whose switch has been forgotten again is broken.
Ends == raised \cap Open = {} /\ barrier \ dpid_known \subseteq disconnected
SessionInv == KnownInv /\ Ends

-----------------------------------------------------------------------------
\* The messages on their way.

\* What is on its way is a sequence of messages.
LEMMA ComingType ==
  ASSUME TypeOK, NEW c \in Conns
  PROVE  Coming(c) \in Seq(Message)
BY ConcatProperties DEF TypeOK, Coming

\* Reading moves messages, and changes none.
LEMMA ReadKeeps ==
  ASSUME TypeOK, NEW c \in Conns, Read(c), NEW e \in Conns
  PROVE  Coming(e)' = Coming(e)
<1>1. CASE e # c
  BY <1>1 DEF Coming, Read, TypeOK
<1>2. CASE e = c
  <2>1. PICK n \in 1..Len(wire[c]) :
          /\ buf' = SubSeq(wire[c], 1, n)
          /\ wire' = [wire EXCEPT ![c] = SubSeq(wire[c], n + 1, Len(wire[c]))]
    BY DEF Read
  <2>2. wire[c] \in Seq(Message)
    BY DEF TypeOK
  <2>3. wire'[c] = SubSeq(wire[c], n + 1, Len(wire[c]))
    BY <2>1 DEF TypeOK
  <2>4. SubSeq(wire[c], 1, n) \o SubSeq(wire[c], n + 1, Len(wire[c])) = wire[c]
    <3>1. Len(wire[c]) \in Nat /\ 1 \in 1..Len(wire[c]) + 1 /\ n \in 1 - 1..Len(wire[c])
            /\ Len(wire[c]) \in n..Len(wire[c])
      BY <2>2
    <3>2. QED
      BY <2>2, <3>1, ConcatAdjacentSubSeq, SubSeqFull
  <2>5. reading = NoConn /\ reading' = c /\ c # NoConn
    BY ConnShape DEF Read
  <2>6. QED
    BY <1>2, <2>1, <2>3, <2>4, <2>5 DEF Coming
<1>3. QED
  BY <1>1, <1>2

\* The message that is handled is the first.
LEMMA HandleTakes ==
  ASSUME TypeOK, NEW c \in Conns, NEW types, Handles(c, types)
  PROVE  /\ Coming(c) # <<>> /\ Coming(c)[1] = Head(buf) /\ Coming(c)[1].type \in types
         /\ Coming(c)' = Tail(Coming(c))
         /\ \A e \in Conns \ {c} : Coming(e)' = Coming(e)
<1> c # NoConn /\ reading = c /\ buf # <<>> /\ buf \in Seq(Message) /\ wire[c] \in Seq(Message)
  BY ConnShape DEF Handles, TypeOK
<1>1. Coming(c) = buf \o wire[c]
  BY DEF Coming
<1>2. Coming(c) # <<>> /\ Coming(c)[1] = Head(buf)
  BY <1>1
<1>3. Tail(Coming(c)) = Tail(buf) \o wire[c]
  BY <1>1
<1>4. ASSUME Len(buf) = 1 PROVE Coming(c)' = Tail(Coming(c))
  <2>1. Tail(buf) \in Seq(Message) /\ Len(Tail(buf)) = 0
    BY <1>4, HeadTailProperties
  <2>2. Tail(buf) = <<>>
    BY <2>1, EmptySeq
  <2>3. Tail(buf) \o wire[c] = wire[c]
    BY <2>2, ConcatEmptySeq
  <2>4. reading' = NoConn /\ wire' = wire
    BY <1>4 DEF Handles
  <2>5. Coming(c)' = wire[c]
    BY <2>4 DEF Coming
  <2>6. QED
    BY <1>3, <2>3, <2>5
<1>5. ASSUME Len(buf) # 1 PROVE Coming(c)' = Tail(Coming(c))
  BY <1>3, <1>5 DEF Handles, Coming
<1>6. ASSUME NEW e \in Conns \ {c} PROVE Coming(e)' = Coming(e)
  BY <1>6, ConnShape DEF Handles, Coming
<1>7. Coming(c)[1].type \in types
  BY <1>2 DEF Handles
<1>8. QED
  BY <1>2, <1>4, <1>5, <1>6, <1>7

\* A message that is sent is the last.
LEMMA SendAppends ==
  ASSUME TypeOK, NEW e \in Conns, NEW m \in Message, wire'[e] = Append(wire[e], m),
         UNCHANGED <<reading, buf>>
  PROVE  Coming(e)' = Append(Coming(e), m)
<1> buf \in Seq(Message) /\ wire[e] \in Seq(Message)
  BY DEF TypeOK
<1>1. buf \o Append(wire[e], m) = Append(buf \o wire[e], m)
  OBVIOUS
<1>2. QED
  BY <1>1 DEF Coming

-----------------------------------------------------------------------------
\* The ports after messages, one message at a time.

Tells(m, p) == m.type \in {"port_added", "port_deleted"} /\ p \in m.ports
Step(known, m) ==
  IF m.type = "port_added" THEN known \cup m.ports
  ELSE IF m.type = "port_deleted" THEN known \ m.ports ELSE known

\* The ports after all the messages are those after the messages from the first on.
LEMMA AfterAll ==
  ASSUME NEW s \in Seq(Message), NEW known
  PROVE  After(s, known) = AfterFrom(s, 0, known)
<1>1. ASSUME NEW p PROVE {i \in Changes(s, p) : i > 0} = Changes(s, p)
  BY DEF Changes
<1>2. QED
  BY <1>1 DEF After, AfterFrom

\* A message that is added is the last word on its ports.
LEMMA AfterAppend ==
  ASSUME NEW s \in Seq(Message), NEW m \in Message, NEW n \in 0..Len(s),
         NEW known \in SUBSET Ports
  PROVE  AfterFrom(Append(s, m), n, known) = Step(AfterFrom(s, n, known), m)
<1> DEFINE t == Append(s, m)
           about(p) == {i \in Changes(s, p) : i > n}
           then(p) == {i \in Changes(t, p) : i > n}
           last == Len(s) + 1
<1>1. /\ t \in Seq(Message) /\ DOMAIN t = 1..last /\ DOMAIN s = 1..Len(s) /\ Len(s) \in Nat
      /\ t[last] = m /\ \A i \in 1..Len(s) : t[i] = s[i]
  OBVIOUS
<1>2. m.ports \subseteq Ports
  BY DEF Message
<1>3. ASSUME NEW p \in Ports
      PROVE  /\ about(p) \subseteq 1..Len(s)
             /\ then(p) = about(p) \cup (IF Tells(m, p) THEN {last} ELSE {})
             /\ \A i \in about(p) : t[i] = s[i]
  BY <1>1 DEF Changes, Tells
<1>4. ASSUME NEW p \in Ports
      PROVE  p \in AfterFrom(t, n, known) <=> p \in Step(AfterFrom(s, n, known), m)
  <2> DEFINE Holds(set, q) ==
        \/ p \in known /\ set = {}
        \/ \E i \in set : q[i].type = "port_added" /\ \A j \in set : j <= i
  <2>1. /\ p \in AfterFrom(t, n, known) <=> Holds(then(p), t)
        /\ p \in AfterFrom(s, n, known) <=> Holds(about(p), s)
    BY DEF AfterFrom
  <2>2. CASE ~Tells(m, p)
    <3>1. then(p) = about(p)
      BY <1>3, <2>2
    <3>2. Holds(then(p), t) <=> Holds(about(p), s)
      BY <1>3, <3>1
    <3>3. QED
      BY <2>1, <2>2, <3>2 DEF Step, Tells
  <2>3. CASE Tells(m, p)
    <3>1. last \in then(p) /\ \A i \in then(p) : i \in Nat /\ i <= last
      BY <1>1, <1>3, <2>3
    <3>2. Holds(then(p), t) <=> t[last].type = "port_added"
      <4>1. \A i \in then(p) : (\A j \in then(p) : j <= i) => i = last
        BY <1>1, <3>1
      <4>2. QED
        BY <3>1, <4>1
    <3>3. QED
      BY <1>1, <2>1, <2>3, <3>2 DEF Step, Tells
  <2>4. QED
    BY <2>2, <2>3
<1>5. AfterFrom(t, n, known) \subseteq Ports /\ Step(AfterFrom(s, n, known), m) \subseteq Ports
  BY <1>2 DEF AfterFrom, Step
<1>6. QED
  BY <1>4, <1>5

\* Messages after the first are the same when the first is gone.
LEMMA AfterTail ==
  ASSUME NEW s \in Seq(Message), s # <<>>, NEW n \in 1..Len(s), NEW known
  PROVE  AfterFrom(Tail(s), n - 1, known) = AfterFrom(s, n, known)
<1> DEFINE t == Tail(s)
           about(p) == {i \in Changes(s, p) : i > n}
           then(p) == {i \in Changes(t, p) : i > n - 1}
<1>1. /\ DOMAIN t = 1..(Len(s) - 1) /\ DOMAIN s = 1..Len(s) /\ Len(s) \in Nat \ {0}
      /\ \A i \in 1..(Len(s) - 1) : t[i] = s[i + 1]
  OBVIOUS
<1>2. ASSUME NEW p \in Ports
      PROVE  /\ \A i \in then(p) : i \in Nat /\ i + 1 \in about(p) /\ t[i] = s[i + 1]
             /\ \A i \in about(p) : i \in Nat \ {0} /\ i - 1 \in then(p) /\ t[i - 1] = s[i]
  BY <1>1 DEF Changes
<1>3. ASSUME NEW p \in Ports
      PROVE  p \in AfterFrom(t, n - 1, known) <=> p \in AfterFrom(s, n, known)
  <2>1. then(p) = {} <=> about(p) = {}
    BY <1>2
  <2>2. ASSUME NEW i \in then(p), t[i].type = "port_added", \A j \in then(p) : j <= i
        PROVE  i + 1 \in about(p) /\ s[i + 1].type = "port_added" /\ \A j \in about(p) : j <= i + 1
    <3>1. i \in Nat /\ i + 1 \in about(p) /\ s[i + 1].type = "port_added"
      BY <1>2, <2>2
    <3>2. ASSUME NEW j \in about(p) PROVE j <= i + 1
      <4>1. j \in Nat /\ j - 1 <= i
        BY <1>2, <2>2
      <4>2. QED
        BY <3>1, <4>1
    <3>3. QED
      BY <3>1, <3>2
  <2>3. ASSUME NEW i \in about(p), s[i].type = "port_added", \A j \in about(p) : j <= i
        PROVE  i - 1 \in then(p) /\ t[i - 1].type = "port_added" /\ \A j \in then(p) : j <= i - 1
    <3>1. i \in Nat /\ i - 1 \in then(p) /\ t[i - 1].type = "port_added"
      BY <1>2, <2>3
    <3>2. ASSUME NEW j \in then(p) PROVE j <= i - 1
      <4>1. j \in Nat /\ j + 1 <= i
        BY <1>2, <2>3
      <4>2. QED
        BY <3>1, <4>1
    <3>3. QED
      BY <3>1, <3>2
  <2>4. QED
    BY <2>1, <2>2, <2>3 DEF AfterFrom
<1>4. QED
  BY <1>3 DEF AfterFrom

\* What the first says is overruled by what follows, and stays otherwise.
LEMMA AfterHead ==
  ASSUME NEW s \in Seq(Message), s # <<>>, NEW known \in SUBSET Ports
  PROVE  AfterFrom(s, 0, known) = AfterFrom(s, 1, Step(known, s[1]))
<1> DEFINE all(p) == {i \in Changes(s, p) : i > 0}
           rest(p) == {i \in Changes(s, p) : i > 1}
<1>1. DOMAIN s = 1..Len(s) /\ Len(s) \in Nat \ {0} /\ s[1] \in Message
  OBVIOUS
<1>2. ASSUME NEW p \in Ports
      PROVE  /\ all(p) = rest(p) \cup (IF Tells(s[1], p) THEN {1} ELSE {})
             /\ \A i \in rest(p) : i \in Nat /\ i > 1
  BY <1>1 DEF Changes, Tells
<1>3. ASSUME NEW p \in Ports
      PROVE  p \in AfterFrom(s, 0, known) <=> p \in AfterFrom(s, 1, Step(known, s[1]))
  <2> DEFINE Last(set) == \E i \in set : s[i].type = "port_added" /\ \A j \in set : j <= i
  <2>1. /\ p \in AfterFrom(s, 0, known) <=> (p \in known /\ all(p) = {}) \/ Last(all(p))
        /\ p \in AfterFrom(s, 1, Step(known, s[1])) <=>
             (p \in Step(known, s[1]) /\ rest(p) = {}) \/ Last(rest(p))
    BY DEF AfterFrom
  <2>2. CASE rest(p) # {}
    <3>1. all(p) # {} /\ (Last(all(p)) <=> Last(rest(p)))
      BY <1>2, <2>2
    <3>2. QED
      BY <2>1, <2>2, <3>1
  <2>3. CASE rest(p) = {} /\ Tells(s[1], p)
    <3>1. all(p) = {1}
      BY <1>2, <2>3
    <3>2. Last(all(p)) <=> s[1].type = "port_added"
      BY <3>1
    <3>3. QED
      BY <2>1, <2>3, <3>1, <3>2 DEF Step, Tells
  <2>4. CASE rest(p) = {} /\ ~Tells(s[1], p)
    BY <1>2, <2>1, <2>4 DEF Step, Tells
  <2>5. QED
    BY <2>2, <2>3, <2>4
<1>4. QED
  BY <1>3 DEF AfterFrom

-----------------------------------------------------------------------------
\* The invariant, part by part: each lemma takes the actions one by one.

\* What makes a message.
LEMMA Messages ==
  /\ \A type \in {"hello", "features", "port_added", "port_deleted", "barrier",
                  "stray", "error", "echo"}, set \in SUBSET Ports :
       [type |-> type, ports |-> set] \in Message
  /\ \A m \in Message : m.ports \in SUBSET Ports
BY DEF Message

\* TypeOK, by what its parts are about.
Maps ==
  /\ stage \in [Conns -> {"none", "open", "closed"}]
  /\ request \in [Conns -> {"none", "features", "barrier"}]
  /\ ports \in [Dpids -> SUBSET Ports]
  /\ con_ports \in [Conns -> SUBSET Ports]
  /\ connections \in [Dpids -> Conns \cup {NoConn}]
  /\ gone \in 0..MaxGone
  /\ extra \in 0..MaxExtra
Wires ==
  /\ wire \in [Conns -> Seq(Message)]
  /\ reading \in Conns \cup {NoConn}
  /\ buf \in Seq(Message) /\ (buf = <<>> <=> reading = NoConn)
Sets ==
  /\ raised \subseteq disconnected
  /\ announced \subseteq barrier /\ barrier \subseteq asked
  /\ asked \cup disconnected \cup alive \subseteq {c \in Conns : stage[c] # "none"}
  /\ dpid_known \cup missed \subseteq asked

\* The parts are TypeOK.
LEMMA TypeParts == TypeOK <=> Maps /\ Wires /\ Sets
BY DEF TypeOK, Maps, Wires, Sets

\* Taking the first of the messages that were read leaves a sequence of messages,
\* and none is being read when it was the last.
LEMMA HandlesWires ==
  ASSUME TypeOK, NEW c \in Conns, NEW types, Handles(c, types)
  PROVE  Wires'
<1> c # NoConn /\ reading = c /\ buf # <<>> /\ buf \in Seq(Message)
  BY ConnShape DEF Handles, TypeOK
<1>1. Tail(buf) \in Seq(Message) /\ Len(Tail(buf)) = Len(buf) - 1 /\ Len(buf) \in Nat \ {0}
  BY HeadTailProperties
<1>2. Tail(buf) = <<>> <=> Len(buf) = 1
  BY <1>1, EmptySeq
<1>3. buf' = Tail(buf) /\ reading' = (IF Len(buf) = 1 THEN NoConn ELSE c) /\ wire' = wire
  BY DEF Handles
<1>4. QED
  BY <1>1, <1>2, <1>3 DEF TypeOK, Wires

\* No action puts a value where it does not belong.
LEMMA MapsStep ==
  ASSUME KnownInv, [Next]_vars
  PROVE  Maps'
<1> USE ConnShape DEF KnownInv, ClosedIsForgotten
<1>1. ASSUME NEW c \in Conns, Connect(c) PROVE Maps'
  BY <1>1 DEF Connect, TypeOK, Maps, Open, Plain, shake_vars, end_vars
<1>2. ASSUME NEW c \in Conns, Answer(c) PROVE Maps'
  BY <1>2 DEF Answer, TypeOK, Maps, Open, Plain, shake_vars, end_vars
<1>3. ASSUME NEW c \in Conns, Unasked(c) PROVE Maps'
  BY <1>3 DEF Unasked, TypeOK, Maps, Open, Plain, shake_vars, end_vars
<1>4. ASSUME NEW c \in Conns, Gone(c) PROVE Maps'
  BY <1>4 DEF Gone, TypeOK, Maps, Open, shake_vars, end_vars
<1>5. ASSUME NEW c \in Conns, Send(c) PROVE Maps'
  <2>1. /\ UNCHANGED <<stage, ports, con_ports, request, gone, extra>>
        /\ connections' \in {connections, [connections EXCEPT ![SwitchOf[c]] = NoConn]}
    BY <1>5 DEF Send, Break, Unregister, switch_vars, shake_vars
  <2>2. connections' \in [Dpids -> Conns \cup {NoConn}]
    BY <2>1 DEF TypeOK, Maps
  <2>3. QED
    BY <2>1, <2>2 DEF TypeOK, Maps
<1>6. ASSUME NEW c \in Conns, Close(c) PROVE Maps'
  BY <1>6 DEF Close, TypeOK, Maps, Open, Unregister, shake_vars
<1>7. ASSUME NEW c \in Conns, Read(c) PROVE Maps'
  BY <1>7 DEF Read, TypeOK, Maps, Open, shake_vars, end_vars
<1>8. ASSUME NEW c \in Conns, HandleHello(c) PROVE Maps'
  BY <1>8 DEF HandleHello, TypeOK, Maps, Open, Break, Unregister, CanSend, MayFail, end_vars,
     Handles
<1>9. ASSUME NEW c \in Conns, HandleFeatures(c) PROVE Maps'
  BY <1>9, Messages, SMTT(20) DEF HandleFeatures, TypeOK, Maps, Open, Unregister, CanSend, MayFail, Handles
<1>10. ASSUME NEW c \in Conns, HandleBarrier(c) PROVE Maps'
  BY <1>10 DEF HandleBarrier, TypeOK, Maps, Open, end_vars, Handles
<1>11. ASSUME NEW c \in Conns, HandleStray(c) PROVE Maps'
  BY <1>11 DEF HandleStray, TypeOK, Maps, Open, end_vars, Handles
<1>12. ASSUME NEW c \in Conns, HandleEcho(c) PROVE Maps'
  BY <1>12 DEF HandleEcho, TypeOK, Maps, Open, Break, Unregister, MayFail, shake_vars,
     end_vars, Handles
<1>13. ASSUME NEW c \in Conns, HandlePortStatus(c) PROVE Maps'
  <2>1. Head(buf) \in Message
    BY <1>13 DEF Handles, HandlePortStatus, TypeOK
  <2>2. Head(buf).ports \in SUBSET Ports
    BY <2>1, Messages
  <2>3. con_ports' \in [Conns -> SUBSET Ports]
    BY <2>2, <1>13 DEF HandlePortStatus, TypeOK
  <2>4. QED
    BY <2>3, <1>13 DEF HandlePortStatus, Handles, TypeOK, Maps, end_vars
<1>14. ASSUME NEW d \in Dpids, NEW p \in Ports, PortChange(d, p) PROVE Maps'
  BY <1>14 DEF PortChange, TypeOK, Maps, Open, shake_vars, end_vars
<1>15. CASE UNCHANGED vars
  BY <1>15 DEF vars, TypeOK, Maps, switch_vars, shake_vars, end_vars
<1>16. QED
  BY <1>1, <1>2, <1>3, <1>4, <1>5, <1>6, <1>7, <1>8, <1>9, <1>10, <1>11,
     <1>12, <1>13, <1>14, <1>15 DEF Next, Handle

\* Messages stay messages, and one connection is read at a time.
LEMMA WiresStep ==
  ASSUME KnownInv, [Next]_vars
  PROVE  Wires'
<1> USE ConnShape DEF KnownInv, ClosedIsForgotten
<1>1. ASSUME NEW c \in Conns, Connect(c) PROVE Wires'
  <2>1. {<<>>, <<Plain("hello")>>} \subseteq Seq(Message)
    <3>1. Plain("hello") \in Message
      BY Messages DEF Plain
    <3>2. QED
      BY <3>1
  <2>2. wire' \in [Conns -> Seq(Message)]
    <3>1. PICK sent \in Seq(Message) : wire' = [wire EXCEPT ![c] = sent]
      BY <1>1, <2>1 DEF Connect
    <3>2. QED
      BY <3>1 DEF TypeOK
  <2>3. QED
    BY <1>1, <2>2 DEF Connect, TypeOK, Wires
<1>2. ASSUME NEW c \in Conns, Answer(c) PROVE Wires'
  BY <1>2, Messages DEF Answer, TypeOK, Wires, Open, Plain, shake_vars, end_vars
<1>3. ASSUME NEW c \in Conns, Unasked(c) PROVE Wires'
  BY <1>3, Messages DEF Unasked, TypeOK, Wires, Open, Plain, shake_vars, end_vars
<1>4. ASSUME NEW c \in Conns, Gone(c) PROVE Wires'
  BY <1>4 DEF Gone, TypeOK, Wires, Open, shake_vars, end_vars
<1>5. ASSUME NEW c \in Conns, Send(c) PROVE Wires'
  BY <1>5 DEF Send, TypeOK, Wires, Open, Break, Unregister, MayFail, switch_vars, shake_vars
<1>6. ASSUME NEW c \in Conns, Close(c) PROVE Wires'
  BY <1>6 DEF Close, TypeOK, Wires, Open, Unregister, shake_vars
<1>7. ASSUME NEW c \in Conns, Read(c) PROVE Wires'
  <2>1. PICK n \in 1..Len(wire[c]) :
          /\ buf' = SubSeq(wire[c], 1, n)
          /\ wire' = [wire EXCEPT ![c] = SubSeq(wire[c], n + 1, Len(wire[c]))]
    BY <1>7 DEF Read
  <2>2. wire[c] \in Seq(Message) /\ Len(wire[c]) \in Nat
    BY DEF TypeOK
  <2>3. buf' \in Seq(Message) /\ buf' # <<>>
    <3>1. n \in Nat \ {0} /\ n <= Len(wire[c])
      BY <2>2
    <3>2. \A i \in 1..n : wire[c][i] \in Message
      BY <2>2, <3>1
    <3>3. SubSeq(wire[c], 1, n) \in Seq(Message) /\ Len(SubSeq(wire[c], 1, n)) = n
      BY <3>1, <3>2, SubSeqProperties
    <3>4. QED
      BY <2>1, <3>1, <3>3
  <2>4. SubSeq(wire[c], n + 1, Len(wire[c])) \in Seq(Message)
    BY <2>1, <2>2
  <2>5. reading' = c /\ c # NoConn
    BY <1>7 DEF Read
  <2>6. QED
    BY <2>1, <2>3, <2>4, <2>5 DEF TypeOK, Wires
<1>8. ASSUME NEW c \in Conns, HandleHello(c) PROVE Wires'
  BY <1>8, HandlesWires DEF HandleHello
<1>9. ASSUME NEW c \in Conns, HandleFeatures(c) PROVE Wires'
  BY <1>9, HandlesWires DEF HandleFeatures
<1>10. ASSUME NEW c \in Conns, HandleBarrier(c) PROVE Wires'
  BY <1>10, HandlesWires DEF HandleBarrier
<1>11. ASSUME NEW c \in Conns, HandleStray(c) PROVE Wires'
  BY <1>11, HandlesWires DEF HandleStray
<1>12. ASSUME NEW c \in Conns, HandleEcho(c) PROVE Wires'
  BY <1>12, HandlesWires DEF HandleEcho
<1>13. ASSUME NEW c \in Conns, HandlePortStatus(c) PROVE Wires'
  BY <1>13, HandlesWires DEF HandlePortStatus
<1>14. ASSUME NEW d \in Dpids, NEW p \in Ports, PortChange(d, p) PROVE Wires'
  <2>1. PICK m \in Message : wire' = [c \in Conns |-> IF c \in alive /\ SwitchOf[c] = d
                                                       THEN Append(wire[c], m) ELSE wire[c]]
    BY <1>14, Messages DEF PortChange
  <2>2. QED
    BY <2>1, <1>14 DEF PortChange, TypeOK, Wires
<1>15. CASE UNCHANGED vars
  BY <1>15 DEF vars, TypeOK, Wires, switch_vars, shake_vars, end_vars
<1>16. QED
  BY <1>1, <1>2, <1>3, <1>4, <1>5, <1>6, <1>7, <1>8, <1>9, <1>10, <1>11,
     <1>12, <1>13, <1>14, <1>15 DEF Next, Handle

\* The stages of a connection follow one another: a hello, the features, the
\* barrier, the announcement.  (Features come only once they have been asked for.)
LEMMA SetsStep ==
  ASSUME KnownInv, [Next]_vars
  PROVE  Sets'
<1> USE ConnShape DEF KnownInv, ClosedIsForgotten
<1>1. ASSUME NEW c \in Conns, Connect(c) PROVE Sets'
  BY <1>1 DEF Connect, TypeOK, Places, Sets, Open, Plain, shake_vars, end_vars
<1>2. ASSUME NEW c \in Conns, Answer(c) PROVE Sets'
  BY <1>2 DEF Answer, TypeOK, Places, Sets, Open, Plain, shake_vars, end_vars
<1>3. ASSUME NEW c \in Conns, Unasked(c) PROVE Sets'
  BY <1>3 DEF Unasked, TypeOK, Places, Sets, Open, Plain, shake_vars, end_vars
<1>4. ASSUME NEW c \in Conns, Gone(c) PROVE Sets'
  BY <1>4 DEF Gone, TypeOK, Places, Sets, Open, shake_vars, end_vars
<1>5. ASSUME NEW c \in Conns, Send(c) PROVE Sets'
  BY <1>5 DEF Send, TypeOK, Places, Sets, Open, Break, Unregister, MayFail, switch_vars,
     shake_vars
<1>6. ASSUME NEW c \in Conns, Close(c) PROVE Sets'
  BY <1>6 DEF Close, TypeOK, Places, Sets, Open, Unregister, shake_vars
<1>7. ASSUME NEW c \in Conns, Read(c) PROVE Sets'
  BY <1>7 DEF Read, TypeOK, Places, Sets, Open, shake_vars, end_vars
<1>8. ASSUME NEW c \in Conns, HandleHello(c) PROVE Sets'
  BY <1>8 DEF HandleHello, TypeOK, Places, Sets, Open, Break, Unregister, CanSend, MayFail,
     end_vars, Handles
<1>9. ASSUME NEW c \in Conns, HandleFeatures(c) PROVE Sets'
  <2>1. Coming(c)[1].type = "features" /\ Coming(c) # <<>>
    BY <1>9, HandleTakes DEF HandleFeatures
  <2>2. Pending(c, 1, "features")
    BY <2>1, ComingType DEF Pending
  <2>3. c \in asked
    BY <2>1, <2>2, ComingType DEF Handshake, Shaking
  <2>4. QED
    BY <2>3, <1>9 DEF HandleFeatures, Handles, MayFail, TypeOK, Places, Sets, Open
<1>10. ASSUME NEW c \in Conns, HandleBarrier(c) PROVE Sets'
  BY <1>10 DEF HandleBarrier, TypeOK, Places, Sets, Open, end_vars, Handles
<1>11. ASSUME NEW c \in Conns, HandleStray(c) PROVE Sets'
  BY <1>11 DEF HandleStray, TypeOK, Places, Sets, Open, end_vars, Handles
<1>12. ASSUME NEW c \in Conns, HandleEcho(c) PROVE Sets'
  BY <1>12 DEF HandleEcho, TypeOK, Places, Sets, Open, Break, Unregister, MayFail, shake_vars,
     end_vars, Handles
<1>13. ASSUME NEW c \in Conns, HandlePortStatus(c) PROVE Sets'
  BY <1>13 DEF HandlePortStatus, TypeOK, Places, Sets, Open, end_vars, Handles
<1>14. ASSUME NEW d \in Dpids, NEW p \in Ports, PortChange(d, p) PROVE Sets'
  BY <1>14 DEF PortChange, TypeOK, Places, Sets, Open, shake_vars, end_vars
<1>15. CASE UNCHANGED vars
  BY <1>15 DEF vars, TypeOK, Sets, switch_vars, shake_vars, end_vars
<1>16. QED
  BY <1>1, <1>2, <1>3, <1>4, <1>5, <1>6, <1>7, <1>8, <1>9, <1>10, <1>11,
     <1>12, <1>13, <1>14, <1>15 DEF Next, Handle

\* The three parts together.
LEMMA TypeStep ==
  ASSUME KnownInv, [Next]_vars
  PROVE  TypeOK'
<1>1. Maps' /\ Wires' /\ Sets'
  BY MapsStep, WiresStep, SetsStep
<1>2. QED
  BY <1>1, TypeParts DEF TypeOK, Maps, Wires, Sets

\* A connection in the map whose switch is known has not been closed.
MapIsOpen == \A d \in Dpids : connections[d] \in dpid_known => connections[d] \in Open

\* What is written in the map: nothing, by a write that fails; a connection by
\* its features.
LEMMA BreakShrinks ==
  ASSUME TypeOK, NEW c \in Conns, Break(c) \/ UNCHANGED end_vars
  PROVE  \A d \in Dpids : connections'[d] \in {connections[d], NoConn}
BY ConnShape DEF TypeOK, Break, Unregister, end_vars

\* Features write in the map only at the switch they come from.
LEMMA FeaturesRegisters ==
  ASSUME TypeOK, NEW c \in Conns, HandleFeatures(c), NEW d \in Dpids
  PROVE  \/ connections'[d] \in {connections[d], NoConn}
         \/ connections'[d] = c /\ d = SwitchOf[c]
<1>1. CASE connections' = [connections EXCEPT ![SwitchOf[c]] = c]
  BY <1>1, ConnShape DEF TypeOK
<1>2. CASE Unregister(c)
  BY <1>2, ConnShape DEF TypeOK, Unregister
<1>3. QED
  BY <1>1, <1>2 DEF HandleFeatures

\* close() removes a connection whose switch is known from the map.
LEMMA MapIsOpenStep ==
  ASSUME KnownInv, [Next]_vars
  PROVE  MapIsOpen'
<1> USE ConnShape DEF KnownInv, ClosedIsForgotten
<1>1. ASSUME NEW c \in Conns, Connect(c) PROVE MapIsOpen'
  BY <1>1 DEF Connect, TypeOK, Places, Open, MapIsOpen, shake_vars, end_vars
<1>2. ASSUME NEW c \in Conns, Answer(c) PROVE MapIsOpen'
  BY <1>2 DEF Answer, TypeOK, Places, Open, MapIsOpen, shake_vars, end_vars
<1>3. ASSUME NEW c \in Conns, Unasked(c) PROVE MapIsOpen'
  BY <1>3 DEF Unasked, TypeOK, Places, Open, MapIsOpen, shake_vars, end_vars
<1>4. ASSUME NEW c \in Conns, Gone(c) PROVE MapIsOpen'
  BY <1>4 DEF Gone, TypeOK, Places, Open, MapIsOpen, shake_vars, end_vars
<1>5. ASSUME NEW c \in Conns, Send(c) PROVE MapIsOpen'
  BY <1>5, SMTT(20) DEF Send, TypeOK, Places, Open, MapIsOpen, Break, Unregister, MayFail, switch_vars,
     shake_vars
<1>6. ASSUME NEW c \in Conns, Close(c) PROVE MapIsOpen'
  BY <1>6 DEF Close, TypeOK, Places, Open, MapIsOpen, Unregister, shake_vars
<1>7. ASSUME NEW c \in Conns, Read(c) PROVE MapIsOpen'
  BY <1>7 DEF Read, TypeOK, Places, Open, MapIsOpen, shake_vars, end_vars
<1>8. ASSUME NEW c \in Conns, HandleHello(c) PROVE MapIsOpen'
  BY <1>8 DEF HandleHello, TypeOK, Places, Open, MapIsOpen, Break, Unregister, MayFail,
     end_vars, Handles
<1>9. ASSUME NEW c \in Conns, HandleFeatures(c) PROVE MapIsOpen'
  <2>1. NoConn \notin dpid_known
    BY DEF TypeOK
  <2>2. \A d \in Dpids : connections'[d] \in {connections[d], NoConn, c}
    BY <1>9, FeaturesRegisters
  <2>3. c # NoConn /\ dpid_known' = dpid_known \cup {c} /\ stage' = stage /\ c \in Open
    BY <1>9 DEF HandleFeatures, Handles, Places
  <2>4. QED
    BY <2>1, <2>2, <2>3 DEF MapIsOpen, Open
<1>10. ASSUME NEW c \in Conns, HandleBarrier(c) PROVE MapIsOpen'
  BY <1>10 DEF HandleBarrier, TypeOK, Places, Open, MapIsOpen, end_vars, Handles
<1>11. ASSUME NEW c \in Conns, HandleStray(c) PROVE MapIsOpen'
  BY <1>11 DEF HandleStray, TypeOK, Places, Open, MapIsOpen, end_vars, Handles
<1>12. ASSUME NEW c \in Conns, HandleEcho(c) PROVE MapIsOpen'
  <2>1. NoConn \notin dpid_known
    BY DEF TypeOK
  <2>2. \A d \in Dpids : connections'[d] \in {connections[d], NoConn}
    BY <1>12, BreakShrinks DEF HandleEcho
  <2>3. dpid_known' = dpid_known /\ stage' = stage
    BY <1>12 DEF HandleEcho, Handles, shake_vars
  <2>4. QED
    BY <2>1, <2>2, <2>3 DEF MapIsOpen, Open
<1>13. ASSUME NEW c \in Conns, HandlePortStatus(c) PROVE MapIsOpen'
  BY <1>13 DEF HandlePortStatus, TypeOK, Places, Open, MapIsOpen, end_vars, Handles
<1>14. ASSUME NEW d \in Dpids, NEW p \in Ports, PortChange(d, p) PROVE MapIsOpen'
  BY <1>14 DEF PortChange, TypeOK, Places, Open, MapIsOpen, shake_vars, end_vars
<1>15. CASE UNCHANGED vars
  BY <1>15 DEF vars, MapIsOpen, Open, switch_vars, shake_vars, end_vars
<1>16. QED
  BY <1>1, <1>2, <1>3, <1>4, <1>5, <1>6, <1>7, <1>8, <1>9, <1>10, <1>11,
     <1>12, <1>13, <1>14, <1>15 DEF Next, Handle

\* An entry of the map stays with the switch it was made for.
LEMMA PlacesStep ==
  ASSUME KnownInv, [Next]_vars
  PROVE  Places'
<1> USE ConnShape DEF KnownInv, ClosedIsForgotten
<1>1. ASSUME NEW c \in Conns, Connect(c) PROVE Places'
  <2>1. UNCHANGED <<reading, dpid_known, barrier, connections>>
    BY <1>1 DEF Connect, shake_vars
  <2>2. Open' = Open \cup {c} /\ alive' \subseteq alive \cup {c}
    BY <1>1 DEF Connect, Open, TypeOK
  <2>3. QED
    BY <2>1, <2>2 DEF Places
<1>2. ASSUME NEW c \in Conns, Answer(c) PROVE Places'
  BY <1>2 DEF Answer, TypeOK, Places, Open, shake_vars, end_vars
<1>3. ASSUME NEW c \in Conns, Unasked(c) PROVE Places'
  BY <1>3 DEF Unasked, TypeOK, Places, Open, shake_vars, end_vars
<1>4. ASSUME NEW c \in Conns, Gone(c) PROVE Places'
  BY <1>4 DEF Gone, TypeOK, Places, Open, shake_vars, end_vars
<1>5. ASSUME NEW c \in Conns, Send(c) PROVE Places'
  <2>1. \A d \in Dpids : connections'[d] \in {connections[d], NoConn}
    BY <1>5, BreakShrinks DEF Send
  <2>2. UNCHANGED <<stage, alive, reading, dpid_known, barrier>>
    BY <1>5 DEF Send, switch_vars, shake_vars
  <2>3. QED
    BY <2>1, <2>2 DEF Places, Open
<1>6. ASSUME NEW c \in Conns, Close(c) PROVE Places'
  BY <1>6 DEF Close, TypeOK, Places, Open, Unregister, shake_vars
<1>7. ASSUME NEW c \in Conns, Read(c) PROVE Places'
  BY <1>7 DEF Read, TypeOK, Places, Open, shake_vars, end_vars
<1>8. ASSUME NEW c \in Conns, HandleHello(c) PROVE Places'
  BY <1>8 DEF HandleHello, TypeOK, Places, Open, Break, Unregister, MayFail, end_vars, Handles
<1>9. ASSUME NEW c \in Conns, HandleFeatures(c) PROVE Places'
  <2>1. \A d \in Dpids : \/ connections'[d] \in {connections[d], NoConn}
                         \/ connections'[d] = c /\ d = SwitchOf[c]
    BY <1>9, FeaturesRegisters
  <2>2. /\ UNCHANGED <<stage, alive>> /\ reading' \in {reading, NoConn}
        /\ dpid_known' = dpid_known \cup {c} /\ barrier' = barrier \cup {c}
    BY <1>9 DEF HandleFeatures, Handles
  <2>3. \A d \in Dpids : connections'[d] # NoConn =>
          connections'[d] \in barrier' /\ SwitchOf[connections'[d]] = d
    BY <2>1, <2>2 DEF Places
  <2>4. (reading # NoConn => reading \in Open)' /\ (alive \subseteq Open)' /\ dpid_known' \subseteq barrier'
    BY <2>2 DEF Places, Open
  <2>5. QED
    BY <2>3, <2>4 DEF Places
<1>10. ASSUME NEW c \in Conns, HandleBarrier(c) PROVE Places'
  BY <1>10 DEF HandleBarrier, TypeOK, Places, Open, end_vars, Handles
<1>11. ASSUME NEW c \in Conns, HandleStray(c) PROVE Places'
  BY <1>11 DEF HandleStray, TypeOK, Places, Open, end_vars, Handles
<1>12. ASSUME NEW c \in Conns, HandleEcho(c) PROVE Places'
  BY <1>12, SMTT(20) DEF HandleEcho, TypeOK, Places, Open, Break, Unregister, MayFail, shake_vars,
     end_vars, Handles
<1>13. ASSUME NEW c \in Conns, HandlePortStatus(c) PROVE Places'
  BY <1>13 DEF HandlePortStatus, TypeOK, Places, Open, end_vars, Handles
<1>14. ASSUME NEW d \in Dpids, NEW p \in Ports, PortChange(d, p) PROVE Places'
  BY <1>14 DEF PortChange, TypeOK, Places, Open, shake_vars, end_vars
<1>15. CASE UNCHANGED vars
  BY <1>15 DEF vars, Places, Open, switch_vars, shake_vars, end_vars
<1>16. QED
  BY <1>1, <1>2, <1>3, <1>4, <1>5, <1>6, <1>7, <1>8, <1>9, <1>10, <1>11,
     <1>12, <1>13, <1>14, <1>15 DEF Next, Handle

\* How a connection's messages on their way can change: not at all, by one more
\* that is sent, or by the first that is handled.
LEMMA ShakingKept ==
  ASSUME NEW c \in Conns, Shaking(c), Coming(c)' = Coming(c), request'[c] \in {request[c], "none"},
         c \in asked' <=> c \in asked, c \in barrier' <=> c \in barrier
  PROVE  Shaking(c)'
BY DEF Shaking, Pending

\* One more message.
LEMMA ShakingSent ==
  ASSUME TypeOK, NEW c \in Conns, Shaking(c), NEW m \in Message,
         Coming(c)' = Append(Coming(c), m), request'[c] \in {request[c], "none"},
         m.type # "hello",
         m.type = "features" => request[c] = "features" /\ request'[c] = "none",
         UNCHANGED <<asked, barrier>>
  PROVE  Shaking(c)'
<1> DEFINE s == Coming(c)
<1>1. s \in Seq(Message) /\ Len(s) \in Nat /\ DOMAIN s = 1..Len(s)
  BY ComingType
<1>2. DOMAIN Coming(c)' = 1..(Len(s) + 1) /\ Coming(c)'[Len(s) + 1] = m
      /\ \A i \in 1..Len(s) : Coming(c)'[i] = s[i]
  BY <1>1
<1>3. /\ request'[c] # "none" => c \in asked'
      /\ request'[c] = "features" => c \notin barrier'
  BY DEF Shaking
<1>4. CASE m.type = "features"
  <2>1. c \in asked' \ barrier' /\ request'[c] # "features" /\ \A i \in DOMAIN s : ~Pending(c, i, "features")
    BY <1>4 DEF Shaking
  <2>2. ASSUME NEW i \in DOMAIN Coming(c)', Coming(c)'[i].type = "features" PROVE i = Len(s) + 1
    BY <1>1, <1>2, <2>1, <2>2 DEF Pending
  <2>3. ASSUME NEW i \in DOMAIN Coming(c)', Coming(c)'[i].type = "hello"
        PROVE  i = 1 /\ c \notin asked'
    BY <1>1, <1>2, <1>4, <2>3 DEF Pending, Shaking
  <2>5. QED
    BY <1>3, <2>1, <2>2, <2>3 DEF Shaking, Pending
<1>5. CASE m.type # "features"
  <2>1. ASSUME NEW i \in DOMAIN Coming(c)', Coming(c)'[i].type = "features"
        PROVE  /\ i \in DOMAIN s /\ Pending(c, i, "features")
               /\ c \in asked' \ barrier' /\ request'[c] # "features"
    BY <1>1, <1>2, <1>5, <2>1 DEF Pending, Shaking
  <2>2. ASSUME NEW i \in DOMAIN Coming(c)', Coming(c)'[i].type = "features",
               NEW j \in DOMAIN Coming(c)', Coming(c)'[j].type = "features"
        PROVE  i = j
    BY <2>1, <2>2 DEF Shaking
  <2>3. ASSUME NEW i \in DOMAIN Coming(c)', Coming(c)'[i].type = "hello"
        PROVE  i = 1 /\ c \notin asked'
    BY <1>1, <1>2, <2>3 DEF Pending, Shaking
  <2>5. QED
    BY <1>3, <2>1, <2>2, <2>3 DEF Shaking, Pending
<1>6. QED
  BY <1>4, <1>5

\* The first message gone.
LEMMA ComingTail ==
  ASSUME TypeOK, NEW c \in Conns, Coming(c) # <<>>, Coming(c)' = Tail(Coming(c))
  PROVE  /\ 1 \in DOMAIN Coming(c)
         /\ \A i \in DOMAIN Coming(c)' : /\ i \in Nat \ {0} /\ i + 1 \in DOMAIN Coming(c)
                                        /\ Coming(c)'[i] = Coming(c)[i + 1]
<1>1. Coming(c) \in Seq(Message)
  BY ComingType
<1>2. QED
  BY <1>1

\* A message handled that asks for nothing.
LEMMA ShakingHandled ==
  ASSUME TypeOK, NEW c \in Conns, Shaking(c), Coming(c) # <<>>, Coming(c)' = Tail(Coming(c)),
         UNCHANGED <<request, asked, barrier>>
  PROVE  Shaking(c)'
<1>1. \A i \in DOMAIN Coming(c)' : /\ i \in Nat \ {0} /\ i + 1 \in DOMAIN Coming(c)
                                  /\ Coming(c)'[i] = Coming(c)[i + 1]
  BY ComingTail
<1>2. ASSUME NEW i \in DOMAIN Coming(c)'
      PROVE  /\ Coming(c)'[i].type # "hello"
             /\ Coming(c)'[i].type = "features" =>
                  /\ c \in asked' \ barrier' /\ request'[c] # "features"
                  /\ \A j \in DOMAIN Coming(c)' : Coming(c)'[j].type = "features" => j = i
  <2>1. i \in Nat \ {0} /\ i + 1 # 1 /\ i + 1 \in DOMAIN Coming(c) /\ Coming(c)'[i] = Coming(c)[i + 1]
    BY <1>1
  <2>2. Coming(c)'[i].type # "hello"
    BY <2>1 DEF Shaking, Pending
  <2>4. ASSUME Coming(c)'[i].type = "features"
        PROVE  c \in asked' \ barrier' /\ request'[c] # "features"
    BY <2>1, <2>4 DEF Shaking, Pending
  <2>5. ASSUME Coming(c)'[i].type = "features", NEW j \in DOMAIN Coming(c)',
               Coming(c)'[j].type = "features"
        PROVE  j = i
    <3>1. j \in Nat \ {0} /\ j + 1 \in DOMAIN Coming(c) /\ Coming(c)[j + 1].type = "features"
      BY <1>1, <2>5
    <3>2. j + 1 = i + 1
      BY <2>1, <2>5, <3>1 DEF Shaking, Pending
    <3>3. QED
      BY <2>1, <3>1, <3>2
  <2>6. QED
    BY <2>2, <2>4, <2>5
<1>3. QED
  BY <1>2 DEF Shaking, Pending

\* The handshake keeps its order, whatever else is sent or breaks meanwhile.
LEMMA HandshakeStep ==
  ASSUME KnownInv, [Next]_vars
  PROVE  Handshake'
<1> USE ConnShape DEF KnownInv, ClosedIsForgotten
<1> SUFFICES ASSUME NEW e \in Conns PROVE Shaking(e)'
  BY DEF Handshake
<1>0. Shaking(e)
  BY DEF Handshake
<1>1. ASSUME NEW c \in Conns, Connect(c) PROVE Shaking(e)'
  <2>1. CASE e = c
    <3>1. Coming(c)' \in {<<>>, <<Plain("hello")>>}
      BY <1>1 DEF Connect, Coming, TypeOK
    <3>2. c \notin asked /\ c \notin barrier
      BY <1>1 DEF Connect, TypeOK
    <3>3. request'[c] = "none"
      BY <1>0, <1>1, <2>1, <3>2 DEF Connect, Shaking, TypeOK
    <3>4. asked' = asked /\ \A i \in DOMAIN Coming(c)' : i = 1 /\ Coming(c)'[i].type = "hello"
      BY <1>1, <3>1 DEF Plain, Connect, shake_vars
    <3>5. QED
      BY <2>1, <3>2, <3>3, <3>4 DEF Shaking, Pending
  <2>2. CASE e # c
    <3>1. Coming(e)' = Coming(e)
      BY <1>1, <2>2 DEF Connect, Coming, TypeOK
    <3>2. QED
      BY <1>0, <1>1, <3>1, ShakingKept DEF Connect, shake_vars
  <2>3. QED
    BY <2>1, <2>2
<1>2. ASSUME NEW c \in Conns, Answer(c) PROVE Shaking(e)'
  <2>1. CASE e = c
    <3>1. PICK m \in Message : /\ wire' = [wire EXCEPT ![c] = Append(wire[c], m)]
                               /\ m.type \in {"features", "barrier", "error"}
                               /\ m.type = "features" => request[c] = "features"
      <4>1. CASE request[c] = "features"
        BY <1>2, <4>1, Messages DEF Answer, TypeOK
      <4>2. CASE request[c] = "barrier"
        <5>1. PICK m \in {Plain("barrier"), Plain("error")} :
                wire' = [wire EXCEPT ![c] = Append(wire[c], m)]
          BY <1>2, <4>2 DEF Answer
        <5>2. m \in Message /\ m.type \in {"barrier", "error"}
          BY Messages DEF Plain
        <5>3. QED
          BY <5>1, <5>2
      <4>3. CASE request[c] = "none"
        BY <1>2, <4>3 DEF Answer
      <4>4. QED
        BY <4>1, <4>2, <4>3 DEF TypeOK
    <3>2. wire'[c] = Append(wire[c], m) /\ request'[c] = "none"
      BY <1>2, <3>1 DEF Answer, TypeOK
    <3>3. Coming(c)' = Append(Coming(c), m)
      BY <1>2, <3>2, SendAppends DEF Answer
    <3>4. m.type # "hello"
      BY <3>1
    <3>5. QED
      BY <1>0, <1>2, <2>1, <3>1, <3>2, <3>3, <3>4, ShakingSent DEF Answer, shake_vars
  <2>2. CASE e # c
    <3>1. Coming(e)' = Coming(e) /\ request'[e] = request[e]
      BY <1>2, <2>2 DEF Answer, Coming, TypeOK
    <3>2. QED
      BY <1>0, <1>2, <3>1, ShakingKept DEF Answer, shake_vars
  <2>3. QED
    BY <2>1, <2>2
<1>3. ASSUME NEW c \in Conns, Unasked(c) PROVE Shaking(e)'
  <2>1. CASE e = c
    <3>1. PICK type \in {"echo", "stray"} :
            wire' = [wire EXCEPT ![c] = Append(wire[c], Plain(type))]
      BY <1>3 DEF Unasked
    <3>2. Plain(type) \in Message /\ Plain(type).type = type
      BY Messages DEF Plain
    <3>3. Coming(c)' = Append(Coming(c), Plain(type))
      BY <1>3, <3>1, <3>2, SendAppends DEF Unasked, TypeOK
    <3>4. QED
      BY <1>0, <1>3, <2>1, <3>1, <3>2, <3>3, ShakingSent DEF Unasked, shake_vars
  <2>2. CASE e # c
    <3>1. Coming(e)' = Coming(e)
      BY <1>3, <2>2 DEF Unasked, Coming, TypeOK
    <3>2. QED
      BY <1>0, <1>3, <3>1, ShakingKept DEF Unasked, shake_vars
  <2>3. QED
    BY <2>1, <2>2
<1>4. ASSUME NEW c \in Conns, Gone(c) PROVE Shaking(e)'
  <2>1. Coming(e)' = Coming(e) /\ request'[e] \in {request[e], "none"}
    BY <1>4 DEF Gone, Coming, TypeOK
  <2>2. QED
    BY <1>0, <1>4, <2>1, ShakingKept DEF Gone, shake_vars
<1>5. ASSUME NEW c \in Conns, Send(c) PROVE Shaking(e)'
  <2>1. Coming(e)' = Coming(e)
    BY <1>5 DEF Send, Coming, switch_vars
  <2>2. QED
    BY <1>0, <1>5, <2>1, ShakingKept DEF Send, switch_vars, shake_vars
<1>6. ASSUME NEW c \in Conns, Close(c) PROVE Shaking(e)'
  <2>1. Coming(e)' = Coming(e)
    BY <1>6 DEF Close, Coming
  <2>2. QED
    BY <1>0, <1>6, <2>1, ShakingKept DEF Close, shake_vars
<1>7. ASSUME NEW c \in Conns, Read(c) PROVE Shaking(e)'
  <2>1. Coming(e)' = Coming(e)
    BY <1>7, ReadKeeps
  <2>2. QED
    BY <1>0, <1>7, <2>1, ShakingKept DEF Read, shake_vars
<1>8. ASSUME NEW c \in Conns, HandleHello(c) PROVE Shaking(e)'
  <2> Handles(c, {"hello"})
    BY <1>8 DEF HandleHello
  <2>1. CASE e = c
    <3>1. Coming(c) # <<>> /\ Coming(c)' = Tail(Coming(c)) /\ c \notin asked
      BY <1>8, HandleTakes DEF HandleHello
    <3>2. \A i \in DOMAIN Coming(c)' : Coming(c)'[i].type \notin {"hello", "features"}
      <4>1. ASSUME NEW i \in DOMAIN Coming(c), i # 1
            PROVE  Coming(c)[i].type \notin {"hello", "features"}
        BY <1>0, <2>1, <3>1, <4>1 DEF Shaking, Pending
      <4>2. QED
        BY <3>1, <4>1, ComingTail
    <3>4. c \in asked' /\ c \notin barrier'
      BY <1>8 DEF HandleHello, TypeOK
    <3>5. QED
      BY <2>1, <3>2, <3>4 DEF Shaking, Pending
  <2>2. CASE e # c
    <3>1. Coming(e)' = Coming(e)
      BY <2>2, HandleTakes
    <3>2. request'[e] = request[e] /\ (e \in asked' <=> e \in asked)
      BY <1>8, <2>2 DEF HandleHello, TypeOK
    <3>3. QED
      BY <1>0, <1>8, <3>1, <3>2, ShakingKept DEF HandleHello
  <2>3. QED
    BY <2>1, <2>2
<1>9. ASSUME NEW c \in Conns, HandleFeatures(c) PROVE Shaking(e)'
  <2> Handles(c, {"features"})
    BY <1>9 DEF HandleFeatures
  <2>1. CASE e = c
    <3>1. Coming(c) # <<>> /\ Coming(c)' = Tail(Coming(c)) /\ Coming(c)[1].type = "features"
      BY HandleTakes
    <3>2. Pending(c, 1, "features") /\ 1 \in DOMAIN Coming(c)
      BY <3>1, ComingTail DEF Pending
    <3>3. c \in asked \ barrier /\ request[c] # "features"
      BY <1>0, <2>1, <3>2 DEF Shaking
    <3>4. \A i \in DOMAIN Coming(c)' : Coming(c)'[i].type # "features"
      BY <1>0, <2>1, <3>1, <3>2, ComingTail, SMTT(20) DEF Shaking, Pending
    <3>5. \A i \in DOMAIN Coming(c)' : Coming(c)'[i].type # "hello"
      BY <1>0, <2>1, <3>1, <3>3, ComingTail DEF Shaking, Pending
    <3>7. c \in asked' /\ request'[c] # "features"
      BY <1>9, <3>3 DEF HandleFeatures, TypeOK
    <3>8. QED
      BY <2>1, <3>4, <3>5, <3>7 DEF Shaking, Pending
  <2>2. CASE e # c
    <3>1. Coming(e)' = Coming(e)
      BY <2>2, HandleTakes
    <3>2. request'[e] = request[e] /\ (e \in barrier' <=> e \in barrier)
      BY <1>9, <2>2 DEF HandleFeatures, TypeOK
    <3>3. QED
      BY <1>0, <1>9, <3>1, <3>2, ShakingKept DEF HandleFeatures
  <2>3. QED
    BY <2>1, <2>2
<1>10. ASSUME NEW c \in Conns, HandleBarrier(c) PROVE Shaking(e)'
  <2>1. /\ Handles(c, {"barrier", "error"}) /\ UNCHANGED <<request, asked, barrier>>
    BY <1>10 DEF HandleBarrier, shake_vars
  <2>2. Coming(e)' = Coming(e) \/ (Coming(e) # <<>> /\ Coming(e)' = Tail(Coming(e)))
    BY <2>1, HandleTakes
  <2>3. QED
    BY <1>0, <2>1, <2>2, ShakingKept, ShakingHandled
<1>11. ASSUME NEW c \in Conns, HandleStray(c) PROVE Shaking(e)'
  <2>1. /\ Handles(c, {"stray"}) /\ UNCHANGED <<request, asked, barrier>>
    BY <1>11 DEF HandleStray, shake_vars
  <2>2. Coming(e)' = Coming(e) \/ (Coming(e) # <<>> /\ Coming(e)' = Tail(Coming(e)))
    BY <2>1, HandleTakes
  <2>3. QED
    BY <1>0, <2>1, <2>2, ShakingKept, ShakingHandled
<1>12. ASSUME NEW c \in Conns, HandleEcho(c) PROVE Shaking(e)'
  <2>1. /\ Handles(c, {"echo"}) /\ UNCHANGED <<request, asked, barrier>>
    BY <1>12 DEF HandleEcho, shake_vars
  <2>2. Coming(e)' = Coming(e) \/ (Coming(e) # <<>> /\ Coming(e)' = Tail(Coming(e)))
    BY <2>1, HandleTakes
  <2>3. QED
    BY <1>0, <2>1, <2>2, ShakingKept, ShakingHandled
<1>13. ASSUME NEW c \in Conns, HandlePortStatus(c) PROVE Shaking(e)'
  <2>1. /\ Handles(c, {"port_added", "port_deleted"}) /\ UNCHANGED <<request, asked, barrier>>
    BY <1>13 DEF HandlePortStatus, shake_vars
  <2>2. Coming(e)' = Coming(e) \/ (Coming(e) # <<>> /\ Coming(e)' = Tail(Coming(e)))
    BY <2>1, HandleTakes
  <2>3. QED
    BY <1>0, <2>1, <2>2, ShakingKept, ShakingHandled
<1>14. ASSUME NEW d \in Dpids, NEW p \in Ports, PortChange(d, p) PROVE Shaking(e)'
  <2>1. PICK m \in Message : /\ m.type \in {"port_added", "port_deleted"}
                             /\ wire' = [c \in Conns |-> IF c \in alive /\ SwitchOf[c] = d
                                                        THEN Append(wire[c], m) ELSE wire[c]]
    BY <1>14, Messages DEF PortChange
  <2>2. UNCHANGED <<request, asked, barrier, announced, reading, buf>>
    BY <1>14 DEF PortChange, shake_vars
  <2>3. CASE e \in alive /\ SwitchOf[e] = d
    <3>1. Coming(e)' = Append(Coming(e), m)
      BY <2>1, <2>2, <2>3, SendAppends
    <3>2. QED
      BY <1>0, <2>1, <2>2, <3>1, ShakingSent
  <2>4. CASE ~(e \in alive /\ SwitchOf[e] = d)
    <3>1. Coming(e)' = Coming(e)
      BY <2>1, <2>2, <2>4 DEF Coming
    <3>2. QED
      BY <1>0, <2>2, <3>1, ShakingKept
  <2>5. QED
    BY <2>3, <2>4
<1>15. CASE UNCHANGED vars
  <2>1. Coming(e)' = Coming(e)
    BY <1>15 DEF vars, switch_vars, Coming
  <2>2. QED
    BY <1>0, <1>15, <2>1, ShakingKept DEF vars, switch_vars, shake_vars
<1>16. QED
  BY <1>1, <1>2, <1>3, <1>4, <1>5, <1>6, <1>7, <1>8, <1>9, <1>10, <1>11, <1>12, <1>13,
     <1>14, <1>15 DEF Next, Handle

\* The same three changes, for the ports.
LEMMA AfterNone ==
  ASSUME NEW s \in Seq(Message), NEW known \in SUBSET Ports
  PROVE  AfterFrom(s, Len(s), known) = known
<1>1. \A p : {i \in Changes(s, p) : i > Len(s)} = {}
  BY DEF Changes
<1>2. QED
  BY <1>1 DEF AfterFrom

\* No message about the connection.
LEMMA PortsKept ==
  ASSUME TypeOK, NEW c \in Conns, PortsLeadOn(c), Coming(c)' = Coming(c),
         UNCHANGED <<barrier, con_ports, ports>>, missed \subseteq missed'
  PROVE  PortsLeadOn(c)'
<1>1. PortsCurrent(c)' <=> PortsCurrent(c)
  BY DEF PortsCurrent, After, Changes
<1>2. \A i : AfterFrom(Coming(c), i, Coming(c)[i].ports)' = AfterFrom(Coming(c), i, Coming(c)[i].ports)
  BY DEF AfterFrom, Changes
<1>3. QED
  BY <1>1, <1>2 DEF PortsLeadOn, Pending

\* A change that is sent when it happens, or a message about something else.
LEMMA PortsSent ==
  ASSUME TypeOK, NEW c \in Conns, PortsLeadOn(c), NEW m \in Message,
         Coming(c)' = Append(Coming(c), m), m.type # "features",
         ports'[SwitchOf[c]] = Step(ports[SwitchOf[c]], m),
         UNCHANGED <<barrier, con_ports, missed>>
  PROVE  PortsLeadOn(c)'
<1> DEFINE s == Coming(c)
           t == Append(s, m)
<1>1. s \in Seq(Message) /\ t \in Seq(Message) /\ Len(s) \in Nat
  BY ComingType
<1>2. con_ports[c] \in SUBSET Ports
  BY DEF TypeOK
<1>3. After(t, con_ports[c]) = Step(After(s, con_ports[c]), m)
  <2>1. 0 \in 0..Len(s)
    BY <1>1
  <2>2. AfterFrom(t, 0, con_ports[c]) = Step(AfterFrom(s, 0, con_ports[c]), m)
    BY <1>1, <1>2, <2>1, AfterAppend
  <2>3. QED
    BY <1>1, <2>2, AfterAll
<1>4. ASSUME c \in barrier, c \notin missed PROVE PortsCurrent(c)'
  <2>1. After(s, con_ports[c]) = ports[SwitchOf[c]]
    BY <1>4 DEF PortsLeadOn, PortsCurrent
  <2>2. After(t, con_ports[c]) = ports'[SwitchOf[c]]
    BY <1>3, <2>1
  <2>3. After(Coming(c)', con_ports'[c]) = After(t, con_ports[c])
    OBVIOUS
  <2>4. PortsCurrent(c)' <=> After(Coming(c)', con_ports'[c]) = ports'[SwitchOf[c]]
    BY DEF PortsCurrent, After, Changes
  <2>5. QED
    BY <2>2, <2>3, <2>4
<1>5. ASSUME NEW i \in DOMAIN t, t[i].type = "features"
      PROVE  AfterFrom(t, i, t[i].ports) = ports'[SwitchOf[c]]
  <2>1. i \in DOMAIN s /\ i \in 0..Len(s) /\ t[i] = s[i] /\ s[i] \in Message
    BY <1>1, <1>5
  <2>2. s[i].ports \in SUBSET Ports
    BY <2>1, Messages
  <2>3. AfterFrom(s, i, s[i].ports) = ports[SwitchOf[c]]
    BY <1>5, <2>1 DEF PortsLeadOn, Pending
  <2>4. AfterFrom(t, i, s[i].ports) = Step(AfterFrom(s, i, s[i].ports), m)
    BY <1>1, <2>1, <2>2, AfterAppend
  <2>5. QED
    BY <2>1, <2>3, <2>4
<1>6. \A i : AfterFrom(Coming(c), i, Coming(c)[i].ports)' = AfterFrom(t, i, t[i].ports)
  BY DEF AfterFrom, Changes
<1>7. QED
  BY <1>4, <1>5, <1>6 DEF PortsLeadOn, Pending

\* The ports that are known change by the message that is handled, if any are.
LEMMA PortsHandled ==
  ASSUME TypeOK, NEW c \in Conns, PortsLeadOn(c), Coming(c) # <<>>, Coming(c)' = Tail(Coming(c)),
         UNCHANGED <<barrier, ports>>, missed \subseteq missed', 
         c \in barrier /\ c \notin missed' => con_ports'[c] = Step(con_ports[c], Coming(c)[1])
  PROVE  PortsLeadOn(c)'
<1> DEFINE s == Coming(c)
           t == Tail(s)
<1>1. s \in Seq(Message) /\ s # <<>> /\ t \in Seq(Message) /\ Len(s) \in Nat \ {0} /\ s[1] \in Message
      /\ 1 \in 1..Len(s) /\ Len(t) = Len(s) - 1
  BY ComingType
<1>2. con_ports[c] \in SUBSET Ports
  BY DEF TypeOK
<1>3. AfterFrom(t, 0, Step(con_ports[c], s[1])) = After(s, con_ports[c])
  <2>1. AfterFrom(t, 1 - 1, Step(con_ports[c], s[1])) = AfterFrom(s, 1, Step(con_ports[c], s[1]))
    BY <1>1, AfterTail
  <2>2. AfterFrom(s, 0, con_ports[c]) = AfterFrom(s, 1, Step(con_ports[c], s[1]))
    BY <1>1, <1>2, AfterHead
  <2>3. QED
    BY <1>1, <2>1, <2>2, AfterAll
<1>4. ASSUME c \in barrier, c \notin missed' PROVE PortsCurrent(c)'
  <2>1. After(s, con_ports[c]) = ports[SwitchOf[c]]
    BY <1>4 DEF PortsLeadOn, PortsCurrent
  <2>2. After(t, con_ports'[c]) = ports'[SwitchOf[c]]
    BY <1>1, <1>3, <1>4, <2>1, AfterAll
  <2>3. PortsCurrent(c)' <=> After(Coming(c)', con_ports'[c]) = ports'[SwitchOf[c]]
    BY DEF PortsCurrent, After, Changes
  <2>4. QED
    BY <2>2, <2>3
<1>5. ASSUME NEW i \in DOMAIN t, t[i].type = "features"
      PROVE  AfterFrom(t, i, t[i].ports) = ports'[SwitchOf[c]]
  <2>1. i \in Nat \ {0} /\ i + 1 \in DOMAIN s /\ t[i] = s[i + 1]
    BY ComingTail
  <2>2. AfterFrom(s, i + 1, s[i + 1].ports) = ports[SwitchOf[c]]
    BY <1>5, <2>1 DEF PortsLeadOn, Pending
  <2>3. i + 1 \in 1..Len(s) /\ (i + 1) - 1 = i
    BY <1>1, <2>1
  <2>4. AfterFrom(t, (i + 1) - 1, t[i].ports) = AfterFrom(s, i + 1, t[i].ports)
    BY <1>1, <2>3, AfterTail
  <2>5. QED
    BY <2>1, <2>2, <2>3, <2>4
<1>6. \A i : AfterFrom(Coming(c), i, Coming(c)[i].ports)' = AfterFrom(t, i, t[i].ports)
  BY DEF AfterFrom, Changes
<1>7. QED
  BY <1>4, <1>5, <1>6 DEF PortsLeadOn, Pending

\* No change of a port is lost on its way, or handled in another order.
LEMMA PortsFollowStep ==
  ASSUME KnownInv, [Next]_vars
  PROVE  PortsFollow'
<1> USE ConnShape DEF KnownInv, ClosedIsForgotten
<1> SUFFICES ASSUME NEW e \in Conns, e \in alive' PROVE PortsLeadOn(e)'
  BY TypeStep DEF PortsFollow, TypeOK
<1>0. e \in alive => PortsLeadOn(e)
  BY DEF PortsFollow
<1>1. ASSUME NEW c \in Conns, Connect(c) PROVE PortsLeadOn(e)'
  <2>1. CASE e = c
    <3>1. Coming(c)' \in {<<>>, <<Plain("hello")>>}
      BY <1>1 DEF Connect, Coming, TypeOK
    <3>2. c \notin barrier'
      BY <1>1 DEF Connect, TypeOK, shake_vars
    <3>3. \A i \in DOMAIN Coming(c)' : Coming(c)'[i].type = "hello"
      BY <3>1 DEF Plain
    <3>4. QED
      BY <2>1, <3>2, <3>3 DEF PortsLeadOn, Pending
  <2>2. CASE e # c
    <3>1. Coming(e)' = Coming(e) /\ e \in alive
      BY <1>1, <2>2 DEF Connect, Coming, TypeOK
    <3>2. UNCHANGED <<barrier, con_ports, ports, missed>>
      BY <1>1 DEF Connect, shake_vars
    <3>3. QED
      BY <1>0, <3>1, <3>2, PortsKept
  <2>3. QED
    BY <2>1, <2>2
<1>2. ASSUME NEW c \in Conns, Answer(c) PROVE PortsLeadOn(e)'
  <2> UNCHANGED <<barrier, con_ports, ports, missed, alive, reading, buf>>
    BY <1>2 DEF Answer, shake_vars
  <2>1. CASE e = c /\ request[c] = "features"
    <3> DEFINE m == [type |-> "features", ports |-> ports[SwitchOf[c]]]
               s == Coming(c)
    <3>1. m \in Message /\ wire'[c] = Append(wire[c], m)
      BY <1>2, <2>1, Messages DEF Answer, TypeOK
    <3>2. Coming(c)' = Append(s, m)
      BY <3>1, SendAppends
    <3>3. c \notin barrier /\ \A i \in DOMAIN s : s[i].type # "features"
      BY <2>1 DEF Handshake, Shaking, Pending
    <3>4. s \in Seq(Message) /\ Append(s, m) \in Seq(Message) /\ Len(Append(s, m)) = Len(s) + 1
          /\ Append(s, m)[Len(s) + 1] = m /\ DOMAIN Append(s, m) = 1..(Len(s) + 1) /\ Len(s) \in Nat
          /\ \A i \in 1..Len(s) : Append(s, m)[i] = s[i] /\ i \in DOMAIN s
      BY <3>1, ComingType
    <3>5. ASSUME NEW i \in DOMAIN Append(s, m), Append(s, m)[i].type = "features"
          PROVE  AfterFrom(Append(s, m), i, Append(s, m)[i].ports) = ports[SwitchOf[c]]
      <4>1. i = Len(Append(s, m)) /\ Append(s, m)[i] = m
        BY <3>3, <3>4, <3>5
      <4>2. ports[SwitchOf[c]] \in SUBSET Ports
        BY DEF TypeOK
      <4>3. AfterFrom(Append(s, m), Len(Append(s, m)), ports[SwitchOf[c]]) = ports[SwitchOf[c]]
        BY <3>4, <4>2, AfterNone
      <4>4. QED
        BY <4>1, <4>3
    <3>6. \A i : AfterFrom(Coming(c), i, Coming(c)[i].ports)'
                   = AfterFrom(Append(s, m), i, Append(s, m)[i].ports)
      BY <3>2 DEF AfterFrom, Changes
    <3>7. QED
      BY <2>1, <3>2, <3>3, <3>5, <3>6 DEF PortsLeadOn, Pending
  <2>2. CASE e = c /\ request[c] = "barrier"
    <3>1. PICK m \in {Plain("barrier"), Plain("error")} : wire' = [wire EXCEPT ![c] = Append(wire[c], m)]
      BY <1>2, <2>2 DEF Answer
    <3>2. m \in Message /\ m.type \in {"barrier", "error"}
      BY Messages DEF Plain
    <3>3. Coming(c)' = Append(Coming(c), m)
      BY <3>1, <3>2, SendAppends DEF TypeOK
    <3>4. Step(ports[SwitchOf[c]], m) = ports[SwitchOf[c]] /\ m.type # "features"
      BY <3>2 DEF Step
    <3>5. QED
      BY <1>0, <2>2, <3>2, <3>3, <3>4, PortsSent
  <2>3. CASE e # c
    <3>1. Coming(e)' = Coming(e)
      BY <1>2, <2>3 DEF Answer, Coming, TypeOK
    <3>2. QED
      BY <1>0, <3>1, PortsKept
  <2>4. request[c] # "none"
    BY <1>2 DEF Answer
  <2>5. QED
    BY <2>1, <2>2, <2>3, <2>4 DEF TypeOK
<1>3. ASSUME NEW c \in Conns, Unasked(c) PROVE PortsLeadOn(e)'
  <2> UNCHANGED <<barrier, con_ports, ports, missed, alive, reading, buf>>
    BY <1>3 DEF Unasked, shake_vars
  <2>1. CASE e = c
    <3>1. PICK type \in {"echo", "stray"} : wire' = [wire EXCEPT ![c] = Append(wire[c], Plain(type))]
      BY <1>3 DEF Unasked
    <3>2. Plain(type) \in Message /\ Plain(type).type = type
      BY Messages DEF Plain
    <3>3. Coming(c)' = Append(Coming(c), Plain(type))
      BY <3>1, <3>2, SendAppends DEF TypeOK
    <3>4. Step(ports[SwitchOf[c]], Plain(type)) = ports[SwitchOf[c]] /\ Plain(type).type # "features"
      BY <3>2 DEF Step
    <3>5. QED
      BY <1>0, <2>1, <3>2, <3>3, <3>4, PortsSent
  <2>2. CASE e # c
    <3>1. Coming(e)' = Coming(e)
      BY <1>3, <2>2 DEF Unasked, Coming, TypeOK
    <3>2. QED
      BY <1>0, <3>1, PortsKept
  <2>3. QED
    BY <2>1, <2>2
<1>4. ASSUME NEW c \in Conns, Gone(c) PROVE PortsLeadOn(e)'
  <2>1. Coming(e)' = Coming(e) /\ e \in alive /\ UNCHANGED <<barrier, con_ports, ports, missed>>
    BY <1>4 DEF Gone, Coming, shake_vars
  <2>2. QED
    BY <1>0, <2>1, PortsKept
<1>5. ASSUME NEW c \in Conns, Send(c) PROVE PortsLeadOn(e)'
  <2>1. Coming(e)' = Coming(e) /\ e \in alive /\ UNCHANGED <<barrier, con_ports, ports, missed>>
    BY <1>5 DEF Send, Coming, switch_vars, shake_vars
  <2>2. QED
    BY <1>0, <2>1, PortsKept
<1>6. ASSUME NEW c \in Conns, Close(c) PROVE PortsLeadOn(e)'
  <2>1. Coming(e)' = Coming(e) /\ e \in alive /\ UNCHANGED <<barrier, con_ports, ports, missed>>
    BY <1>6 DEF Close, Coming, shake_vars
  <2>2. QED
    BY <1>0, <2>1, PortsKept
<1>7. ASSUME NEW c \in Conns, Read(c) PROVE PortsLeadOn(e)'
  <2>1. Coming(e)' = Coming(e)
    BY <1>7, ReadKeeps
  <2>2. e \in alive /\ UNCHANGED <<barrier, con_ports, ports, missed>>
    BY <1>7 DEF Read, shake_vars
  <2>3. QED
    BY <1>0, <2>1, <2>2, PortsKept
<1>8. ASSUME NEW c \in Conns, HandleHello(c) PROVE PortsLeadOn(e)'
  <2>1. Handles(c, {"hello"}) /\ c \notin asked /\ e \in alive /\ UNCHANGED <<barrier, con_ports, ports, missed>>
    BY <1>8 DEF HandleHello, Handles
  <2>2. CASE e = c
    <3>1. Coming(c) # <<>> /\ Coming(c)' = Tail(Coming(c)) /\ c \notin barrier
      BY <2>1, HandleTakes DEF TypeOK
    <3>2. QED
      BY <1>0, <2>1, <2>2, <3>1, PortsHandled
  <2>3. CASE e # c
    <3>1. Coming(e)' = Coming(e)
      BY <2>1, <2>3, HandleTakes
    <3>2. QED
      BY <1>0, <2>1, <3>1, PortsKept
  <2>4. QED
    BY <2>2, <2>3
<1>9. ASSUME NEW c \in Conns, HandleFeatures(c) PROVE PortsLeadOn(e)'
  <2>1. Handles(c, {"features"}) /\ e \in alive /\ UNCHANGED <<ports, missed>>
    BY <1>9 DEF HandleFeatures, Handles
  <2>2. CASE e = c
    <3> DEFINE s == Coming(c)
               t == Tail(s)
    <3>1. s # <<>> /\ s[1] = Head(buf) /\ s[1].type = "features" /\ Coming(c)' = t
      BY <2>1, HandleTakes
    <3>2. s \in Seq(Message) /\ t \in Seq(Message) /\ 1 \in DOMAIN s /\ 1 \in 1..Len(s)
      BY <3>1, ComingType
    <3>3. con_ports'[c] = s[1].ports
      BY <1>9, <3>1 DEF HandleFeatures, TypeOK
    <3>4. AfterFrom(s, 1, s[1].ports) = ports[SwitchOf[c]]
      BY <1>0, <2>1, <2>2, <3>1, <3>2 DEF PortsLeadOn, Pending
    <3>5. AfterFrom(t, 1 - 1, s[1].ports) = AfterFrom(s, 1, s[1].ports)
      BY <3>1, <3>2, AfterTail
    <3>6. After(t, con_ports'[c]) = ports'[SwitchOf[c]]
      <4>1. After(t, s[1].ports) = AfterFrom(t, 0, s[1].ports)
        BY <3>2, AfterAll
      <4>2. AfterFrom(t, 0, s[1].ports) = ports[SwitchOf[c]]
        BY <3>4, <3>5
      <4>3. QED
        BY <2>1, <3>3, <4>1, <4>2
    <3>7. PortsCurrent(c)' <=> After(Coming(c)', con_ports'[c]) = ports'[SwitchOf[c]]
      BY DEF PortsCurrent, After, Changes
    <3>8. \A i \in DOMAIN Coming(c)' : Coming(c)'[i].type # "features"
      <4>1. \A j \in DOMAIN s : Pending(c, 1, "features") /\ Pending(c, j, "features") => j = 1
        BY <3>2 DEF Handshake, Shaking
      <4>2. Pending(c, 1, "features")
        BY <3>1, <3>2 DEF Pending
      <4>3. TAKE i \in DOMAIN Coming(c)'
      <4>4. i \in Nat \ {0} /\ i + 1 \in DOMAIN s /\ Coming(c)'[i] = s[i + 1]
        BY <3>1, ComingTail
      <4>5. i + 1 # 1
        BY <4>4
      <4>6. QED
        BY <4>1, <4>2, <4>4, <4>5 DEF Pending
    <3>9. QED
      BY <2>2, <3>1, <3>6, <3>7, <3>8 DEF PortsLeadOn, Pending
  <2>3. CASE e # c
    <3>1. Coming(e)' = Coming(e)
      BY <2>1, <2>3, HandleTakes
    <3>2. con_ports'[e] = con_ports[e] /\ (e \in barrier' <=> e \in barrier)
      BY <1>9, <2>3 DEF HandleFeatures, TypeOK
    <3>3. QED
      BY <1>0, <2>1, <3>1, <3>2 DEF PortsLeadOn, PortsCurrent, Pending, After, AfterFrom, Changes
  <2>4. QED
    BY <2>2, <2>3
<1>10. ASSUME NEW c \in Conns, HandleBarrier(c) PROVE PortsLeadOn(e)'
  <2>1. /\ Handles(c, {"barrier", "error"}) /\ e \in alive
        /\ UNCHANGED <<barrier, con_ports, ports, missed>>
    BY <1>10 DEF HandleBarrier, Handles, shake_vars
  <2>2. CASE e = c
    <3>1. Coming(c) # <<>> /\ Coming(c)' = Tail(Coming(c)) /\ Coming(c)[1].type \in {"barrier", "error"}
      BY <2>1, HandleTakes
    <3>2. Step(con_ports[c], Coming(c)[1]) = con_ports[c]
      BY <3>1 DEF Step
    <3>3. QED
      BY <1>0, <2>1, <2>2, <3>1, <3>2, PortsHandled
  <2>3. CASE e # c
    <3>1. Coming(e)' = Coming(e)
      BY <2>1, <2>3, HandleTakes
    <3>2. QED
      BY <1>0, <2>1, <3>1, PortsKept
  <2>4. QED
    BY <2>2, <2>3
<1>11. ASSUME NEW c \in Conns, HandleStray(c) PROVE PortsLeadOn(e)'
  <2>1. /\ Handles(c, {"stray"}) /\ e \in alive
        /\ UNCHANGED <<barrier, con_ports, ports, missed>>
    BY <1>11 DEF HandleStray, Handles, shake_vars
  <2>2. CASE e = c
    <3>1. Coming(c) # <<>> /\ Coming(c)' = Tail(Coming(c)) /\ Coming(c)[1].type \in {"stray"}
      BY <2>1, HandleTakes
    <3>2. Step(con_ports[c], Coming(c)[1]) = con_ports[c]
      BY <3>1 DEF Step
    <3>3. QED
      BY <1>0, <2>1, <2>2, <3>1, <3>2, PortsHandled
  <2>3. CASE e # c
    <3>1. Coming(e)' = Coming(e)
      BY <2>1, <2>3, HandleTakes
    <3>2. QED
      BY <1>0, <2>1, <3>1, PortsKept
  <2>4. QED
    BY <2>2, <2>3
<1>12. ASSUME NEW c \in Conns, HandleEcho(c) PROVE PortsLeadOn(e)'
  <2>1. /\ Handles(c, {"echo"}) /\ e \in alive
        /\ UNCHANGED <<barrier, con_ports, ports, missed>>
    BY <1>12 DEF HandleEcho, Handles, shake_vars
  <2>2. CASE e = c
    <3>1. Coming(c) # <<>> /\ Coming(c)' = Tail(Coming(c)) /\ Coming(c)[1].type \in {"echo"}
      BY <2>1, HandleTakes
    <3>2. Step(con_ports[c], Coming(c)[1]) = con_ports[c]
      BY <3>1 DEF Step
    <3>3. QED
      BY <1>0, <2>1, <2>2, <3>1, <3>2, PortsHandled
  <2>3. CASE e # c
    <3>1. Coming(e)' = Coming(e)
      BY <2>1, <2>3, HandleTakes
    <3>2. QED
      BY <1>0, <2>1, <3>1, PortsKept
  <2>4. QED
    BY <2>2, <2>3
<1>13. ASSUME NEW c \in Conns, HandlePortStatus(c) PROVE PortsLeadOn(e)'
  <2>1. /\ Handles(c, {"port_added", "port_deleted"}) /\ e \in alive
        /\ UNCHANGED <<barrier, announced, ports>> /\ missed \subseteq missed'
    BY <1>13 DEF HandlePortStatus, Handles
  <2>2. CASE e = c
    <3>1. /\ Coming(c) # <<>> /\ Coming(c)' = Tail(Coming(c)) /\ Coming(c)[1] = Head(buf)
          /\ Coming(c)[1].type \in {"port_added", "port_deleted"}
      BY <2>1, HandleTakes
    <3>2. CASE c \in announced
      <4>1. con_ports'[c] = Step(con_ports[c], Coming(c)[1])
        BY <1>13, <3>1, <3>2 DEF HandlePortStatus, Step, TypeOK
      <4>2. QED
        BY <1>0, <2>1, <2>2, <3>1, <4>1, PortsHandled
    <3>3. CASE c \notin announced
      <4>1. c \notin barrier \/ c \in missed'
        BY <1>13, <3>3 DEF HandlePortStatus
      <4>2. QED
        BY <1>0, <2>1, <2>2, <3>1, <4>1, PortsHandled
    <3>4. QED
      BY <3>2, <3>3
  <2>3. CASE e # c
    <3>1. Coming(e)' = Coming(e)
      BY <2>1, <2>3, HandleTakes
    <3>2. con_ports'[e] = con_ports[e]
      BY <1>13, <2>3 DEF HandlePortStatus, TypeOK
    <3>3. QED
      BY <1>0, <2>1, <3>1, <3>2 DEF PortsLeadOn, PortsCurrent, Pending, After, AfterFrom, Changes
  <2>4. QED
    BY <2>2, <2>3
<1>14. ASSUME NEW d \in Dpids, NEW p \in Ports, PortChange(d, p) PROVE PortsLeadOn(e)'
  <2> DEFINE m == [type |-> IF p \in ports[d] THEN "port_deleted" ELSE "port_added", ports |-> {p}]
  <2>1. /\ m \in Message /\ m.type # "features"
        /\ wire' = [c \in Conns |-> IF c \in alive /\ SwitchOf[c] = d
                                      THEN Append(wire[c], m) ELSE wire[c]]
    BY <1>14, Messages DEF PortChange
  <2>2. e \in alive /\ UNCHANGED <<barrier, con_ports, missed, reading, buf>>
    BY <1>14 DEF PortChange, shake_vars
  <2>3. CASE SwitchOf[e] = d
    <3>1. Coming(e)' = Append(Coming(e), m)
      BY <2>1, <2>2, <2>3, SendAppends
    <3>2. ports'[d] = Step(ports[d], m)
      BY <1>14 DEF PortChange, Step, TypeOK
    <3>3. QED
      BY <1>0, <2>1, <2>2, <2>3, <3>1, <3>2, PortsSent
  <2>4. CASE SwitchOf[e] # d
    <3>1. Coming(e)' = Coming(e)
      BY <2>1, <2>2, <2>4 DEF Coming
    <3>2. ports'[SwitchOf[e]] = ports[SwitchOf[e]]
      BY <1>14, <2>4 DEF PortChange, TypeOK
    <3>3. QED
      BY <1>0, <2>2, <3>1, <3>2 DEF PortsLeadOn, PortsCurrent, Pending, After, AfterFrom, Changes
  <2>5. QED
    BY <2>3, <2>4
<1>15. CASE UNCHANGED vars
  <2>1. Coming(e)' = Coming(e) /\ e \in alive /\ UNCHANGED <<barrier, con_ports, ports, missed>>
    BY <1>15 DEF vars, switch_vars, shake_vars, Coming
  <2>2. QED
    BY <1>0, <2>1, PortsKept
<1>16. QED
  BY <1>1, <1>2, <1>3, <1>4, <1>5, <1>6, <1>7, <1>8, <1>9, <1>10, <1>11, <1>12, <1>13,
     <1>14, <1>15 DEF Next, Handle

\* Nothing is connected at first.
LEMMA KnownInit == Init => KnownInv
<1> SUFFICES ASSUME Init PROVE KnownInv
  OBVIOUS
<1>1. TypeOK
  BY ConnShape DEF Init, TypeOK
<1>2. \A c \in Conns : Coming(c) = <<>> /\ DOMAIN Coming(c) = {}
  BY DEF Init, Coming
<1>3. Handshake
  BY <1>2 DEF Handshake, Shaking, Init
<1>4. QED
  BY <1>1, <1>3 DEF Init, KnownInv, ClosedIsForgotten, Places, PortsFollow

\* The parts hold one another up.
LEMMA KnownStep == KnownInv /\ [Next]_vars => KnownInv'
<1> SUFFICES ASSUME KnownInv, [Next]_vars PROVE KnownInv'
  OBVIOUS
<1>1. TypeOK' /\ MapIsOpen' /\ Places' /\ Handshake' /\ PortsFollow'
  BY TypeStep, MapIsOpenStep, PlacesStep, HandshakeStep, PortsFollowStep
<1>2. QED
  BY <1>1 DEF KnownInv, ClosedIsForgotten, MapIsOpen

\* What the nexus knows is true: no connection that is closed is in the map but
\* as a failed handshake, and the ports of a connection that was announced are
\* its switch's, whatever comes in between and in whatever chunks it is read.
THEOREM KnownAsTheyAre == Spec => []SwitchesAsKnown
<1>1. KnownInv => SwitchesAsKnown
  BY DEF KnownInv, SwitchesAsKnown, PortsUpToDate, PortsFollow, PortsLeadOn,
     ClosedIsForgotten, TypeOK
<1>2. QED
  BY <1>1, KnownInit, KnownStep, PTL DEF Spec

-----------------------------------------------------------------------------
\* What listeners hear of each connection.

\* A handler breaks a connection, or nothing that ends one changes.
LEMMA BreakEnds ==
  ASSUME Ends, NEW c \in Conns, Break(c) \/ UNCHANGED end_vars, Open' \subseteq Open,
         UNCHANGED <<barrier, dpid_known>>
  PROVE  Ends'
BY DEF Ends, Break, end_vars

\* Only close() raises ConnectionDown, and only a handshake that fails, which
\* breaks its connection, forgets a switch.
LEMMA EndsStep ==
  ASSUME SessionInv, [Next]_vars
  PROVE  Ends'
<1> USE ConnShape DEF SessionInv, KnownInv, ClosedIsForgotten
<1> Ends /\ TypeOK /\ Places
  OBVIOUS
<1>1. ASSUME NEW c \in Conns, Connect(c) PROVE Ends'
  <2>1. Open' = Open \cup {c} /\ c \notin raised
    BY <1>1 DEF Connect, Open, TypeOK
  <2>2. UNCHANGED <<raised, barrier, dpid_known>> /\ disconnected \subseteq disconnected'
    BY <1>1 DEF Connect, shake_vars
  <2>3. QED
    BY <2>1, <2>2 DEF Ends
<1>2. ASSUME NEW c \in Conns, Answer(c) \/ Unasked(c) \/ Gone(c) \/ Read(c) PROVE Ends'
  BY <1>2 DEF Answer, Unasked, Gone, Read, Ends, Open, shake_vars, end_vars
<1>3. ASSUME NEW c \in Conns, Send(c) PROVE Ends'
  BY <1>3, BreakEnds DEF Send, Open, shake_vars
<1>4. ASSUME NEW c \in Conns, Close(c) PROVE Ends'
  <2>1. Open' = Open \ {c} /\ raised' \subseteq raised \cup {c}
    BY <1>4 DEF Close, Open, TypeOK
  <2>2. UNCHANGED <<barrier, dpid_known>> /\ disconnected \subseteq disconnected'
    BY <1>4 DEF Close, shake_vars
  <2>3. QED
    BY <2>1, <2>2 DEF Ends
<1>5. ASSUME NEW c \in Conns, HandleHello(c) \/ HandleEcho(c) PROVE Ends'
  BY <1>5, BreakEnds DEF HandleHello, HandleEcho, Handles, Open, shake_vars, end_vars
<1>6. ASSUME NEW c \in Conns, HandleFeatures(c) PROVE Ends'
  BY <1>6 DEF HandleFeatures, Handles, Ends, Open
<1>7. ASSUME NEW c \in Conns, HandleBarrier(c) \/ HandlePortStatus(c) PROVE Ends'
  BY <1>7 DEF HandleBarrier, HandlePortStatus, Handles, Ends, Open, end_vars
<1>8. ASSUME NEW c \in Conns, HandleStray(c) PROVE Ends'
  BY <1>8 DEF HandleStray, Handles, Ends, Open, end_vars
<1>9. ASSUME NEW d \in Dpids, NEW p \in Ports, PortChange(d, p) PROVE Ends'
  BY <1>9 DEF PortChange, Ends, Open, shake_vars, end_vars
<1>10. CASE UNCHANGED vars
  BY <1>10 DEF vars, Ends, Open, shake_vars, end_vars
<1>11. QED
  BY <1>1, <1>2, <1>3, <1>4, <1>5, <1>6, <1>7, <1>8, <1>9, <1>10 DEF Next, Handle

\* Listeners see no difference.
Unheard == UNCHANGED <<dpid_known, barrier, disconnected, announced, raised, connections>>
LEMMA UnheardStutters == Unheard => UNCHANGED Sessions!vars
BY DEF Unheard, Sessions!vars

\* A connection that breaks in the middle of anything is a break that was promised.
LEMMA BreakIsHeard ==
  ASSUME SessionInv, NEW c \in Open, (MayFail(c) /\ Break(c)) \/ UNCHANGED end_vars,
         UNCHANGED <<dpid_known, barrier, announced>>
  PROVE  [Sessions!Next]_Sessions!vars
<1> c \in Conns
  BY DEF Open
<1>1. CASE UNCHANGED end_vars
  BY <1>1, UnheardStutters DEF Unheard, end_vars
<1>2. CASE MayFail(c) /\ Break(c)
  <2>1. c \notin disconnected \cup raised
    BY <1>2 DEF MayFail, SessionInv, Ends
  <2>2. Sessions!Break(c)
    BY <1>2, <2>1 DEF Sessions!Break, Sessions!Enter, Break, Unregister
  <2>3. QED
    BY <2>2 DEF Sessions!Next
<1>3. QED
  BY <1>1, <1>2

\* Every step is one that was promised, or none.
LEMMA SessionStep ==
  ASSUME SessionInv, [Next]_vars
  PROVE  [Sessions!Next]_Sessions!vars
<1> USE ConnShape DEF SessionInv, KnownInv, ClosedIsForgotten
<1> TypeOK /\ Places /\ Ends
  OBVIOUS
<1>1. ASSUME NEW c \in Conns, Connect(c) PROVE [Sessions!Next]_Sessions!vars
  <2>1. CASE UNCHANGED <<gone, disconnected>>
    BY <1>1, <2>1, UnheardStutters DEF Connect, Unheard, shake_vars
  <2>2. CASE disconnected' = disconnected \cup {c}
    <3>1. c \notin disconnected \cup raised /\ c \notin dpid_known
      BY <1>1 DEF Connect, TypeOK
    <3>2. Sessions!Break(c)
      BY <1>1, <2>2, <3>1 DEF Connect, Sessions!Break, shake_vars
    <3>3. QED
      BY <3>2 DEF Sessions!Next
  <2>3. QED
    BY <1>1, <2>1, <2>2 DEF Connect
<1>2. ASSUME NEW c \in Conns, Answer(c) \/ Unasked(c) \/ Gone(c) \/ Read(c)
      PROVE [Sessions!Next]_Sessions!vars
  BY <1>2, UnheardStutters DEF Answer, Unasked, Gone, Read, Unheard, shake_vars, end_vars
<1>3. ASSUME NEW c \in Conns, Send(c) PROVE [Sessions!Next]_Sessions!vars
  BY <1>3, BreakIsHeard DEF Send, shake_vars
<1>4. ASSUME NEW c \in Conns, Close(c) PROVE [Sessions!Next]_Sessions!vars
  <2>1. c \notin raised /\ UNCHANGED <<dpid_known, barrier, announced>>
    BY <1>4 DEF Close, Ends, shake_vars
  <2>2. CASE c \in dpid_known
    <3>1. Sessions!Down(c)
      BY <1>4, <2>1, <2>2 DEF Close, Sessions!Down, Sessions!Enter, Unregister
    <3>2. QED
      BY <3>1 DEF Sessions!Next
  <2>3. CASE c \notin dpid_known /\ c \in disconnected
    BY <1>4, <2>1, <2>3, UnheardStutters DEF Close, Unheard
  <2>4. CASE c \notin dpid_known /\ c \notin disconnected
    <3>1. Sessions!Break(c)
      BY <1>4, <2>1, <2>4 DEF Close, Sessions!Break
    <3>2. QED
      BY <3>1 DEF Sessions!Next
  <2>5. QED
    BY <2>2, <2>3, <2>4
<1>5. ASSUME NEW c \in Conns, HandleHello(c) \/ HandleEcho(c)
      PROVE [Sessions!Next]_Sessions!vars
  <2>1. c \in Open
    BY <1>5 DEF HandleHello, HandleEcho, Handles, Places
  <2>2. UNCHANGED <<dpid_known, barrier, announced>>
    BY <1>5 DEF HandleHello, HandleEcho, shake_vars
  <2>3. (MayFail(c) /\ Break(c)) \/ UNCHANGED end_vars
    BY <1>5 DEF HandleHello, HandleEcho
  <2>4. QED
    BY <2>1, <2>2, <2>3, BreakIsHeard DEF SessionInv
<1>6. ASSUME NEW c \in Conns, HandleFeatures(c) PROVE [Sessions!Next]_Sessions!vars
  <2>1. c \in Open /\ c \notin raised
    BY <1>6 DEF HandleFeatures, Handles, Places, Ends
  <2>2. c \notin barrier
    <3>1. Coming(c) # <<>> /\ Coming(c)[1].type = "features" /\ 1 \in DOMAIN Coming(c)
      BY <1>6, HandleTakes, ComingType DEF HandleFeatures
    <3>2. QED
      BY <3>1 DEF Handshake, Shaking, Pending
  <2>3. c \notin dpid_known \cup announced
    BY <2>2 DEF Places, TypeOK
  <2>4. UNCHANGED <<announced, raised>> /\ dpid_known' = dpid_known \cup {c}
        /\ barrier' \ dpid_known' = barrier \ dpid_known
    BY <1>6, <2>2 DEF HandleFeatures, end_vars
  <2>5. \/ connections' = [connections EXCEPT ![SwitchOf[c]] = c] /\ UNCHANGED disconnected
        \/ /\ c \notin disconnected /\ disconnected' = disconnected \cup {c}
           /\ connections' = [connections EXCEPT ![SwitchOf[c]] = NoConn]
    BY <1>6 DEF HandleFeatures, MayFail, Unregister
  <2>6. Sessions!Register(c)
    BY <2>1, <2>2, <2>3, <2>4, <2>5 DEF Sessions!Register, Sessions!Enter
  <2>7. QED
    BY <2>6 DEF Sessions!Next
<1>7. ASSUME NEW c \in Conns, HandleBarrier(c) PROVE [Sessions!Next]_Sessions!vars
  <2>1. c \notin raised
    BY <1>7 DEF HandleBarrier, Handles, Places, Ends
  <2>2. UNCHANGED <<dpid_known, barrier, disconnected, raised, connections>>
    BY <1>7 DEF HandleBarrier, end_vars
  <2>3. CASE c \in barrier \ announced
    <3>1. Sessions!Announce(c)
      BY <1>7, <2>1, <2>2, <2>3 DEF HandleBarrier, Sessions!Announce
    <3>2. QED
      BY <3>1 DEF Sessions!Next
  <2>4. CASE c \notin barrier \ announced
    <3>1. announced' = announced
      BY <1>7, <2>4 DEF HandleBarrier
    <3>2. QED
      BY <2>2, <3>1, UnheardStutters DEF Unheard
  <2>5. QED
    BY <2>3, <2>4
<1>8. ASSUME NEW c \in Conns, HandleStray(c) PROVE [Sessions!Next]_Sessions!vars
  <2>1. c \notin raised /\ UNCHANGED <<barrier, announced, connections, raised>>
    BY <1>8 DEF HandleStray, Handles, Places, Ends, end_vars
  <2>2. CASE c \in dpid_known \ announced
    <3>1. c \in barrier /\ dpid_known' = dpid_known \ {c}
          /\ disconnected' = disconnected \cup {c}
      BY <1>8, <2>2 DEF HandleStray, Places
    <3>2. barrier' \ dpid_known' = (barrier \ dpid_known) \cup {c}
      BY <2>1, <3>1
    <3>3. Sessions!Fail(c)
      BY <2>1, <2>2, <3>1, <3>2 DEF Sessions!Fail
    <3>4. QED
      BY <3>3 DEF Sessions!Next
  <2>3. CASE c \notin dpid_known \ announced
    <3>1. dpid_known' = dpid_known /\ disconnected' = disconnected
      BY <1>8, <2>3 DEF HandleStray, Ends, end_vars
    <3>2. QED
      BY <2>1, <3>1, UnheardStutters DEF Unheard
  <2>4. QED
    BY <2>2, <2>3
<1>9. ASSUME NEW c \in Conns, HandlePortStatus(c) PROVE [Sessions!Next]_Sessions!vars
  BY <1>9, UnheardStutters DEF HandlePortStatus, Unheard, end_vars
<1>10. ASSUME NEW d \in Dpids, NEW p \in Ports, PortChange(d, p)
       PROVE [Sessions!Next]_Sessions!vars
  BY <1>10, UnheardStutters DEF PortChange, Unheard, shake_vars, end_vars
<1>11. CASE UNCHANGED vars
  BY <1>11, UnheardStutters DEF vars, Unheard, shake_vars, end_vars
<1>12. QED
  BY <1>1, <1>2, <1>3, <1>4, <1>5, <1>6, <1>7, <1>8, <1>9, <1>10, <1>11 DEF Next, Handle

\* Listeners hear of each connection, and find in the map of connections, what
\* SwitchSessions has it, whatever breaks wherever in the handshake, whatever
\* else its switch sends, and though the switch may be back already.
THEOREM SessionsImplemented == Spec => ImplementsSwitchSessions
<1>1. Init => SessionInv
  BY KnownInit DEF Init, SessionInv, Ends
<1>2. SessionInv /\ [Next]_vars => SessionInv'
  BY KnownStep, EndsStep DEF SessionInv
<1>3. Init => Sessions!Init
  BY DEF Init, Sessions!Init
<1>4. SessionInv /\ [Next]_vars => [Sessions!Next]_Sessions!vars
  BY SessionStep
<1>5. QED
  BY <1>1, <1>2, <1>3, <1>4, PTL DEF Spec, ImplementsSwitchSessions, Sessions!Spec
=============================================================================
