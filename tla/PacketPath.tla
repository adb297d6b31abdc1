----------------------------- MODULE PacketPath -----------------------------
(* A packet on its way through software switches.  Each switch parses the frame, changes the    *)
(* object by the header actions of the entry that it matches, and sends it as often as the      *)
(* actions say, each time packed anew.  Beside the bytes runs what they are to say: the fields  *)
(* of the frame, as the first sender meant them and as the header actions of OpenFlow change    *)
(* them, and Encode, which writes these fields down without a look at the packet library.       *)
EXTENDS PacketParts

(* -------------------------------- whole frames -------------------------------- *)
\* The protocols that carry others, from ethernet down to ICMP, and pack, which writes a packet
\* with what it carries.

EthernetFields == <<Raw("dst", 6), Raw("src", 6), U("type", 2)>>
VlanFields == <<U("pcpid", 2), U("eth_type", 2)>>
IcmpFields == <<U("type", 1), U("code", 1), U("csum", 2)>>
UdpFields == <<U("srcport", 2), U("dstport", 2), U("len", 2), U("csum", 2)>>
Ipv4Fields == <<U("vhl", 1), U("tos", 1), U("iplen", 2), U("id", 2), U("frag", 2), U("ttl", 1), U("protocol", 1),
                U("csum", 2), U("srcip", 4), U("dstip", 4)>>
Ipv6Fields == <<Raw("vtcfl", 4), U("payload_length", 2), U("next_header_type", 1), U("hop_limit", 1), Raw("srcip", 16),
                Raw("dstip", 16)>>

VLAN_TYPE == 33024
ARP_TYPE == 2054
IP_TYPE == 2048
Carries(o) == o.class \notin {"None", "bytes"}
Smaller(x, y) == IF x < y THEN x ELSE y
\* What did not parse stays as it was within an IP packet.
OrBytes(o, b) == IF Carries(o) /\ ~o.parsed THEN Data(b) ELSE o

(* ----------------------------------- over IP ----------------------------------- *)
DNS_PORTS == {53, 5353}
RIP_PORT == 520
DHCP_PORTS == {67, 68}
udp(b) ==
  LET v == Fields(b, UdpFields)
      d == After(b, 8)
      next == CASE v.dstport \in DHCP_PORTS -> dhcp(d)
                [] DNS_PORTS \intersect {v.srcport, v.dstport} # {} -> dns(d)
                [] RIP_PORT \in {v.srcport, v.dstport} -> rip(d)
                [] Len(b) < v.len -> Nothing
                [] OTHER -> Data(d)
  IN IF Len(b) < 8 THEN Unparsed("udp", b) ELSE Parsed("udp", v, IF v.len < 8 THEN Nothing ELSE next)
udp_hdr(o, prev, rest) ==
  LET at(csum) == Written([o EXCEPT !.len = Len(rest) + 8, !.csum = csum], UdpFields)
      sum == TransportChecksum(prev, at(0) \o rest)
  IN at(IF sum = 0 /\ prev.class \in {"ipv4", "ipv6"} THEN 65535 ELSE sum)

RECURSIVE ipv4(_), mpls(_), parse_next(_, _, _), pack(_, _), headers(_, _, _, _)

\* Variant: the length is not looked at before the fields are read.
quote_unchecked(c, b) == IF Len(b) < 4 THEN ParseRaised
  ELSE Parsed(c, [head |-> Slice(b, 0, 4)], IF c # "echo" /\ Len(b) >= 28 THEN ipv4(After(b, 4)) ELSE Data(After(b, 4)))
\* Echoes, and errors, which quote the packet they are about.
quote(c, b) ==
  IF Len(b) < 4 THEN Unparsed(c, b)
  ELSE Parsed(c, [head |-> Slice(b, 0, 4)], IF c # "echo" /\ Len(b) >= 28 THEN ipv4(After(b, 4)) ELSE Data(After(b, 4)))
IcmpClass == (8 :> "echo") @@ (0 :> "echo") @@ (3 :> "unreach") @@ (11 :> "time_exceeded")
icmp(b) ==
  LET v == Fields(b, IcmpFields) IN
  IF Len(b) < 4 THEN Unparsed("icmp", b)
  ELSE Parsed("icmp", v, IF v.type \in DOMAIN IcmpClass THEN quote(IcmpClass[v.type], After(b, 4)) ELSE Data(After(b, 4)))
icmp_hdr(o, ph, rest) ==
  LET at(csum) == Written([o EXCEPT !.csum = csum], IcmpFields) IN at(checksum(ph \o at(0) \o rest))

\* Options are read over, and not written again, which hl does not tell.
ipv4(b) ==
  LET v == Fields(b, Ipv4Fields)
      hdr_len == 4 * (v.vhl % 16)
      d == SubSeq(b, hdr_len + 1, Smaller(v.iplen, Len(b)))
      next == CASE v.protocol = 17 -> udp(d)
                [] v.protocol = 6 -> tcp(d)
                [] v.protocol = 1 -> icmp(d)
                [] v.protocol = 2 -> igmp(d)
                [] Len(b) < v.iplen -> Nothing
                [] OTHER -> Data(d)
  IN IF Len(b) < 20 THEN Unparsed("ipv4", b)
     ELSE IF v.vhl \div 16 # 4 \/ hdr_len < 20 \/ v.iplen < 20 \/ hdr_len >= v.iplen \/ hdr_len > Len(b)
          THEN Unparsed("ipv4", b)
     ELSE Parsed("ipv4", v, OrBytes(next, d))
ipv4_hdr(o, rest) ==
  LET at(csum) == Written([o EXCEPT !.iplen = (4 * (o.vhl % 16)) + Len(rest), !.csum = csum], Ipv4Fields)
  IN at(checksum(at(0)))

(* ----------------------------------- IPv6 ----------------------------------- *)
\* The messages of ICMPv6.  Those of classes without a pack raise when they are written, and
\* "destination unreachable" when it is read.
Unpackable(c) == Parsed(c, <<>>, Nothing)
Icmp6Message(type, d) ==
  CASE type \in {128, 129} -> quote("echo", d)
    [] type = 1 -> IF Len(d) < 4 THEN Unpackable("unreach6") ELSE ParseRaised
    [] type = 2 -> IF Len(d) < 4 THEN ParseRaised ELSE Unpackable("PacketTooBig")
    [] type = 3 -> Unpackable("TimeExceeded")
    [] type \in DOMAIN NdFixed -> nd_message(type, d)
    [] OTHER -> Data(d)
\* A wrong checksum ends the parse.
icmpv6(b, prev) ==
  LET v == Fields(b, IcmpFields) IN
  IF Len(b) < 4 THEN Unparsed("icmpv6", b)
  ELSE IF v.csum # checksum(PseudoHeader(prev, 58, Len(b)) \o [b EXCEPT ![3] = 0, ![4] = 0]) THEN Unparsed("icmpv6", b)
  ELSE Parsed("icmpv6", v, Icmp6Message(v.type, After(b, 4)))

\* Extension headers: they are read over and not written again.  What they leave of the length
\* is counted wrongly, for the length of a header is that of its field, without units.
headers(b, nht, off, length) ==
  IF nht \notin {0, 43, 44, 60} THEN [end |-> "done", nht |-> nht, off |-> off, length |-> length]
  ELSE IF length < 8 \/ (nht = 44 /\ length - off < 8) THEN [end |-> "truncated"]
  ELSE IF off + 2 > Len(b) THEN [end |-> "raised"]
  ELSE IF nht = 44 THEN headers(b, b[off + 1], off + 8, length - 8)
  ELSE IF length < 8 * b[off + 2] + 8 THEN [end |-> "truncated"]
  ELSE headers(b, b[off + 1], off + 8 * b[off + 2] + 8, length - b[off + 2])
ipv6(b) ==
  LET v == Fields(b, Ipv6Fields)
      h == headers(b, v.next_header_type, 40, Smaller(v.payload_length, Len(b)))
      d == SubSeq(b, h.off + 1, Smaller(h.off + h.length, Len(b)))
      next == CASE h.nht = 17 -> udp(d)
                [] h.nht = 6 -> tcp(d)
                [] h.nht = 58 -> icmpv6(d, [class |-> "ipv6"] @@ v)
                [] h.nht = 59 -> Nothing
                [] OTHER -> Data(d)
  IN IF Len(b) < 40 THEN Unparsed("ipv6", b)
     ELSE IF b[1] \div 16 # 6 THEN Unparsed("ipv6", b)
     ELSE IF h.end = "raised" THEN ParseRaised
     ELSE IF h.end = "truncated" THEN Unparsed("ipv6", b)
     ELSE Parsed("ipv6", v, OrBytes(next, d))

(* ----------------------------------- below IP ----------------------------------- *)
vlan(b) == LET v == Fields(b, VlanFields) IN
           IF Len(b) < 4 THEN Unparsed("vlan", b) ELSE Parsed("vlan", v, parse_next(v.eth_type, After(b, 4), TRUE))
\* The CFI bit is kept where it was, and hdr shifts it again, out of the field.
vlan_hdr(o) == IF Bit(o.pcpid, 12) = 1 THEN PackRaised ELSE Written(o, VlanFields)

llc(b) ==
  LET n == IF b[3] % 2 = 0 THEN 4 ELSE 3
      snap == b[1] \div 2 = 85 /\ b[2] \div 2 = 85
      len == IF snap THEN n + 5 ELSE n
      v == [header |-> Slice(b, 0, len), oui |-> IF snap THEN Slice(b, n, 3) ELSE <<>>, eth_type |-> Num(Slice(b, len - 2, 2))]
  IN IF Len(b) < 3 THEN Unparsed("llc", b)
     ELSE IF Len(b) < len THEN Unparsed("llc", b)
     ELSE Parsed("llc", v, IF v.oui = Zeros(3) THEN parse_next(v.eth_type, After(b, len), FALSE) ELSE Data(After(b, len)))

\* Labels up to the bottom of the stack; what is below is not looked at.
mpls(b) == IF Len(b) < 4 THEN Unparsed("mpls", b)
           ELSE Parsed("mpls", [header |-> Slice(b, 0, 4)],
                  IF Len(b) >= 8 /\ b[3] % 2 = 0 THEN mpls(After(b, 4)) ELSE Data(After(b, 4)))

parse_next(type, b, allow_llc) ==
  CASE type = VLAN_TYPE -> vlan(b)
    [] type \in {ARP_TYPE, 32821} -> arp(b)
    [] type = IP_TYPE -> ipv4(b)
    [] type = 34525 -> ipv6(b)
    [] type = 35020 -> lldp(b)
    [] type = 34958 -> eapol(b)
    [] type \in {34887, 34888} -> mpls(b)
    [] OTHER -> IF type < 1536 /\ allow_llc THEN llc(b) ELSE Data(b)
ethernet(b) == LET v == Fields(b, EthernetFields) IN
               IF Len(b) < 14 THEN Unparsed("ethernet", b) ELSE Parsed("ethernet", v, parse_next(v.type, After(b, 14), TRUE))

(* ----------------------------------- pack ----------------------------------- *)
hdr(o, prev, rest) ==
  CASE o.class = "ethernet" -> Written(o, EthernetFields)
    [] o.class = "vlan"     -> vlan_hdr(o)
    [] o.class \in {"llc", "mpls"} -> o.header
    [] o.class = "arp"      -> Written(o, ArpFields)
    [] o.class = "ipv4"     -> ipv4_hdr(o, rest)
    [] o.class = "ipv6"     -> Written([o EXCEPT !.payload_length = Len(rest)], Ipv6Fields)
    [] o.class = "udp"      -> udp_hdr(o, prev, rest)
    [] o.class = "tcp"      -> tcp_hdr(o, prev, rest)
    [] o.class = "icmp"     -> icmp_hdr(o, <<>>, rest)
    [] o.class = "icmpv6"   -> icmp_hdr(o, PseudoHeader(prev, 58, Len(rest) + 4), rest)
    [] o.class \in {"echo", "unreach", "time_exceeded"} -> o.head
    [] o.class = "nd"       -> o.head \o FlattenSeq(o.options)
    [] o.class = "igmp"     -> igmp_hdr(o)
    [] o.class = "eap"      -> Written(o, EapFields)
    [] o.class = "eapol"    -> Written(o, EapolFields)
    [] o.class = "lldp"     -> lldp_hdr(o)
    [] o.class = "rip"      -> rip_hdr(o)
    [] o.class = "dns"      -> dns_hdr(o)
    [] o.class = "dhcp"     -> dhcp_hdr(o)
    [] OTHER                -> PackRaised
\* What did not parse goes out as it came in.
pack(o, prev) ==
  CASE o.class = "None"  -> <<>>
    [] o.class = "bytes" -> o.b
    [] Carries(o) /\ ~o.parsed -> o.b
    [] OTHER -> LET rest == pack(o.next, o) IN hdr(o, prev, rest) \o rest

RECURSIVE Raised(_)
\* Reading the packet has raised.
Raised(o) == o.class = "raised" \/ (Carries(o) /\ o.parsed /\ Raised(o.next))

CONSTANTS
  Sources,   \* the frames that the first switch may get, with what they say
  Cuts,      \* frames may be cut off after so many bytes
  Edits,     \* the header actions that entries may have
  MaxHops    \* bound: times that the packet is sent

VARIABLES
  obj,       \* the packet in the switch that has it
  frame,     \* the frame last sent
  says,      \* what obj is to say
  told,      \* what frame is to say
  hops,      \* how often the packet was sent
  edited,    \* whether the switch has changed it since
  sturdy     \* whether the frame is one that no switch should fail on
pathVars == <<obj, frame, says, told, hops, edited, sturdy>>

Opaque == [tag |-> <<>>, net |-> "opaque"]
\* A frame with what it says; whether it is sturdy, and whether it still is when it is cut off.
Source(b, s, whole, cut) == [b |-> b, says |-> s, whole |-> whole, cut |-> cut]

(* --------------------------------- header actions --------------------------------- *)
Next_(o) == IF Carries(o) /\ "next" \in DOMAIN o THEN o.next ELSE Nothing
SetField(o, f, v) == (f :> v) @@ o
\* The attributes of an object: one that did not parse has those that were set before it gave
\* up, or are set by default.
Attributes(o) ==
  IF o.parsed THEN o
  ELSE CASE o.class = "ethernet" -> o @@ [dst |-> Zeros(6), src |-> Zeros(6), type |-> 0]
         [] o.class = "vlan" -> o @@ [pcpid |-> 0, eth_type |-> 0]
         [] o.class = "ipv4" -> o @@ (IF Len(o.b) >= 20 THEN Fields(o.b, Ipv4Fields)
                                      ELSE [tos |-> 0, protocol |-> 0, frag |-> 0, srcip |-> 0, dstip |-> 0])
         [] o.class = "arp" -> o @@ [opcode |-> IF Len(o.b) >= 28 THEN Num(Slice(o.b, 6, 2)) ELSE 0, protosrc |-> 0, protodst |-> 0]
         [] OTHER -> o

\* A tag is set where there is one, or put in.
Tag(o) == IF Next_(o).class = "vlan" THEN Attributes(o.next).pcpid ELSE 0
WithTag(o, pcpid) ==
  CASE Next_(o).class = "vlan" -> [o EXCEPT !.next = SetField(@, "pcpid", pcpid)]
    [] Next_(o).class = "None" -> ParseRaised
    [] OTHER -> [o EXCEPT !.type = VLAN_TYPE,
                          !.next = Parsed("vlan", [pcpid |-> pcpid, eth_type |-> o.type], @)]
set_vlan_vid(o, v) == WithTag(o, Tag(o) - (Tag(o) % 4096) + v)
set_vlan_pcp(o, v) == WithTag(o, 8192 * v + (Tag(o) % 8192))
strip_vlan(o, v) ==
  CASE Next_(o).class # "vlan" -> o
    [] Next_(Next_(o)).class = "None" -> ParseRaised
    [] OTHER -> [o EXCEPT !.type = o.next.eth_type, !.next = o.next.next]
\* IPv4 right in the frame or in a tag, and UDP or TCP in that.
Network(o) == IF Next_(o).class = "vlan" THEN Next_(Next_(o)) ELSE Next_(o)
InNetwork(o, ip) ==
  CASE Next_(o).class = "ipv4" -> [o EXCEPT !.next = ip]
    [] Next_(o).class = "vlan" /\ Network(o).class = "ipv4" -> [o EXCEPT !.next.next = ip]
    [] OTHER -> o
set_nw(o, f, v) == InNetwork(o, SetField(Network(o), f, v))
\* Variant: a tag hides the transport layer.
set_tp_untagged(o, f, v) == IF Next_(Next_(o)).class \in {"udp", "tcp"} THEN [o EXCEPT !.next.next = SetField(@, f, v)] ELSE o
set_tp(o, f, v) ==
  LET ip == Network(o)
  IN IF Next_(ip).class \in {"udp", "tcp"} THEN InNetwork(o, [ip EXCEPT !.next = SetField(@, f, v)]) ELSE o
Changed(o, e) ==
  CASE e.act = "set_vlan_vid" -> set_vlan_vid(o, e.v)
    [] e.act = "set_vlan_pcp" -> set_vlan_pcp(o, e.v)
    [] e.act = "strip_vlan"   -> strip_vlan(o, e.v)
    [] e.act = "set_dl_src"   -> SetField(o, "src", e.mac)
    [] e.act = "set_dl_dst"   -> SetField(o, "dst", e.mac)
    [] e.act = "set_nw_src"   -> set_nw(o, "srcip", e.v)
    [] e.act = "set_nw_dst"   -> set_nw(o, "dstip", e.v)
    [] e.act = "set_nw_tos"   -> set_nw(o, "tos", e.v)
    [] e.act = "set_tp_src"   -> set_tp(o, "srcport", e.v)
    [] e.act = "set_tp_dst"   -> set_tp(o, "dstport", e.v)

(* ------------------------------------ the match ------------------------------------ *)
OFP_VLAN_NONE == 65535
OFP_DL_TYPE_NOT_ETH_TYPE == 1535
\* ofp_match.from_packet, as the flow table calls it: fragments have no ports.
from_packet(packet, in_port) ==
  LET e == Attributes(packet)
      first == Next_(packet)
      snap == first.class = "llc" /\ first.parsed /\ first.oui = Zeros(3)
      p == IF snap THEN first.next ELSE first
      tagged == p.class = "vlan"
      n == IF tagged THEN Next_(p) ELSE p
      ip == Attributes(n)
      t == Next_(n)
      link == [in_port |-> in_port, dl_src |-> e.src, dl_dst |-> e.dst,
               dl_type |-> IF tagged THEN Attributes(p).eth_type ELSE IF snap THEN first.eth_type
                           ELSE IF e.type < 1536 THEN OFP_DL_TYPE_NOT_ETH_TYPE ELSE e.type,
               dl_vlan |-> IF tagged THEN Attributes(p).pcpid % 4096 ELSE OFP_VLAN_NONE,
               dl_vlan_pcp |-> IF tagged THEN Attributes(p).pcpid \div 8192 ELSE 0]
      net == CASE n.class = "ipv4" -> [nw_src |-> <<ip.srcip, 32>>, nw_dst |-> <<ip.dstip, 32>>, nw_proto |-> ip.protocol,
                                       nw_tos |-> ip.tos]
               [] n.class = "arp" /\ ip.opcode <= 255 -> [nw_proto |-> ip.opcode, nw_src |-> <<ip.protosrc, 32>>,
                                                          nw_dst |-> <<ip.protodst, 32>>]
               [] OTHER -> <<>>
      transport == CASE n.class # "ipv4" -> <<>>
                     [] ip.frag % 16384 # 0 -> [tp_src |-> 0, tp_dst |-> 0]
                     [] t.class \in {"udp", "tcp"} -> [tp_src |-> t.srcport, tp_dst |-> t.dstport]
                     [] t.class = "icmp" -> [tp_src |-> t.type, tp_dst |-> t.code]
                     [] OTHER -> <<>>
  IN Match(transport @@ net @@ link)

(* --------------------------- what a frame is to say --------------------------- *)
\* The header actions of OpenFlow on the fields of a frame.
Meant(s, e) ==
  LET tag(pcp, vid) == [s EXCEPT !.tag = <<pcp, vid>>]
      ip == s.net.k = "ip4"
      tp == ip /\ s.net.tp.k \in {"udp", "tcp"}
  IN CASE s = Opaque -> s
       [] e.act = "set_vlan_vid" -> tag(IF s.tag = <<>> THEN 0 ELSE s.tag[1], e.v)
       [] e.act = "set_vlan_pcp" -> tag(e.v, IF s.tag = <<>> THEN 0 ELSE s.tag[2])
       [] e.act = "strip_vlan"   -> [s EXCEPT !.tag = <<>>]
       [] e.act = "set_dl_src"   -> [s EXCEPT !.src = e.mac]
       [] e.act = "set_dl_dst"   -> [s EXCEPT !.dst = e.mac]
       [] e.act = "set_nw_src" /\ ip -> [s EXCEPT !.net.src = e.v]
       [] e.act = "set_nw_dst" /\ ip -> [s EXCEPT !.net.dst = e.v]
       [] e.act = "set_nw_tos" /\ ip -> [s EXCEPT !.net.tos = e.v]
       [] e.act = "set_tp_src" /\ tp -> [s EXCEPT !.net.tp.src = e.v]
       [] e.act = "set_tp_dst" /\ tp -> [s EXCEPT !.net.tp.dst = e.v]
       [] OTHER -> s

\* The complement of the sum of the words, which makes the sum of all a multiple of 65535.
Complement(b) ==
  LET sum == Words(b) % 65535
  IN IF sum = 0 THEN 0 ELSE 65535 - sum
EncodeTransport(n) ==
  LET t == n.tp
      seg(csum) == IF t.k = "udp" THEN BE(t.src, 2) \o BE(t.dst, 2) \o BE(Len(t.b) + 8, 2) \o BE(csum, 2) \o t.b
                   ELSE BE(t.src, 2) \o BE(t.dst, 2) \o SubSeq(t.b, 1, 12) \o BE(csum, 2) \o After(t.b, 12)
      sum == Complement(BE(n.src, 4) \o BE(n.dst, 4) \o <<0, n.proto>> \o BE(Len(seg(0)), 2) \o seg(0))
  IN CASE t.k = "raw" -> t.b
       [] t.k = "udp" -> seg(IF sum = 0 THEN 65535 ELSE sum)
       [] t.k = "tcp" -> seg(sum)
EncodeNetwork(n) ==
  LET d == EncodeTransport(n)
      head(csum) == <<69, n.tos>> \o BE(20 + Len(d), 2) \o <<0, 7>> \o BE(n.frag, 2) \o <<64, n.proto>> \o BE(csum, 2)
                      \o BE(n.src, 4) \o BE(n.dst, 4)
  IN IF n.k = "ip4" THEN head(Complement(head(0))) \o d ELSE n.b
Encode(s) ==
  s.dst \o s.src \o (IF s.tag = <<>> THEN <<>> ELSE BE(VLAN_TYPE, 2) \o BE(8192 * s.tag[1] + s.tag[2], 2))
    \o BE(IF s.net.k = "ip4" THEN IP_TYPE ELSE s.net.type, 2) \o EncodeNetwork(s.net)

(* ------------------------------------ behaviour ------------------------------------ *)
PathInit == \E s \in Sources :
  /\ \/ frame = s.b /\ told = s.says /\ sturdy = s.whole
     \/ \E n \in Cuts : n < Len(s.b) /\ frame = SubSeq(s.b, 1, n) /\ told = Opaque /\ sturdy = s.cut
  /\ obj = Nothing /\ says = Opaque
  /\ hops = 0 /\ edited = FALSE

\* The frame reaches a switch, which forgets the packet it has had.
Receive == /\ hops < MaxHops
           /\ ~HasRaised(frame)
           /\ obj = Nothing \/ hops > 0
           /\ obj' = ethernet(frame) /\ says' = told /\ edited' = FALSE
           /\ UNCHANGED <<frame, told, hops, sturdy>>

\* One header action of the list; what is cut off is only passed on.
Edit(e) == /\ obj # Nothing /\ ~Raised(obj) /\ ~edited /\ says # Opaque
           /\ obj' = Changed(obj, e) /\ says' = Meant(says, e) /\ edited' = TRUE
           /\ UNCHANGED <<frame, told, hops, sturdy>>

\* An output action: the packet stays, and later actions may change it and send it again.
Output == /\ hops < MaxHops
          /\ obj # Nothing /\ ~Raised(obj)
          /\ frame' = pack(obj, Nothing) /\ told' = says /\ hops' = hops + 1 /\ edited' = FALSE
          /\ UNCHANGED <<obj, says, sturdy>>

PathNext == Receive \/ Output \/ \E e \in Edits : Edit(e)
PathSpec == PathInit /\ [][PathNext]_pathVars

(* ------------------------------------ properties ------------------------------------ *)
\* What goes out is, byte for byte, what the frame that came in and the header actions since
\* say: parsing and packing lose nothing, and lengths and checksums are those of what is sent.
\* And the match that a switch makes of the packet it has is the one that the next switch will
\* make of the frame it gets: an object of which the table matches fields and one that is on the
\* wire are the same packet, also of a sturdy frame that was cut off or did not parse.
SaysTheSame ==
  /\ hops > 0 /\ told # Opaque => frame = Encode(told)
  /\ obj # Nothing /\ sturdy /\ ~Raised(obj)
       => LET b == pack(obj, Nothing) IN MatchEq(from_packet(obj, 1), from_packet(ethernet(b), 1))

\* No sturdy packet ends in an exception: not when it is read, changed or written.  Its source says
\* whether a frame is sturdy, and whether it is when cut off anywhere: LLDP, EAP and IPv6 that end
\* too early are not, and neither are tags with the CFI bit and some ICMPv6 (see MCPacketPath).
NeverRaises == sturdy => ~HasRaised(frame) /\ ~Raised(obj)
=============================================================================
