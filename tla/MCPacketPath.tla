---------------------------- MODULE MCPacketPath ----------------------------
(* Frames of every protocol the packet library knows: whole, with padding or without a          *)
(* checksum, and cut off after every byte.                                                      *)
EXTENDS PacketPath

HostA == <<2, 0, 0, 0, 0, 1>>
HostB == <<2, 0, 0, 0, 0, 2>>
Ip(x) == 167772160 + x
Ip6(x) == <<254, 128>> \o Zeros(13) \o <<x>>

Outer(net) == [dst |-> HostB, src |-> HostA, tag |-> <<>>, net |-> net]
Tagged(s) == [s EXCEPT !.tag = <<3, 5>>]
L2(type, b) == Outer([k |-> "raw", type |-> type, b |-> b])
L3(proto, tp) == Outer([k |-> "ip4", tos |-> 0, frag |-> 16384, src |-> Ip(1), dst |-> Ip(2), proto |-> proto, tp |-> tp])
UDP(s, d, b) == L3(17, [k |-> "udp", src |-> s, dst |-> d, b |-> b])
TCP(off, options, b) == L3(6, [k |-> "tcp", src |-> 1025, dst |-> 80,
                               b |-> <<0, 0, 0, 9, 255, 0, 0, 0, 16 * off, 18, 1, 0, 0, 0>> \o options \o b])
Summed(b, at) == SubSeq(b, 1, at) \o BE(Complement(b), 2) \o After(b, at + 2)
ICMP(type, b) == L3(1, [k |-> "raw", b |-> Summed(<<type, 0, 0, 0>> \o b, 2)])
\* ICMPv6 with its checksum.
V6(nh, b) == <<96, 1, 2, 3>> \o BE(Len(b), 2) \o <<nh, 255>> \o Ip6(1) \o Ip6(2) \o b
ICMP6(type, b) == LET m(c) == <<type, 0>> \o BE(c, 2) \o b
                      sum == Complement(Ip6(1) \o Ip6(2) \o BE(Len(m(0)), 4) \o <<0, 0, 0, 58>> \o m(0))
                  IN L2(34525, V6(58, m(sum)))
UDP6 == LET m(c) == <<4, 0, 0, 9, 0, 10>> \o BE(c, 2) \o <<7, 8>>
        IN L2(34525, V6(17, m(Complement(Ip6(1) \o Ip6(2) \o <<0, 0, 0, 10, 0, 0, 0, 17>> \o m(0)))))

Name(labels) == FlattenSeq([i \in DOMAIN labels |-> <<Len(labels[i])>> \o labels[i]]) \o <<0>>
Query == <<0, 9, 1, 0, 0, 1, 0, 1, 0, 0, 0, 0>> \o Name(<<<<119>>, <<97, 98>>>>) \o <<0, 1, 0, 1>>
           \o <<192, 12, 0, 5, 0, 1, 0, 0, 0, 60, 0, 4, 1, 109, 192, 14>>
Discover == <<1, 1, 6, 0, 0, 0, 0, 7, 0, 0, 128, 0>> \o Zeros(16) \o HostA \o Zeros(10 + 192) \o MAGIC
              \o <<3, 8, 10, 0, 0, 1, 10, 0, 0, 2, 12, 2, 104, 105, 51, 4, 255, 0, 14, 16, 53, 1, 1, 0, 54, 1, 9, 0, 255>>
Lldp == <<2, 7, 4>> \o HostA \o <<4, 2, 7, 49, 6, 2, 0, 120, 10, 2, 104, 105, 14, 4, 0, 20, 0, 4,
          16, 12, 5, 1, 10, 0, 0, 1, 2, 0, 0, 0, 1, 0, 254, 4, 0, 38, 225, 0, 0, 0>>
Arp == <<0, 1, 8, 0, 6, 4, 0, 1>> \o HostA \o BE(Ip(1), 4) \o Zeros(6) \o BE(Ip(2), 4)

Whole == {
  L2(ARP_TYPE, Arp), L2(32821, Arp), L2(35020, Lldp), L2(34958, <<1, 1, 0, 0>>), L2(34958, <<1, 0, 0, 4, 3, 7, 0, 4>>),
  L2(34887, <<0, 1, 0, 63, 0, 2, 1, 63, 69, 0>>), L2(4, <<66, 66, 3, 0>>), L2(4, <<66, 66, 2, 9, 1>>), L2(4, <<0, 0>>),
  L2(8, <<170, 170, 3, 0, 0, 0, 8, 0>> \o EncodeNetwork(UDP(9, 10, <<1>>).net)), L2(8, <<170, 170, 3, 0, 0, 12, 32, 0, 1>>),
  L2(32769, <<1, 2, 3>>),
  UDP(9, 10, <<7, 8, 9>>), Tagged(UDP(9, 10, <<7>>)), UDP(9, 520, <<2, 2, 0, 0, 0, 2, 0, 0>> \o BE(Ip(0), 4) \o Zeros(12)),
  UDP(9, 53, Query), UDP(68, 67, Discover),
  TCP(5, <<>>, <<1, 2>>), TCP(11, <<2, 4, 5, 180, 1, 3, 3, 7, 4, 2, 8, 10, 0, 0, 0, 1, 255, 0, 0, 0, 1, 1, 1, 1>>, <<>>),
  TCP(8, <<30, 12, 0, 1, 1, 2, 3, 4, 5, 6, 7, 8>>, <<9>>), TCP(8, <<30, 8, 32, 1, 0, 0, 0, 5, 1, 1, 1, 1>>, <<>>),
  TCP(11, <<30, 24, 16, 1>> \o [i \in 1..20 |-> i], <<>>),
  ICMP(8, <<0, 1, 0, 2, 5>>), ICMP(3, <<0, 0, 0, 0>> \o EncodeNetwork(UDP(9, 10, <<>>).net)), ICMP(11, <<0, 0, 0, 0, 1>>),
  ICMP(13, <<0, 1>>), L3(2, [k |-> "raw", b |-> Summed(<<22, 0, 0, 0, 224, 0, 0, 5>>, 2)]), L3(89, [k |-> "raw", b |-> <<2, 1>>]),
  [UDP(9, 10, <<7, 8>>) EXCEPT !.net.frag = 1], UDP6, ICMP6(128, <<0, 1, 0, 2, 5>>), ICMP6(143, <<0, 0>>),
  ICMP6(133, Zeros(4) \o <<1, 1>> \o HostA), ICMP6(135, Zeros(4) \o Ip6(2) \o <<1, 1>> \o HostA \o <<14, 1>> \o Zeros(6)),
  ICMP6(136, <<224, 0, 0, 0>> \o Ip6(2) \o <<2, 1>> \o HostA), L2(34525, V6(59, <<>>)), L2(34525, V6(89, <<1, 2>>)) }

\* The sources: whole frames, with padding where IP has a length of its own; the same cut off;
\* and some that do not survive a switch, or not as they are.
IsIP(s) == s.net.k = "ip4" \/ s.net.type = 34525
\* LLDP, EAP and IPv6 raise when they end too early.
Fragile(s) == s.net.k = "raw" /\ s.net.type \in {35020, 34958, 34525}
Unpadded(s) == Source(Encode(s), s, TRUE, ~Fragile(s))
WithPadding(s) == Source(Encode(s) \o <<0, 0>>, s, TRUE, ~Fragile(s))
Odd == {
  \* IP options; a RIP tail; options of TCP that are not written as they were read.
  Source(HostB \o HostA \o <<8, 0, 70, 0, 0, 33, 0, 7, 0, 0, 64, 17, 0, 0, 10, 0, 0, 1, 10, 0, 0, 2, 1, 1, 1, 1, 0, 9, 0, 10, 0, 9, 0, 0, 5>>, Opaque, FALSE, FALSE),
  Source(Encode(UDP(9, 520, <<2, 2, 0, 0>> \o [i \in 1..24 |-> i])), Opaque, TRUE, TRUE),
  Source(Encode(TCP(8, <<1, 1, 5, 10>> \o [i \in 1..8 |-> i], <<>>)), Opaque, FALSE, FALSE),
  Source(Encode(TCP(9, <<30, 16, 32, 4, 0, 0, 0, 1, 0, 0, 0, 2>> \o Zeros(4), Zeros(9))), Opaque, FALSE, FALSE),
  Source(Encode(TCP(7, <<77, 3, 1, 0, 0, 0, 0, 0>>, <<9>>)), Opaque, FALSE, FALSE),
  Source(Encode(ICMP6(134, <<64, 192, 7, 8>> \o Zeros(8) \o <<3, 4, 64, 192>> \o Zeros(12) \o Ip6(0) \o <<5, 1, 0, 0, 0, 0, 5, 220>>)), Opaque, FALSE, FALSE),
  Source(Encode(ICMP6(2, <<0, 0, 5, 0>>)), Opaque, FALSE, FALSE), Source(Encode(ICMP6(1, <<0, 0, 0, 0>>)), Opaque, FALSE, FALSE),
  Source(HostB \o HostA \o <<129, 0, 16, 5, 8, 6>> \o Arp, Opaque, FALSE, FALSE),
  Source(Encode(L2(34525, V6(0, <<17, 0, 1, 4, 0, 0, 0, 0, 0, 9, 0, 10, 0, 9, 0, 0, 5>>))), Opaque, FALSE, FALSE) }

MCSources == {Unpadded(s) : s \in Whole} \union {WithPadding(s) : s \in {x \in Whole : IsIP(x)}} \union Odd
MCCuts == 6..75
MCEdits == {[act |-> "set_vlan_vid", v |-> 7], [act |-> "set_vlan_pcp", v |-> 2], [act |-> "strip_vlan", v |-> 0],
            [act |-> "set_dl_src", mac |-> HostB], [act |-> "set_dl_dst", mac |-> HostA], [act |-> "set_nw_src", v |-> Ip(9)],
            [act |-> "set_nw_dst", v |-> Ip(8)], [act |-> "set_nw_tos", v |-> 4], [act |-> "set_tp_src", v |-> 77],
            [act |-> "set_tp_dst", v |-> 520]}
=============================================================================
