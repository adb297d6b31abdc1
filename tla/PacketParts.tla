---------------------------- MODULE PacketParts ----------------------------
(* The packet library: what its classes have in common, the protocols that carry no others, and *)
(* those over UDP: RIP, DNS and DHCP.                                                           *)
(* A packet is a record of its class, its fields and what it carries (next).  A packet whose    *)
(* parse gave up is its bytes; an exception in a parse or a hdr is kept where it happens, for   *)
(* it only ends the whole at the top.                                                           *)
EXTENDS Wire

Nothing == [class |-> "None"]
Data(b) == [class |-> "bytes", b |-> b]
Unparsed(c, b) == [class |-> c, parsed |-> FALSE, b |-> b]
Parsed(c, fields, next) == [class |-> c, parsed |-> TRUE, next |-> next] @@ fields
ParseRaised == [class |-> "raised", parsed |-> TRUE, next |-> Nothing]
\* The bytes of a pack that raises hold this mark, and so do those of all around it.
PackRaised == <<-1>>
HasRaised(b) == \E i \in DOMAIN b : b[i] = -1

\* The fields at the start of b, and the bytes of the fields of o.
Fields(b, fs) ==
  LET at[i \in DOMAIN fs] == IF i = 1 THEN 0 ELSE at[i - 1] + fs[i - 1].w
      Field(i) == CASE fs[i].k = "num"  -> Num(Slice(b, at[i], fs[i].w))
                    [] fs[i].k = "raw"  -> Slice(b, at[i], fs[i].w)
                    [] fs[i].k = "rest" -> SubSeq(b, at[i] + 1, Len(b))
  IN [name \in {fs[i].f : i \in DOMAIN fs} |-> Field(CHOOSE i \in DOMAIN fs : fs[i].f = name)]
Written(o, fs) == FlattenSeq([i \in DOMAIN fs |-> IF fs[i].k = "num" THEN BE(o[fs[i].f], fs[i].w) ELSE o[fs[i].f]])
After(b, n) == SubSeq(b, n + 1, Len(b))

\* packet_base.find, by class.
RECURSIVE find(_, _)
find(o, c) == IF o.class \in {"None", "bytes"} THEN Nothing
              ELSE IF o.class = c /\ o.parsed THEN o
              ELSE IF o.parsed THEN find(o.next, c) ELSE Nothing

\* The Internet checksum: two folds of the carries are enough.
RECURSIVE SumOf(_, _, _)
SumOf(f, lo, hi) == IF lo > hi THEN 0 ELSE IF lo = hi THEN f[lo]
                    ELSE LET mid == (lo + hi) \div 2 IN SumOf(f, lo, mid) + SumOf(f, mid + 1, hi)
Words(b) == SumOf([i \in DOMAIN b |-> IF i % 2 = 1 THEN 256 * b[i] ELSE b[i]], 1, Len(b))
Fold(n) == (n \div 65536) + (n % 65536)
checksum(b) ==
  LET sum == Fold(Words(b))
  IN 65535 - ((sum + (sum \div 65536)) % 65536)

(* ----------------------------------- arp ----------------------------------- *)
ArpFields == <<U("hwtype", 2), U("prototype", 2), U("hwlen", 1), U("protolen", 1), U("opcode", 2), Raw("hwsrc", 6),
               U("protosrc", 4), Raw("hwdst", 6), U("protodst", 4)>>
arp(b) == IF Len(b) < 28 \/ SubSeq(b, 1, 6) # <<0, 1, 8, 0, 6, 4>> THEN Unparsed("arp", b)
          ELSE Parsed("arp", Fields(b, ArpFields), Data(After(b, 28)))

(* ----------------------------------- igmp ----------------------------------- *)
IgmpFields == <<U("ver_and_type", 1), U("max_response_time", 1), U("csum", 2), U("address", 4), Rest("extra")>>
igmp_hdr(o) == LET at(n) == Written([o EXCEPT !.csum = n], IgmpFields) IN at(checksum(at(0)))
\* A message with a wrong checksum is left as it is.
igmp(b) == IF Len(b) < 8 THEN Unparsed("igmp", b)
           ELSE LET v == Fields(b, IgmpFields) IN
                IF igmp_hdr(v) = b THEN Parsed("igmp", v, Nothing) ELSE Unparsed("igmp", b)

(* ------------------------------- eap and eapol ------------------------------- *)
EapFields == <<U("code", 1), U("id", 1), U("length", 2)>>
\* Requests and responses have a type, of which nothing but the presence is looked at.
eap(b) == IF Len(b) < 4 THEN Unparsed("eap", b)
          ELSE IF b[1] \in {1, 2} /\ Len(b) = 4 THEN ParseRaised
          ELSE Parsed("eap", Fields(b, EapFields), Nothing)
EapolFields == <<U("version", 1), U("type", 1), U("bodylen", 2)>>
eapol(b) == IF Len(b) < 4 THEN Unparsed("eapol", b)
            ELSE Parsed("eapol", Fields(b, EapolFields), IF b[2] = 0 THEN eap(After(b, 4)) ELSE Nothing)

(* ----------------------------------- lldp ----------------------------------- *)
\* A management address: its own length, the address, an interface and an object identifier,
\* which may be cut short; bytes that follow are dropped.
AddressLen(d) == d[1] - 1
management_address(d) ==
  LET n == AddressLen(d)
      addr == SubSeq(d, 3, 2 + n)
      oid == SubSeq(d, n + 9, IF n + 8 + d[n + 8] > Len(d) THEN Len(d) ELSE n + 8 + d[n + 8])
  IN <<Len(addr) + 1, d[2]>> \o addr \o SubSeq(d, n + 3, n + 7) \o <<Len(oid)>> \o oid
chassis_id(d) == <<d[1]>> \o After(d, 1)
ttl(d) == BE(Num(d), 2)
\* Capabilities and which are enabled: two sets of bits.
system_capabilities(d) ==
  LET Bits(n) == {k \in 0..15 : (n \div 2^k) % 2 = 1}
      Word(bits) == MapThenSumSet(LAMBDA k : 2^k, bits)
  IN BE(Word(Bits(Num(Slice(d, 0, 2)))), 2) \o BE(Word(Bits(Num(Slice(d, 2, 2)))), 2)
organizationally_specific(d) == Slice(d, 0, 3) \o <<d[4]>> \o After(d, 4)
\* A string of a type that has no class of its own, or no structure, is its bytes.
simple_tlv(t, d) ==
  [type |-> t, data |-> CASE t \in {1, 2} -> chassis_id(d)
                          [] t = 3   -> ttl(d)
                          [] t = 7   -> system_capabilities(d)
                          [] t = 8   -> management_address(d)
                          [] t = 127 -> organizationally_specific(d)
                          [] OTHER   -> d]
tlv_pack(t) == BE(512 * t.type + (Len(t.data) % 512), 2) \o t.data
\* What _parse_data of the type refuses.
Malformed(t, d) ==
  CASE t \in {1, 2} -> Len(d) < 2
    [] t = 3   -> Len(d) # 2
    [] t = 0   -> Len(d) # 0
    [] t = 7   -> Len(d) # 4
    [] t = 8   -> Len(d) < 2 \/ (Len(d) >= 1 /\ Len(d) < AddressLen(d) + 8)
    [] t = 127 -> Len(d) < 4
    [] OTHER   -> FALSE

\* The information strings from the offset on: the first three have to be those of the chassis,
\* the port and the time to live, the last one the end.  The length is compared without the two
\* bytes of the header, so that what misses at most two bytes raises.
RECURSIVE tlvs(_, _, _)
tlvs(b, off, ts) ==
  LET left == Len(b) - off
      type == b[off + 1] \div 2
      n == 256 * (b[off + 1] % 2) + b[off + 2]
      d == Slice(b, off + 2, n)
      i == Len(ts) + 1
      tlv == simple_tlv(type, d)
  IN IF left < 2 THEN Unparsed("lldp", b)
     ELSE IF left < n THEN Unparsed("lldp", b)
     ELSE IF left < n + 2 THEN ParseRaised
     ELSE IF Malformed(type, d) THEN ParseRaised
     ELSE IF i <= 3 /\ type # i THEN Unparsed("lldp", b)
     ELSE IF i > 3 /\ type = 0 THEN Parsed("lldp", [tlvs |-> Append(ts, tlv)], Nothing)
     ELSE tlvs(b, off + 2 + n, Append(ts, tlv))
lldp(b) == IF Len(b) < 14 THEN Unparsed("lldp", b) ELSE tlvs(b, 0, <<>>)
lldp_hdr(o) == FlattenSeq([i \in DOMAIN o.tlvs |-> tlv_pack(o.tlvs[i])])

(* ----------------------------------- rip ----------------------------------- *)
\* Entries of 20 bytes; what is left over is dropped.
rip(b) == IF Len(b) < 24 \/ SubSeq(b, 3, 4) # <<0, 0>> THEN Unparsed("rip", b)
          ELSE Parsed("rip", [command |-> b[1], version |-> b[2], entries |-> Slice(b, 4, 20 * ((Len(b) - 4) \div 20))], Nothing)
rip_hdr(o) == <<o.command, o.version, 0, 0>> \o o.entries

(* ----------------------------------- dns ----------------------------------- *)
\* A name is a sequence of labels.  Only ten bits of a pointer are looked at, and a circle of
\* pointers raises.
RECURSIVE read_dns_name(_, _, _)
read_dns_name(b, i, pointers) ==
  IF i >= Len(b) THEN [bad |-> TRUE]
  ELSE IF b[i + 1] >= 192 THEN
    IF i + 1 >= Len(b) \/ pointers > Len(b) THEN [bad |-> TRUE]
    ELSE LET r == read_dns_name(b, 256 * (b[i + 1] % 4) + b[i + 2], pointers + 1) IN
         IF r.bad THEN r ELSE [r EXCEPT !.next = i + 2]
  ELSE IF b[i + 1] = 0 THEN [bad |-> FALSE, next |-> i + 1, name |-> <<>>]
  ELSE LET r == read_dns_name(b, i + 1 + b[i + 1], pointers) IN
       IF r.bad THEN r ELSE [r EXCEPT !.name = <<Slice(b, i + 1, b[i + 1])>> \o @]

NameTypes == {2, 5, 12, 15}
\* NS, PTR, CNAME and MX hold names, of which the priority of MX is dropped.
get_rddata(b, qtype, off, n) ==
  IF qtype \in NameTypes THEN read_dns_name(b, IF qtype = 15 THEN off + 2 ELSE off, 0)
  ELSE [bad |-> (qtype = 1 /\ n # 4) \/ (qtype = 28 /\ n # 16), name |-> Slice(b, off, n)]

question(name, qtype, qclass) == [name |-> name, qtype |-> qtype, qclass |-> qclass, rr |-> FALSE]
rr_of(q, ttl_of, rddata) == [q EXCEPT !.rr = TRUE] @@ [ttl |-> ttl_of, rddata |-> rddata]

\* n questions (rr = FALSE) or resource records from the offset on.
RECURSIVE Records(_, _, _, _)
Following(r, rest) == IF rest.bad THEN rest ELSE [rest EXCEPT !.rs = <<r>> \o @]
Record(b, name, fixed, n, rr) ==
  LET at(i, w) == Num(Slice(b, name.next + i, w)) IN
  IF name.bad THEN name
  ELSE IF name.next + fixed > Len(b) THEN [bad |-> TRUE]
  ELSE LET stop == name.next + fixed + (IF rr THEN at(8, 2) ELSE 0)
           Told(data) ==
             IF rr /\ data.bad THEN [bad |-> TRUE]
             ELSE Following(IF rr THEN rr_of(question(name.name, at(0, 2), at(2, 2)), at(4, 4), data.name)
                            ELSE question(name.name, at(0, 2), at(2, 2)), Records(b, stop, n - 1, rr))
       IN IF stop > Len(b) THEN [bad |-> TRUE]
          ELSE Told(get_rddata(b, at(0, 2), name.next + 10, stop - name.next - 10))
Records(b, off, n, rr) ==
  IF n = 0 THEN [bad |-> FALSE, off |-> off, rs |-> <<>>]
  ELSE Record(b, read_dns_name(b, off, 0), IF rr THEN 10 ELSE 4, n, rr)

\* The questions, and three lists of records after them.
RECURSIVE Lists(_, _, _)
Joined(lists, next) == IF next.bad THEN next ELSE [next EXCEPT !.rs = Append(lists.rs, @)]
Lists(lists, b, i) ==
  IF lists.bad \/ i = 4 THEN lists
  ELSE Lists(Joined(lists, Records(b, lists.off, Num(Slice(b, 4 + 2 * i, 2)), i > 0)), b, i + 1)
DnsMessage(b, lists) ==
  IF lists.bad THEN Unparsed("dns", b)
  ELSE Parsed("dns", [id |-> Slice(b, 0, 2), flags |-> Slice(b, 2, 2), questions |-> lists.rs[1], answers |-> lists.rs[2],
                      authorities |-> lists.rs[3], additional |-> lists.rs[4]], Nothing)
dns(b) ==
  IF Len(b) < 12 THEN Unparsed("dns", b)
  ELSE DnsMessage(b, Lists([bad |-> FALSE, off |-> 12, rs |-> <<>>], b, 0))

makeName(name) == FlattenSeq([i \in DOMAIN name |-> <<Len(name[i])>> \o name[i]])
\* The name of the root is taken to be an empty label and the end.
Terminated(name) == (IF name = <<>> THEN <<0>> ELSE makeName(name)) \o <<0>>
FindIn(s, t) == {k \in 0..(Len(s) - Len(t)) : Slice(s, k, Len(t)) = t}

\* Writes a name after w.s: its longest suffix that is there already, or that name_map has, is
\* a pointer.  i labels have been tried.
RECURSIVE putName(_, _, _)
putName(w, name, i) ==
  LET post == After(name, i)
      found == FindIn(w.s, Terminated(post))
      known == IF found # {} THEN found ELSE IF post \in DOMAIN w.name_map THEN {w.name_map[post]} ELSE {}
      noted == [w EXCEPT !.name_map = (name :> Len(w.s)) @@ @]
  IN IF known # {} THEN
       [(IF i > 0 THEN noted ELSE w) EXCEPT !.s = @ \o makeName(SubSeq(name, 1, i)) \o BE(49152 + Min(known), 2)]
     ELSE IF i + 1 < Len(name) THEN putName(w, name, i + 1)
     ELSE IF name = <<>> THEN [w EXCEPT !.s = @ \o <<0>>]
     ELSE [noted EXCEPT !.s = @ \o makeName(name) \o <<0>>]

\* One record: the length of its data is written once the data is there.
Measured(w, at) == [w EXCEPT !.s = SubSeq(@, 1, at - 2) \o BE(Len(@) - at, 2) \o After(@, at)]
putData(w, r) ==
  IF ~r.rr THEN w
  ELSE Measured(IF r.qtype \in NameTypes THEN putName(w, r.rddata, 0) ELSE [w EXCEPT !.s = @ \o r.rddata], Len(w.s))
putRecord(w, r) ==
  putData([putName(w, r.name, 0) EXCEPT !.s =
             @ \o BE(r.qtype, 2) \o BE(r.qclass, 2) \o (IF r.rr THEN BE(r.ttl, 4) \o <<0, 0>> ELSE <<>>)], r)
RECURSIVE putRecords(_, _)
putRecords(w, rs) == IF rs = <<>> THEN w ELSE putRecords(putRecord(w, Head(rs)), Tail(rs))

\* One bit of the four of the opcode is not written back.
dns_hdr(o) ==
  LET rest == o.questions \o o.answers \o o.authorities \o o.additional
      start == o.id \o <<o.flags[1] - 8 * ((o.flags[1] \div 8) % 2), o.flags[2]>> \o BE(Len(o.questions), 2)
                 \o BE(Len(o.answers), 2) \o BE(Len(o.authorities), 2) \o BE(Len(o.additional), 2)
  IN putRecords([s |-> start, name_map |-> <<>>], rest).s

(* ----------------------------------- dhcp ----------------------------------- *)
DhcpFields == <<Raw("head", 12), Raw("addresses", 16), Raw("chaddr", 16), Raw("sname", 64), Raw("file", 128), Raw("magic", 4)>>
MAGIC == <<99, 130, 83, 99>>

\* Options until the end or what is cut off; those that are repeated are put together.
RECURSIVE parseOptions(_, _, _)
parseOptions(b, off, opts) ==
  IF off >= Len(b) THEN opts
  ELSE LET code == b[off + 1]
           value == Slice(b, off + 2, b[off + 2])
       IN IF code = 255 THEN opts
          ELSE IF code = 0 THEN parseOptions(b, off + 1, opts)
          ELSE IF off + 1 >= Len(b) THEN opts
          ELSE IF off + 2 + b[off + 2] > Len(b) THEN opts
          ELSE parseOptions(b, off + 2 + b[off + 2],
                 IF code \in DOMAIN opts THEN [opts EXCEPT ![code] = @ \o value] ELSE (code :> value) @@ opts)

\* Options with a class are read by it; what it refuses, and what has none, is kept as bytes.
\* The type of the overload is compared with numbers but is bytes: it never applies.
IPOptions == {1, 28, 50, 54}
IPsOptions == {3, 4, 6}
SecondsOptions == {51, 58, 59}
ByteOptions == {52, 53}
DHCPRawOption(v) == [k |-> "raw", v |-> v]
unpackOption(code, v) ==
  CASE code \in IPOptions \cup SecondsOptions /\ Len(v) = 4 -> [k |-> "number", v |-> Num(v)]
    [] code \in IPsOptions /\ Len(v) % 4 = 0 -> [k |-> "numbers", v |-> [i \in 1..(Len(v) \div 4) |-> Num(Slice(v, 4 * i - 4, 4))]]
    [] code \in ByteOptions /\ Len(v) = 1 -> [k |-> "byte", v |-> v[1]]
    [] OTHER -> DHCPRawOption(v)
packOption(o) ==
  CASE o.k = "number"  -> BE(o.v, 4)
    [] o.k = "numbers" -> FlattenSeq([i \in DOMAIN o.v |-> BE(o.v[i], 4)])
    [] o.k = "byte"    -> <<o.v>>
    [] o.k = "raw"     -> o.v
unpackOptions(opts) == [code \in DOMAIN opts |-> unpackOption(code, opts[code])]

\* Long options in parts of at most 255 bytes, each filled up to an even length.
Part(k, v) == <<k, Len(v)>> \o v \o Zeros(Len(v) % 2)
Parts(k, v) == IF Len(v) <= 255 THEN Part(k, v)
               ELSE FlattenSeq([i \in 1..((Len(v) + 254) \div 255) |->
                      Part(k, SubSeq(v, 255 * i - 254, IF 255 * i < Len(v) THEN 255 * i ELSE Len(v)))])
\* Options keep no order; here they are written by their codes.
RECURSIVE packOptions(_)
packOptions(opts) ==
  IF DOMAIN opts = {} THEN <<255>>
  ELSE LET k == Min(DOMAIN opts) IN Parts(k, packOption(opts[k])) \o packOptions([c \in DOMAIN opts \ {k} |-> opts[c]])

\* The field file is read where it is not, six bytes too early.
dhcp(b) ==
  IF Len(b) < 240 THEN Unparsed("dhcp", b)
  ELSE Parsed("dhcp", [Fields(b, DhcpFields) EXCEPT !.file = Slice(b, 102, 128)]
                        @@ [options |-> unpackOptions(parseOptions(After(b, 240), 0, <<>>)), raw_options |-> After(b, 240)], Nothing)
\* Without an Ethernet address there is no chaddr, without the magic number there are no
\* options, and hdr raises.  Options are packed if there are any.
dhcp_hdr(o) ==
  IF o.head[3] # 6 \/ o.magic # MAGIC THEN PackRaised
  ELSE Written([o EXCEPT !.chaddr = SubSeq(@, 1, 6) \o Zeros(10)], DhcpFields)
         \o (IF DOMAIN o.options = {} THEN o.raw_options ELSE packOptions(o.options))

(* Options: those of TCP and those of IPv6 Neighbor Discovery.  An option is kept as the bytes  *)
(* that its pack writes, which are not always those it was read from.                           *)

\* The header that checksums are made over; outside of IP there is none, and the checksum is 0.
PseudoHeader(prev, protocol, n) ==
  IF prev.class = "ipv4" THEN BE(prev.srcip, 4) \o BE(prev.dstip, 4) \o <<0, protocol>> \o BE(n, 2)
  ELSE prev.srcip \o prev.dstip \o BE(n, 4) \o <<0, 0, 0, protocol>>
TransportChecksum(prev, b) ==
  CASE prev.class = "ipv4" -> checksum(PseudoHeader(prev, prev.protocol, Len(b)) \o b)
    [] prev.class = "ipv6" -> checksum(PseudoHeader(prev, prev.next_header_type, Len(b)) \o b)
    [] OTHER -> 0

(* ----------------------------------- tcp ----------------------------------- *)
TcpFields == <<U("srcport", 2), U("dstport", 2), U("seq", 4), U("ack", 4), U("offres", 1), U("flags", 1), U("win", 2),
               U("csum", 2), U("urg", 2)>>
BadOption == [bad |-> TRUE]
Option(next, w) == [bad |-> FALSE, next |-> next, w |-> w]

\* Options of a known length are written as they were; SACK without its type and length, and
\* only where it is the last.
Fixed == (2 :> 4) @@ (3 :> 3) @@ (4 :> 2) @@ (8 :> 10)
\* Of the other options two bytes too many are kept.
Unknown(b, i, n) == LET end == i + 2 + n
                        d == SubSeq(b, i + 3, IF end < Len(b) THEN end ELSE Len(b))
                    IN Option(i + n, IF Len(d) + 2 > 255 THEN PackRaised ELSE <<b[i + 1], Len(d) + 2>> \o d)

Bit(x, n) == (x \div 2^n) % 2
\* A DSS with a data sequence number: the size of the acknowledgement is skipped a second time,
\* and its pack raises.
mp_dss_opt(b, i, n) ==
  LET f == b[i + 4]
      ack == 4 * Bit(f, 0) * (1 + Bit(f, 1))
      dsn == 4 * Bit(f, 2) * (1 + Bit(f, 3))
      next == i + 4 + ack + (IF dsn > 0 THEN ack + 8 ELSE 0)
  IN IF n # 4 + ack + dsn + 8 * Bit(f, 2) \/ next > Len(b) THEN BadOption
     ELSE Option(next, IF dsn > 0 THEN PackRaised ELSE [Slice(b, i, n) EXCEPT ![3] = 32])

\* The key of one end or the keys of both.
mp_capable_opt(b, i, n) == IF n \in {12, 20} THEN Option(i + n, Slice(b, i, n)) ELSE BadOption
\* Token and number of the first message, HMAC (cut short) and number of the second, HMAC of
\* the third; they are told apart by their lengths.
mp_join_opt(b, i, n) == IF n \in {12, 16, 24} THEN Option(i + n, Slice(b, i, n)) ELSE BadOption

mptcp_opt(b, i, n) ==
  LET subtype == b[i + 3] \div 16 IN
  IF i + 3 > Len(b) THEN BadOption
  ELSE IF subtype > 2 THEN Unknown(b, i, n)
  ELSE IF i + 4 > Len(b) THEN BadOption
  ELSE CASE subtype = 0 -> mp_capable_opt(b, i, n)
         [] subtype = 1 -> mp_join_opt(b, i, n)
         [] subtype = 2 -> mp_dss_opt(b, i, n)

tcp_opt(b, i) ==
  LET t == b[i + 1]
      n == b[i + 2]
  IN CASE t \in DOMAIN Fixed -> IF n = Fixed[t] THEN Option(i + n, Slice(b, i, n)) ELSE BadOption
       [] t = 5  -> IF (n - 2) % 8 = 0 /\ i + n = Len(b) THEN Option(i + n, Slice(b, i + 2, n - 2)) ELSE BadOption
       [] t = 30 -> mptcp_opt(b, i, n)
       [] OTHER  -> Unknown(b, i, n)

\* The options from i on, to the end of the header or the option that says so.
RECURSIVE parse_options(_, _, _, _)
parse_options(b, hdr_len, i, os) ==
  LET o == tcp_opt(b, i) IN
  IF i >= hdr_len THEN [bad |-> FALSE, os |-> os]
  ELSE IF i >= Len(b) THEN BadOption
  ELSE IF b[i + 1] = 0 THEN [bad |-> FALSE, os |-> os]
  ELSE IF b[i + 1] = 1 THEN parse_options(b, hdr_len, i + 1, Append(os, <<1>>))
  ELSE IF i + 2 > Len(b) THEN BadOption
  ELSE IF i + b[i + 2] > Len(b) \/ b[i + 2] < 2 THEN BadOption
  ELSE IF o.bad THEN BadOption
  ELSE parse_options(b, hdr_len, o.next, Append(os, o.w))

tcp(b) ==
  LET v == Fields(b, TcpFields)
      hdr_len == 4 * (v.offres \div 16)
      options == parse_options(b, hdr_len, 20, <<>>)
  IN IF Len(b) < 20 THEN Unparsed("tcp", b)
     ELSE IF hdr_len < 20 \/ hdr_len > Len(b) THEN Unparsed("tcp", b)
     ELSE IF options.bad THEN Unparsed("tcp", b)
     ELSE Parsed("tcp", [options |-> options.os] @@ v, Data(After(b, hdr_len)))
\* The offset is written as it was read, whatever the options have become.
tcp_hdr(o, prev, rest) ==
  LET at(csum) == Written([o EXCEPT !.csum = csum], TcpFields) \o FlattenSeq(o.options)
  IN at(TransportChecksum(prev, at(0) \o rest))

(* ------------------------------- Neighbor Discovery ------------------------------- *)
\* A flag byte of which only the first n bits are kept.
Flags(x, n) == x - (x % 2^(8 - n))
\* NDOptionBase.pack: the body is filled up to a multiple of eight bytes.
nd_pack_base(type, body) ==
  LET padded == body \o Zeros(ToEight(Len(body) + 2)) IN <<type, (Len(padded) + 2) \div 8>> \o padded
NdGeneric(d, i, n) == nd_pack_base(d[i + 1], Slice(d, i + 2, n - 2))
\* The lengths of the options that have one, and what is written of an option of n bytes after
\* the first i: two kinds do without type and length.
NdLength == (1 :> 6) @@ (2 :> 6) @@ (3 :> 30) @@ (5 :> 6)
nd_pack(d, i, n) ==
  CASE d[i + 1] = 3 -> <<d[i + 3], Flags(d[i + 4], 2)>> \o Slice(d, i + 4, 8) \o Zeros(4) \o Slice(d, i + 16, 16)
    [] d[i + 1] = 5 -> Zeros(2) \o Slice(d, i + 4, 4)
    [] OTHER        -> NdGeneric(d, i, n)
\* NDOptionBase.unpack_new.
nd_unpack(d, i) ==
  LET n == 8 * d[i + 2] IN
  IF n = 0 THEN [end |-> "raised"]
  ELSE IF Len(d) - i < n THEN [end |-> "truncated", os |-> <<>>]
  ELSE IF d[i + 1] \in DOMAIN NdLength /\ n - 2 # NdLength[d[i + 1]] THEN [end |-> "raised"]
  ELSE [end |-> "read", next |-> i + n, w |-> nd_pack(d, i, n)]

RECURSIVE ndp_options(_, _, _)
ndp_options(d, i, os) ==
  LET left == Len(d) - i
      o == nd_unpack(d, i)
  IN IF left <= 2 THEN [end |-> "done", os |-> os]
     ELSE IF left % 8 # 0 THEN [end |-> "raised"]
     ELSE IF o.end # "read" THEN o
     ELSE ndp_options(d, o.next, Append(os, o.w))

\* The messages of Neighbor Discovery: the bytes before the options and how they are written.
\* The advertisement of a router gets four bytes more than it had, and loses its flags when an
\* option is cut off.
NdFixed == (133 :> 4) @@ (134 :> 12) @@ (135 :> 20) @@ (136 :> 20)
nd_head(type, d, complete) ==
  CASE type = 133 -> Zeros(4)
    [] type = 134 -> Zeros(4) \o <<d[1], IF complete THEN Flags(d[2], 2) ELSE 0>> \o Slice(d, 2, 10)
    [] type = 135 -> Zeros(4) \o Slice(d, 4, 16)
    [] type = 136 -> <<Flags(d[1], 3)>> \o Zeros(3) \o Slice(d, 4, 16)
nd_message(type, d) ==
  LET os == ndp_options(d, NdFixed[type], <<>>) IN
  IF type # 133 /\ Len(d) < NdFixed[type] THEN ParseRaised
  ELSE IF os.end = "raised" THEN ParseRaised
  ELSE Parsed("nd", [options |-> os.os, head |-> nd_head(type, d, os.end = "done")], Nothing)
============================================================================
