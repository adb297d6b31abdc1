------------------------------ MODULE Matches ------------------------------
(* ofp_match of OpenFlow 1.0: twelve fields of a packet, each of which may be a wildcard, and   *)
(* networks for the two IP addresses.  A match is a record of its values and of its wildcards:  *)
(* the set wild of the fields with a bit of their own, and for nw_src and nw_dst the number of  *)
(* bits that do not count (32 and more: all).  None stands for Python's None.                   *)
EXTENDS Integers, FiniteSets, SequencesExt

(* ------------------------------ bytes on the wire ------------------------------ *)
\* What struct.pack and struct.unpack of Python produce and read in network order. A byte is a
\* number below 256, a string of bytes a sequence of them. Numbers of four bytes are kept in
\* two's complement, for TLC's integers have 32 bits: 0xffffffff (NO_BUFFER, OFPQ_ALL) is -1.
\* Numbers of eight bytes, Ethernet and IPv6 addresses are sequences of bytes from the start.

\* The number v in w <= 4 bytes.
BE(v, w) == [i \in 1..w |-> (v \div 256^(w - i)) % 256]

\* The number that one to four bytes stand for.
Num(b) ==
  CASE Len(b) = 1 -> b[1]
    [] Len(b) = 2 -> 256 * b[1] + b[2]
    [] Len(b) = 3 -> 65536 * b[1] + 256 * b[2] + b[3]
    [] OTHER      -> 16777216 * (IF b[1] < 128 THEN b[1] ELSE b[1] - 256)
                       + 65536 * b[2] + 256 * b[3] + b[4]

Zeros(n) == [i \in 1..n |-> 0]

\* n bytes of b after the first off of them: b[off:off+n].
Slice(b, off, n) == SubSeq(b, off + 1, off + n)

\* What has to be added to n to make it a multiple of 8.
ToEight(n) == (-n) % 8

\* s.ljust(w, '\0') and _readzs: strings are cut at the first zero, which may be followed by
\* zeros only.
Justified(s, w) == s \o Zeros(w - Len(s))
Stripped(b) == SelectSeq(b, LAMBDA x: x # 0)
IsZString(b) == \A i, j \in DOMAIN b : i < j /\ b[i] = 0 => b[j] = 0

None == -1

Prefixed == {"nw_src", "nw_dst"}
BitOf == [in_port |-> 1, dl_vlan |-> 2, dl_src |-> 4, dl_dst |-> 8, dl_type |-> 16, nw_proto |-> 32,
          tp_src |-> 64, tp_dst |-> 128, dl_vlan_pcp |-> 1048576, nw_tos |-> 2097152]
ofp_match_data == DOMAIN BitOf \union Prefixed

EMPTY_ETH == Zeros(6)
Default(f) == IF f \in {"dl_src", "dl_dst"} THEN EMPTY_ETH ELSE 0

IsWild(m, f) == CASE f = "nw_src" -> m.src >= 32
                  [] f = "nw_dst" -> m.dst >= 32
                  [] OTHER        -> f \in m.wild

\* ofp_match(**kw): what is not given is a wildcard with its default value; an address is a
\* pair of a number and the bits of its network.
Match(kw) ==
  [wild |-> DOMAIN BitOf \ DOMAIN kw,
   src  |-> IF "nw_src" \in DOMAIN kw THEN 32 - kw.nw_src[2] ELSE 32,
   dst  |-> IF "nw_dst" \in DOMAIN kw THEN 32 - kw.nw_dst[2] ELSE 32,
   val  |-> [f \in ofp_match_data |-> IF f \notin DOMAIN kw THEN Default(f)
                                      ELSE IF f \in Prefixed THEN kw[f][1] ELSE kw[f]]]

Get(m, f) == IF IsWild(m, f) THEN None ELSE m.val[f]
\* Equality of objects: the wildcards, and the values of what is not one.
MatchEq(m, o) == /\ <<m.wild, m.src, m.dst>> = <<o.wild, o.src, o.dst>>
                 /\ \A f \in ofp_match_data : IsWild(m, f) \/ m.val[f] = o.val[f]

\* Setting a field to None makes it a wildcard.
Unset(m, fs) ==
  [wild |-> m.wild \union (fs \ Prefixed),
   src  |-> IF "nw_src" \in fs THEN 32 ELSE m.src,
   dst  |-> IF "nw_dst" \in fs THEN 32 ELSE m.dst,
   val  |-> [f \in ofp_match_data |-> IF f \in fs THEN Default(f) ELSE m.val[f]]]

Is(m, f, v) == ~IsWild(m, f) /\ m.val[f] = v
HasTransport(m) == \E p \in {1, 6, 17} : Is(m, "nw_proto", p)
\* Fields that the type of the frame rules out.
Ignored(ip, arp, transport) ==
  CASE ip   -> IF transport THEN {} ELSE {"tp_src", "tp_dst"}
    [] arp  -> {"tp_src", "tp_dst", "nw_tos"}
    [] OTHER -> {"nw_tos", "nw_proto", "nw_src", "nw_dst", "tp_src", "tp_dst"}
Unmatchable(m) == Ignored(Is(m, "dl_type", 2048), Is(m, "dl_type", 2054), HasTransport(m))

fix(m) == Unset(m, Unmatchable(m))

(* ------------------------------- wildcards on the wire ------------------------------- *)
NormalBits(n) == IF n > 32 THEN 32 ELSE n
\* The wildcards as the number of the wire, and back.
WireNumber(wild, src, dst) == 256 * src + 16384 * dst + SumSet({BitOf[f] : f \in wild})
WildOf(n) == {f \in DOMAIN BitOf : (n \div BitOf[f]) % 2 = 1}
SrcOf(n) == (n \div 256) % 64
DstOf(n) == (n \div 16384) % 64

\* Wildcards of ignored fields are cleared for a flow_mod ...
wire_wildcards(m) ==
  LET fs == Unmatchable(m) IN
  WireNumber(m.wild \ fs, IF "nw_src" \in fs THEN 0 ELSE m.src, IF "nw_dst" \in fs THEN 0 ELSE m.dst)
\* Variant: the receiver takes the wildcards as they come.
unwire_unchanged(val, n) == [wild |-> WildOf(n), src |-> SrcOf(n), dst |-> DstOf(n)]

\* ... and set again by its receiver, which looks at the values, wildcard or not.
unwire_wildcards(val, n) ==
  LET fs == Ignored(val.dl_type = 2048, val.dl_type = 2054, val.nw_proto \in {1, 6, 17}) IN
  [wild |-> WildOf(n) \union (fs \ Prefixed),
   src  |-> IF "nw_src" \in fs THEN 63 ELSE SrcOf(n),
   dst  |-> IF "nw_dst" \in fs THEN 63 ELSE DstOf(n)]

MatchBytes(m, flow_mod) ==
  LET num(f) == IF IsWild(m, f) THEN 0 ELSE m.val[f]
      addr(f) == IF IsWild(m, f) THEN EMPTY_ETH ELSE m.val[f]
      ip(f)  == IF Is(m, "dl_type", 2048) THEN num(f) ELSE 0
      arp(f) == IF Is(m, "dl_type", 2048) \/ Is(m, "dl_type", 2054) THEN num(f) ELSE 0
      tp(f)  == IF Is(m, "dl_type", 2048) /\ HasTransport(m) THEN num(f) ELSE 0
  IN BE(IF flow_mod THEN wire_wildcards(m) ELSE WireNumber(m.wild, m.src, m.dst), 4)
       \o BE(num("in_port"), 2) \o addr("dl_src") \o addr("dl_dst")
       \o BE(num("dl_vlan"), 2) \o BE(num("dl_vlan_pcp"), 1) \o Zeros(1)
       \o BE(num("dl_type"), 2) \o BE(ip("nw_tos"), 1) \o BE(arp("nw_proto"), 1) \o Zeros(2)
       \o BE(arp("nw_src"), 4) \o BE(arp("nw_dst"), 4) \o BE(tp("tp_src"), 2) \o BE(tp("tp_dst"), 2)

Normal(w, val) == [wild |-> w.wild, src |-> NormalBits(w.src), dst |-> NormalBits(w.dst), val |-> val]
\* The match in the 40 bytes of b after the first off.
ReadMatch(b, off, flow_mod) ==
  LET at(i, w) == Slice(b, off + i, w)
      n   == Num(at(0, 4))
      val == [in_port |-> Num(at(4, 2)), dl_src |-> at(6, 6), dl_dst |-> at(12, 6),
              dl_vlan |-> Num(at(18, 2)), dl_vlan_pcp |-> Num(at(20, 1)), dl_type |-> Num(at(22, 2)),
              nw_tos |-> Num(at(24, 1)), nw_proto |-> Num(at(25, 1)), nw_src |-> Num(at(28, 4)),
              nw_dst |-> Num(at(32, 4)), tp_src |-> Num(at(36, 2)), tp_dst |-> Num(at(38, 2))]
  IN Normal(IF flow_mod THEN unwire_wildcards(val, n) ELSE [wild |-> WildOf(n), src |-> SrcOf(n), dst |-> DstOf(n)], val)

(* ------------------------------------ matching ------------------------------------ *)
\* IPAddr.inNetwork, for networks of whole bytes.
inNetwork(ip, net, bits) == LET n == bits \div 8 IN SubSeq(BE(ip, 4), 1, n) = SubSeq(BE(net, 4), 1, n)

\* m contains the network of o.
NetworkIncludes(m, o, f, w, ow) ==
  \/ w >= 32
  \/ ow <= w /\ inNetwork(o.val[f], m.val[f], 32 - w)

\* Does m cover everything that o does?  With wider_ok, wildcards of o are not looked at.
matches_with_wildcards(m, o, wider_ok) ==
  \/ MatchEq(m, o)
  \/ /\ wider_ok \/ o.wild \subseteq m.wild
     /\ \A f \in DOMAIN BitOf : IsWild(m, f) \/ Get(o, f) = m.val[f]
     /\ NetworkIncludes(m, o, "nw_src", m.src, o.src)
     /\ NetworkIncludes(m, o, "nw_dst", m.dst, o.dst)

(* ------------------------------ nx_match of Nicira ------------------------------ *)
(* The extensible match of Nicira: a sequence of entries, each with a type (vendor and field),  *)
(* a value and, if it has one, a mask of the same length.  An entry is a record of its type,    *)
(* its bytes, its mask (<<>>: none) and the flag that makes it pack a mask in any case.         *)

\* _make_nxm and _make_nxm_w: a registered type has a fixed number of bytes and may allow masks.
NXM(vendor, field, w, masked) == [t |-> <<vendor, field>>, w |-> w, masked |-> masked]
NXMTypes ==
  {NXM(0, i, 2, FALSE) : i \in {0, 3, 15}} \union {NXM(0, i, 6, TRUE) : i \in {1, 2}}
  \union {NXM(0, i, 2, TRUE) : i \in {4, 9, 10, 11, 12}} \union {NXM(0, i, 1, TRUE) : i \in {5, 6}}
  \union {NXM(0, i, 4, TRUE) : i \in {7, 8, 16, 17}} \union {NXM(0, i, 1, FALSE) : i \in {13, 14}}
  \union {NXM(1, i, 4, TRUE) : i \in 0..15 \union {31, 32}} \union {NXM(1, i, 8, TRUE) : i \in {16, 30}}
  \union {NXM(1, i, 6, FALSE) : i \in {17, 18, 24, 25}} \union {NXM(1, i, 16, TRUE) : i \in {19, 20, 23}}
  \union {NXM(1, i, 1, FALSE) : i \in {21, 22, 28, 29}} \union {NXM(1, 26, 1, TRUE), NXM(1, 27, 4, FALSE)}
  \union {NXM(1, 34, 2, TRUE), NXM(32768, 34, 4, FALSE), NXM(32768, 35, 1, FALSE), NXM(32768, 36, 1, FALSE)}
Registered(t) == \E c \in NXMTypes : c.t = t
NXMType(t) == CHOOSE c \in NXMTypes : c.t = t

Entry(t, value, mask) == [t |-> t, value |-> value, mask |-> mask, force |-> FALSE]
Ones(n) == [i \in 1..n |-> 255]

\* The header: type, whether there is a mask, and the bytes that follow.
NXMHeader(t, masked, n) == BE(t[1], 2) \o BE(2 * t[2] + (IF masked THEN 1 ELSE 0), 1) \o BE(n, 1)

\* A mask of ones says nothing and is left out, unless the entry came with a mask.
PackedMask(e) == CASE e.mask # <<>> /\ e.mask # Ones(Len(e.value)) -> e.mask
                   [] e.force -> Ones(Len(e.value))
                   [] OTHER   -> <<>>
\* A bit that is masked has to be zero.
BitsMasked(v, m) == \E k \in 0..7 : (v \div 2^k) % 2 = 1 /\ (m \div 2^k) % 2 = 0
EntryPacks(e) == \A i \in DOMAIN PackedMask(e) : ~BitsMasked(e.value[i], PackedMask(e)[i])
PackEntry(e) == LET m == PackedMask(e) IN
  NXMHeader(e.t, m # <<>>, Len(e.value) + Len(m)) \o e.value \o m

PackMatch(es) == FlattenSeq([i \in DOMAIN es |-> PackEntry(es[i])])

\* One entry after the first off bytes of b: [bad, off, e].
ReadEntry(b, off) ==
  IF off + 4 > Len(b) \/ off + 4 + (b[off + 4] % 128) > Len(b) THEN [bad |-> TRUE]
  ELSE LET t == <<Num(Slice(b, off, 2)), b[off + 3] \div 2>>
           masked == b[off + 3] % 2 = 1
           n == b[off + 4] % 128
           data == Slice(b, off + 4, n)
           w == IF masked THEN n \div 2 ELSE n
       IN [bad |-> \/ masked /\ n % 2 = 1
                   \/ Registered(t) /\ NXMType(t).w # w,
           off |-> off + 4 + n,
           e   |-> [t |-> t, value |-> SubSeq(data, 1, w), mask |-> SubSeq(data, w + 1, n), force |-> masked]]

\* nx_match.unpack: entries until avail bytes are used up.
RECURSIVE ReadEntries(_, _, _)
EntriesFrom(b, off, r, stop) ==
  IF r.bad THEN [bad |-> TRUE, off |-> off, es |-> <<>>]
  ELSE [ReadEntries(b, r.off, stop) EXCEPT !.es = <<r.e>> \o @]
ReadEntries(b, off, stop) ==
  IF off >= stop THEN [bad |-> FALSE, off |-> off, es |-> <<>>]
  ELSE EntriesFrom(b, off, ReadEntry(b, off), stop)

\* Equal entries have the same type, value and mask.
EntryEq(d, e) == d.t = e.t /\ d.value = e.value /\ d.mask = e.mask

(* ------------------------- flow_mod_spec of the learn action ------------------------- *)
\* Where a value comes from (a field, or the spec itself) and what it is for (a match, a field
\* to load, an output), each with its data, and the number of bits.
NX_LEARN_SRC_FIELD == 0
NX_LEARN_SRC_IMMEDIATE == 1
NX_LEARN_DST_MATCH == 0
NX_LEARN_DST_LOAD == 1
NX_LEARN_DST_OUTPUT == 2
Spec_(src, sdata, dst, ddata, n_bits) ==
  [src |-> [k |-> src, data |-> sdata], dst |-> [k |-> dst, data |-> ddata], n_bits |-> n_bits]
\* The data of a field: its header and an offset.
FieldData(c, ofs) == NXMHeader(c.t, FALSE, c.w) \o BE(ofs, 2)

PackSpec(s) == BE(8192 * s.src.k + 2048 * s.dst.k + s.n_bits, 2) \o s.src.data \o s.dst.data
PackSpecs(ss) == FlattenSeq([i \in DOMAIN ss |-> PackSpec(ss[i])])

\* __len__ of the two halves: what a receiver takes for their data.
SrcLen(k, n_bits) == IF k = NX_LEARN_SRC_FIELD THEN 6 ELSE 2 * ((n_bits + 15) \div 16)
DstLen(k, n_bits) == CASE k = NX_LEARN_DST_MATCH  -> 6
                       [] k = NX_LEARN_DST_LOAD   -> 2 * ((n_bits + 15) \div 16)
                       [] k = NX_LEARN_DST_OUTPUT -> 0

\* Specs until the bytes are used up or a zero says that the rest is padding.
RECURSIVE ReadSpecs(_, _, _)
ReadSpecs(b, off, stop) ==
  IF off >= stop THEN [bad |-> FALSE, off |-> off, ss |-> <<>>]
  ELSE IF off + 2 > Len(b) THEN [bad |-> TRUE, off |-> off, ss |-> <<>>]
  ELSE LET v == Num(Slice(b, off, 2))
           n == v % 1024
           s == (v \div 8192) % 2
           d == (v \div 2048) % 4
           o == off + 2 + SrcLen(s, n)
       IN IF v = 0 THEN [bad |-> FALSE, off |-> off, ss |-> <<>>]
          ELSE IF d = 3 THEN [bad |-> TRUE, off |-> off, ss |-> <<>>]
          ELSE IF o + DstLen(d, n) > Len(b) THEN [bad |-> TRUE, off |-> off, ss |-> <<>>]
          ELSE [ReadSpecs(b, o + DstLen(d, n), stop) EXCEPT !.ss =
                <<Spec_(s, Slice(b, off + 2, SrcLen(s, n)),
                                           d, Slice(b, o, DstLen(d, n)), n)>> \o @]
============================================================================
