----------------------------- MODULE Addresses -----------------------------
(* pox/lib/addresses.py: Ethernet, IPv4 and IPv6 addresses and networks, read from and written  *)
(* as text or numbers.  An address is the sequence of its bytes.  Of a text the model keeps     *)
(* what its readers see: the hexadecimal digits of the groups of an Ethernet address, the       *)
(* segments of an IPv6 address (None for an empty one) and the dotted quad that may end it.     *)
EXTENDS Matches

CONSTANTS
  Addresses6, Addresses4, AddressesE,   \* the addresses that are passed on
  Networks,                             \* the networks: <<first address, bits>>
  MaxReads                              \* bound: times that a text is read

BadAddress == <<"raised">>

(* ------------------------------------- bits ------------------------------------- *)
Width(a) == 8 * Len(a)
AddressBit(a, i) == LET j == i - 1 IN (a[(j \div 8) + 1] \div (2 ^ (7 - (j % 8)))) % 2
\* The first b bits of an address: a & ~((1 << wild) - 1).
Masked(a, b) ==
  [i \in DOMAIN a |-> LET k == b - 8 * (i - 1) IN
     IF k >= 8 THEN a[i] ELSE IF k <= 0 THEN 0 ELSE a[i] - (a[i] % (2 ^ (8 - k)))]

cidr_to_netmask(bits, width) == Masked([i \in 1..width \div 8 |-> 255], bits)
LeadingOnes(m) ==
  CHOOSE n \in 0..Width(m) : /\ \A i \in 1..n : AddressBit(m, i) = 1
                             /\ n < Width(m) => AddressBit(m, n + 1) = 0
netmask_to_cidr(m) ==
  LET n == LeadingOnes(m) IN IF m = cidr_to_netmask(n, Width(m)) THEN n ELSE None

(* ----------------------------------- networks ----------------------------------- *)
\* Network bits by the classes of old; no case is left for class E.
infer_netmask(a) ==
  CASE a = Zeros(4)           -> 0
    [] AddressBit(a, 1) = 0          -> 8
    [] a[1] \in 128..191      -> 16
    [] a[1] \in 192..223      -> 24
    [] a[1] \in 224..239      -> 32
    [] OTHER                  -> None

\* The text of a network: an address, and nothing, a number of bits, or a netmask.
Plain(a) == [addr |-> a, by |-> "nothing"]
WithBits(a, n) == [addr |-> a, by |-> "bits", bits |-> n]
WithMask(a, m) == [addr |-> a, by |-> "mask", mask |-> m]

\* The host part of a network has to be zero.
Checked(a, bits) == IF Masked(a, bits) = a THEN <<a, bits>> ELSE BadAddress
parse_cidr(t, infer) ==
  LET a == t.addr
      bits == CASE t.by = "bits" -> IF t.bits \in 0..Width(a) THEN t.bits ELSE None
                [] t.by = "mask" -> netmask_to_cidr(t.mask)
                [] ~infer        -> Width(a)
                [] OTHER -> LET b == infer_netmask(a) IN
                            IF b # None /\ Masked(a, b) # a THEN Width(a) ELSE b
  IN IF bits = None THEN BadAddress ELSE Checked(a, bits)

\* IPv6 has no classes to infer anything from.  No address is in what parse_cidr raises for, nor
\* does the code get to an answer then.
Infers(a) == Len(a) = 4
in_network(a, t) ==
  LET n == parse_cidr(t, Infers(a)) IN n # BadAddress /\ Masked(a, n[2]) = n[1]

(* --------------------------------- IPv4 as numbers --------------------------------- *)
\* As signed numbers: toSigned, and toUnsigned above 2^31.
toSigned(a, networkOrder) == Num(IF networkOrder THEN Reverse(a) ELSE a)
IPAddr(n, networkOrder) == IF networkOrder THEN Reverse(BE(n, 4)) ELSE BE(n, 4)
ip_is_multicast(a) == a[1] \div 32 = 7
\* The Ethernet address of a group keeps 23 bits.
multicast_ethernet_address(a) ==
  IF ip_is_multicast(a) THEN <<1, 0, 94, a[2] % 128, a[3], a[4]>> ELSE BadAddress

(* ------------------------------------ Ethernet ------------------------------------ *)
\* Hexadecimal digits in groups: six of them, or one of twelve digits.
Digits(b) == <<b \div 16, b % 16>>
toStr(e) == [i \in 1..6 |-> Digits(e[i])]
Together(e) == <<FlattenSeq(toStr(e))>>
\* Groups without their leading zeros.
Loosely(e) == [i \in 1..6 |-> IF e[i] < 16 THEN <<e[i]>> ELSE Digits(e[i])]
TextLength(g) == FoldLeft(LAMBDA n, x : n + Len(x), Len(g) - 1, g)
\* "%02x" of a group.
Padded(x) == IF Len(x) = 1 THEN <<0>> \o x ELSE x
Pairs(d) == [i \in 1..6 |-> 16 * d[2 * i - 1] + d[2 * i]]
\* Twelve characters are twelve digits to the code: one that is a colon raises ValueError.
EthAddr(g) ==
  CASE TextLength(g) = 17 -> IF \A i \in DOMAIN g : Len(g[i]) = 2 THEN Pairs(FlattenSeq(g)) ELSE BadAddress
    [] TextLength(g) = 12 -> IF Len(g) = 1 THEN Pairs(g[1]) ELSE BadAddress
    [] Len(g) = 6 -> Pairs(FlattenSeq([i \in 1..6 |-> Padded(g[i])]))
    [] OTHER -> BadAddress
isLocal(e) == (e[1] \div 2) % 2 = 1
isMulticast(e) == e[1] % 2 = 1
isBridgeFiltered(e) == SubSeq(e, 1, 5) = <<1, 128, 194, 0, 0>> /\ e[6] <= 15

(* -------------------------------------- IPv6 -------------------------------------- *)
Text6(segs, v4) == [segs |-> segs, v4 |-> v4]
Words6(a) == [i \in 1..8 |-> 256 * a[2 * i - 1] + a[2 * i]]
is_ipv4_mapped(a) == in_network(a, WithBits(Zeros(10) \o <<255, 255>> \o Zeros(4), 96))
Kinds6 ==
  {[kind |-> "multicast", net |-> <<255, 0>>, bits |-> 8], [kind |-> "global", net |-> <<32, 0>>, bits |-> 3],
   [kind |-> "local", net |-> <<252, 0>>, bits |-> 7], [kind |-> "link", net |-> <<254, 128>>, bits |-> 10],
   [kind |-> "ipv4", net |-> <<0, 0>>, bits |-> 80], [kind |-> "compatible", net |-> <<0, 0>>, bits |-> 96]}
\* is_multicast, is_global_unicast and the like.
Kind6(a) == {k.kind : k \in {k \in Kinds6 : in_network(a, WithBits(k.net \o Zeros(14), k.bits))}}
is_ipv4(a) == in_network(a, WithBits(Zeros(16), 80))
to_ipv4(a, check_ipv4) == IF check_ipv4 /\ ~is_ipv4(a) THEN BadAddress ELSE SubSeq(a, 13, 16)

\* The runs of zeros, as <<position, length>>; the first of the longest may be left out.
Runs(o) ==
  {<<i, n>> \in (1..8) \X (1..8) :
     /\ i + n <= 9 /\ \A j \in i..i + n - 1 : o[j] = 0
     /\ i > 1 => o[i - 1] # 0
     /\ i + n <= 8 => o[i + n] # 0}
Longest(o) ==
  CHOOSE r \in Runs(o) : \A s \in Runs(o) : s[2] < r[2] \/ (s[2] = r[2] /\ s[1] >= r[1])
\* "::" between two lists: the empty string on a side without segments.
Around(l, r) == (IF l = <<>> THEN <<None>> ELSE l) \o <<None>> \o (IF r = <<>> THEN <<None>> ELSE r)
\* Variant: a single zero is left out, too.
HasSectionAny(o) == Runs(o) # {}
HasSection(o) == \E r \in Runs(o) : r[2] > 1

to_str(a, section_drop, ipv4) ==
  LET o == IF ipv4 THEN SubSeq(Words6(a), 1, 6) \o <<1, 1>> ELSE Words6(a)
      r == Longest(o)
      segs == IF section_drop /\ HasSection(o)
              THEN Around(SubSeq(o, 1, r[1] - 1), SubSeq(o, r[1] + r[2], 8)) ELSE o
  IN IF ipv4 THEN Text6(SubSeq(segs, 1, Len(segs) - 2), to_ipv4(a, FALSE)) ELSE Text6(segs, <<>>)

\* Segments go left of the first empty one or right of it; what is missing in between is zero.
IPAddr6(t) ==
  LET segs == IF t.v4 = <<>> THEN t.segs ELSE t.segs \o <<0, 0>>
      gaps == {i \in DOMAIN segs : segs[i] = None}
      first == IF gaps = {} THEN Len(segs) + 1 ELSE CHOOSE i \in gaps : \A j \in gaps : i <= j
      number(s) == SelectSeq(s, LAMBDA x : x # None)
      left == SubSeq(segs, 1, first - 1)
      right == number(SubSeq(segs, first, Len(segs)))
      o == left \o Zeros(8 - Len(left) - Len(right)) \o right
      v == FlattenSeq([i \in DOMAIN o |-> BE(o[i], 2)])
  IN IF Len(segs) \notin 3..8 THEN BadAddress
     ELSE IF t.v4 = <<>> THEN v ELSE SubSeq(v, 1, 12) \o t.v4

\* The host part that an Ethernet address gives.
set_mac(a, e) ==
  SubSeq(a, 1, 8) \o <<IF isLocal(e) THEN e[1] - 2 ELSE e[1] + 2, e[2], e[3], 255, 254, e[4], e[5], e[6]>>

(* ------------------------------------ behaviour ------------------------------------ *)
\* An address, or a network, is written by one component and read by another, again and again.
VARIABLES
  kind,     \* what is passed on: "eth", "ip4", "ip6", "net"
  given,    \* what was meant
  held,     \* what the last reader understood
  text,     \* what was written last, and in which form
  reads
addressVars == <<kind, given, held, text, reads>>

Unwritten == [form |-> "none"]
AddressInit ==
  /\ \/ kind = "eth" /\ given \in AddressesE
     \/ kind = "ip4" /\ given \in Addresses4
     \/ kind = "ip6" /\ given \in Addresses6
     \/ kind = "net" /\ given \in Networks
  /\ held = given /\ text = Unwritten /\ reads = 0

Texts(h) ==
  CASE kind = "eth" -> {[form |-> "groups", t |-> t] : t \in {toStr(h), Together(h), Loosely(h)}}
    [] kind = "ip4" -> {[form |-> "number", t |-> toSigned(h, n), networkOrder |-> n] : n \in BOOLEAN}
    [] kind = "ip6" -> {[form |-> "segments", t |-> to_str(h, s, v)] : s \in BOOLEAN, v \in {TRUE, is_ipv4_mapped(h)}}
    [] kind = "net" ->
         {[form |-> "network", t |-> t] : t \in
            {WithBits(h[1], h[2]), WithMask(h[1], cidr_to_netmask(h[2], Width(h[1])))}
              \union (IF h[2] = Width(h[1]) THEN {Plain(h[1])} ELSE {})}

Reading(x) ==
  CASE x.form = "groups"   -> EthAddr(x.t)
    [] x.form = "number"   -> IPAddr(x.t, x.networkOrder)
    [] x.form = "segments" -> IPAddr6(x.t)
    [] x.form = "network"  -> parse_cidr(x.t, FALSE)

WriteText == /\ text = Unwritten /\ reads < MaxReads /\ held # BadAddress
         /\ text' \in Texts(held)
         /\ UNCHANGED <<kind, given, held, reads>>
ReadText == /\ text # Unwritten
            /\ held' = Reading(text) /\ text' = Unwritten /\ reads' = reads + 1
            /\ UNCHANGED <<kind, given>>
AddressNext == WriteText \/ ReadText

\* Six groups of seven digits look like one of twelve.
MistakenForDigits(e) == TextLength(Loosely(e)) = 12
\* Whatever an address or a network is written as, its reader has the same, unless it takes the
\* groups of an Ethernet address for one of twelve digits, and raises; a network has the
\* addresses in it that differ from its first one after its bits, and no others, however its text
\* says how many these are, or by its class if it does not say; and the addresses made for the host
\* part of two Ethernet addresses differ.  Groups share an Ethernet address, a multicast one that
\* bridges pass on, when they differ in the five bits after the first four alone; and an IPv6 address
\* is of one kind, told by its first digits, with those of IPv4 either mapped or compatible.
Flipped(a, i) ==
  LET j == (i + 7) \div 8
      p == 2 ^ (8 * j - i)
  IN [a EXCEPT ![j] = IF AddressBit(a, i) = 1 THEN @ - p ELSE @ + p]
ByClass(a) ==
  LET n == IF a[1] = 0 THEN 0 ELSE IF a[1] < 128 THEN 8 ELSE IF a[1] < 192 THEN 16 ELSE IF a[1] < 224 THEN 24 ELSE 32
  IN IF \A i \in n + 1..32 : AddressBit(a, i) = 0 THEN n ELSE 32
TextKept ==
  /\ \/ held = given
     \/ kind = "eth" /\ MistakenForDigits(given) /\ held = BadAddress
  /\ kind = "net" /\ text # Unwritten =>
       LET bits == IF text.t.by = "nothing" /\ Len(given[1]) = 4 THEN ByClass(given[1]) ELSE given[2]
           near == {1, bits, bits + 1, Width(given[1])} \intersect 1..Width(given[1])
       IN \A i \in near : in_network(Flipped(given[1], i), text.t) = (i > bits)
  /\ kind = "ip4" /\ ip_is_multicast(given) =>
       LET e == multicast_ethernet_address(given)
       IN /\ isMulticast(e) /\ ~isLocal(e) /\ ~isBridgeFiltered(e)
          /\ \A i \in 5..32 : (multicast_ethernet_address(Flipped(given, i)) = e) = (i <= 9)
  /\ kind = "ip6" =>
       LET w == Words6(given)[1]
           v4 == {"ipv4", "compatible"}
       IN /\ Cardinality(Kind6(given) \ v4) <= 1 /\ (Kind6(given) \subseteq v4 \/ Kind6(given) \intersect v4 = {})
          /\ "multicast" \in Kind6(given) <=> w >= 65280
          /\ "global" \in Kind6(given) <=> w \in 8192..16383
          /\ "local" \in Kind6(given) <=> w \in 64512..65023
          /\ "link" \in Kind6(given) <=> w \in 65152..65215
          /\ ~("compatible" \in Kind6(given) /\ is_ipv4_mapped(given))
          /\ is_ipv4_mapped(given) => "ipv4" \in Kind6(given) /\ to_ipv4(given, TRUE) # BadAddress
  /\ kind = "eth" => \A e \in AddressesE : set_mac(Zeros(16), e) = set_mac(Zeros(16), given) => e = given
=============================================================================
