----------------------------- MODULE DCellAddr -----------------------------
(***************************************************************************)
(* The address arithmetic of pox/ext/comm.py.  A DCell_k with n hosts per  *)
(* DCell_0 is built from g_l = t_(l-1) + 1 copies of a DCell_(l-1), where  *)
(* t_l is the number of hosts of a DCell_l.  A host is named either by its *)
(* id, a number from 1 to t_k, or by a tuple of k + 1 indices that says in *)
(* which sub-DCell of every level it sits.  Python indexes a tuple from 0  *)
(* and TLA+ from 1: entry i of the list is entry i + 1 of the sequence.    *)
(***************************************************************************)
EXTENDS Integers, Sequences

LOCAL INSTANCE Folds
LOCAL INSTANCE SequencesExt

\* The hosts of a DCell_l and the mini-switches in it, for l from 0 to k.
LevelCounts(k, n) ==
  LET c[l \in 0..k] ==
        IF l = 0
          THEN [hosts |-> n, minis |-> 1]
          ELSE [hosts |-> c[l - 1].hosts * (c[l - 1].hosts + 1),
                minis |-> c[l - 1].minis * (c[l - 1].hosts + 1)]
  IN  c

\* Every host comes with a switch of its own, next to the mini-switches.
count_nodes(k, n) ==
  LET top == LevelCounts(k, n)[k]
  IN  [num_hosts |-> top.hosts, num_switches |-> top.minis + top.hosts]

\* The number of DCell_(k-1) in a DCell_k; 1 for a DCell_0.
count_dcells(k, n) ==
  IF k = 0 THEN 1 ELSE LevelCounts(k - 1, n)[k - 1].hosts + 1

\* The tuple of host id h: which sub-DCell of each level, then which host.
\* The first index is not reduced modulo the size of the whole DCell.
tuple_id(h, k, n) ==
  LET hosts(l)  == LevelCounts(k, n)[l].hosts
      within(i) == IF i = 1 THEN h - 1 ELSE (h - 1) % hosts(k + 1 - i)
  IN  [i \in 1..(k + 1) |-> IF i = k + 1
                              THEN (h - 1) % n
                              ELSE within(i) \div hosts(k - i)]

\* Variant: a DCell_l is taken for t_(l-1) DCell_(l-1)s, one too few.
host_id_square(tuple, k, n) ==
  LET weight[i \in 1..(k + 1)] ==
        IF i = k + 1 THEN 1
        ELSE IF i = k THEN n
        ELSE weight[i + 1] * weight[i + 1]
  IN  1 + FoldLeft(+, 0, [i \in 1..(k + 1) |-> tuple[i] * weight[i]])

\* The id of a tuple: each index weighs the hosts of the DCell it counts.
host_id(tuple, k, n) ==
  LET weight[i \in 1..(k + 1)] ==
        IF i = k + 1 THEN 1
        ELSE IF i = k THEN n
        ELSE weight[i + 1] * (weight[i + 1] + 1)
  IN  1 + FoldLeft(+, 0, [i \in 1..(k + 1) |-> tuple[i] * weight[i]])

-----------------------------------------------------------------------------
IP_BASE == 10 * 2^24

\* The low four bytes of a number, most significant first.
FourBytes(m) == [i \in 1..4 |-> (m \div 2^(8 * (4 - i))) % 256]

\* A MAC address is six bytes; host ids stay below 2^32.
mac_to_str(mac) == <<0, 0>> \o FourBytes(mac)

\* The dotted address of host h in 10.0.0.0/8; the mask is left out.
ip_to_str(ip) == FourBytes(ip + IP_BASE)

\* The MAC address of the host that owns a dotted address: what an ARP reply
\* of the controller carries.
ip_to_mac(ip) ==
  mac_to_str(FoldLeft(+, 0, [i \in 1..4 |-> ip[i] * 2^(8 * (4 - i))]) - IP_BASE)
=============================================================================
