---------------------------- MODULE DCellRouting ----------------------------
(***************************************************************************)
(* The route computation of the controller, Controller._build_route in     *)
(* pox/ext/dcell_controller.py, as a function of the set of broken links.  *)
(* The code interleaves the computation with the messages it sends; here a *)
(* call returns, in order, the entries (a switch and its output port) it   *)
(* adds for the host pair, and how it ends:                                *)
(*   raised - the recursion never ends by itself, so Python stops it with  *)
(*            an exception after LIMIT nested calls;                       *)
(*   gap    - it logged "no proxy node" or "cannot handle rack failure"    *)
(*            and gave up on a part of the route.                          *)
(***************************************************************************)
EXTENDS DCellAddr

LOCAL INSTANCE SequencesExt

CONSTANTS DCELL_K, DCELL_N,
          LIMIT         \* nested calls before Python raises RuntimeError

ASSUME RoutingConstants ==
  DCELL_K \in Nat /\ DCELL_N \in Nat \ {0} /\ LIMIT \in Nat \ {0}

NumHosts == count_nodes(DCELL_K, DCELL_N).num_hosts
NumSwitches == count_nodes(DCELL_K, DCELL_N).num_switches
Hosts == 1..NumHosts
HostPairs == {p \in Hosts \X Hosts : p[1] # p[2]}

\* Tuple of every host, and the tuples the recursion ranges over.
HostTuple == [h \in Hosts |-> tuple_id(h, DCELL_K, DCELL_N)]
Tuples == {HostTuple[h] : h \in Hosts}
IdOf(tuple) == host_id(tuple, DCELL_K, DCELL_N)

CommonPrefix(s, t) ==
  LET same(i) == \A j \in 1..i : s[j] = t[j]
  IN  SubSeq(s, 1, CHOOSE i \in 0..Len(s) :
                     same(i) /\ (i < Len(s) => ~same(i + 1)))

MiniDpid(host) == NumHosts + 1 + (host - 1) \div DCELL_N

\* A broken link is recorded once, lower switch first.
LinkOf(a, b) == IF a > b THEN <<b, a>> ELSE <<a, b>>

\* Variant: the lookup forgets to normalise the order.
IsBadLinkDirected(bad, a, b) == <<a, b>> \in bad

IsBadLink(bad, a, b) == LinkOf(a, b) \in bad

\* Variant: the two ends number their hosts the other way round.
MiddleLinkSwapped(pref, a, b) ==
  LET suffix(i) == tuple_id(i, DCELL_K - Len(pref) - 1, DCELL_N)
      end(c, d) == pref \o <<c>> \o suffix(IF c < d THEN d ELSE d + 1)
      wrong(c, d) == pref \o <<c>> \o suffix(IF c < d THEN c + 1 ELSE d + 1)
  IN  [src |-> wrong(a, b), dst |-> end(b, a)]

\* The link between sub-DCells a and b of the DCell pref, seen from a.
MiddleLink(pref, a, b) ==
  LET suffix(i) == tuple_id(i, DCELL_K - Len(pref) - 1, DCELL_N)
      low  == IF a > b THEN b ELSE a
      high == IF a > b THEN a ELSE b
      lowEnd  == pref \o <<low>> \o suffix(high)
      highEnd == pref \o <<high>> \o suffix(low + 1)
  IN  IF a > b THEN [src |-> highEnd, dst |-> lowEnd]
               ELSE [src |-> lowEnd, dst |-> highEnd]

\* Variant: only the next sub-DCell is tried, not the ones after it.
SelectProxyNext(bad, src, dst, pref) ==
  LET len   == Len(pref)
      cells == count_dcells(DCELL_K - len, DCELL_N)
      idx   == (src[len + 1] + 1) % cells
      mid   == MiddleLink(pref, src[len + 1], idx)
  IN  IF idx = dst[len + 1] \/ IsBadLink(bad, IdOf(mid.src), IdOf(mid.dst))
        THEN <<>> ELSE mid.dst

\* The far end of the first sound link out of src's sub-DCell, trying the
\* sub-DCells after it in cyclic order and leaving out dst's; <<>> if none.
SelectProxy(bad, src, dst, pref) ==
  LET len   == Len(pref)
      cells == count_dcells(DCELL_K - len, DCELL_N)
      idx(i) == (src[len + 1] + i) % cells
      mid(i) == MiddleLink(pref, src[len + 1], idx(i))
      usable == {i \in 1..(cells - 1) :
                   /\ idx(i) # dst[len + 1]
                   /\ ~IsBadLink(bad, IdOf(mid(i).src), IdOf(mid(i).dst))}
  IN  IF usable = {} THEN <<>>
      ELSE mid(CHOOSE i \in usable : \A j \in usable : i <= j).dst

\* What a call does, in order: entries it adds, parts it gives up, an exception.
Add(dpid, port) == [kind |-> "add", dpid |-> dpid, port |-> port]
Gap   == [kind |-> "gap", dpid |-> 0, port |-> 0]
Raise == [kind |-> "raise", dpid |-> 0, port |-> 0]

Steps == [kind : {"add", "gap", "raise"}, dpid : Nat, port : Nat]

\* _build_dcell_route: route[d, s, t] with d nested calls left.  What follows
\* the first Raise is not executed (BuildRoute cuts it off).
DCellRoute(bad) ==
  LET sameCell(s, t) ==
        LET mini == MiniDpid(IdOf(s))
        IN  IF IsBadLink(bad, mini, IdOf(s)) \/ IsBadLink(bad, mini, IdOf(t))
              THEN <<Gap>>
              ELSE <<Add(mini, (t[DCELL_K + 1] % DCELL_N) + 1), Add(IdOf(s), 2)>>
      route[d \in 0..LIMIT, s \in Tuples, t \in Tuples] ==
        LET pref == CommonPrefix(s, t)
            len  == Len(pref)
            mid  == MiddleLink(pref, s[len + 1], t[len + 1])
            proxy == SelectProxy(bad, s, t, pref)
        IN  IF s = t THEN <<>>
            ELSE IF d = 0 THEN <<Raise>>
            ELSE IF len = DCELL_K THEN sameCell(s, t)
            ELSE IF ~IsBadLink(bad, IdOf(mid.src), IdOf(mid.dst))
              THEN <<Add(IdOf(mid.src), DCELL_K - len + 2)>>
                     \o route[d - 1, s, mid.src] \o route[d - 1, mid.dst, t]
            ELSE IF proxy = <<>> THEN <<Gap>>
            ELSE route[d - 1, s, proxy] \o route[d - 1, proxy, t]
  IN  route

\* _build_route: the switches' part, then the last hop to the host.  Nothing
\* after the first exception is executed.
BuildRoute(src, dst, bad) ==
  LET upto[steps \in Seq(Steps)] ==
        LET raise == SelectInSeq(steps, LAMBDA e : e = Raise)
        IN  IF raise = 0 THEN steps ELSE SubSeq(steps, 1, raise)
      outcome[steps \in Seq(Steps)] ==
        [adds   |-> SelectSeq(steps, LAMBDA e : e.kind = "add"),
         raised |-> Contains(steps, Raise),
         gap    |-> Contains(steps, Gap)]
  IN  outcome[upto[DCellRoute(bad)[LIMIT, HostTuple[src], HostTuple[dst]] \o <<Add(dst, 1)>>]]

\* Each entry replaces the one its switch had for the pair: the last one stays.
Entries(adds) ==
  LET last(d) == CHOOSE i \in 1..Len(adds) :
                   adds[i].dpid = d /\ \A j \in (i + 1)..Len(adds) : adds[j].dpid # d
  IN  [d \in {adds[i].dpid : i \in DOMAIN adds} |-> adds[last(d)].port]
=============================================================================
