-------------------------------- MODULE DHCP --------------------------------
(* pox/proto/dhcpd.py and pox/proto/dhcp_client.py: a server with a pool of addresses, POX      *)
(* clients with their states and timers, and other hosts, on a network that loses, duplicates,  *)
(* delays and reorders messages.  Addresses are the host numbers of the subnet of the pool.     *)
(* Replies are broadcast, and the number of an exchange (xid) leads them to the client that     *)
(* asked: it is "last" if the client still waits for its reply, or "old".                       *)
EXTENDS Integers, Sequences, FiniteSets

CONSTANTS
  Clients,          \* ports of switches with a DHCPClient
  OtherHosts,       \* other hosts
  Count, Own,       \* the pool has the addresses 1 .. Count; the server's own, or None
  AutoAccept,       \* the clients take the first offer nobody rejects
  Opinions,         \* what listeners may say of an offer: "none", "accept", "reject"
  TotalTimeout, DiscoverTimeout, OfferTimeout, RequestTimeout,
  MaxOffers, MaxFaults,               \* bounds: offers heard, connections lost and clients restarted,
  MaxAsked                            \* and messages of other hosts

None == 0
Addrs == 1..Count
Macs == Clients \union OtherHosts

DHCPShape ==
  /\ Clients \intersect OtherHosts = {}
  /\ Count \in Nat /\ Own \in 0..Count
  /\ Opinions \subseteq {"none", "accept", "reject"}
  /\ {TotalTimeout, DiscoverTimeout, OfferTimeout, RequestTimeout} \subseteq Nat
  /\ {MaxOffers, MaxFaults, MaxAsked} \subseteq Nat

VARIABLES
  removed,    \* addresses taken from the pool
  offered,    \* DHCPD.offers: the address offered to a host
  leases,     \* the address leased to a host
  client,     \* the DHCPClient at each port
  connected,  \* ports whose switch is connected
  net,        \* messages that have been sent, each to arrive any number of times
  faults
serverVars == <<removed, offered, leases>>
dhcpVars == <<serverVars, client, connected, net, faults>>

Msg(type, mac, xid, addr) == [type |-> type, mac |-> mac, xid |-> xid, addr |-> addr]

(* ------------------------------------ the server ------------------------------------ *)
Server == [removed |-> removed, offered |-> offered, leases |-> leases]
Pool(s) == Addrs \ s.removed
\* Variant: what has gone is not looked at.
FirstUnchecked(s) == (Cardinality(s.removed) % Count) + 1
\* pool[0]: the search starts further on, the more addresses have gone.
First(s) ==
  LET start == Cardinality(s.removed) % Count
      at(d) == ((start + d) % Count) + 1
      free == {d \in 0..Count - 1 : at(d) \in Pool(s)}
  IN at(CHOOSE d \in free : \A e \in free : d <= e)

Taken(s, a) == [s EXCEPT !.removed = @ \union {a}]
\* An address goes back to the pool, to which it must not belong.
Back(s, a) == [s EXCEPT !.removed = @ \ {a}]

\* Each returns the server and its reply: Offer, Ack, Nak, or none, also where the handler raises.
Answer(s, ms) == [server |-> s, reply |-> ms]
exec_discover(s, m) ==
  LET mac == m.mac
      offer == IF m.addr \in Pool(s) THEN m.addr ELSE First(s)
      with(t, a) == Answer([t EXCEPT !.offered[mac] = a], {Msg("offer", mac, m.xid, a)})
  IN CASE s.leases[mac] # None  -> with([s EXCEPT !.leases[mac] = None], s.leases[mac])
       [] s.leases[mac] = None /\ s.offered[mac] # None -> with(s, s.offered[mac])
       [] OTHER -> IF Pool(s) = {} THEN Answer(s, {Msg("nak", mac, m.xid, None)})
                   ELSE with(Taken(s, offer), offer)

\* Variant: the address is forgotten.
ReturnedNever(s, mac, held, wanted) == s
\* A lease, and then an offer, of another address goes back first.
Returned(s, mac, held, wanted) ==
  IF held[mac] \in {None, wanted} THEN s ELSE Back(s, held[mac])
Raises(s, mac, held, wanted) == held[mac] \notin {None, wanted} /\ held[mac] \notin s.removed
exec_request(s, m, vetoed) ==
  LET mac == m.mac
      wanted == m.addr
      leased == s.leases[mac] = wanted
      s1 == IF leased THEN s
            ELSE [Returned(s, mac, s.leases, wanted) EXCEPT !.leases[mac] = None]
      given == leased \/ s.offered[mac] = wanted
      s2 == IF given THEN s1
            ELSE [Returned(s1, mac, s.offered, wanted) EXCEPT !.offered[mac] = None]
      s3 == IF given THEN s1 ELSE Taken(s2, wanted)
      nak == {Msg("nak", mac, m.xid, None)}
  IN IF Raises(s, mac, s.leases, wanted) THEN Answer(s, {})
     ELSE IF ~given /\ Raises(s1, mac, s.offered, wanted) THEN Answer(s1, {})
     ELSE IF ~given /\ wanted \notin Pool(s2) THEN Answer(s2, nak)
     ELSE Answer([s3 EXCEPT !.leases[mac] = wanted],
                 IF vetoed THEN nak ELSE {Msg("ack", mac, m.xid, wanted)})

exec_release(s, m) ==
  IF s.leases[m.mac] # m.addr THEN Answer(s, {})
  ELSE Answer(IF m.addr \in s.removed THEN Back([s EXCEPT !.leases[m.mac] = None], m.addr)
              ELSE [s EXCEPT !.leases[m.mac] = None], {})

\* A reply to an old message is ignored; so is a "nak": the handler means to go back to INIT, and raises.
Awaited(r) == r.mac \in Clients /\ r.xid = "last" /\ r.type # "nak"
\* _handle_PacketIn; listeners of DHCPLease may call nak().
Serve(m, vetoed) ==
  /\ m.type \in {"discover", "request", "release"}
  /\ vetoed => m.type = "request"
  /\ LET a == CASE m.type = "discover" -> exec_discover(Server, m)
                [] m.type = "request"  -> exec_request(Server, m, vetoed)
                [] m.type = "release"  -> exec_release(Server, m)
     IN /\ removed' = a.server.removed /\ offered' = a.server.offered /\ leases' = a.server.leases
        /\ net' = net \union {r \in a.reply : Awaited(r)}
  /\ UNCHANGED <<client, connected, faults>>

Held(mac) == {offered[mac], leases[mac]} \ {None}
\* Another host sends what a DHCP client may send.
HostSends(h) ==
  /\ \E type \in {"discover", "request", "release"}, a \in Addrs \union {None} :
       /\ type # "discover" => a # None
       /\ type = "release" => leases[h] = a
       /\ Cardinality({m \in net : m.mac \in OtherHosts}) < MaxAsked
       /\ net' = net \union {Msg(type, h, "old", a)}
  /\ UNCHANGED <<serverVars, client, connected, faults>>

(* ------------------------------------ the clients ------------------------------------ *)
Off == -1
New == [state |-> "NEW", listening |-> FALSE, offers |-> <<>>, requested |-> None, bound |-> None,
        sends |-> "nothing",   \* by the handler
        total |-> Off, discover |-> Off, offer |-> Off, request |-> Off, lost |-> FALSE]
Timers == {"total", "discover", "offer", "request"}

\* What a state needs ends with it.
Left(k) ==
  CASE k.state = "INIT"       -> [k EXCEPT !.discover = Off]
    [] k.state = "SELECTING"  -> [k EXCEPT !.offer = Off]
    [] k.state = "REQUESTING" -> [k EXCEPT !.request = Off, !.requested = None]
    [] OTHER                  -> k
Listens(state) == state \notin {"IDLE", "ERROR", "BOUND"}

\* Sending raises when the switch is not connected: what should come after it does not.
Discovering(k, up) ==
  LET k1 == [k EXCEPT !.offers = <<>>]
  IN IF up THEN [k1 EXCEPT !.sends = "discover", !.discover = DiscoverTimeout] ELSE k1
Requesting(k, up) == IF up THEN [k EXCEPT !.sends = "request", !.request = RequestTimeout] ELSE k
\* Variant: each discovery has all the time again.
EnteredAnew(k, old, up) ==
  IF k.state = "INIT" THEN Discovering([k EXCEPT !.total = TotalTimeout], up)
  ELSE CASE k.state = "SELECTING"  -> [k EXCEPT !.offer = OfferTimeout]
         [] k.state = "REQUESTING" -> Requesting(k, up)
         [] k.state = "BOUND"      -> [k EXCEPT !.total = Off]
         [] OTHER                  -> k
\* INIT is only to be entered from NEW and from itself; the state has changed when that is found.
Entered(k, old, up) ==
  CASE k.state = "INIT"       -> IF old = "NEW" THEN Discovering([k EXCEPT !.total = TotalTimeout], up)
                                 ELSE IF old = "INIT" THEN Discovering(k, up) ELSE k
    [] k.state = "SELECTING"  -> [k EXCEPT !.offer = OfferTimeout]
    [] k.state = "REQUESTING" -> Requesting(k, up)
    [] k.state = "BOUND"      -> [k EXCEPT !.total = Off]
    [] OTHER                  -> k

\* The setter of state.  The flows for replies are sent when it begins or ends to listen.
SetState(k, new, up) ==
  LET k1 == [Left(k) EXCEPT !.listening = Listens(new)]
      setter == IF k.state = "REQUESTING" /\ new = "BOUND" THEN [k1 EXCEPT !.bound = k.requested] ELSE k1
  IN IF k.listening # Listens(new) /\ ~up THEN setter
     ELSE Entered([setter EXCEPT !.state = new, !.requested = IF new = "REQUESTING" THEN k.requested ELSE @], k.state, up)

\* The first accepted offer, or the first that was not rejected, unless a listener of DHCPOffers
\* accepts another.
do_accept(k, chosen, up) ==
  LET that(ops) == {i \in DOMAIN k.offers : k.offers[i].accept \in ops}
      least(s) == CHOOSE i \in s : \A j \in s : i <= j
      i == IF chosen # None THEN chosen
           ELSE IF that({"accept"}) # {} THEN least(that({"accept"}))
           ELSE IF that({"none"}) # {} THEN least(that({"none"})) ELSE None
  IN IF i = None THEN SetState(k, "IDLE", up)
     ELSE SetState([k EXCEPT !.requested = k.offers[i].addr], "REQUESTING", up)

exec_offer(k, m, opinion, chosen, up) ==
  LET accept == IF AutoAccept /\ opinion # "reject" THEN "accept" ELSE opinion
      k1 == [k EXCEPT !.offers = Append(@, [addr |-> m.addr, accept |-> accept])]
  IN IF AutoAccept /\ opinion # "reject" THEN do_accept(k1, chosen, up) ELSE k1

\* A message with a new number: those before it, and the replies to them, are old.
Aged(c, asked, answered) ==
  {IF m.mac = c /\ m.type \in asked THEN [m EXCEPT !.xid = "old"] ELSE m :
     m \in {m \in net : m.mac # c \/ m.type \notin answered}}
Sent(c, k) ==
  CASE k.sends = "discover" -> Aged(c, {"discover"}, {"offer"}) \union {Msg("discover", c, "last", None)}
    [] k.sends = "request"  -> Aged(c, {"request"}, {"ack"}) \union {Msg("request", c, "last", k.requested)}
    [] k.sends = "nothing"  -> net
Becomes(c, k) ==
  /\ client' = [client EXCEPT ![c] = [k EXCEPT !.sends = "nothing"]] /\ net' = Sent(c, k)
  /\ UNCHANGED <<serverVars, connected, faults>>

Up(c) == c \in connected
Choices(n) == IF "accept" \in Opinions THEN 0..n ELSE {None}
Start(c, known) ==
  /\ client[c].state = "NEW" /\ Up(c)
  /\ Becomes(c, SetState(client[c], IF known THEN "INIT" ELSE "ERROR", TRUE))
Hear(c, m) ==
  LET k == client[c] IN
  /\ m.mac = c /\ Up(c) /\ k.listening
  /\ \/ /\ m.type = "offer" /\ k.state \in {"INIT", "SELECTING"}
        /\ Len(k.offers) < MaxOffers
        /\ \E opinion \in Opinions, chosen \in Choices(Len(k.offers) + 1) :
             LET k1 == IF k.state = "INIT" THEN SetState(k, "SELECTING", TRUE) ELSE k
             IN Becomes(c, exec_offer(k1, m, opinion, chosen, TRUE))
     \/ /\ m.type = "ack" /\ k.state = "REQUESTING"
        /\ Becomes(c, SetState(k, "BOUND", TRUE))

Due(t) == {c \in Clients : client[c][t] = 0}
Fire(c, t) ==
  /\ c \in Due(t)
  /\ LET k == [client[c] EXCEPT ![t] = Off] IN
     CASE t \in {"discover", "request"} -> Becomes(c, SetState(k, "INIT", Up(c)))
       [] t = "total"                   -> Becomes(c, SetState(k, "ERROR", Up(c)))
       [] t = "offer"                   -> \E chosen \in Choices(Len(k.offers)) : Becomes(c, do_accept(k, chosen, Up(c)))

(* ------------------------------------ surroundings ------------------------------------ *)
Connect(c) == /\ ~Up(c) /\ connected' = connected \union {c}
              /\ UNCHANGED <<serverVars, client, net, faults>>
Lose(c) == /\ Up(c) /\ faults < MaxFaults
           /\ connected' = connected \ {c} /\ faults' = faults + 1
           /\ client' = [client EXCEPT ![c].lost = TRUE]
           /\ UNCHANGED <<serverVars, net>>
\* The controller of a client starts anew; the numbers of its exchanges are others.
Restart(c) == /\ client[c].state # "NEW" /\ faults < MaxFaults /\ faults' = faults + 1
              /\ client' = [client EXCEPT ![c] = New]
              /\ net' = Aged(c, {"discover", "request"}, {"offer", "ack"})
              /\ UNCHANGED <<serverVars, connected>>
Tick ==
  /\ \A t \in Timers : Due(t) = {}
  /\ \E c \in Clients, t \in Timers : client[c][t] > 0
  /\ client' = [c \in Clients |-> [f \in DOMAIN client[c] |->
                   IF f \in Timers /\ client[c][f] > 0 THEN client[c][f] - 1 ELSE client[c][f]]]
  /\ UNCHANGED <<serverVars, connected, net, faults>>

DHCPInit ==
  /\ removed = {Own} \ {None}
  /\ offered = [m \in Macs |-> None] /\ leases = [m \in Macs |-> None]
  /\ client = [c \in Clients |-> New]
  /\ connected \in SUBSET Clients
  /\ net = {} /\ faults = 0
Progress == \/ \E c \in Clients : \/ \E known \in BOOLEAN : Start(c, known)
                                  \/ \E t \in Timers : Fire(c, t)
            \/ Tick
DHCPNext ==
  \/ Progress
  \/ \E m \in net : \/ \E vetoed \in BOOLEAN : Serve(m, vetoed)
                    \/ \E c \in Clients : Hear(c, m)
  \/ \E h \in OtherHosts : HostSends(h)
  \/ \E c \in Clients : Connect(c) \/ Lose(c) \/ Restart(c)
DHCPSpec == DHCPInit /\ [][DHCPNext]_dhcpVars /\ WF_dhcpVars(Progress)

(* ------------------------------------ properties ------------------------------------ *)
InUse == UNION {Held(m) : m \in Macs}
Bound == {c \in Clients : client[c].bound # None}
\* Whatever is lost, comes late or comes twice, and whoever releases an address and asks for it
\* again: a host's offer and lease are of one address; no address is lost, taken from the pool for
\* a host that has it no more; and a client that is bound has the address that the server keeps
\* for it, whose offer it was.
AddressesKept ==
  /\ \A m \in Macs : Cardinality(Held(m)) <= 1
  /\ removed \subseteq InUse \union {Own}
  /\ \A c \in Bound : Held(c) = {client[c].bound}

\* What append() checks of an address that comes back, and what a pool is for: no address of the
\* pool is leased, and no two hosts have leases of the same.  The code breaks it: the offer stays
\* when the address is leased, and leases it once more after it was released.
Leased(m) == leases[m] # None
AddressesApart ==
  \A m \in Macs : Leased(m) => leases[m] \notin Pool(Server)
                             /\ \A n \in Macs : n # m => leases[n] # leases[m]

\* A client ends: bound for good, or with the error that says it is not in time, unless its switch
\* goes away.
Finishes ==
  \A c \in Clients : <>[](client[c].state \in {"BOUND", "ERROR"} \/ client[c].lost \/ ~Up(c))
=============================================================================
