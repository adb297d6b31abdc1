--------------------------- MODULE MessageStream ---------------------------
(* One direction of an OpenFlow connection: objects are packed into a stream of bytes, which    *)
(* arrive in pieces of any size, and the reader cuts messages out of its buffer, unpacks and    *)
(* handles them.  The reader is the controller (Connection.read) or the software switch         *)
(* (OFConnection.read); they differ in what they do about a message they cannot read.           *)
EXTENDS OFMessages

CONSTANTS
  ToSwitch, ToController,    \* what may be sent to either reader; see Item
  Afterwards,                \* what may be sent after another message
  MaxItems,                  \* bound on the things sent
  Chunks, MaxPieces          \* sizes of partial arrivals, and how many there may be

\* A thing to send is an object (m), perhaps made with a packet_in as its data (packet_in), or a
\* message of another implementation (m has the class "bytes").
NoPacket == [class |-> "none"]
Item(m, packet_in) == [m |-> m, packet_in |-> packet_in]

VARIABLES
  reader,    \* "controller" or "switch"
  items,     \* the things the sender was given, in order
  refused,   \* ... and the classes of those whose pack raised
  sent,      \* the messages in the stream
  wire,      \* bytes on the way
  buf,       \* bytes read and not consumed: Connection.buf, the worker's receive buffer
  handled,   \* the messages handled, in order
  errors,    \* the errors the switch answered with
  starting,  \* OFConnection.starting: no message was understood yet
  status,    \* "open", "closed", "stuck" (a switch that meets the same message at each read),
             \* "dead" (the switch's loop ended with an exception)
  pieces     \* partial arrivals so far
vars == <<reader, items, refused, sent, wire, buf, handled, errors, starting, status, pieces>>

(* ---------------------------------- sending ---------------------------------- *)
\* Numbers generated for xid: those of the messages that the library adds.
generated == 77

is_complete(p) == p.buffer_id # NO_BUFFER \/ Len(p.data) = p.total_len
ToTable == [class |-> "ofp_action_output", type |-> 0, port |-> OFPP_TABLE, max_len |-> 0]

\* Variant: the packet is released before the flow is installed for sure.
AddPacketAtOnce(m, p) ==
  IF p.buffer_id # NO_BUFFER THEN <<[m EXCEPT !.buffer_id = p.buffer_id]>>
  ELSE <<m, [class |-> "ofp_packet_out", version |-> OFP_VERSION, header_type |-> 13, xid |-> generated,
             buffer_id |-> NO_BUFFER, in_port |-> p.in_port, actions |-> <<ToTable>>, data |-> p.data]>>

\* The messages that pack makes of an object.  A flow_mod with a packet_in also releases the
\* packet: by its buffer, or with a barrier and a packet_out of its own.
AddPacket(m, p) ==
  IF ~is_complete(p) THEN <<m>>
  ELSE IF p.buffer_id # NO_BUFFER THEN <<[m EXCEPT !.buffer_id = p.buffer_id]>>
  ELSE <<[m EXCEPT !.buffer_id = NO_BUFFER],
         [class |-> "ofp_barrier_request", version |-> OFP_VERSION, header_type |-> 18, xid |-> generated],
         [class |-> "ofp_packet_out", version |-> OFP_VERSION, header_type |-> 13, xid |-> generated,
          buffer_id |-> NO_BUFFER, in_port |-> p.in_port, actions |-> <<ToTable>>, data |-> p.data]>>
\* ofp_packet_out.data: a packet_in stands for its buffer or its bytes.
TakePacket(m, p) ==
  [m EXCEPT !.buffer_id = p.buffer_id, !.in_port = p.in_port, !.data = IF p.buffer_id = NO_BUFFER THEN p.data ELSE <<>>]
Expand(it) == CASE it.packet_in = NoPacket -> <<it.m>>
                [] it.m.class = "ofp_flow_mod" -> AddPacket(it.m, it.packet_in)
                [] OTHER -> <<TakePacket(it.m, it.packet_in)>>

Classes == Messages \o NXMessageClasses
\* _validate of the classes that have one with an effect.
Valid(m) == CASE m.class = "ofp_packet_out" -> m.buffer_id = NO_BUFFER \/ m.data = <<>>
              [] m.class = "ofp_packet_in"  -> m.total_len >= Len(m.data)
              [] OTHER -> TRUE
\* Actions of Nicira are packed by classes of their own.
Wired(a) == LET s == NXAction(a.class) IN
            IF \E i \in DOMAIN NXActions : NXActions[i].c = a.class
            THEN [class |-> "ofp_action_vendor_generic", type |-> a.type, vendor |-> a.vendor,
                  body |-> SubSeq(Pack(s, a), 9, LenOf(s, a))]
            ELSE a
HasActions(m) == "actions" \in DOMAIN m /\ m.class # "ofp_features_reply"
WithActions(m) == IF HasActions(m) THEN [m EXCEPT !.actions = [i \in DOMAIN m.actions |-> Wired(m.actions[i])]]
                  ELSE m
Packable(m) == m.class = "bytes" \/ (Valid(m) /\ Packs(LayoutFor(Classes, m.class), WithActions(m)))
Bytes(m) == IF m.class = "bytes" THEN m.bytes ELSE Pack(LayoutFor(Classes, m.class), WithActions(m))

Init ==
  /\ reader \in {"controller", "switch"}
  /\ items = <<>> /\ refused = {} /\ sent = <<>> /\ wire = <<>> /\ buf = <<>> /\ handled = <<>> /\ errors = <<>>
  /\ starting = TRUE /\ status = "open" /\ pieces = 0

\* The connection is there: a switch that is stuck only asks for the end of its own direction.
There == status \in {"open", "stuck"}

\* Connection.send of an object: pack first; nothing is written if it raises.
Send(it) ==
  /\ There /\ Len(items) < MaxItems
  /\ it \in (IF reader = "switch" THEN ToSwitch ELSE ToController)
  /\ items # <<>> => it \in Afterwards
  /\ items' = Append(items, it)
  /\ LET ms == Expand(it) IN
       IF /\ \A i \in DOMAIN ms : Packable(ms[i])
          /\ it.packet_in # NoPacket /\ it.m.class = "ofp_packet_out" => is_complete(it.packet_in)
       THEN /\ sent' = sent \o ms
            /\ wire' = wire \o FlattenSeq([i \in DOMAIN ms |-> Bytes(ms[i])])
            /\ UNCHANGED refused
       ELSE /\ refused' = refused \union {it.m.class}
            /\ UNCHANGED <<sent, wire>>
  /\ UNCHANGED <<reader, buf, handled, errors, starting, status, pieces>>

(* ---------------------------------- reading ---------------------------------- *)
\* What the loops work on; go says that they go on.
State(b) == [b |-> b, handled |-> handled, errors |-> errors, starting |-> starting, status |-> status, go |-> TRUE]
Stop(s) == [s EXCEPT !.go = FALSE]
Consume(s, n) == [s EXCEPT !.b = SubSeq(@, n + 1, Len(@))]
\* Variant: one message for each read of the socket.
HandleOnce(s, v) == [Stop(s) EXCEPT !.handled = Append(@, v)]
Handle(s, v) == [s EXCEPT !.handled = Append(@, v)]
TypeOf(b) == b[2]
LengthOf(b) == 256 * b[3] + b[4]

\* unpackers: with Nicira's extensions the controller looks at vendor messages more closely.
VendorLayout(b) == LET known == {i \in DOMAIN NXUnpacked : Slice(b, 8, 8) = BE(NX_VENDOR_ID, 4) \o BE(CHOOSE t \in NXUnpacked[i].t : TRUE, 4)}
                   IN IF known = {} THEN ofp_vendor_generic ELSE NXUnpacked[CHOOSE i \in known : TRUE]
LayoutOf(b, nx) == IF nx /\ TypeOf(b) = 4 /\ Len(b) >= 16 THEN VendorLayout(b) ELSE Messages[TypeOf(b) + 1]

ControllerReads(s, r) ==
  IF r.bad \/ r.off # LengthOf(s.b) THEN [Stop(s) EXCEPT !.status = "closed"] ELSE Handle(Consume(s, r.off), r.v)
\* Connection.read: any exception but that of a handler ends the connection.
ControllerStep(s) ==
  LET b == s.b IN
  IF Len(b) < 8 THEN Stop(s)
  ELSE IF b[1] # OFP_VERSION /\ TypeOf(b) # 0 THEN [Stop(s) EXCEPT !.status = "closed"]
  ELSE IF Len(b) < LengthOf(b) THEN Stop(s)
  ELSE IF ~Known(TypeOf(b)) THEN [Stop(s) EXCEPT !.status = "closed"]
  ELSE ControllerReads(s, unpack_new(LayoutOf(b, TRUE), b, 0))

\* OFConnection.read and _error_handler: unknown types and lengths are answered and skipped; a
\* message of another version stays where it is, and is met (and answered, if none was understood
\* before it) at each later read, for close() ends nothing but the sending once all is sent; an
\* exception of unpack ends the loop of all connections, and the message stays where it is.
Error(type, code, b) == [type |-> type, code |-> code, xid |-> IF Len(b) >= 8 THEN Slice(b, 4, 4) ELSE Zeros(4)]
SwitchReads(s, r) ==
  IF r.bad THEN [Stop(s) EXCEPT !.status = "dead"]
  ELSE IF r.off # LengthOf(s.b) THEN [Consume(s, LengthOf(s.b)) EXCEPT !.errors = Append(@, Error(1, 6, s.b))]
  ELSE [Handle(Consume(s, r.off), r.v) EXCEPT !.starting = FALSE]
SwitchStep(s) ==
  LET b == s.b IN
  IF Len(b) < 4 THEN Stop(s)
  ELSE IF b[1] # OFP_VERSION THEN
    [Stop(s) EXCEPT !.status = "stuck", !.errors = IF s.starting THEN Append(@, Error(0, 0, b)) ELSE @]
  ELSE IF LengthOf(b) > Len(b) THEN Stop(s)
  ELSE IF ~Known(TypeOf(b)) THEN [Consume(s, LengthOf(b)) EXCEPT !.errors = Append(@, Error(1, 1, b))]
  ELSE SwitchReads(s, unpack_new(LayoutOf(b, FALSE), b, 0))

RECURSIVE ReadLoop(_)
ReadLoop(s) == IF s.go THEN ReadLoop(IF reader = "switch" THEN SwitchStep(s) ELSE ControllerStep(s)) ELSE s

Becomes(s) == buf' = s.b /\ handled' = s.handled /\ errors' = s.errors /\ starting' = s.starting /\ status' = s.status
\* The first n bytes arrive and are read.
Read(n) ==
  /\ There /\ wire # <<>> /\ n <= Len(wire)
  /\ Becomes(ReadLoop(State(buf \o SubSeq(wire, 1, n))))
  /\ wire' = SubSeq(wire, n + 1, Len(wire))
  /\ UNCHANGED <<reader, items, refused, sent>>
ReadPiece == \E n \in Chunks : /\ pieces < MaxPieces /\ n < Len(wire) /\ Read(n) /\ pieces' = pieces + 1
ReadAll == Read(Len(wire)) /\ UNCHANGED pieces

Next == (\E it \in ToSwitch \union ToController : Send(it)) \/ ReadPiece \/ ReadAll
\* What was sent arrives and is read, sooner or later (a step that empties wire is ReadAll).
Drain == There /\ wire # <<>> /\ wire' = <<>>
Spec == Init /\ [][Next]_vars /\ WF_wire(Drain)
----------------------------------------------------------------------------
(* --------------------------------- correctness --------------------------------- *)
\* What an object and what was made of it at the other end have in common.
SameMatch(m) == [f \in ofp_match_data |-> Get(m, f)] @@ [src_bits |-> m.src, dst_bits |-> m.dst]
SameEntries(es) == [i \in DOMAIN es |-> [t |-> es[i].t, value |-> es[i].value, mask |-> PackedMask(es[i])]]
SameActions(as) == [i \in DOMAIN as |-> IF as[i].class = "ofp_action_output" THEN [as[i] EXCEPT !.max_len = SentMaxLen(as[i])]
                                        ELSE Wired(as[i])]
SameBody(o) == [g \in DOMAIN o |-> CASE g = "match" -> SameMatch(o.match)
                                     [] g = "actions" -> SameActions(o.actions)
                                     [] OTHER -> o[g]]
Same(m) ==
  [f \in DOMAIN m |->
     CASE f = "match" /\ m.class = "nxt_packet_in" -> SameEntries(m.match)
       [] f = "match" -> SameMatch(m.match)
       [] f = "actions" /\ HasActions(m) -> SameActions(m.actions)
       [] f = "body" /\ m.class \in {"ofp_stats_request", "ofp_stats_reply"} -> [i \in DOMAIN m.body |-> SameBody(m.body[i])]
       [] OTHER -> m[f]]

\* A vendor message that the reader has no class for.
IsVendor(m) == m.class \in {NXMessageClasses[i].c : i \in DOMAIN NXMessageClasses}
Expected(m) ==
  IF IsVendor(m) /\ (reader = "switch" \/ \A i \in DOMAIN NXUnpacked : NXUnpacked[i].c # m.class)
  THEN [class |-> "ofp_vendor_generic", version |-> m.version, header_type |-> 4, xid |-> m.xid, vendor |-> NX_VENDOR_ID,
        data |-> BE(m.subtype, 4) \o SubSeq(Bytes(m), 17, Len(Bytes(m)))]
  \* A flow_mod leaves out what its match cannot match.
  ELSE IF m.class = "ofp_flow_mod" THEN Same([m EXCEPT !.match = fix(@)])
  ELSE Same(m)

\* Objects that the code cannot pack: a queue property other than the minimal rate, vendor
\* statistics in a reply, a packet_out with half a packet or with both a buffer and data.
KnownToRaise(it) ==
  \/ /\ it.m.class = "ofp_queue_get_config_reply"
     /\ \E q \in Range(it.m.queues) : \E p \in Range(q.properties) : p.class # "ofp_queue_prop_min_rate"
  \/ it.m.class = "ofp_stats_reply" /\ it.m.type = 65535
  \/ /\ it.m.class = "ofp_packet_out"
     /\ IF it.packet_in = NoPacket THEN it.m.buffer_id # NO_BUFFER /\ it.m.data # <<>> ELSE ~is_complete(it.packet_in)

\* What becomes of each message: handled, skipped with an error, or the end of what is read.
Fate(m) == IF m.class # "bytes" THEN "handled" ELSE m.fate[reader]
MeantItems == FlattenSeq([i \in DOMAIN items |-> IF KnownToRaise(items[i]) THEN <<>> ELSE Expand(items[i])])
ToHandle == SelectSeq(MeantItems, LAMBDA m: Fate(m) # "skipped")
Understood(m) == IF m.class = "bytes" THEN m.means ELSE Expected(m)

\* What was handled is what was sent, field by field, in order, whatever the pieces in which it
\* arrived: pack, unpack and __len__ of every class agree with each other, and the readers cut
\* the stream where the messages end.  The reader stops at the messages it cannot read only.
HandledAsSent ==
  /\ Len(handled) <= Len(ToHandle)
  /\ \A i \in DOMAIN handled : Fate(ToHandle[i]) = "handled" /\ Same(handled[i]) = Understood(ToHandle[i])
  /\ status # "open" => Len(handled) < Len(ToHandle) /\ Fate(ToHandle[Len(handled) + 1]) = status

\* The switch answers each message it skips with an error that carries the number of that
\* message; and a message of another version if it is the first, with an error for each read.
Skipped == SelectSeq(MeantItems, LAMBDA m: Fate(m) = "skipped")
ErrorsAnswer ==
  LET answers == SelectSeq(errors, LAMBDA e: e.type = 1) IN
  /\ Len(answers) <= Len(Skipped) /\ \A i \in DOMAIN answers : answers[i].xid = SubSeq(Skipped[i].bytes, 5, 8)
  /\ (\E e \in Range(errors) : e.type = 0) => status = "stuck" /\ handled = <<>>
  /\ reader = "switch" /\ status = "open" /\ wire = <<>> => Len(answers) = Len(Skipped)

\* A packet_in given to a flow_mod or to a packet_out is released once: by naming its buffer, or
\* as data if the switch kept no copy, behind a barrier if a flow_mod comes first.
Releases(h, p) == /\ h.class \in {"ofp_flow_mod", "ofp_packet_out"}
                  /\ IF p.buffer_id # NO_BUFFER THEN h.buffer_id = p.buffer_id
                     ELSE h.class = "ofp_packet_out" /\ h.data = p.data
ReleasedOnce ==
  status = "open" /\ wire = <<>> =>
    \A it \in Range(items) :
      it.packet_in # NoPacket /\ is_complete(it.packet_in) =>
        /\ Cardinality({i \in DOMAIN handled : Releases(handled[i], it.packet_in)})
             = Cardinality({i \in DOMAIN items : items[i] = it})
        /\ \A i \in DOMAIN handled :
             it.m.class = "ofp_flow_mod" /\ Releases(handled[i], it.packet_in) /\ handled[i].class = "ofp_packet_out"
               => i > 2 /\ handled[i - 1].class = "ofp_barrier_request" /\ handled[i - 2].class = "ofp_flow_mod"

\* clone, that packs and unpacks, gives an equal action or message of Nicira's extensions, but
\* for those whose unpack is broken: learn with a field to load, whose data it takes for its
\* value, and nx_flow_mod.
LoadsField(a) == a.class = "nx_action_learn" /\ \E s \in Range(a.spec) : s.dst.k = NX_LEARN_DST_LOAD /\ s.n_bits \notin 33..48
Clone(s, v) == Unpack(s, Pack(s, v), 0, LenOf(s, v))
IsClone(c, v) == ~c.bad /\ Same(c.v) = Same(v)
ClonesEqual ==
  \A m \in Range(sent) :
    /\ HasActions(m) =>
         \A a \in Range(m.actions) :
           (\E i \in DOMAIN NXActions : NXActions[i].c = a.class) /\ ~LoadsField(a)
             => IsClone(Clone(NXAction(a.class), a), a)
    /\ IsVendor(m) /\ m.class # "nx_flow_mod" =>
         IsClone(Clone(LayoutFor(Classes, m.class), m), m)

\* Pack, unpack and __len__ of every class agree, wherever the stream is cut: what is handled is
\* what was sent, and a clone is what it was made from.
InStep == HandledAsSent /\ ClonesEqual

\* Each message that is skipped is answered by one error, each packet_in that is passed on is
\* released by one message, however the messages arrive.
AnsweredOnce == ErrorsAnswer /\ ReleasedOnce

\* All that was sent is handled, unless the reader is gone or stuck: no other message waits in the buffer for
\* another one to come.
AllHandled == []<>(status # "open" \/ Len(handled) = Len(ToHandle))
==========================================================================
