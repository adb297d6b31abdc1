------------------------------ MODULE MCFormats ------------------------------
(* What is written in one place and read in another: OpenFlow messages in a stream of bytes,    *)
(* packets on their way through switches, addresses as text, and the pieces of messages that    *)
(* two threads write to sockets.  A behaviour is about one of the four.                         *)
EXTENDS MessageStream, DeferredSender

(* Messages: one object of every class at least, with values that fill their fields unevenly,   *)
(* and the messages of other implementations that the readers treat in different ways.          *)
O(c, type, fields) == [class |-> c, version |-> 1, header_type |-> type, xid |-> 16909060] @@ fields
S(c, fields) == [class |-> c] @@ fields
A(c, type, fields) == [class |-> c, type |-> type] @@ fields
None_ == [x \in {} |-> 0]

mac == <<2, 0, 0, 0, 1, 7>>
n8 == <<0, 0, 1, 2, 3, 4, 5, 255>>
name == <<101, 116, 104, 48>>
long16 == [i \in 1..16 |-> 97]
port == S("ofp_phy_port", [port_no |-> 258, hw_addr |-> mac, name |-> name, config |-> 1, state |-> 512, curr |-> 3,
                           advertised |-> 4, supported |-> 5, peer |-> -2])
port2 == [port EXCEPT !.port_no = 65534, !.name = long16]

(* matches: everything, a transport flow, ARP, LLDP, what has to be fixed, networks *)
any == Match(None_)
tcpFlow == Match([in_port |-> 3, dl_src |-> mac, dl_dst |-> mac, dl_vlan |-> 300, dl_vlan_pcp |-> 5, dl_type |-> 2048, nw_tos |-> 16,
              nw_proto |-> 6, nw_src |-> <<167772161, 32>>, nw_dst |-> <<-1062731776, 24>>, tp_src |-> 80, tp_dst |-> 40000])
arpFlow == Match([dl_type |-> 2054, nw_proto |-> 1, nw_dst |-> <<167772162, 32>>])
lldpFlow == Match([dl_type |-> 35020, in_port |-> 65533])
partial == Match([nw_src |-> <<167772161, 8>>, tp_dst |-> 80])
untransported == Match([dl_type |-> 2048, nw_tos |-> 4, tp_src |-> 9])

(* actions *)
output(p) == A("ofp_action_output", 0, [port |-> p, max_len |-> 100])
plain == << output(7), output(OFPP_CONTROLLER),
  A("ofp_action_enqueue", 11, [port |-> 1, queue_id |-> 70000]), A("ofp_action_strip_vlan", 3, None_),
  A("ofp_action_vlan_vid", 1, [vlan_vid |-> 4095]), A("ofp_action_vlan_pcp", 2, [vlan_pcp |-> 7]),
  A("ofp_action_dl_addr", 4, [dl_addr |-> mac]), A("ofp_action_dl_addr", 5, [dl_addr |-> mac]),
  A("ofp_action_nw_addr", 6, [nw_addr |-> 167772161]), A("ofp_action_nw_addr", 7, [nw_addr |-> -5]),
  A("ofp_action_nw_tos", 8, [nw_tos |-> 252]), A("ofp_action_tp_port", 9, [tp_port |-> 65535]),
  A("ofp_action_tp_port", 10, [tp_port |-> 1]), A("ofp_action_vendor_generic", 65535, [vendor |-> 9, body |-> n8]),
  A("ofp_action_generic", 300, [data |-> <<1, 2, 3, 4>>]) >>
N(c, subtype, fields) == A(c, 65535, [vendor |-> NX_VENDOR_ID, subtype |-> subtype] @@ fields)
in_port == NXMType(<<0, 0>>)
eth_src == NXMType(<<0, 1>>)
reg3 == NXMType(<<1, 3>>)
specs == << Spec_(NX_LEARN_SRC_FIELD, FieldData(eth_src, 0), NX_LEARN_DST_MATCH, FieldData(NXMType(<<0, 2>>), 0), 48),
            Spec_(NX_LEARN_SRC_IMMEDIATE, <<8, 0>>, NX_LEARN_DST_MATCH, FieldData(NXMType(<<0, 3>>), 0), 16),
            Spec_(NX_LEARN_SRC_FIELD, FieldData(in_port, 0), NX_LEARN_DST_OUTPUT, <<>>, 16) >>
load == << Spec_(NX_LEARN_SRC_FIELD, FieldData(in_port, 0), NX_LEARN_DST_LOAD, FieldData(reg3, 16), 16) >>
learn(ss) == N("nx_action_learn", 16, [idle_timeout |-> 10, hard_timeout |-> 300, priority |-> 32768, cookie |-> n8,
  flags |-> 1, table_id |-> 2, fin_idle_timeout |-> 3, fin_hard_timeout |-> 4, spec |-> ss])
nicira == <<
  N("nx_output_reg", 15, [offset |-> 1023, nbits |-> 16, reg |-> reg3, max_len |-> 9]),
  N("nx_reg_move", 6, [nbits |-> 12, src_ofs |-> 1, dst_ofs |-> 2, src |-> in_port, dst |-> reg3]),
  N("nx_reg_load", 7, [offset |-> 0, nbits |-> 64, dst |-> NXMType(<<1, 16>>), value |-> n8]),
  N("nx_action_controller", 20, [max_len |-> 65535, controller_id |-> 1, reason |-> 1]),
  N("nx_action_push_mpls", 23, [ethertype |-> 34887]), N("nx_action_pop_mpls", 24, [ethertype |-> 2048]),
  N("nx_action_resubmit", 1, [in_port |-> 65528, table |-> 0]), N("nx_action_resubmit", 14, [in_port |-> 65528, table |-> 255]),
  N("nx_action_set_tunnel", 2, [tun_id |-> -7]), N("nx_action_set_tunnel64", 9, [tun_id |-> n8]),
  N("nx_action_fin_timeout", 19, [fin_idle_timeout |-> 1, fin_hard_timeout |-> 2]), N("nx_action_exit", 17, None_),
  N("nx_action_dec_ttl", 18, None_), learn(specs), learn(load) >>

(* from the controller *)
flow_mod(m, as) == O("ofp_flow_mod", 14, [match |-> m, cookie |-> n8, command |-> 3, idle_timeout |-> 10, hard_timeout |-> 258,
  priority |-> 32768, buffer_id |-> NO_BUFFER, out_port |-> OFPP_NONE, flags |-> 1, actions |-> as])
packet_out(b, d) == O("ofp_packet_out", 13, [buffer_id |-> b, in_port |-> OFPP_NONE, actions |-> <<output(65531)>>, data |-> d])
request(t, body) == O("ofp_stats_request", 16, [type |-> t, flags |-> 0, body |-> body])
flows(c, m) == <<S(c, [match |-> m, table_id |-> 255, out_port |-> OFPP_NONE])>>
hello == O("ofp_hello", 0, None_)
echo == O("ofp_echo_request", 2, [body |-> <<1, 4, 0, 8>>])
both == { hello, echo, O("ofp_error", 1, [type |-> 3, code |-> 2, data |-> n8]), O("ofp_echo_reply", 3, [body |-> <<>>]),
  O("ofp_vendor_generic", 4, [vendor |-> 9, data |-> n8 \o n8]) }
vendor(c, subtype, fields) == O(c, 4, [vendor |-> NX_VENDOR_ID, subtype |-> subtype] @@ fields)
FromController == both \union
  { O("ofp_features_request", 5, None_), O("ofp_get_config_request", 7, None_),
    O("ofp_set_config", 9, [flags |-> 1, miss_send_len |-> 65535]),
    O("ofp_port_mod", 15, [port_no |-> 3, hw_addr |-> mac, config |-> 1, mask |-> 513, advertise |-> 4]),
    O("ofp_barrier_request", 18, None_), O("ofp_queue_get_config_request", 20, [port |-> 4]),
    packet_out(NO_BUFFER, n8), packet_out(5, <<>>), packet_out(5, n8), flow_mod(any, plain), flow_mod(any, <<>>),
    ofp_flow_mod_table_id(flow_mod(any, <<>>), 7),
    request(0, <<S("ofp_desc_stats_request", None_)>>), request(3, <<S("ofp_table_stats_request", None_)>>),
    request(1, flows("ofp_flow_stats_request", tcpFlow)), request(2, flows("ofp_aggregate_stats_request", any)),
    request(4, <<S("ofp_port_stats_request", [port_no |-> OFPP_NONE])>>),
    request(5, <<S("ofp_queue_stats_request", [port_no |-> 2, queue_id |-> -1])>>),
    request(65535, <<S("ofp_vendor_stats_generic", [vendor |-> 9, data |-> n8])>>),
    vendor("nx_role_request", 10, [role |-> 1]), vendor("nx_flow_mod_table_id", 15, [enable |-> 1]),
    vendor("nx_packet_in_format", 16, [format |-> 1]),
    vendor("nx_async_config", 19, [packet_in_mask |-> 1, packet_in_mask_slave |-> 2, port_status_mask |-> 3,
      port_status_mask_slave |-> 4, flow_removed_mask |-> 5, flow_removed_mask_slave |-> 6]),
    vendor("nx_flow_mod", 13, [match |-> <<Entry(<<0, 0>>, <<0, 3>>, <<>>), Entry(<<0, 7>>, <<10, 0, 0, 0>>, <<255, 0, 0, 0>>)>>,
      cookie |-> n8, command |-> 256, idle_timeout |-> 1, hard_timeout |-> 2, priority |-> 3, buffer_id |-> NO_BUFFER,
      out_port |-> OFPP_NONE, flags |-> 0, actions |-> <<output(2)>>]) }
  \union {flow_mod(m, <<output(1)>>) : m \in {tcpFlow, arpFlow, lldpFlow, partial, untransported}}
  \union {flow_mod(lldpFlow, <<nicira[i], output(1)>>) : i \in DOMAIN nicira}

(* from the switch *)
packet_in(b, total, d) == O("ofp_packet_in", 10, [buffer_id |-> b, total_len |-> total, in_port |-> 2, reason |-> 1, data |-> d])
reply(t, body) == O("ofp_stats_reply", 17, [type |-> t, flags |-> 1, body |-> body])
flow(m, as) == S("ofp_flow_stats", [table_id |-> 1, match |-> m, duration_sec |-> 70000, duration_nsec |-> 1, priority |-> 2,
  idle_timeout |-> 3, hard_timeout |-> 4, cookie |-> n8, packet_count |-> n8, byte_count |-> n8, actions |-> as])
counters == [f \in {PortCounters[i] : i \in DOMAIN PortCounters} |-> IF f = "rx_bytes" THEN n8 ELSE Zeros(8)]
queues(ps) == O("ofp_queue_get_config_reply", 21, [port |-> 1, queues |-> <<
  S("ofp_packet_queue", [queue_id |-> 9, properties |-> <<>>]), S("ofp_packet_queue", [queue_id |-> 70000, properties |-> ps])>>])
FromSwitch == both \union
  { O("ofp_features_reply", 6, [datapath_id |-> n8, n_buffers |-> 256, n_tables |-> 2, capabilities |-> 1, actions |-> 4095, ports |-> <<port, port2>>]),
    O("ofp_get_config_reply", 8, [flags |-> 1, miss_send_len |-> 128]), O("ofp_barrier_reply", 19, None_),
    packet_in(NO_BUFFER, 8, n8), packet_in(4, 100, n8), packet_in(NO_BUFFER, 0, <<>>),
    O("ofp_port_status", 12, [reason |-> 1, desc |-> port]), queues(<<>>),
    queues(<<S("ofp_queue_prop_min_rate", [property |-> 1, rate |-> 100])>>), queues(<<S("ofp_queue_prop_none", [property |-> 0, data |-> <<>>])>>),
    reply(0, <<S("ofp_desc_stats", [mfr_desc |-> name, hw_desc |-> <<>>, sw_desc |-> long16, serial_num |-> name, dp_desc |-> name])>>),
    reply(1, <<flow(tcpFlow, plain), flow(any, <<>>)>>), reply(1, <<>>),
    reply(2, <<S("ofp_aggregate_stats", [packet_count |-> n8, byte_count |-> n8, flow_count |-> 5])>>),
    reply(3, <<S("ofp_table_stats", [table_id |-> 1, name |-> name, wildcards |-> 4194303, max_entries |-> 7, active_count |-> 5,
                                     lookup_count |-> n8, matched_count |-> n8])>>),
    reply(4, <<S("ofp_port_stats", [port_no |-> 1] @@ counters), S("ofp_port_stats", [port_no |-> 2] @@ counters)>>),
    reply(5, <<S("ofp_queue_stats", [port_no |-> 1, queue_id |-> 2, tx_bytes |-> n8, tx_packets |-> n8, tx_errors |-> n8])>>),
    reply(65535, <<S("ofp_vendor_stats_generic", [vendor |-> 9, data |-> n8])>>),
    vendor("nx_role_reply", 11, [role |-> 2]),
    vendor("nxt_packet_in", 17, [buffer_id |-> NO_BUFFER, total_len |-> 8, reason |-> 0, table_id |-> 1, cookie |-> n8, data |-> n8,
      match |-> <<Entry(<<0, 0>>, <<0, 3>>, <<>>), Entry(<<0, 1>>, mac, Ones(6)), Entry(<<1, 3>>, <<1, 0, 0, 0>>, <<255, 0, 0, 0>>)>>]) }
  \union {O("ofp_flow_removed", 11, [match |-> m, cookie |-> n8, priority |-> 32768, reason |-> 1, duration_sec |-> 1, duration_nsec |-> 2,
            idle_timeout |-> 3, packet_count |-> n8, byte_count |-> n8]) : m \in {any, tcpFlow, arpFlow, lldpFlow}}

(* of other implementations: a later version, an unknown type, a longer hello, a wrong length *)
bytes(bs, sw, co, means) == [class |-> "bytes", bytes |-> bs, fate |-> [switch |-> sw, controller |-> co], means |-> means]
UnknownMessage == bytes(<<1, 30, 0, 12, 0, 0, 0, 3, 9, 9, 9, 9>>, "skipped", "closed", hello)
Foreign == { bytes(<<4, 0, 0, 8, 0, 0, 0, 1>>, "stuck", "handled", [hello EXCEPT !.version = 4, !.xid = 1]),
  bytes(<<4, 0, 0, 16, 0, 0, 0, 1, 0, 1, 0, 8, 0, 0, 0, 16>>, "stuck", "closed", hello),
  bytes(<<1, 0, 0, 16, 0, 0, 0, 1, 0, 1, 0, 8, 0, 0, 0, 16>>, "dead", "closed", hello),
  bytes(<<4, 24, 0, 8, 0, 0, 0, 1>>, "stuck", "closed", hello), UnknownMessage,
  bytes(<<1, 14, 0, 12, 0, 0, 0, 3, 9, 9, 9, 9>>, "dead", "closed", hello) }

Alone(ms) == {Item(m, NoPacket) : m \in ms}
Packets == {packet_in(NO_BUFFER, 8, n8), packet_in(4, 100, n8), packet_in(NO_BUFFER, 100, n8)}
MCToSwitch == Alone(FromController \union Foreign)
  \union {Item(m, p) : m \in {flow_mod(lldpFlow, <<output(1)>>), packet_out(NO_BUFFER, <<>>)}, p \in Packets}
MCToController == Alone(FromSwitch \union Foreign)
MCAfterwards == Alone({echo, UnknownMessage})

VARIABLES subject, obj, frame, says, told, hops, edited, sturdy, kind, given, held, text, reads

Sample == INSTANCE MCPacketPath WITH Sources <- {}, Cuts <- {}, Edits <- {}, MaxHops <- 0
Path == INSTANCE PacketPath WITH
  Sources <- Sample!MCSources, Cuts <- Sample!MCCuts, Edits <- Sample!MCEdits, MaxHops <- 2

(* addresses: runs of zeros of every length and place, networks of every class *)
MC6 == {FlattenSeq([i \in 1..8 |-> IF i \in z THEN <<0, 0>> ELSE IF i = 2 THEN <<18, 0>> ELSE <<0, i>>]) : z \in SUBSET (1..8)}
         \union {Zeros(10) \o <<255, 255, 10, 0, 0, 1>>, Zeros(12) \o <<192, 168, 0, 1>>, <<254, 128>> \o Zeros(13) \o <<1>>}
         \union {<<w \div 256, w % 256>> \o Zeros(13) \o <<1>> : w \in {8191, 8192, 16383, 16384, 64511, 64512, 65023, 65024, 65151, 65215, 65216, 65279, 65280, 65535}}
MC4 == {<<0, 0, 0, 0>>, <<10, 0, 0, 0>>, <<10, 1, 0, 0>>, <<127, 0, 0, 1>>, <<128, 0, 0, 0>>, <<172, 16, 0, 0>>, <<191, 255, 1, 0>>,
        <<192, 168, 1, 0>>, <<192, 168, 1, 77>>, <<223, 255, 255, 255>>, <<224, 0, 0, 5>>, <<239, 129, 2, 3>>}
MCE == {<<a, b, 0, c, 15, 16>> : a, b, c \in {0, 2, 161, 255}}
Bits == INSTANCE Addresses WITH Addresses6 <- {}, Addresses4 <- {}, AddressesE <- {}, Networks <- {}, MaxReads <- 0
MCNetworks == {<<Bits!Masked(a, b), b>> : a \in MC4, b \in 0..32}
                \union {<<Bits!Masked(a, b), b>> : a \in {[i \in 1..16 |-> 255], Zeros(8) \o [i \in 1..8 |-> i]}, b \in 0..128}
Text == INSTANCE Addresses WITH Addresses6 <- MC6, Addresses4 <- MC4, AddressesE <- MCE, Networks <- MCNetworks, MaxReads <- 1

\* deferred sending: two switches, one of which may go
ASSUME SenderBounds == Bounds

packetVars == <<obj, frame, says, told, hops, edited, sturdy>>
textVars == <<kind, given, held, text, reads>>
FormatsVars == <<vars, subject, packetVars, textVars, deferredVars>>
NoPath == obj = 0 /\ frame = 0 /\ says = 0 /\ told = 0 /\ hops = 0 /\ edited = FALSE /\ sturdy = FALSE
NoText == kind = "none" /\ given = 0 /\ held = 0 /\ text = 0 /\ reads = 0

FormatsInit ==
  /\ DeferredInit
  /\ \/ subject = "messages" /\ Init /\ NoPath /\ NoText
     \/ subject = "packets" /\ Init /\ reader = "switch" /\ Path!PathInit /\ NoText
     \/ subject = "addresses" /\ Init /\ reader = "switch" /\ NoPath /\ Text!AddressInit
     \/ subject = "sender" /\ Init /\ reader = "switch" /\ NoPath /\ NoText
FormatsNext ==
  /\ UNCHANGED subject
  /\ \/ subject = "messages" /\ Next /\ UNCHANGED <<packetVars, textVars, deferredVars>>
     \/ subject = "packets" /\ Path!PathNext /\ UNCHANGED <<vars, textVars, deferredVars>>
     \/ subject = "addresses" /\ Text!AddressNext /\ UNCHANGED <<vars, packetVars, deferredVars>>
     \/ subject = "sender" /\ DeferredNext /\ UNCHANGED <<vars, packetVars, textVars>>
FormatsSpec ==
  /\ FormatsInit /\ [][FormatsNext]_FormatsVars
  /\ WF_wire(subject = "messages" /\ Drain)
  /\ WF_deferredVars(subject = "sender" /\ Main) /\ WF_deferredVars(subject = "sender" /\ Sender)
  /\ \A c \in Conns : WF_deferredVars(subject = "sender" /\ ReadSocket(c))

\* The frames that leave a switch say what the frame that came in and the header actions say, and
\* none that is sturdy, whole or cut off, ends in an exception of the packet library; see PacketPath.
PacketsKept == subject = "packets" => Path!SaysTheSame /\ Path!NeverRaises
\* An address or a network that is written and read stays what it is; see Addresses.
AddressKept == subject = "addresses" => Text!TextKept
=============================================================================
