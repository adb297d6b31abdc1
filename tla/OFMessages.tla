---------------------------- MODULE OFMessages ----------------------------
(* The messages of OpenFlow 1.0 and what they are built from, class by class: names, order and  *)
(* widths of the fields, padding, and the fixed part of the length.                             *)
EXTENDS Wire

OFP_VERSION == 1
NO_BUFFER == -1
OFPP_TABLE == 65529
OFPP_CONTROLLER == 65533
OFPP_NONE == 65535

(* -------------------------------- common structures -------------------------------- *)
ofp_phy_port == Layout("ofp_phy_port", {},
  <<U("port_no", 2), Raw("hw_addr", 6), Str("name", 16), U("config", 4), U("state", 4), U("curr", 4),
    U("advertised", 4), U("supported", 4), U("peer", 4)>>, 48)

\* The generic property cannot tell its length: its __len__ is a static method that needs self.
ofp_queue_prop_generic == Layout("ofp_queue_prop_generic", {}, <<U("property", 2), Size(2), Rest("data")>>, Broken)
ofp_queue_prop_none == [ofp_queue_prop_generic EXCEPT !.c = "ofp_queue_prop_none", !.t = {0}]
ofp_queue_prop_min_rate ==
  [Layout("ofp_queue_prop_min_rate", {1}, <<U("property", 2), Size(2), Pad(4), U("rate", 2), Pad(6)>>, 16)
     EXCEPT !.u = <<U("property", 2), Size(2), Pad(4), U("rate", 2), Pad(6)>>]
QueueProps == <<ofp_queue_prop_none, ofp_queue_prop_min_rate, ofp_queue_prop_generic>>
ofp_packet_queue == Layout("ofp_packet_queue", {}, <<U("queue_id", 4), Size(2), Pad(2), AnyOf("properties", QueueProps)>>, 8)

(* ------------------------------------- actions ------------------------------------- *)
\* The maximal length only counts for the controller.
ofp_action_output == Layout("ofp_action_output", {0}, <<U("type", 2), Size(2), U("port", 2), MaxLen>>, 8)
ofp_action_enqueue == Layout("ofp_action_enqueue", {11}, <<U("type", 2), Size(2), U("port", 2), Pad(6), U("queue_id", 4)>>, 16)
ofp_action_strip_vlan == Layout("ofp_action_strip_vlan", {3}, <<U("type", 2), Size(2), Pad(4)>>, 8)
ofp_action_vlan_vid == Layout("ofp_action_vlan_vid", {1}, <<U("type", 2), Size(2), U("vlan_vid", 2), Pad(2)>>, 8)
ofp_action_vlan_pcp == Layout("ofp_action_vlan_pcp", {2}, <<U("type", 2), Size(2), U("vlan_pcp", 1), Pad(3)>>, 8)
ofp_action_dl_addr == Layout("ofp_action_dl_addr", {4, 5}, <<U("type", 2), Size(2), Raw("dl_addr", 6), Pad(6)>>, 16)
ofp_action_nw_addr == Layout("ofp_action_nw_addr", {6, 7}, <<U("type", 2), Size(2), U("nw_addr", 4)>>, 8)
ofp_action_nw_tos == Layout("ofp_action_nw_tos", {8}, <<U("type", 2), Size(2), U("nw_tos", 1), Pad(3)>>, 8)
ofp_action_tp_port == Layout("ofp_action_tp_port", {9, 10}, <<U("type", 2), Size(2), U("tp_port", 2), Pad(2)>>, 8)
ofp_action_vendor_generic == Layout("ofp_action_vendor_generic", {65535}, <<U("type", 2), Size(2), U("vendor", 4), Rest("body")>>, 8)
\* An action of an unknown type keeps its bytes.
ofp_action_generic == Layout("ofp_action_generic", {}, <<U("type", 2), Size(2), Rest("data")>>, 4)
Actions == <<ofp_action_output, ofp_action_enqueue, ofp_action_strip_vlan, ofp_action_vlan_vid,
             ofp_action_vlan_pcp, ofp_action_dl_addr, ofp_action_nw_addr, ofp_action_nw_tos,
             ofp_action_tp_port, ofp_action_vendor_generic, ofp_action_generic>>

(* ------------------------------------- messages ------------------------------------- *)
\* ofp_header: pack, and _unpack_header.
Header == <<U("version", 1), U("header_type", 1), Size(2), U("xid", 4)>>
Message(c, type, fields, n) == Layout(c, {type}, Header \o fields, n)
\* A class that inherits unpack from ofp_header, and so the lack of a check.
Bare(c, type) == [Message(c, type, <<>>, 8) EXCEPT !.checks = FALSE]

ofp_hello == Bare("ofp_hello", 0)
ofp_error == Message("ofp_error", 1, <<U("type", 2), U("code", 2), Rest("data")>>, 12)
ofp_echo_request == Message("ofp_echo_request", 2, <<Rest("body")>>, 8)
ofp_echo_reply == Message("ofp_echo_reply", 3, <<Rest("body")>>, 8)
ofp_vendor_generic == [Message("ofp_vendor_generic", 4, <<U("vendor", 4), Rest("data")>>, 12) EXCEPT !.checks = FALSE]
ofp_features_request == Message("ofp_features_request", 5, <<>>, 8)
ofp_features_reply == Message("ofp_features_reply", 6,
  <<Raw("datapath_id", 8), U("n_buffers", 4), U("n_tables", 1), Pad(3), U("capabilities", 4), U("actions", 4),
    Many("ports", ofp_phy_port)>>, 32)
ofp_get_config_request == Bare("ofp_get_config_request", 7)
ofp_get_config_reply == Message("ofp_get_config_reply", 8, <<U("flags", 2), U("miss_send_len", 2)>>, 12)
ofp_set_config == Message("ofp_set_config", 9, <<U("flags", 2), U("miss_send_len", 2)>>, 12)
\* total_len is that of the data unless it was given.
ofp_packet_in == Message("ofp_packet_in", 10,
  <<U("buffer_id", 4), U("total_len", 2), U("in_port", 2), U("reason", 1), Pad(1), Rest("data")>>, 18)
ofp_flow_removed == Message("ofp_flow_removed", 11,
  <<MatchOf(FALSE), Raw("cookie", 8), U("priority", 2), U("reason", 1), Pad(1), U("duration_sec", 4),
    U("duration_nsec", 4), U("idle_timeout", 2), Pad(2), Raw("packet_count", 8), Raw("byte_count", 8)>>, 88)
ofp_port_status == Message("ofp_port_status", 12, <<U("reason", 1), Pad(7), Sub("desc", ofp_phy_port)>>, 64)
ofp_packet_out == Message("ofp_packet_out", 13,
  <<U("buffer_id", 4), U("in_port", 2), SizeOf("actions", 2), AnyOf("actions", Actions), Rest("data")>>, 16)
ofp_flow_mod == Message("ofp_flow_mod", 14,
  <<MatchOf(TRUE), Raw("cookie", 8), U("command", 2), U("idle_timeout", 2), U("hard_timeout", 2), U("priority", 2),
    U("buffer_id", 4), U("out_port", 2), U("flags", 2), AnyOf("actions", Actions)>>, 72)
ofp_port_mod == Message("ofp_port_mod", 15,
  <<U("port_no", 2), Raw("hw_addr", 6), U("config", 4), U("mask", 4), U("advertise", 4), Pad(4)>>, 32)
ofp_barrier_request == Bare("ofp_barrier_request", 18)
ofp_barrier_reply == Bare("ofp_barrier_reply", 19)
ofp_queue_get_config_request == Message("ofp_queue_get_config_request", 20, <<U("port", 2), Pad(2)>>, 12)
ofp_queue_get_config_reply == Message("ofp_queue_get_config_reply", 21,
  <<U("port", 2), Pad(6), Many("queues", ofp_packet_queue)>>, 16)

(* ----------------------------------- statistics ----------------------------------- *)
ofp_desc_stats == Layout("ofp_desc_stats", {0},
  <<Str("mfr_desc", 256), Str("hw_desc", 256), Str("sw_desc", 256), Str("serial_num", 32), Str("dp_desc", 256)>>, 1056)
ofp_desc_stats_request == Layout("ofp_desc_stats_request", {0}, <<>>, 0)
ofp_table_stats_request == Layout("ofp_table_stats_request", {3}, <<>>, 0)
ofp_flow_stats_request == Layout("ofp_flow_stats_request", {1}, <<MatchOf(FALSE), U("table_id", 1), Zero(1), U("out_port", 2)>>, 44)
ofp_flow_stats == [Layout("ofp_flow_stats", {1},
  <<Size(2), U("table_id", 1), Zero(1), MatchOf(FALSE), U("duration_sec", 4), U("duration_nsec", 4), U("priority", 2),
    U("idle_timeout", 2), U("hard_timeout", 2), Pad(6), Raw("cookie", 8), Raw("packet_count", 8), Raw("byte_count", 8),
    AnyOf("actions", Actions)>>, 88) EXCEPT !.many = TRUE]
ofp_aggregate_stats_request ==
  Layout("ofp_aggregate_stats_request", {2}, <<MatchOf(FALSE), U("table_id", 1), Zero(1), U("out_port", 2)>>, 44)
ofp_aggregate_stats == Layout("ofp_aggregate_stats", {2},
  <<Raw("packet_count", 8), Raw("byte_count", 8), U("flow_count", 4), Pad(4)>>, 24)
ofp_table_stats == [Layout("ofp_table_stats", {3},
  <<U("table_id", 1), Pad(3), Str("name", 32), U("wildcards", 4), U("max_entries", 4), U("active_count", 4),
    Raw("lookup_count", 8), Raw("matched_count", 8)>>, 64) EXCEPT !.many = TRUE]
ofp_port_stats_request == Layout("ofp_port_stats_request", {4}, <<U("port_no", 2), Pad(6)>>, 8)
PortCounters == <<"rx_packets", "tx_packets", "rx_bytes", "tx_bytes", "rx_dropped", "tx_dropped", "rx_errors",
                  "tx_errors", "rx_frame_err", "rx_over_err", "rx_crc_err", "collisions">>
ofp_port_stats == [Layout("ofp_port_stats", {4},
  <<U("port_no", 2), Pad(6)>> \o [i \in DOMAIN PortCounters |-> Raw(PortCounters[i], 8)], 104) EXCEPT !.many = TRUE]
ofp_queue_stats_request == Layout("ofp_queue_stats_request", {5}, <<U("port_no", 2), Zero(2), U("queue_id", 4)>>, 8)
ofp_queue_stats == [Layout("ofp_queue_stats", {5},
  <<U("port_no", 2), Pad(2), U("queue_id", 4), Raw("tx_bytes", 8), Raw("tx_packets", 8), Raw("tx_errors", 8)>>, 32)
    EXCEPT !.many = TRUE]
\* __len__ is a static method that needs self, as in ofp_queue_prop_generic.
ofp_vendor_stats_generic ==
  [Layout("ofp_vendor_stats_generic", {65535}, <<U("vendor", 4), Rest("data")>>, Broken) EXCEPT !.checks = FALSE]
\* pack uses a variable before it has a value.
ofp_generic_stats_body == [Layout("ofp_generic_stats_body", {}, <<Raises>>, Broken) EXCEPT !.u = <<Rest("data")>>, !.checks = FALSE]

Requests == <<ofp_desc_stats_request, ofp_flow_stats_request, ofp_aggregate_stats_request, ofp_table_stats_request,
              ofp_port_stats_request, ofp_queue_stats_request, ofp_vendor_stats_generic>>
Replies == <<ofp_desc_stats, ofp_flow_stats, ofp_aggregate_stats, ofp_table_stats, ofp_port_stats, ofp_queue_stats,
             ofp_vendor_stats_generic>>
ofp_stats_request == Message("ofp_stats_request", 16, <<U("type", 2), U("flags", 2), Body(Requests, TRUE)>>, 12)
ofp_stats_reply == Message("ofp_stats_reply", 17, <<U("type", 2), U("flags", 2), Body(Replies, FALSE)>>, 12)

\* _message_type_to_class: the class of each type number.
Messages == <<ofp_hello, ofp_error, ofp_echo_request, ofp_echo_reply, ofp_vendor_generic, ofp_features_request,
  ofp_features_reply, ofp_get_config_request, ofp_get_config_reply, ofp_set_config, ofp_packet_in, ofp_flow_removed,
  ofp_port_status, ofp_packet_out, ofp_flow_mod, ofp_port_mod, ofp_stats_request, ofp_stats_reply,
  ofp_barrier_request, ofp_barrier_reply, ofp_queue_get_config_request, ofp_queue_get_config_reply>>
Known(type) == type + 1 \in DOMAIN Messages

\* unpack_new: the bytes used up have to be those the header names.
ToTheEnd(r) == [r EXCEPT !.bad = @ \/ r.off # r.end]
unpack_new(s, b, off) == ToTheEnd(Unpack(s, b, off, Len(b)))

(* ------------------------------ Nicira's extensions ------------------------------ *)
(* The vendor messages and actions of Nicira's extensions, as layouts.                          *)

NX_VENDOR_ID == 8992

(* ------------------------------------ messages ------------------------------------ *)
\* nicira_base: the header of a vendor message, the subtype and a body, read without a check.
nicira_base(c, subtype, body, n) ==
  [Layout(c, {subtype}, Header \o <<U("vendor", 4), U("subtype", 4)>> \o body, 16 + n) EXCEPT !.checks = FALSE]
nx_role_request == nicira_base("nx_role_request", 10, <<U("role", 4)>>, 4)
nx_role_reply == nicira_base("nx_role_reply", 11, <<U("role", 4)>>, 4)
nx_flow_mod_table_id == nicira_base("nx_flow_mod_table_id", 15, <<U("enable", 1), Pad(7)>>, 8)
nx_packet_in_format == nicira_base("nx_packet_in_format", 16, <<U("format", 4)>>, 4)
nx_async_config == nicira_base("nx_async_config", 19,
  <<U("packet_in_mask", 4), U("packet_in_mask_slave", 4), U("port_status_mask", 4), U("port_status_mask_slave", 4),
    U("flow_removed_mask", 4), U("flow_removed_mask_slave", 4)>>, 24)
\* Its unpack calls a method that does not exist.
nx_flow_mod == [nicira_base("nx_flow_mod", 13,
  <<Raw("cookie", 8), U("command", 2), U("idle_timeout", 2), U("hard_timeout", 2), U("priority", 2), U("buffer_id", 4),
    U("out_port", 2), U("flags", 2), SizeOf("match", 2), Pad(6), NXMatchField, AnyOf("actions", Actions)>>, 32)
    EXCEPT !.u = <<Raises>>]
\* Its pack uses a name that does not exist; what Open vSwitch sends has these fields.
nxt_packet_in == [nicira_base("nxt_packet_in", 17,
  <<U("buffer_id", 4), U("total_len", 2), U("reason", 1), U("table_id", 1), Raw("cookie", 8), SizeOf("match", 2), Pad(6),
    NXMatchField, Pad(2), Rest("data")>>, 26) EXCEPT !.checks = TRUE]
\* ofp_flow_mod with the table in the upper byte of the command.
ofp_flow_mod_table_id(fm, table_id) == [fm EXCEPT !.command = 256 * table_id + @]

NXMessageClasses == <<nx_role_request, nx_role_reply, nx_flow_mod_table_id, nx_packet_in_format, nx_async_config,
                      nx_flow_mod, nxt_packet_in>>
\* Those that _unpack_nx_vendor knows.
NXUnpacked == <<nxt_packet_in, nx_role_reply>>

(* ------------------------------------- actions ------------------------------------- *)
nx_action(c, subtypes, body, n) ==
  Layout(c, subtypes, <<U("type", 2), Size(2), U("vendor", 4), U("subtype", 2)>> \o body, 10 + n)
nx_output_reg == nx_action("nx_output_reg", {15}, <<OfsBits, NXClass("reg"), U("max_len", 2), Pad(6)>>, 14)
nx_reg_move == nx_action("nx_reg_move", {6},
  <<U("nbits", 2), U("src_ofs", 2), U("dst_ofs", 2), NXClass("src"), NXClass("dst")>>, 14)
nx_reg_load == nx_action("nx_reg_load", {7}, <<OfsBits, NXClass("dst"), Raw("value", 8)>>, 14)
nx_action_controller == nx_action("nx_action_controller", {20},
  <<U("max_len", 2), U("controller_id", 2), U("reason", 1), Pad(1)>>, 6)
nx_action_push_mpls == nx_action("nx_action_push_mpls", {23}, <<U("ethertype", 2), Pad(4)>>, 6)
nx_action_pop_mpls == nx_action("nx_action_pop_mpls", {24}, <<U("ethertype", 2), Pad(4)>>, 6)
nx_action_resubmit == nx_action("nx_action_resubmit", {1, 14}, <<U("in_port", 2), U("table", 1), Pad(3)>>, 6)
nx_action_set_tunnel == nx_action("nx_action_set_tunnel", {2}, <<Pad(2), U("tun_id", 4)>>, 6)
nx_action_set_tunnel64 == nx_action("nx_action_set_tunnel64", {9}, <<Pad(6), Raw("tun_id", 8)>>, 14)
nx_action_fin_timeout == nx_action("nx_action_fin_timeout", {19},
  <<U("fin_idle_timeout", 2), U("fin_hard_timeout", 2), Pad(2)>>, 6)
nx_action_exit == nx_action("nx_action_exit", {17}, <<Pad(6)>>, 6)
nx_action_dec_ttl == nx_action("nx_action_dec_ttl", {18}, <<Pad(6)>>, 6)
nx_action_learn == nx_action("nx_action_learn", {16},
  <<U("idle_timeout", 2), U("hard_timeout", 2), U("priority", 2), Raw("cookie", 8), U("flags", 2), U("table_id", 1),
    Pad(1), U("fin_idle_timeout", 2), U("fin_hard_timeout", 2), Specs>>, 22)
NXActions == <<nx_output_reg, nx_reg_move, nx_reg_load, nx_action_controller, nx_action_push_mpls, nx_action_pop_mpls,
  nx_action_resubmit, nx_action_set_tunnel, nx_action_set_tunnel64, nx_action_fin_timeout, nx_action_exit,
  nx_action_dec_ttl, nx_action_learn>>
NXAction(c) == LayoutFor(NXActions, c)
============================================================================
