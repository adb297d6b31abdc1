-------------------------- MODULE MCSoftwareSwitch --------------------------
(* Two ports, a table of two entries and a buffer of two packets. *)
EXTENDS SoftwareSwitch

Packet(dst, frag) == [src |-> "h", dst |-> dst, frag |-> frag]
MCPackets == {Packet("a", FALSE), Packet("b", TRUE)}
To(v) == [a |-> "output", v |-> v]
Set(v) == [a |-> "set", v |-> v]
Other(a) == [a |-> a, v |-> NONE]
All == [in_port |-> ANY, src |-> ANY, dst |-> ANY]
Flow(command, match, priority, actions, idle, hard, flags) ==
  [command |-> command, match |-> match, priority |-> priority, actions |-> actions, idle |-> idle, hard |-> hard, flags |-> flags,
   out_port |-> NONE]
Exact == [in_port |-> "1", src |-> "h", dst |-> "a"]
ToB == [All EXCEPT !.dst = "b"]
MCMods == {
  Flow("add", All, 1, <<To("controller"), Set("b"), To("table")>>, 0, 1, {"send_flow_rem"}),
  Flow("add", ToB, 1, <<To("2")>>, 1, 0, {"send_flow_rem", "check_overlap"}),
  Flow("add", Exact, 0, <<To("flood")>>, 1, 2, {"send_flow_rem"}),
  Flow("modify", All, 0, <<To("in_port")>>, 0, 0, {}),
  Flow("modify_strict", ToB, 2, <<To("all"), Other("enqueue")>>, 0, 0, {}),
  Flow("bad", All, 0, <<To("1")>>, 0, 0, {}),
  [Flow("delete", All, 0, <<>>, 0, 0, {}) EXCEPT !.out_port = "2"]}
MCActionLists == {<<To("controller"), Set("b")>>, <<To("2"), Other("vendor")>>}
MCPacketOuts == {[actions |-> <<To("controller"), To("controller"), Set("b")>>, packet |-> Packet("a", FALSE), in_port |-> "1"],
                 [actions |-> <<To("table"), To("all")>>, packet |-> Packet("a", FALSE), in_port |-> "2"]}
MCPortBits == {"port_down"}
=============================================================================
