--------------------------- MODULE SoftwareSwitch ---------------------------
(* POX's own switch: ports, a flow table that expires, and a buffer of packets that the         *)
(* controller has been asked about.  Beside it runs what a controller can know of the switch:   *)
(* the table as its flow_mods, the errors and the flow_removed messages make it, the buffers    *)
(* it has been given and has not used, the ports it has been told of.  Messages are handled     *)
(* when they are sent, in both directions; the connection may break between any two of them.    *)
EXTENDS SequencesExt, Integers, FiniteSetsExt, Functions, TLC

(* --------------------------------- the flow table --------------------------------- *)
\* A list of entries, those of high priority first. A match has a value or ANY for each of three
\* fields, which stand for the twelve of OpenFlow (Matches has all of them); a packet is the
\* values of two of these, and whether it is a fragment.

ANY == "*"
NONE == "none"
is_wildcarded(m) == \E f \in DOMAIN m : m[f] = ANY
matches_with_wildcards(m, other) == \A f \in DOMAIN m : m[f] \in {ANY, other[f]}
from_packet(p, in_port) == [in_port |-> in_port, src |-> p.src, dst |-> p.dst]

(* ---------------------------------- TableEntry ---------------------------------- *)
from_flow_mod(f, now) == [match |-> f.match, priority |-> f.priority, actions |-> f.actions, idle |-> f.idle, hard |-> f.hard,
                          flags |-> f.flags, created |-> now, touched |-> now]
\* An exact match comes before all others, whatever its priority.
effective_priority(e) == IF is_wildcarded(e.match) THEN e.priority ELSE 65537
Outputs(actions, port) == \E i \in DOMAIN actions : actions[i].a = "output" /\ actions[i].v = port
is_matched_by(e, match, priority, strict, out_port) ==
  /\ out_port = NONE \/ Outputs(e.actions, out_port)
  /\ IF strict THEN e.match = match /\ e.priority = priority ELSE matches_with_wildcards(match, e.match)
is_idle_timed_out(e, now) == e.idle > 0 /\ now - e.touched > e.idle
is_hard_timed_out(e, now) == e.hard > 0 /\ now - e.created > e.hard

(* ----------------------------------- FlowTable ----------------------------------- *)
\* Where an entry goes: before those of its priority, found by bisection.
Place(t, e) ==
  LET search[low \in 0..Len(t), high \in 0..Len(t)] ==
        LET middle == (low + high) \div 2
        IN IF low >= high THEN low
           ELSE IF effective_priority(e) >= effective_priority(t[middle + 1]) THEN search[low, middle]
           ELSE search[middle + 1, high]
  IN search[0, Len(t)]
add_entry(t, e) == InsertAt(t, Place(t, e) + 1, e)
matching_entries(t, match, priority, strict, out_port) ==
  SelectSeq(t, LAMBDA e : is_matched_by(e, match, priority, strict, out_port))
remove_specific_entries(t, flows) == SelectSeq(t, LAMBDA e : e \notin ToSet(flows))
\* The two lists of expired entries: one that is both is idle.
Idle(t, now) == SelectSeq(t, LAMBDA e : is_idle_timed_out(e, now))
Hard(t, now) == SelectSeq(t, LAMBDA e : ~is_idle_timed_out(e, now) /\ is_hard_timed_out(e, now))
\* The number of the entry for a packet, or 0.
entry_for_packet(t, p, in_port) == SelectInSeq(t, LAMBDA e : matches_with_wildcards(e.match, from_packet(p, in_port)))
check_for_overlapping_entry(t, e) ==
  \E i \in DOMAIN t : /\ effective_priority(t[i]) = effective_priority(e)
                      /\ \A j \in 1..i : effective_priority(t[j]) >= effective_priority(e)
                      /\ \/ is_matched_by(t[i], e.match, 0, FALSE, NONE)
                         \/ is_matched_by(e, t[i].match, 0, FALSE, NONE)

CONSTANTS
  PortNos, Packets,       \* port numbers; packets that hosts send
  Mods,                   \* flow_mods of the controller
  ActionLists,            \* actions of its packet_outs for buffered packets
  PacketOuts,             \* packet_outs with a packet: [actions, packet, in_port]
  PortBits,               \* the configuration bits that port_mods change
  MaxBuffers, MaxEntries, \* as in the code
  Period,                 \* the expiry timer of ExpireMixin
  MaxTime,                \* bound: the clock
  MaxInputs               \* bound: packets, messages and changes of ports

VARIABLES
  table,  \* the flow table
  buffer, \* _packet_buffer: packet and port it came in on, or Free
  objs,   \* the packets of the buffer, by the numbers that stand for the Python objects
  ports,  \* the ports there are: configuration and whether the link is down
  frags,  \* whether fragments are dropped (config_flags)
  conn,   \* how far the connection is
  hello,  \* _has_sent_hello
  now,    \* the clock
  due,    \* when the expiry timer fires next
  out,    \* the ports that the last step sent packets to
  view,   \* what the controller knows
  inputs  \* how much has happened

switch == <<table, buffer, objs, ports, frags>>
vars == <<switch, conn, hello, now, due, out, view, inputs>>

(* ------------------------------- packets and actions ------------------------------- *)
\* What the processing of a packet changes: the first three variables, the messages and the
\* packets it sends; "raised" ends it.
Start(b) == [table |-> table, buffer |-> b, objs |-> objs, sent |-> <<>>, out |-> {}, raised |-> FALSE]
Say(s, m) == [s EXCEPT !.sent = Append(@, m)]
BadAction == [k |-> "error", about |-> "action"]
Raise(s) == [s EXCEPT !.raised = TRUE]

IsSTP(p) == p.dst = "stp"
CanSend(n, in_port, allow_in_port) ==
  /\ n # in_port \/ allow_in_port
  /\ n \in DOMAIN ports
  /\ ports[n].config \intersect {"no_fwd", "port_down"} = {}
  /\ ~ports[n].down
real_send(s, ns, in_port, allow_in_port) == [s EXCEPT !.out = @ \union {n \in ns : CanSend(n, in_port, allow_in_port)}]

Free == [obj |-> 0, in_port |-> NONE]
\* The first free slot, a new one, or none.
Slot(b) == LET free == SelectInSeq(b, LAMBDA x : x = Free)
           IN IF free > 0 THEN free ELSE IF Len(b) >= MaxBuffers THEN 0 ELSE Len(b) + 1
buffer_packet(s, o, in_port) ==
  LET i == Slot(s.buffer)
      held == [obj |-> o, in_port |-> in_port]
  IN IF i = 0 THEN s ELSE [s EXCEPT !.buffer = IF i > Len(@) THEN Append(@, held) ELSE [@ EXCEPT ![i] = held]]
packet_in(s, o, in_port) ==
  Say(buffer_packet(s, o, in_port), [k |-> "packet_in", id |-> Slot(s.buffer)])

CanReceive(p, in_port) ==
  /\ in_port \in DOMAIN ports
  /\ IF IsSTP(p) THEN "no_recv_stp" \notin ports[in_port].config ELSE "no_recv" \notin ports[in_port].config
  /\ ~(frags /\ p.frag)
\* A packet comes in, or is sent to the table; calls nest once per action that does so.  More
\* than the buffer can hold change nothing, until Python gives up.
MaxDepth == MaxBuffers + 2
RECURSIVE rx_packet(_, _, _, _), process_actions(_, _, _, _, _)
rx_packet(s, o, in_port, depth) ==
  LET p == s.objs[o]
      i == entry_for_packet(s.table, p, in_port)
  IN IF depth > MaxDepth THEN Raise(s)
     ELSE IF ~CanReceive(p, in_port) THEN s
     ELSE IF i > 0 THEN process_actions([s EXCEPT !.table[i].touched = now], s.table[i].actions, o, in_port, depth)
     ELSE IF "no_packet_in" \in ports[in_port].config THEN s
     ELSE packet_in(s, o, in_port)

output_packet(s, o, out_port, in_port, depth) ==
  CASE out_port = "in_port"    -> real_send(s, {in_port}, in_port, TRUE)
    [] out_port = "flood"      -> real_send(s, {n \in DOMAIN ports : "no_flood" \notin ports[n].config}, in_port, FALSE)
    [] out_port = "all"        -> real_send(s, DOMAIN ports, in_port, FALSE)
    [] out_port = "controller" -> packet_in(s, o, in_port)
    [] out_port = "table"      -> rx_packet(s, o, in_port, depth + 1)
    [] out_port \in PortNos    -> real_send(s, {out_port}, in_port, FALSE)
    [] OTHER                   -> s

\* The actions one after the other: "set" stands for those that change the packet, which is the
\* object that the buffer holds.  "enqueue" reads an attribute that the action does not have; a
\* type without a handler is answered with an error.
process_actions(s, actions, o, in_port, depth) ==
  IF actions = <<>> \/ s.raised THEN s
  ELSE LET act == Head(actions)
           rest(t) == process_actions(t, Tail(actions), o, in_port, depth)
       IN CASE act.a = "output"  -> rest(output_packet(s, o, act.v, in_port, depth))
            [] act.a = "set"     -> rest([s EXCEPT !.objs[o].dst = act.v])
            [] act.a = "enqueue" -> Raise(s)
            [] OTHER             -> Say(s, BadAction)

\* Variant: actions that end with an error keep the packet.
process_from_buffer_if_clean(s, actions, id) ==
  IF id \notin DOMAIN s.buffer THEN s
  ELSE IF s.buffer[id] = Free THEN s
  ELSE LET t == process_actions(s, actions, s.buffer[id].obj, s.buffer[id].in_port, 0)
       IN IF t.raised \/ BadAction \in ToSet(t.sent) THEN t ELSE [t EXCEPT !.buffer[id] = Free]
\* The packet is released after its actions: one that they hand to the controller gets another
\* slot.  An exception on the way leaves it where it is.
process_from_buffer(s, actions, id) ==
  IF id \notin DOMAIN s.buffer THEN s
  ELSE IF s.buffer[id] = Free THEN s
  ELSE LET t == process_actions(s, actions, s.buffer[id].obj, s.buffer[id].in_port, 0)
       IN IF t.raised THEN t ELSE [t EXCEPT !.buffer[id] = Free]

\* A new packet object: a number that no slot of the buffer has.
Objects == 1..(MaxBuffers + 1)
Fresh(b) == Min(Objects \ {b[i].obj : i \in {j \in DOMAIN b : b[j] # Free}})
WithObject(p) == [Start(buffer) EXCEPT !.objs[Fresh(buffer)] = p]

(* ----------------------------------- flow_mods ----------------------------------- *)
\* remove_entries of the table with a reason, of which the controller is told if it asked.
Removed(es, reason) ==
  LET told == SelectSeq(es, LAMBDA e : "send_flow_rem" \in e.flags)
  IN [i \in DOMAIN told |-> [k |-> "flow_removed", match |-> told[i].match, priority |-> told[i].priority, reason |-> reason]]
Without(s, es, msgs) == [s EXCEPT !.table = remove_specific_entries(@, es), !.sent = @ \o msgs]
Refuse(s) == Say(s, [k |-> "error", about |-> "flow_mod"])

\* Variant: what the entry replaces is removed before overlaps are looked for.
flow_mod_add_replacing(s, f) ==
  LET e == from_flow_mod(f, now)
      same == IF f.command = "add" THEN matching_entries(s.table, f.match, f.priority, TRUE, NONE) ELSE <<>>
      room == Without(s, same, <<>>)
  IN IF "emerg" \in f.flags THEN Refuse(s)
     ELSE IF "check_overlap" \in f.flags /\ check_for_overlapping_entry(room.table, e) THEN Refuse(room)
     ELSE IF Len(room.table) >= MaxEntries THEN Refuse(room)
     ELSE [room EXCEPT !.table = add_entry(@, e)]
flow_mod_add(s, f) ==
  LET e == from_flow_mod(f, now)
      same == IF f.command = "add" THEN matching_entries(s.table, f.match, f.priority, TRUE, NONE) ELSE <<>>
      room == Without(s, same, <<>>)
  IN IF "emerg" \in f.flags THEN Refuse(s)
     ELSE IF "check_overlap" \in f.flags /\ check_for_overlapping_entry(s.table, e) THEN Refuse(s)
     ELSE IF Len(room.table) >= MaxEntries THEN Refuse(room)
     ELSE [room EXCEPT !.table = add_entry(@, e)]
flow_mod_modify(s, f, strict) ==
  LET hit(e) == is_matched_by(e, f.match, f.priority, strict, NONE) IN
  IF \E i \in DOMAIN s.table : hit(s.table[i])
  THEN [s EXCEPT !.table = [i \in DOMAIN @ |-> IF hit(@[i]) THEN [@[i] EXCEPT !.actions = f.actions] ELSE @[i]]]
  ELSE flow_mod_add(s, f)
flow_mod_delete(s, f, strict) ==
  LET es == matching_entries(s.table, f.match, f.priority, strict, f.out_port) IN Without(s, es, Removed(es, "delete"))

\* A flow_mod may release a packet as well, whether or not it was carried out.  A command that
\* is not known raises, for the warning about it names a variable that does not exist.
flow_mod(s, f, id) ==
  LET t == CASE f.command = "add"           -> flow_mod_add(s, f)
             [] f.command = "modify"        -> flow_mod_modify(s, f, FALSE)
             [] f.command = "modify_strict" -> flow_mod_modify(s, f, TRUE)
             [] f.command = "delete"        -> flow_mod_delete(s, f, FALSE)
             [] f.command = "delete_strict" -> flow_mod_delete(s, f, TRUE)
             [] OTHER                       -> Raise(s)
  IN IF t.raised \/ id = 0 THEN t ELSE process_from_buffer(t, f.actions, id)

(* ------------------------------ what the controller knows ------------------------------ *)
Known == [flows |-> {}, buffers |-> {}, unsure |-> {}, ports |-> <<>>]
Key(x) == <<x.match, x.priority>>
Told(v, m) ==
  CASE m.k = "flow_removed" -> [v EXCEPT !.flows = {x \in @ : Key(x) # Key(m)}]
    [] m.k = "packet_in" /\ m.id > 0 -> [v EXCEPT !.buffers = @ \union {m.id}, !.unsure = @ \ {m.id}]
    [] m.k = "port_status" -> [v EXCEPT !.ports = IF m.reason = "delete" THEN RestrictDomain(@, LAMBDA n : n # m.port)
                                                  ELSE (m.port :> m.down) @@ @]
    [] OTHER -> v
\* Nothing is told while there is no connection.
Hears(v, msgs) == IF conn = "lost" THEN v ELSE FoldLeft(Told, v, msgs)
\* A buffer that a message used is gone, unless the message was not carried out to its end.
Used(v, id, actions, raises) ==
  IF id = 0 THEN v
  ELSE [v EXCEPT !.buffers = @ \ {id},
                 !.unsure = IF raises THEN @ \union {id} ELSE @ \ {id}]
\* A flow_mod as OpenFlow means it, on the entries as a set.
Entry(x) == [match |-> x.match, priority |-> x.priority, actions |-> x.actions, flags |-> x.flags]
Booked(flows, f) ==
  LET strict == f.command \in {"modify_strict", "delete_strict"}
      hit == {x \in flows : is_matched_by(x, f.match, f.priority, strict,
                                          IF f.command \in {"delete", "delete_strict"} THEN f.out_port ELSE NONE)}
  IN CASE f.command = "add" -> {x \in flows : Key(x) # Key(f)} \union {Entry(f)}
       [] f.command \in {"modify", "modify_strict"} ->
            IF hit = {} THEN flows \union {Entry(f)} ELSE (flows \ hit) \union {[x EXCEPT !.actions = f.actions] : x \in hit}
       [] f.command \in {"delete", "delete_strict"} -> flows \ hit
       [] OTHER -> flows

(* ------------------------------------ behaviour ------------------------------------ *)
Port == [config |-> {}, down |-> FALSE]
PortStatus(reason, n, down) == [k |-> "port_status", reason |-> reason, port |-> n, down |-> down]
Init ==
  /\ table = <<>> /\ buffer = <<>> /\ frags = FALSE
  /\ objs = [o \in Objects |-> CHOOSE p \in Packets : TRUE]
  /\ ports = [n \in PortNos |-> Port]
  /\ conn = "lost" /\ hello = FALSE
  /\ now = 0 /\ due = Period
  /\ out = {} /\ view = Known /\ inputs = 0

Count == inputs < MaxInputs /\ inputs' = inputs + 1
\* Objects that no slot holds any more are forgotten.
Kept(s) == [o \in Objects |-> IF \E i \in DOMAIN s.buffer : s.buffer[i] # Free /\ s.buffer[i].obj = o THEN s.objs[o]
                              ELSE CHOOSE p \in Packets : TRUE]
Done(s, v) ==
  /\ table' = s.table /\ buffer' = s.buffer /\ objs' = Kept(s) /\ out' = s.out
  /\ view' = Hears(v, s.sent)

\* A packet from a host.
Receive(p, n) ==
  /\ Count /\ n \in DOMAIN ports
  /\ Done(rx_packet(WithObject(p), Fresh(buffer), n, 0), view)
  /\ UNCHANGED <<ports, frags, conn, hello, now, due>>

FlowMod(f, id) ==
  /\ Count /\ conn = "up"
  /\ LET s == flow_mod(Start(buffer), f, id)
         refused == [k |-> "error", about |-> "flow_mod"] \in ToSet(s.sent)
         v == [view EXCEPT !.flows = IF refused THEN @ ELSE Booked(@, f)]
     IN Done(s, Used(v, id, f.actions, s.raised))
  /\ UNCHANGED <<ports, frags, conn, hello, now, due>>

\* A packet_out with a packet of its own, or one of the buffer.
PacketOut(m) ==
  /\ Count /\ conn = "up"
  /\ Done(process_actions(WithObject(m.packet), m.actions, Fresh(buffer), m.in_port, 0), view)
  /\ UNCHANGED <<ports, frags, conn, hello, now, due>>
PacketOutBuffer(actions, id) ==
  /\ Count /\ conn = "up"
  /\ LET s == process_from_buffer(Start(buffer), actions, id) IN Done(s, Used(view, id, actions, s.raised))
  /\ UNCHANGED <<ports, frags, conn, hello, now, due>>
\* A port_mod changes one bit, and so the state of the link; one for a port that there is not is
\* answered by an error.
\* The state of a link follows the bit that takes its port down.
SetPortConfigBit(port, bit, on) ==
  LET config == IF on THEN port.config \union {bit} ELSE port.config \ {bit}
  IN IF config # port.config /\ bit = "port_down" THEN [config |-> config, down |-> on]
     ELSE [port EXCEPT !.config = config]
PortMod(n, bit, on) ==
  /\ Count /\ conn = "up" /\ n \in DOMAIN ports
  /\ LET port == SetPortConfigBit(ports[n], bit, on)
     IN /\ ports' = [ports EXCEPT ![n] = port]
        /\ view' = Hears(view, IF port.down # ports[n].down THEN <<PortStatus("modify", n, port.down)>> ELSE <<>>)
  /\ out' = {}
  /\ UNCHANGED <<table, buffer, objs, frags, conn, hello, now, due>>
SetConfig(drop) ==
  /\ Count /\ conn = "up"
  /\ frags' = drop /\ out' = {}
  /\ UNCHANGED <<table, buffer, objs, ports, conn, hello, now, due, view>>

AddPort(n) ==
  /\ Count /\ n \in PortNos \ DOMAIN ports
  /\ ports' = (n :> Port) @@ ports
  /\ view' = Hears(view, <<PortStatus("add", n, FALSE)>>)
  /\ out' = {}
  /\ UNCHANGED <<table, buffer, objs, frags, conn, hello, now, due>>
DeletePort(n) ==
  /\ Count /\ n \in DOMAIN ports
  /\ ports' = RestrictDomain(ports, LAMBDA m : m # n)
  /\ view' = Hears(view, <<PortStatus("delete", n, ports[n].down)>>)
  /\ out' = {}
  /\ UNCHANGED <<table, buffer, objs, frags, conn, hello, now, due>>

\* The timer of ExpireMixin, which is set again when it has fired.
remove_expired_entries(s) ==
  LET idle == Without(s, Idle(s.table, now), Removed(Idle(s.table, now), "idle"))
  IN Without(idle, Hard(s.table, now), Removed(Hard(s.table, now), "hard"))
Expire ==
  /\ now = due /\ due' = now + Period
  /\ Done(remove_expired_entries(Start(buffer)), view)
  /\ UNCHANGED <<ports, frags, conn, hello, now, inputs>>
Tick == /\ now < MaxTime /\ now < due
        /\ now' = now + 1 /\ out' = {}
        /\ UNCHANGED <<switch, conn, hello, due, view, inputs>>

\* A new connection.  The controller knows nothing of the buffer that is left over.
Connect == /\ Count /\ conn = "lost"
           /\ conn' = "new" /\ hello' = FALSE /\ out' = {}
           /\ view' = [Known EXCEPT !.unsure = 1..MaxBuffers]
           /\ UNCHANGED <<switch, now, due>>
Lose == /\ conn # "lost"
        /\ conn' = "lost" /\ out' = {}
        /\ UNCHANGED <<switch, hello, now, due, view, inputs>>
\* The controller says hello, asks for the ports, and empties the table.
Hello == /\ conn = "new"
         /\ conn' = "hello" /\ hello' = TRUE /\ out' = {}
         /\ UNCHANGED <<switch, now, due, view, inputs>>
FeaturesRequest == /\ conn = "hello"
                   /\ conn' = "features" /\ out' = {}
                   /\ view' = [view EXCEPT !.ports = [n \in DOMAIN ports |-> ports[n].down]]
                   /\ UNCHANGED <<switch, hello, now, due, inputs>>
DeleteAll == [command |-> "delete", match |-> [in_port |-> ANY, src |-> ANY, dst |-> ANY], priority |-> 0, out_port |-> NONE]
Clear == /\ conn = "features" /\ conn' = "up"
         /\ Done(flow_mod(Start(buffer), DeleteAll, 0), view)
         /\ UNCHANGED <<ports, frags, hello, now, due, inputs>>

Ids == 0..MaxBuffers
Controller ==
  \/ \E f \in Mods, id \in Ids : FlowMod(f, id)
  \/ \E m \in PacketOuts : PacketOut(m)
  \/ \E actions \in ActionLists, id \in Ids \ {0} : PacketOutBuffer(actions, id)
  \/ \E n \in PortNos, bit \in PortBits, on \in BOOLEAN : PortMod(n, bit, on)
  \/ \E drop \in BOOLEAN : SetConfig(drop)
  \/ Hello \/ FeaturesRequest \/ Clear
Network ==
  \/ \E p \in Packets, n \in PortNos : Receive(p, n)
  \/ \E n \in PortNos : AddPort(n) \/ DeletePort(n)
  \/ Connect \/ Lose
Next == Controller \/ Network \/ Expire \/ Tick
Spec == Init /\ [][Next]_vars

(* ------------------------------------ properties ------------------------------------ *)
Overdue(e) == \/ e.hard > 0 /\ now > e.created + e.hard + Period
              \/ e.idle > 0 /\ now > e.touched + e.idle + Period
\* A controller that has the switch report removals can tell the table from what it has sent and
\* been told: replaced and modified entries, those that a full table or an overlap kept out,
\* those that ran out, in time, and those that a delete took.  What it does not know of is not there, and
\* the entry a packet finds is one of the highest priority.
TableAsBooked ==
  conn = "up" =>
    /\ view.flows = {Entry(table[i]) : i \in DOMAIN table}
    /\ Cardinality(view.flows) = Len(table)
    /\ \A i \in DOMAIN table : ~Overdue(table[i])
    /\ \A p \in Packets, n \in PortNos, x \in view.flows :
         matches_with_wildcards(x.match, from_packet(p, n)) =>
           LET i == entry_for_packet(table, p, n) IN i > 0 /\ effective_priority(table[i]) >= effective_priority(x)

Occupied == {i \in DOMAIN buffer : buffer[i] # Free}
\* Every buffer that the controller was given and has not used holds a packet, and every other
\* is free for the next packet, unless a message that used it was not carried out.  The ports
\* and links are those it was told of last, and packets leave by no other.
PictureIsTrue ==
  /\ conn # "lost" => view.buffers \subseteq Occupied /\ Occupied \subseteq view.buffers \union view.unsure
  /\ conn \in {"features", "up"} => /\ view.ports = [n \in DOMAIN ports |-> ports[n].down]
                                    /\ \A n \in out : n \in DOMAIN view.ports /\ ~view.ports[n]
=============================================================================
