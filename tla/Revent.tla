------------------------------- MODULE Revent -------------------------------
(***************************************************************************)
(* pox/lib/revent: the listeners of the event sources and the dispatch of  *)
(* an event to them, by several threads.                                   *)
(*                                                                         *)
(* A thread is a stack of the calls it is inside.  The list of the         *)
(* listeners of an event is a Python list that a dispatch iterates over    *)
(* without a copy: addListener() changes that list, removeListener() puts  *)
(* another in its place.  A dispatch therefore holds the list it iterates  *)
(* over, and whether it still is the one of the source ("live").           *)
(***************************************************************************)
EXTENDS PythonLists

CONSTANTS Threads,      \* the threads that raise events
          Events,       \* the events, each of one source
          Handlers,     \* the functions that may be subscribed
          MaxPriority,  \* priorities are 1 .. MaxPriority, 0 is None
          MaxListeners  \* bound: subscriptions made in a behaviour

ASSUME ReventBounds == MaxPriority \in Nat /\ MaxListeners \in Nat

VARIABLES handlers,     \* the list of the listeners of each event
          stack,        \* what each thread is inside of, the outermost first
          made,         \* the subscriptions made: the last event ID given
          gone          \* the weak listeners whose object was collected

reventVars == <<handlers, stack, made, gone>>

----------------------------------------------------------------------------
(* The calls a thread is inside of. *)

Busy(t) == stack[t] # <<>>
Top(t) == Last(stack[t])
At(t, kind) == Busy(t) /\ Top(t).kind = kind
Below(t) == Front(stack[t])

\* "due" and "heard" record whom a dispatch is for and whom it has called,
\* "moved" that its list was sorted under it.
Raise(e, guarded) ==
  [kind |-> "raise", event |-> e, guarded |-> guarded, list |-> handlers[e],
   at |-> 1, live |-> TRUE, heard |-> <<>>, moved |-> FALSE,
   due |-> {entry.eid : entry \in ToSet(handlers[e])}]

Call(who, entry) == [kind |-> "call", who |-> who, entry |-> entry]
NoEntry == [eid |-> 0, once |-> FALSE]
Failed == [kind |-> "failed"]

----------------------------------------------------------------------------
(* Subscribing. *)

\* handlers.sort() is stable and the list was in order: the new entry goes
\* behind the last one whose priority is not lower.
Behind(list, priority) ==
  CHOOSE k \in 1 .. Len(list) + 1 :
    /\ \A i \in 1 .. k - 1 : list[i].priority >= priority
    /\ \A i \in k .. Len(list) : list[i].priority < priority

Insert(list, entry) ==
  IF entry.priority = 0 THEN Append(list, entry)
  ELSE InsertAt(list, Behind(list, entry.priority), entry)

\* The dispatches that iterate over the list of the source see it change.
Seen(stk, hs, sorted) ==
  [t \in Threads |-> [k \in DOMAIN stk[t] |->
    LET f == stk[t][k] IN
    IF f.kind = "raise" /\ f.live
    THEN [f EXCEPT !.list = hs[f.event], !.moved = @ \/ f.event \in sorted]
    ELSE f]]

Entry(h, priority, once, weak, eid) ==
  [handler |-> h, priority |-> priority, once |-> once, weak |-> weak,
   eid |-> eid]

addListener(e, h, priority, once, weak) ==
  LET hs == [handlers EXCEPT
               ![e] = Insert(@, Entry(h, priority, once, weak, made + 1))]
  IN /\ made < MaxListeners
     /\ made' = made + 1
     /\ handlers' = hs
     /\ stack' = Seen(stack, hs, IF priority = 0 THEN {} ELSE {e})
     /\ UNCHANGED gone

\* addListeners(): a sink is subscribed, with one function, to the events it
\* has a handler for.
autoBindEvents(sink, events) ==
  [e \in Events |->
    IF e \in ToSet(events)
    THEN Append(handlers[e], Entry(sink, 0, FALSE, FALSE,
                               made + CHOOSE k \in DOMAIN events : events[k] = e))
    ELSE handlers[e]]

----------------------------------------------------------------------------
(* Unsubscribing: a new list for every event of the set "of". *)

Unlisted(hs, of, eids) ==
  [e \in Events |-> IF e \in of THEN Without(hs[e], {x \in ToSet(hs[e]) : x.eid \in eids})
                    ELSE hs[e]]

Replaced(stk, of) ==
  [t \in Threads |-> [k \in DOMAIN stk[t] |->
    LET f == stk[t][k] IN
    IF f.kind = "raise" /\ f.event \in of THEN [f EXCEPT !.live = FALSE]
    ELSE f]]

\* By the function (but a weak listener is in the list as its proxy, which is
\* another), by the event ID, and by the pair addListener() returns.
EidsOf(h) ==
  {x.eid : x \in {y \in UNION {ToSet(handlers[e]) : e \in Events} : y.handler = h /\ ~y.weak}}
removeHandler(h) ==
  /\ handlers' = Unlisted(handlers, Events, EidsOf(h))
  /\ stack' = Replaced(stack, Events)

removeEID(eid, stk) ==
  /\ handlers' = Unlisted(handlers, Events, {eid})
  /\ stack' = Replaced(stk, Events)

removePair(e, eid) ==
  /\ handlers' = Unlisted(handlers, {e}, {eid})
  /\ stack' = Replaced(stack, {e})

\* CallProxy: the object of a weak listener is collected, but not while its
\* method runs.
_forgetMe ==
  \E e \in Events : \E entry \in ToSet(handlers[e]) :
    /\ entry.weak
    /\ \A t \in Threads : \A k \in DOMAIN stack[t] :
         stack[t][k].kind = "call" => stack[t][k].entry.eid # entry.eid
    /\ gone' = gone \union {entry.eid}
    /\ removePair(e, entry.eid)
    /\ UNCHANGED made

----------------------------------------------------------------------------
(* raiseEvent(): the loop over the listeners. *)

\* The next listener is called.  A proxy that was cleaned up does nothing.
Fetch(t) ==
  /\ At(t, "raise")
  /\ Top(t).at <= Len(Top(t).list)
  /\ LET f == Top(t)
         entry == f.list[f.at]
         next == [f EXCEPT !.at = @ + 1, !.heard = Append(@, entry.eid)]
         here == Append(Below(t), next)
     IN stack' = [stack EXCEPT ![t] =
          IF entry.eid \in gone THEN here
          ELSE Append(here, Call(entry.handler, entry))]
  /\ UNCHANGED <<handlers, made, gone>>

Exhausted(t) ==
  /\ At(t, "raise")
  /\ Top(t).at > Len(Top(t).list)
  /\ stack' = [stack EXCEPT ![t] = Below(t)]
  /\ UNCHANGED <<handlers, made, gone>>

InHandler(t) == At(t, "call") /\ Top(t).entry.eid # 0

\* Were the entry taken out of the list the dispatch iterates over, the next
\* listener would be skipped.
AnswerInPlace(t, halt, remove) ==
  /\ InHandler(t)
  /\ LET entry == Top(t).entry
         below == Below(t)
         stk == [stack EXCEPT ![t] = IF halt THEN Front(below) ELSE below]
     IN IF entry.once \/ remove
        THEN /\ handlers' = Unlisted(handlers, Events, {entry.eid})
             /\ stack' = Seen(stk, handlers', {})
        ELSE stack' = stk /\ UNCHANGED handlers
  /\ UNCHANGED <<made, gone>>

\* A listener returns None or what EventReturn() makes.
Answer(t, halt, remove) ==
  /\ InHandler(t)
  /\ LET entry == Top(t).entry
         below == Below(t)
         stk == [stack EXCEPT ![t] = IF halt THEN Front(below) ELSE below]
     IN IF entry.once \/ remove THEN removeEID(entry.eid, stk)
        ELSE stack' = stk /\ UNCHANGED handlers
  /\ UNCHANGED <<made, gone>>

\* An exception goes up to raiseEventNoErrors(), unless it is an error of revent
\* itself, to the try around a waiter's callback, or out of the thread.
Catching(stk, revent) ==
  {k \in 1 .. Len(stk) - 1 :
     \/ stk[k].kind = "tries" /\ stk[k + 1].kind = "call"
     \/ stk[k].kind = "raise" /\ stk[k].guarded /\ ~revent}

Caught(stk, revent) ==
  LET k == CHOOSE k \in Catching(stk, revent) : \A j \in Catching(stk, revent) : j <= k
  IN IF Catching(stk, revent) = {} THEN <<Failed>>
     ELSE SubSeq(stk, 1, IF stk[k].kind = "tries" THEN k ELSE k - 1)

\* A callback raises an exception of its own, or asks revent for an event that
\* its source does not have.
Raises(t, revent) ==
  /\ At(t, "call")
  /\ stack' = [stack EXCEPT ![t] = Caught(@, revent)]
  /\ UNCHANGED <<handlers, made, gone>>

ReventInit ==
  /\ handlers = [e \in Events |-> <<>>]
  /\ stack = [t \in Threads |-> <<>>]
  /\ made = 0
  /\ gone = {}

----------------------------------------------------------------------------
(* The dispatches in progress. *)
Dispatches ==
  {f \in UNION {ToSet(stack[t]) : t \in Threads} : f.kind = "raise"}

\* Every listener that was subscribed when an event was raised and still is
\* when the last has been called has heard it, however the handlers subscribed
\* and unsubscribed (themselves too) in between; none has heard it twice,
\* unless one was added with a priority, which sorts the list under the loop;
\* and the lists stay in the order of the priorities and, among equals, of the
\* subscriptions.
HeardByAll ==
  /\ \A f \in Dispatches :
       /\ f.at > Len(f.list) =>
            {x \in f.due : \E entry \in ToSet(handlers[f.event]) : entry.eid = x}
              \subseteq ToSet(f.heard)
       /\ f.moved \/ Len(f.heard) = Cardinality(ToSet(f.heard))
  /\ \A e \in Events : \A i, j \in DOMAIN handlers[e] :
       i < j => \/ handlers[e][i].priority > handlers[e][j].priority
                \/ /\ handlers[e][i].priority = handlers[e][j].priority
                   /\ handlers[e][i].eid < handlers[e][j].eid
=============================================================================
