-------------------------------- MODULE Core --------------------------------
(***************************************************************************)
(* pox/core.py and the start-up in pox/boot.py: the components and those   *)
(* that wait for them, the events of the core, and how POX goes up and     *)
(* down.  The main thread launches the components and goes up; the         *)
(* scheduler's thread runs what is left to callLater(); quit() may start   *)
(* threads of its own.                                                     *)
(*                                                                         *)
(* What a component's launch, a waiting callback or a listener does is     *)
(* left open: any of the operations of the core, MaxOps of them in a       *)
(* behaviour.                                                              *)
(***************************************************************************)
EXTENDS Revent

CONSTANTS Components,   \* what may be registered, without "openflow", "of_01"
          Sinks,        \* what call_when_ready() calls, or
                        \* listen_to_dependencies() subscribes
          Needs,        \* the components each of them waits for, a sequence
          Binds,        \* the events each has handlers for, a sequence
          CommandLines, \* the components that may be asked for, in order
          ListenTo,     \* the events callbacks subscribe to
          Styles,       \* and how: the priority, once, weak
          Quitters,     \* the threads quit() may start
          MaxOps,       \* bound: operations of the callbacks
          MaxSignals    \* bound: SIGHUPs

CoreEvents == {"ComponentRegistered", "GoingUp", "Up", "GoingDown", "Down",
               "RereadConfiguration"}
Names == Components \union {"core", "openflow", "OpenFlowConnectionArbiter",
                            "of_01"}

ASSUME CoreNames ==
  /\ Events = CoreEvents
  /\ Threads = {"main", "scheduler"} \union Quitters
  /\ \A s \in Sinks : ToSet(Needs[s]) \subseteq Names
ASSUME Subscriptions ==
  /\ \A s \in Sinks : Binds[s] \in Seq(Events)
  /\ \A style \in Styles : /\ style.priority \in 0 .. MaxPriority
                            /\ {style.once, style.weak} \subseteq BOOLEAN
  /\ ListenTo \subseteq Events
  /\ CommandLines \subseteq Seq(Components)

VARIABLES components,   \* the names registered
          waiters,      \* those waiting for components
          calls,        \* how often each was called
          wanted,       \* somebody asked for "openflow"
          startingUp, running,
          boot,         \* where the main thread is in boot()
          commandLine,  \* the components still to be launched
          cut,          \* history: an exception left waiters unlooked at
          later,        \* what callLater() left to the scheduler
          asked,        \* quit() was called
          ops, signals  \* what is left of the bounds

coreVars == <<components, waiters, calls, cut, wanted, startingUp, running,
              boot, commandLine, later, asked, ops, signals>>
vars == <<reventVars, coreVars>>

Push(t, f) == [stack EXCEPT ![t] = Append(@, f)]
OnTop(t, f) == [stack EXCEPT ![t] = Append(Below(t), f)]

----------------------------------------------------------------------------
(* Registering components. *)

hasComponent(name) == name \in components

\* The components of a waiter are looked up until one is missing: asking for
\* "openflow" is what makes POX start it.
Ready(s) == ToSet(Needs[s]) \subseteq components
LookedUp(s) ==
  {Needs[s][k] : k \in {k \in DOMAIN Needs[s] :
     \A j \in 1 .. k - 1 : hasComponent(Needs[s][j])}}

AsksForOpenFlow(s) ==
  LookedUp(s) \intersect {"openflow", "OpenFlowConnectionArbiter"} # {}

\* "loop" tells _try_waiters() from the single _try_waiter() of
\* call_when_ready(); "found" that the first entry was seen to be waiting.
Tries(entries, loop) ==
  [kind |-> "tries", entries |-> entries, loop |-> loop, changed |-> loop,
   found |-> FALSE]

\* register(): what was put on the stack first goes on last.
Registering(t, name) ==
  /\ components' = components \union {name}
  /\ stack' = [stack EXCEPT ![t] = @ \o
                 <<Tries(<<>>, TRUE), Raise("ComponentRegistered", TRUE)>>]

call_when_ready(t, s) ==
  /\ waiters' = Append(waiters, s)
  /\ stack' = Push(t, Tries(<<s>>, FALSE))

\* done(): a sink is subscribed to the events of the components it waited
\* for, then told that its dependencies are met.
Notified(t, s, changed) ==
  LET rest == [Top(t) EXCEPT !.entries = Tail(@), !.found = FALSE, !.changed = changed]
      stk == [stack EXCEPT ![t] = Below(t) \o <<rest, Call(s, NoEntry)>>]
      hs == autoBindEvents(s, Binds[s])
  IN /\ handlers' = hs
     /\ stack' = Seen(stk, hs, {})
     /\ made' = made + Len(Binds[s])
     /\ UNCHANGED gone

\* What an exception leaves behind: searches it has ended are not resumed.
Searches(stk) == {k \in DOMAIN stk : stk[k].kind = "tries"}
CutShort(t) == cut' = (cut \/ Searches(stack'[t]) # Searches(stack[t]))

TryUnchanged == UNCHANGED <<components, startingUp, running, boot, commandLine,
                            later, asked, ops, signals>>

\* An entry that was handled already is passed over.
Find(t) ==
  /\ At(t, "tries")
  /\ Top(t).entries # <<>> /\ ~Top(t).found
  /\ stack' = OnTop(t, IF Head(Top(t).entries) \in ToSet(waiters)
                         THEN [Top(t) EXCEPT !.found = TRUE]
                         ELSE [Top(t) EXCEPT !.entries = Tail(@)])
  /\ UNCHANGED <<handlers, made, gone, waiters, calls, cut, wanted>>
  /\ TryUnchanged

\* Variant: an entry that another thread has removed in between is called all the same.
TryAgain(t) ==
  LET s == Head(Top(t).entries) IN
  /\ At(t, "tries") /\ Top(t).entries # <<>> /\ Top(t).found
  /\ wanted' = (wanted \/ AsksForOpenFlow(s))
  /\ IF Ready(s)
     THEN /\ waiters' = Without(waiters, {s})
          /\ calls' = [calls EXCEPT ![s] = @ + 1]
          /\ Notified(t, s, TRUE)
     ELSE /\ stack' = OnTop(t, [Top(t) EXCEPT !.entries = Tail(@), !.found = FALSE])
          /\ UNCHANGED <<handlers, made, gone, waiters, calls>>
  /\ UNCHANGED cut /\ TryUnchanged

\* The components of an entry that was found are looked up, and it is removed
\* and called.  It cannot be removed if another thread has done so meanwhile:
\* this is outside of the try, and ends the search.
Try(t) ==
  LET s == Head(Top(t).entries) IN
  /\ At(t, "tries") /\ Top(t).entries # <<>> /\ Top(t).found
  /\ wanted' = (wanted \/ AsksForOpenFlow(s))
  /\ \/ /\ ~Ready(s)
        /\ stack' = OnTop(t, [Top(t) EXCEPT !.entries = Tail(@), !.found = FALSE])
        /\ UNCHANGED <<handlers, made, gone, waiters, calls, cut>>
     \/ /\ Ready(s) /\ s \in ToSet(waiters)
        /\ waiters' = Without(waiters, {s})
        /\ calls' = [calls EXCEPT ![s] = @ + 1]
        /\ Notified(t, s, TRUE)
        /\ UNCHANGED cut
     \/ /\ Ready(s) /\ s \notin ToSet(waiters)
        /\ stack' = [stack EXCEPT ![t] = Caught(@, FALSE)]
        /\ CutShort(t)
        /\ UNCHANGED <<handlers, made, gone, waiters, calls>>
  /\ TryUnchanged

_try_waiter(t) == Find(t) \/ Try(t)

\* The while loop of _try_waiters(): once more if any was called.
_try_waiters(t) ==
  /\ At(t, "tries")
  /\ Top(t).entries = <<>>
  /\ IF Top(t).loop /\ Top(t).changed
     THEN /\ stack' = OnTop(t, [Tries(waiters, TRUE) EXCEPT !.changed = FALSE])
          /\ cut' = FALSE
     ELSE stack' = [stack EXCEPT ![t] = Below(t)] /\ UNCHANGED cut
  /\ UNCHANGED <<handlers, made, gone, waiters, calls, wanted>>
  /\ TryUnchanged

----------------------------------------------------------------------------
(* What callbacks do. *)

MayAct(t) == At(t, "call") /\ ops > 0 /\ ops' = ops - 1

\* A launch registers what it launches, anybody may register more.
Register(t) ==
  /\ At(t, "call")
  /\ \E name \in Components \ components :
       /\ Registering(t, name)
       /\ \/ name = Top(t).who /\ ops' = ops
          \/ name # Top(t).who /\ ops > 0 /\ ops' = ops - 1
  /\ UNCHANGED <<handlers, made, gone, waiters, calls, cut, wanted, startingUp,
                 running, boot, commandLine, later, asked, signals>>

\* listen_to_dependencies() ends in call_when_ready().
listen_to_dependencies(t) ==
  /\ MayAct(t)
  /\ \E s \in Sinks :
       /\ calls[s] = 0 /\ s \notin ToSet(waiters)
       /\ call_when_ready(t, s)
  /\ UNCHANGED <<handlers, made, gone, components, calls, cut, wanted, startingUp,
                 running, boot, commandLine, later, asked, signals>>

Listen(t) ==
  /\ MayAct(t)
  /\ \E e \in ListenTo, h \in Handlers, style \in Styles :
       addListener(e, h, style.priority, style.once, style.weak)
  /\ UNCHANGED <<components, waiters, calls, cut, wanted, startingUp, running,
                 boot, commandLine, later, asked, signals>>

Unlisten(t) ==
  /\ MayAct(t)
  /\ \E e \in Events : \E entry \in ToSet(handlers[e]) :
       /\ entry.handler \in Handlers
       /\ \/ removeHandler(entry.handler)
          \/ removePair(e, entry.eid)
  /\ UNCHANGED <<made, gone, components, waiters, calls, cut, wanted, startingUp,
                 running, boot, commandLine, later, asked, signals>>

RaisesError(t) ==
  /\ MayAct(t)
  /\ \E revent \in BOOLEAN : Raises(t, revent)
  /\ CutShort(t)
  /\ UNCHANGED <<components, waiters, calls, wanted, startingUp, running, boot,
                 commandLine, later, asked, signals>>

RaiseEvent(t) ==
  /\ MayAct(t)
  /\ stack' = Push(t, Raise("RereadConfiguration", FALSE))
  /\ UNCHANGED <<handlers, made, gone, components, waiters, calls, cut, wanted,
                 startingUp, running, boot, commandLine, later, asked,
                 signals>>

\* A callback that is no listener just returns.
Done(t) ==
  /\ At(t, "call") /\ ~InHandler(t)
  /\ stack' = [stack EXCEPT ![t] = Below(t)]
  /\ UNCHANGED <<handlers, made, gone, coreVars>>

----------------------------------------------------------------------------
(* Going down. *)

Quitting(pc) == [kind |-> "quit", pc |-> pc]

\* quit() needs a thread of its own while POX starts and in the scheduler's.
quit(t) ==
  /\ MayAct(t)
  /\ asked' = TRUE
  /\ IF startingUp \/ t = "scheduler"
     THEN \E q \in Quitters : /\ ~Busy(q)
                              /\ stack' = Push(q, Quitting("check"))
     ELSE stack' = Push(t, Quitting("check"))
  /\ UNCHANGED <<handlers, made, gone, components, waiters, calls, cut, wanted,
                 startingUp, running, boot, commandLine, later, signals>>

\* Were a quit() that comes too early simply left undone.
CheckOnce(t) ==
  /\ At(t, "quit") /\ Top(t).pc = "check"
  /\ stack' = IF running /\ ~startingUp THEN OnTop(t, Quitting("down"))
              ELSE [stack EXCEPT ![t] = Below(t)]
  /\ UNCHANGED <<handlers, made, gone, coreVars>>

\* While POX starts, _quit() calls quit(), which starts a thread that calls
\* _quit(): a new thread in the place of this one.
CheckRunning(t) ==
  /\ At(t, "quit") /\ Top(t).pc = "check"
  /\ \/ /\ ~running
        /\ stack' = [stack EXCEPT ![t] = Below(t)]
     \/ /\ running /\ ~startingUp
        /\ stack' = OnTop(t, Quitting("down"))
  /\ UNCHANGED <<handlers, made, gone, coreVars>>

GoDown(t) ==
  /\ At(t, "quit") /\ Top(t).pc = "down"
  /\ running' = FALSE
  /\ stack' = [stack EXCEPT ![t] = Below(t) \o
                 <<Quitting("later"), Raise("GoingDown", FALSE)>>]
  /\ UNCHANGED <<handlers, made, gone, components, waiters, calls, cut, wanted,
                 startingUp, boot, commandLine, later, asked, ops, signals>>

\* The scheduler is given five seconds to quit.
StopScheduler(t) ==
  /\ At(t, "quit") /\ Top(t).pc = "later"
  /\ later' = Append(later, "quit")
  /\ stack' = [stack EXCEPT ![t] = Below(t) \o
                 <<Quitting("notify"), Raise("Down", FALSE)>>]
  /\ UNCHANGED <<handlers, made, gone, components, waiters, calls, cut, wanted,
                 startingUp, running, boot, commandLine, asked, ops, signals>>

\* notifyAll() spares the main thread the rest of its ten seconds.
Notify(t) ==
  /\ At(t, "quit") /\ Top(t).pc = "notify"
  /\ stack' = [stack EXCEPT ![t] = Below(t)]
  /\ UNCHANGED <<handlers, made, gone, coreVars>>

_quit(t) == CheckRunning(t) \/ GoDown(t) \/ StopScheduler(t) \/ Notify(t)

----------------------------------------------------------------------------
(* The main thread: boot(). *)

MainAt(where) == boot = where /\ ~Busy("main")

BootUnchanged == UNCHANGED <<handlers, made, gone, waiters, calls, cut, wanted,
                             running, later, asked, ops, signals>>

\* _pre_startup() registers the arbiter, then the nexus, before any component.
_pre_startup ==
  \/ /\ MainAt("start")
     /\ boot' = "arbiter"
     /\ Registering("main", "OpenFlowConnectionArbiter")
     /\ BootUnchanged /\ UNCHANGED <<startingUp, commandLine>>
  \/ /\ MainAt("arbiter")
     /\ boot' = "launching"
     /\ Registering("main", "openflow")
     /\ BootUnchanged /\ UNCHANGED <<startingUp, commandLine>>

\* _do_launch(): the components in the order of the command line.  A launch
\* may return False, which ends the program.
_do_launch ==
  /\ MainAt("launching") /\ commandLine # <<>>
  /\ commandLine' = Tail(commandLine)
  /\ \/ stack' = Push("main", Call(Head(commandLine), NoEntry)) /\ boot' = boot
     \/ boot' = "exited" /\ UNCHANGED stack
  /\ BootUnchanged /\ UNCHANGED <<components, startingUp>>

_post_startup ==
  /\ MainAt("launching") /\ commandLine = <<>>
  /\ boot' = "launched"
  /\ IF wanted /\ ~hasComponent("of_01") THEN Registering("main", "of_01")
     ELSE UNCHANGED <<stack, components>>
  /\ BootUnchanged /\ UNCHANGED <<startingUp, commandLine>>

goUp ==
  \/ /\ MainAt("launched")
     /\ startingUp' = FALSE
     /\ boot' = "goingUp"
     /\ stack' = Push("main", Raise("GoingUp", FALSE))
     /\ BootUnchanged /\ UNCHANGED <<components, commandLine>>
  \/ /\ MainAt("goingUp")
     /\ boot' = "up"
     /\ stack' = Push("main", Raise("Up", FALSE))
     /\ BootUnchanged /\ UNCHANGED <<components, startingUp, commandLine>>

\* The main thread waits, ten seconds at a time, for POX not to be running;
\* the interrupt of a user ends the wait and has it call quit() itself.
Leave ==
  \/ /\ MainAt("up") /\ ~running
     /\ boot' = "exited"
     /\ BootUnchanged /\ UNCHANGED <<stack, components, startingUp, commandLine>>
  \/ /\ MainAt("leaving")
     /\ boot' = "exited"
     /\ BootUnchanged /\ UNCHANGED <<stack, components, startingUp, commandLine>>

Interrupt ==
  /\ MainAt("up")
  /\ boot' = "leaving"
  /\ stack' = Push("main", Quitting("check"))
  /\ BootUnchanged /\ UNCHANGED <<components, startingUp, commandLine>>

\* An exception that nothing catches ends the program in the main thread, the
\* thread in another; the scheduler only reports it.
Uncaught(t) ==
  /\ At(t, "failed")
  /\ stack' = [stack EXCEPT ![t] = <<>>]
  /\ boot' = IF t = "main" THEN "exited" ELSE boot
  /\ UNCHANGED <<handlers, made, gone, components, waiters, calls, cut, wanted,
                 startingUp, running, commandLine, later, asked, ops, signals>>

----------------------------------------------------------------------------
(* The scheduler's thread: what callLater() and raiseLater() left to it. *)

_signal_handler_SIGHUP ==
  /\ boot \in {"goingUp", "up"} /\ signals > 0
  /\ signals' = signals - 1
  /\ later' = Append(later, "RereadConfiguration")
  /\ UNCHANGED <<reventVars, components, waiters, calls, cut, wanted, startingUp,
                 running, boot, commandLine, asked, ops>>

callLater ==
  /\ ~Busy("scheduler") /\ later # <<>> /\ Head(later) # "quit"
  /\ later' = Tail(later)
  /\ stack' = Push("scheduler", Raise(Head(later), FALSE))
  /\ UNCHANGED <<handlers, made, gone, components, waiters, calls, cut, wanted,
                 startingUp, running, boot, commandLine, asked, ops, signals>>

----------------------------------------------------------------------------
Init ==
  /\ ReventInit
  /\ components = {"core"} /\ waiters = <<>>
  /\ calls = [s \in Sinks |-> 0]
  /\ cut = FALSE /\ wanted = FALSE /\ startingUp = TRUE /\ running = TRUE
  /\ boot = "start" /\ commandLine \in CommandLines
  /\ later = <<>> /\ asked = FALSE
  /\ ops = MaxOps /\ signals = MaxSignals

\* The steps inside a call of thread t.
Inside(t) ==
  \/ Fetch(t) /\ UNCHANGED coreVars
  \/ Exhausted(t) /\ UNCHANGED coreVars
  \/ (\E halt, remove \in BOOLEAN : Answer(t, halt, remove)) /\ UNCHANGED coreVars
  \/ _try_waiter(t) \/ _try_waiters(t) \/ Done(t) \/ _quit(t) \/ Uncaught(t)

\* What a callback may do before it returns.
Callback(t) ==
  \/ RaisesError(t) \/ Register(t) \/ listen_to_dependencies(t) \/ Listen(t) \/ Unlisten(t)
  \/ RaiseEvent(t) \/ quit(t)

Main == _pre_startup \/ _do_launch \/ _post_startup \/ goUp \/ Leave

Next ==
  /\ boot # "exited"
  /\ \/ \E t \in Threads : Inside(t) \/ Callback(t)
     \/ Main \/ Interrupt \/ _signal_handler_SIGHUP \/ callLater
     \/ _forgetMe /\ UNCHANGED coreVars

\* The threads of the operating system run, and callbacks return.
Fairness ==
  /\ \A t \in Threads : WF_vars(boot # "exited" /\ Inside(t))
  /\ WF_vars(boot # "exited" /\ Main)

Spec == Init /\ [][Next]_vars /\ Fairness

----------------------------------------------------------------------------
\* Whatever callbacks register, or wait for, while others are being called, and
\* whatever other threads do meanwhile, each waiter is called once, with what it
\* needs.  While no register() or call_when_ready() is under way nobody waits
\* whose components are all there, unless an exception, of revent or of a thread
\* that came second, has cut such a call short; the next register() makes up
\* for that.
CalledWhenReady ==
  /\ \A s \in Sinks : /\ calls[s] <= 1
                      /\ calls[s] = 1 => Ready(s) /\ s \notin ToSet(waiters)
  /\ ~cut /\ (\A t \in Threads : Searches(stack[t]) = {})
       => \A s \in ToSet(waiters) : ~Ready(s)

\* Once quit() was called the program ends, also when it was called while POX
\* was starting, and whatever raises an exception on the way.
QuitEnds == asked ~> boot = "exited"
=============================================================================
