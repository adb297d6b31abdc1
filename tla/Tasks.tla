------------------------------- MODULE Tasks -------------------------------
(* The tasks of the scheduler and what they wait for: sleeps, files, locks,   *)
(* calls that block, events of revent; timers; functions to be called later;  *)
(* and threads that do not belong to the scheduler.                           *)
(*                                                                            *)
(* A program is a sequence of operations; those that give up control end a    *)
(* slice. Timer and CallLaterTask are tasks with fixed programs.              *)
EXTENDS Scheduler

VARIABLES
  lock,       \* a Lock: its holder, who waits, and who has been told it holds it
  waiter,     \* a ReventWaiter: events, the task that waits and _wakeable
  calls,      \* CallLaterTask: whether it is started, and _calls
  blocked,    \* tasks with a thread that makes a blocking call for them
  owed,       \* how many of these threads have yet to set the event
  thread      \* the other threads: how far they are, what they still notify

syncVars == <<lock, waiter, calls>>
threadVars == <<blocked, owed, thread>>
vars == <<about, local, schedulerVars, hubVars, incoming, io, syncVars, threadVars>>

CallPinger == <<"call pinger">>
Caller == "caller"

Kind(t) == job.kind[t]
Of(kind) == {t \in Tasks : Kind(t) = kind}
Timers == Of("timer") \union Of("retry")
Fresh == [st |-> "asleep", at |-> 1, rv |-> None, ok |-> FALSE, next |-> 0, since |-> 0, cancelled |-> FALSE, arg |-> 0]

(* -------------------------- what programs may do -------------------------- *)
\* A task is started once, by a thread or by a program that runs once: schedule() would put a
\* task that sleeps among those that are ready.  One task waits for events.  A lock is taken by
\* those that do not hold it, and released by the one that holds it.
Kinds == {"program", "timer", "retry", "caller", "loop", "absent"}
Steps(J) == UNION {{x} \X DOMAIN J.code[x] : x \in Tasks \union Threads}
At(J, s) == J.code[s[1]][s[2]]
FitsTimer(J, t) ==
  /\ t \in DOMAIN J.timer /\ J.timer[t].interval \in 0 .. Forever
  /\ J.timer[t].f.op # "start"
  /\ J.timer[t].f.op = "cancel" => J.timer[t].f.t \in Tasks /\ J.kind[J.timer[t].f.t] = "timer"
Fits(J, s) ==
  LET o == At(J, s) IN
  /\ o.op = "start" => /\ o.t \in Tasks /\ J.kind[o.t] \in {"program", "timer"}
                       /\ s[1] \in Tasks => J.kind[s[1]] = "program" /\ s[1] \notin J.loop
                       /\ \A r \in Steps(J) : At(J, r).op = "start" /\ At(J, r).t = o.t => r = s
  /\ o.op = "wait" => \A r \in Steps(J) : At(J, r).op = "wait" => r[1] = s[1]
  /\ o.op = "cancel" => o.t \in Tasks /\ J.kind[o.t] = "timer"
  /\ o.op \in {"sleep", "select"} => o.n \in 0 .. Forever
  /\ o.op = "try" => o.else \in s[2] + 1 .. Len(J.code[s[1]]) + 1
\* held[i]: whether a program holds the lock when it comes to its i-th operation.
Brackets(code, loops, held) ==
  /\ ~held[1] /\ (loops => ~held[Len(code) + 1])
  /\ \A i \in DOMAIN code :
       /\ held[i] = (IF code[i].op \in {"acquire", "try", "release"} THEN code[i].op = "release" ELSE held[i + 1])
       /\ code[i].op \in {"acquire", "try"} => held[i + 1]
       /\ code[i].op = "release" => ~held[i + 1]
       /\ code[i].op = "try" => ~held[code[i].else]
Bracketed(code, loops) == \E held \in [1 .. Len(code) + 1 -> BOOLEAN] : Brackets(code, loops, held)
Disciplined(J) ==
  /\ J.kind \in [Tasks -> Kinds] /\ J.kind[Caller] \in {"caller", "absent"}
  /\ \A x \in Tasks \union Threads : Len(J.code[x]) \in Nat /\ DOMAIN J.code[x] = 1 .. Len(J.code[x])
  /\ \A s \in Steps(J) : Fits(J, s)
  /\ \A t \in Tasks : /\ J.kind[t] = "timer" => FitsTimer(J, t)
                      /\ J.kind[t] = "program" => Bracketed(J.code[t], t \in J.loop)
ASSUME TasksAssumption ==
  /\ MaxLeft \in Nat /\ Nobody \notin Tasks /\ Tasks \intersect Threads = {} /\ Caller \in Tasks
  /\ \A j \in DOMAIN Jobs : Disciplined(Jobs[j])

(* --------------------------- what takes no time --------------------------- *)
\* schedule() on the scheduler thread.
schedule(t) == IF IsReady(t) THEN UNCHANGED <<ready, event>> ELSE fast_schedule(t)
\* Timer.start takes the time; other tasks have none.
Started(l, t) == IF Kind(t) = "timer"
                 THEN [l EXCEPT ![t].next = job.timer[t].interval, ![t].since = 0]
                 ELSE l
CanWake == waiter.events > 0 /\ waiter.task # Nobody /\ waiter.wakeable

\* What a task or a function called by one may do; l is what is in local.
Do(o, l) ==
  \/ /\ o.op = "nothing"
     /\ local' = l
     /\ UNCHANGED <<schedulerVars, io, syncVars>>
  \/ /\ o.op = "start"
     /\ local' = Started(l, o.t)
     /\ schedule(o.t)
     /\ UNCHANGED <<sch, io, syncVars>>
  \/ /\ o.op = "cancel"
     /\ local' = [l EXCEPT ![o.t].cancelled = TRUE]
     /\ UNCHANGED <<schedulerVars, io, syncVars>>
  \/ /\ o.op = "call"
     /\ calls' = [started |-> TRUE, queue |-> Append(calls.queue, o.f)]
     /\ IF calls.started THEN UNCHANGED <<ready, event>> ELSE schedule(Caller)
     /\ io' = io \union {CallPinger}
     /\ local' = l
     /\ UNCHANGED <<sch, lock, waiter>>
  \/ /\ o.op = "event"
     /\ LET wakes == waiter.task # Nobody /\ waiter.wakeable
        IN /\ waiter' = [waiter EXCEPT !.events = @ + 1, !.wakeable = @ /\ ~wakes]
           /\ IF wakes THEN schedule(waiter.task) ELSE UNCHANGED <<ready, event>>
     /\ local' = l
     /\ UNCHANGED <<sch, io, lock, calls>>

(* -------------------------------- programs -------------------------------- *)
Code(t) == job.code[t]
Op(t) == Code(t)[local[t].at]
Doing(t, op) == Running(t) /\ Kind(t) = "program" /\ local[t].at <= Len(Code(t)) /\ Op(t).op = op
\* The task goes on with its next operation, now or when it is resumed.
On(t) == [local EXCEPT ![t].at = @ + 1, ![t].st = "live"]
Ends(t) == local' = [local EXCEPT ![t].st = "done"] /\ Unscheduled

ProgramDoes(t) ==
  /\ \E op \in {"start", "cancel", "call", "event"} : Doing(t, op)
  /\ Do(Op(t), On(t))
  /\ UNCHANGED <<incoming, blocked, owed>>

\* The end of the program: StopIteration, unless it is a loop.
ProgramEnds(t) ==
  /\ Running(t) /\ Kind(t) = "program" /\ local[t].at > Len(Code(t))
  /\ IF t \in job.loop
     THEN local' = [local EXCEPT ![t].at = 1] /\ UNCHANGED <<schedulerVars, incoming>>
     ELSE Ends(t)
  /\ UNCHANGED <<io, syncVars, blocked, owed>>

YieldsZero(t) ==
  /\ Doing(t, "again")
  /\ local' = On(t)
  /\ Again(t)
  /\ UNCHANGED <<io, syncVars, blocked, owed>>

Sleeps(t) ==
  /\ Doing(t, "sleep")
  /\ local' = On(t)
  /\ Sleep(t, Op(t).n)
  /\ UNCHANGED <<io, syncVars, blocked, owed>>

Selects(t) ==
  /\ Doing(t, "select")
  /\ local' = On(t)
  /\ registerSelect(t, {Op(t).fd}, Op(t).n)
  /\ UNCHANGED <<io, syncVars, blocked, owed>>

\* Recv reads when it is resumed, unless it timed out.
Reads(t) ==
  /\ Doing(t, "read")
  /\ local' = On(t)
  /\ io' = io \ local[t].rv
  /\ UNCHANGED <<schedulerVars, incoming, syncVars, blocked, owed>>

\* Sleep(None).
Parks(t) ==
  /\ Doing(t, "park")
  /\ local' = [On(t) EXCEPT ![t].st = "asleep"]
  /\ Unscheduled
  /\ UNCHANGED <<io, syncVars, blocked, owed>>

\* Without waiting (blocking = False) a task that does not get the lock goes on
\* behind the release.
Acquires(t) ==
  /\ ~local[t].ok
  /\ \E op \in {"acquire", "try"} : Doing(t, op)
  /\ IF lock.holder = Nobody
     THEN /\ lock' = [lock EXCEPT !.holder = t, !.inside = @ \union {t}]
          /\ local' = On(t)
          /\ UNCHANGED <<schedulerVars, incoming>>
     ELSE IF Op(t).op = "try"
     THEN /\ local' = [On(t) EXCEPT ![t].at = Op(t).else]
          /\ UNCHANGED <<lock, schedulerVars, incoming>>
     ELSE /\ lock' = [lock EXCEPT !.waiting = @ \union {t}]
          /\ local' = [local EXCEPT ![t].st = "live"]
          /\ Unscheduled
  /\ UNCHANGED <<io, waiter, calls, blocked, owed>>
\* The acquire of a task that waited returns.
Acquired(t) ==
  /\ Doing(t, "acquire") /\ local[t].ok
  /\ lock' = [lock EXCEPT !.inside = @ \union {t}]
  /\ local' = [On(t) EXCEPT ![t].ok = FALSE]
  /\ UNCHANGED <<schedulerVars, incoming, io, waiter, calls, blocked, owed>>

\* What breaks it: the lock is free until the task that is woken goes on.
ReleasesFirst(t) ==
  /\ Doing(t, "release")
  /\ \E u \in lock.waiting \union {Nobody} :
       /\ lock' = [holder |-> Nobody, waiting |-> lock.waiting \ {u}, inside |-> lock.inside \ {t}]
       /\ IF u = Nobody
          THEN lock.waiting = {} /\ local' = On(t) /\ UNCHANGED <<ready, event>>
          ELSE local' = [On(t) EXCEPT ![u].ok = TRUE] /\ fast_schedule(u)
  /\ UNCHANGED <<sch, incoming, io, waiter, calls, blocked, owed>>
\* The lock is handed to any of those that wait.
Releases(t) ==
  /\ Doing(t, "release")
  /\ IF lock.waiting = {}
     THEN /\ lock' = [lock EXCEPT !.holder = Nobody, !.inside = @ \ {t}]
          /\ local' = On(t)
          /\ UNCHANGED <<ready, event>>
     ELSE \E u \in lock.waiting :
            /\ lock' = [holder |-> u, waiting |-> lock.waiting \ {u}, inside |-> lock.inside \ {t}]
            /\ local' = [On(t) EXCEPT ![u].ok = TRUE]
            /\ fast_schedule(u)
  /\ UNCHANGED <<sch, incoming, io, waiter, calls, blocked, owed>>

\* CallBlocking: another thread makes the call, stores what it returns and makes
\* the task ready.
Blocks(t) ==
  /\ Doing(t, "block")
  /\ local' = On(t)
  /\ blocked' = blocked \union {t}
  /\ Unscheduled
  /\ UNCHANGED <<io, syncVars, owed>>
BlockingEnds(t) ==
  /\ t \in blocked
  /\ blocked' = blocked \ {t}
  /\ ready' = Append(ready, Item(t))
  /\ owed' = owed + 1
  /\ UNCHANGED <<about, local, event, sch, hubVars, incoming, io, syncVars, thread>>
BlockingSets ==
  /\ owed > 0
  /\ owed' = owed - 1
  /\ event' = TRUE
  /\ UNCHANGED <<about, local, ready, sch, hubVars, incoming, io, syncVars, blocked, thread>>

\* WaitOnEvents: _reset, and then _check in a step of its own.
WaitsOnEvents(t) ==
  /\ Doing(t, "wait")
  /\ local' = [On(t) EXCEPT ![t].st = "asleep"]
  /\ waiter' = [waiter EXCEPT !.task = t, !.wakeable = TRUE]
  /\ sch' = [sch EXCEPT !.pc = "check events"]
  /\ UNCHANGED <<ready, event, incoming, io, lock, calls, blocked, owed>>
ChecksEvents ==
  /\ sch.pc = "check events"
  /\ waiter' = [waiter EXCEPT !.wakeable = ~CanWake /\ @]
  /\ IF CanWake THEN schedule(waiter.task) ELSE UNCHANGED <<ready, event>>
  /\ Free
  /\ UNCHANGED <<local, incoming, io, lock, calls, blocked, owed>>
\* getEvent, until there is none.
TakesEvents(t) ==
  /\ Doing(t, "take")
  /\ local' = On(t)
  /\ waiter' = [waiter EXCEPT !.events = 0]
  /\ UNCHANGED <<schedulerVars, incoming, io, lock, calls, blocked, owed>>

Program(t) ==
  \/ ProgramDoes(t) \/ ProgramEnds(t) \/ YieldsZero(t) \/ Sleeps(t) \/ Selects(t) \/ Reads(t)
  \/ Parks(t) \/ Acquires(t) \/ Acquired(t) \/ Releases(t) \/ Blocks(t)
  \/ WaitsOnEvents(t) \/ TakesEvents(t)

(* --------------------------------- timers --------------------------------- *)
\* The places of its loop: 1 at the top, 2 after the sleep, 3 after the last call.
Timer(t) == job.timer[t]
TimerSleeps(t) ==
  /\ Running(t) /\ t \in Timers /\ local[t].at = 1 /\ ~local[t].cancelled
  /\ local' = [local EXCEPT ![t].st = "live", ![t].at = 2, ![t].next = 0]
  /\ Sleep(t, local[t].next)
  /\ UNCHANGED <<io, syncVars, blocked, owed>>
TimerEnds(t) ==
  /\ Running(t) /\ t \in Timers /\ (local[t].cancelled \/ local[t].at = 3)
  /\ Ends(t)
  /\ UNCHANGED <<io, syncVars, blocked, owed>>
TimerFires(t) ==
  /\ Running(t) /\ Kind(t) = "timer" /\ local[t].at = 2 /\ ~local[t].cancelled
  /\ Do(Timer(t).f, [local EXCEPT ![t].since = 0,
                                  ![t].next = IF Timer(t).recurring THEN Timer(t).interval ELSE 0,
                                  ![t].at = IF Timer(t).recurring /\ ~Timer(t).stops THEN 1 ELSE 3])
  /\ UNCHANGED <<incoming, blocked, owed>>

(* ----------------------------- CallLaterTask ----------------------------- *)
\* 1: before the select; 2: after it; 3: in the loop over _calls.
CallerSelects ==
  /\ Running(Caller) /\ Kind(Caller) = "caller"
  /\ \/ local[Caller].at = 1
     \/ local[Caller].at = 3 /\ calls.queue = <<>>
  /\ local' = [local EXCEPT ![Caller].st = "live", ![Caller].at = 2]
  /\ registerSelect(Caller, {CallPinger}, Forever)
  /\ UNCHANGED <<io, syncVars, blocked, owed>>
CallerPongs ==
  /\ Running(Caller) /\ Kind(Caller) = "caller" /\ local[Caller].at = 2
  /\ local' = [local EXCEPT ![Caller].at = 3]
  /\ io' = io \ {CallPinger}
  /\ UNCHANGED <<schedulerVars, incoming, syncVars, blocked, owed>>
CallerPops ==
  /\ Running(Caller) /\ Kind(Caller) = "caller" /\ local[Caller].at = 3 /\ calls.queue # <<>>
  /\ Head(calls.queue) # "lost"
  /\ calls' = [calls EXCEPT !.queue = Tail(@)]
  /\ sch' = [sch EXCEPT !.quit = @ \/ Head(calls.queue) = "quit"]
  /\ UNCHANGED <<local, ready, event, incoming, io, lock, waiter, blocked, owed>>

(* ----------------------------- other threads ----------------------------- *)
NextOp(f) == job.code[f][thread[f].at]
Then(f, s) == thread' = [thread EXCEPT ![f] = [at |-> @.at + 1, then |-> s]]
\* schedule() on another thread makes a ScheduleTask ready; callLater starts its
\* task with the lock of the scheduler held; a ReventWaiter stores an event.
ThreadDoes(f) ==
  /\ thread[f].then = <<>> /\ thread[f].at <= Len(job.code[f])
  /\ LET o == NextOp(f)
     IN \/ /\ o.op = "start"
           /\ local' = Started(local, o.t)
           /\ ready' = Append(ready, ScheduleTask(o.t))
           /\ Then(f, <<"set">>)
           /\ UNCHANGED <<io, syncVars>>
        \/ /\ o.op = "call"
           /\ calls' = [calls EXCEPT !.started = TRUE]
           /\ ready' = IF calls.started THEN ready ELSE Append(ready, ScheduleTask(Caller))
           /\ Then(f, IF calls.started THEN <<"queue", "ping">> ELSE <<"set", "queue", "ping">>)
           /\ UNCHANGED <<local, io, lock, waiter>>
        \/ /\ o.op = "event"
           /\ waiter' = [waiter EXCEPT !.events = @ + 1]
           /\ Then(f, <<"check">>)
           /\ UNCHANGED <<local, ready, io, lock, calls>>
        \/ /\ o.op = "data"
           /\ io' = io \union {o.fd}
           /\ Then(f, <<>>)
           /\ UNCHANGED <<local, ready, syncVars>>
  /\ UNCHANGED <<about, event, sch, hubVars, incoming, blocked, owed>>

ThreadNotifies(f) ==
  /\ thread[f].then # <<>>
  /\ LET n == Head(thread[f].then)
         rest == Tail(thread[f].then)
     IN /\ thread' = [thread EXCEPT ![f].then = CASE n = "check" /\ CanWake -> <<"wake">> \o rest
                                                  [] n = "wake" -> <<"set">> \o rest
                                                  [] OTHER -> rest]
        /\ event' = (event \/ n = "set")
        /\ calls' = IF n = "queue" THEN [calls EXCEPT !.queue = Append(@, job.code[f][thread[f].at - 1].f)] ELSE calls
        /\ io' = IF n = "ping" THEN io \union {CallPinger} ELSE io
        /\ waiter' = IF n = "check" THEN [waiter EXCEPT !.wakeable = ~CanWake /\ @] ELSE waiter
        /\ ready' = IF n = "wake" THEN Append(ready, ScheduleTask(waiter.task)) ELSE ready
  /\ UNCHANGED <<about, local, sch, hubVars, incoming, lock, blocked, owed>>

(* ------------------------------- properties ------------------------------- *)
\* Every task is in one place. A task is never made ready twice, never waits
\* for two things, and is not lost on the way from one thread to another; a
\* lock that is free has nobody waiting, and no two tasks hold it. The hub dies
\* of a task it gets twice.
OnePlace ==
  /\ \A t \in Tasks :
       LET places == Places(t) + (IF t \in blocked THEN 1 ELSE 0) + (IF t \in lock.waiting THEN 1 ELSE 0)
       IN CASE local[t].st = "live" -> places = 1
            [] local[t].st = "asleep" -> places <= 1
            [] local[t].st = "done" -> places = 0
  /\ Cardinality(lock.inside) <= 1
  /\ lock.holder = Nobody => lock.waiting = {}
  /\ hub.pc # "dead"

\* A timer calls its function no sooner than it should, from the start or from
\* the last call, and not at all once a task has cancelled it.
NeverEarly ==
  [][\A t \in Of("timer") : local'[t].since < local[t].since /\ local[t].st = "live" =>
       local[t].since >= Timer(t).interval /\ ~local[t].cancelled]_vars

\* Something has happened that t waits for: it is ready, its time is up, a file
\* has something to read, its call has returned, a function is to be called, an
\* event has come. Tasks of low priority may be put off by chance for ever.
Due(t) ==
  /\ ~Low(t)
  /\ \/ IsReady(t) \/ Contains(ready, ScheduleTask(t)) \/ Running(t) \/ t \in blocked
     \/ t \in DOMAIN entries /\ (entries[t].left # Forever \/ entries[t].files \intersect io # None)
     \/ \E i \in DOMAIN incoming : incoming[i].task = t
     \/ Kind(t) = "caller" /\ calls.queue # <<>>
     \/ waiter.task = t /\ waiter.events > 0
=============================================================================
