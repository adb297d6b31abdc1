----------------------------- MODULE Scheduler -----------------------------
(* recoco: a scheduler thread that runs tasks one slice at a time, a select   *)
(* hub on a thread of its own that tasks sleep on and wait for files with,    *)
(* and the three ways of waking them: the event of the scheduler, the pinger  *)
(* of the hub, and ScheduleTask for threads that are neither.                 *)
(*                                                                            *)
(* Times are what is left of them, in ticks. Every wait that the code cuts    *)
(* off after CYCLE_MAXIMUM seconds waits forever here: nothing may depend on  *)
(* that limit.                                                                *)
EXTENDS Naturals, FiniteSets, SequencesExt

CONSTANTS
  Tasks,      \* the tasks there may be
  Threads,    \* threads other than the scheduler's and the hub's
  MaxLeft,    \* bound: the longest sleep
  Jobs        \* what there is to do: programs of tasks and threads, by a name

VARIABLES
  about,      \* which of the Jobs it is; never changes
  local,      \* what each task keeps
  ready,      \* _ready, with the ScheduleTasks in it
  event,      \* _event of the hub
  sch,        \* the scheduler thread
  hub,        \* the thread of the hub
  entries,    \* _tasks of the hub: files and time left, of those that wait
  incoming,   \* _incoming of the hub
  io          \* the files and pingers that have something to read

schedulerVars == <<ready, event, sch>>
hubVars == <<hub, entries>>

job == Jobs[about]

Nobody == "nobody"
Forever == MaxLeft + 1
HubPinger == <<"hub pinger">>
None == {}

Item(t) == [task |-> t, wake |-> FALSE]
ScheduleTask(t) == [task |-> t, wake |-> TRUE]
IsReady(t) == Contains(ready, Item(t))

(* ------------------------------ the scheduler ------------------------------ *)
Running(t) == sch.pc = "run" /\ sch.task = t
Free == sch' = [sch EXCEPT !.pc = "check", !.task = Nobody]

\* A task of low priority may be put back while others are ready.
Low(t) == t \in job.low
cycle ==
  /\ sch.pc = "check" /\ ~sch.quit /\ ready # <<>>
  /\ LET i == Head(ready)
     IN \/ /\ sch' = [sch EXCEPT !.pc = IF i.wake THEN "wake" ELSE "run", !.task = i.task]
           /\ ready' = Tail(ready)
        \/ /\ ~i.wake /\ Low(i.task) /\ Len(ready) > 1
           /\ ready' = Append(Tail(ready), i)
           /\ UNCHANGED sch
  /\ UNCHANGED event

idle ==
  /\ sch.pc = "check" /\ ~sch.quit /\ ready = <<>>
  /\ sch' = [sch EXCEPT !.pc = "wait"]
  /\ UNCHANGED <<ready, event>>

Waited ==
  /\ sch.pc = "wait" /\ event
  /\ sch' = [sch EXCEPT !.pc = "clear"]
  /\ UNCHANGED <<ready, event>>

Cleared ==
  /\ sch.pc = "clear"
  /\ event' = FALSE
  /\ sch' = [sch EXCEPT !.pc = "check"]
  /\ UNCHANGED ready

\* The slice of a ScheduleTask: it wakes its task unless that is ready.
Wakes ==
  /\ sch.pc = "wake"
  /\ IF IsReady(sch.task)
     THEN UNCHANGED <<ready, event>>
     ELSE ready' = <<Item(sch.task)>> \o ready /\ event' = TRUE
  /\ Free

\* registerSelect is a put and a ping, and the hub may run in between.
Pings ==
  /\ sch.pc = "ping"
  /\ io' = io \union {HubPinger}
  /\ Free
  /\ UNCHANGED <<ready, event>>

\* quit(): the loop ends after the slice, and run() wakes the hub.
Quit ==
  /\ sch.quit /\ sch.pc = "check"
  /\ sch' = [sch EXCEPT !.pc = "done"]
  /\ io' = io \union {HubPinger}
  /\ UNCHANGED <<ready, event>>

(* What the slice of a task ends with. *)
fast_schedule(t) == ready' = Append(ready, Item(t)) /\ event' = TRUE
Again(t) ==                                             \* yields 0
  /\ ready' = Append(ready, Item(t))
  /\ Free
  /\ UNCHANGED <<event, incoming>>
Unscheduled ==                                          \* yields False, or ends
  /\ Free
  /\ UNCHANGED <<ready, event, incoming>>
registerSelect(t, files, left) ==
  /\ incoming' = Append(incoming, [task |-> t, files |-> files, left |-> left])
  /\ sch' = [sch EXCEPT !.pc = "ping"]
  /\ UNCHANGED <<ready, event>>
\* A sleep whose time has come is no sleep; at the very moment, it may be one.
Sleep(t, left) ==
  \/ registerSelect(t, None, left)
  \/ left = 0 /\ fast_schedule(t) /\ Free /\ UNCHANGED incoming

(* -------------------------------- the hub -------------------------------- *)
Expired == {t \in DOMAIN entries : entries[t].left = 0}
Asked(es) == UNION {es[t].files : t \in DOMAIN es}
OwnersOf(es, files) == {t \in DOMAIN es : es[t].files \intersect files # None}
Timed(es) == {t \in DOMAIN es : es[t].left # Forever}
Without(es, ts) == [t \in DOMAIN es \ ts |-> es[t]]

\* One pass of _select begins with the tasks whose time is up, and the timeout
\* of the others.
Scan ==
  /\ hub.pc = "scan"
  /\ IF sch.quit
     THEN hub' = [hub EXCEPT !.pc = "done"]
     ELSE LET others == Without(entries, Expired)
              timed == Timed(others)
              soonest == {t \in timed : \A u \in timed : others[t].left <= others[u].left}
          IN \E due \in IF timed = {} THEN {Nobody} ELSE soonest :
               hub' = [pc |-> IF Expired = {} THEN "select" ELSE "return", back |-> Expired,
                       got |-> None, due |-> due, then |-> "select",
                       left |-> IF due = Nobody THEN Forever ELSE others[due].left]
  /\ UNCHANGED <<entries, incoming, io, event, ready, local>>

\* What breaks it: a select that returns for the pinger alone counts as idle.
SelectPinged ==
  /\ hub.pc = "select"
  /\ LET found == (Asked(entries) \union {HubPinger}) \intersect io
         got == found \ {HubPinger}
     IN \/ /\ found # None
           /\ hub' = [hub EXCEPT !.pc = IF HubPinger \in found THEN "pong" ELSE "return", !.got = got,
                        !.back = IF got = None /\ hub.due # Nobody THEN {hub.due} ELSE OwnersOf(entries, got),
                        !.then = "scan"]
        \/ /\ found = None /\ hub.left = 0
           /\ hub' = [hub EXCEPT !.pc = "return", !.got = None, !.back = {hub.due}, !.then = "scan"]
  /\ UNCHANGED <<entries, incoming, io, event, ready, local>>
Select ==
  /\ hub.pc = "select"
  /\ LET found == (Asked(entries) \union {HubPinger}) \intersect io
         got == found \ {HubPinger}
     IN \/ /\ found # None
           /\ hub' = [hub EXCEPT !.pc = IF HubPinger \in found THEN "pong" ELSE "return",
                                 !.got = got, !.back = OwnersOf(entries, got), !.then = "scan"]
        \/ /\ found = None /\ hub.left = 0              \* no IO: the timer
           /\ hub' = [hub EXCEPT !.pc = "return", !.got = None, !.back = {hub.due}, !.then = "scan"]
  /\ UNCHANGED <<entries, incoming, io, event, ready, local>>

pongAll ==
  /\ hub.pc = "pong"
  /\ io' = io \ {HubPinger}
  /\ hub' = [hub EXCEPT !.pc = "drain"]
  /\ UNCHANGED <<entries, incoming, event, ready, local>>

\* What breaks it: one of the new entries is taken for each ping.
DrainOne ==
  /\ hub.pc = "drain"
  /\ entries' = IF incoming = <<>> THEN entries
                ELSE [t \in DOMAIN entries \union {Head(incoming).task} |->
                        IF t = Head(incoming).task
                        THEN [files |-> Head(incoming).files, left |-> Head(incoming).left]
                        ELSE entries[t]]
  /\ incoming' = IF incoming = <<>> THEN incoming ELSE Tail(incoming)
  /\ hub' = [hub EXCEPT !.pc = IF hub.back = {} THEN "scan" ELSE "return"]
  /\ UNCHANGED <<io, event, ready, local>>

\* The assertion "task not in tasks" ends the thread.
Drain ==
  /\ hub.pc = "drain"
  /\ LET new == {i.task : i \in ToSet(incoming)}
     IN IF new \intersect DOMAIN entries # {} \/ Cardinality(new) < Len(incoming)
        THEN hub' = [hub EXCEPT !.pc = "dead"] /\ UNCHANGED entries
        ELSE /\ entries' = [t \in DOMAIN entries \union new |->
                              IF t \in new
                              THEN LET i == CHOOSE i \in ToSet(incoming) : i.task = t
                                   IN [files |-> i.files, left |-> i.left]
                              ELSE entries[t]]
             /\ hub' = [hub EXCEPT !.pc = IF hub.back = {} THEN "scan" ELSE "return"]
  /\ incoming' = <<>>
  /\ UNCHANGED <<io, event, ready, local>>

\* _return: the result is stored and the task made ready; the event is set in a
\* step of its own. The assertion of fast_schedule ends the thread.
Return ==
  /\ hub.pc = "return"
  /\ \E t \in hub.back :
       /\ entries' = Without(entries, {t})
       /\ local' = [local EXCEPT ![t].rv = hub.got \intersect entries[t].files]
       /\ IF IsReady(t)
          THEN hub' = [hub EXCEPT !.pc = "dead"] /\ UNCHANGED ready
          ELSE /\ ready' = Append(ready, Item(t))
               /\ hub' = [hub EXCEPT !.pc = "set", !.back = @ \ {t}]
  /\ UNCHANGED <<incoming, io, event>>

break_idle ==
  /\ hub.pc = "set"
  /\ event' = TRUE
  /\ hub' = [hub EXCEPT !.pc = IF hub.back = {} THEN hub.then ELSE "return"]
  /\ UNCHANGED <<entries, incoming, io, ready, local>>

HubStep == Scan \/ Select \/ pongAll \/ Drain \/ Return \/ break_idle

(* --------------------------------- time --------------------------------- *)
Less(n) == IF n \in {0, Forever} THEN n ELSE n - 1
Counting(n) == n \notin {0, Forever}
Counts(t) == t \in DOMAIN job.timer /\ local[t].since < job.timer[t].interval
\* Tasks count what is left until they next sleep, and how long ago they last
\* did what they do after a sleep.
Aged ==
  /\ local' = [t \in Tasks |-> [local[t] EXCEPT !.next = Less(@),
                                  !.since = IF Counts(t) THEN @ + 1 ELSE @]]
  /\ entries' = [t \in DOMAIN entries |-> [entries[t] EXCEPT !.left = Less(@)]]
  /\ incoming' = [i \in DOMAIN incoming |-> [incoming[i] EXCEPT !.left = Less(@)]]
  /\ hub' = [hub EXCEPT !.left = IF hub.pc = "select" THEN Less(@) ELSE @]
SomethingAges ==
  \/ \E t \in DOMAIN entries : Counting(entries[t].left)
  \/ \E i \in DOMAIN incoming : Counting(incoming[i].left)
  \/ hub.pc = "select" /\ Counting(hub.left)

(* ------------------------------- properties ------------------------------- *)
Times(s, P(_)) == Cardinality({i \in DOMAIN s : P(s[i])})
\* How often the scheduler and the hub have a task.
Places(t) ==
  Times(ready, LAMBDA i : i = Item(t)) + Times(incoming, LAMBDA i : i.task = t)
  + (IF t \in DOMAIN entries THEN 1 ELSE 0) + (IF Running(t) THEN 1 ELSE 0)
=============================================================================
