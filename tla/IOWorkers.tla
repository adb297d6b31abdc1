----------------------------- MODULE IOWorkers -----------------------------
(* RecocoIOLoop, the task that does the IO of all workers, and BackoffWorker, *)
(* which a software switch reaches its controller with: when its connection   *)
(* is closed, or refused, it opens a new worker after a time that doubles.    *)
(*                                                                            *)
(* A worker is opened by a timer or by the loop, used by the loop and closed  *)
(* by a command that the loop runs before its next select. What is read may   *)
(* be a message that is answered or one of another version: the handler stops *)
(* at it for good and shuts down the sending, once all is sent.               *)
EXTENDS Tasks

CONSTANTS
  Workers,      \* names for workers, used again once they are free
  MaxDelay,     \* max_retry_delay
  MaxLosses     \* bound: what goes wrong on the side of the controller

VARIABLES
  worker,       \* the workers
  members,      \* _workers of the loop
  commands,     \* _pending_commands of the loop
  up,           \* whether the controller listens
  losses        \* how often connections or the controller were lost

ioVars == <<worker, members, commands>>
world == <<up, losses>>
allVars == <<vars, ioVars, world>>

Loop == "loop"
LoopPinger == <<"loop pinger">>
Readable(w) == <<"r", w>>
Writable(w) == <<"w", w>>
Ping == {LoopPinger}

\* The switch is launched once, by a thread, and has a timer to open workers with.
LaunchesOnce(J) ==
  /\ J.kind[Loop] \in {"loop", "absent"}
  /\ \A s, r \in Steps(J) : At(J, s).op = "launch" =>
       /\ s[1] \in Threads /\ \E t \in Tasks : J.kind[t] = "retry"
       /\ At(J, r).op = "launch" => r = s
ASSUME WorkersAssumption ==
  /\ Loop \in Tasks /\ MaxDelay \in 1 .. MaxLeft /\ MaxLosses \in Nat
  /\ \A j \in DOMAIN Jobs : LaunchesOnce(Jobs[j])

Half == 0       \* the first reconnect_delay, half a second
\* "starting" until a message was understood; "shut" is whether shutdown() was called and,
\* then, whether the socket is shut down for sending.
NoWorker == [st |-> "none", sock |-> "none", connecting |-> FALSE, closed |-> FALSE, sends |-> 0, delay |-> Half,
             starting |-> TRUE, shut |-> "no"]
Names == {w \in Workers : worker[w].st = "none"}
Unused == IF Names = {} THEN {} ELSE {CHOOSE w \in Names : TRUE}
ready_to_send(w) == worker[w].sends > 0 \/ worker[w].connecting
Longer(d) == IF d = Half THEN 1 ELSE IF 2 * d > MaxDelay THEN MaxDelay ELSE 2 * d

Keeps == UNCHANGED <<syncVars, blocked, owed>>

(* ----------------------------- opening, closing ----------------------------- *)
Retrying == {t \in Of("retry") : local[t].st # "done" /\ local[t].at # 3}
\* open_later: a timer for begin. ts are the tasks the step leaves as they are in l.
open_later(l, d) ==
  LET t == CHOOSE t \in Of("retry") : l[t].st = "done"
  IN /\ local' = [l EXCEPT ![t] = [Fresh EXCEPT !.next = Longer(d), !.arg = Longer(d)]]
     /\ schedule(t)

\* What breaks it: a worker is closed every time it is found to be at its end.
close_again(w, l, wk) ==
  /\ worker' = [wk EXCEPT ![w].closed = TRUE]
  /\ open_later(l, wk[w].delay)
  /\ commands' = Append(commands, [op |-> "close", w |-> w])
  /\ io' = io \union Ping

\* close(): once; the socket is closed by a command.
close(w, l, wk) ==
  IF wk[w].closed
  THEN /\ worker' = wk
       /\ local' = l
       /\ UNCHANGED <<commands, ready, event>>
       /\ io' = io
  ELSE /\ worker' = [wk EXCEPT ![w].closed = TRUE]
       /\ open_later(l, wk[w].delay)
       /\ commands' = Append(commands, [op |-> "close", w |-> w])
       /\ io' = io \union Ping

\* begin, called by the timer: the attempt is under way, or has failed.
Begins(t) ==
  /\ Running(t) /\ Kind(t) = "retry" /\ local[t].at = 2 /\ ~local[t].cancelled
  /\ \E w \in Unused :
       \/ /\ worker' = [worker EXCEPT ![w] = [NoWorker EXCEPT !.st = "open", !.sock = "syn", !.connecting = TRUE,
                                                             !.delay = local[t].arg]]
          /\ commands' = Append(commands, [op |-> "add", w |-> w])
          /\ io' = io \union Ping
          /\ UNCHANGED <<calls, ready, event>>
       \/ /\ ~up
          /\ worker' = [worker EXCEPT ![w] = [NoWorker EXCEPT !.st = "failed", !.delay = local[t].arg]]
          /\ calls' = [started |-> TRUE, queue |-> Append(calls.queue, "lost")]
          /\ IF calls.started THEN UNCHANGED <<ready, event>> ELSE schedule(Caller)
          /\ io' = io \union {CallPinger}
          /\ UNCHANGED commands
  /\ local' = [local EXCEPT ![t].at = 3, ![t].since = 0]
  /\ UNCHANGED <<sch, incoming, lock, waiter, blocked, owed, members>>

\* _handle_close of a worker that was never registered, called later.
CallerLost ==
  /\ Running(Caller) /\ Kind(Caller) = "caller" /\ local[Caller].at = 3 /\ calls.queue # <<>>
  /\ Head(calls.queue) = "lost"
  /\ calls' = [calls EXCEPT !.queue = Tail(@)]
  /\ \E w \in Workers : /\ worker[w].st = "failed"
                        /\ open_later(local, worker[w].delay)
                        /\ worker' = [worker EXCEPT ![w] = NoWorker]
  /\ UNCHANGED <<sch, incoming, io, lock, waiter, blocked, owed, members, commands>>

(* --------------------------------- the loop --------------------------------- *)
\* The loop is at its top at first, and when it has gone through the lists that
\* its select returned.
AtTop == Running(Loop) /\ Kind(Loop) = "loop" /\ local[Loop].rv = None
InLists == Running(Loop) /\ Kind(Loop) = "loop" /\ local[Loop].rv # None /\ LoopPinger \notin local[Loop].rv

LoopCommands ==
  /\ AtTop /\ commands # <<>>
  /\ LET c == Head(commands)
     IN IF c.op = "add"
        THEN /\ members' = members \union {c.w}
             /\ UNCHANGED <<worker, io>>
        ELSE /\ members' = members \ {c.w}
             /\ worker' = [worker EXCEPT ![c.w] = NoWorker]
             /\ io' = io \ {Readable(c.w), Writable(c.w)}
  /\ commands' = Tail(commands)
  /\ UNCHANGED <<local, schedulerVars, incoming>> /\ Keeps

LoopSelects ==
  /\ AtTop /\ commands = <<>>
  /\ local' = [local EXCEPT ![Loop].st = "live"]
  /\ registerSelect(Loop, Ping \union {Readable(w) : w \in members} \union {Writable(w) : w \in {m \in members : ready_to_send(m)}},
                    Forever)
  /\ UNCHANGED <<io, ioVars>> /\ Keeps

LoopPongs ==
  /\ Running(Loop) /\ Kind(Loop) = "loop" /\ LoopPinger \in local[Loop].rv
  /\ io' = io \ Ping
  /\ local' = [local EXCEPT ![Loop].rv = @ \ Ping]
  /\ UNCHANGED <<schedulerVars, incoming, ioVars>> /\ Keeps

rlist == {w \in Workers : Readable(w) \in local[Loop].rv}
wlist == {w \in Workers : Writable(w) \in local[Loop].rv}
Listed(f) == [local EXCEPT ![Loop].rv = @ \ {f}]
\* try_connect, when the socket says how the connection went. The handler of a
\* new connection says hello, and the delay is the first one again.
Connected(w) == IF worker[w].connecting
                THEN [worker EXCEPT ![w].connecting = FALSE, ![w].delay = Half, ![w].sends = 2]
                ELSE worker
Refused(w) == worker[w].connecting /\ worker[w].sock = "refused"

\* A message of another version stays at the head of the buffer and is met again whenever
\* there is something to read. It is answered if none was understood before.
ToShut(shut) == IF shut = "no" THEN "asked" ELSE shut
Complaint(w, sends) == IF worker[w].starting THEN 2 ELSE sends

DoRecv(w) ==
  /\ InLists /\ w \in rlist
  /\ LET l == Listed(Readable(w))
         wk == Connected(w)
     IN \/ /\ Refused(w)
           /\ close(w, l, [worker EXCEPT ![w].connecting = FALSE])
           /\ members' = members \ {w}
        \/ /\ ~Refused(w) /\ (worker[w].sock # "data" \/ worker[w].closed)        \* the end of the stream
           /\ close(w, l, wk)
           /\ members' = members \ {w}
        \/ /\ worker[w].sock = "data" /\ ~worker[w].closed /\ worker[w].shut = "no"  \* answered
           /\ worker' = [wk EXCEPT ![w].sock = "ok", ![w].sends = 2, ![w].starting = FALSE]
           /\ local' = l
           /\ io' = (io \ {Readable(w)}) \union Ping
           /\ UNCHANGED <<ready, event, members, commands>>
        \/ /\ worker[w].sock = "data" /\ ~worker[w].closed                        \* not understood
           /\ worker' = [wk EXCEPT ![w].sock = "ok", ![w].shut = ToShut(@), ![w].sends = Complaint(w, @)]
           /\ local' = l
           /\ io' = (io \ {Readable(w)}) \union (IF worker[w].starting THEN Ping ELSE {})
           /\ UNCHANGED <<ready, event, members, commands>>
  /\ UNCHANGED <<sch, incoming>> /\ Keeps

\* When all is sent, the socket is shut down for sending if that was asked for.
Left(wk, w, rest) ==
  [wk EXCEPT ![w].sends = rest,
             ![w].shut = IF wk[w].sends > 0 /\ rest = 0 /\ @ = "asked" THEN "done" ELSE @]
Broken(wk, w) == wk[w].sends > 0 /\ (wk[w].sock = "eof" \/ wk[w].shut = "done")
CanSend(wk, w) == wk[w].sends > 0 => wk[w].shut # "done"

DoSend(w) ==
  /\ InLists /\ rlist = {} /\ w \in wlist
  /\ LET l == Listed(Writable(w))
         wk == Connected(w)
     IN \/ /\ ~Refused(w) /\ CanSend(wk, w)
           /\ \E rest \in IF wk[w].sends > 0 THEN 0..wk[w].sends - 1 ELSE {0} : worker' = Left(wk, w, rest)
           /\ local' = l
           /\ UNCHANGED <<ready, event, io, members, commands>>
        \/ /\ \/ Refused(w)
              \/ Broken(wk, w)                                          \* broken pipe
           /\ close(w, l, IF Refused(w) THEN [worker EXCEPT ![w].connecting = FALSE] ELSE wk)
           /\ members' = members \ {w}
  /\ UNCHANGED <<sch, incoming>> /\ Keeps

(* ----------------------------- the controller ----------------------------- *)
Quiet == UNCHANGED <<about, local, schedulerVars, hubVars, incoming, syncVars, threadVars, members, commands>>
\* The answer to an attempt: the socket is writable, and readable when refused.
Answers(w) ==
  /\ worker[w].sock = "syn"
  /\ worker' = [worker EXCEPT ![w].sock = IF up THEN "ok" ELSE "refused"]
  /\ io' = io \union {Writable(w)} \union (IF up THEN {} ELSE {Readable(w)})
  /\ UNCHANGED world /\ Quiet
\* The controller closes a connection that it has read to its end.
HangsUp(w) ==
  /\ worker[w].sock = "ok" /\ worker[w].shut = "done" /\ ~worker[w].closed
  /\ worker' = [worker EXCEPT ![w].sock = "eof"]
  /\ io' = io \union {Readable(w)}
  /\ UNCHANGED world /\ Quiet
Says(w, what) ==
  /\ losses < MaxLosses
  /\ worker[w].sock = "ok" /\ ~worker[w].closed
  /\ worker' = [worker EXCEPT ![w].sock = what]
  /\ io' = io \union {Readable(w)}
  /\ losses' = losses + 1
  /\ UNCHANGED up /\ Quiet
Turns ==
  /\ losses < MaxLosses
  /\ up' = ~up
  /\ losses' = losses + 1
  /\ worker' = [w \in Workers |-> IF up /\ worker[w].sock \in {"ok", "data"} THEN [worker[w] EXCEPT !.sock = "eof"] ELSE worker[w]]
  /\ io' = io \union {Readable(w) : w \in {v \in Workers : up /\ worker[v].sock \in {"ok", "data"}}}
  /\ Quiet

(* ------------------------------ specification ------------------------------ *)
InitWith(j, listens) ==
  /\ about = j
  /\ local = [t \in Tasks |-> IF Jobs[j].kind[t] = "retry" THEN [Fresh EXCEPT !.st = "done"] ELSE Fresh]
  /\ ready = <<>> /\ event = FALSE /\ sch = [pc |-> "check", task |-> Nobody, quit |-> FALSE]
  /\ hub = [pc |-> "scan", back |-> {}, got |-> None, due |-> Nobody, then |-> "scan", left |-> Forever]
  /\ entries = [t \in {} |-> 0] /\ incoming = <<>> /\ io = None
  /\ lock = [holder |-> Nobody, waiting |-> {}, inside |-> {}]
  /\ waiter = [events |-> 0, task |-> Nobody, wakeable |-> FALSE]
  /\ calls = [started |-> FALSE, queue |-> <<>>]
  /\ blocked = {} /\ owed = 0
  /\ thread = [f \in Threads |-> [at |-> 1, then |-> <<>>]]
  /\ worker = [w \in Workers |-> NoWorker] /\ members = {} /\ commands = <<>>
  /\ up = listens /\ losses = 0

\* The handler of the UpEvent runs on the main thread: it starts the loop and
\* opens the first worker.
Launches(f) ==
  /\ thread[f].then = <<>> /\ thread[f].at <= Len(job.code[f]) /\ NextOp(f).op = "launch"
  /\ \E w \in Unused : worker' = [worker EXCEPT ![w] = [NoWorker EXCEPT !.st = "open", !.sock = "syn", !.connecting = TRUE]]
                       /\ commands' = Append(commands, [op |-> "add", w |-> w])
  /\ io' = io \union Ping
  /\ ready' = Append(ready, ScheduleTask(Loop))
  /\ Then(f, <<"set">>)
  /\ UNCHANGED <<about, local, event, sch, hubVars, incoming, syncVars, blocked, owed, members, world>>

Switching == cycle \/ idle \/ Waited \/ Cleared \/ Wakes
SchedulerStep ==
  \/ /\ Switching
     /\ UNCHANGED <<local, incoming, io, syncVars, blocked, owed, ioVars>>
  \/ /\ Pings \/ Quit
     /\ UNCHANGED <<local, incoming, syncVars, blocked, owed, ioVars>>
  \/ /\ \/ \E t \in Tasks : Running(t) /\ (Program(t) \/ TimerSleeps(t) \/ TimerEnds(t) \/ TimerFires(t))
        \/ ChecksEvents \/ CallerSelects \/ CallerPongs \/ CallerPops
     /\ UNCHANGED ioVars
  \/ \E t \in Tasks : Begins(t)
  \/ CallerLost \/ LoopCommands \/ LoopSelects \/ LoopPongs
  \/ \E w \in Workers : DoRecv(w) \/ DoSend(w)

Sched == SchedulerStep /\ UNCHANGED <<about, hubVars, thread, world>>
Hub == HubStep /\ UNCHANGED <<about, sch, syncVars, threadVars, ioVars, world>>
OtherThreads ==
  \/ /\ \/ \E f \in Threads : ThreadDoes(f) \/ ThreadNotifies(f)
        \/ \E t \in Tasks : BlockingEnds(t)
        \/ BlockingSets
     /\ UNCHANGED <<ioVars, world>>
  \/ \E f \in Threads : Launches(f)
Answering == \E w \in Workers : Answers(w) \/ HangsUp(w)
Tick ==
  /\ SomethingAges \/ \E t \in Timers : local[t].next > 0
  /\ Aged
  /\ UNCHANGED <<about, schedulerVars, io, syncVars, threadVars, ioVars, world>>
Network == Turns \/ \E w \in Workers : Says(w, "data") \/ Says(w, "eof")

Next == Sched \/ Hub \/ OtherThreads \/ Answering \/ Tick \/ Network

\* The scheduler, the hub and the other threads run, attempts and the end of what a
\* switch sends are answered, and time passes.
Fairness == /\ WF_allVars(Sched) /\ WF_allVars(Hub) /\ WF_allVars(OtherThreads)
            /\ WF_allVars(Answering) /\ WF_allVars(Tick)

(* ------------------------------- properties ------------------------------- *)
Live == {w \in Workers : worker[w].st # "none" /\ ~worker[w].closed}

\* Nothing is done twice, and nothing is forgotten: every task is in one place
\* (OnePlace), and once the switch is started, one thing works at its connection:
\* a worker that is not closed, an attempt that failed at once and is to be
\* reported, or a timer that will open the next. Never two, never none; and the loop watches
\* no socket that has been closed.
NothingTwice ==
  /\ OnePlace
  /\ (\E f \in Threads : \E i \in DOMAIN job.code[f] : job.code[f][i].op = "launch" /\ i < thread[f].at) =>
       Cardinality(Live) + Cardinality(Retrying) = 1
  /\ \A w \in members : worker[w].st = "open"
  /\ Loop \in DOMAIN entries => \A w \in Workers : Readable(w) \in entries[Loop].files => worker[w].st = "open"

\* No wake-up is lost: when nothing more happens to them, all tasks come to
\* where they wait for something that has not happened, with no help from
\* timeouts; and whatever has gone wrong before, when the controller stays up
\* the switch is connected to it at last and reads what it sends, unless, having
\* understood a message before, it stands at one that it cannot read: it has shut
\* nothing down then, for it had nothing to send, and nothing tells the controller.
Joined(w) == worker[w].sock = "ok" /\ ~worker[w].connecting /\ ~worker[w].closed
Linked == \E w \in Workers : Joined(w) /\ worker[w].shut = "no"
Stalls == \E w \in Workers : Joined(w) /\ worker[w].shut = "asked" /\ ~worker[w].starting /\ worker[w].sends = 0
Settled == \/ sch.pc = "done"
           \/ (\A t \in Tasks : ~Due(t)) /\ (Kind(Loop) = "loop" => Linked \/ Stalls)
Settles == <>[]up => <>[]Settled
=============================================================================
