--------------------------- MODULE IOWorkersProofs ---------------------------
(***************************************************************************)
(* No task is ever in two places, no timer calls too early, and one thing  *)
(* works at the connection of a switch: for any tasks, threads, programs,  *)
(* timers and workers.                                                     *)
(*                                                                         *)
(* SchedInv below is inductive.  It is kept part by part: every part has a *)
(* section with one lemma for each kind of step that can disturb it        *)
(* (NextCases lists the kinds), and a lemma "...Kept" that joins them.     *)
(* TypesKept, SeatsKept, WaiterKept, HubKept, LockKept, TimersKept,        *)
(* CommandsKept, WatchesKept, OneWorksKept and RetriesKept make up StepOK. *)
(***************************************************************************)
EXTENDS IOWorkers, SequenceTheorems, FiniteSetTheorems, TLAPS

(* ----------------------------- invariants ------------------------------ *)
\* What the variables hold.
Files == {HubPinger, CallPinger, LoopPinger} \union {Readable(w) : w \in Workers} \union {Writable(w) : w \in Workers}
         \union {At(job, s).fd : s \in {r \in Steps(job) : At(job, r).op = "select"}}
Locals(files) == [st : {"asleep", "live", "done"}, at : Nat \ {0}, rv : SUBSET files, ok : BOOLEAN,
                  next : 0 .. Forever, since : Nat, cancelled : BOOLEAN, arg : Nat]
Items == [task : Tasks, wake : BOOLEAN]
Waits(files) == [files : SUBSET files, left : 0 .. Forever]
Requests(files) == [task : Tasks, files : SUBSET files, left : 0 .. Forever]
Slices == [pc : {"check", "run", "wake", "wait", "clear", "ping", "check events", "done"},
           task : Tasks \union {Nobody}, quit : BOOLEAN]
Passes(files) == [pc : {"scan", "select", "return", "set", "pong", "drain", "dead", "done"}, back : SUBSET Tasks,
                  got : SUBSET files, due : Tasks \union {Nobody}, then : {"select", "scan"}, left : 0 .. Forever]
Locks == [holder : Tasks \union {Nobody}, waiting : SUBSET Tasks, inside : SUBSET Tasks]
Waiters == [events : Nat, task : Tasks \union {Nobody}, wakeable : BOOLEAN]
Notes == {<<>>, <<"set">>, <<"ping">>, <<"queue", "ping">>, <<"set", "queue", "ping">>, <<"check">>, <<"wake">>}
Others == [at : Nat \ {0}, then : Notes]
WorkerStates == [st : {"none", "open", "failed"}, sock : {"none", "syn", "ok", "refused", "data", "eof"},
                 connecting : BOOLEAN, closed : BOOLEAN, sends : Nat, delay : Nat,
                 starting : BOOLEAN, shut : {"no", "asked", "done"}]
Commands == [op : {"add", "close"}, w : Workers]
SchOK(s) == s \in Slices /\ (s.pc \in {"run", "wake"} => s.task \in Tasks)
TypeOK ==
  /\ about \in DOMAIN Jobs /\ local \in [Tasks -> Locals(Files)]
  /\ ready \in Seq(Items) /\ incoming \in Seq(Requests(Files))
  /\ DOMAIN entries \subseteq Tasks /\ entries \in [DOMAIN entries -> Waits(Files)]
  /\ SchOK(sch) /\ hub \in Passes(Files)
  /\ lock \in Locks /\ waiter \in Waiters
  /\ calls = [started |-> calls.started, queue |-> calls.queue] /\ calls.started \in BOOLEAN
  /\ blocked \subseteq Of("program") /\ thread \in [Threads -> Others]
  /\ worker \in [Workers -> WorkerStates] /\ members \subseteq Workers /\ commands \in Seq(Commands)

\* Where a task may be: where it can be taken from to run, and ...
HasItem(r, t) == Contains(r, Item(t))
Queued(q, t) == \E i \in DOMAIN q : q[i].task = t
Runs(s, t) == s.pc = "run" /\ s.task = t
\* ... what will make it ready: a ScheduleTask that waits or runs, the waiter, a step that
\* starts it, the first call.
Told(r, t) == Contains(r, ScheduleTask(t))
Wakens(s, t) == s.pc = "wake" /\ s.task = t
Owes(th) == \E f \in Threads : th[f].then = <<"wake">>
Awaits(w, th, t) == w.task = t /\ (w.wakeable \/ Owes(th))
StartsOf(J, t) == {s \in Steps(J) : \/ At(J, s).op = "start" /\ At(J, s).t = t
                                    \/ At(J, s).op = "launch" /\ t = Loop}
Ahead(lc, th, s) == s[2] >= IF s[1] \in Threads THEN th[s[1]].at ELSE lc[s[1]].at
ToStart(J, lc, th, t) == \E s \in StartsOf(J, t) : Ahead(lc, th, s)
Uncalled(c, t) == t = Caller /\ ~c.started

Placed(t) == HasItem(ready, t) \/ Queued(incoming, t) \/ t \in DOMAIN entries
             \/ Runs(sch, t) \/ t \in blocked \/ t \in lock.waiting
Claimed(t) == Told(ready, t) \/ Wakens(sch, t) \/ Awaits(waiter, thread, t)
              \/ ToStart(job, local, thread, t) \/ Uncalled(calls, t)

\* A task is in one of these places, and in no other.
OneSeat(t) ==
  /\ Placed(t) => ~Claimed(t)
  /\ HasItem(ready, t) => ~(Queued(incoming, t) \/ t \in DOMAIN entries
                            \/ Runs(sch, t) \/ t \in blocked \/ t \in lock.waiting)
  /\ Queued(incoming, t) => ~(t \in DOMAIN entries \/ Runs(sch, t) \/ t \in blocked \/ t \in lock.waiting)
  /\ t \in DOMAIN entries => ~(Runs(sch, t) \/ t \in blocked \/ t \in lock.waiting)
  /\ Runs(sch, t) => ~(t \in blocked \/ t \in lock.waiting)
  /\ t \in blocked => ~(t \in lock.waiting)
  /\ Told(ready, t) => ~(Wakens(sch, t) \/ Awaits(waiter, thread, t)
                         \/ ToStart(job, local, thread, t) \/ Uncalled(calls, t))
  /\ Wakens(sch, t) => ~(Awaits(waiter, thread, t) \/ ToStart(job, local, thread, t) \/ Uncalled(calls, t))
  /\ Awaits(waiter, thread, t) => ~(ToStart(job, local, thread, t) \/ Uncalled(calls, t))
  /\ ToStart(job, local, thread, t) => ~Uncalled(calls, t)
Seated(t) ==
  /\ local[t].st = "live" => Placed(t)
  /\ local[t].st = "done" => ~Placed(t) /\ ~Claimed(t)
Once(s) == \A i, j \in DOMAIN s : s[i] = s[j] => i = j
OncePerTask(q) == \A i, j \in DOMAIN q : q[i].task = q[j].task => i = j
SeatsOK == Once(ready) /\ OncePerTask(incoming) /\ \A t \in Tasks : OneSeat(t) /\ Seated(t)

\* At most one thread is about to wake the task that waits for events, and only one waits.
WaiterOK(J, w, th) ==
  /\ w.task # Nobody => J.kind[w.task] = "program" /\ \E s \in Steps(J) : s[1] = w.task /\ At(J, s).op = "wait"
  /\ w.task = Nobody => ~w.wakeable /\ ~Owes(th)
  /\ w.wakeable => ~Owes(th)
  /\ \A f, g \in Threads : th[f].then = <<"wake">> /\ th[g].then = <<"wake">> => f = g

\* What the hub is about to give back is there, and the task that its select may wake up for
\* is one whose time is up no later.
HubOK(h, es) ==
  /\ h.pc # "dead" /\ h.back \subseteq DOMAIN es
  /\ h.pc = "select" \/ (h.pc \in {"return", "set"} /\ h.then = "select") =>
       IF h.due = Nobody THEN h.left = Forever
       ELSE /\ h.due \in DOMAIN es \ h.back /\ h.left # Forever
            /\ es[h.due].left <= h.left
  /\ h.pc = "select" => h.back = {}
  /\ h.pc \in {"pong", "drain"} => h.then = "scan"
  /\ \A t \in h.back : es[t].files = None => es[t].left = 0

\* Whether a program holds the lock is told by the place where it is.
Held(J, t) == CHOOSE held \in [1 .. Len(J.code[t]) + 1 -> BOOLEAN] : Brackets(J.code[t], t \in J.loop, held)
IsInside(J, lc, t) == J.kind[t] = "program" /\ Held(J, t)[lc[t].at]
AtAcquire(J, lc, t) == /\ J.kind[t] = "program" /\ lc[t].at \in DOMAIN J.code[t]
                       /\ J.code[t][lc[t].at].op = "acquire"
LockOK(J, lc, lk) ==
  /\ \A t \in Tasks : J.kind[t] = "program" => lc[t].at \in 1 .. Len(J.code[t]) + 1
  /\ lk.inside = {t \in Tasks : IsInside(J, lc, t)} /\ lk.inside \subseteq {lk.holder}
  /\ \A t \in Tasks : J.kind[t] = "program" /\ lc[t].ok => AtAcquire(J, lc, t) /\ lk.holder = t
  /\ \A t \in lk.waiting : AtAcquire(J, lc, t) /\ ~lc[t].ok /\ lk.holder # t
  /\ IF lk.holder = Nobody THEN lk.waiting = {}
     ELSE lk.holder \in lk.inside \/ (J.kind[lk.holder] = "program" /\ lc[lk.holder].ok)

\* What is left of the time of a timer, and the time it has waited, are its interval.
Enough(J, lc, n, t) == n + lc[t].since >= J.timer[t].interval
TimerOK(t) ==
  /\ local[t].st = "asleep" => local[t].at = 1
  /\ local[t].at = 1 /\ (Placed(t) \/ Told(ready, t) \/ Wakens(sch, t)) => Enough(job, local, local[t].next, t)
  /\ local[t].at = 2 =>
       /\ \A i \in DOMAIN incoming : incoming[i].task = t =>
            incoming[i].files = None /\ Enough(job, local, incoming[i].left, t)
       /\ t \in DOMAIN entries => entries[t].files = None /\ Enough(job, local, entries[t].left, t)
       /\ HasItem(ready, t) \/ Runs(sch, t) => Enough(job, local, 0, t)
TimersOK == \A t \in Of("timer") : TimerOK(t)

\* Commands are for workers that are open, once and in their order; those that are closed and
\* not free have their command.
Add(w) == [op |-> "add", w |-> w]
Close(w) == [op |-> "close", w |-> w]
CommandsOK(wk, cs, ms) ==
  /\ Once(cs) /\ \A i \in DOMAIN cs : wk[cs[i].w].st = "open"
  /\ \A i, j \in DOMAIN cs : cs[i].op = "add" /\ cs[j].op = "close" /\ cs[i].w = cs[j].w => i < j
  /\ \A w \in Workers : /\ Contains(cs, Close(w)) <=> wk[w].closed
                        /\ wk[w].closed => wk[w].st = "open"
  /\ \A w \in ms : wk[w].st = "open"
OfOpen(wk, files) == \A w \in Workers : Readable(w) \in files \/ Writable(w) \in files => wk[w].st = "open"
WatchesOpen ==
  /\ OfOpen(worker, local[Loop].rv)
  /\ \A i \in DOMAIN incoming : incoming[i].task = Loop => OfOpen(worker, incoming[i].files)
  /\ Loop \in DOMAIN entries => OfOpen(worker, entries[Loop].files)
\* One thing works at the connection, once the switch is launched.
Launched(J, th) == \E s \in Steps(J) : s[1] \in Threads /\ At(J, s).op = "launch" /\ s[2] < th[s[1]].at
OneWorks ==
  IF Launched(job, thread)
  THEN \/ Live = {} /\ \E t \in Of("retry") : Retrying = {t}
       \/ Retrying = {} /\ \E w \in Workers : Live = {w}
  ELSE Retrying = {} /\ \A w \in Workers : worker[w].st = "none"
RetriesOK == \A t \in Of("retry") : ~local[t].cancelled /\ (local[t].at = 3 /\ local[t].st # "done" => Runs(sch, t))

Ordered == SeatsOK /\ WaiterOK(job, waiter, thread) /\ HubOK(hub, entries) /\ LockOK(job, local, lock) /\ TimersOK
OneAtWork == CommandsOK(worker, commands, members) /\ WatchesOpen /\ OneWorks /\ RetriesOK
SchedInv == TypeOK /\ Ordered /\ OneAtWork

(* ------------------------------ sequences ------------------------------ *)
LEMMA Appended ==
  ASSUME NEW S, NEW s \in Seq(S), NEW x \in S
  PROVE  /\ Append(s, x) \in Seq(S)
         /\ \A y : Contains(Append(s, x), y) <=> Contains(s, y) \/ y = x
         /\ Once(s) /\ ~Contains(s, x) => Once(Append(s, x))
<1> DEFINE n == Len(s)
           a == Append(s, x)
<1>1. n \in Nat /\ DOMAIN s = 1 .. n /\ DOMAIN a = 1 .. n + 1 /\ Len(a) = n + 1 /\ a \in Seq(S)
  OBVIOUS
<1>2. a[n + 1] = x /\ \A i \in 1 .. n : a[i] = s[i]
  OBVIOUS
<1> HIDE DEF a, n
<1>3. \A y : Contains(a, y) <=> Contains(s, y) \/ y = x
  <2>1. \A i \in 1 .. n + 1 : i = n + 1 \/ i \in 1 .. n
    BY <1>1
  <2>2. n + 1 \in 1 .. n + 1 /\ \A i \in 1 .. n : i \in 1 .. n + 1
    BY <1>1
  <2>3. QED
    BY <1>1, <1>2, <2>1, <2>2 DEF Contains, n
<1>4. ASSUME Once(s), ~Contains(s, x) PROVE Once(a)
  <2>1. \A i \in 1 .. n + 1 : i = n + 1 \/ i \in 1 .. n
    BY <1>1
  <2>2. \A i \in 1 .. n : s[i] # x
    BY <1>4 DEF Contains, n
  <2>3. QED
    BY <1>1, <1>2, <1>4, <2>1, <2>2 DEF Once
<1>5. QED
  BY <1>1, <1>3, <1>4 DEF a

\* The first is taken from the front.
LEMMA Tailed ==
  ASSUME NEW S, NEW s \in Seq(S), s # <<>>
  PROVE  /\ Head(s) \in S /\ Tail(s) \in Seq(S) /\ Contains(s, Head(s))
         /\ \A y : Contains(Tail(s), y) => Contains(s, y)
         /\ \A y : Contains(s, y) => y = Head(s) \/ Contains(Tail(s), y)
         /\ Once(s) => Once(Tail(s)) /\ ~Contains(Tail(s), Head(s))
<1> DEFINE n == Len(s)
           r == Tail(s)
<1>1. n \in Nat \ {0} /\ DOMAIN s = 1 .. n /\ DOMAIN r = 1 .. n - 1 /\ Len(r) = n - 1 /\ r \in Seq(S)
  OBVIOUS
<1>2. Head(s) = s[1] /\ s[1] \in S /\ \A i \in 1 .. n - 1 : r[i] = s[i + 1]
  OBVIOUS
<1> HIDE DEF r, n
<1>3. /\ 1 \in 1 .. n /\ \A i \in 1 .. n - 1 : i + 1 \in 1 .. n /\ i + 1 # 1
      /\ \A i \in 1 .. n : i = 1 \/ (i - 1 \in 1 .. n - 1 /\ (i - 1) + 1 = i)
  BY <1>1
<1>4. Contains(s, s[1])
  BY <1>3 DEF Contains, n
<1>5. ASSUME NEW y PROVE (Contains(r, y) => Contains(s, y)) /\ (Contains(s, y) => y = s[1] \/ Contains(r, y))
  <2>1. Contains(r, y) <=> \E i \in 1 .. n - 1 : s[i + 1] = y
    BY <1>1, <1>2 DEF Contains
  <2>2. Contains(s, y) <=> \E i \in 1 .. n : s[i] = y
    BY DEF Contains, n
  <2>3. QED
    BY <1>3, <2>1, <2>2
<1>6. ASSUME Once(s) PROVE Once(r) /\ ~Contains(r, s[1])
  <2>1. \A i, j \in 1 .. n - 1 : i + 1 = j + 1 => i = j
    BY <1>1
  <2>2. Once(r)
    BY <1>1, <1>2, <1>3, <1>6, <2>1 DEF Once
  <2>3. ~Contains(r, s[1])
    BY <1>1, <1>2, <1>3, <1>6 DEF Once, Contains
  <2>4. QED
    BY <2>2, <2>3
<1>7. QED
  BY <1>1, <1>2, <1>4, <1>5, <1>6 DEF r

\* One is put at the front.
LEMMA Pushed ==
  ASSUME NEW S, NEW s \in Seq(S), NEW x \in S
  PROVE  /\ <<x>> \o s \in Seq(S)
         /\ \A y : Contains(<<x>> \o s, y) <=> Contains(s, y) \/ y = x
         /\ Once(s) /\ ~Contains(s, x) => Once(<<x>> \o s)
<1> DEFINE n == Len(s)
           a == <<x>> \o s
<1>1. n \in Nat /\ DOMAIN s = 1 .. n /\ DOMAIN a = 1 .. n + 1 /\ Len(a) = n + 1 /\ a \in Seq(S)
  OBVIOUS
<1>2. a[1] = x /\ \A i \in 2 .. n + 1 : a[i] = s[i - 1]
  OBVIOUS
<1> HIDE DEF a, n
<1>3. /\ 1 \in 1 .. n + 1 /\ \A i \in 1 .. n + 1 : i = 1 \/ (i \in 2 .. n + 1 /\ i - 1 \in 1 .. n)
      /\ \A i \in 1 .. n : i + 1 \in 2 .. n + 1 /\ i + 1 \in 1 .. n + 1 /\ (i + 1) - 1 = i
  BY <1>1
<1>4. \A y : Contains(a, y) <=> Contains(s, y) \/ y = x
  BY <1>1, <1>2, <1>3 DEF Contains, n
<1>5. ASSUME Once(s), ~Contains(s, x) PROVE Once(a)
  <2>1. \A i \in 1 .. n : s[i] # x
    BY <1>5 DEF Contains, n
  <2>2. \A i, j \in 2 .. n + 1 : i - 1 = j - 1 => i = j
    BY <1>1
  <2>3. \A i \in 2 .. n + 1 : i - 1 \in DOMAIN s /\ a[i] = s[i - 1] /\ a[i] # a[1]
    BY <1>1, <1>2, <2>1
  <2>4. ASSUME NEW i \in 1 .. n + 1, NEW j \in 1 .. n + 1, a[i] = a[j] PROVE i = j
    <3>1. CASE i = 1
      BY <1>3, <2>3, <2>4, <3>1
    <3>2. CASE j = 1
      BY <1>3, <2>3, <2>4, <3>2
    <3>3. CASE i \in 2 .. n + 1 /\ j \in 2 .. n + 1
      BY <1>5, <2>2, <2>3, <2>4, <3>3 DEF Once
    <3>4. QED
      BY <1>3, <3>1, <3>2, <3>3
  <2>5. QED
    BY <1>1, <2>4 DEF Once
<1>6. QED
  BY <1>1, <1>4, <1>5 DEF a

(* ------------------------------- places -------------------------------- *)
LEMMA ItemsApart ==
  /\ \A t \in Tasks : Item(t) \in Items /\ ScheduleTask(t) \in Items
  /\ \A t, u : Item(t) # ScheduleTask(u) /\ (Item(t) = Item(u) => t = u) /\ (ScheduleTask(t) = ScheduleTask(u) => t = u)
  /\ \A i \in Items : i.task \in Tasks /\ i = IF i.wake THEN ScheduleTask(i.task) ELSE Item(i.task)
<1>1. \A t, u : Item(t) # ScheduleTask(u)
  <2>1. \A t, u : Item(t).wake = FALSE /\ ScheduleTask(u).wake = TRUE
    BY DEF Item, ScheduleTask
  <2>2. QED
    BY <2>1
<1>2. \A t, u : (Item(t) = Item(u) => t = u) /\ (ScheduleTask(t) = ScheduleTask(u) => t = u)
  <2>1. \A t : Item(t).task = t /\ ScheduleTask(t).task = t
    BY DEF Item, ScheduleTask
  <2>2. QED
    BY <2>1
<1>3. \A i \in Items : i.task \in Tasks /\ i = IF i.wake THEN ScheduleTask(i.task) ELSE Item(i.task)
  BY DEF Item, ScheduleTask, Items
<1>4. \A t \in Tasks : Item(t) \in Items /\ ScheduleTask(t) \in Items
  BY DEF Item, ScheduleTask, Items
<1>5. QED
  BY <1>1, <1>2, <1>3, <1>4

\* fast_schedule: a task is put at the end of those that are ready.
LEMMA MadeReady ==
  ASSUME NEW r \in Seq(Items), NEW x \in Tasks
  PROVE  /\ Append(r, Item(x)) \in Seq(Items)
         /\ \A t : HasItem(Append(r, Item(x)), t) <=> HasItem(r, t) \/ t = x
         /\ \A t : Told(Append(r, Item(x)), t) <=> Told(r, t)
         /\ Once(r) /\ ~HasItem(r, x) => Once(Append(r, Item(x)))
BY Appended, ItemsApart DEF HasItem, Told

\* schedule() of another thread puts a ScheduleTask at the end.
LEMMA ToldToWake ==
  ASSUME NEW r \in Seq(Items), NEW x \in Tasks
  PROVE  /\ Append(r, ScheduleTask(x)) \in Seq(Items)
         /\ \A t : HasItem(Append(r, ScheduleTask(x)), t) <=> HasItem(r, t)
         /\ \A t : Told(Append(r, ScheduleTask(x)), t) <=> Told(r, t) \/ t = x
         /\ Once(r) /\ ~Told(r, x) => Once(Append(r, ScheduleTask(x)))
BY Appended, ItemsApart DEF HasItem, Told

\* A ScheduleTask that runs puts its task at the front.
LEMMA PutFirst ==
  ASSUME NEW r \in Seq(Items), NEW x \in Tasks
  PROVE  /\ <<Item(x)>> \o r \in Seq(Items)
         /\ \A t : HasItem(<<Item(x)>> \o r, t) <=> HasItem(r, t) \/ t = x
         /\ \A t : Told(<<Item(x)>> \o r, t) <=> Told(r, t)
         /\ Once(r) /\ ~HasItem(r, x) => Once(<<Item(x)>> \o r)
BY Pushed, ItemsApart DEF HasItem, Told

\* cycle takes the first, which is a task or a ScheduleTask.
LEMMA TakenOut ==
  ASSUME NEW r \in Seq(Items), r # <<>>, Once(r)
  PROVE  /\ Tail(r) \in Seq(Items) /\ Once(Tail(r)) /\ Head(r) \in Items /\ Head(r).task \in Tasks
         /\ Head(r) = IF Head(r).wake THEN ScheduleTask(Head(r).task) ELSE Item(Head(r).task)
         /\ \A t : HasItem(Tail(r), t) <=> HasItem(r, t) /\ ~(t = Head(r).task /\ ~Head(r).wake)
         /\ \A t : Told(Tail(r), t) <=> Told(r, t) /\ ~(t = Head(r).task /\ Head(r).wake)
         /\ IF Head(r).wake THEN Told(r, Head(r).task) ELSE HasItem(r, Head(r).task)
<1> DEFINE h == Head(r)
           x == h.task
<1>1. /\ h \in Items /\ Tail(r) \in Seq(Items) /\ Contains(r, h) /\ Once(Tail(r)) /\ ~Contains(Tail(r), h)
      /\ \A y : Contains(Tail(r), y) => Contains(r, y)
      /\ \A y : Contains(r, y) => y = h \/ Contains(Tail(r), y)
  BY Tailed
<1>2. x \in Tasks /\ h = IF h.wake THEN ScheduleTask(x) ELSE Item(x)
  BY <1>1, ItemsApart
<1> HIDE DEF h, x
<1>3. \A t : HasItem(Tail(r), t) <=> HasItem(r, t) /\ ~(t = x /\ ~h.wake)
  BY <1>1, <1>2, ItemsApart DEF HasItem
<1>4. \A t : Told(Tail(r), t) <=> Told(r, t) /\ ~(t = x /\ h.wake)
  BY <1>1, <1>2, ItemsApart DEF Told
<1>5. IF h.wake THEN Told(r, x) ELSE HasItem(r, x)
  BY <1>1, <1>2 DEF HasItem, Told
<1>6. QED
  BY <1>1, <1>2, <1>3, <1>4, <1>5 DEF h, x

\* A request of a task that has none is put at the end of _incoming.
LEMMA QueuedNext ==
  ASSUME NEW S, NEW q \in Seq(S), NEW x \in S
  PROVE  /\ Append(q, x) \in Seq(S)
         /\ \A t : Queued(Append(q, x), t) <=> Queued(q, t) \/ t = x.task
         /\ OncePerTask(q) /\ ~Queued(q, x.task) => OncePerTask(Append(q, x))
         /\ \A i \in DOMAIN Append(q, x) : Append(q, x)[i] = x \/ (i \in DOMAIN q /\ Append(q, x)[i] = q[i])
<1> DEFINE n == Len(q)
           a == Append(q, x)
<1>1. n \in Nat /\ DOMAIN q = 1 .. n /\ DOMAIN a = 1 .. n + 1 /\ Len(a) = n + 1 /\ a \in Seq(S)
  OBVIOUS
<1>2. a[n + 1] = x /\ \A i \in 1 .. n : a[i] = q[i]
  OBVIOUS
<1> HIDE DEF a, n
<1>3. n + 1 \in 1 .. n + 1 /\ (\A i \in 1 .. n : i \in 1 .. n + 1) /\ (\A i \in 1 .. n + 1 : i = n + 1 \/ i \in 1 .. n)
  BY <1>1
<1>4. \A t : Queued(a, t) <=> Queued(q, t) \/ t = x.task
  BY <1>1, <1>2, <1>3 DEF Queued
<1>5. OncePerTask(q) /\ ~Queued(q, x.task) => OncePerTask(a)
  BY <1>1, <1>2, <1>3 DEF OncePerTask, Queued
<1>6. QED
  BY <1>1, <1>2, <1>3, <1>4, <1>5 DEF a

(* ------------------------------ programs ------------------------------- *)
\* What is known of the steps of a job.
LEMMA StepsOf ==
  ASSUME NEW J, Disciplined(J)
  PROVE  /\ \A x \in Tasks \union Threads : Len(J.code[x]) \in Nat /\ DOMAIN J.code[x] = 1 .. Len(J.code[x])
         /\ \A x \in Tasks \union Threads : \A i \in DOMAIN J.code[x] :
              <<x, i>> \in Steps(J) /\ At(J, <<x, i>>) = J.code[x][i] /\ Fits(J, <<x, i>>)
         /\ \A s \in Steps(J) : /\ s = <<s[1], s[2]>> /\ s[1] \in Tasks \union Threads /\ s[2] \in DOMAIN J.code[s[1]]
                                /\ s[2] \in Nat \ {0} /\ At(J, s) = J.code[s[1]][s[2]]
<1>1. \A x \in Tasks \union Threads : Len(J.code[x]) \in Nat /\ DOMAIN J.code[x] = 1 .. Len(J.code[x])
  BY DEF Disciplined
<1>2. \A x \in Tasks \union Threads : \A i \in DOMAIN J.code[x] : <<x, i>> \in {x} \X DOMAIN J.code[x]
  OBVIOUS
<1>3. \A x \in Tasks \union Threads : \A i \in DOMAIN J.code[x] : <<x, i>> \in Steps(J)
  <2>1. ASSUME NEW x \in Tasks \union Threads, NEW i \in DOMAIN J.code[x] PROVE <<x, i>> \in Steps(J)
    <3>1. {x} \X DOMAIN J.code[x] \in {{y} \X DOMAIN J.code[y] : y \in Tasks \union Threads}
      OBVIOUS
    <3>2. QED
      BY <1>2, <3>1, Zenon DEF Steps
  <2>2. QED
    BY <2>1
<1>4. ASSUME NEW s \in Steps(J)
      PROVE  s = <<s[1], s[2]>> /\ s[1] \in Tasks \union Threads /\ s[2] \in DOMAIN J.code[s[1]]
  <2>1. PICK x \in Tasks \union Threads : s \in {x} \X DOMAIN J.code[x]
    BY DEF Steps
  <2>2. QED
    BY <2>1
<1>5. \A s \in Steps(J) : s[2] \in Nat \ {0}
  BY <1>1, <1>4
<1>6. QED
  BY <1>1, <1>3, <1>4, <1>5 DEF At, Disciplined

\* A task is started by a step of a thread or of a program that runs once, and by no other.
LEMMA StartsApart ==
  ASSUME NEW J, Disciplined(J), LaunchesOnce(J), NEW t, NEW s \in StartsOf(J, t)
  PROVE  /\ s \in Steps(J) /\ (s[1] \in Threads \/ (s[1] \in Tasks \ J.loop /\ J.kind[s[1]] = "program"))
         /\ J.kind[t] \in {"program", "timer"} \/ (t = Loop /\ J.kind[t] \in {"loop", "absent"})
         /\ \A r \in StartsOf(J, t) : r = s
<1>1. s \in Steps(J) /\ \A r \in StartsOf(J, t) : r \in Steps(J)
  BY DEF StartsOf
<1>2. \A r \in Steps(J) : Fits(J, r)
  BY DEF Disciplined
<1>3. s[1] \in Tasks \union Threads
  BY <1>1, StepsOf
<1>4. CASE At(J, s).op = "start" /\ At(J, s).t = t
  <2>1. J.kind[t] \in {"program", "timer"} /\ t # Loop
    BY <1>1, <1>2, <1>4 DEF Fits, LaunchesOnce
  <2>2. \A r \in StartsOf(J, t) : At(J, r).op = "start" /\ At(J, r).t = t
    BY <2>1 DEF StartsOf
  <2>3. QED
    BY <1>1, <1>2, <1>3, <1>4, <2>1, <2>2 DEF Fits
<1>5. CASE At(J, s).op = "launch" /\ t = Loop
  <2>1. J.kind[Loop] \in {"loop", "absent"}
    BY DEF LaunchesOnce
  <2>2. \A r \in StartsOf(J, t) : At(J, r).op = "launch"
    BY <1>1, <1>2, <1>5, <2>1 DEF StartsOf, Fits
  <2>3. QED
    BY <1>1, <1>5, <2>1, <2>2 DEF LaunchesOnce
<1>6. QED
  BY <1>4, <1>5 DEF StartsOf

\* What has been started is not to be started again.
LEMMA NothingAhead ==
  ASSUME NEW J, Disciplined(J), LaunchesOnce(J), NEW lc, NEW th, NEW lc2, NEW th2, NEW t,
         \A f \in Threads : th[f].at \in Nat /\ th2[f].at \in Nat /\ th2[f].at >= th[f].at,
         \A u \in Tasks \ J.loop : J.kind[u] = "program" =>
            lc[u].at \in Nat /\ lc2[u].at \in Nat /\ lc2[u].at >= lc[u].at
  PROVE  ToStart(J, lc2, th2, t) => ToStart(J, lc, th, t)
<1> SUFFICES ASSUME NEW s \in StartsOf(J, t), Ahead(lc2, th2, s) PROVE Ahead(lc, th, s)
  BY DEF ToStart
<1>1. s \in Steps(J) /\ (s[1] \in Threads \/ (s[1] \in Tasks \ J.loop /\ J.kind[s[1]] = "program"))
  BY StartsApart
<1>2. s[2] \in Nat
  BY <1>1, StepsOf
<1>3. CASE s[1] \in Threads
  BY <1>2, <1>3 DEF Ahead
<1>4. CASE s[1] \notin Threads
  BY <1>1, <1>2, <1>4 DEF Ahead
<1>5. QED
  BY <1>3, <1>4

\* What the code of a program tells of the lock.
LEMMA HeldOf ==
  ASSUME NEW J, Disciplined(J), NEW t \in Tasks, J.kind[t] = "program"
  PROVE  Brackets(J.code[t], t \in J.loop, Held(J, t))
<1>1. Bracketed(J.code[t], t \in J.loop)
  BY DEF Disciplined
<1>2. QED
  BY <1>1 DEF Bracketed, Held

\* What the assumptions say of the job that is done.
LEMMA JobOK ==
  ASSUME TypeOK
  PROVE  Disciplined(job) /\ LaunchesOnce(job) /\ job.kind \in [Tasks -> Kinds]
BY TasksAssumption, WorkersAssumption DEF TypeOK, job, Disciplined

\* What hangs on the job alone stays with it.
LEMMA SameJob ==
  ASSUME about' = about
  PROVE  job' = job /\ Files' = Files
BY DEF job, Files

\* The operation of a program.
LEMMA DoingStep ==
  ASSUME TypeOK, NEW t \in Tasks, NEW op, Doing(t, op)
  PROVE  /\ <<t, local[t].at>> \in Steps(job) /\ At(job, <<t, local[t].at>>) = Op(t) /\ Fits(job, <<t, local[t].at>>)
         /\ Op(t).op = op /\ job.kind[t] = "program" /\ local[t].at \in DOMAIN job.code[t]
         /\ Runs(sch, t) /\ sch.task \in Tasks
<1>1. Disciplined(job)
  BY JobOK
<1>2. local[t].at \in Nat \ {0} /\ local[t].at <= Len(job.code[t])
  BY DEF TypeOK, Locals, Doing, Code
<1>3. local[t].at \in DOMAIN job.code[t]
  <2>1. Len(job.code[t]) \in Nat /\ DOMAIN job.code[t] = 1 .. Len(job.code[t])
    BY <1>1, StepsOf
  <2>2. QED
    BY <1>2, <2>1
<1>4. QED
  BY <1>1, <1>3, StepsOf DEF Doing, Running, Runs, Kind, Op, Code

(* ------------------------------ the steps ------------------------------ *)
\* The steps by who takes them.
OthersWait == UNCHANGED <<about, hubVars, thread, world>>
Switches == Switching /\ UNCHANGED <<local, incoming, io, syncVars, blocked, owed, ioVars>> /\ OthersWait
Rings == (Pings \/ Quit) /\ UNCHANGED <<local, incoming, syncVars, blocked, owed, ioVars>> /\ OthersWait
ProgramStep(t) == Program(t) /\ UNCHANGED ioVars /\ OthersWait
TimerStep(t) == (TimerSleeps(t) \/ TimerEnds(t) \/ TimerFires(t)) /\ UNCHANGED ioVars /\ OthersWait
CheckStep == ChecksEvents /\ UNCHANGED ioVars /\ OthersWait
CallerStep == (CallerSelects \/ CallerPongs \/ CallerPops) /\ UNCHANGED ioVars /\ OthersWait
BeginStep(t) == Begins(t) /\ OthersWait
LostStep == CallerLost /\ OthersWait
LoopStep == (LoopCommands \/ LoopSelects \/ LoopPongs) /\ OthersWait
WorkStep(w) == (DoRecv(w) \/ DoSend(w)) /\ OthersWait
ThreadStep(f) == (ThreadDoes(f) \/ ThreadNotifies(f)) /\ UNCHANGED <<ioVars, world>>
BlockingStep(t) == BlockingEnds(t) /\ UNCHANGED <<ioVars, world>>
SetStep == BlockingSets /\ UNCHANGED <<ioVars, world>>

\* Every step is one of these.
LEMMA NextCases ==
  ASSUME Next
  PROVE  \/ Switches \/ Rings \/ CheckStep \/ CallerStep \/ LostStep \/ LoopStep \/ SetStep
         \/ \E t \in Tasks : ProgramStep(t) \/ TimerStep(t) \/ BeginStep(t) \/ BlockingStep(t)
         \/ \E w \in Workers : WorkStep(w)
         \/ \E f \in Threads : ThreadStep(f) \/ Launches(f)
         \/ Hub \/ Tick \/ Answering \/ Network
BY DEF Next, Sched, SchedulerStep, OtherThreads, OthersWait, Switches, Rings, CheckStep, CallerStep,
   LostStep, LoopStep,
       SetStep, ProgramStep, TimerStep, BeginStep, BlockingStep, WorkStep, ThreadStep

(* -------------------------------- types -------------------------------- *)
\* What a task keeps, as steps change it.
LEMMA RecordKept ==
  ASSUME NEW F, NEW r \in Locals(F)
  PROVE  /\ [r EXCEPT !.at = @ + 1] \in Locals(F)
         /\ \A i \in Nat \ {0} : [r EXCEPT !.at = i] \in Locals(F)
         /\ \A st \in {"asleep", "live", "done"} : [r EXCEPT !.st = st] \in Locals(F)
         /\ \A b \in BOOLEAN : [r EXCEPT !.cancelled = b] \in Locals(F) /\ [r EXCEPT !.ok = b] \in Locals(F)
         /\ \A n \in 0 .. Forever : [r EXCEPT !.next = n] \in Locals(F)
         /\ \A k \in Nat : [r EXCEPT !.since = k] \in Locals(F) /\ [r EXCEPT !.arg = k] \in Locals(F)
         /\ \A files \in SUBSET F : [r EXCEPT !.rv = files] \in Locals(F)
         /\ Fresh \in Locals(F)
<1>1. [r EXCEPT !.at = @ + 1] \in Locals(F)
  BY DEF Locals
<1>2. ASSUME NEW i \in Nat \ {0} PROVE [r EXCEPT !.at = i] \in Locals(F)
  BY DEF Locals
<1>3. ASSUME NEW st \in {"asleep", "live", "done"} PROVE [r EXCEPT !.st = st] \in Locals(F)
  BY DEF Locals
<1>4. ASSUME NEW b \in BOOLEAN
             PROVE [r EXCEPT !.cancelled = b] \in Locals(F) /\ [r EXCEPT !.ok = b] \in Locals(F)
  BY DEF Locals
<1>5. ASSUME NEW n \in 0 .. Forever PROVE [r EXCEPT !.next = n] \in Locals(F)
  BY DEF Locals
<1>6. ASSUME NEW k \in Nat PROVE [r EXCEPT !.since = k] \in Locals(F) /\ [r EXCEPT !.arg = k] \in Locals(F)
  BY DEF Locals
<1>7. ASSUME NEW files \in SUBSET F PROVE [r EXCEPT !.rv = files] \in Locals(F)
  BY DEF Locals
<1>8. Fresh \in Locals(F)
  <2>1. 0 \in 0 .. Forever
    BY TasksAssumption DEF Forever
  <2>2. QED
    BY <2>1 DEF Locals, Fresh, None
<1>9. QED
  BY <1>1, <1>2, <1>3, <1>4, <1>5, <1>6, <1>7, <1>8

\* The next place of a program.
LEMMA LocalOn ==
  ASSUME NEW F, NEW l \in [Tasks -> Locals(F)], NEW t \in Tasks
  PROVE  [l EXCEPT ![t].at = @ + 1, ![t].st = "live"] \in [Tasks -> Locals(F)]
BY RecordKept

\* Whether a task sleeps, is under way or is done.
LEMMA LocalSt ==
  ASSUME NEW F, NEW l \in [Tasks -> Locals(F)], NEW t \in Tasks, NEW st \in {"asleep", "live", "done"}
  PROVE  [l EXCEPT ![t].st = st] \in [Tasks -> Locals(F)]
BY RecordKept

\* Another place.
LEMMA LocalAt ==
  ASSUME NEW F, NEW l \in [Tasks -> Locals(F)], NEW t \in Tasks, NEW i \in Nat \ {0}
  PROVE  /\ [l EXCEPT ![t].at = i] \in [Tasks -> Locals(F)]
         /\ [l EXCEPT ![t].st = "live", ![t].at = i] \in [Tasks -> Locals(F)]
         /\ [l EXCEPT ![t].at = i, ![t].since = 0] \in [Tasks -> Locals(F)]
BY RecordKept

\* A task is cancelled, or is told that it holds the lock.
LEMMA LocalFlags ==
  ASSUME NEW F, NEW l \in [Tasks -> Locals(F)], NEW t \in Tasks, NEW b \in BOOLEAN
  PROVE  /\ [l EXCEPT ![t].cancelled = b] \in [Tasks -> Locals(F)]
         /\ [l EXCEPT ![t].ok = b] \in [Tasks -> Locals(F)]
BY RecordKept

\* The time of a timer that is started.
LEMMA LocalNext ==
  ASSUME NEW F, NEW l \in [Tasks -> Locals(F)], NEW t \in Tasks, NEW n \in 0 .. Forever
  PROVE  [l EXCEPT ![t].next = n, ![t].since = 0] \in [Tasks -> Locals(F)]
BY RecordKept

\* What a timer keeps when it sleeps and when it calls its function.
LEMMA LocalTurns ==
  ASSUME NEW F, NEW l \in [Tasks -> Locals(F)], NEW t \in Tasks, NEW n \in 0 .. Forever, NEW i \in Nat \ {0}
  PROVE  /\ [l EXCEPT ![t].since = 0, ![t].next = n, ![t].at = i] \in [Tasks -> Locals(F)]
         /\ [l EXCEPT ![t].st = "live", ![t].at = i, ![t].next = n] \in [Tasks -> Locals(F)]
BY RecordKept

\* What a select has found.
LEMMA LocalFiles ==
  ASSUME NEW F, NEW l \in [Tasks -> Locals(F)], NEW t \in Tasks, NEW files \in SUBSET F
  PROVE  [l EXCEPT ![t].rv = files] \in [Tasks -> Locals(F)]
BY RecordKept

\* A timer that opens workers is set up.
LEMMA LocalFresh ==
  ASSUME NEW F, NEW l \in [Tasks -> Locals(F)], NEW t \in Tasks, NEW n \in 0 .. Forever, NEW k \in Nat
  PROVE  [l EXCEPT ![t] = [Fresh EXCEPT !.next = n, !.arg = k]] \in [Tasks -> Locals(F)]
BY RecordKept

\* What a ReventWaiter keeps.
LEMMA WaitersKept ==
  ASSUME NEW w \in Waiters, NEW b \in BOOLEAN, NEW t \in Tasks
  PROVE  /\ [w EXCEPT !.events = @ + 1, !.wakeable = b] \in Waiters /\ [w EXCEPT !.wakeable = b] \in Waiters
         /\ [w EXCEPT !.task = t, !.wakeable = TRUE] \in Waiters /\ [w EXCEPT !.events = 0] \in Waiters
<1>1. \A v \in Waiters : [v EXCEPT !.events = @ + 1] \in Waiters /\ [v EXCEPT !.events = 0] \in Waiters
  BY DEF Waiters
<1>2. \A v \in Waiters : \A c \in BOOLEAN : [v EXCEPT !.wakeable = c] \in Waiters
  BY DEF Waiters
<1>3. \A v \in Waiters : [v EXCEPT !.task = t] \in Waiters
  BY DEF Waiters
<1>4. QED
  BY <1>1, <1>2, <1>3

\* What a task or a function called by one may do.
OpOK(o) == /\ o.op = "start" => o.t \in Tasks /\ Kind(o.t) \in {"program", "timer"}
           /\ o.op = "cancel" => o.t \in Tasks /\ Kind(o.t) = "timer"

\* What it leaves is well-typed.
LEMMA DoTypes ==
  ASSUME TypeOK, NEW o, OpOK(o), NEW l \in [Tasks -> Locals(Files)], Do(o, l)
  PROVE  /\ local' \in [Tasks -> Locals(Files)] /\ ready' \in Seq(Items) /\ sch' = sch /\ lock' = lock
         /\ waiter' \in Waiters
         /\ calls' = [started |-> calls'.started, queue |-> calls'.queue] /\ calls'.started \in BOOLEAN
<1> USE DEF schedulerVars, syncVars
<1>1. /\ ready \in Seq(Items) /\ waiter \in Waiters /\ calls.started \in BOOLEAN
      /\ calls = [started |-> calls.started, queue |-> calls.queue] /\ Caller \in Tasks
  BY TasksAssumption DEF TypeOK
<1>2. ASSUME NEW x \in Tasks, schedule(x) PROVE ready' \in Seq(Items)
  BY <1>1, <1>2, MadeReady DEF schedule, fast_schedule
<1>3. CASE o.op = "nothing"
  BY <1>1, <1>3 DEF Do
<1>4. CASE o.op = "start"
  <2>1. o.t \in Tasks /\ local' = Started(l, o.t) /\ schedule(o.t) /\ UNCHANGED <<sch, io, syncVars>>
    BY <1>4 DEF Do, OpOK
  <2>2. Kind(o.t) = "timer" => job.timer[o.t].interval \in 0 .. Forever
    BY <2>1, JobOK DEF Disciplined, FitsTimer, Kind
  <2>3. local' \in [Tasks -> Locals(Files)]
    <3>1. CASE Kind(o.t) = "timer"
      <4> DEFINE n == job.timer[o.t].interval
      <4>1. n \in 0 .. Forever /\ local' = [l EXCEPT ![o.t].next = n, ![o.t].since = 0]
        BY <2>1, <2>2, <3>1 DEF Started
      <4> HIDE DEF n
      <4>2. QED
        BY <2>1, <4>1, LocalNext
    <3>2. CASE Kind(o.t) # "timer"
      BY <2>1, <3>2 DEF Started
    <3>3. QED
      BY <3>1, <3>2
  <2>4. QED
    BY <1>1, <1>2, <2>1, <2>3
<1>5. CASE o.op = "cancel"
  <2>1. o.t \in Tasks /\ local' = [l EXCEPT ![o.t].cancelled = TRUE] /\ UNCHANGED <<ready, sch, lock, waiter, calls>>
    BY <1>5 DEF Do, OpOK
  <2>2. local' \in [Tasks -> Locals(Files)]
    BY <2>1, LocalFlags
  <2>3. QED
    BY <1>1, <2>1, <2>2
<1>6. CASE o.op = "call"
  <2>1. /\ calls' = [started |-> TRUE, queue |-> Append(calls.queue, o.f)] /\ local' = l /\ UNCHANGED <<sch, lock, waiter>>
        /\ ready' = ready \/ schedule(Caller)
    BY <1>6 DEF Do
  <2>2. ready' \in Seq(Items)
    BY <1>1, <1>2, <2>1
  <2>3. QED
    BY <1>1, <2>1, <2>2
<1>7. CASE o.op = "event"
  <2> DEFINE b == waiter.wakeable /\ ~(waiter.task # Nobody /\ waiter.wakeable)
  <2>1. b \in BOOLEAN /\ waiter' = [waiter EXCEPT !.events = @ + 1, !.wakeable = b]
    BY <1>7 DEF Do
  <2> HIDE DEF b
  <2>2. waiter' \in Waiters
    BY <1>1, <2>1, WaitersKept
  <2>3. waiter.task # Nobody => waiter.task \in Tasks
    BY <1>1 DEF Waiters
  <2>4. local' = l /\ UNCHANGED <<sch, lock, calls>> /\ (ready' = ready \/ (waiter.task # Nobody /\ schedule(waiter.task)))
    BY <1>7 DEF Do
  <2>5. ready' \in Seq(Items)
    BY <1>1, <1>2, <2>3, <2>4
  <2>6. QED
    BY <1>1, <2>2, <2>4, <2>5
<1>8. QED
  BY <1>3, <1>4, <1>5, <1>6, <1>7 DEF Do

\* What the scheduler keeps, when it goes on to another place.
LEMMA SlicesKept ==
  ASSUME NEW s, SchOK(s)
  PROVE  /\ SchOK([s EXCEPT !.pc = "check", !.task = Nobody])
         /\ \A pc \in {"check", "wait", "clear", "ping", "check events", "done"} : SchOK([s EXCEPT !.pc = pc])
         /\ \A t \in Tasks, pc \in {"run", "wake"} : SchOK([s EXCEPT !.pc = pc, !.task = t])
         /\ \A b \in BOOLEAN : SchOK([s EXCEPT !.quit = b])
<1>1. \A v \in Slices : \A pc \in {"check", "run", "wake", "wait", "clear", "ping", "check events", "done"} :
         [v EXCEPT !.pc = pc] \in Slices /\ [v EXCEPT !.pc = pc].pc = pc
  BY DEF Slices
<1>2. \A v \in Slices : \A t \in Tasks \union {Nobody} : /\ [v EXCEPT !.task = t] \in Slices
                                                        /\ [v EXCEPT !.task = t].pc = v.pc /\ [v EXCEPT !.task = t].task = t
  BY DEF Slices
<1>3. \A v \in Slices : \A b \in BOOLEAN : /\ [v EXCEPT !.quit = b] \in Slices
                                           /\ [v EXCEPT !.quit = b].pc = v.pc /\ [v EXCEPT !.quit = b].task = v.task
  BY DEF Slices
<1>4. s \in Slices /\ (s.pc \in {"run", "wake"} => s.task \in Tasks)
  BY DEF SchOK
<1>5. SchOK([s EXCEPT !.pc = "check", !.task = Nobody])
  <2> DEFINE v == [s EXCEPT !.pc = "check"]
  <2>1. v \in Slices /\ v.pc = "check"
    BY <1>1, <1>4
  <2>2. [s EXCEPT !.pc = "check", !.task = Nobody] = [v EXCEPT !.task = Nobody]
    OBVIOUS
  <2> HIDE DEF v
  <2>3. QED
    BY <1>2, <2>1, <2>2 DEF SchOK
<1>6. ASSUME NEW pc \in {"check", "wait", "clear", "ping", "check events", "done"}
             PROVE SchOK([s EXCEPT !.pc = pc])
  BY <1>1, <1>4 DEF SchOK
<1>7. ASSUME NEW t \in Tasks, NEW pc \in {"run", "wake"} PROVE SchOK([s EXCEPT !.pc = pc, !.task = t])
  <2> DEFINE v == [s EXCEPT !.pc = pc]
  <2>1. v \in Slices /\ v.pc = pc
    <3>1. pc \in {"check", "run", "wake", "wait", "clear", "ping", "check events", "done"}
      OBVIOUS
    <3>2. QED
      BY <1>1, <1>4, <3>1
  <2>2. [s EXCEPT !.pc = pc, !.task = t] = [v EXCEPT !.task = t]
    OBVIOUS
  <2> HIDE DEF v
  <2>3. QED
    BY <1>2, <2>1, <2>2 DEF SchOK
<1>8. ASSUME NEW b \in BOOLEAN PROVE SchOK([s EXCEPT !.quit = b])
  BY <1>3, <1>4 DEF SchOK
<1>9. QED
  BY <1>5, <1>6, <1>7, <1>8

\* What a Lock keeps.
LEMMA LocksKept ==
  ASSUME NEW k \in Locks, NEW t \in Tasks
  PROVE  /\ [k EXCEPT !.holder = t, !.inside = @ \union {t}] \in Locks /\ [k EXCEPT !.waiting = @ \union {t}] \in Locks
         /\ [k EXCEPT !.inside = @ \union {t}] \in Locks /\ [k EXCEPT !.holder = Nobody, !.inside = @ \ {t}] \in Locks
         /\ \A u \in k.waiting : u \in Tasks /\ [holder |-> u, waiting |-> k.waiting \ {u}, inside |-> k.inside \ {t}] \in Locks
<1>1. ASSUME NEW v \in Locks, NEW u \in Tasks \union {Nobody} PROVE [v EXCEPT !.holder = u] \in Locks
  BY DEF Locks
<1>2. ASSUME NEW v \in Locks
             PROVE [v EXCEPT !.inside = @ \union {t}] \in Locks /\ [v EXCEPT !.inside = @ \ {t}] \in Locks
  BY DEF Locks
<1>3. [k EXCEPT !.waiting = @ \union {t}] \in Locks
  BY DEF Locks
<1>4. \A u \in k.waiting : u \in Tasks /\ [holder |-> u, waiting |-> k.waiting \ {u}, inside |-> k.inside \ {t}] \in Locks
  BY DEF Locks
<1>5. [k EXCEPT !.inside = @ \union {t}] \in Locks /\ [k EXCEPT !.inside = @ \ {t}] \in Locks
  BY <1>2
<1>6. [k EXCEPT !.holder = Nobody, !.inside = @ \ {t}] \in Locks
  <2> DEFINE v == [k EXCEPT !.holder = Nobody]
  <2>1. v \in Locks
    BY <1>1
  <2>2. [k EXCEPT !.holder = Nobody, !.inside = @ \ {t}] = [v EXCEPT !.inside = @ \ {t}]
    OBVIOUS
  <2> HIDE DEF v
  <2>3. QED
    BY <1>2, <2>1, <2>2
<1>7. [k EXCEPT !.holder = t, !.inside = @ \union {t}] \in Locks
  <2> DEFINE v == [k EXCEPT !.holder = t]
  <2>1. v \in Locks
    BY <1>1
  <2>2. [k EXCEPT !.holder = t, !.inside = @ \union {t}] = [v EXCEPT !.inside = @ \union {t}]
    OBVIOUS
  <2> HIDE DEF v
  <2>3. QED
    BY <1>2, <2>1, <2>2
<1>8. QED
  BY <1>3, <1>4, <1>5, <1>6, <1>7

\* What a slice ends with.
LEMMA SliceTypes ==
  ASSUME TypeOK, NEW t \in Tasks
  PROVE  /\ Free => SchOK(sch')
         /\ fast_schedule(t) \/ schedule(t) => ready' \in Seq(Items)
         /\ \A files \in SUBSET Files, left \in 0 .. Forever :
              registerSelect(t, files, left) =>
                incoming' \in Seq(Requests(Files)) /\ SchOK(sch') /\ ready' \in Seq(Items)
         /\ \A left \in 0 .. Forever :
              Sleep(t, left) => incoming' \in Seq(Requests(Files)) /\ SchOK(sch') /\ ready' \in Seq(Items)
<1>1. SchOK(sch) /\ ready \in Seq(Items) /\ incoming \in Seq(Requests(Files))
  BY DEF TypeOK
<1>2. Free => SchOK(sch')
  BY <1>1, SlicesKept DEF Free
<1>3. fast_schedule(t) \/ schedule(t) => ready' \in Seq(Items)
  BY <1>1, MadeReady DEF fast_schedule, schedule
<1>4. ASSUME NEW files \in SUBSET Files, NEW left \in 0 .. Forever, registerSelect(t, files, left)
      PROVE  incoming' \in Seq(Requests(Files)) /\ SchOK(sch') /\ ready' \in Seq(Items)
  <2>1. [task |-> t, files |-> files, left |-> left] \in Requests(Files)
    BY DEF Requests
  <2>2. incoming' = Append(incoming, [task |-> t, files |-> files, left |-> left]) /\ sch' = [sch EXCEPT !.pc = "ping"] /\ ready' = ready
    BY <1>4 DEF registerSelect
  <2>3. SchOK(sch')
    BY <1>1, <2>2, SlicesKept
  <2>4. incoming' \in Seq(Requests(Files))
    BY <1>1, <2>1, <2>2
  <2>5. QED
    BY <1>1, <2>2, <2>3, <2>4
<1>5. ASSUME NEW left \in 0 .. Forever, Sleep(t, left)
      PROVE  incoming' \in Seq(Requests(Files)) /\ SchOK(sch') /\ ready' \in Seq(Items)
  <2>1. CASE registerSelect(t, None, left)
    BY <1>4, <2>1 DEF None
  <2>2. CASE fast_schedule(t) /\ Free /\ UNCHANGED incoming
    BY <1>1, <1>2, <1>3, <2>2
  <2>3. QED
    BY <1>5, <2>1, <2>2 DEF Sleep
<1>6. QED
  BY <1>2, <1>3, <1>4, <1>5

\* What the operation of a program may hold.
LEMMA OpsOK ==
  ASSUME TypeOK, NEW t \in Tasks, NEW op, Doing(t, op)
  PROVE  /\ OpOK(Op(t))
         /\ op \in {"sleep", "select"} => Op(t).n \in 0 .. Forever
         /\ op = "select" => Op(t).fd \in Files
         /\ op = "try" => Op(t).else \in Nat \ {0}
<1>1. <<t, local[t].at>> \in Steps(job) /\ At(job, <<t, local[t].at>>) = Op(t) /\ Fits(job, <<t, local[t].at>>) /\ Op(t).op = op
  BY DoingStep
<1>2. OpOK(Op(t)) /\ (op \in {"sleep", "select"} => Op(t).n \in 0 .. Forever)
  BY <1>1 DEF Fits, OpOK, Kind
<1>3. op = "select" => Op(t).fd \in Files
  BY <1>1 DEF Files
<1>4. op = "try" => Op(t).else \in Nat \ {0}
  <2>1. local[t].at \in Nat \ {0} /\ Len(job.code[t]) \in Nat
    BY JobOK, StepsOf DEF TypeOK, Locals
  <2>2. op = "try" => Op(t).else \in local[t].at + 1 .. Len(job.code[t]) + 1
    BY <1>1 DEF Fits
  <2>3. QED
    BY <2>1, <2>2
<1>5. QED
  BY <1>2, <1>3, <1>4

\* TypeOK is kept by programs.
LEMMA ProgramTypes ==
  ASSUME TypeOK, NEW t \in Tasks, ProgramStep(t)
  PROVE  TypeOK'
<1> DEFINE L == [Tasks -> Locals(Files)]
<1>1. job' = job /\ Files' = Files /\ about' = about /\ UNCHANGED <<hub, entries, thread, worker, members, commands>>
  BY SameJob DEF ProgramStep, OthersWait, hubVars, ioVars
<1>2. /\ about \in DOMAIN Jobs /\ local \in L /\ ready \in Seq(Items) /\ incoming \in Seq(Requests(Files))
      /\ SchOK(sch) /\ lock \in Locks /\ waiter \in Waiters /\ blocked \subseteq Of("program")
      /\ calls = [started |-> calls.started, queue |-> calls.queue] /\ calls.started \in BOOLEAN
  BY DEF TypeOK
<1>3. On(t) \in L /\ Of("program")' = Of("program")
  BY <1>1, <1>2, LocalOn DEF On, Of, Kind
<1>4. SUFFICES /\ local' \in L /\ ready' \in Seq(Items) /\ incoming' \in Seq(Requests(Files)) /\ SchOK(sch')
               /\ lock' \in Locks /\ waiter' \in Waiters /\ blocked' \subseteq Of("program")
               /\ calls' = [started |-> calls'.started, queue |-> calls'.queue] /\ calls'.started \in BOOLEAN
  BY <1>1, <1>3 DEF TypeOK
<1> HIDE DEF L
<1> USE DEF schedulerVars, syncVars
<1>5. CASE ProgramDoes(t)
  <2>1. OpOK(Op(t)) /\ Do(Op(t), On(t)) /\ UNCHANGED <<incoming, blocked>>
    BY <1>5, OpsOK DEF ProgramDoes
  <2>2. QED
    BY <1>2, <1>3, <2>1, DoTypes DEF L
<1>6. CASE ProgramEnds(t)
  <2>1. CASE t \in job.loop
    <3>1. local' = [local EXCEPT ![t].at = 1] /\ UNCHANGED <<ready, sch, incoming, lock, waiter, calls, blocked>>
      BY <1>6, <2>1 DEF ProgramEnds
    <3> DEFINE first == 1
    <3>2. first \in Nat \ {0} /\ local' = [local EXCEPT ![t].at = first]
      BY <3>1
    <3> HIDE DEF first
    <3>3. local' \in L
      BY <1>2, <3>2, LocalAt DEF L
    <3>4. QED
      BY <1>2, <3>1, <3>3
  <2>2. CASE t \notin job.loop
    <3>1. local' = [local EXCEPT ![t].st = "done"] /\ Free /\ UNCHANGED <<ready, incoming, lock, waiter, calls, blocked>>
      BY <1>6, <2>2 DEF ProgramEnds, Ends, Unscheduled
    <3>2. local' \in L
      BY <1>2, <3>1, LocalSt DEF L
    <3>3. QED
      BY <1>2, <3>1, <3>2, SliceTypes
  <2>3. QED
    BY <2>1, <2>2
<1>7. CASE YieldsZero(t)
  <2>1. ready' = Append(ready, Item(t)) /\ Free /\ local' = On(t) /\ UNCHANGED <<incoming, lock, waiter, calls, blocked>>
    BY <1>7 DEF YieldsZero, Again
  <2>2. QED
    BY <1>2, <1>3, <2>1, SliceTypes, MadeReady
<1>8. CASE Sleeps(t)
  <2>1. Op(t).n \in 0 .. Forever
    BY <1>8, OpsOK DEF Sleeps
  <2>2. QED
    BY <1>2, <1>3, <1>8, <2>1, SliceTypes DEF Sleeps
<1>9. CASE Selects(t)
  <2>1. Op(t).n \in 0 .. Forever /\ {Op(t).fd} \in SUBSET Files
    BY <1>9, OpsOK DEF Selects
  <2>2. QED
    BY <1>2, <1>3, <1>9, <2>1, SliceTypes DEF Selects
<1>10. CASE Reads(t) \/ TakesEvents(t)
  BY <1>2, <1>3, <1>10, WaitersKept DEF Reads, TakesEvents
<1>11. CASE Parks(t)
  <2>1. [On(t) EXCEPT ![t].st = "asleep"] \in L
    BY <1>3, LocalSt DEF L
  <2>2. QED
    BY <1>2, <1>11, <2>1, SliceTypes DEF Parks, Unscheduled
<1>12. CASE Acquires(t)
  <2>1. Op(t).op = "try" => [On(t) EXCEPT ![t].at = Op(t).else] \in L
    BY <1>3, <1>12, OpsOK, LocalAt DEF Acquires, Doing, L
  <2>2. [local EXCEPT ![t].st = "live"] \in L
    BY <1>2, LocalSt DEF L
  <2>3. QED
    BY <1>2, <1>3, <1>12, <2>1, <2>2, LocksKept, SliceTypes DEF Acquires, Unscheduled
<1>13. CASE Acquired(t)
  <2>1. [On(t) EXCEPT ![t].ok = FALSE] \in L
    BY <1>3, LocalFlags DEF L
  <2>2. QED
    BY <1>2, <1>13, <2>1, LocksKept DEF Acquired
<1>14. CASE Releases(t)
  <2>1. CASE lock.waiting = {}
    BY <1>2, <1>3, <1>14, <2>1, LocksKept DEF Releases
  <2>2. CASE lock.waiting # {}
    <3>1. PICK u \in lock.waiting : /\ lock' = [holder |-> u, waiting |-> lock.waiting \ {u}, inside |-> lock.inside \ {t}]
                                    /\ local' = [On(t) EXCEPT ![u].ok = TRUE] /\ fast_schedule(u)
      BY <1>14, <2>2 DEF Releases
    <3>2. u \in Tasks /\ lock' \in Locks
      BY <1>2, <3>1, LocksKept
    <3>3. local' \in L /\ ready' \in Seq(Items)
      BY <1>3, <3>1, <3>2, LocalFlags, SliceTypes DEF L
    <3>4. QED
      BY <1>2, <1>14, <3>2, <3>3 DEF Releases
  <2>3. QED
    BY <2>1, <2>2
<1>15. CASE Blocks(t)
  <2>1. t \in Of("program")
    BY <1>15 DEF Blocks, Doing, Of
  <2>2. QED
    BY <1>2, <1>3, <1>15, <2>1, SliceTypes DEF Blocks, Unscheduled
<1>16. CASE WaitsOnEvents(t)
  <2>1. [On(t) EXCEPT ![t].st = "asleep"] \in L
    BY <1>3, LocalSt DEF L
  <2>2. QED
    BY <1>2, <1>16, <2>1, WaitersKept, SlicesKept DEF WaitsOnEvents
<1>17. QED
  BY <1>5, <1>6, <1>7, <1>8, <1>9, <1>10, <1>11, <1>12, <1>13, <1>14, <1>15, <1>16 DEF ProgramStep, Program

\* ... by the scheduler between slices, and by calls that block.
LEMMA SchedulerTypes ==
  ASSUME TypeOK, Switches \/ Rings \/ CheckStep \/ SetStep \/ \E t \in Tasks : BlockingStep(t)
  PROVE  TypeOK'
<1> USE DEF schedulerVars, syncVars
<1>1. /\ job' = job /\ Files' = Files /\ Of("program")' = Of("program")
      /\ UNCHANGED <<about, local, hub, entries, incoming, lock, calls, thread, worker, members, commands>>
  BY SameJob DEF Switches, Rings, CheckStep, ChecksEvents, SetStep, BlockingStep, BlockingEnds,
     BlockingSets, OthersWait,
                 hubVars, ioVars, Of, Kind
<1>2. SchOK(sch) /\ ready \in Seq(Items) /\ waiter \in Waiters /\ blocked \subseteq Of("program")
  BY DEF TypeOK
<1>3. SUFFICES SchOK(sch') /\ ready' \in Seq(Items) /\ waiter' \in Waiters /\ blocked' \subseteq Of("program")
  BY <1>1 DEF TypeOK
<1>4. CASE cycle /\ UNCHANGED <<waiter, blocked>>
  <2>1. Head(ready) \in Items /\ Head(ready).task \in Tasks /\ Tail(ready) \in Seq(Items)
    <3>1. ready # <<>>
      BY <1>4 DEF cycle
    <3>2. QED
      BY <1>2, <3>1, Tailed, ItemsApart
  <2>2. \/ /\ sch' = [sch EXCEPT !.pc = IF Head(ready).wake THEN "wake" ELSE "run", !.task = Head(ready).task]
           /\ ready' = Tail(ready)
        \/ ready' = Append(Tail(ready), Head(ready)) /\ UNCHANGED sch
    BY <1>4 DEF cycle
  <2>3. CASE /\ sch' = [sch EXCEPT !.pc = IF Head(ready).wake THEN "wake" ELSE "run", !.task = Head(ready).task]
             /\ ready' = Tail(ready)
    <3> DEFINE pc == IF Head(ready).wake THEN "wake" ELSE "run"
    <3>1. pc \in {"run", "wake"} /\ sch' = [sch EXCEPT !.pc = pc, !.task = Head(ready).task]
      BY <2>3
    <3> HIDE DEF pc
    <3>2. SchOK(sch')
      BY <1>2, <2>1, <3>1, SlicesKept
    <3>3. QED
      BY <1>2, <1>4, <2>1, <2>3, <3>2
  <2>4. CASE ready' = Append(Tail(ready), Head(ready)) /\ UNCHANGED sch
    BY <1>2, <1>4, <2>1, <2>4
  <2>5. QED
    BY <2>2, <2>3, <2>4
<1>5. CASE (idle \/ Waited \/ Cleared) /\ UNCHANGED <<waiter, blocked>>
  BY <1>2, <1>5, SlicesKept DEF idle, Waited, Cleared
<1>6. CASE Wakes /\ UNCHANGED <<waiter, blocked>>
  <2>1. sch.task \in Tasks /\ Free /\ (ready' = ready \/ ready' = <<Item(sch.task)>> \o ready)
    BY <1>2, <1>6 DEF Wakes, SchOK
  <2>2. QED
    BY <1>2, <1>6, <2>1, PutFirst, SliceTypes
<1>7. CASE (Pings \/ Quit) /\ UNCHANGED <<waiter, blocked>>
  <2>1. ready' = ready /\ (sch' = [sch EXCEPT !.pc = "done"] \/ Free)
    BY <1>7 DEF Pings, Quit
  <2>2. sch.task \in Tasks \union {Nobody} /\ Caller \in Tasks
    BY <1>2, TasksAssumption DEF SchOK, Slices
  <2>3. QED
    BY <1>2, <1>7, <2>1, <2>2, SlicesKept, SliceTypes
<1>8. CASE ChecksEvents
  <2> DEFINE b == ~CanWake /\ waiter.wakeable
  <2>1. /\ b \in BOOLEAN /\ waiter' = [waiter EXCEPT !.wakeable = b] /\ Free /\ blocked' = blocked
        /\ ready' = ready \/ (waiter.task # Nobody /\ schedule(waiter.task))
    BY <1>8 DEF ChecksEvents, CanWake
  <2> HIDE DEF b
  <2>2. (waiter.task # Nobody => waiter.task \in Tasks) /\ Caller \in Tasks
    BY <1>2, TasksAssumption DEF Waiters
  <2>3. waiter' \in Waiters
    BY <1>2, <2>1, <2>2, WaitersKept
  <2>4. SchOK(sch') /\ ready' \in Seq(Items)
    BY <1>2, <2>1, <2>2, SliceTypes
  <2>5. QED
    BY <1>2, <2>1, <2>3, <2>4
<1>9. CASE SetStep
  BY <1>2, <1>9 DEF SetStep, BlockingSets
<1>10. CASE \E t \in Tasks : BlockingStep(t)
  BY <1>2, <1>10, MadeReady DEF BlockingStep, BlockingEnds
<1>11. QED
  BY <1>4, <1>5, <1>6, <1>7, <1>8, <1>9, <1>10 DEF Switches, Rings, Switching, CheckStep

\* ... by timers.
LEMMA TimerTypes ==
  ASSUME TypeOK, NEW t \in Tasks, TimerStep(t)
  PROVE  TypeOK'
<1> DEFINE L == [Tasks -> Locals(Files)]
<1> USE DEF schedulerVars, syncVars
<1>1. /\ job' = job /\ Files' = Files /\ Of("program")' = Of("program")
      /\ UNCHANGED <<about, hub, entries, thread, worker, members, commands>>
  BY SameJob DEF TimerStep, OthersWait, hubVars, ioVars, Of, Kind
<1>2. /\ local \in L /\ SchOK(sch) /\ ready \in Seq(Items) /\ incoming \in Seq(Requests(Files)) /\ lock \in Locks
      /\ waiter \in Waiters /\ calls = [started |-> calls.started, queue |-> calls.queue] /\ calls.started \in BOOLEAN
      /\ blocked \subseteq Of("program")
  BY DEF TypeOK
<1>3. SUFFICES /\ local' \in L /\ ready' \in Seq(Items) /\ incoming' \in Seq(Requests(Files)) /\ SchOK(sch')
               /\ lock' \in Locks /\ waiter' \in Waiters /\ blocked' \subseteq Of("program")
               /\ calls' = [started |-> calls'.started, queue |-> calls'.queue] /\ calls'.started \in BOOLEAN
  BY <1>1 DEF TypeOK
<1>4. 0 \in 0 .. Forever /\ local[t].next \in 0 .. Forever
  BY <1>2, TasksAssumption DEF Locals, Forever
<1> HIDE DEF L
<1>5. CASE TimerSleeps(t)
  <2> DEFINE n == 0
             i == 2
  <2>1. /\ n \in 0 .. Forever /\ i \in Nat \ {0} /\ local' = [local EXCEPT ![t].st = "live", ![t].at = i, ![t].next = n]
        /\ Sleep(t, local[t].next) /\ UNCHANGED <<lock, waiter, calls, blocked>>
    BY <1>4, <1>5 DEF TimerSleeps
  <2> HIDE DEF n, i
  <2>2. local' \in L
    BY <1>2, <2>1, LocalTurns DEF L
  <2>3. QED
    BY <1>2, <1>4, <2>1, <2>2, SliceTypes
<1>6. CASE TimerEnds(t)
  <2>1. local' = [local EXCEPT ![t].st = "done"] /\ Free /\ UNCHANGED <<ready, incoming, lock, waiter, calls, blocked>>
    BY <1>6 DEF TimerEnds, Ends, Unscheduled
  <2>2. local' \in L
    BY <1>2, <2>1, LocalSt DEF L
  <2>3. QED
    BY <1>2, <2>1, <2>2, SliceTypes
<1>7. CASE TimerFires(t)
  <2> DEFINE n == IF Timer(t).recurring THEN Timer(t).interval ELSE 0
             i == IF Timer(t).recurring /\ ~Timer(t).stops THEN 1 ELSE 3
             l == [local EXCEPT ![t].since = 0, ![t].next = n, ![t].at = i]
  <2>1. FitsTimer(job, t)
    BY <1>7, JobOK DEF TimerFires, Kind, Disciplined
  <2>2. n \in 0 .. Forever /\ i \in Nat \ {0}
    BY <1>4, <2>1 DEF FitsTimer, Timer
  <2>3. l \in L
    <3> HIDE DEF n, i
    <3>1. QED
      BY <1>2, <2>2, LocalTurns DEF L
  <2>4. OpOK(Timer(t).f)
    <3>1. Timer(t).f.op # "start" /\ (Timer(t).f.op = "cancel" => job.kind[Timer(t).f.t] = "timer")
      BY <2>1 DEF FitsTimer, Timer
    <3>2. Timer(t).f.op = "cancel" => Timer(t).f.t \in Tasks
      BY <2>1 DEF FitsTimer, Timer
    <3>3. QED
      BY <3>1, <3>2 DEF OpOK, Kind
  <2>5. Do(Timer(t).f, l) /\ UNCHANGED <<incoming, blocked>>
    BY <1>7 DEF TimerFires
  <2> HIDE DEF l
  <2>6. QED
    BY <1>2, <2>3, <2>4, <2>5, DoTypes DEF L
<1>8. QED
  BY <1>5, <1>6, <1>7 DEF TimerStep

(* -------------------------- closing a worker --------------------------- *)
\* When a worker is there that is not closed, all timers that open workers are free, and
\* there are some.
LEMMA FreeRetry ==
  ASSUME TypeOK, OneWorks, RetriesOK, NEW w \in Live, sch.task \notin Of("retry")
  PROVE  /\ Launched(job, thread) /\ Live = {w} /\ Retrying = {}
         /\ \A t \in Of("retry") : local[t].st = "done"
         /\ \E t \in Of("retry") : local[t].st = "done"
<1>1. w \in Workers /\ worker[w].st # "none"
  BY DEF Live
<1>2. Launched(job, thread) /\ Live = {w} /\ Retrying = {}
  BY <1>1 DEF OneWorks
<1>3. ASSUME NEW t \in Of("retry") PROVE local[t].st = "done"
  BY <1>2, <1>3 DEF Retrying, RetriesOK, Runs
<1>4. \E t \in Of("retry") : TRUE
  BY <1>2, JobOK DEF Launched, LaunchesOnce, Of, Kind
<1>5. QED
  BY <1>2, <1>3, <1>4

\* open_later sets one of them up, and makes it ready.
SetsUp(l, t, d) ==
  /\ t \in Of("retry") /\ l[t].st = "done" /\ Longer(d) \in 1 .. MaxLeft /\ Longer(d) \in 0 .. Forever /\ Longer(d) \in Nat
  /\ local' = [l EXCEPT ![t] = [Fresh EXCEPT !.next = Longer(d), !.arg = Longer(d)]]
  /\ schedule(t)

\* open_later, where a timer is free.
LEMMA OpensLater ==
  ASSUME NEW l, NEW d \in Nat, open_later(l, d), \E t \in Of("retry") : l[t].st = "done"
  PROVE  \E t \in Of("retry") : SetsUp(l, t, d)
<1> DEFINE t == CHOOSE u \in Of("retry") : l[u].st = "done"
<1>1. t \in Of("retry") /\ l[t].st = "done"
  OBVIOUS
<1>2. local' = [l EXCEPT ![t] = [Fresh EXCEPT !.next = Longer(d), !.arg = Longer(d)]] /\ schedule(t)
  BY DEF open_later
<1>3. Longer(d) \in 1 .. MaxLeft
  BY TasksAssumption, WorkersAssumption DEF Longer, Half
<1>4. Longer(d) \in 0 .. Forever /\ Longer(d) \in Nat
  BY <1>3, TasksAssumption DEF Forever
<1> HIDE DEF t
<1>5. QED
  BY <1>1, <1>2, <1>3, <1>4 DEF SetsUp

\* What a worker keeps.
LEMMA WorkersKept ==
  ASSUME NEW wk \in [Workers -> WorkerStates], NEW w \in Workers
  PROVE  /\ [wk EXCEPT ![w].connecting = FALSE] \in [Workers -> WorkerStates]
         /\ [wk EXCEPT ![w].closed = TRUE] \in [Workers -> WorkerStates]
         /\ \A k \in Nat : [wk EXCEPT ![w].sends = k] \in [Workers -> WorkerStates]
         /\ \A k \in Nat : [wk EXCEPT ![w].delay = k] \in [Workers -> WorkerStates]
         /\ \A k \in {"none", "syn", "ok", "refused", "data", "eof"} : [wk EXCEPT ![w].sock = k] \in [Workers -> WorkerStates]
         /\ [wk EXCEPT ![w].starting = FALSE] \in [Workers -> WorkerStates]
         /\ \A k \in {"no", "asked", "done"} : [wk EXCEPT ![w].shut = k] \in [Workers -> WorkerStates]
         /\ NoWorker \in WorkerStates
<1>1. [wk EXCEPT ![w].connecting = FALSE] \in [Workers -> WorkerStates]
  BY DEF WorkerStates
<1>2. [wk EXCEPT ![w].closed = TRUE] \in [Workers -> WorkerStates]
  BY DEF WorkerStates
<1>3. ASSUME NEW k \in Nat
      PROVE  [wk EXCEPT ![w].sends = k] \in [Workers -> WorkerStates] /\ [wk EXCEPT ![w].delay = k] \in [Workers -> WorkerStates]
  BY DEF WorkerStates
<1>4. ASSUME NEW k \in {"none", "syn", "ok", "refused", "data", "eof"}
             PROVE [wk EXCEPT ![w].sock = k] \in [Workers -> WorkerStates]
  BY DEF WorkerStates
<1>5. NoWorker \in WorkerStates
  BY DEF WorkerStates, NoWorker, Half
<1>6. [wk EXCEPT ![w].starting = FALSE] \in [Workers -> WorkerStates]
  BY DEF WorkerStates
<1>7. ASSUME NEW k \in {"no", "asked", "done"}
             PROVE [wk EXCEPT ![w].shut = k] \in [Workers -> WorkerStates]
  BY DEF WorkerStates
<1>8. QED
  BY <1>1, <1>2, <1>3, <1>4, <1>5, <1>6, <1>7

\* What it does with a worker: nothing that concerns other tasks, or it closes it, once.
AlikeBut(wk) ==
  wk \in [Workers -> WorkerStates] /\ \A v \in Workers : wk[v].st = worker[v].st /\ wk[v].closed = worker[v].closed
Worked(w, f, wk) ==
  /\ worker[w].st = "open" /\ AlikeBut(wk) /\ members' \subseteq members
  /\ \/ worker' = wk /\ local' = Listed(f) /\ UNCHANGED <<ready, commands>>
     \/ /\ ~worker[w].closed /\ worker' = [wk EXCEPT ![w].closed = TRUE]
        /\ open_later(Listed(f), wk[w].delay) /\ commands' = Append(commands, Close(w))

\* DoRecv and DoSend do what Worked says: the loop goes through files of open workers.
LEMMA WorksOn ==
  ASSUME TypeOK, WatchesOpen, NEW w \in Workers, WorkStep(w)
  PROVE  /\ UNCHANGED <<about, sch, hub, entries, incoming, lock, waiter, calls, blocked, thread>>
         /\ Runs(sch, Loop) /\ Kind(Loop) = "loop"
         /\ \E f, wk : Worked(w, f, wk)
<1>1. /\ UNCHANGED <<about, sch, hub, entries, incoming, lock, waiter, calls, blocked, thread>>
      /\ Runs(sch, Loop) /\ Kind(Loop) = "loop" /\ (w \in rlist \/ w \in wlist)
  BY DEF WorkStep, DoRecv, DoSend, OthersWait, hubVars, Keeps, syncVars, InLists, Running, Runs
<1>2. worker \in [Workers -> WorkerStates] /\ worker[w].st = "open"
  BY <1>1 DEF TypeOK, WatchesOpen, OfOpen, rlist, wlist
<1>3. ASSUME NEW wk, AlikeBut(wk), NEW f, close(w, Listed(f), wk), members' \subseteq members
      PROVE  Worked(w, f, wk)
  <2>1. CASE wk[w].closed
    BY <1>2, <1>3, <2>1 DEF close, Worked
  <2>2. CASE ~wk[w].closed
    BY <1>2, <1>3, <2>2 DEF close, Worked, AlikeBut, Close
  <2>3. QED
    BY <2>1, <2>2
<1>4. AlikeBut(worker)
  BY <1>2 DEF AlikeBut
<1>5. ASSUME NEW wk, AlikeBut(wk)
      PROVE  /\ AlikeBut([wk EXCEPT ![w].connecting = FALSE])
             /\ \A k \in Nat : AlikeBut([wk EXCEPT ![w].sends = k]) /\ AlikeBut([wk EXCEPT ![w].delay = k])
             /\ \A k \in {"none", "syn", "ok", "refused", "data", "eof"} : AlikeBut([wk EXCEPT ![w].sock = k])
             /\ AlikeBut([wk EXCEPT ![w].starting = FALSE])
             /\ \A k \in {"no", "asked", "done"} : AlikeBut([wk EXCEPT ![w].shut = k])
  <2>1. wk \in [Workers -> WorkerStates]
    BY <1>5 DEF AlikeBut
  <2>2. \A v \in Workers : wk[v].st = worker[v].st /\ wk[v].closed = worker[v].closed
    BY <1>5 DEF AlikeBut
  <2>3. AlikeBut([wk EXCEPT ![w].connecting = FALSE])
    <3> DEFINE x == [wk EXCEPT ![w].connecting = FALSE]
    <3>1. \A v \in Workers : x[v].st = wk[v].st /\ x[v].closed = wk[v].closed
      BY <2>1 DEF WorkerStates
    <3>2. x \in [Workers -> WorkerStates]
      BY <2>1, WorkersKept
    <3> HIDE DEF x
    <3>3. QED
      BY <2>2, <3>1, <3>2 DEF AlikeBut, x
  <2>4. ASSUME NEW k \in Nat PROVE AlikeBut([wk EXCEPT ![w].sends = k])
    <3> DEFINE x == [wk EXCEPT ![w].sends = k]
    <3>1. \A v \in Workers : x[v].st = wk[v].st /\ x[v].closed = wk[v].closed
      BY <2>1 DEF WorkerStates
    <3>2. x \in [Workers -> WorkerStates]
      BY <2>1, WorkersKept
    <3> HIDE DEF x
    <3>3. QED
      BY <2>2, <3>1, <3>2 DEF AlikeBut, x
  <2>5. ASSUME NEW k \in Nat PROVE AlikeBut([wk EXCEPT ![w].delay = k])
    <3> DEFINE x == [wk EXCEPT ![w].delay = k]
    <3>1. \A v \in Workers : x[v].st = wk[v].st /\ x[v].closed = wk[v].closed
      BY <2>1 DEF WorkerStates
    <3>2. x \in [Workers -> WorkerStates]
      BY <2>1, WorkersKept
    <3> HIDE DEF x
    <3>3. QED
      BY <2>2, <3>1, <3>2 DEF AlikeBut, x
  <2>6. ASSUME NEW k \in {"none", "syn", "ok", "refused", "data", "eof"}
               PROVE AlikeBut([wk EXCEPT ![w].sock = k])
    <3> DEFINE x == [wk EXCEPT ![w].sock = k]
    <3>1. \A v \in Workers : x[v].st = wk[v].st /\ x[v].closed = wk[v].closed
      BY <2>1 DEF WorkerStates
    <3>2. x \in [Workers -> WorkerStates]
      BY <2>1, WorkersKept
    <3> HIDE DEF x
    <3>3. QED
      BY <2>2, <3>1, <3>2 DEF AlikeBut, x
  <2>7. AlikeBut([wk EXCEPT ![w].starting = FALSE])
    <3> DEFINE x == [wk EXCEPT ![w].starting = FALSE]
    <3>1. \A v \in Workers : x[v].st = wk[v].st /\ x[v].closed = wk[v].closed
      BY <2>1 DEF WorkerStates
    <3>2. x \in [Workers -> WorkerStates]
      BY <2>1, WorkersKept
    <3> HIDE DEF x
    <3>3. QED
      BY <2>2, <3>1, <3>2 DEF AlikeBut, x
  <2>8. ASSUME NEW k \in {"no", "asked", "done"}
               PROVE AlikeBut([wk EXCEPT ![w].shut = k])
    <3> DEFINE x == [wk EXCEPT ![w].shut = k]
    <3>1. \A v \in Workers : x[v].st = wk[v].st /\ x[v].closed = wk[v].closed
      BY <2>1 DEF WorkerStates
    <3>2. x \in [Workers -> WorkerStates]
      BY <2>1, WorkersKept
    <3> HIDE DEF x
    <3>3. QED
      BY <2>2, <3>1, <3>2 DEF AlikeBut, x
  <2>9. QED
    BY <2>3, <2>4, <2>5, <2>6, <2>7, <2>8
<1>6. AlikeBut(Connected(w))
  <2> DEFINE two == 2
             a == [worker EXCEPT ![w].connecting = FALSE]
             b == [a EXCEPT ![w].delay = Half]
  <2>1. two \in Nat /\ Half \in Nat
    BY DEF Half
  <2>2. AlikeBut(a)
    BY <1>4, <1>5
  <2>3. [worker EXCEPT ![w].connecting = FALSE, ![w].delay = Half, ![w].sends = 2] = [b EXCEPT ![w].sends = two]
    OBVIOUS
  <2> HIDE DEF a, two
  <2>4. AlikeBut(b)
    BY <1>5, <2>1, <2>2
  <2> HIDE DEF b
  <2>5. AlikeBut([b EXCEPT ![w].sends = two])
    BY <1>5, <2>1, <2>4
  <2>6. QED
    BY <1>4, <2>3, <2>5 DEF Connected
<1>7. CASE DoRecv(w)
  <2> DEFINE f == Readable(w)
             wk == Connected(w)
  <2>1. CASE close(w, Listed(f), [worker EXCEPT ![w].connecting = FALSE]) /\ members' = members \ {w}
    BY <1>1, <1>3, <1>4, <1>5, <2>1
  <2>2. CASE close(w, Listed(f), wk) /\ members' = members \ {w}
    BY <1>1, <1>3, <1>6, <2>2
  <2>3. CASE /\ worker' = [wk EXCEPT ![w].sock = "ok", ![w].sends = 2, ![w].starting = FALSE] /\ local' = Listed(f)
             /\ UNCHANGED <<ready, members, commands>>
    <3> DEFINE two == 2
               a == [wk EXCEPT ![w].sock = "ok"]
               b == [a EXCEPT ![w].sends = two]
    <3>1. two \in Nat /\ worker' = [b EXCEPT ![w].starting = FALSE]
      BY <2>3
    <3>2. AlikeBut(a)
      <4> HIDE DEF wk
      <4>1. AlikeBut(wk)
        BY <1>6 DEF wk
      <4>2. QED
        BY <1>5, <4>1
    <3> HIDE DEF a, two
    <3>3. AlikeBut(b)
      BY <1>5, <3>1, <3>2
    <3> HIDE DEF b
    <3>4. AlikeBut(worker')
      BY <1>5, <3>1, <3>3
    <3>5. QED
      BY <1>1, <1>2, <2>3, <3>4 DEF Worked
  <2>4. CASE /\ worker' = [wk EXCEPT ![w].sock = "ok", ![w].shut = ToShut(@), ![w].sends = Complaint(w, @)]
             /\ local' = Listed(f) /\ UNCHANGED <<ready, members, commands>>
    <3> DEFINE how == ToShut(wk[w].shut)
               many == Complaint(w, wk[w].sends)
               a == [wk EXCEPT ![w].sock = "ok"]
               b == [a EXCEPT ![w].shut = how]
    <3>1. worker' = [b EXCEPT ![w].sends = many]
      <4> HIDE DEF wk
      <4>1. AlikeBut(wk)
        BY <1>6 DEF wk
      <4>2. QED
        BY <2>4, <4>1 DEF AlikeBut, WorkerStates
    <3>2. AlikeBut(a) /\ how \in {"no", "asked", "done"} /\ many \in Nat
      <4> HIDE DEF wk
      <4>1. AlikeBut(wk)
        BY <1>6 DEF wk
      <4>2. wk[w].shut \in {"no", "asked", "done"} /\ wk[w].sends \in Nat
        BY <4>1 DEF AlikeBut, WorkerStates
      <4>3. how \in {"no", "asked", "done"}
        BY <4>2 DEF ToShut
      <4>4. many \in Nat
        BY <4>2 DEF Complaint
      <4>5. QED
        BY <1>5, <4>1, <4>3, <4>4
    <3> HIDE DEF a, how, many
    <3>3. AlikeBut(b)
      BY <1>5, <3>2
    <3> HIDE DEF b
    <3>4. AlikeBut(worker')
      BY <1>5, <3>1, <3>2, <3>3
    <3>5. QED
      BY <1>1, <1>2, <2>4, <3>4 DEF Worked
  <2>5. QED
    BY <1>7, <2>1, <2>2, <2>3, <2>4 DEF DoRecv
<1>8. CASE DoSend(w)
  <2> DEFINE f == Writable(w)
             wk == Connected(w)
  <2>1. CASE /\ \E rest \in IF wk[w].sends > 0 THEN 0..wk[w].sends - 1 ELSE {0} : worker' = Left(wk, w, rest)
             /\ local' = Listed(f) /\ UNCHANGED <<ready, members, commands>>
    <3> HIDE DEF wk
    <3>1. AlikeBut(wk) /\ wk[w].sends \in Nat /\ wk[w].shut \in {"no", "asked", "done"}
      BY <1>6 DEF wk, AlikeBut, WorkerStates
    <3>2. (IF wk[w].sends > 0 THEN 0..wk[w].sends - 1 ELSE {0}) \subseteq Nat
      BY <3>1
    <3>3. PICK rest \in Nat : worker' = Left(wk, w, rest)
      BY <2>1, <3>2
    <3> DEFINE how == IF wk[w].sends > 0 /\ rest = 0 /\ wk[w].shut = "asked" THEN "done" ELSE wk[w].shut
               a == [wk EXCEPT ![w].sends = rest]
    <3>4. how \in {"no", "asked", "done"}
      BY <3>1
    <3>5. worker' = [a EXCEPT ![w].shut = how]
      BY <3>1, <3>3 DEF Left, AlikeBut, WorkerStates
    <3> HIDE DEF how, a
    <3>6. AlikeBut(a)
      BY <1>5, <3>1 DEF a
    <3>7. AlikeBut(worker')
      BY <1>5, <3>4, <3>5, <3>6
    <3>8. QED
      BY <1>1, <1>2, <2>1, <3>7 DEF Worked
  <2>2. CASE close(w, Listed(f), [worker EXCEPT ![w].connecting = FALSE]) /\ members' = members \ {w}
    BY <1>1, <1>3, <1>4, <1>5, <2>2
  <2>3. CASE close(w, Listed(f), wk) /\ members' = members \ {w}
    BY <1>1, <1>3, <1>6, <2>3
  <2>4. QED
    BY <1>8, <2>1, <2>2, <2>3 DEF DoSend
<1>9. QED
  BY <1>1, <1>7, <1>8 DEF WorkStep

\* A timer that is set up is well-typed.
LEMMA SetUpTypes ==
  ASSUME TypeOK, NEW l \in [Tasks -> Locals(Files)], NEW t, NEW d, SetsUp(l, t, d)
  PROVE  t \in Tasks /\ local' \in [Tasks -> Locals(Files)] /\ ready' \in Seq(Items)
<1>1. t \in Tasks /\ Longer(d) \in 0 .. Forever /\ Longer(d) \in Nat /\ schedule(t)
  BY DEF SetsUp, Of
<1>2. local' = [l EXCEPT ![t] = [Fresh EXCEPT !.next = Longer(d), !.arg = Longer(d)]]
  BY DEF SetsUp
<1>3. local' \in [Tasks -> Locals(Files)]
  BY <1>1, <1>2, LocalFresh
<1>4. QED
  BY <1>1, <1>3, SliceTypes

\* TypeOK is kept by what the loop does for a worker.
LEMMA WorkTypes ==
  ASSUME SchedInv, NEW w \in Workers, WorkStep(w)
  PROVE  TypeOK'
<1> DEFINE L == [Tasks -> Locals(Files)]
<1>1. /\ UNCHANGED <<about, sch, hub, entries, incoming, lock, waiter, calls, blocked, thread>>
      /\ Runs(sch, Loop) /\ Kind(Loop) = "loop" /\ TypeOK /\ OneWorks /\ RetriesOK
  BY WorksOn DEF SchedInv, OneAtWork
<1>2. PICK f, wk : Worked(w, f, wk)
  BY WorksOn DEF SchedInv, OneAtWork
<1>3. job' = job /\ Files' = Files /\ Of("program")' = Of("program")
  BY <1>1, SameJob DEF Of, Kind
<1>4. /\ local \in L /\ ready \in Seq(Items) /\ members \subseteq Workers /\ commands \in Seq(Commands) /\ Loop \in Tasks
  BY <1>1, WorkersAssumption DEF TypeOK
<1>5. Listed(f) \in L
  <2> DEFINE rest == local[Loop].rv \ {f}
  <2>1. rest \in SUBSET Files
    BY <1>4 DEF Locals
  <2>2. Listed(f) = [local EXCEPT ![Loop].rv = rest]
    BY <1>4 DEF Listed
  <2> HIDE DEF rest, L
  <2>3. [local EXCEPT ![Loop].rv = rest] \in L
    BY <1>4, <2>1, LocalFiles DEF L
  <2>4. QED
    BY <2>2, <2>3
<1>6. SUFFICES /\ local' \in L /\ ready' \in Seq(Items) /\ worker' \in [Workers -> WorkerStates] /\ members' \subseteq Workers
               /\ commands' \in Seq(Commands)
  BY <1>1, <1>3 DEF TypeOK
<1> HIDE DEF L
<1>7. members' \subseteq Workers /\ wk \in [Workers -> WorkerStates] /\ wk[w].delay \in Nat
  BY <1>2, <1>4 DEF Worked, AlikeBut, WorkerStates
<1>8. CASE worker' = wk /\ local' = Listed(f) /\ UNCHANGED <<ready, commands>>
  BY <1>4, <1>5, <1>7, <1>8
<1>9. CASE /\ ~worker[w].closed /\ worker' = [wk EXCEPT ![w].closed = TRUE]
           /\ open_later(Listed(f), wk[w].delay) /\ commands' = Append(commands, Close(w))
  <2>1. w \in Live /\ sch.task \notin Of("retry")
    BY <1>1, <1>2, <1>9 DEF Live, Worked, Runs, Of
  <2>2. PICK u \in Of("retry") : local[u].st = "done"
    BY <1>1, <2>1, FreeRetry
  <2>3. Listed(f)[u].st = "done"
    <3>1. u \in Tasks /\ u # Loop
      BY <1>1 DEF Of
    <3>2. QED
      BY <1>4, <2>2, <3>1 DEF Listed, L
  <2>4. PICK t \in Of("retry") : SetsUp(Listed(f), t, wk[w].delay)
    BY <1>7, <1>9, <2>2, <2>3, OpensLater
  <2>5. local' \in L /\ ready' \in Seq(Items)
    BY <1>1, <1>5, <2>4, SetUpTypes DEF L
  <2>6. worker' \in [Workers -> WorkerStates]
    BY <1>7, <1>9, WorkersKept
  <2>7. commands' \in Seq(Commands)
    <3>1. Close(w) \in Commands
      BY DEF Commands, Close
    <3>2. QED
      BY <1>4, <1>9, <3>1
  <2>8. QED
    BY <1>7, <2>5, <2>6, <2>7
<1>10. QED
  BY <1>2, <1>8, <1>9 DEF Worked

\* ... by CallLaterTask.
LEMMA CallerTypes ==
  ASSUME TypeOK, CallerStep
  PROVE  TypeOK'
<1> DEFINE L == [Tasks -> Locals(Files)]
<1> USE DEF schedulerVars, syncVars
<1>1. /\ job' = job /\ Files' = Files /\ Of("program")' = Of("program")
      /\ UNCHANGED <<about, hub, entries, thread, worker, members, commands, lock, waiter, blocked>>
  BY SameJob DEF CallerStep, CallerSelects, CallerPongs, CallerPops, OthersWait, hubVars, ioVars, Of, Kind
<1>2. /\ local \in L /\ SchOK(sch) /\ ready \in Seq(Items) /\ incoming \in Seq(Requests(Files)) /\ Caller \in Tasks
      /\ calls = [started |-> calls.started, queue |-> calls.queue] /\ calls.started \in BOOLEAN
  BY TasksAssumption DEF TypeOK
<1>3. SUFFICES /\ local' \in L /\ ready' \in Seq(Items) /\ incoming' \in Seq(Requests(Files)) /\ SchOK(sch')
               /\ calls' = [started |-> calls'.started, queue |-> calls'.queue] /\ calls'.started \in BOOLEAN
  BY <1>1 DEF TypeOK
<1> HIDE DEF L
<1>4. CASE CallerSelects
  <2> DEFINE i == 2
  <2>1. /\ i \in Nat \ {0} /\ local' = [local EXCEPT ![Caller].st = "live", ![Caller].at = i]
        /\ registerSelect(Caller, {CallPinger}, Forever) /\ UNCHANGED calls
    BY <1>4 DEF CallerSelects
  <2> HIDE DEF i
  <2>2. local' \in L
    BY <1>2, <2>1, LocalAt DEF L
  <2>3. {CallPinger} \in SUBSET Files /\ Forever \in 0 .. Forever
    BY TasksAssumption DEF Files, Forever
  <2>4. QED
    BY <1>2, <2>1, <2>2, <2>3, SliceTypes
<1>5. CASE CallerPongs
  <2> DEFINE i == 3
  <2>1. i \in Nat \ {0} /\ local' = [local EXCEPT ![Caller].at = i] /\ UNCHANGED <<ready, sch, incoming, calls>>
    BY <1>5 DEF CallerPongs
  <2> HIDE DEF i
  <2>2. local' \in L
    BY <1>2, <2>1, LocalAt DEF L
  <2>3. QED
    BY <1>2, <2>1, <2>2
<1>6. CASE CallerPops
  <2> DEFINE b == sch.quit \/ Head(calls.queue) = "quit"
  <2>1. /\ b \in BOOLEAN /\ sch' = [sch EXCEPT !.quit = b] /\ calls' = [calls EXCEPT !.queue = Tail(@)]
        /\ UNCHANGED <<local, ready, incoming>>
    BY <1>6 DEF CallerPops
  <2> HIDE DEF b
  <2>2. SchOK(sch')
    BY <1>2, <2>1, SlicesKept
  <2>3. calls' = [started |-> calls'.started, queue |-> calls'.queue] /\ calls'.started = calls.started
    BY <1>2, <2>1
  <2>4. QED
    BY <1>2, <2>1, <2>2, <2>3
<1>7. QED
  BY <1>4, <1>5, <1>6 DEF CallerStep

\* ... by timers that open a worker.
LEMMA BeginTypes ==
  ASSUME TypeOK, NEW t \in Tasks, BeginStep(t)
  PROVE  TypeOK'
<1> DEFINE L == [Tasks -> Locals(Files)]
<1> USE DEF schedulerVars, syncVars
<1>1. /\ job' = job /\ Files' = Files /\ Of("program")' = Of("program")
      /\ UNCHANGED <<about, sch, hub, entries, incoming, thread, members, lock, waiter, blocked>>
  BY SameJob DEF BeginStep, Begins, OthersWait, hubVars, Of, Kind
<1>2. /\ local \in L /\ ready \in Seq(Items) /\ Caller \in Tasks /\ worker \in [Workers -> WorkerStates]
      /\ commands \in Seq(Commands) /\ calls = [started |-> calls.started, queue |-> calls.queue] /\ calls.started \in BOOLEAN
  BY TasksAssumption DEF TypeOK
<1>3. SUFFICES /\ local' \in L /\ ready' \in Seq(Items) /\ worker' \in [Workers -> WorkerStates] /\ commands' \in Seq(Commands)
               /\ calls' = [started |-> calls'.started, queue |-> calls'.queue] /\ calls'.started \in BOOLEAN
  BY <1>1 DEF TypeOK
<1>4. local[t].arg \in Nat
  BY <1>2 DEF Locals
<1> HIDE DEF L
<1>5. local' \in L
  <2> DEFINE i == 3
             zero == 0
  <2>1. i \in Nat \ {0} /\ local' = [local EXCEPT ![t].at = i, ![t].since = 0]
    BY DEF BeginStep, Begins
  <2> HIDE DEF i
  <2>2. QED
    BY <1>2, <2>1, LocalAt DEF L
<1>6. PICK w \in Unused :
        \/ /\ worker' = [worker EXCEPT ![w] = [NoWorker EXCEPT !.st = "open", !.sock = "syn", !.connecting = TRUE,
                                                              !.delay = local[t].arg]]
           /\ commands' = Append(commands, Add(w)) /\ UNCHANGED <<calls, ready>>
        \/ /\ worker' = [worker EXCEPT ![w] = [NoWorker EXCEPT !.st = "failed", !.delay = local[t].arg]]
           /\ calls' = [started |-> TRUE, queue |-> Append(calls.queue, "lost")]
           /\ (IF calls.started THEN UNCHANGED <<ready, event>> ELSE schedule(Caller)) /\ UNCHANGED commands
  BY DEF BeginStep, Begins, Add
<1>7. w \in Workers
  BY DEF Unused, Names
<1>8. CASE /\ worker' = [worker EXCEPT ![w] = [NoWorker EXCEPT !.st = "open", !.sock = "syn", !.connecting = TRUE,
                                                              !.delay = local[t].arg]]
           /\ commands' = Append(commands, Add(w)) /\ UNCHANGED <<calls, ready>>
  <2>1. [NoWorker EXCEPT !.st = "open", !.sock = "syn", !.connecting = TRUE, !.delay = local[t].arg] \in WorkerStates
    BY <1>4 DEF NoWorker, WorkerStates
  <2>2. Add(w) \in Commands
    BY <1>7 DEF Commands, Add
  <2>3. worker' \in [Workers -> WorkerStates]
    BY <1>2, <1>7, <1>8, <2>1
  <2>4. commands' \in Seq(Commands)
    BY <1>2, <1>8, <2>2
  <2>5. QED
    BY <1>2, <1>5, <1>8, <2>3, <2>4
<1>9. CASE /\ worker' = [worker EXCEPT ![w] = [NoWorker EXCEPT !.st = "failed", !.delay = local[t].arg]]
           /\ calls' = [started |-> TRUE, queue |-> Append(calls.queue, "lost")]
           /\ (IF calls.started THEN UNCHANGED <<ready, event>> ELSE schedule(Caller)) /\ UNCHANGED commands
  <2>1. [NoWorker EXCEPT !.st = "failed", !.delay = local[t].arg] \in WorkerStates
    BY <1>4 DEF NoWorker, WorkerStates
  <2>2. worker' \in [Workers -> WorkerStates]
    BY <1>2, <1>7, <1>9, <2>1
  <2>3. ready' = ready \/ schedule(Caller)
    BY <1>9
  <2>4. ready' \in Seq(Items)
    BY <1>2, <2>3, SliceTypes
  <2>5. QED
    BY <1>2, <1>5, <1>9, <2>2, <2>4
<1>10. QED
  BY <1>6, <1>8, <1>9

\* ... by the report of an attempt that failed.
LEMMA LostTypes ==
  ASSUME SchedInv, LostStep
  PROVE  TypeOK'
<1> DEFINE L == [Tasks -> Locals(Files)]
<1>1. /\ TypeOK /\ OneWorks /\ RetriesOK /\ CommandsOK(worker, commands, members)
      /\ UNCHANGED <<about, sch, hub, entries, incoming, thread, members, commands, lock, waiter, blocked>>
      /\ Runs(sch, Caller) /\ Kind(Caller) = "caller" /\ calls' = [calls EXCEPT !.queue = Tail(@)]
  BY DEF SchedInv, OneAtWork, LostStep, CallerLost, OthersWait, hubVars, Runs, Running
<1>2. job' = job /\ Files' = Files /\ Of("program")' = Of("program")
  BY <1>1, SameJob DEF Of, Kind
<1>3. /\ local \in L /\ worker \in [Workers -> WorkerStates]
      /\ calls = [started |-> calls.started, queue |-> calls.queue] /\ calls.started \in BOOLEAN
  BY <1>1 DEF TypeOK
<1>4. PICK w \in Workers : /\ worker[w].st = "failed" /\ open_later(local, worker[w].delay)
                           /\ worker' = [worker EXCEPT ![w] = NoWorker]
  BY DEF LostStep, CallerLost
<1>5. w \in Live /\ sch.task \notin Of("retry")
  BY <1>1, <1>4 DEF Live, CommandsOK, Runs, Of
<1>6. PICK t \in Of("retry") : SetsUp(local, t, worker[w].delay)
  <2>1. worker[w].delay \in Nat
    BY <1>3 DEF WorkerStates
  <2>2. \E t \in Of("retry") : local[t].st = "done"
    BY <1>1, <1>5, FreeRetry
  <2>3. QED
    BY <1>4, <2>1, <2>2, OpensLater
<1>7. local' \in L /\ ready' \in Seq(Items)
  BY <1>1, <1>3, <1>6, SetUpTypes
<1>8. worker' \in [Workers -> WorkerStates]
  BY <1>3, <1>4, WorkersKept
<1>9. calls' = [started |-> calls'.started, queue |-> calls'.queue] /\ calls'.started = calls.started
  BY <1>1, <1>3
<1>10. QED
  BY <1>1, <1>2, <1>3, <1>7, <1>8, <1>9 DEF TypeOK

\* ... by the loop between its workers.
LEMMA LoopTypes ==
  ASSUME TypeOK, LoopStep
  PROVE  TypeOK'
<1> DEFINE L == [Tasks -> Locals(Files)]
<1> USE DEF schedulerVars, syncVars, ioVars
<1>1. /\ job' = job /\ Files' = Files /\ Of("program")' = Of("program")
      /\ UNCHANGED <<about, hub, entries, thread, lock, waiter, calls, blocked>>
  BY SameJob DEF LoopStep, LoopCommands, LoopSelects, LoopPongs, Keeps, OthersWait, hubVars, Of, Kind
<1>2. /\ local \in L /\ SchOK(sch) /\ ready \in Seq(Items) /\ incoming \in Seq(Requests(Files)) /\ Loop \in Tasks
      /\ worker \in [Workers -> WorkerStates] /\ members \subseteq Workers /\ commands \in Seq(Commands)
  BY WorkersAssumption DEF TypeOK
<1>3. SUFFICES /\ local' \in L /\ ready' \in Seq(Items) /\ incoming' \in Seq(Requests(Files)) /\ SchOK(sch')
               /\ worker' \in [Workers -> WorkerStates] /\ members' \subseteq Workers /\ commands' \in Seq(Commands)
  BY <1>1 DEF TypeOK
<1> HIDE DEF L
<1>4. CASE LoopCommands
  <2>1. Head(commands) \in Commands /\ Tail(commands) \in Seq(Commands)
    <3>1. commands # <<>>
      BY <1>4 DEF LoopCommands
    <3>2. QED
      BY <1>2, <3>1, Tailed
  <2>2. Head(commands).w \in Workers
    BY <2>1 DEF Commands
  <2>3. commands' = Tail(commands) /\ UNCHANGED <<local, ready, sch, incoming>>
    BY <1>4 DEF LoopCommands
  <2>4. \/ members' = members \union {Head(commands).w} /\ worker' = worker
        \/ members' = members \ {Head(commands).w} /\ worker' = [worker EXCEPT ![Head(commands).w] = NoWorker]
    BY <1>4 DEF LoopCommands
  <2>5. worker' \in [Workers -> WorkerStates] /\ members' \subseteq Workers
    <3>1. NoWorker \in WorkerStates
      BY <1>2, <2>2, WorkersKept
    <3>2. QED
      BY <1>2, <2>2, <2>4, <3>1
  <2>6. QED
    BY <1>2, <2>1, <2>3, <2>5
<1>5. CASE LoopSelects
  <2> DEFINE files == Ping \union {Readable(w) : w \in members} \union {Writable(w) : w \in {m \in members : ready_to_send(m)}}
             live == "live"
  <2>1. /\ local' = [local EXCEPT ![Loop].st = live] /\ registerSelect(Loop, files, Forever)
        /\ UNCHANGED <<worker, members, commands>>
    BY <1>5 DEF LoopSelects
  <2>2. files \in SUBSET Files /\ Forever \in 0 .. Forever
    BY <1>2, TasksAssumption DEF Files, Ping, Forever
  <2>3. local' \in L
    BY <1>2, <2>1, LocalSt DEF L
  <2> HIDE DEF files
  <2>4. QED
    BY <1>2, <2>1, <2>2, <2>3, SliceTypes
<1>6. CASE LoopPongs
  <2> DEFINE rest == local[Loop].rv \ Ping
  <2>1. rest \in SUBSET Files
    BY <1>2 DEF Locals, L
  <2>2. local' = [local EXCEPT ![Loop].rv = rest] /\ UNCHANGED <<ready, sch, incoming, worker, members, commands>>
    BY <1>2, <1>6 DEF LoopPongs
  <2> HIDE DEF rest
  <2>3. local' \in L
    BY <1>2, <2>1, <2>2, LocalFiles DEF L
  <2>4. QED
    BY <1>2, <2>2, <2>3
<1>7. QED
  BY <1>4, <1>5, <1>6 DEF LoopStep

\* What the hub keeps.
LEMMA PassesKept ==
  ASSUME NEW h \in Passes(Files)
  PROVE  /\ \A pc \in {"scan", "select", "return", "set", "pong", "drain", "dead", "done"} : [h EXCEPT !.pc = pc] \in Passes(Files)
         /\ \A back \in SUBSET Tasks : [h EXCEPT !.back = back] \in Passes(Files)
         /\ \A got \in SUBSET Files : [h EXCEPT !.got = got] \in Passes(Files)
         /\ \A then \in {"select", "scan"} : [h EXCEPT !.then = then] \in Passes(Files)
         /\ \A left \in 0 .. Forever : [h EXCEPT !.left = left] \in Passes(Files)
<1>1. ASSUME NEW pc \in {"scan", "select", "return", "set", "pong", "drain", "dead", "done"}
      PROVE  [h EXCEPT !.pc = pc] \in Passes(Files)
  BY DEF Passes
<1>2. ASSUME NEW back \in SUBSET Tasks PROVE [h EXCEPT !.back = back] \in Passes(Files)
  BY DEF Passes
<1>3. ASSUME NEW got \in SUBSET Files PROVE [h EXCEPT !.got = got] \in Passes(Files)
  BY DEF Passes
<1>4. ASSUME NEW then \in {"select", "scan"} PROVE [h EXCEPT !.then = then] \in Passes(Files)
  BY DEF Passes
<1>5. ASSUME NEW left \in 0 .. Forever PROVE [h EXCEPT !.left = left] \in Passes(Files)
  BY DEF Passes
<1>6. QED
  BY <1>1, <1>2, <1>3, <1>4, <1>5

\* What a select that has found files leaves.
LEMMA Found ==
  ASSUME NEW h \in Passes(Files), NEW pc \in {"pong", "return"}, NEW got \in SUBSET Files,
         NEW back \in SUBSET Tasks
  PROVE  [h EXCEPT !.pc = pc, !.got = got, !.back = back, !.then = "scan"] \in Passes(Files)
<1> DEFINE a == [h EXCEPT !.pc = pc]
           b == [a EXCEPT !.got = got]
           c == [b EXCEPT !.back = back]
<1>1. a \in Passes(Files)
  BY PassesKept
<1>2. [h EXCEPT !.pc = pc, !.got = got, !.back = back, !.then = "scan"] = [c EXCEPT !.then = "scan"]
  OBVIOUS
<1> HIDE DEF a
<1>3. b \in Passes(Files)
  BY <1>1, PassesKept
<1> HIDE DEF b
<1>4. c \in Passes(Files)
  BY <1>3, PassesKept
<1> HIDE DEF c
<1>5. QED
  BY <1>2, <1>4, PassesKept

\* One pass over what is in a request.
LEMMA TakesIn ==
  ASSUME TypeOK, hub.pc = "drain", Drain
  PROVE  /\ incoming' = <<>> /\ UNCHANGED <<io, event, ready, local>>
         /\ \/ hub' = [hub EXCEPT !.pc = "dead"] /\ UNCHANGED entries
               /\ (\/ \E t \in DOMAIN entries : Queued(incoming, t)
                   \/ Cardinality({i.task : i \in ToSet(incoming)}) < Len(incoming))
            \/ /\ hub' = [hub EXCEPT !.pc = IF hub.back = {} THEN "scan" ELSE "return"]
               /\ \A t : t \in DOMAIN entries' <=> t \in DOMAIN entries \/ Queued(incoming, t)
               /\ DOMAIN entries' \subseteq Tasks
               /\ entries' = [t \in DOMAIN entries' |-> entries'[t]]
               /\ \A t \in DOMAIN entries : ~Queued(incoming, t) => entries'[t] = entries[t]
               /\ \A t : Queued(incoming, t) =>
                    \E i \in DOMAIN incoming : /\ incoming[i].task = t
                                               /\ entries'[t] = [files |-> incoming[i].files, left |-> incoming[i].left]
<1> DEFINE new == {i.task : i \in ToSet(incoming)}
           of(t) == CHOOSE i \in ToSet(incoming) : i.task = t
           es == [t \in DOMAIN entries \union new |->
                    IF t \in new THEN [files |-> of(t).files, left |-> of(t).left] ELSE entries[t]]
<1>1. incoming \in Seq(Requests(Files)) /\ DOMAIN entries \subseteq Tasks
  BY DEF TypeOK
<1>2. \A t : t \in new <=> Queued(incoming, t)
  BY DEF ToSet, Queued
<1>3. \A i \in DOMAIN incoming : incoming[i] \in Requests(Files)
  BY <1>1
<1>4. \A t : Queued(incoming, t) => t \in Tasks
  BY <1>3 DEF Queued, Requests
<1>5. \A t \in new : \E i \in DOMAIN incoming : incoming[i].task = t /\ of(t) = incoming[i]
  <2>1. ASSUME NEW t \in new PROVE of(t) \in ToSet(incoming) /\ of(t).task = t
    <3>1. \E i \in ToSet(incoming) : i.task = t
      OBVIOUS
    <3>2. QED
      BY <3>1
  <2>2. QED
    BY <2>1 DEF ToSet
<1>6. incoming' = <<>> /\ UNCHANGED <<io, event, ready, local>>
  BY DEF Drain
<1>7. \/ /\ hub' = [hub EXCEPT !.pc = "dead"] /\ UNCHANGED entries
         /\ new \intersect DOMAIN entries # {} \/ Cardinality(new) < Len(incoming)
      \/ /\ hub' = [hub EXCEPT !.pc = IF hub.back = {} THEN "scan" ELSE "return"] /\ entries' = es
  BY DEF Drain
<1>8. CASE /\ hub' = [hub EXCEPT !.pc = "dead"] /\ UNCHANGED entries
           /\ new \intersect DOMAIN entries # {} \/ Cardinality(new) < Len(incoming)
  BY <1>2, <1>6, <1>8
<1>9. CASE hub' = [hub EXCEPT !.pc = IF hub.back = {} THEN "scan" ELSE "return"] /\ entries' = es
  <2> HIDE DEF of
  <2>1. DOMAIN entries' = DOMAIN entries \union new /\ entries' = [t \in DOMAIN entries' |-> entries'[t]]
    BY <1>9
  <2>2. \A t \in new : entries'[t] = [files |-> of(t).files, left |-> of(t).left]
    BY <1>9
  <2>3. \A t \in DOMAIN entries : t \notin new => entries'[t] = entries[t]
    BY <1>9
  <2> HIDE DEF new, es
  <2>4. \A t : t \in DOMAIN entries' <=> t \in DOMAIN entries \/ Queued(incoming, t)
    BY <1>2, <2>1
  <2>5. DOMAIN entries' \subseteq Tasks
    BY <1>1, <1>4, <2>4
  <2>6. \A t : Queued(incoming, t) =>
          \E i \in DOMAIN incoming : /\ incoming[i].task = t
                                     /\ entries'[t] = [files |-> incoming[i].files, left |-> incoming[i].left]
    BY <1>2, <1>5, <2>2
  <2>7. QED
    BY <1>2, <1>6, <1>9, <2>1, <2>3, <2>4, <2>5, <2>6
<1>10. QED
  BY <1>7, <1>8, <1>9

\* TypeOK is kept by the hub.
LEMMA HubTypes ==
  ASSUME TypeOK, HubOK(hub, entries), Hub
  PROVE  TypeOK'
<1> USE DEF schedulerVars, syncVars, ioVars, threadVars
<1>1. /\ job' = job /\ Files' = Files /\ Of("program")' = Of("program")
      /\ UNCHANGED <<about, sch, lock, waiter, calls, blocked, thread, worker, members, commands>>
  BY SameJob DEF Hub, Of, Kind
<1>2. /\ local \in [Tasks -> Locals(Files)] /\ ready \in Seq(Items) /\ incoming \in Seq(Requests(Files))
      /\ DOMAIN entries \subseteq Tasks /\ entries \in [DOMAIN entries -> Waits(Files)] /\ hub \in Passes(Files)
  BY DEF TypeOK
<1>3. SUFFICES /\ local' \in [Tasks -> Locals(Files)] /\ ready' \in Seq(Items) /\ incoming' \in Seq(Requests(Files))
               /\ DOMAIN entries' \subseteq Tasks /\ entries' \in [DOMAIN entries' -> Waits(Files)] /\ hub' \in Passes(Files)
  BY <1>1 DEF TypeOK
<1>4. /\ hub.back \subseteq DOMAIN entries /\ hub.got \in SUBSET Files /\ hub.then \in {"select", "scan"}
      /\ hub.pc = "select" => IF hub.due = Nobody THEN hub.left = Forever ELSE hub.due \in DOMAIN entries
  BY <1>2 DEF HubOK, Passes
<1>5. CASE Scan
  <2>1. UNCHANGED <<entries, incoming, ready, local>>
    BY <1>5 DEF Scan
  <2>2. CASE hub' = [hub EXCEPT !.pc = "done"]
    BY <1>2, <2>1, <2>2, PassesKept
  <2>3. CASE hub' # [hub EXCEPT !.pc = "done"]
    <3> DEFINE others == Without(entries, Expired)
               soonest == {t \in Timed(others) : \A u \in Timed(others) : others[t].left <= others[u].left}
    <3>1. PICK due \in IF Timed(others) = {} THEN {Nobody} ELSE soonest :
            hub' = [pc |-> IF Expired = {} THEN "select" ELSE "return", back |-> Expired, got |-> None, due |-> due,
                    then |-> "select", left |-> IF due = Nobody THEN Forever ELSE others[due].left]
      BY <1>5, <2>3 DEF Scan
    <3>2. Expired \subseteq Tasks /\ Forever \in 0 .. Forever
      BY <1>2, TasksAssumption DEF Expired, Forever
    <3>3. due \in Tasks \union {Nobody} /\ (due # Nobody => others[due].left \in 0 .. Forever)
      <4>1. DOMAIN others \subseteq DOMAIN entries /\ \A u \in DOMAIN others : others[u] = entries[u]
        BY DEF Without
      <4>2. due # Nobody => due \in DOMAIN others
        BY DEF Timed
      <4>3. \A u \in DOMAIN entries : entries[u].left \in 0 .. Forever
        BY <1>2 DEF Waits
      <4> HIDE DEF others
      <4>4. QED
        BY <1>2, <4>1, <4>2, <4>3
    <3> HIDE DEF others, soonest
    <3>4. hub' \in Passes(Files)
      BY <3>1, <3>2, <3>3 DEF Passes, None
    <3>5. QED
      BY <1>2, <2>1, <3>4
  <2>4. QED
    BY <2>2, <2>3
<1>6. CASE Select
  <2> DEFINE found == (Asked(entries) \union {HubPinger}) \intersect io
             got == found \ {HubPinger}
             pc == IF HubPinger \in found THEN "pong" ELSE "return"
  <2>1. UNCHANGED <<entries, incoming, ready, local>>
    BY <1>6 DEF Select
  <2>2. got \in SUBSET Files /\ pc \in {"pong", "return"} /\ OwnersOf(entries, got) \in SUBSET Tasks
    <3>1. Asked(entries) \subseteq Files
      BY <1>2 DEF Asked, Waits
    <3>2. QED
      BY <1>2, <3>1 DEF OwnersOf
  <2>3. \/ hub' = [hub EXCEPT !.pc = pc, !.got = got, !.back = OwnersOf(entries, got), !.then = "scan"]
        \/ hub.left = 0 /\ hub' = [hub EXCEPT !.pc = "return", !.got = None, !.back = {hub.due}, !.then = "scan"]
    BY <1>6 DEF Select
  <2>4. CASE hub' = [hub EXCEPT !.pc = pc, !.got = got, !.back = OwnersOf(entries, got), !.then = "scan"]
    <3> DEFINE back == OwnersOf(entries, got)
    <3>1. back \in SUBSET Tasks
      BY <2>2
    <3> HIDE DEF got, pc, found, back
    <3>2. hub' \in Passes(Files)
      BY <1>2, <2>2, <2>4, <3>1, Found DEF back
    <3>3. QED
      BY <1>2, <2>1, <3>2
  <2>5. CASE hub.left = 0 /\ hub' = [hub EXCEPT !.pc = "return", !.got = None, !.back = {hub.due}, !.then = "scan"]
    <3> DEFINE back == {hub.due}
               p == "return"
               n == None
    <3>1. back \in SUBSET Tasks /\ p \in {"pong", "return"} /\ n \in SUBSET Files
      <4>1. Forever # 0
        BY TasksAssumption DEF Forever
      <4>2. hub.pc = "select"
        BY <1>6 DEF Select
      <4>3. QED
        BY <1>2, <1>4, <2>5, <4>1, <4>2 DEF None
    <3>2. hub' = [hub EXCEPT !.pc = p, !.got = n, !.back = back, !.then = "scan"]
      BY <2>5
    <3> HIDE DEF back, p, n
    <3>3. hub' \in Passes(Files)
      BY <1>2, <3>1, <3>2, Found
    <3>4. QED
      BY <1>2, <2>1, <3>3
  <2>6. QED
    BY <2>3, <2>4, <2>5
<1>7. CASE pongAll
  BY <1>2, <1>7, PassesKept DEF pongAll
<1>8. CASE Drain
  <2>1. hub.pc = "drain"
    BY <1>8 DEF Drain
  <2>2. incoming' \in Seq(Requests(Files)) /\ UNCHANGED <<ready, local>>
    BY <1>8, <2>1, TakesIn
  <2>3. hub' \in Passes(Files)
    BY <1>2, <1>8, <2>1, TakesIn, PassesKept
  <2>4. CASE UNCHANGED entries
    BY <1>2, <2>2, <2>3, <2>4
  <2>5. CASE ~UNCHANGED entries
    <3>1. /\ \A t : t \in DOMAIN entries' <=> t \in DOMAIN entries \/ Queued(incoming, t)
          /\ DOMAIN entries' \subseteq Tasks
          /\ entries' = [t \in DOMAIN entries' |-> entries'[t]]
          /\ \A t \in DOMAIN entries : ~Queued(incoming, t) => entries'[t] = entries[t]
          /\ \A t : Queued(incoming, t) =>
               \E i \in DOMAIN incoming : /\ incoming[i].task = t
                                          /\ entries'[t] = [files |-> incoming[i].files, left |-> incoming[i].left]
      BY <1>8, <2>1, <2>5, TakesIn
    <3>2. \A i \in DOMAIN incoming : [files |-> incoming[i].files, left |-> incoming[i].left] \in Waits(Files)
      <4>1. \A i \in DOMAIN incoming : incoming[i] \in Requests(Files)
        BY <1>2
      <4>2. \A r \in Requests(Files) : [files |-> r.files, left |-> r.left] \in Waits(Files)
        BY DEF Requests, Waits
      <4>3. QED
        BY <4>1, <4>2
    <3>3. ASSUME NEW t \in DOMAIN entries' PROVE entries'[t] \in Waits(Files)
      <4>1. CASE Queued(incoming, t)
        BY <3>1, <3>2, <4>1
      <4>2. CASE ~Queued(incoming, t)
        BY <1>2, <3>1, <4>2
      <4>3. QED
        BY <4>1, <4>2
    <3>4. entries' \in [DOMAIN entries' -> Waits(Files)]
      BY <3>1, <3>3
    <3>5. QED
      BY <1>2, <2>2, <2>3, <3>1, <3>4
  <2>6. QED
    BY <2>4, <2>5
<1>9. CASE Return
  <2>1. PICK t \in hub.back :
          /\ entries' = Without(entries, {t}) /\ incoming' = incoming
          /\ local' = [local EXCEPT ![t].rv = hub.got \intersect entries[t].files]
          /\ \/ hub' = [hub EXCEPT !.pc = "dead"] /\ UNCHANGED ready
             \/ ready' = Append(ready, Item(t)) /\ hub' = [hub EXCEPT !.pc = "set", !.back = @ \ {t}]
    BY <1>9 DEF Return
  <2>2. t \in Tasks
    BY <1>2, <1>4
  <2>3. local' \in [Tasks -> Locals(Files)]
    <3> DEFINE rv == hub.got \intersect entries[t].files
    <3>1. rv \in SUBSET Files
      BY <1>4
    <3> HIDE DEF rv
    <3>2. QED
      BY <1>2, <2>1, <2>2, <3>1, LocalFiles DEF rv
  <2>4. DOMAIN entries' \subseteq Tasks /\ entries' \in [DOMAIN entries' -> Waits(Files)]
    BY <1>2, <2>1 DEF Without
  <2>5. ready' \in Seq(Items)
    BY <1>2, <2>1, <2>2, MadeReady
  <2>6. hub' \in Passes(Files)
    <3> DEFINE back == hub.back \ {t}
               a == [hub EXCEPT !.pc = "set"]
    <3>1. back \in SUBSET Tasks
      BY <1>2, <1>4
    <3>2. a \in Passes(Files) /\ [hub EXCEPT !.pc = "dead"] \in Passes(Files)
      BY <1>2, PassesKept
    <3>3. [hub EXCEPT !.pc = "set", !.back = @ \ {t}] = [a EXCEPT !.back = back]
      BY <1>2 DEF Passes
    <3> HIDE DEF a, back
    <3>4. [a EXCEPT !.back = back] \in Passes(Files)
      BY <3>1, <3>2, PassesKept
    <3>5. QED
      BY <2>1, <3>2, <3>3, <3>4
  <2>7. QED
    BY <1>2, <2>1, <2>3, <2>4, <2>5, <2>6
<1>10. CASE break_idle
  <2> DEFINE pc == IF hub.back = {} THEN hub.then ELSE "return"
  <2>1. pc \in {"scan", "select", "return", "set", "pong", "drain", "dead", "done"}
    BY <1>4
  <2>2. hub' = [hub EXCEPT !.pc = pc] /\ UNCHANGED <<entries, incoming, ready, local>>
    BY <1>10 DEF break_idle
  <2> HIDE DEF pc
  <2>3. QED
    BY <1>2, <2>1, <2>2, PassesKept
<1>11. QED
  BY <1>5, <1>6, <1>7, <1>8, <1>9, <1>10 DEF Hub, HubStep

\* The operation of a thread.
LEMMA NextStep ==
  ASSUME TypeOK, NEW f \in Threads, thread[f].at <= Len(job.code[f])
  PROVE  /\ <<f, thread[f].at>> \in Steps(job) /\ At(job, <<f, thread[f].at>>) = NextOp(f) /\ Fits(job, <<f, thread[f].at>>)
         /\ thread[f].at \in DOMAIN job.code[f]
<1>1. Disciplined(job)
  BY JobOK
<1>2. thread[f].at \in Nat \ {0}
  BY DEF TypeOK, Others
<1>3. thread[f].at \in DOMAIN job.code[f]
  <2>1. Len(job.code[f]) \in Nat /\ DOMAIN job.code[f] = 1 .. Len(job.code[f])
    BY <1>1, StepsOf
  <2>2. QED
    BY <1>2, <2>1
<1>4. QED
  BY <1>1, <1>3, StepsOf DEF NextOp

\* What a thread still notifies.
LEMMA NotesKept ==
  ASSUME NEW th \in [Threads -> Others], NEW f \in Threads
  PROVE  /\ \A s \in Notes : [th EXCEPT ![f] = [at |-> @.at + 1, then |-> s]] \in [Threads -> Others]
         /\ \A s \in Notes : [th EXCEPT ![f].then = s] \in [Threads -> Others]
         /\ <<>> \in Notes /\ <<"set">> \in Notes /\ <<"check">> \in Notes
         /\ <<"queue", "ping">> \in Notes /\ <<"set", "queue", "ping">> \in Notes
         /\ th[f].then # <<>> => Tail(th[f].then) \in Notes
         /\ th[f].then # <<>> => /\ Head(th[f].then) \in {"check", "wake"} => Tail(th[f].then) = <<>>
                                 /\ Head(th[f].then) = "wake" <=> th[f].then = <<"wake">>
         /\ <<"wake">> \o <<>> = <<"wake">> /\ <<"set">> \o <<>> = <<"set">> /\ <<"wake">> \in Notes
         /\ th[f].then # <<>> => Tail(th[f].then) # <<"wake">>
<1>1. \A s \in Notes : [th EXCEPT ![f] = [at |-> @.at + 1, then |-> s]] \in [Threads -> Others]
  BY DEF Others
<1>2. \A s \in Notes : [th EXCEPT ![f].then = s] \in [Threads -> Others]
  BY DEF Others
<1>3. /\ <<>> \in Notes /\ <<"set">> \in Notes /\ <<"check">> \in Notes /\ <<"wake">> \in Notes
      /\ <<"queue", "ping">> \in Notes /\ <<"set", "queue", "ping">> \in Notes
  BY DEF Notes
<1>4. th[f].then \in Notes
  BY DEF Others
<1>5. /\ Head(<<"set">>) = "set" /\ Tail(<<"set">>) = <<>> /\ Head(<<"check">>) = "check" /\ Tail(<<"check">>) = <<>>
      /\ Head(<<"wake">>) = "wake" /\ Tail(<<"wake">>) = <<>> /\ Head(<<"ping">>) = "ping" /\ Tail(<<"ping">>) = <<>>
      /\ Head(<<"queue", "ping">>) = "queue" /\ Tail(<<"queue", "ping">>) = <<"ping">>
      /\ Head(<<"set", "queue", "ping">>) = "set" /\ Tail(<<"set", "queue", "ping">>) = <<"queue", "ping">>
  OBVIOUS
<1>6. <<"wake">> # <<"ping">> /\ <<"wake">> # <<>> /\ <<"wake">> # <<"queue", "ping">> /\ <<"wake">> # <<"check">> /\ <<"wake">> # <<"set">>
      /\ <<"wake">> # <<"set", "queue", "ping">>
  <2>1. Len(<<"wake">>) = 1 /\ Len(<<>>) = 0 /\ Len(<<"queue", "ping">>) = 2 /\ Len(<<"set", "queue", "ping">>) = 3
    OBVIOUS
  <2>2. <<"wake">>[1] = "wake" /\ <<"ping">>[1] = "ping" /\ <<"check">>[1] = "check" /\ <<"set">>[1] = "set"
    OBVIOUS
  <2>3. QED
    BY <2>1, <2>2
<1>7. <<"wake">> \o <<>> = <<"wake">> /\ <<"set">> \o <<>> = <<"set">>
  OBVIOUS
<1>8. th[f].then # <<>> => Tail(th[f].then) \in Notes /\ Tail(th[f].then) # <<"wake">>
  BY <1>4, <1>5, <1>6 DEF Notes
<1>9. th[f].then # <<>> => /\ Head(th[f].then) \in {"check", "wake"} => Tail(th[f].then) = <<>>
                           /\ Head(th[f].then) = "wake" <=> th[f].then = <<"wake">>
  BY <1>4, <1>5, <1>6 DEF Notes
<1>10. QED
  BY <1>1, <1>2, <1>3, <1>7, <1>8, <1>9

\* ... by the other threads.
LEMMA ThreadTypes ==
  ASSUME TypeOK, WaiterOK(job, waiter, thread), NEW f \in Threads, ThreadStep(f)
  PROVE  TypeOK'
<1> USE DEF schedulerVars, syncVars, ioVars, hubVars
<1>1. /\ job' = job /\ Files' = Files /\ Of("program")' = Of("program")
      /\ UNCHANGED <<about, sch, hub, entries, incoming, lock, blocked, worker, members, commands>>
  BY SameJob DEF ThreadStep, ThreadDoes, ThreadNotifies, Of, Kind
<1>2. /\ local \in [Tasks -> Locals(Files)] /\ ready \in Seq(Items) /\ waiter \in Waiters /\ thread \in [Threads -> Others]
      /\ calls = [started |-> calls.started, queue |-> calls.queue] /\ calls.started \in BOOLEAN /\ Caller \in Tasks
  BY TasksAssumption DEF TypeOK
<1>3. SUFFICES /\ local' \in [Tasks -> Locals(Files)] /\ ready' \in Seq(Items) /\ waiter' \in Waiters
               /\ thread' \in [Threads -> Others]
               /\ calls' = [started |-> calls'.started, queue |-> calls'.queue] /\ calls'.started \in BOOLEAN
  BY <1>1 DEF TypeOK
<1>4. /\ \A s \in Notes : Then(f, s) => thread' \in [Threads -> Others]
      /\ <<>> \in Notes /\ <<"set">> \in Notes /\ <<"check">> \in Notes
      /\ <<"queue", "ping">> \in Notes /\ <<"set", "queue", "ping">> \in Notes
  <2>1. ASSUME NEW s \in Notes, Then(f, s) PROVE thread' \in [Threads -> Others]
    BY <1>2, <2>1, NotesKept DEF Then
  <2>2. QED
    BY <1>2, <2>1, NotesKept
<1>5. \A v \in Waiters : [v EXCEPT !.events = @ + 1] \in Waiters
  BY DEF Waiters
<1>6. CASE ThreadDoes(f)
  <2> DEFINE o == NextOp(f)
  <2>1. /\ o.op = "start" => o.t \in Tasks /\ job.kind[o.t] \in {"program", "timer"}
        /\ o.op = "start" /\ job.kind[o.t] = "timer" => job.timer[o.t].interval \in 0 .. Forever
    <3>1. o.op = "start" => o.t \in Tasks /\ job.kind[o.t] \in {"program", "timer"}
      <4>1. thread[f].at <= Len(job.code[f])
        BY <1>6 DEF ThreadDoes
      <4>2. At(job, <<f, thread[f].at>>) = NextOp(f) /\ Fits(job, <<f, thread[f].at>>)
        BY <4>1, NextStep
      <4>3. QED
        BY <4>2 DEF Fits
    <3>2. o.op = "start" /\ job.kind[o.t] = "timer" => FitsTimer(job, o.t)
      BY <3>1, JobOK DEF Disciplined
    <3>3. QED
      BY <3>1, <3>2 DEF FitsTimer
  <2>2. CASE /\ o.op = "start" /\ local' = Started(local, o.t) /\ ready' = Append(ready, ScheduleTask(o.t))
             /\ Then(f, <<"set">>) /\ UNCHANGED <<waiter, calls>>
    <3>1. ready' \in Seq(Items)
      BY <1>2, <2>1, <2>2, ToldToWake
    <3>2. local' \in [Tasks -> Locals(Files)]
      <4>1. CASE job.kind[o.t] = "timer"
        <5> DEFINE n == job.timer[o.t].interval
        <5>1. n \in 0 .. Forever /\ local' = [local EXCEPT ![o.t].next = n, ![o.t].since = 0]
          BY <2>1, <2>2, <4>1 DEF Started, Kind
        <5> HIDE DEF n
        <5>2. QED
          BY <1>2, <2>1, <2>2, <5>1, LocalNext
      <4>2. CASE job.kind[o.t] # "timer"
        BY <1>2, <2>2, <4>2 DEF Started, Kind
      <4>3. QED
        BY <4>1, <4>2
    <3>3. QED
      BY <1>2, <1>4, <2>2, <3>1, <3>2
  <2>3. CASE /\ o.op = "call" /\ calls' = [calls EXCEPT !.started = TRUE]
             /\ ready' = IF calls.started THEN ready ELSE Append(ready, ScheduleTask(Caller))
             /\ Then(f, IF calls.started THEN <<"queue", "ping">> ELSE <<"set", "queue", "ping">>)
             /\ UNCHANGED <<local, waiter>>
    <3>1. ready' \in Seq(Items)
      BY <1>2, <2>3, ToldToWake
    <3>2. calls' = [started |-> calls'.started, queue |-> calls'.queue] /\ calls'.started = TRUE
      BY <1>2, <2>3
    <3>3. thread' \in [Threads -> Others]
      <4> DEFINE s == IF calls.started THEN <<"queue", "ping">> ELSE <<"set", "queue", "ping">>
      <4>1. s \in Notes /\ Then(f, s)
        BY <1>4, <2>3
      <4> HIDE DEF s
      <4>2. QED
        BY <1>4, <4>1
    <3>4. QED
      BY <1>2, <2>3, <3>1, <3>2, <3>3
  <2>4. CASE /\ o.op = "event" /\ waiter' = [waiter EXCEPT !.events = @ + 1] /\ Then(f, <<"check">>)
             /\ UNCHANGED <<local, ready, calls>>
    BY <1>2, <1>4, <1>5, <2>4
  <2>5. CASE Then(f, <<>>) /\ UNCHANGED <<local, ready, waiter, calls>>
    BY <1>2, <1>4, <2>5
  <2>6. QED
    BY <1>6, <2>2, <2>3, <2>4, <2>5 DEF ThreadDoes
<1>7. CASE ThreadNotifies(f)
  <2> DEFINE n == Head(thread[f].then)
             rest == Tail(thread[f].then)
             s == CASE n = "check" /\ CanWake -> <<"wake">> \o rest
                    [] n = "wake" -> <<"set">> \o rest
                    [] OTHER -> rest
             b == ~CanWake /\ waiter.wakeable
  <2>1. /\ thread[f].then # <<>> /\ thread' = [thread EXCEPT ![f].then = s] /\ local' = local
        /\ calls' = IF n = "queue" THEN [calls EXCEPT !.queue = Append(@, job.code[f][thread[f].at - 1].f)] ELSE calls
        /\ waiter' = IF n = "check" THEN [waiter EXCEPT !.wakeable = b] ELSE waiter
        /\ ready' = IF n = "wake" THEN Append(ready, ScheduleTask(waiter.task)) ELSE ready
    BY <1>7 DEF ThreadNotifies
  <2>2. s \in Notes
    <3>1. n \in {"check", "wake"} => rest = <<>>
      BY <1>2, <2>1, NotesKept
    <3>2. rest \in Notes
      BY <1>2, <2>1, NotesKept
    <3>3. <<"wake">> \o <<>> = <<"wake">> /\ <<"set">> \o <<>> = <<"set">> /\ <<"wake">> \in Notes /\ <<"set">> \in Notes
      BY <1>2, NotesKept
    <3> HIDE DEF n, rest
    <3>4. CASE n = "check" /\ CanWake
      BY <3>1, <3>3, <3>4
    <3>5. CASE n = "wake"
      BY <3>1, <3>3, <3>5
    <3>6. QED
      BY <3>2, <3>4, <3>5
  <2>3. n = "wake" => waiter.task \in Tasks
    <3>1. n = "wake" => thread[f].then = <<"wake">>
      BY <1>2, <2>1, NotesKept
    <3>2. QED
      BY <1>2, <3>1 DEF WaiterOK, Owes, Waiters
  <2>4. b \in BOOLEAN
    OBVIOUS
  <2>5. thread' \in [Threads -> Others]
    <3> HIDE DEF s
    <3>1. QED
      BY <1>2, <2>1, <2>2, NotesKept
  <2> HIDE DEF b, s, rest
  <2>6. waiter' \in Waiters
    BY <1>2, <2>1, <2>4, WaitersKept
  <2>7. ready' \in Seq(Items)
    BY <1>2, <2>1, <2>3, ToldToWake
  <2>8. calls' = [started |-> calls'.started, queue |-> calls'.queue] /\ calls'.started = calls.started
    BY <1>2, <2>1
  <2>9. QED
    BY <1>2, <2>1, <2>5, <2>6, <2>7, <2>8
<1>8. QED
  BY <1>6, <1>7 DEF ThreadStep

\* ... by the launch of the switch.
LEMMA LaunchTypes ==
  ASSUME TypeOK, NEW f \in Threads, Launches(f)
  PROVE  TypeOK'
<1>1. /\ job' = job /\ Files' = Files /\ Of("program")' = Of("program")
      /\ UNCHANGED <<about, local, sch, hub, entries, incoming, lock, waiter, calls, blocked, members>>
  BY SameJob DEF Launches, Of, Kind, hubVars, syncVars
<1>2. /\ ready \in Seq(Items) /\ thread \in [Threads -> Others] /\ Loop \in Tasks
      /\ worker \in [Workers -> WorkerStates] /\ commands \in Seq(Commands)
  BY WorkersAssumption DEF TypeOK
<1>3. PICK w \in Unused : /\ worker' = [worker EXCEPT ![w] = [NoWorker EXCEPT !.st = "open", !.sock = "syn", !.connecting = TRUE]]
                          /\ commands' = Append(commands, Add(w))
  BY DEF Launches, Add
<1>4. w \in Workers /\ Add(w) \in Commands
  BY DEF Unused, Names, Commands, Add
<1>5. worker' \in [Workers -> WorkerStates]
  <2>1. [NoWorker EXCEPT !.st = "open", !.sock = "syn", !.connecting = TRUE] \in WorkerStates
    BY DEF NoWorker, WorkerStates, Half
  <2>2. QED
    BY <1>2, <1>3, <1>4, <2>1
<1>6. ready' \in Seq(Items)
  BY <1>2, ToldToWake DEF Launches
<1>7. thread' \in [Threads -> Others]
  BY <1>2, NotesKept DEF Launches, Then
<1>8. commands' \in Seq(Commands)
  BY <1>2, <1>3, <1>4
<1>9. QED
  BY <1>1, <1>5, <1>6, <1>7, <1>8 DEF TypeOK

\* ... by time.
LEMMA TickTypes ==
  ASSUME TypeOK, Tick
  PROVE  TypeOK'
<1>1. /\ job' = job /\ Files' = Files /\ Of("program")' = Of("program")
      /\ UNCHANGED <<about, ready, sch, lock, waiter, calls, blocked, thread, worker, members, commands>>
  BY SameJob DEF Tick, Of, Kind, schedulerVars, syncVars, threadVars, ioVars
<1>2. /\ local \in [Tasks -> Locals(Files)] /\ incoming \in Seq(Requests(Files)) /\ hub \in Passes(Files)
      /\ DOMAIN entries \subseteq Tasks /\ entries \in [DOMAIN entries -> Waits(Files)]
  BY DEF TypeOK
<1>3. \A n \in 0 .. Forever : Less(n) \in 0 .. Forever
  BY TasksAssumption DEF Less, Forever
<1>4. local' \in [Tasks -> Locals(Files)]
  <2>1. ASSUME NEW t \in Tasks
        PROVE  [local[t] EXCEPT !.next = Less(@), !.since = IF Counts(t) THEN @ + 1 ELSE @] \in Locals(Files)
    <3> DEFINE r == local[t]
               n == Less(r.next)
               k == IF Counts(t) THEN r.since + 1 ELSE r.since
               a == [r EXCEPT !.next = n]
    <3>1. r \in Locals(Files) /\ n \in 0 .. Forever /\ k \in Nat
      BY <1>2, <1>3 DEF Locals
    <3>2. a \in Locals(Files)
      <4> HIDE DEF r, n
      <4>1. QED
        BY <3>1, RecordKept
    <3>3. [r EXCEPT !.next = Less(@), !.since = IF Counts(t) THEN @ + 1 ELSE @] = [a EXCEPT !.since = k]
      <4> HIDE DEF r
      <4>1. QED
        BY <3>1 DEF Locals
    <3> HIDE DEF k, a
    <3>4. [a EXCEPT !.since = k] \in Locals(Files)
      BY <3>1, <3>2, RecordKept
    <3>5. QED
      BY <3>3, <3>4
  <2>2. local' = [t \in Tasks |-> [local[t] EXCEPT !.next = Less(@), !.since = IF Counts(t) THEN @ + 1 ELSE @]]
    BY DEF Tick, Aged
  <2>3. QED
    BY <2>1, <2>2
<1>5. DOMAIN entries' = DOMAIN entries /\ entries' \in [DOMAIN entries -> Waits(Files)]
  <2>1. entries' = [t \in DOMAIN entries |-> [entries[t] EXCEPT !.left = Less(@)]]
    BY DEF Tick, Aged
  <2>2. \A r \in Waits(Files) : [r EXCEPT !.left = Less(@)] \in Waits(Files)
    BY <1>3 DEF Waits
  <2>3. QED
    BY <1>2, <2>1, <2>2
<1>6. incoming' \in Seq(Requests(Files))
  <2>1. incoming' = [i \in DOMAIN incoming |-> [incoming[i] EXCEPT !.left = Less(@)]]
    BY DEF Tick, Aged
  <2>2. \A r \in Requests(Files) : [r EXCEPT !.left = Less(@)] \in Requests(Files)
    BY <1>3 DEF Requests
  <2>3. DOMAIN incoming = 1 .. Len(incoming) /\ Len(incoming) \in Nat /\ \A i \in DOMAIN incoming : incoming[i] \in Requests(Files)
    BY <1>2
  <2>4. \A i \in 1 .. Len(incoming) : [incoming[i] EXCEPT !.left = Less(@)] \in Requests(Files)
    BY <2>2, <2>3
  <2>5. QED
    BY <2>1, <2>3, <2>4
<1>7. hub' \in Passes(Files)
  <2> DEFINE left == IF hub.pc = "select" THEN Less(hub.left) ELSE hub.left
  <2>1. left \in 0 .. Forever /\ hub' = [hub EXCEPT !.left = left]
    BY <1>2, <1>3 DEF Tick, Aged, Passes
  <2> HIDE DEF left
  <2>2. QED
    BY <1>2, <2>1, PassesKept
<1>8. QED
  BY <1>1, <1>2, <1>4, <1>5, <1>6, <1>7 DEF TypeOK

\* ... by the network.
LEMMA NetworkTypes ==
  ASSUME TypeOK, Answering \/ Network
  PROVE  TypeOK'
<1>1. /\ job' = job /\ Files' = Files /\ Of("program")' = Of("program")
      /\ UNCHANGED <<about, local, ready, sch, hub, entries, incoming, lock, waiter, calls, blocked, thread, members, commands>>
  BY SameJob DEF Answering, Answers, HangsUp, Network, Turns, Says, Quiet, Of, Kind, schedulerVars, hubVars,
     syncVars, threadVars
<1>2. worker \in [Workers -> WorkerStates]
  BY DEF TypeOK
<1>3. worker' \in [Workers -> WorkerStates]
  <2>1. CASE Answering
    <3>1. PICK w \in Workers, k \in {"ok", "refused", "eof"} : worker' = [worker EXCEPT ![w].sock = k]
      <4> DEFINE k == IF up THEN "ok" ELSE "refused"
      <4>1. CASE \E w \in Workers : Answers(w)
        <5>1. \E w \in Workers : worker' = [worker EXCEPT ![w].sock = k]
          BY <4>1 DEF Answers
        <5>2. k \in {"ok", "refused", "eof"}
          OBVIOUS
        <5> HIDE DEF k
        <5>3. QED
          BY <5>1, <5>2
      <4>2. CASE \E w \in Workers : HangsUp(w)
        BY <4>2 DEF HangsUp
      <4>3. QED
        BY <2>1, <4>1, <4>2 DEF Answering
    <3>2. QED
      BY <1>2, <3>1, WorkersKept
  <2>2. CASE \E w \in Workers : Says(w, "data") \/ Says(w, "eof")
    <3>1. PICK w \in Workers, k \in {"data", "eof"} : worker' = [worker EXCEPT ![w].sock = k]
      BY <2>2 DEF Says
    <3>2. QED
      BY <1>2, <3>1, WorkersKept
  <2>3. CASE Turns
    <3>1. worker' = [w \in Workers |-> IF up /\ worker[w].sock \in {"ok", "data"} THEN [worker[w] EXCEPT !.sock = "eof"] ELSE worker[w]]
      BY <2>3 DEF Turns
    <3>2. \A r \in WorkerStates : [r EXCEPT !.sock = "eof"] \in WorkerStates
      BY DEF WorkerStates
    <3>3. QED
      BY <1>2, <3>1, <3>2
  <2>4. QED
    BY <2>1, <2>2, <2>3 DEF Network
<1>4. QED
  BY <1>1, <1>3 DEF TypeOK

\* TypeOK is kept by every step.
LEMMA TypesKept ==
  ASSUME SchedInv, Next
  PROVE  TypeOK'
BY NextCases, ProgramTypes, SchedulerTypes, TimerTypes, CallerTypes, BeginTypes, LostTypes, LoopTypes,
   WorkTypes, ThreadTypes,
   LaunchTypes, HubTypes, TickTypes, NetworkTypes DEF SchedInv, Ordered

(* ------------------------ what becomes of tasks ------------------------ *)
LEMMA Scheduled ==
  ASSUME ready \in Seq(Items), Once(ready), NEW x \in Tasks, schedule(x)
  PROVE  /\ Once(ready') /\ \A u : HasItem(ready', u) <=> HasItem(ready, u) \/ u = x
         /\ \A u : Told(ready', u) <=> Told(ready, u)
<1>1. CASE IsReady(x)
  BY <1>1 DEF schedule, IsReady, HasItem
<1>2. CASE ~IsReady(x)
  <2>1. ready' = Append(ready, Item(x)) /\ ~HasItem(ready, x)
    BY <1>2 DEF schedule, fast_schedule, IsReady, HasItem
  <2>2. QED
    BY <2>1, MadeReady
<1>3. QED
  BY <1>1, <1>2

\* What a task does leaves where the others are in their code.
LEMMA DoLocal ==
  ASSUME TypeOK, NEW o, OpOK(o), NEW l \in [Tasks -> Locals(Files)], Do(o, l), NEW u \in Tasks
  PROVE  /\ local'[u].st = l[u].st /\ local'[u].at = l[u].at /\ local'[u].ok = l[u].ok /\ local'[u].rv = l[u].rv
         /\ Kind(u) # "timer" => local'[u] = l[u]
         /\ ~(o.op = "start" /\ o.t = u) => local'[u].next = l[u].next /\ local'[u].since = l[u].since
         /\ o.op = "start" /\ o.t = u /\ Kind(u) = "timer" => local'[u].next = job.timer[u].interval
         /\ ~(o.op = "cancel" /\ o.t = u) => local'[u].cancelled = l[u].cancelled
<1>1. l[u] \in Locals(Files)
  OBVIOUS
<1>2. CASE local' = l /\ o.op \notin {"start", "cancel"}
  BY <1>2
<1>3. CASE o.op = "start"
  <2>1. o.t \in Tasks /\ local' = Started(l, o.t)
    BY <1>3 DEF Do, OpOK
  <2>2. CASE Kind(o.t) # "timer"
    BY <1>3, <2>1, <2>2 DEF Started
  <2>3. CASE Kind(o.t) = "timer"
    <3> DEFINE n == job.timer[o.t].interval
               zero == 0
    <3>1. local' = [l EXCEPT ![o.t].next = n, ![o.t].since = zero]
      BY <2>1, <2>3 DEF Started
    <3> HIDE DEF n, zero
    <3>2. CASE o.t # u
      BY <1>3, <2>1, <3>1, <3>2
    <3>3. CASE o.t = u
      <4>1. local'[u] = [l[u] EXCEPT !.next = n, !.since = zero]
        BY <2>1, <3>1, <3>3
      <4>2. local'[u].next = n
        BY <1>1, <4>1 DEF Locals
      <4>3. /\ local'[u].st = l[u].st /\ local'[u].at = l[u].at /\ local'[u].ok = l[u].ok /\ local'[u].rv = l[u].rv
            /\ local'[u].cancelled = l[u].cancelled
        BY <1>1, <4>1 DEF Locals
      <4>4. QED
        BY <1>3, <2>3, <3>3, <4>2, <4>3 DEF n
    <3>4. QED
      BY <3>2, <3>3
  <2>4. QED
    BY <2>2, <2>3
<1>4. CASE o.op = "cancel"
  <2>1. o.t \in Tasks /\ Kind(o.t) = "timer" /\ local' = [l EXCEPT ![o.t].cancelled = TRUE]
    BY <1>4 DEF Do, OpOK
  <2>2. CASE o.t # u
    BY <1>4, <2>1, <2>2
  <2>3. CASE o.t = u
    <3>1. local'[u] = [l[u] EXCEPT !.cancelled = TRUE]
      BY <2>1, <2>3
    <3>2. QED
      BY <1>1, <1>4, <2>1, <2>3, <3>1 DEF Locals
  <2>4. QED
    BY <2>2, <2>3
<1>5. QED
  BY <1>2, <1>3, <1>4 DEF Do

\* A timer that is set up sleeps at its first place, and the other tasks keep what they have.
LEMMA SetUpLocal ==
  ASSUME NEW l \in [Tasks -> Locals(Files)], NEW t, NEW d, SetsUp(l, t, d)
  PROVE  /\ t \in Tasks /\ job.kind[t] = "retry" /\ l[t].st = "done"
         /\ local'[t].st = "asleep" /\ local'[t].at = 1 /\ ~local'[t].ok /\ ~local'[t].cancelled /\ local'[t].rv = None
         /\ local'[t].since = 0
         /\ \A u \in Tasks : u # t => local'[u] = l[u]
<1>1. t \in Tasks /\ job.kind[t] = "retry" /\ l[t].st = "done"
  BY DEF SetsUp, Of, Kind
<1>2. local' = [l EXCEPT ![t] = [Fresh EXCEPT !.next = Longer(d), !.arg = Longer(d)]]
  BY DEF SetsUp
<1>3. local'[t] = [Fresh EXCEPT !.next = Longer(d), !.arg = Longer(d)] /\ \A u \in Tasks : u # t => local'[u] = l[u]
  BY <1>1, <1>2
<1>4. /\ local'[t].st = "asleep" /\ local'[t].at = 1 /\ ~local'[t].ok /\ ~local'[t].cancelled /\ local'[t].rv = None
      /\ local'[t].since = 0
  BY <1>3 DEF Fresh
<1>5. QED
  BY <1>1, <1>3, <1>4

\* The loop has gone through one of its files.
LEMMA ListedLocal ==
  ASSUME TypeOK, NEW f
  PROVE  /\ Listed(f) \in [Tasks -> Locals(Files)] /\ \A u \in Tasks : u # Loop => Listed(f)[u] = local[u]
         /\ Listed(f)[Loop].rv = local[Loop].rv \ {f}
         /\ Listed(f)[Loop].st = local[Loop].st /\ Listed(f)[Loop].at = local[Loop].at /\ Listed(f)[Loop].ok = local[Loop].ok
<1> DEFINE L == [Tasks -> Locals(Files)]
           rest == local[Loop].rv \ {f}
<1>1. local \in L /\ Loop \in Tasks
  BY WorkersAssumption DEF TypeOK
<1>2. rest \in SUBSET Files
  BY <1>1 DEF Locals
<1>3. Listed(f) = [local EXCEPT ![Loop].rv = rest]
  BY <1>1 DEF Listed
<1>4. /\ Listed(f)[Loop] = [local[Loop] EXCEPT !.rv = rest]
      /\ \A u \in Tasks : u # Loop => Listed(f)[u] = local[u]
  BY <1>1, <1>3
<1>5. /\ Listed(f)[Loop].rv = rest
      /\ Listed(f)[Loop].st = local[Loop].st /\ Listed(f)[Loop].at = local[Loop].at /\ Listed(f)[Loop].ok = local[Loop].ok
  BY <1>1, <1>4 DEF Locals
<1> HIDE DEF rest, L
<1>6. [local EXCEPT ![Loop].rv = rest] \in L
  BY <1>1, <1>2, LocalFiles DEF L
<1>7. QED
  BY <1>3, <1>4, <1>5, <1>6 DEF L, rest

\* What a worker that is worked on comes to.
LEMMA WorkDone ==
  ASSUME SchedInv, NEW w \in Workers, WorkStep(w)
  PROVE  /\ UNCHANGED <<about, sch, hub, entries, incoming, lock, waiter, calls, blocked, thread>>
         /\ Runs(sch, Loop) /\ Kind(Loop) = "loop" /\ worker[w].st = "open" /\ members' \subseteq members
         /\ \E f, wk : /\ AlikeBut(wk)
                       /\ \/ worker' = wk /\ local' = Listed(f) /\ UNCHANGED <<ready, commands>>
                          \/ /\ w \in Live /\ worker' = [wk EXCEPT ![w].closed = TRUE]
                             /\ commands' = Append(commands, Close(w)) /\ \E t : SetsUp(Listed(f), t, wk[w].delay)
<1>1. /\ UNCHANGED <<about, sch, hub, entries, incoming, lock, waiter, calls, blocked, thread>>
      /\ Runs(sch, Loop) /\ Kind(Loop) = "loop" /\ TypeOK /\ OneWorks /\ RetriesOK
  BY WorksOn DEF SchedInv, OneAtWork
<1>2. PICK f, wk : Worked(w, f, wk)
  BY WorksOn DEF SchedInv, OneAtWork
<1>3. worker[w].st = "open" /\ AlikeBut(wk) /\ members' \subseteq members /\ wk[w].delay \in Nat
  BY <1>2 DEF Worked, AlikeBut, WorkerStates
<1>4. CASE worker' = wk /\ local' = Listed(f) /\ UNCHANGED <<ready, commands>>
  BY <1>1, <1>3, <1>4
<1>5. CASE /\ ~worker[w].closed /\ worker' = [wk EXCEPT ![w].closed = TRUE]
           /\ open_later(Listed(f), wk[w].delay) /\ commands' = Append(commands, Close(w))
  <2>1. w \in Live /\ sch.task \notin Of("retry")
    BY <1>1, <1>3, <1>5 DEF Live, Runs, Of
  <2>2. PICK u \in Of("retry") : local[u].st = "done"
    BY <1>1, <2>1, FreeRetry
  <2>3. Listed(f)[u].st = "done"
    <3>1. u \in Tasks /\ u # Loop
      BY <1>1 DEF Of
    <3>2. QED
      BY <1>1, <2>2, <3>1, ListedLocal
  <2>4. \E t \in Of("retry") : SetsUp(Listed(f), t, wk[w].delay)
    BY <1>3, <1>5, <2>2, <2>3, OpensLater
  <2>5. QED
    BY <1>1, <1>3, <1>5, <2>1, <2>4
<1>6. QED
  BY <1>2, <1>4, <1>5 DEF Worked

\* The report of an attempt that failed frees its worker and sets up a timer.
LEMMA LostDone ==
  ASSUME SchedInv, LostStep
  PROVE  /\ UNCHANGED <<about, sch, hub, entries, incoming, thread, members, commands, lock, waiter, blocked>>
         /\ Runs(sch, Caller) /\ Kind(Caller) = "caller" /\ calls'.started = calls.started
         /\ \E w \in Workers : /\ worker[w].st = "failed" /\ w \in Live /\ worker' = [worker EXCEPT ![w] = NoWorker]
                               /\ \E t : SetsUp(local, t, worker[w].delay)
<1>1. /\ TypeOK /\ OneWorks /\ RetriesOK /\ CommandsOK(worker, commands, members)
      /\ UNCHANGED <<about, sch, hub, entries, incoming, thread, members, commands, lock, waiter, blocked>>
      /\ Runs(sch, Caller) /\ Kind(Caller) = "caller" /\ calls' = [calls EXCEPT !.queue = Tail(@)]
  BY DEF SchedInv, OneAtWork, LostStep, CallerLost, OthersWait, hubVars, Runs, Running
<1>2. PICK w \in Workers : /\ worker[w].st = "failed" /\ open_later(local, worker[w].delay)
                           /\ worker' = [worker EXCEPT ![w] = NoWorker]
  BY DEF LostStep, CallerLost
<1>3. w \in Live /\ sch.task \notin Of("retry")
  BY <1>1, <1>2 DEF Live, CommandsOK, Runs, Of
<1>4. \E t \in Of("retry") : SetsUp(local, t, worker[w].delay)
  <2>1. worker[w].delay \in Nat
    BY <1>1 DEF TypeOK, WorkerStates
  <2>2. \E t \in Of("retry") : local[t].st = "done"
    BY <1>1, <1>3, FreeRetry
  <2>3. QED
    BY <1>2, <2>1, <2>2, OpensLater
<1>5. calls'.started = calls.started
  BY <1>1 DEF TypeOK
<1>6. QED
  BY <1>1, <1>2, <1>3, <1>4, <1>5

\* A program that goes on.
LEMMA OnLocal ==
  ASSUME TypeOK, NEW t \in Tasks
  PROVE  /\ On(t) \in [Tasks -> Locals(Files)] /\ \A u \in Tasks : u # t => On(t)[u] = local[u]
         /\ On(t)[t].at = local[t].at + 1 /\ On(t)[t].st = "live" /\ On(t)[t].ok = local[t].ok /\ On(t)[t].rv = local[t].rv
         /\ local[t].at \in Nat \ {0}
<1>1. local \in [Tasks -> Locals(Files)] /\ local[t] \in Locals(Files)
  BY DEF TypeOK
<1>2. On(t) \in [Tasks -> Locals(Files)]
  BY <1>1, LocalOn DEF On
<1>3. On(t)[t] = [local[t] EXCEPT !.at = @ + 1, !.st = "live"] /\ \A u \in Tasks : u # t => On(t)[u] = local[u]
  <2> DEFINE a == [local EXCEPT ![t].at = @ + 1]
             b == [local[t] EXCEPT !.at = @ + 1]
             live == "live"
  <2>1. On(t) = [a EXCEPT ![t].st = live]
    BY DEF On
  <2>2. a[t] = b /\ a \in [Tasks -> Locals(Files)] /\ \A u \in Tasks : u # t => a[u] = local[u]
    BY <1>1, RecordKept
  <2>3. [local[t] EXCEPT !.at = @ + 1, !.st = "live"] = [b EXCEPT !.st = live]
    OBVIOUS
  <2> HIDE DEF a, b
  <2>4. [a EXCEPT ![t].st = live][t] = [b EXCEPT !.st = live]
    BY <2>2
  <2>5. \A u \in Tasks : u # t => [a EXCEPT ![t].st = live][u] = local[u]
    BY <2>2
  <2>6. QED
    BY <2>1, <2>3, <2>4, <2>5
<1>4. /\ On(t)[t].at = local[t].at + 1 /\ On(t)[t].st = "live" /\ On(t)[t].ok = local[t].ok /\ On(t)[t].rv = local[t].rv
      /\ local[t].at \in Nat \ {0}
  BY <1>1, <1>3 DEF Locals
<1>5. QED
  BY <1>2, <1>3, <1>4

\* What a step of a program leaves as it is.
LEMMA ProgramLocal ==
  ASSUME TypeOK, NEW t \in Tasks, ProgramStep(t)
  PROVE  /\ job.kind[t] = "program" /\ Runs(sch, t) /\ local'[t].at \in Nat
         /\ \A u \in Tasks : u # t => local'[u].st = local[u].st /\ local'[u].at = local[u].at /\ local'[u].rv = local[u].rv
         /\ \A u \in Tasks : u # t => local'[u].ok = local[u].ok \/ (u \in lock.waiting /\ Releases(t))
         /\ \A u \in Tasks : u # t /\ ~ProgramDoes(t) =>
              local'[u].next = local[u].next /\ local'[u].since = local[u].since /\ local'[u].cancelled = local[u].cancelled
         /\ t \notin job.loop => local'[t].at >= local[t].at
         /\ local'[t].rv = local[t].rv
<1>1. job.kind[t] = "program" /\ Runs(sch, t)
  BY DEF ProgramStep, Program, ProgramDoes, ProgramEnds, YieldsZero, Sleeps, Selects, Reads, Parks,
     Acquires, Acquired,
         Releases, Blocks, WaitsOnEvents, TakesEvents, Doing, Running, Runs, Kind
<1>2. /\ local \in [Tasks -> Locals(Files)] /\ lock.waiting \subseteq Tasks
      /\ On(t) \in [Tasks -> Locals(Files)] /\ \A u \in Tasks : u # t => On(t)[u] = local[u]
      /\ On(t)[t].at = local[t].at + 1 /\ On(t)[t].rv = local[t].rv /\ local[t].at \in Nat
  BY OnLocal DEF TypeOK, Locks
<1>3. local[t] \in Locals(Files) /\ On(t)[t] \in Locals(Files)
  BY <1>2
<1>4. CASE ProgramDoes(t)
  <2>1. OpOK(Op(t)) /\ Do(Op(t), On(t))
    BY <1>4, OpsOK DEF ProgramDoes
  <2>2. \A u \in Tasks : /\ local'[u].st = On(t)[u].st /\ local'[u].at = On(t)[u].at /\ local'[u].ok = On(t)[u].ok
                         /\ local'[u].rv = On(t)[u].rv
    BY <1>2, <2>1, DoLocal
  <2>3. QED
    BY <1>1, <1>2, <1>4, <2>2
<1>5. CASE ProgramEnds(t)
  <2>1. CASE t \in job.loop
    <3> DEFINE i == 1
    <3>1. local' = [local EXCEPT ![t].at = i]
      BY <1>5, <2>1 DEF ProgramEnds
    <3>2. i \in Nat
      OBVIOUS
    <3> HIDE DEF i
    <3>3. local'[t] = [local[t] EXCEPT !.at = i] /\ \A u \in Tasks : u # t => local'[u] = local[u]
      BY <1>2, <3>1
    <3>4. local'[t].at = i /\ local'[t].rv = local[t].rv
      BY <1>3, <3>3 DEF Locals
    <3>5. QED
      BY <1>1, <2>1, <3>2, <3>3, <3>4
  <2>2. CASE t \notin job.loop
    <3>1. local' = [local EXCEPT ![t].st = "done"]
      BY <1>5, <2>2 DEF ProgramEnds, Ends
    <3>2. local'[t] = [local[t] EXCEPT !.st = "done"] /\ \A u \in Tasks : u # t => local'[u] = local[u]
      BY <1>2, <3>1
    <3>3. local'[t].at = local[t].at /\ local'[t].rv = local[t].rv
      BY <1>3, <3>2 DEF Locals
    <3>4. QED
      BY <1>1, <1>2, <3>2, <3>3
  <2>3. QED
    BY <2>1, <2>2
<1>6. CASE local' = On(t)
  BY <1>1, <1>2, <1>6
<1>7. CASE local' = [On(t) EXCEPT ![t].st = "asleep"]
  <2>1. local'[t] = [On(t)[t] EXCEPT !.st = "asleep"] /\ \A u \in Tasks : u # t => local'[u] = local[u]
    BY <1>2, <1>7
  <2>2. local'[t].at = On(t)[t].at /\ local'[t].rv = On(t)[t].rv
    BY <1>3, <2>1 DEF Locals
  <2>3. QED
    BY <1>1, <1>2, <2>1, <2>2
<1>8. CASE Acquires(t) /\ local' # On(t)
  <2>1. CASE Op(t).op = "try" /\ local' = [On(t) EXCEPT ![t].at = Op(t).else]
    <3>1. PICK op : Doing(t, op)
      BY <1>8 DEF Acquires
    <3>2. op = "try"
      BY <2>1, <3>1 DEF Doing
    <3>3. Op(t).else \in local[t].at + 1 .. Len(job.code[t]) + 1
      <4>1. <<t, local[t].at>> \in Steps(job) /\ At(job, <<t, local[t].at>>) = Op(t) /\ Fits(job, <<t, local[t].at>>)
        BY <3>1, DoingStep
      <4>2. QED
        BY <2>1, <4>1 DEF Fits
    <3>4. Len(job.code[t]) \in Nat
      BY JobOK, StepsOf
    <3>5. local'[t] = [On(t)[t] EXCEPT !.at = Op(t).else] /\ \A u \in Tasks : u # t => local'[u] = local[u]
      BY <1>2, <2>1
    <3>6. local'[t].at = Op(t).else /\ local'[t].rv = On(t)[t].rv
      BY <1>3, <3>5 DEF Locals
    <3>7. QED
      BY <1>1, <1>2, <3>3, <3>4, <3>5, <3>6
  <2>2. CASE local' = [local EXCEPT ![t].st = "live"]
    <3>1. local'[t] = [local[t] EXCEPT !.st = "live"] /\ \A u \in Tasks : u # t => local'[u] = local[u]
      BY <1>2, <2>2
    <3>2. local'[t].at = local[t].at /\ local'[t].rv = local[t].rv
      BY <1>3, <3>1 DEF Locals
    <3>3. QED
      BY <1>1, <1>2, <3>1, <3>2
  <2>3. QED
    BY <1>8, <2>1, <2>2 DEF Acquires
<1>9. CASE Acquired(t)
  <2>1. local' = [On(t) EXCEPT ![t].ok = FALSE]
    BY <1>9 DEF Acquired
  <2>2. local'[t] = [On(t)[t] EXCEPT !.ok = FALSE] /\ \A u \in Tasks : u # t => local'[u] = local[u]
    BY <1>2, <2>1
  <2>3. local'[t].at = On(t)[t].at /\ local'[t].rv = On(t)[t].rv
    BY <1>3, <2>2 DEF Locals
  <2>4. QED
    BY <1>1, <1>2, <2>2, <2>3
<1>10. CASE Releases(t) /\ local' # On(t)
  <2>1. PICK v \in lock.waiting : local' = [On(t) EXCEPT ![v].ok = TRUE]
    BY <1>10 DEF Releases
  <2>2. v \in Tasks
    BY <1>2
  <2>3. local'[v] = [On(t)[v] EXCEPT !.ok = TRUE] /\ \A u \in Tasks : u # v => local'[u] = On(t)[u]
    BY <1>2, <2>1, <2>2
  <2>4. On(t)[v] \in Locals(Files)
    BY <1>2, <2>2
  <2>5. /\ local'[v].st = On(t)[v].st /\ local'[v].at = On(t)[v].at /\ local'[v].rv = On(t)[v].rv
        /\ local'[v].next = On(t)[v].next /\ local'[v].since = On(t)[v].since /\ local'[v].cancelled = On(t)[v].cancelled
    BY <2>3, <2>4 DEF Locals
  <2>6. \A u \in Tasks : /\ local'[u].st = On(t)[u].st /\ local'[u].at = On(t)[u].at /\ local'[u].rv = On(t)[u].rv
                         /\ local'[u].next = On(t)[u].next /\ local'[u].since = On(t)[u].since
                         /\ local'[u].cancelled = On(t)[u].cancelled
    BY <2>3, <2>5
  <2>7. \A u \in Tasks : local'[u].ok = On(t)[u].ok \/ (u \in lock.waiting /\ Releases(t))
    BY <1>10, <2>3
  <2>8. QED
    BY <1>1, <1>2, <2>6, <2>7
<1>11. QED
  BY <1>4, <1>5, <1>6, <1>7, <1>8, <1>9, <1>10
     DEF ProgramStep, Program, YieldsZero, Sleeps, Selects, Reads, Parks, Blocks, WaitsOnEvents, TakesEvents

\* What a timer keeps when it calls its function.
Fired(t) == [local EXCEPT ![t].since = 0,
                          ![t].next = IF Timer(t).recurring THEN Timer(t).interval ELSE 0,
                          ![t].at = IF Timer(t).recurring /\ ~Timer(t).stops THEN 1 ELSE 3]

\* A timer calls what Fits allows, and then waits for its interval again or has ended.
LEMMA FiredLocal ==
  ASSUME TypeOK, NEW t \in Tasks, TimerFires(t)
  PROVE  /\ FitsTimer(job, t) /\ OpOK(Timer(t).f) /\ Timer(t).f.op # "start" /\ Do(Timer(t).f, Fired(t))
         /\ UNCHANGED <<incoming, blocked>> /\ Runs(sch, t) /\ job.kind[t] = "timer"
         /\ Fired(t) \in [Tasks -> Locals(Files)] /\ \A u \in Tasks : u # t => Fired(t)[u] = local[u]
         /\ Fired(t)[t].st = local[t].st /\ Fired(t)[t].at \in {1, 3} /\ Fired(t)[t].cancelled = local[t].cancelled
         /\ Fired(t)[t].ok = local[t].ok
         /\ Fired(t)[t].since = 0 /\ (Fired(t)[t].at = 1 => Fired(t)[t].next = Timer(t).interval)
<1> DEFINE n == IF Timer(t).recurring THEN Timer(t).interval ELSE 0
           i == IF Timer(t).recurring /\ ~Timer(t).stops THEN 1 ELSE 3
<1>1. local \in [Tasks -> Locals(Files)] /\ local[t] \in Locals(Files)
  BY DEF TypeOK
<1>2. FitsTimer(job, t)
  BY JobOK DEF TimerFires, Kind, Disciplined
<1>3. n \in 0 .. Forever /\ i \in Nat \ {0}
  <2>1. 0 \in 0 .. Forever
    BY TasksAssumption DEF Forever
  <2>2. QED
    BY <1>2, <2>1 DEF FitsTimer, Timer
<1>4. OpOK(Timer(t).f) /\ Timer(t).f.op # "start"
  BY <1>2 DEF FitsTimer, Timer, OpOK, Kind
<1>5. Do(Timer(t).f, Fired(t)) /\ UNCHANGED <<incoming, blocked>> /\ Runs(sch, t) /\ job.kind[t] = "timer"
  BY DEF TimerFires, Fired, Running, Runs, Kind
<1>6. i \in {1, 3} /\ (i = 1 => n = Timer(t).interval)
  OBVIOUS
<1>7. Fired(t) = [local EXCEPT ![t].since = 0, ![t].next = n, ![t].at = i]
  BY DEF Fired
<1> HIDE DEF n, i
<1>8. Fired(t) \in [Tasks -> Locals(Files)]
  <2> DEFINE L == [Tasks -> Locals(Files)]
  <2> HIDE DEF L
  <2>1. local \in L
    BY <1>1 DEF L
  <2>2. [local EXCEPT ![t].since = 0, ![t].next = n, ![t].at = i] \in L
    BY <1>3, <2>1, LocalTurns DEF L
  <2>3. QED
    BY <1>7, <2>2 DEF L
<1>9. Fired(t)[t] = [local[t] EXCEPT !.since = 0, !.next = n, !.at = i] /\ \A u \in Tasks : u # t => Fired(t)[u] = local[u]
  BY <1>1, <1>7
<1>10. /\ Fired(t)[t].st = local[t].st /\ Fired(t)[t].at = i /\ Fired(t)[t].cancelled = local[t].cancelled
       /\ Fired(t)[t].since = 0 /\ Fired(t)[t].next = n /\ Fired(t)[t].ok = local[t].ok
  BY <1>1, <1>9 DEF Locals
<1>11. QED
  BY <1>2, <1>4, <1>5, <1>6, <1>8, <1>9, <1>10

\* Other steps leave programs where they are.
LEMMA ProgramsStay ==
  ASSUME SchedInv, Next, \A t \in Tasks : ~ProgramStep(t), NEW u \in Tasks, job.kind[u] = "program"
  PROVE  local'[u].st = local[u].st /\ local'[u].at = local[u].at /\ local'[u].ok = local[u].ok
<1>1. TypeOK /\ local \in [Tasks -> Locals(Files)] /\ local[u] \in Locals(Files)
  BY DEF SchedInv, TypeOK
<1>2. CASE Switches \/ Rings \/ CheckStep \/ SetStep \/ Answering \/ Network \/ (\E f \in Threads : Launches(f))
           \/ \E t \in Tasks : BlockingStep(t)
  BY <1>2 DEF Switches, Rings, CheckStep, ChecksEvents, SetStep, BlockingSets, BlockingStep,
     BlockingEnds, Answering, Answers, HangsUp,
              Network, Turns, Says, Quiet, Launches
<1>3. CASE CallerStep
  <2>1. u # Caller
    BY <1>3 DEF CallerStep, CallerSelects, CallerPongs, CallerPops, Kind
  <2>2. local'[u] = local[u]
    BY <1>1, <1>3, <2>1 DEF CallerStep, CallerSelects, CallerPongs, CallerPops
  <2>3. QED
    BY <2>2
<1>4. CASE LostStep
  <2>1. PICK t, d : SetsUp(local, t, d)
    BY <1>4, LostDone
  <2>2. local'[u] = local[u]
    BY <1>1, <2>1, SetUpLocal
  <2>3. QED
    BY <2>2
<1>5. CASE LoopStep
  <2>1. u # Loop
    BY <1>5 DEF LoopStep, LoopCommands, LoopSelects, LoopPongs, AtTop, Kind
  <2>2. local'[u] = local[u]
    BY <1>1, <1>5, <2>1 DEF LoopStep, LoopCommands, LoopSelects, LoopPongs
  <2>3. QED
    BY <2>2
<1>6. CASE \E w \in Workers : WorkStep(w)
  <2>1. PICK w \in Workers : WorkStep(w)
    BY <1>6
  <2>2. PICK f, t, d : Kind(Loop) = "loop" /\ (local' = Listed(f) \/ SetsUp(Listed(f), t, d))
    BY <2>1, WorkDone
  <2>3. u # Loop /\ Listed(f)[u] = local[u] /\ Listed(f) \in [Tasks -> Locals(Files)]
    BY <1>1, <2>2, ListedLocal DEF Kind
  <2>4. local'[u] = local[u]
    BY <2>2, <2>3, SetUpLocal
  <2>5. QED
    BY <2>4
<1>7. CASE \E t \in Tasks : BeginStep(t)
  <2>1. PICK t \in Tasks : Kind(t) = "retry" /\ local' = [local EXCEPT ![t].at = 3, ![t].since = 0]
    BY <1>7 DEF BeginStep, Begins
  <2>2. local'[u] = local[u]
    BY <1>1, <2>1 DEF Kind
  <2>3. QED
    BY <2>2
<1>8. CASE \E t \in Tasks : TimerStep(t)
  <2>1. PICK t \in Tasks : TimerStep(t)
    BY <1>8
  <2>2. Kind(t) \in {"timer", "retry"}
    BY <2>1 DEF TimerStep, TimerSleeps, TimerEnds, TimerFires, Timers, Of
  <2>3. CASE TimerSleeps(t) \/ TimerEnds(t)
    <3>1. local'[u] = local[u]
      BY <1>1, <2>2, <2>3 DEF TimerSleeps, TimerEnds, Ends, Kind
    <3>2. QED
      BY <3>1
  <2>4. CASE TimerFires(t)
    <3>1. local'[u] = Fired(t)[u]
      BY <1>1, <2>4, FiredLocal, DoLocal DEF Kind, TimerFires, Of
    <3>2. t # u /\ Fired(t)[u] = local[u]
      BY <1>1, <2>2, <2>4, FiredLocal DEF Kind
    <3>3. QED
      BY <3>1, <3>2
  <2>5. QED
    BY <2>1, <2>3, <2>4 DEF TimerStep
<1>9. CASE \E f \in Threads : ThreadStep(f)
  <2>1. PICK o : local' = local \/ local' = Started(local, o.t)
    BY <1>9 DEF ThreadStep, ThreadDoes, ThreadNotifies
  <2>2. local'[u] = local[u]
    BY <1>1, <2>1 DEF Started, Kind
  <2>3. QED
    BY <2>2
<1>10. CASE Hub
  <2>1. CASE local' = local
    BY <2>1
  <2>2. CASE local' # local
    <3>1. PICK t, rv : local' = [local EXCEPT ![t].rv = rv]
      BY <1>10, <2>2 DEF Hub, HubStep, Scan, Select, pongAll, Drain, Return, break_idle
    <3>2. CASE t = u
      <4>1. local'[u] = [local[u] EXCEPT !.rv = rv]
        BY <1>1, <3>1, <3>2
      <4>2. QED
        BY <1>1, <4>1 DEF Locals
    <3>3. CASE t # u
      BY <1>1, <3>1, <3>3
    <3>4. QED
      BY <3>2, <3>3
  <2>3. QED
    BY <2>1, <2>2
<1>11. CASE Tick
  <2>1. local'[u] = [local[u] EXCEPT !.next = Less(@), !.since = IF Counts(u) THEN @ + 1 ELSE @]
    BY <1>11 DEF Tick, Aged
  <2>2. QED
    BY <1>1, <2>1 DEF Locals
<1>12. QED
  BY NextCases, <1>2, <1>3, <1>4, <1>5, <1>6, <1>7, <1>8, <1>9, <1>10, <1>11

(* -------------------------------- seats -------------------------------- *)
\* A thread goes on in its code, and notifies.
LEMMA GoesOn ==
  ASSUME TypeOK, NEW f \in Threads, NEW s, s # <<"wake">>, thread[f].then = <<>>, Then(f, s)
  PROVE  /\ thread'[f].at = thread[f].at + 1 /\ thread[f].at \in Nat /\ thread'[f].then = s
         /\ \A g \in Threads : g # f => thread'[g] = thread[g]
         /\ Owes(thread') <=> Owes(thread)
<1>1. thread \in [Threads -> Others] /\ thread[f] \in Others
  BY DEF TypeOK
<1>2. thread' = [thread EXCEPT ![f] = [at |-> @.at + 1, then |-> s]]
  BY DEF Then
<1>3. thread'[f] = [at |-> thread[f].at + 1, then |-> s] /\ \A g \in Threads : g # f => thread'[g] = thread[g]
  BY <1>1, <1>2
<1>4. <<>> # <<"wake">>
  <2>1. Len(<<>>) = 0 /\ Len(<<"wake">>) = 1
    OBVIOUS
  <2>2. QED
    BY <2>1
<1>5. Owes(thread') <=> Owes(thread)
  <2>1. thread'[f].then = s /\ \A g \in Threads : g # f => thread'[g].then = thread[g].then
    BY <1>3
  <2>2. thread'[f].then # <<"wake">> /\ thread[f].then # <<"wake">>
    BY <1>4, <2>1
  <2>3. \A g \in Threads : thread'[g].then = <<"wake">> <=> thread[g].then = <<"wake">>
    BY <2>1, <2>2
  <2>4. QED
    BY <2>3 DEF Owes
<1>6. QED
  BY <1>1, <1>3, <1>5 DEF Others

\* A thread notifies one thing at a time.
LEMMA Notified ==
  ASSUME TypeOK, NEW f \in Threads, ThreadNotifies(f)
  PROVE  /\ \A g \in Threads : thread'[g].at = thread[g].at /\ (g # f => thread'[g] = thread[g])
         /\ thread[f].then # <<>>
         /\ Head(thread[f].then) = "wake" <=> thread[f].then = <<"wake">>
         /\ thread'[f].then = <<"wake">> <=> Head(thread[f].then) = "check" /\ CanWake
<1> DEFINE n == Head(thread[f].then)
           rest == Tail(thread[f].then)
           s == CASE n = "check" /\ CanWake -> <<"wake">> \o rest
                  [] n = "wake" -> <<"set">> \o rest
                  [] OTHER -> rest
<1>1. thread \in [Threads -> Others] /\ thread[f] \in Others
  BY DEF TypeOK
<1>2. thread[f].then # <<>> /\ thread' = [thread EXCEPT ![f].then = s]
  BY DEF ThreadNotifies
<1>3. thread'[f] = [thread[f] EXCEPT !.then = s] /\ \A g \in Threads : g # f => thread'[g] = thread[g]
  <2> HIDE DEF s
  <2>1. QED
    BY <1>1, <1>2
<1>4. thread'[f].at = thread[f].at /\ thread'[f].then = s
  <2> HIDE DEF s
  <2>1. QED
    BY <1>1, <1>3 DEF Others
<1>5. s = <<"wake">> <=> n = "check" /\ CanWake
  <2>1. rest # <<"wake">> /\ (n \in {"check", "wake"} => rest = <<>>)
    BY <1>1, <1>2, NotesKept
  <2>2. <<"wake">> \o <<>> = <<"wake">> /\ <<"set">> \o <<>> = <<"set">>
    BY <1>1, NotesKept
  <2>3. <<"set">> # <<"wake">>
    <3>1. <<"set">>[1] = "set" /\ <<"wake">>[1] = "wake"
      OBVIOUS
    <3>2. QED
      BY <3>1
  <2> HIDE DEF n, rest
  <2>4. CASE n = "check" /\ CanWake
    BY <2>1, <2>2, <2>4
  <2>5. CASE n = "wake"
    BY <2>1, <2>2, <2>3, <2>5
  <2>6. QED
    BY <2>1, <2>4, <2>5
<1>6. Head(thread[f].then) = "wake" <=> thread[f].then = <<"wake">>
  BY <1>1, <1>2, NotesKept
<1>7. QED
  BY <1>2, <1>3, <1>4, <1>5, <1>6

\* Programs that run once and threads only go on, so that what they have started they do not start again.
LEMMA Onward ==
  ASSUME SchedInv, TypeOK', Next
  PROVE  /\ job' = job
         /\ \A f \in Threads : thread'[f].at >= thread[f].at
         /\ \A t : ToStart(job', local', thread', t) => ToStart(job, local, thread, t)
<1>1. TypeOK /\ Disciplined(job) /\ LaunchesOnce(job)
  BY JobOK DEF SchedInv
<1>2. job' = job
  <2>1. about' = about
    BY DEF Next, Sched, Hub, OtherThreads, ThreadDoes, ThreadNotifies, BlockingEnds, BlockingSets,
       Launches, Answering, Answers, HangsUp, Tick,
           Network, Turns, Says, Quiet
  <2>2. QED
    BY <2>1, SameJob
<1>3. \A f \in Threads : thread[f].at \in Nat /\ thread'[f].at \in Nat
  BY <1>1 DEF TypeOK, Others
<1>4. \A f \in Threads : thread'[f].at >= thread[f].at
  <2>1. CASE thread' = thread
    BY <1>3, <2>1
  <2>2. CASE \E f \in Threads : Launches(f) \/ ThreadDoes(f)
    <3>1. PICK f \in Threads : thread[f].then = <<>> /\ \E s : s # <<"wake">> /\ Then(f, s)
      <4>1. PICK f \in Threads : Launches(f) \/ ThreadDoes(f)
        BY <2>2
      <4>2. thread[f].then = <<>>
        BY <4>1 DEF Launches, ThreadDoes
      <4>3. \/ Then(f, <<"set">>) \/ Then(f, <<"queue", "ping">>) \/ Then(f, <<"set", "queue", "ping">>)
            \/ Then(f, <<"check">>) \/ Then(f, <<>>)
        BY <4>1 DEF Launches, ThreadDoes
      <4>4. /\ <<"set">> # <<"wake">> /\ <<"check">> # <<"wake">> /\ <<>> # <<"wake">>
            /\ <<"queue", "ping">> # <<"wake">> /\ <<"set", "queue", "ping">> # <<"wake">>
        <5>1. Len(<<"wake">>) = 1 /\ Len(<<>>) = 0 /\ Len(<<"queue", "ping">>) = 2 /\ Len(<<"set", "queue", "ping">>) = 3
          OBVIOUS
        <5>2. <<"wake">>[1] = "wake" /\ <<"check">>[1] = "check" /\ <<"set">>[1] = "set"
          OBVIOUS
        <5>3. QED
          BY <5>1, <5>2
      <4>5. \E s : s # <<"wake">> /\ Then(f, s)
        BY <4>3, <4>4
      <4>6. QED
        BY <4>2, <4>5
    <3>2. QED
      BY <1>1, <1>3, <3>1, GoesOn
  <2>3. CASE \E f \in Threads : ThreadNotifies(f)
    BY <1>1, <1>3, <2>3, Notified
  <2>4. thread' = thread \/ \E f \in Threads : Launches(f) \/ ThreadDoes(f) \/ ThreadNotifies(f)
    BY DEF Next, Sched, Hub, OtherThreads, BlockingEnds, BlockingSets, Answering, Answers, HangsUp, Tick,
           Network, Turns, Says, Quiet, threadVars
  <2>5. QED
    BY <2>1, <2>2, <2>3, <2>4
<1>5. ASSUME NEW u \in Tasks \ job.loop, job.kind[u] = "program"
      PROVE  local[u].at \in Nat /\ local'[u].at \in Nat /\ local'[u].at >= local[u].at
  <2>1. local[u].at \in Nat /\ local'[u].at \in Nat
    BY <1>1 DEF TypeOK, Locals
  <2>2. CASE \E t \in Tasks : ProgramStep(t)
    <3>1. PICK t \in Tasks : ProgramStep(t)
      BY <2>2
    <3>2. CASE t = u
      BY <1>1, <2>1, <3>1, <3>2, ProgramLocal
    <3>3. CASE t # u
      BY <1>1, <2>1, <3>1, <3>3, ProgramLocal
    <3>4. QED
      BY <3>2, <3>3
  <2>3. CASE \A t \in Tasks : ~ProgramStep(t)
    BY <1>5, <2>1, <2>3, ProgramsStay
  <2>4. QED
    BY <2>2, <2>3
<1>6. \A t : ToStart(job, local', thread', t) => ToStart(job, local, thread, t)
  BY <1>1, <1>3, <1>4, <1>5, NothingAhead
<1>7. QED
  BY <1>2, <1>4, <1>6

\* What has been passed in the code is not to be started any more.
LEMMA PassedBy ==
  ASSUME NEW J, Disciplined(J), LaunchesOnce(J), NEW t, NEW s \in StartsOf(J, t), NEW lc, NEW th,
         ~Ahead(lc, th, s)
  PROVE  ~ToStart(J, lc, th, t)
BY StartsApart DEF ToStart

\* The functions a task may call make ready the one that waits for it.
LEMMA DoSeats ==
  ASSUME TypeOK, SeatsOK, WaiterOK(job, waiter, thread), NEW o, OpOK(o), NEW l, Do(o, l), thread' = thread,
         o.op = "start" => ToStart(job, local, thread, o.t) /\ ~ToStart(job', local', thread', o.t)
  PROVE  /\ Once(ready') /\ sch' = sch /\ lock' = lock
         /\ \A u : Told(ready', u) <=> Told(ready, u)
         /\ \A u : HasItem(ready, u) => HasItem(ready', u)
         /\ \A u : HasItem(ready', u) => \/ HasItem(ready, u)
                                         \/ Awaits(waiter, thread, u) /\ ~Awaits(waiter', thread', u)
                                         \/ ToStart(job, local, thread, u) /\ ~ToStart(job', local', thread', u)
                                         \/ Uncalled(calls, u) /\ ~Uncalled(calls', u)
         /\ \A u : (Awaits(waiter', thread', u) => Awaits(waiter, thread, u)) /\ (Uncalled(calls', u) => Uncalled(calls, u))
<1> USE DEF schedulerVars, syncVars
<1>1. ready \in Seq(Items) /\ Once(ready) /\ waiter \in Waiters /\ Caller \in Tasks
  BY TasksAssumption DEF TypeOK, SeatsOK
<1>2. CASE o.op = "nothing" \/ o.op = "cancel"
  <2>1. UNCHANGED <<ready, sch, lock, waiter, calls>>
    BY <1>2 DEF Do
  <2>2. QED
    BY <1>1, <2>1
<1>3. CASE o.op = "start"
  <2>1. o.t \in Tasks /\ schedule(o.t) /\ UNCHANGED <<sch, lock, waiter, calls>>
    BY <1>3 DEF Do, OpOK
  <2>2. QED
    BY <1>1, <1>3, <2>1, Scheduled
<1>4. CASE o.op = "call"
  <2>1. calls' = [started |-> TRUE, queue |-> Append(calls.queue, o.f)] /\ UNCHANGED <<sch, lock, waiter>>
    BY <1>4 DEF Do
  <2>2. calls'.started
    BY <2>1
  <2>3. \A u : ~Uncalled(calls', u)
    BY <2>2 DEF Uncalled
  <2>4. CASE calls.started
    <3>1. ready' = ready
      BY <1>4, <2>4 DEF Do
    <3>2. QED
      BY <1>1, <2>1, <2>3, <3>1
  <2>5. CASE ~calls.started
    <3>1. schedule(Caller)
      BY <1>4, <2>5 DEF Do
    <3>2. Uncalled(calls, Caller)
      BY <2>5 DEF Uncalled
    <3>3. QED
      BY <1>1, <2>1, <2>3, <3>1, <3>2, Scheduled
  <2>6. QED
    BY <2>4, <2>5
<1>5. CASE o.op = "event"
  <2> DEFINE b == waiter.wakeable /\ ~(waiter.task # Nobody /\ waiter.wakeable)
  <2>1. waiter' = [waiter EXCEPT !.events = @ + 1, !.wakeable = b] /\ UNCHANGED <<sch, lock, calls>>
    BY <1>5 DEF Do
  <2>2. b \in BOOLEAN
    OBVIOUS
  <2>3. waiter'.task = waiter.task /\ waiter'.wakeable = b
    <3> HIDE DEF b
    <3>1. QED
      BY <1>1, <2>1 DEF Waiters
  <2>4. CASE waiter.task # Nobody /\ waiter.wakeable
    <3>1. schedule(waiter.task)
      BY <1>5, <2>4 DEF Do
    <3>2. waiter.task \in Tasks /\ ~Owes(thread)
      BY <1>1, <2>4 DEF Waiters, WaiterOK
    <3>3. Awaits(waiter, thread, waiter.task) /\ \A u : ~Awaits(waiter', thread', u)
      BY <2>3, <2>4, <3>2 DEF Awaits
    <3>4. QED
      BY <1>1, <2>1, <3>1, <3>2, <3>3, Scheduled
  <2>5. CASE ~(waiter.task # Nobody /\ waiter.wakeable)
    <3>1. ready' = ready
      BY <1>5, <2>5 DEF Do
    <3>2. b = waiter.wakeable
      BY <1>1, <2>5 DEF Waiters
    <3>3. \A u : Awaits(waiter', thread', u) <=> Awaits(waiter, thread, u)
      BY <2>3, <3>2 DEF Awaits
    <3>4. QED
      BY <1>1, <2>1, <3>1, <3>3
  <2>6. QED
    BY <2>4, <2>5
<1>6. QED
  BY <1>2, <1>3, <1>4, <1>5 DEF Do

\* The task that runs is nowhere else.
LEMMA RunsAlone ==
  ASSUME SeatsOK, NEW t \in Tasks, Runs(sch, t)
  PROVE  /\ ~HasItem(ready, t) /\ ~Queued(incoming, t) /\ t \notin DOMAIN entries /\ t \notin blocked /\ t \notin lock.waiting
         /\ ~Told(ready, t) /\ ~Wakens(sch, t) /\ ~Awaits(waiter, thread, t) /\ ~ToStart(job, local, thread, t)
         /\ ~Uncalled(calls, t)
BY DEF SeatsOK, OneSeat, Placed, Claimed

\* After a slice that ends, no task runs.
LEMMA Freed ==
  ASSUME SchOK(sch), Free
  PROVE  \A u : ~Runs(sch', u) /\ ~Wakens(sch', u)
<1>1. sch'.pc = "check"
  BY DEF Free, SchOK, Slices
<1>2. QED
  BY <1>1 DEF Runs, Wakens

\* ... and neither in a slice that has another thing to do.
LEMMA Moved ==
  ASSUME SchOK(sch), NEW pc \in {"check", "wait", "clear", "ping", "check events", "done"},
         sch' = [sch EXCEPT !.pc = pc]
  PROVE  \A u : ~Runs(sch', u) /\ ~Wakens(sch', u)
<1>1. sch'.pc = pc
  BY DEF SchOK, Slices
<1>2. QED
  BY <1>1 DEF Runs, Wakens

\* What asks the hub for something is in its queue.
LEMMA Registered ==
  ASSUME TypeOK, SeatsOK, NEW t \in Tasks, ~Queued(incoming, t), NEW files \in SUBSET Files,
         NEW left \in 0 .. Forever,
         registerSelect(t, files, left)
  PROVE  /\ OncePerTask(incoming') /\ ready' = ready
         /\ \A u : Queued(incoming', u) <=> Queued(incoming, u) \/ u = t
         /\ \A u : ~Runs(sch', u) /\ ~Wakens(sch', u)
         /\ \A i \in DOMAIN incoming' : incoming'[i] = [task |-> t, files |-> files, left |-> left]
                                        \/ (i \in DOMAIN incoming /\ incoming'[i] = incoming[i])
<1> DEFINE r == [task |-> t, files |-> files, left |-> left]
<1>1. r \in Requests(Files) /\ r.task = t
  BY DEF Requests
<1>2. incoming' = Append(incoming, r) /\ sch' = [sch EXCEPT !.pc = "ping"] /\ ready' = ready
  BY DEF registerSelect
<1>3. incoming \in Seq(Requests(Files)) /\ OncePerTask(incoming) /\ SchOK(sch)
  BY DEF TypeOK, SeatsOK
<1> HIDE DEF r
<1>4. /\ OncePerTask(incoming') /\ \A u : Queued(incoming', u) <=> Queued(incoming, u) \/ u = t
      /\ \A i \in DOMAIN incoming' : incoming'[i] = r \/ (i \in DOMAIN incoming /\ incoming'[i] = incoming[i])
  BY <1>1, <1>2, <1>3, QueuedNext
<1>5. \A u : ~Runs(sch', u) /\ ~Wakens(sch', u)
  BY <1>2, <1>3, Moved
<1>6. QED
  BY <1>2, <1>4, <1>5 DEF r

\* A task that sleeps waits in _incoming, or is ready when its time has come.
LEMMA Slept ==
  ASSUME TypeOK, SeatsOK, NEW t \in Tasks, Runs(sch, t), NEW left \in 0 .. Forever, Sleep(t, left)
  PROVE  /\ OncePerTask(incoming') /\ Once(ready') /\ \A u : Told(ready', u) <=> Told(ready, u)
         /\ \A u : ~Runs(sch', u) /\ ~Wakens(sch', u)
         /\ \/ /\ \A u : Queued(incoming', u) <=> Queued(incoming, u) \/ u = t
               /\ ready' = ready
               /\ \A i \in DOMAIN incoming' : incoming'[i] = [task |-> t, files |-> None, left |-> left]
                                              \/ (i \in DOMAIN incoming /\ incoming'[i] = incoming[i])
            \/ /\ \A u : HasItem(ready', u) <=> HasItem(ready, u) \/ u = t
               /\ incoming' = incoming /\ left = 0
<1>1. SchOK(sch) /\ ready \in Seq(Items) /\ Once(ready) /\ OncePerTask(incoming) /\ ~HasItem(ready, t) /\ ~Queued(incoming, t)
  BY RunsAlone DEF TypeOK, SeatsOK
<1>2. CASE registerSelect(t, None, left)
  <2>1. None \in SUBSET Files
    BY DEF None
  <2>2. QED
    BY <1>1, <1>2, <2>1, Registered
<1>3. CASE left = 0 /\ fast_schedule(t) /\ Free /\ UNCHANGED incoming
  BY <1>1, <1>3, MadeReady, Freed DEF fast_schedule
<1>4. QED
  BY <1>2, <1>3 DEF Sleep

\* SeatsOK is kept by programs.
LEMMA ProgramSeats ==
  ASSUME SchedInv, TypeOK', NEW t \in Tasks, ProgramStep(t)
  PROVE  SeatsOK'
<1> USE DEF schedulerVars, syncVars
<1>1. /\ TypeOK /\ SeatsOK /\ WaiterOK(job, waiter, thread) /\ SchOK(sch) /\ ready \in Seq(Items) /\ waiter \in Waiters
      /\ Once(ready) /\ OncePerTask(incoming) /\ \A u \in Tasks : OneSeat(u) /\ Seated(u)
  BY DEF SchedInv, Ordered, TypeOK, SeatsOK
<1>2. /\ job' = job /\ thread' = thread /\ entries' = entries /\ Runs(sch, t)
      /\ \A u : ToStart(job', local', thread', u) => ToStart(job, local, thread, u)
  <2>1. Running(t)
    BY <1>1, ProgramLocal DEF Running, Runs
  <2>2. Next
    BY <2>1 DEF Next, Sched, SchedulerStep, ProgramStep, OthersWait
  <2>3. QED
    BY <1>1, <2>2, Onward, ProgramLocal DEF ProgramStep, OthersWait, hubVars
<1>3. /\ ~HasItem(ready, t) /\ ~Queued(incoming, t) /\ t \notin DOMAIN entries /\ t \notin blocked /\ t \notin lock.waiting
      /\ ~Told(ready, t) /\ ~Wakens(sch, t) /\ ~Awaits(waiter, thread, t) /\ ~ToStart(job, local, thread, t) /\ ~Uncalled(calls, t)
  BY <1>1, <1>2, RunsAlone
<1>4. \A u \in Tasks : u # t => local'[u].st = local[u].st
  BY <1>1, ProgramLocal
<1>5. local \in [Tasks -> Locals(Files)] /\ On(t)[t].st = "live" /\ On(t) \in [Tasks -> Locals(Files)]
  BY <1>1, OnLocal DEF TypeOK
<1>6. CASE ProgramDoes(t)
  <2>1. PICK op \in {"start", "cancel", "call", "event"} : Doing(t, op)
    BY <1>6 DEF ProgramDoes
  <2>2. OpOK(Op(t)) /\ Do(Op(t), On(t)) /\ UNCHANGED <<incoming, blocked>> /\ Op(t).op = op
    BY <1>1, <1>6, <2>1, OpsOK, DoingStep DEF ProgramDoes
  <2>3. local'[t].at = local[t].at + 1 /\ local'[t].st = "live" /\ local[t].at \in Nat
    <3>1. local'[t].st = On(t)[t].st /\ local'[t].at = On(t)[t].at
      BY <1>1, <1>5, <2>2, DoLocal
    <3>2. QED
      BY <1>1, <3>1, OnLocal
  <2>4. Op(t).op = "start" => ToStart(job, local, thread, Op(t).t) /\ ~ToStart(job', local', thread', Op(t).t)
    <3> SUFFICES ASSUME Op(t).op = "start"
                 PROVE  ToStart(job, local, thread, Op(t).t) /\ ~ToStart(job', local', thread', Op(t).t)
      OBVIOUS
    <3> DEFINE s == <<t, local[t].at>>
    <3>1. s \in StartsOf(job, Op(t).t)
      BY <1>1, <2>1, DoingStep DEF StartsOf
    <3>2. t \notin Threads /\ s[1] = t /\ s[2] = local[t].at
      BY TasksAssumption
    <3> HIDE DEF s
    <3>3. Ahead(local, thread, s) /\ ~Ahead(local', thread', s)
      BY <2>3, <3>2 DEF Ahead
    <3>4. Disciplined(job) /\ LaunchesOnce(job)
      BY <1>1, JobOK
    <3>5. QED
      BY <1>2, <3>1, <3>3, <3>4, PassedBy DEF ToStart
  <2>5. /\ Once(ready') /\ sch' = sch /\ lock' = lock
        /\ \A u : Told(ready', u) <=> Told(ready, u)
        /\ \A u : HasItem(ready, u) => HasItem(ready', u)
        /\ \A u : HasItem(ready', u) => \/ HasItem(ready, u)
                                        \/ Awaits(waiter, thread, u) /\ ~Awaits(waiter', thread', u)
                                        \/ ToStart(job, local, thread, u) /\ ~ToStart(job', local', thread', u)
                                        \/ Uncalled(calls, u) /\ ~Uncalled(calls', u)
        /\ \A u : (Awaits(waiter', thread', u) => Awaits(waiter, thread, u)) /\ (Uncalled(calls', u) => Uncalled(calls, u))
    BY <1>1, <1>2, <2>2, <2>4, DoSeats
  <2>6. ASSUME NEW u \in Tasks PROVE OneSeat(u)' /\ Seated(u)'
    <3>1. OneSeat(u) /\ Seated(u) /\ (u = t => local'[u].st = "live") /\ (u # t => local'[u].st = local[u].st)
      BY <1>1, <1>4, <2>3
    <3>2. OneSeat(u)'
      BY <1>2, <2>2, <2>5, <3>1 DEF OneSeat, Placed, Claimed
    <3>3. Seated(u)'
      BY <1>2, <2>2, <2>5, <3>1 DEF Seated, Placed, Claimed
    <3>4. QED
      BY <3>2, <3>3
  <2>7. QED
    BY <1>1, <2>2, <2>5, <2>6 DEF SeatsOK
<1>7. \A u \in Tasks : local[u].st \in {"live", "asleep", "done"}
  BY <1>5 DEF Locals
<1>8. CASE ProgramEnds(t)
  <2>1. CASE t \in job.loop
    <3>1. local' = [local EXCEPT ![t].at = 1] /\ UNCHANGED <<ready, sch, incoming, lock, waiter, calls, blocked>>
      BY <1>8, <2>1 DEF ProgramEnds
    <3>2. local'[t].st = local[t].st
      BY <1>5, <3>1 DEF Locals
    <3>3. ASSUME NEW u \in Tasks PROVE OneSeat(u)' /\ Seated(u)'
      <4>1. OneSeat(u) /\ Seated(u) /\ local'[u].st = local[u].st
        BY <1>1, <1>4, <3>2
      <4>2. QED
        BY <1>2, <3>1, <4>1 DEF OneSeat, Seated, Placed, Claimed
    <3>4. QED
      BY <1>1, <3>1, <3>3 DEF SeatsOK
  <2>2. CASE t \notin job.loop
    <3>1. local' = [local EXCEPT ![t].st = "done"] /\ Free /\ UNCHANGED <<ready, incoming, lock, waiter, calls, blocked>>
      BY <1>8, <2>2 DEF ProgramEnds, Ends, Unscheduled
    <3>2. \A u : ~Runs(sch', u) /\ ~Wakens(sch', u)
      BY <1>1, <3>1, Freed
    <3>3. local'[t].st = "done"
      BY <1>5, <3>1 DEF Locals
    <3>4. ASSUME NEW u \in Tasks PROVE OneSeat(u)' /\ Seated(u)'
      <4>1. OneSeat(u) /\ Seated(u) /\ (u # t => local'[u].st = local[u].st) /\ (Runs(sch, u) => u = t)
        BY <1>1, <1>2, <1>4 DEF Runs
      <4>2. OneSeat(u)'
        BY <1>2, <3>1, <3>2, <4>1 DEF OneSeat, Placed, Claimed
      <4>3. Seated(u)'
        BY <1>2, <1>3, <3>1, <3>2, <3>3, <4>1 DEF Seated, Placed, Claimed
      <4>4. QED
        BY <4>2, <4>3
    <3>5. QED
      BY <1>1, <3>1, <3>4 DEF SeatsOK
  <2>3. QED
    BY <2>1, <2>2
<1>9. CASE YieldsZero(t)
  <2>1. ready' = Append(ready, Item(t)) /\ Free /\ local' = On(t) /\ UNCHANGED <<incoming, lock, waiter, calls, blocked>>
    BY <1>9 DEF YieldsZero, Again
  <2>2. /\ Once(ready') /\ (\A u : HasItem(ready', u) <=> HasItem(ready, u) \/ u = t) /\ (\A u : Told(ready', u) <=> Told(ready, u))
        /\ \A u : ~Runs(sch', u) /\ ~Wakens(sch', u)
    BY <1>1, <1>3, <2>1, MadeReady, Freed
  <2>3. ASSUME NEW u \in Tasks PROVE OneSeat(u)' /\ Seated(u)'
    <3>1. OneSeat(u) /\ Seated(u) /\ (u # t => local'[u].st = local[u].st) /\ (u = t => local'[u].st = "live") /\ (Runs(sch, u) => u = t)
      BY <1>1, <1>2, <1>4, <1>5, <2>1 DEF Runs
    <3>2. OneSeat(u)'
      BY <1>2, <1>3, <2>1, <2>2, <3>1 DEF OneSeat, Placed, Claimed
    <3>3. Seated(u)'
      BY <1>2, <2>1, <2>2, <3>1 DEF Seated, Placed, Claimed
    <3>4. QED
      BY <3>2, <3>3
  <2>4. QED
    BY <1>1, <2>1, <2>2, <2>3 DEF SeatsOK
<1>10. CASE Sleeps(t)
  <2>1. local' = On(t) /\ UNCHANGED <<lock, waiter, calls, blocked>> /\ Sleep(t, Op(t).n) /\ Op(t).n \in 0 .. Forever
    BY <1>1, <1>10, OpsOK DEF Sleeps
  <2>2. /\ OncePerTask(incoming') /\ Once(ready') /\ \A u : Told(ready', u) <=> Told(ready, u)
        /\ \A u : ~Runs(sch', u) /\ ~Wakens(sch', u)
        /\ \/ (\A u : Queued(incoming', u) <=> Queued(incoming, u) \/ u = t) /\ ready' = ready
           \/ (\A u : HasItem(ready', u) <=> HasItem(ready, u) \/ u = t) /\ incoming' = incoming
    BY <1>1, <1>2, <2>1, Slept
  <2>3. ASSUME NEW u \in Tasks PROVE OneSeat(u)' /\ Seated(u)'
    <3>1. OneSeat(u) /\ Seated(u) /\ (u # t => local'[u].st = local[u].st) /\ (u = t => local'[u].st = "live") /\ (Runs(sch, u) => u = t)
      BY <1>1, <1>2, <1>4, <1>5, <2>1 DEF Runs
    <3>2. OneSeat(u)'
      BY <1>2, <1>3, <2>1, <2>2, <3>1 DEF OneSeat, Placed, Claimed
    <3>3. Seated(u)'
      BY <1>2, <2>1, <2>2, <3>1 DEF Seated, Placed, Claimed
    <3>4. QED
      BY <3>2, <3>3
  <2>4. QED
    BY <1>1, <2>1, <2>2, <2>3 DEF SeatsOK
<1>11. CASE Selects(t)
  <2>1. /\ local' = On(t) /\ UNCHANGED <<lock, waiter, calls, blocked>> /\ registerSelect(t, {Op(t).fd}, Op(t).n)
        /\ Op(t).n \in 0 .. Forever /\ {Op(t).fd} \in SUBSET Files
    BY <1>1, <1>11, OpsOK DEF Selects
  <2>2. /\ OncePerTask(incoming') /\ ready' = ready
        /\ \A u : ~Runs(sch', u) /\ ~Wakens(sch', u)
        /\ \A u : Queued(incoming', u) <=> Queued(incoming, u) \/ u = t
    BY <1>1, <1>3, <2>1, Registered
  <2>3. ASSUME NEW u \in Tasks PROVE OneSeat(u)' /\ Seated(u)'
    <3>1. OneSeat(u) /\ Seated(u) /\ (u # t => local'[u].st = local[u].st) /\ (u = t => local'[u].st = "live") /\ (Runs(sch, u) => u = t)
      BY <1>1, <1>2, <1>4, <1>5, <2>1 DEF Runs
    <3>2. OneSeat(u)'
      BY <1>2, <1>3, <2>1, <2>2, <3>1 DEF OneSeat, Placed, Claimed
    <3>3. Seated(u)'
      BY <1>2, <2>1, <2>2, <3>1 DEF Seated, Placed, Claimed
    <3>4. QED
      BY <3>2, <3>3
  <2>4. QED
    BY <1>1, <2>1, <2>2, <2>3 DEF SeatsOK
<1>12. CASE Reads(t) \/ TakesEvents(t)
  <2>1. /\ local' = On(t) /\ UNCHANGED <<ready, sch, incoming, lock, calls, blocked>>
        /\ waiter' = waiter \/ waiter' = [waiter EXCEPT !.events = 0]
    BY <1>12 DEF Reads, TakesEvents
  <2>2. waiter'.task = waiter.task /\ waiter'.wakeable = waiter.wakeable
    BY <1>1, <2>1 DEF Waiters
  <2>3. \A u : Awaits(waiter', thread', u) <=> Awaits(waiter, thread, u)
    BY <1>2, <2>2 DEF Awaits
  <2>4. ASSUME NEW u \in Tasks PROVE OneSeat(u)' /\ Seated(u)'
    <3>1. OneSeat(u) /\ Seated(u) /\ (u # t => local'[u].st = local[u].st) /\ (u = t => local'[u].st = "live")
      BY <1>1, <1>4, <1>5, <2>1
    <3>2. QED
      BY <1>2, <2>1, <2>3, <3>1 DEF OneSeat, Seated, Placed, Claimed
  <2>5. QED
    BY <1>1, <2>1, <2>4 DEF SeatsOK
<1>13. CASE Parks(t)
  <2>1. local' = [On(t) EXCEPT ![t].st = "asleep"] /\ Free /\ UNCHANGED <<ready, incoming, lock, waiter, calls, blocked>>
    BY <1>13 DEF Parks, Unscheduled
  <2>2. local'[t].st = "asleep" /\ \A u : ~Runs(sch', u) /\ ~Wakens(sch', u)
    BY <1>1, <1>5, <2>1, Freed DEF Locals
  <2>3. ASSUME NEW u \in Tasks PROVE OneSeat(u)' /\ Seated(u)'
    <3>1. OneSeat(u) /\ Seated(u) /\ (u # t => local'[u].st = local[u].st) /\ (u = t => local'[u].st = "asleep") /\ (Runs(sch, u) => u = t)
      BY <1>1, <1>2, <1>4, <2>2 DEF Runs
    <3>2. QED
      BY <1>2, <1>3, <2>1, <2>2, <3>1 DEF OneSeat, Seated, Placed, Claimed
  <2>4. QED
    BY <1>1, <2>1, <2>3 DEF SeatsOK
<1>14. CASE Acquires(t)
  <2>1. lock \in Locks
    BY <1>1 DEF TypeOK
  <2>2. CASE lock.holder = Nobody \/ Op(t).op = "try"
    <3>1. /\ UNCHANGED <<ready, sch, incoming, waiter, calls, blocked>>
          /\ local' = On(t) \/ local' = [On(t) EXCEPT ![t].at = Op(t).else]
          /\ lock' = lock \/ lock' = [lock EXCEPT !.holder = t, !.inside = @ \union {t}]
      BY <1>14, <2>2 DEF Acquires
    <3>2. lock'.waiting = lock.waiting
      BY <2>1, <3>1 DEF Locks
    <3>3. local'[t].st = "live"
      <4>1. local' = [On(t) EXCEPT ![t].at = Op(t).else] => local'[t].st = On(t)[t].st
        BY <1>5 DEF Locals
      <4>2. QED
        BY <1>5, <3>1, <4>1
    <3>4. ASSUME NEW u \in Tasks PROVE OneSeat(u)' /\ Seated(u)'
      <4>1. OneSeat(u) /\ Seated(u) /\ (u # t => local'[u].st = local[u].st) /\ (u = t => local'[u].st = "live")
        BY <1>1, <1>4, <3>3
      <4>2. QED
        BY <1>2, <3>1, <3>2, <4>1 DEF OneSeat, Seated, Placed, Claimed
    <3>5. QED
      BY <1>1, <3>1, <3>4 DEF SeatsOK
  <2>3. CASE ~(lock.holder = Nobody \/ Op(t).op = "try")
    <3>1. /\ lock' = [lock EXCEPT !.waiting = @ \union {t}] /\ local' = [local EXCEPT ![t].st = "live"] /\ Free
          /\ UNCHANGED <<ready, incoming, waiter, calls, blocked>>
      BY <1>14, <2>3 DEF Acquires, Unscheduled
    <3>2. lock'.waiting = lock.waiting \union {t} /\ local'[t].st = "live" /\ \A u : ~Runs(sch', u) /\ ~Wakens(sch', u)
      BY <1>1, <1>5, <2>1, <3>1, Freed DEF Locals, Locks
    <3>3. ASSUME NEW u \in Tasks PROVE OneSeat(u)' /\ Seated(u)'
      <4>1. /\ OneSeat(u) /\ Seated(u) /\ (u # t => local'[u].st = local[u].st) /\ (u = t => local'[u].st = "live")
            /\ (Runs(sch, u) => u = t) /\ (u \in lock'.waiting <=> u \in lock.waiting \/ u = t)
        BY <1>1, <1>2, <1>4, <3>2 DEF Runs
      <4>2. OneSeat(u)'
        BY <1>2, <1>3, <3>1, <3>2, <4>1 DEF OneSeat, Placed, Claimed
      <4>3. Seated(u)'
        BY <1>2, <1>3, <3>1, <3>2, <4>1 DEF Seated, Placed, Claimed
      <4>4. QED
        BY <4>2, <4>3
    <3>4. QED
      BY <1>1, <3>1, <3>3 DEF SeatsOK
  <2>4. QED
    BY <2>2, <2>3
<1>15. CASE Acquired(t)
  <2>1. /\ lock' = [lock EXCEPT !.inside = @ \union {t}] /\ local' = [On(t) EXCEPT ![t].ok = FALSE]
        /\ UNCHANGED <<ready, sch, incoming, waiter, calls, blocked>>
    BY <1>15 DEF Acquired
  <2>2. lock'.waiting = lock.waiting /\ local'[t].st = "live"
    <3>1. local'[t].st = On(t)[t].st
      BY <1>5, <2>1 DEF Locals
    <3>2. lock'.waiting = lock.waiting
      BY <1>1, <2>1 DEF TypeOK, Locks
    <3>3. QED
      BY <1>5, <3>1, <3>2
  <2>3. ASSUME NEW u \in Tasks PROVE OneSeat(u)' /\ Seated(u)'
    <3>1. OneSeat(u) /\ Seated(u) /\ (u # t => local'[u].st = local[u].st) /\ (u = t => local'[u].st = "live")
      BY <1>1, <1>4, <2>2
    <3>2. QED
      BY <1>2, <2>1, <2>2, <3>1 DEF OneSeat, Seated, Placed, Claimed
  <2>4. QED
    BY <1>1, <2>1, <2>3 DEF SeatsOK
<1>16. CASE Releases(t)
  <2>1. lock \in Locks /\ UNCHANGED <<sch, incoming, waiter, calls, blocked>>
    BY <1>1, <1>16 DEF TypeOK, Releases
  <2>2. CASE lock.waiting = {}
    <3>1. lock' = [lock EXCEPT !.holder = Nobody, !.inside = @ \ {t}] /\ local' = On(t) /\ ready' = ready
      BY <1>16, <2>2 DEF Releases
    <3>2. lock'.waiting = lock.waiting
      BY <2>1, <3>1 DEF Locks
    <3>3. ASSUME NEW u \in Tasks PROVE OneSeat(u)' /\ Seated(u)'
      <4>1. OneSeat(u) /\ Seated(u) /\ (u # t => local'[u].st = local[u].st) /\ (u = t => local'[u].st = "live")
        BY <1>1, <1>4, <1>5, <3>1
      <4>2. QED
        BY <1>2, <2>1, <3>1, <3>2, <4>1 DEF OneSeat, Seated, Placed, Claimed
    <3>4. QED
      BY <1>1, <2>1, <3>1, <3>3 DEF SeatsOK
  <2>3. CASE lock.waiting # {}
    <3>1. PICK v \in lock.waiting : /\ lock' = [holder |-> v, waiting |-> lock.waiting \ {v}, inside |-> lock.inside \ {t}]
                                    /\ local' = [On(t) EXCEPT ![v].ok = TRUE] /\ fast_schedule(v)
      BY <1>16, <2>3 DEF Releases
    <3>2. v \in Tasks /\ v # t /\ ~HasItem(ready, v) /\ lock'.waiting = lock.waiting \ {v}
      BY <1>1, <1>3, <2>1, <3>1 DEF Locks, OneSeat
    <3>3. local'[t].st = "live"
      <4>1. local'[t] = On(t)[t]
        BY <1>5, <3>1, <3>2
      <4>2. QED
        BY <1>5, <4>1
    <3>4. Once(ready') /\ (\A u : HasItem(ready', u) <=> HasItem(ready, u) \/ u = v) /\ (\A u : Told(ready', u) <=> Told(ready, u))
      BY <1>1, <3>1, <3>2, MadeReady DEF fast_schedule
    <3>5. ASSUME NEW u \in Tasks PROVE OneSeat(u)' /\ Seated(u)'
      <4>1. /\ OneSeat(u) /\ Seated(u) /\ (u # t => local'[u].st = local[u].st) /\ (u = t => local'[u].st = "live")
            /\ u \in lock'.waiting <=> u \in lock.waiting /\ u # v
            /\ u = v => u \in lock.waiting
        BY <1>1, <1>4, <3>1, <3>2, <3>3
      <4>2. OneSeat(u)'
        BY <1>2, <2>1, <3>4, <4>1 DEF OneSeat, Placed, Claimed
      <4>3. Seated(u)'
        BY <1>2, <2>1, <3>4, <4>1 DEF Seated, Placed, Claimed
      <4>4. QED
        BY <4>2, <4>3
    <3>6. QED
      BY <1>1, <2>1, <3>4, <3>5 DEF SeatsOK
  <2>4. QED
    BY <2>2, <2>3
<1>17. CASE Blocks(t)
  <2>1. local' = On(t) /\ blocked' = blocked \union {t} /\ Free /\ UNCHANGED <<ready, incoming, lock, waiter, calls>>
    BY <1>17 DEF Blocks, Unscheduled
  <2>2. \A u : ~Runs(sch', u) /\ ~Wakens(sch', u)
    BY <1>1, <2>1, Freed
  <2>3. ASSUME NEW u \in Tasks PROVE OneSeat(u)' /\ Seated(u)'
    <3>1. /\ OneSeat(u) /\ Seated(u) /\ (u # t => local'[u].st = local[u].st) /\ (u = t => local'[u].st = "live")
          /\ (Runs(sch, u) => u = t) /\ (u \in blocked' <=> u \in blocked \/ u = t)
      BY <1>1, <1>2, <1>4, <1>5, <2>1 DEF Runs
    <3>2. OneSeat(u)'
      BY <1>2, <1>3, <2>1, <2>2, <3>1 DEF OneSeat, Placed, Claimed
    <3>3. Seated(u)'
      BY <1>2, <1>3, <2>1, <2>2, <3>1 DEF Seated, Placed, Claimed
    <3>4. QED
      BY <3>2, <3>3
  <2>4. QED
    BY <1>1, <2>1, <2>3 DEF SeatsOK
<1>18. CASE WaitsOnEvents(t)
  <2>1. /\ local' = [On(t) EXCEPT ![t].st = "asleep"] /\ waiter' = [waiter EXCEPT !.task = t, !.wakeable = TRUE]
        /\ sch' = [sch EXCEPT !.pc = "check events"] /\ UNCHANGED <<ready, incoming, lock, calls, blocked>>
    BY <1>18 DEF WaitsOnEvents
  <2>2. local'[t].st = "asleep" /\ waiter'.task = t /\ \A u : ~Runs(sch', u) /\ ~Wakens(sch', u)
    BY <1>1, <1>5, <2>1, Moved DEF Locals, Waiters
  <2>3. \A u : Awaits(waiter', thread', u) => u = t
    BY <2>2 DEF Awaits
  <2>4. ASSUME NEW u \in Tasks PROVE OneSeat(u)' /\ Seated(u)'
    <3>1. OneSeat(u) /\ Seated(u) /\ (u # t => local'[u].st = local[u].st) /\ (u = t => local'[u].st = "asleep") /\ (Runs(sch, u) => u = t)
      BY <1>1, <1>2, <1>4, <2>2 DEF Runs
    <3>2. OneSeat(u)'
      BY <1>2, <1>3, <2>1, <2>2, <2>3, <3>1 DEF OneSeat, Placed, Claimed
    <3>3. Seated(u)'
      BY <1>2, <1>3, <2>1, <2>2, <2>3, <3>1 DEF Seated, Placed, Claimed
    <3>4. QED
      BY <3>2, <3>3
  <2>5. QED
    BY <1>1, <2>1, <2>4 DEF SeatsOK
<1>19. QED
  BY <1>6, <1>8, <1>9, <1>10, <1>11, <1>12, <1>13, <1>14, <1>15, <1>16, <1>17, <1>18 DEF ProgramStep, Program

\* Requests of different tasks are as many as these are.
LEMMA AsManyTasks ==
  ASSUME NEW S, NEW q \in Seq(S), OncePerTask(q)
  PROVE  Cardinality({i.task : i \in ToSet(q)}) = Len(q)
<1> DEFINE n == Len(q)
           T == {i.task : i \in ToSet(q)}
           g == [k \in 1 .. n |-> q[k].task]
<1>1. n \in Nat /\ DOMAIN q = 1 .. n
  OBVIOUS
<1>2. \A k \in 1 .. n : q[k] \in ToSet(q)
  BY <1>1 DEF ToSet
<1>3. g \in [1 .. n -> T]
  BY <1>2
<1>4. \A t \in T : \E k \in 1 .. n : g[k] = t
  <2>1. ASSUME NEW t \in T PROVE \E k \in 1 .. n : g[k] = t
    <3>1. PICK i \in ToSet(q) : i.task = t
      OBVIOUS
    <3>2. PICK k \in 1 .. n : q[k] = i
      BY <1>1 DEF ToSet
    <3>3. QED
      BY <3>1, <3>2
  <2>2. QED
    BY <2>1
<1>5. \A j, k \in 1 .. n : g[j] = g[k] => j = k
  BY <1>1 DEF OncePerTask
<1> HIDE DEF g, T, n
<1>6. g \in Bijection(1 .. n, T)
  BY <1>3, <1>4, <1>5 DEF Bijection, Injection, Surjection, IsInjective
<1>7. ExistsBijection(1 .. n, T)
  BY <1>6 DEF ExistsBijection
<1>8. QED
  BY <1>1, <1>7, FS_CountingElements DEF n, T

\* The assertions of the hub hold.
LEMMA HubLives ==
  ASSUME TypeOK, SeatsOK, HubOK(hub, entries)
  PROVE  /\ Drain => /\ hub' = [hub EXCEPT !.pc = IF hub.back = {} THEN "scan" ELSE "return"]
                     /\ incoming' = <<>> /\ UNCHANGED <<ready, local>>
                     /\ \A t : t \in DOMAIN entries' <=> t \in DOMAIN entries \/ Queued(incoming, t)
                     /\ \A t \in DOMAIN entries : entries'[t] = entries[t]
                     /\ \A t : Queued(incoming, t) =>
                          \E i \in DOMAIN incoming : /\ incoming[i].task = t
                                                     /\ entries'[t] = [files |-> incoming[i].files, left |-> incoming[i].left]
         /\ Return => \E t \in hub.back :
              /\ t \in DOMAIN entries /\ t \in Tasks
              /\ entries' = Without(entries, {t}) /\ local' = [local EXCEPT ![t].rv = hub.got \intersect entries[t].files]
              /\ ready' = Append(ready, Item(t)) /\ hub' = [hub EXCEPT !.pc = "set", !.back = @ \ {t}] /\ incoming' = incoming
<1>1. /\ incoming \in Seq(Requests(Files)) /\ OncePerTask(incoming) /\ DOMAIN entries \subseteq Tasks /\ hub.back \subseteq DOMAIN entries
      /\ \A t \in Tasks : OneSeat(t)
  BY DEF TypeOK, SeatsOK, HubOK
<1>2. ASSUME Drain
      PROVE  /\ hub' = [hub EXCEPT !.pc = IF hub.back = {} THEN "scan" ELSE "return"]
             /\ incoming' = <<>> /\ UNCHANGED <<ready, local>>
             /\ \A t : t \in DOMAIN entries' <=> t \in DOMAIN entries \/ Queued(incoming, t)
             /\ \A t \in DOMAIN entries : entries'[t] = entries[t]
             /\ \A t : Queued(incoming, t) =>
                  \E i \in DOMAIN incoming : /\ incoming[i].task = t
                                             /\ entries'[t] = [files |-> incoming[i].files, left |-> incoming[i].left]
    <2>1. \A t \in DOMAIN entries : ~Queued(incoming, t)
      BY <1>1 DEF OneSeat
    <2>2. Cardinality({i.task : i \in ToSet(incoming)}) = Len(incoming) /\ Len(incoming) \in Nat
      BY <1>1, AsManyTasks
    <2>3. hub.pc = "drain"
      BY <1>2 DEF Drain
    <2>4. ~(Cardinality({i.task : i \in ToSet(incoming)}) < Len(incoming))
      BY <2>2
    <2>5. QED
      BY <1>2, <2>1, <2>3, <2>4, TakesIn
<1>3. ASSUME Return
      PROVE  \E t \in hub.back :
              /\ t \in DOMAIN entries /\ t \in Tasks
              /\ entries' = Without(entries, {t}) /\ local' = [local EXCEPT ![t].rv = hub.got \intersect entries[t].files]
              /\ ready' = Append(ready, Item(t)) /\ hub' = [hub EXCEPT !.pc = "set", !.back = @ \ {t}] /\ incoming' = incoming
  <2>1. \A t \in hub.back : t \in DOMAIN entries /\ t \in Tasks /\ ~IsReady(t)
    BY <1>1 DEF OneSeat, HasItem, IsReady
  <2>2. QED
    BY <1>3, <2>1 DEF Return
<1>4. QED
  BY <1>2, <1>3

\* ... by the hub.
LEMMA HubSeats ==
  ASSUME SchedInv, TypeOK', Hub
  PROVE  SeatsOK'
<1> USE DEF schedulerVars, syncVars, threadVars
<1>1. /\ TypeOK /\ SeatsOK /\ HubOK(hub, entries) /\ ready \in Seq(Items) /\ local \in [Tasks -> Locals(Files)]
      /\ Once(ready) /\ OncePerTask(incoming) /\ \A u \in Tasks : OneSeat(u) /\ Seated(u)
  BY DEF SchedInv, Ordered, TypeOK, SeatsOK
<1>2. /\ job' = job /\ UNCHANGED <<sch, lock, waiter, calls, blocked, thread>>
      /\ \A u : ToStart(job', local', thread', u) => ToStart(job, local, thread, u)
  <2>1. Next
    BY DEF Next
  <2>2. QED
    BY <2>1, Onward DEF Hub
<1>3. CASE UNCHANGED <<ready, local, incoming, entries>>
  <2>1. ASSUME NEW u \in Tasks PROVE OneSeat(u)' /\ Seated(u)'
    <3>1. OneSeat(u) /\ Seated(u)
      BY <1>1
    <3>2. QED
      BY <1>2, <1>3, <3>1 DEF OneSeat, Seated, Placed, Claimed
  <2>2. QED
    BY <1>1, <1>3, <2>1 DEF SeatsOK
<1>4. CASE Drain
  <2>1. /\ incoming' = <<>> /\ UNCHANGED <<ready, local>>
        /\ \A t : t \in DOMAIN entries' <=> t \in DOMAIN entries \/ Queued(incoming, t)
    BY <1>1, <1>4, HubLives
  <2>2. OncePerTask(incoming') /\ \A u : ~Queued(incoming', u)
    BY <2>1 DEF OncePerTask, Queued
  <2>3. ASSUME NEW u \in Tasks PROVE OneSeat(u)' /\ Seated(u)'
    <3>1. OneSeat(u) /\ Seated(u)
      BY <1>1
    <3>2. OneSeat(u)'
      BY <1>2, <2>1, <2>2, <3>1 DEF OneSeat, Placed, Claimed
    <3>3. Seated(u)'
      BY <1>2, <2>1, <2>2, <3>1 DEF Seated, Placed, Claimed
    <3>4. QED
      BY <3>2, <3>3
  <2>4. QED
    BY <1>1, <2>1, <2>2, <2>3 DEF SeatsOK
<1>5. CASE Return
  <2>1. PICK t \in Tasks : /\ t \in DOMAIN entries /\ entries' = Without(entries, {t}) /\ incoming' = incoming
                           /\ local' = [local EXCEPT ![t].rv = hub.got \intersect entries[t].files]
                           /\ ready' = Append(ready, Item(t))
    BY <1>1, <1>5, HubLives
  <2>2. \A u : u \in DOMAIN entries' <=> u \in DOMAIN entries /\ u # t
    BY <2>1 DEF Without
  <2>3. ~HasItem(ready, t)
    BY <1>1, <2>1 DEF OneSeat
  <2>4. Once(ready') /\ (\A u : HasItem(ready', u) <=> HasItem(ready, u) \/ u = t) /\ (\A u : Told(ready', u) <=> Told(ready, u))
    BY <1>1, <2>1, <2>3, MadeReady
  <2>5. ASSUME NEW u \in Tasks PROVE local'[u].st = local[u].st
    <3>1. CASE u = t
      <4>1. local'[u] = [local[u] EXCEPT !.rv = hub.got \intersect entries[t].files] /\ local[u] \in Locals(Files)
        BY <1>1, <2>1, <3>1
      <4>2. QED
        BY <4>1 DEF Locals
    <3>2. CASE u # t
      BY <1>1, <2>1, <3>2
    <3>3. QED
      BY <3>1, <3>2
  <2>6. ASSUME NEW u \in Tasks PROVE OneSeat(u)' /\ Seated(u)'
    <3>1. OneSeat(u) /\ Seated(u) /\ (u = t => u \in DOMAIN entries)
      BY <1>1, <2>1
    <3>2. OneSeat(u)'
      BY <1>2, <2>1, <2>2, <2>4, <3>1 DEF OneSeat, Placed, Claimed
    <3>3. Seated(u)'
      BY <1>2, <2>1, <2>2, <2>4, <2>5, <3>1 DEF Seated, Placed, Claimed
    <3>4. QED
      BY <3>2, <3>3
  <2>7. QED
    BY <1>1, <2>1, <2>4, <2>6 DEF SeatsOK
<1>6. QED
  BY <1>3, <1>4, <1>5 DEF Hub, HubStep, Scan, Select, pongAll, break_idle

\* ... by the scheduler between slices, and by calls that block.
LEMMA SchedulerSeats ==
  ASSUME SchedInv, TypeOK', Switches \/ Rings \/ CheckStep \/ SetStep \/ \E t \in Tasks : BlockingStep(t)
  PROVE  SeatsOK'
<1> USE DEF schedulerVars, syncVars, hubVars
<1>1. /\ TypeOK /\ SeatsOK /\ WaiterOK(job, waiter, thread) /\ SchOK(sch) /\ ready \in Seq(Items) /\ waiter \in Waiters
      /\ Once(ready) /\ OncePerTask(incoming) /\ \A u \in Tasks : OneSeat(u) /\ Seated(u)
  BY DEF SchedInv, Ordered, TypeOK, SeatsOK
<1>2. /\ job' = job /\ UNCHANGED <<local, incoming, entries, lock, calls, thread>>
      /\ \A u : ToStart(job', local', thread', u) => ToStart(job, local, thread, u)
  <2>1. Next
    BY DEF Next, Sched, SchedulerStep, OtherThreads, Switches, Rings, CheckStep, SetStep, BlockingStep,
       OthersWait
  <2>2. QED
    BY <1>1, <2>1, Onward DEF Switches, Rings, CheckStep, ChecksEvents, SetStep, BlockingStep,
       BlockingEnds, BlockingSets, OthersWait
<1>3. SUFFICES Once(ready') /\ \A u \in Tasks : OneSeat(u)' /\ Seated(u)'
  BY <1>1, <1>2 DEF SeatsOK
<1>4. CASE cycle /\ UNCHANGED <<waiter, blocked>>
  <2>1. ready # <<>> /\ sch.pc = "check"
    BY <1>4 DEF cycle
  <2>2. \A u : ~Runs(sch, u) /\ ~Wakens(sch, u)
    BY <2>1 DEF Runs, Wakens
  <2>3. /\ Tail(ready) \in Seq(Items) /\ Once(Tail(ready)) /\ Head(ready) \in Items /\ Head(ready).task \in Tasks
        /\ Head(ready) = IF Head(ready).wake THEN ScheduleTask(Head(ready).task) ELSE Item(Head(ready).task)
        /\ \A t : HasItem(Tail(ready), t) <=> HasItem(ready, t) /\ ~(t = Head(ready).task /\ ~Head(ready).wake)
        /\ \A t : Told(Tail(ready), t) <=> Told(ready, t) /\ ~(t = Head(ready).task /\ Head(ready).wake)
        /\ IF Head(ready).wake THEN Told(ready, Head(ready).task) ELSE HasItem(ready, Head(ready).task)
    BY <1>1, <2>1, TakenOut
  <2>4. CASE /\ sch' = [sch EXCEPT !.pc = IF Head(ready).wake THEN "wake" ELSE "run", !.task = Head(ready).task]
             /\ ready' = Tail(ready)
    <3>1. sch'.task = Head(ready).task /\ sch'.pc = IF Head(ready).wake THEN "wake" ELSE "run"
      BY <1>1, <2>4 DEF SchOK, Slices
    <3>2. \A u : /\ Runs(sch', u) <=> ~Head(ready).wake /\ u = Head(ready).task
                 /\ Wakens(sch', u) <=> Head(ready).wake /\ u = Head(ready).task
      BY <3>1 DEF Runs, Wakens
    <3>3. ASSUME NEW u \in Tasks PROVE OneSeat(u)' /\ Seated(u)'
      <4>1. OneSeat(u) /\ Seated(u)
        BY <1>1
      <4>2. OneSeat(u)'
        BY <1>2, <1>4, <2>2, <2>3, <2>4, <3>2, <4>1 DEF OneSeat, Placed, Claimed
      <4>3. Seated(u)'
        BY <1>2, <1>4, <2>2, <2>3, <2>4, <3>2, <4>1 DEF Seated, Placed, Claimed
      <4>4. QED
        BY <4>2, <4>3
    <3>4. QED
      BY <2>3, <2>4, <3>3
  <2>5. CASE ~Head(ready).wake /\ ready' = Append(Tail(ready), Head(ready)) /\ UNCHANGED sch
    <3> DEFINE x == Head(ready).task
    <3>1. ready' = Append(Tail(ready), Item(x)) /\ ~HasItem(Tail(ready), x) /\ x \in Tasks
      BY <2>3, <2>5
    <3>2. /\ Once(ready') /\ (\A u : HasItem(ready', u) <=> HasItem(Tail(ready), u) \/ u = x)
          /\ \A u : Told(ready', u) <=> Told(Tail(ready), u)
      BY <2>3, <3>1, MadeReady
    <3>3. \A u : (HasItem(ready', u) <=> HasItem(ready, u)) /\ (Told(ready', u) <=> Told(ready, u))
      BY <2>3, <2>5, <3>2
    <3>4. ASSUME NEW u \in Tasks PROVE OneSeat(u)' /\ Seated(u)'
      <4>1. OneSeat(u) /\ Seated(u)
        BY <1>1
      <4>2. QED
        BY <1>2, <1>4, <2>5, <3>3, <4>1 DEF OneSeat, Seated, Placed, Claimed
    <3>5. QED
      BY <3>2, <3>4
  <2>6. QED
    BY <1>4, <2>4, <2>5 DEF cycle
<1>5. CASE (idle \/ Waited \/ Cleared \/ Pings \/ Quit) /\ UNCHANGED <<waiter, blocked>>
  <2>1. ready' = ready /\ (Free \/ \E pc \in {"wait", "clear", "check", "done"} : sch' = [sch EXCEPT !.pc = pc])
    BY <1>5 DEF idle, Waited, Cleared, Pings, Quit
  <2>2. \A u : ~Runs(sch, u) /\ ~Wakens(sch, u)
    BY <1>5 DEF idle, Waited, Cleared, Pings, Quit, Runs, Wakens
  <2>3. \A u : ~Runs(sch', u) /\ ~Wakens(sch', u)
    BY <1>1, <2>1, Freed, Moved
  <2>4. ASSUME NEW u \in Tasks PROVE OneSeat(u)' /\ Seated(u)'
    <3>1. OneSeat(u) /\ Seated(u)
      BY <1>1
    <3>2. QED
      BY <1>2, <1>5, <2>1, <2>2, <2>3, <3>1 DEF OneSeat, Seated, Placed, Claimed
  <2>5. QED
    BY <1>1, <2>1, <2>4
<1>6. CASE Wakes /\ UNCHANGED <<waiter, blocked>>
  <2> DEFINE x == sch.task
  <2>1. x \in Tasks /\ Wakens(sch, x) /\ (\A u : Wakens(sch, u) => u = x) /\ \A u : ~Runs(sch, u)
    BY <1>1, <1>6 DEF Wakes, SchOK, Wakens, Runs
  <2>2. \A u : ~Runs(sch', u) /\ ~Wakens(sch', u)
    BY <1>1, <1>6, Freed DEF Wakes
  <2>3. Once(ready') /\ (\A u : HasItem(ready', u) <=> HasItem(ready, u) \/ u = x) /\ (\A u : Told(ready', u) <=> Told(ready, u))
    <3>1. CASE IsReady(x)
      BY <1>1, <1>6, <3>1 DEF Wakes, IsReady, HasItem
    <3>2. CASE ~IsReady(x)
      <4>1. ready' = <<Item(x)>> \o ready /\ ~HasItem(ready, x)
        BY <1>6, <3>2 DEF Wakes, IsReady, HasItem
      <4>2. QED
        BY <1>1, <2>1, <4>1, PutFirst
    <3>3. QED
      BY <3>1, <3>2
  <2>4. ASSUME NEW u \in Tasks PROVE OneSeat(u)' /\ Seated(u)'
    <3>1. OneSeat(u) /\ Seated(u)
      BY <1>1
    <3>2. OneSeat(u)'
      BY <1>2, <1>6, <2>1, <2>2, <2>3, <3>1 DEF OneSeat, Placed, Claimed
    <3>3. Seated(u)'
      BY <1>2, <1>6, <2>1, <2>2, <2>3, <3>1 DEF Seated, Placed, Claimed
    <3>4. QED
      BY <3>2, <3>3
  <2>5. QED
    BY <2>3, <2>4
<1>7. CASE CheckStep
  <2> DEFINE b == ~CanWake /\ waiter.wakeable
  <2>1. /\ sch.pc = "check events" /\ waiter' = [waiter EXCEPT !.wakeable = b] /\ Free /\ blocked' = blocked
        /\ IF CanWake THEN schedule(waiter.task) ELSE ready' = ready
    BY <1>7 DEF CheckStep, ChecksEvents
  <2>2. \A u : ~Runs(sch, u) /\ ~Wakens(sch, u) /\ ~Runs(sch', u) /\ ~Wakens(sch', u)
    BY <1>1, <2>1, Freed DEF Runs, Wakens
  <2>3. waiter'.task = waiter.task /\ waiter'.wakeable = b
    <3> HIDE DEF b
    <3>1. QED
      BY <1>1, <2>1 DEF Waiters
  <2>4. CASE CanWake
    <3> DEFINE x == waiter.task
    <3>1. x \in Tasks /\ Awaits(waiter, thread, x) /\ schedule(x) /\ \A u : ~Awaits(waiter', thread', u)
      BY <1>1, <1>2, <2>1, <2>3, <2>4 DEF CanWake, Awaits, WaiterOK, Waiters
    <3>2. Once(ready') /\ (\A u : HasItem(ready', u) <=> HasItem(ready, u) \/ u = x) /\ (\A u : Told(ready', u) <=> Told(ready, u))
      BY <1>1, <3>1, Scheduled
    <3>3. ASSUME NEW u \in Tasks PROVE OneSeat(u)' /\ Seated(u)'
      <4>1. OneSeat(u) /\ Seated(u)
        BY <1>1
      <4>2. OneSeat(u)'
        BY <1>2, <2>1, <2>2, <3>1, <3>2, <4>1 DEF OneSeat, Placed, Claimed
      <4>3. Seated(u)'
        BY <1>2, <2>1, <2>2, <3>1, <3>2, <4>1 DEF Seated, Placed, Claimed
      <4>4. QED
        BY <4>2, <4>3
    <3>4. QED
      BY <3>2, <3>3
  <2>5. CASE ~CanWake
    <3>1. ready' = ready /\ \A u : Awaits(waiter', thread', u) <=> Awaits(waiter, thread, u)
      BY <1>1, <1>2, <2>1, <2>3, <2>5 DEF Awaits, Waiters
    <3>2. ASSUME NEW u \in Tasks PROVE OneSeat(u)' /\ Seated(u)'
      <4>1. OneSeat(u) /\ Seated(u)
        BY <1>1
      <4>2. QED
        BY <1>2, <2>1, <2>2, <3>1, <4>1 DEF OneSeat, Seated, Placed, Claimed
    <3>3. QED
      BY <1>1, <3>1, <3>2
  <2>6. QED
    BY <2>4, <2>5
<1>8. CASE SetStep
  <2>1. UNCHANGED <<ready, sch, waiter, blocked>>
    BY <1>8 DEF SetStep, BlockingSets
  <2>2. ASSUME NEW u \in Tasks PROVE OneSeat(u)' /\ Seated(u)'
    <3>1. OneSeat(u) /\ Seated(u)
      BY <1>1
    <3>2. QED
      BY <1>2, <2>1, <3>1 DEF OneSeat, Seated, Placed, Claimed
  <2>3. QED
    BY <1>1, <2>1, <2>2
<1>9. CASE \E t \in Tasks : BlockingStep(t)
  <2>1. PICK t \in Tasks : t \in blocked /\ blocked' = blocked \ {t} /\ ready' = Append(ready, Item(t)) /\ UNCHANGED <<sch, waiter>>
    BY <1>9 DEF BlockingStep, BlockingEnds
  <2>2. ~HasItem(ready, t)
    BY <1>1, <2>1 DEF OneSeat
  <2>3. Once(ready') /\ (\A u : HasItem(ready', u) <=> HasItem(ready, u) \/ u = t) /\ (\A u : Told(ready', u) <=> Told(ready, u))
    BY <1>1, <2>1, <2>2, MadeReady
  <2>4. ASSUME NEW u \in Tasks PROVE OneSeat(u)' /\ Seated(u)'
    <3>1. OneSeat(u) /\ Seated(u) /\ (u \in blocked' <=> u \in blocked /\ u # t) /\ (u = t => u \in blocked)
      BY <1>1, <2>1
    <3>2. OneSeat(u)'
      BY <1>2, <2>1, <2>3, <3>1 DEF OneSeat, Placed, Claimed
    <3>3. Seated(u)'
      BY <1>2, <2>1, <2>3, <3>1 DEF Seated, Placed, Claimed
    <3>4. QED
      BY <3>2, <3>3
  <2>5. QED
    BY <2>3, <2>4
<1>10. QED
  BY <1>4, <1>5, <1>6, <1>7, <1>8, <1>9 DEF Switches, Switching, Rings

\* ... by timers.
LEMMA TimerSeats ==
  ASSUME SchedInv, TypeOK', NEW t \in Tasks, TimerStep(t)
  PROVE  SeatsOK'
<1> USE DEF schedulerVars, syncVars
<1>1. /\ TypeOK /\ SeatsOK /\ WaiterOK(job, waiter, thread) /\ SchOK(sch) /\ ready \in Seq(Items)
      /\ Once(ready) /\ OncePerTask(incoming) /\ \A u \in Tasks : OneSeat(u) /\ Seated(u)
      /\ local \in [Tasks -> Locals(Files)] /\ local[t].next \in 0 .. Forever
  BY DEF SchedInv, Ordered, TypeOK, SeatsOK, Locals
<1>2. /\ job' = job /\ thread' = thread /\ entries' = entries /\ Runs(sch, t)
      /\ \A u : ToStart(job', local', thread', u) => ToStart(job, local, thread, u)
  <2>1. Running(t)
    BY DEF TimerStep, TimerSleeps, TimerEnds, TimerFires
  <2>2. Next
    BY <2>1 DEF Next, Sched, SchedulerStep, TimerStep, OthersWait
  <2>3. QED
    BY <1>1, <2>1, <2>2, Onward DEF TimerStep, Running, Runs, OthersWait, hubVars
<1>3. /\ ~HasItem(ready, t) /\ ~Queued(incoming, t) /\ t \notin DOMAIN entries /\ t \notin blocked /\ t \notin lock.waiting
      /\ ~Told(ready, t) /\ ~Wakens(sch, t) /\ ~Awaits(waiter, thread, t) /\ ~ToStart(job, local, thread, t) /\ ~Uncalled(calls, t)
  BY <1>1, <1>2, RunsAlone
<1>4. \A u \in Tasks : Runs(sch, u) => u = t
  BY <1>2 DEF Runs
<1>5. CASE TimerSleeps(t)
  <2>1. /\ local' = [local EXCEPT ![t].st = "live", ![t].at = 2, ![t].next = 0] /\ UNCHANGED <<lock, waiter, calls, blocked>>
        /\ Sleep(t, local[t].next)
    BY <1>5 DEF TimerSleeps
  <2>2. /\ OncePerTask(incoming') /\ Once(ready') /\ \A u : Told(ready', u) <=> Told(ready, u)
        /\ \A u : ~Runs(sch', u) /\ ~Wakens(sch', u)
        /\ \/ (\A u : Queued(incoming', u) <=> Queued(incoming, u) \/ u = t) /\ ready' = ready
           \/ (\A u : HasItem(ready', u) <=> HasItem(ready, u) \/ u = t) /\ incoming' = incoming
    BY <1>1, <1>2, <2>1, Slept
  <2>3. local'[t].st = "live" /\ \A u \in Tasks : u # t => local'[u].st = local[u].st
    BY <1>1, <2>1 DEF Locals
  <2>4. ASSUME NEW u \in Tasks PROVE OneSeat(u)' /\ Seated(u)'
    <3>1. OneSeat(u) /\ Seated(u)
      BY <1>1
    <3>2. OneSeat(u)'
      BY <1>2, <1>3, <1>4, <2>1, <2>2, <3>1 DEF OneSeat, Placed, Claimed
    <3>3. Seated(u)'
      BY <1>2, <1>4, <2>1, <2>2, <2>3, <3>1 DEF Seated, Placed, Claimed
    <3>4. QED
      BY <3>2, <3>3
  <2>5. QED
    BY <2>2, <2>4 DEF SeatsOK
<1>6. CASE TimerEnds(t)
  <2>1. local' = [local EXCEPT ![t].st = "done"] /\ Free /\ UNCHANGED <<ready, incoming, lock, waiter, calls, blocked>>
    BY <1>6 DEF TimerEnds, Ends, Unscheduled
  <2>2. \A u : ~Runs(sch', u) /\ ~Wakens(sch', u)
    BY <1>1, <2>1, Freed
  <2>3. local'[t].st = "done" /\ \A u \in Tasks : u # t => local'[u].st = local[u].st
    BY <1>1, <2>1 DEF Locals
  <2>4. ASSUME NEW u \in Tasks PROVE OneSeat(u)' /\ Seated(u)'
    <3>1. OneSeat(u) /\ Seated(u)
      BY <1>1
    <3>2. OneSeat(u)'
      BY <1>2, <2>1, <2>2, <3>1 DEF OneSeat, Placed, Claimed
    <3>3. Seated(u)'
      BY <1>2, <1>3, <1>4, <2>1, <2>2, <2>3, <3>1 DEF Seated, Placed, Claimed
    <3>4. QED
      BY <3>2, <3>3
  <2>5. QED
    BY <1>1, <2>1, <2>4 DEF SeatsOK
<1>7. CASE TimerFires(t)
  <2>1. /\ OpOK(Timer(t).f) /\ Timer(t).f.op # "start" /\ Do(Timer(t).f, Fired(t)) /\ UNCHANGED <<incoming, blocked>>
        /\ Fired(t) \in [Tasks -> Locals(Files)] /\ \A u \in Tasks : Fired(t)[u].st = local[u].st
    BY <1>1, <1>7, FiredLocal
  <2>2. \A u \in Tasks : local'[u].st = local[u].st
    BY <1>1, <2>1, DoLocal
  <2>3. /\ Once(ready') /\ sch' = sch /\ lock' = lock
        /\ \A u : Told(ready', u) <=> Told(ready, u)
        /\ \A u : HasItem(ready, u) => HasItem(ready', u)
        /\ \A u : HasItem(ready', u) => \/ HasItem(ready, u)
                                        \/ Awaits(waiter, thread, u) /\ ~Awaits(waiter', thread', u)
                                        \/ ToStart(job, local, thread, u) /\ ~ToStart(job', local', thread', u)
                                        \/ Uncalled(calls, u) /\ ~Uncalled(calls', u)
        /\ \A u : (Awaits(waiter', thread', u) => Awaits(waiter, thread, u)) /\ (Uncalled(calls', u) => Uncalled(calls, u))
    BY <1>1, <1>2, <2>1, DoSeats
  <2>4. ASSUME NEW u \in Tasks PROVE OneSeat(u)' /\ Seated(u)'
    <3>1. OneSeat(u) /\ Seated(u) /\ local'[u].st = local[u].st
      BY <1>1, <2>2
    <3>2. OneSeat(u)'
      BY <1>2, <2>1, <2>3, <3>1 DEF OneSeat, Placed, Claimed
    <3>3. Seated(u)'
      BY <1>2, <2>1, <2>3, <3>1 DEF Seated, Placed, Claimed
    <3>4. QED
      BY <3>2, <3>3
  <2>5. QED
    BY <1>1, <2>1, <2>3, <2>4 DEF SeatsOK
<1>8. QED
  BY <1>5, <1>6, <1>7 DEF TimerStep

\* ... by CallLaterTask.
LEMMA CallerSeats ==
  ASSUME SchedInv, TypeOK', CallerStep
  PROVE  SeatsOK'
<1> USE DEF schedulerVars, syncVars
<1>1. /\ TypeOK /\ SeatsOK /\ SchOK(sch) /\ ready \in Seq(Items) /\ Caller \in Tasks
      /\ Once(ready) /\ OncePerTask(incoming) /\ \A u \in Tasks : OneSeat(u) /\ Seated(u)
      /\ local \in [Tasks -> Locals(Files)]
      /\ calls = [started |-> calls.started, queue |-> calls.queue]
  BY TasksAssumption DEF SchedInv, Ordered, TypeOK, SeatsOK
<1>2. /\ job' = job /\ thread' = thread /\ entries' = entries /\ Runs(sch, Caller) /\ UNCHANGED <<lock, waiter, blocked>>
      /\ \A u : ToStart(job', local', thread', u) => ToStart(job, local, thread, u)
  <2>1. Next
    BY DEF Next, Sched, SchedulerStep, CallerStep, OthersWait
  <2>2. QED
    BY <1>1, <2>1, Onward DEF CallerStep, CallerSelects, CallerPongs, CallerPops, Running, Runs,
       OthersWait, hubVars
<1>3. /\ ~HasItem(ready, Caller) /\ ~Queued(incoming, Caller) /\ Caller \notin DOMAIN entries /\ Caller \notin blocked
      /\ Caller \notin lock.waiting /\ ~Told(ready, Caller) /\ ~Wakens(sch, Caller) /\ ~Awaits(waiter, thread, Caller)
      /\ ~ToStart(job, local, thread, Caller) /\ ~Uncalled(calls, Caller)
  BY <1>1, <1>2, RunsAlone
<1>4. CASE CallerSelects
  <2>1. /\ local' = [local EXCEPT ![Caller].st = "live", ![Caller].at = 2] /\ UNCHANGED calls
        /\ registerSelect(Caller, {CallPinger}, Forever)
    BY <1>4 DEF CallerSelects
  <2>2. {CallPinger} \in SUBSET Files /\ Forever \in 0 .. Forever
    BY TasksAssumption DEF Files, Forever
  <2>3. /\ OncePerTask(incoming') /\ ready' = ready /\ \A u : ~Runs(sch', u) /\ ~Wakens(sch', u)
        /\ \A u : Queued(incoming', u) <=> Queued(incoming, u) \/ u = Caller
    BY <1>1, <1>3, <2>1, <2>2, Registered
  <2>4. local'[Caller].st = "live" /\ \A u \in Tasks : u # Caller => local'[u].st = local[u].st
    BY <1>1, <2>1 DEF Locals
  <2>5. ASSUME NEW u \in Tasks PROVE OneSeat(u)' /\ Seated(u)'
    <3>1. OneSeat(u) /\ Seated(u) /\ (Runs(sch, u) => u = Caller)
      BY <1>1, <1>2 DEF Runs
    <3>2. OneSeat(u)'
      BY <1>2, <1>3, <2>1, <2>3, <3>1 DEF OneSeat, Placed, Claimed
    <3>3. Seated(u)'
      BY <1>2, <2>1, <2>3, <2>4, <3>1 DEF Seated, Placed, Claimed
    <3>4. QED
      BY <3>2, <3>3
  <2>6. QED
    BY <1>1, <2>3, <2>5 DEF SeatsOK
<1>5. CASE CallerPongs \/ CallerPops
  <2>1. /\ UNCHANGED <<ready, incoming>> /\ calls'.started = calls.started
        /\ local' = local \/ local' = [local EXCEPT ![Caller].at = 3]
        /\ sch'.pc = sch.pc /\ sch'.task = sch.task
    BY <1>1, <1>5 DEF CallerPongs, CallerPops, SchOK, Slices
  <2>2. ASSUME NEW u \in Tasks PROVE local'[u].st = local[u].st
    <3>1. CASE local' = local \/ u # Caller
      BY <1>1, <2>1, <3>1
    <3>2. CASE local' = [local EXCEPT ![Caller].at = 3] /\ u = Caller
      <4>1. local'[u] = [local[u] EXCEPT !.at = 3] /\ local[u] \in Locals(Files)
        BY <1>1, <3>2
      <4>2. QED
        BY <4>1 DEF Locals
    <3>3. QED
      BY <2>1, <3>1, <3>2
  <2>3. \A u : /\ Runs(sch', u) <=> Runs(sch, u)
               /\ Wakens(sch', u) <=> Wakens(sch, u)
               /\ Uncalled(calls', u) <=> Uncalled(calls, u)
    BY <2>1 DEF Runs, Wakens, Uncalled
  <2>4. ASSUME NEW u \in Tasks PROVE OneSeat(u)' /\ Seated(u)'
    <3>1. OneSeat(u) /\ Seated(u) /\ local'[u].st = local[u].st
      BY <1>1, <2>2
    <3>2. QED
      BY <1>2, <2>1, <2>3, <3>1 DEF OneSeat, Seated, Placed, Claimed
  <2>5. QED
    BY <1>1, <2>1, <2>4 DEF SeatsOK
<1>6. QED
  BY <1>4, <1>5 DEF CallerStep

\* A timer that opens a worker is set up: it was nowhere.
LEMMA SetUpSeats ==
  ASSUME TypeOK, SeatsOK, NEW l \in [Tasks -> Locals(Files)], \A u \in Tasks : l[u].st = local[u].st,
         NEW t, NEW d, SetsUp(l, t, d), job' = job, calls'.started = calls.started,
         UNCHANGED <<sch, entries, incoming, lock, waiter, blocked, thread>>,
         \A u : ToStart(job', local', thread', u) => ToStart(job, local, thread, u)
  PROVE  SeatsOK'
<1>1. /\ t \in Tasks /\ local[t].st = "done" /\ local'[t].st = "asleep" /\ schedule(t)
      /\ \A u \in Tasks : u # t => local'[u].st = local[u].st
  BY SetUpLocal DEF SetsUp
<1>2. /\ ready \in Seq(Items) /\ Once(ready) /\ OncePerTask(incoming) /\ \A u \in Tasks : OneSeat(u) /\ Seated(u)
  BY DEF TypeOK, SeatsOK
<1>3. Once(ready') /\ (\A u : HasItem(ready', u) <=> HasItem(ready, u) \/ u = t) /\ (\A u : Told(ready', u) <=> Told(ready, u))
  BY <1>1, <1>2, Scheduled
<1>4. ~Placed(t) /\ ~Claimed(t)
  BY <1>1, <1>2 DEF Seated
<1>5. \A u : Uncalled(calls', u) <=> Uncalled(calls, u)
  BY DEF Uncalled
<1>6. ASSUME NEW u \in Tasks PROVE OneSeat(u)' /\ Seated(u)'
  <2>1. OneSeat(u) /\ Seated(u)
    BY <1>2
  <2>2. OneSeat(u)'
    BY <1>3, <1>4, <1>5, <2>1 DEF OneSeat, Placed, Claimed
  <2>3. Seated(u)'
    BY <1>1, <1>3, <1>4, <1>5, <2>1 DEF Seated, Placed, Claimed
  <2>4. QED
    BY <2>2, <2>3
<1>7. QED
  BY <1>2, <1>3, <1>6 DEF SeatsOK

\* ... by what sets up a timer.
LEMMA WorkSeats ==
  ASSUME SchedInv, TypeOK', LostStep \/ \E w \in Workers : WorkStep(w)
  PROVE  SeatsOK'
<1>1. /\ TypeOK /\ SeatsOK /\ Once(ready) /\ OncePerTask(incoming) /\ \A u \in Tasks : OneSeat(u) /\ Seated(u)
      /\ local \in [Tasks -> Locals(Files)]
  BY DEF SchedInv, Ordered, TypeOK, SeatsOK
<1>2. /\ job' = job /\ \A u : ToStart(job', local', thread', u) => ToStart(job, local, thread, u)
  <2>1. Next
    BY DEF Next, Sched, SchedulerStep, LostStep, WorkStep, OthersWait
  <2>2. QED
    BY <1>1, <2>1, Onward
<1>3. CASE LostStep
  <2>1. UNCHANGED <<sch, entries, incoming, lock, waiter, blocked, thread>> /\ calls'.started = calls.started
    BY <1>3, LostDone
  <2>2. PICK t, d : SetsUp(local, t, d)
    BY <1>3, LostDone
  <2>3. QED
    BY <1>1, <1>2, <2>1, <2>2, SetUpSeats
<1>4. CASE \E w \in Workers : WorkStep(w)
  <2>1. PICK w \in Workers : WorkStep(w)
    BY <1>4
  <2>2. UNCHANGED <<sch, entries, incoming, lock, waiter, calls, blocked, thread>>
    BY <2>1, WorkDone
  <2>3. PICK f, t, d : (local' = Listed(f) /\ UNCHANGED ready) \/ SetsUp(Listed(f), t, d)
    BY <2>1, WorkDone
  <2>4. Listed(f) \in [Tasks -> Locals(Files)] /\ \A u \in Tasks : Listed(f)[u].st = local[u].st
    BY <1>1, ListedLocal
  <2>5. CASE local' = Listed(f) /\ UNCHANGED ready
    <3>1. ASSUME NEW u \in Tasks PROVE OneSeat(u)' /\ Seated(u)'
      <4>1. OneSeat(u) /\ Seated(u) /\ local'[u].st = local[u].st
        BY <1>1, <2>4, <2>5
      <4>2. QED
        BY <1>2, <2>2, <2>5, <4>1 DEF OneSeat, Seated, Placed, Claimed
    <3>2. QED
      BY <1>1, <2>2, <2>5, <3>1 DEF SeatsOK
  <2>6. CASE SetsUp(Listed(f), t, d)
    BY <1>1, <1>2, <2>2, <2>4, <2>6, SetUpSeats
  <2>7. QED
    BY <2>3, <2>5, <2>6
<1>5. QED
  BY <1>3, <1>4

\* ... by timers that open a worker.
LEMMA BeginSeats ==
  ASSUME SchedInv, TypeOK', NEW t \in Tasks, BeginStep(t)
  PROVE  SeatsOK'
<1> USE DEF schedulerVars, syncVars
<1>1. /\ TypeOK /\ SeatsOK /\ Once(ready) /\ OncePerTask(incoming) /\ \A u \in Tasks : OneSeat(u) /\ Seated(u)
      /\ local \in [Tasks -> Locals(Files)] /\ ready \in Seq(Items) /\ Caller \in Tasks
  BY TasksAssumption DEF SchedInv, Ordered, TypeOK, SeatsOK
<1>2. /\ job' = job /\ UNCHANGED <<sch, entries, incoming, lock, waiter, blocked, thread>>
      /\ \A u : ToStart(job', local', thread', u) => ToStart(job, local, thread, u)
  <2>1. Next
    BY DEF Next, Sched, SchedulerStep, BeginStep, OthersWait
  <2>2. QED
    BY <1>1, <2>1, Onward DEF BeginStep, Begins, OthersWait, hubVars
<1>3. local' = [local EXCEPT ![t].at = 3, ![t].since = 0]
  BY DEF BeginStep, Begins
<1>4. \A u \in Tasks : local'[u].st = local[u].st
  BY <1>1, <1>3 DEF Locals
<1>5. CASE UNCHANGED <<ready, calls>>
  <2>1. ASSUME NEW u \in Tasks PROVE OneSeat(u)' /\ Seated(u)'
    <3>1. OneSeat(u) /\ Seated(u) /\ local'[u].st = local[u].st
      BY <1>1, <1>4
    <3>2. QED
      BY <1>2, <1>5, <3>1 DEF OneSeat, Seated, Placed, Claimed
  <2>2. QED
    BY <1>1, <1>2, <1>5, <2>1 DEF SeatsOK
<1>6. CASE /\ calls' = [started |-> TRUE, queue |-> Append(calls.queue, "lost")]
           /\ IF calls.started THEN UNCHANGED <<ready, event>> ELSE schedule(Caller)
  <2>1. \A u : ~Uncalled(calls', u)
    BY <1>6 DEF Uncalled
  <2>2. CASE calls.started
    <3>1. ASSUME NEW u \in Tasks PROVE OneSeat(u)' /\ Seated(u)'
      <4>1. OneSeat(u) /\ Seated(u) /\ local'[u].st = local[u].st
        BY <1>1, <1>4
      <4>2. QED
        BY <1>2, <1>6, <2>1, <2>2, <4>1 DEF OneSeat, Seated, Placed, Claimed
    <3>2. QED
      BY <1>1, <1>2, <1>6, <2>2, <3>1 DEF SeatsOK
  <2>3. CASE ~calls.started
    <3>1. Uncalled(calls, Caller)
      BY <2>3 DEF Uncalled
    <3>2. Once(ready') /\ (\A u : HasItem(ready', u) <=> HasItem(ready, u) \/ u = Caller) /\ (\A u : Told(ready', u) <=> Told(ready, u))
      BY <1>1, <1>6, <2>3, Scheduled
    <3>3. ASSUME NEW u \in Tasks PROVE OneSeat(u)' /\ Seated(u)'
      <4>1. OneSeat(u) /\ Seated(u) /\ local'[u].st = local[u].st
        BY <1>1, <1>4
      <4>2. OneSeat(u)'
        BY <1>2, <2>1, <3>1, <3>2, <4>1 DEF OneSeat, Placed, Claimed
      <4>3. Seated(u)'
        BY <1>2, <2>1, <3>1, <3>2, <4>1 DEF Seated, Placed, Claimed
      <4>4. QED
        BY <4>2, <4>3
    <3>4. QED
      BY <1>1, <1>2, <3>2, <3>3 DEF SeatsOK
  <2>4. QED
    BY <2>2, <2>3
<1>7. QED
  BY <1>5, <1>6 DEF BeginStep, Begins

\* ... by the loop.
LEMMA LoopSeats ==
  ASSUME SchedInv, TypeOK', LoopStep
  PROVE  SeatsOK'
<1> USE DEF schedulerVars, syncVars, ioVars
<1>1. /\ TypeOK /\ SeatsOK /\ SchOK(sch) /\ ready \in Seq(Items) /\ Loop \in Tasks
      /\ Once(ready) /\ OncePerTask(incoming) /\ \A u \in Tasks : OneSeat(u) /\ Seated(u)
      /\ local \in [Tasks -> Locals(Files)] /\ members \subseteq Workers
  BY WorkersAssumption DEF SchedInv, Ordered, TypeOK, SeatsOK
<1>2. /\ job' = job /\ thread' = thread /\ entries' = entries /\ Runs(sch, Loop) /\ UNCHANGED <<lock, waiter, calls, blocked>>
      /\ \A u : ToStart(job', local', thread', u) => ToStart(job, local, thread, u)
  <2>1. Next
    BY DEF Next, Sched, SchedulerStep, LoopStep, OthersWait
  <2>2. QED
    BY <1>1, <2>1, Onward DEF LoopStep, LoopCommands, LoopSelects, LoopPongs, AtTop, Keeps, Running,
       Runs, OthersWait, hubVars
<1>3. /\ ~HasItem(ready, Loop) /\ ~Queued(incoming, Loop) /\ Loop \notin DOMAIN entries /\ Loop \notin blocked
      /\ Loop \notin lock.waiting /\ ~Told(ready, Loop) /\ ~Wakens(sch, Loop) /\ ~Awaits(waiter, thread, Loop)
      /\ ~ToStart(job, local, thread, Loop) /\ ~Uncalled(calls, Loop)
  BY <1>1, <1>2, RunsAlone
<1>4. CASE LoopSelects
  <2> DEFINE files == Ping \union {Readable(w) : w \in members} \union {Writable(w) : w \in {m \in members : ready_to_send(m)}}
  <2>1. local' = [local EXCEPT ![Loop].st = "live"] /\ registerSelect(Loop, files, Forever)
    BY <1>4 DEF LoopSelects
  <2>2. files \in SUBSET Files /\ Forever \in 0 .. Forever
    BY <1>1, TasksAssumption DEF Files, Ping, Forever
  <2> HIDE DEF files
  <2>3. /\ OncePerTask(incoming') /\ ready' = ready /\ \A u : ~Runs(sch', u) /\ ~Wakens(sch', u)
        /\ \A u : Queued(incoming', u) <=> Queued(incoming, u) \/ u = Loop
    BY <1>1, <1>3, <2>1, <2>2, Registered
  <2>4. local'[Loop].st = "live" /\ \A u \in Tasks : u # Loop => local'[u].st = local[u].st
    BY <1>1, <2>1 DEF Locals
  <2>5. ASSUME NEW u \in Tasks PROVE OneSeat(u)' /\ Seated(u)'
    <3>1. OneSeat(u) /\ Seated(u) /\ (Runs(sch, u) => u = Loop)
      BY <1>1, <1>2 DEF Runs
    <3>2. OneSeat(u)'
      BY <1>2, <1>3, <2>1, <2>3, <3>1 DEF OneSeat, Placed, Claimed
    <3>3. Seated(u)'
      BY <1>2, <2>1, <2>3, <2>4, <3>1 DEF Seated, Placed, Claimed
    <3>4. QED
      BY <3>2, <3>3
  <2>6. QED
    BY <1>1, <2>3, <2>5 DEF SeatsOK
<1>5. CASE LoopCommands \/ LoopPongs
  <2>1. UNCHANGED <<ready, sch, incoming>> /\ (local' = local \/ local' = [local EXCEPT ![Loop].rv = @ \ Ping])
    BY <1>5 DEF LoopCommands, LoopPongs
  <2>2. ASSUME NEW u \in Tasks PROVE local'[u].st = local[u].st
    <3>1. CASE local' = local \/ u # Loop
      BY <1>1, <2>1, <3>1
    <3>2. CASE local' = [local EXCEPT ![Loop].rv = @ \ Ping] /\ u = Loop
      <4>1. local'[u] = [local[u] EXCEPT !.rv = @ \ Ping] /\ local[u] \in Locals(Files)
        BY <1>1, <3>2
      <4>2. QED
        BY <4>1 DEF Locals
    <3>3. QED
      BY <2>1, <3>1, <3>2
  <2>3. ASSUME NEW u \in Tasks PROVE OneSeat(u)' /\ Seated(u)'
    <3>1. OneSeat(u) /\ Seated(u) /\ local'[u].st = local[u].st
      BY <1>1, <2>2
    <3>2. QED
      BY <1>2, <2>1, <3>1 DEF OneSeat, Seated, Placed, Claimed
  <2>4. QED
    BY <1>1, <2>1, <2>3 DEF SeatsOK
<1>6. QED
  BY <1>4, <1>5 DEF LoopStep

\* What a thread does to the one that waits for events, and to what is owed to it.
LEMMA NotifiedWaiter ==
  ASSUME TypeOK, WaiterOK(job, waiter, thread), NEW f \in Threads, ThreadNotifies(f)
  PROVE  /\ UNCHANGED <<local, sch, entries, incoming, lock, blocked>> /\ waiter'.task = waiter.task
         /\ waiter'.wakeable => waiter.wakeable /\ ~(Head(thread[f].then) = "check" /\ CanWake)
         /\ calls'.started = calls.started
         /\ CASE thread[f].then = <<"wake">> ->
                   /\ ready' = Append(ready, ScheduleTask(waiter.task)) /\ waiter.task \in Tasks /\ Owes(thread)
                   /\ ~Owes(thread') /\ ~waiter.wakeable
              [] Head(thread[f].then) = "check" /\ CanWake ->
                   ready' = ready /\ Owes(thread') /\ waiter.wakeable /\ thread'[f].then = <<"wake">> /\ waiter.task \in Tasks
              [] OTHER -> ready' = ready /\ waiter'.wakeable = waiter.wakeable /\ (Owes(thread') <=> Owes(thread))
<1> USE DEF hubVars
<1> DEFINE n == Head(thread[f].then)
<1>1. /\ UNCHANGED <<local, sch, entries, incoming, lock, blocked>>
      /\ waiter' = IF n = "check" THEN [waiter EXCEPT !.wakeable = ~CanWake /\ @] ELSE waiter
      /\ ready' = IF n = "wake" THEN Append(ready, ScheduleTask(waiter.task)) ELSE ready
      /\ calls' = IF n = "queue" THEN [calls EXCEPT !.queue = Append(@, job.code[f][thread[f].at - 1].f)] ELSE calls
  BY DEF ThreadNotifies
<1>2. /\ waiter \in Waiters /\ thread \in [Threads -> Others]
      /\ calls = [started |-> calls.started, queue |-> calls.queue]
  BY DEF TypeOK
<1>3. /\ \A g \in Threads : g # f => thread'[g] = thread[g]
      /\ n = "wake" <=> thread[f].then = <<"wake">>
      /\ thread'[f].then = <<"wake">> <=> n = "check" /\ CanWake
  BY Notified
<1>4. calls'.started = calls.started
  BY <1>1, <1>2
<1>5. CASE n = "wake"
  <2>1. Owes(thread) /\ waiter' = waiter
    BY <1>1, <1>3, <1>5 DEF Owes
  <2>2. waiter.task \in Tasks /\ ~waiter.wakeable
    BY <1>2, <2>1 DEF WaiterOK, Waiters
  <2>3. \A g \in Threads : g # f => thread[g].then # <<"wake">>
    BY <1>3, <1>5 DEF WaiterOK
  <2>4. ~Owes(thread')
    BY <1>3, <1>5, <2>3 DEF Owes
  <2>5. QED
    BY <1>1, <1>3, <1>4, <1>5, <2>1, <2>2, <2>4
<1>6. CASE n = "check" /\ CanWake
  <2>1. waiter' = [waiter EXCEPT !.wakeable = FALSE]
    BY <1>1, <1>6
  <2>2. waiter'.task = waiter.task /\ ~waiter'.wakeable
    BY <1>2, <2>1 DEF Waiters
  <2>3. waiter.wakeable /\ waiter.task \in Tasks
    BY <1>2, <1>6 DEF CanWake, Waiters
  <2>4. Owes(thread') /\ thread'[f].then = <<"wake">>
    BY <1>3, <1>6 DEF Owes
  <2>5. QED
    BY <1>1, <1>3, <1>4, <1>6, <2>2, <2>3, <2>4
<1>7. CASE n # "wake" /\ ~(n = "check" /\ CanWake)
  <2>1. waiter'.task = waiter.task /\ waiter'.wakeable = waiter.wakeable
    BY <1>1, <1>2, <1>7 DEF Waiters
  <2>2. \A g \in Threads : thread'[g].then = <<"wake">> <=> thread[g].then = <<"wake">>
    BY <1>3, <1>7
  <2>3. Owes(thread') <=> Owes(thread)
    BY <2>2 DEF Owes
  <2>4. QED
    BY <1>1, <1>3, <1>4, <1>7, <2>1, <2>3
<1>8. QED
  BY <1>5, <1>6, <1>7

\* ... by the other threads: what they start was in no place.
LEMMA ThreadSeats ==
  ASSUME SchedInv, TypeOK', NEW f \in Threads, ThreadStep(f)
  PROVE  SeatsOK'
<1> USE DEF schedulerVars, syncVars, hubVars
<1>1. /\ TypeOK /\ SeatsOK /\ WaiterOK(job, waiter, thread) /\ ready \in Seq(Items) /\ waiter \in Waiters
      /\ Once(ready) /\ OncePerTask(incoming) /\ \A u \in Tasks : OneSeat(u) /\ Seated(u)
      /\ calls = [started |-> calls.started, queue |-> calls.queue] /\ Caller \in Tasks
      /\ local \in [Tasks -> Locals(Files)]
  BY TasksAssumption DEF SchedInv, Ordered, TypeOK, SeatsOK
<1>2. /\ job' = job /\ UNCHANGED <<sch, incoming, entries, lock, blocked>>
      /\ \A u : ToStart(job', local', thread', u) => ToStart(job, local, thread, u)
  <2>1. Next
    BY DEF Next, OtherThreads, ThreadStep
  <2>2. QED
    BY <1>1, <2>1, Onward DEF ThreadStep, ThreadDoes, ThreadNotifies
<1>3. CASE ThreadDoes(f)
  <2> DEFINE o == NextOp(f)
  <2>1. thread[f].then = <<>> /\ thread[f].at <= Len(job.code[f])
    BY <1>3 DEF ThreadDoes
  <2>2. /\ <<f, thread[f].at>> \in Steps(job) /\ At(job, <<f, thread[f].at>>) = o /\ Fits(job, <<f, thread[f].at>>)
        /\ Disciplined(job) /\ LaunchesOnce(job)
    BY <1>1, <2>1, NextStep, JobOK
  <2>3. ASSUME NEW s, s # <<"wake">>, Then(f, s)
        PROVE  thread'[f].at = thread[f].at + 1 /\ thread[f].at \in Nat /\ (Owes(thread') <=> Owes(thread))
    BY <1>1, <2>1, <2>3, GoesOn
  <2>4. /\ <<"set">> # <<"wake">> /\ <<"check">> # <<"wake">> /\ <<>> # <<"wake">>
        /\ <<"queue", "ping">> # <<"wake">> /\ <<"set", "queue", "ping">> # <<"wake">>
    <3>1. Len(<<"wake">>) = 1 /\ Len(<<>>) = 0 /\ Len(<<"queue", "ping">>) = 2 /\ Len(<<"set", "queue", "ping">>) = 3
      OBVIOUS
    <3>2. <<"wake">>[1] = "wake" /\ <<"check">>[1] = "check" /\ <<"set">>[1] = "set"
      OBVIOUS
    <3>3. QED
      BY <3>1, <3>2
  <2>5. CASE /\ o.op = "start" /\ local' = Started(local, o.t) /\ ready' = Append(ready, ScheduleTask(o.t))
             /\ Then(f, <<"set">>) /\ UNCHANGED <<lock, waiter, calls>>
    <3> DEFINE s == <<f, thread[f].at>>
    <3>1. o.t \in Tasks /\ s \in StartsOf(job, o.t)
      BY <2>2, <2>5 DEF Fits, StartsOf
    <3>2. thread'[f].at = thread[f].at + 1 /\ thread[f].at \in Nat /\ (Owes(thread') <=> Owes(thread))
      BY <2>3, <2>4, <2>5
    <3>3. ~Ahead(local', thread', s) /\ Ahead(local, thread, s)
      BY <3>2 DEF Ahead
    <3>4. ToStart(job, local, thread, o.t) /\ ~ToStart(job', local', thread', o.t)
      <4>1. ~ToStart(job, local', thread', o.t)
        BY <2>2, <3>1, <3>3, PassedBy
      <4>2. QED
        BY <1>2, <3>1, <3>3, <4>1 DEF ToStart
    <3>5. \A u \in Tasks : local'[u].st = local[u].st
      <4>1. CASE Kind(o.t) # "timer"
        BY <2>5, <4>1 DEF Started
      <4>2. CASE Kind(o.t) = "timer"
        <5> DEFINE n == job.timer[o.t].interval
                   zero == 0
        <5>1. local' = [local EXCEPT ![o.t].next = n, ![o.t].since = zero]
          BY <2>5, <4>2 DEF Started
        <5> HIDE DEF n, zero
        <5>2. ASSUME NEW u \in Tasks PROVE local'[u].st = local[u].st
          <6>1. CASE o.t # u
            BY <1>1, <3>1, <5>1, <6>1
          <6>2. CASE o.t = u
            <7>1. local'[u] = [local[u] EXCEPT !.next = n, !.since = zero] /\ local[u] \in Locals(Files)
              BY <1>1, <3>1, <5>1, <6>2
            <7>2. QED
              BY <7>1 DEF Locals
          <6>3. QED
            BY <6>1, <6>2
        <5>3. QED
          BY <5>2
      <4>3. QED
        BY <4>1, <4>2
    <3>6. ~Told(ready, o.t)
      BY <1>1, <3>1, <3>4 DEF OneSeat
    <3>7. Once(ready') /\ (\A u : Told(ready', u) <=> Told(ready, u) \/ u = o.t) /\ (\A u : HasItem(ready', u) <=> HasItem(ready, u))
      BY <1>1, <2>5, <3>1, <3>6, ToldToWake
    <3>8. \A u : Awaits(waiter', thread', u) <=> Awaits(waiter, thread, u)
      BY <2>5, <3>2 DEF Awaits
    <3> HIDE DEF o, s
    <3>9. ASSUME NEW u \in Tasks PROVE OneSeat(u)' /\ Seated(u)'
      <4>1. OneSeat(u) /\ Seated(u) /\ local'[u].st = local[u].st
        BY <1>1, <3>5
      <4>2. OneSeat(u)'
        BY <1>2, <2>5, <3>4, <3>7, <3>8, <4>1 DEF OneSeat, Placed, Claimed
      <4>3. Seated(u)'
        BY <1>2, <2>5, <3>4, <3>7, <3>8, <4>1 DEF Seated, Placed, Claimed
      <4>4. QED
        BY <4>2, <4>3
    <3>10. QED
      BY <1>1, <1>2, <3>7, <3>9 DEF SeatsOK
  <2>6. CASE /\ o.op = "call" /\ calls' = [calls EXCEPT !.started = TRUE]
             /\ ready' = IF calls.started THEN ready ELSE Append(ready, ScheduleTask(Caller))
             /\ Then(f, IF calls.started THEN <<"queue", "ping">> ELSE <<"set", "queue", "ping">>)
             /\ UNCHANGED <<local, lock, waiter>>
    <3>1. Owes(thread') <=> Owes(thread)
      BY <2>3, <2>4, <2>6
    <3>2. \A u : Awaits(waiter', thread', u) <=> Awaits(waiter, thread, u)
      BY <2>6, <3>1 DEF Awaits
    <3>3. calls'.started
      BY <1>1, <2>6
    <3>4. \A u : ~Uncalled(calls', u)
      BY <3>3 DEF Uncalled
    <3>5. CASE calls.started
      <4>1. ready' = ready /\ \A u : ~Uncalled(calls, u)
        BY <2>6, <3>5 DEF Uncalled
      <4>2. ASSUME NEW u \in Tasks PROVE OneSeat(u)' /\ Seated(u)'
        <5>1. OneSeat(u) /\ Seated(u)
          BY <1>1
        <5>2. OneSeat(u)'
          BY <1>2, <2>6, <3>2, <3>4, <4>1, <5>1 DEF OneSeat, Placed, Claimed
        <5>3. Seated(u)'
          BY <1>2, <2>6, <3>2, <3>4, <4>1, <5>1 DEF Seated, Placed, Claimed
        <5>4. QED
          BY <5>2, <5>3
      <4>3. QED
        BY <1>1, <1>2, <4>1, <4>2 DEF SeatsOK
    <3>6. CASE ~calls.started
      <4>1. ready' = Append(ready, ScheduleTask(Caller)) /\ Uncalled(calls, Caller)
        BY <2>6, <3>6 DEF Uncalled
      <4>2. ~Told(ready, Caller)
        BY <1>1, <4>1 DEF OneSeat
      <4>3. Once(ready') /\ (\A u : Told(ready', u) <=> Told(ready, u) \/ u = Caller) /\ (\A u : HasItem(ready', u) <=> HasItem(ready, u))
        BY <1>1, <4>1, <4>2, ToldToWake
      <4>4. ASSUME NEW u \in Tasks PROVE OneSeat(u)' /\ Seated(u)'
        <5>1. OneSeat(u) /\ Seated(u)
          BY <1>1
        <5>2. OneSeat(u)'
          BY <1>2, <2>6, <3>2, <3>4, <4>1, <4>3, <5>1 DEF OneSeat, Placed, Claimed
        <5>3. Seated(u)'
          BY <1>2, <2>6, <3>2, <3>4, <4>1, <4>3, <5>1 DEF Seated, Placed, Claimed
        <5>4. QED
          BY <5>2, <5>3
      <4>5. QED
        BY <1>1, <1>2, <4>3, <4>4 DEF SeatsOK
    <3>7. QED
      BY <3>5, <3>6
  <2>7. CASE \/ /\ o.op = "event" /\ waiter' = [waiter EXCEPT !.events = @ + 1] /\ Then(f, <<"check">>)
                /\ UNCHANGED <<local, ready, lock, calls>>
             \/ /\ o.op = "data" /\ Then(f, <<>>) /\ UNCHANGED <<local, ready, syncVars>>
    <3>1. Owes(thread') <=> Owes(thread)
      BY <2>3, <2>4, <2>7
    <3>2. waiter'.task = waiter.task /\ waiter'.wakeable = waiter.wakeable
      BY <1>1, <2>7 DEF Waiters
    <3>3. \A u : Awaits(waiter', thread', u) <=> Awaits(waiter, thread, u)
      BY <3>1, <3>2 DEF Awaits
    <3>4. ASSUME NEW u \in Tasks PROVE OneSeat(u)' /\ Seated(u)'
      <4>1. OneSeat(u) /\ Seated(u)
        BY <1>1
      <4>2. UNCHANGED <<local, ready, lock, calls>>
        BY <2>7
      <4>3. OneSeat(u)'
        BY <1>2, <3>3, <4>1, <4>2 DEF OneSeat, Placed, Claimed
      <4>4. Seated(u)'
        BY <1>2, <3>3, <4>1, <4>2 DEF Seated, Placed, Claimed
      <4>5. QED
        BY <4>3, <4>4
    <3>5. QED
      BY <1>1, <1>2, <2>7, <3>4 DEF SeatsOK
  <2>8. QED
    BY <1>3, <2>5, <2>6, <2>7 DEF ThreadDoes
<1>4. CASE ThreadNotifies(f)
  <2>1. /\ local' = local /\ waiter'.task = waiter.task /\ calls'.started = calls.started
        /\ waiter'.wakeable => waiter.wakeable /\ ~(Head(thread[f].then) = "check" /\ CanWake)
        /\ CASE thread[f].then = <<"wake">> ->
                   /\ ready' = Append(ready, ScheduleTask(waiter.task)) /\ waiter.task \in Tasks /\ Owes(thread)
                   /\ ~Owes(thread') /\ ~waiter.wakeable
              [] Head(thread[f].then) = "check" /\ CanWake ->
                   ready' = ready /\ Owes(thread') /\ waiter.wakeable /\ thread'[f].then = <<"wake">> /\ waiter.task \in Tasks
              [] OTHER -> ready' = ready /\ waiter'.wakeable = waiter.wakeable /\ (Owes(thread') <=> Owes(thread))
    BY <1>1, <1>4, NotifiedWaiter
  <2>2. \A u : Uncalled(calls', u) <=> Uncalled(calls, u)
    BY <2>1 DEF Uncalled
  <2>3. CASE thread[f].then = <<"wake">>
    <3> DEFINE x == waiter.task
    <3>1. /\ ready' = Append(ready, ScheduleTask(x)) /\ x \in Tasks /\ Awaits(waiter, thread, x)
          /\ \A u : ~Awaits(waiter', thread', u)
      BY <2>1, <2>3 DEF Awaits
    <3>2. ~Told(ready, x)
      BY <1>1, <3>1 DEF OneSeat
    <3>3. Once(ready') /\ (\A u : Told(ready', u) <=> Told(ready, u) \/ u = x) /\ (\A u : HasItem(ready', u) <=> HasItem(ready, u))
      BY <1>1, <3>1, <3>2, ToldToWake
    <3>4. ASSUME NEW u \in Tasks PROVE OneSeat(u)' /\ Seated(u)'
      <4>1. OneSeat(u) /\ Seated(u)
        BY <1>1
      <4>2. OneSeat(u)'
        BY <1>2, <2>1, <2>2, <3>1, <3>3, <4>1 DEF OneSeat, Placed, Claimed
      <4>3. Seated(u)'
        BY <1>2, <2>1, <2>2, <3>1, <3>3, <4>1 DEF Seated, Placed, Claimed
      <4>4. QED
        BY <4>2, <4>3
    <3>5. QED
      BY <1>1, <1>2, <3>3, <3>4 DEF SeatsOK
  <2>4. CASE thread[f].then # <<"wake">>
    <3>1. ready' = ready /\ \A u : Awaits(waiter', thread', u) <=> Awaits(waiter, thread, u)
      BY <2>1, <2>4 DEF Awaits
    <3>2. ASSUME NEW u \in Tasks PROVE OneSeat(u)' /\ Seated(u)'
      <4>1. OneSeat(u) /\ Seated(u)
        BY <1>1
      <4>2. OneSeat(u)'
        BY <1>2, <2>1, <2>2, <3>1, <4>1 DEF OneSeat, Placed, Claimed
      <4>3. Seated(u)'
        BY <1>2, <2>1, <2>2, <3>1, <4>1 DEF Seated, Placed, Claimed
      <4>4. QED
        BY <4>2, <4>3
    <3>3. QED
      BY <1>1, <1>2, <3>1, <3>2 DEF SeatsOK
  <2>5. QED
    BY <2>3, <2>4
<1>5. QED
  BY <1>3, <1>4 DEF ThreadStep

\* ... by the launch, which starts the loop.
LEMMA LaunchSeats ==
  ASSUME SchedInv, TypeOK', NEW f \in Threads, Launches(f)
  PROVE  SeatsOK'
<1> USE DEF schedulerVars, syncVars, hubVars
<1>1. /\ TypeOK /\ SeatsOK /\ ready \in Seq(Items) /\ Once(ready) /\ OncePerTask(incoming)
      /\ \A u \in Tasks : OneSeat(u) /\ Seated(u)
      /\ Loop \in Tasks /\ Disciplined(job) /\ LaunchesOnce(job)
  BY WorkersAssumption, JobOK DEF SchedInv, Ordered, TypeOK, SeatsOK
<1>2. /\ job' = job /\ UNCHANGED <<local, sch, incoming, entries, lock, waiter, calls, blocked>>
      /\ \A u : ToStart(job', local', thread', u) => ToStart(job, local, thread, u)
  <2>1. Next
    BY DEF Next, OtherThreads
  <2>2. QED
    BY <1>1, <2>1, Onward DEF Launches
<1>3. /\ thread[f].then = <<>> /\ thread[f].at <= Len(job.code[f]) /\ NextOp(f).op = "launch"
      /\ ready' = Append(ready, ScheduleTask(Loop)) /\ Then(f, <<"set">>)
  BY DEF Launches
<1> DEFINE s == <<f, thread[f].at>>
<1>4. s \in StartsOf(job, Loop)
  BY <1>1, <1>3, NextStep DEF StartsOf
<1>5. thread'[f].at = thread[f].at + 1 /\ thread[f].at \in Nat /\ (Owes(thread') <=> Owes(thread))
  <2>1. <<"set">> # <<"wake">>
    <3>1. <<"wake">>[1] = "wake" /\ <<"set">>[1] = "set"
      OBVIOUS
    <3>2. QED
      BY <3>1
  <2>2. QED
    BY <1>1, <1>3, <2>1, GoesOn
<1>6. ~Ahead(local', thread', s) /\ Ahead(local, thread, s)
  BY <1>5 DEF Ahead
<1>7. ToStart(job, local, thread, Loop) /\ ~ToStart(job', local', thread', Loop)
  <2>1. ~ToStart(job, local', thread', Loop)
    BY <1>1, <1>4, <1>6, PassedBy
  <2>2. QED
    BY <1>2, <1>4, <1>6, <2>1 DEF ToStart
<1>8. Once(ready') /\ (\A u : Told(ready', u) <=> Told(ready, u) \/ u = Loop) /\ (\A u : HasItem(ready', u) <=> HasItem(ready, u))
  <2>1. ~Told(ready, Loop)
    BY <1>1, <1>7 DEF OneSeat
  <2>2. QED
    BY <1>1, <1>3, <2>1, ToldToWake
<1>9. \A u : Awaits(waiter', thread', u) <=> Awaits(waiter, thread, u)
  BY <1>2, <1>5 DEF Awaits
<1> HIDE DEF s
<1>10. ASSUME NEW u \in Tasks PROVE OneSeat(u)' /\ Seated(u)'
  <2>1. OneSeat(u) /\ Seated(u)
    BY <1>1
  <2>2. OneSeat(u)'
    BY <1>2, <1>7, <1>8, <1>9, <2>1 DEF OneSeat, Placed, Claimed
  <2>3. Seated(u)'
    BY <1>2, <1>7, <1>8, <1>9, <2>1 DEF Seated, Placed, Claimed
  <2>4. QED
    BY <2>2, <2>3
<1>11. QED
  BY <1>1, <1>2, <1>8, <1>10 DEF SeatsOK

\* Time passes.
LEMMA Ticked ==
  ASSUME TypeOK, Tick
  PROVE  /\ job' = job /\ UNCHANGED <<ready, sch, lock, waiter, calls, blocked, thread, worker, members, commands>>
         /\ DOMAIN entries' = DOMAIN entries /\ DOMAIN incoming' = DOMAIN incoming
         /\ \A t \in DOMAIN entries : entries'[t].files = entries[t].files /\ entries'[t].left = Less(entries[t].left)
         /\ \A i \in DOMAIN incoming : /\ incoming'[i].task = incoming[i].task /\ incoming'[i].files = incoming[i].files
                                       /\ incoming'[i].left = Less(incoming[i].left)
         /\ \A t \in Tasks : /\ local'[t].st = local[t].st /\ local'[t].at = local[t].at /\ local'[t].ok = local[t].ok
                             /\ local'[t].rv = local[t].rv /\ local'[t].cancelled = local[t].cancelled
                             /\ local'[t].next = Less(local[t].next)
                             /\ local'[t].since = IF Counts(t) THEN local[t].since + 1 ELSE local[t].since
<1>1. job' = job /\ UNCHANGED <<ready, sch, lock, waiter, calls, blocked, thread, worker, members, commands>>
  BY SameJob DEF Tick, schedulerVars, syncVars, threadVars, ioVars
<1>2. /\ incoming \in Seq(Requests(Files)) /\ entries \in [DOMAIN entries -> Waits(Files)] /\ local \in [Tasks -> Locals(Files)]
  BY DEF TypeOK
<1>3. /\ entries' = [t \in DOMAIN entries |-> [entries[t] EXCEPT !.left = Less(@)]]
      /\ incoming' = [i \in DOMAIN incoming |-> [incoming[i] EXCEPT !.left = Less(@)]]
      /\ local' = [t \in Tasks |-> [local[t] EXCEPT !.next = Less(@), !.since = IF Counts(t) THEN @ + 1 ELSE @]]
  BY DEF Tick, Aged
<1>4. \A t \in DOMAIN entries : entries'[t].files = entries[t].files /\ entries'[t].left = Less(entries[t].left)
  BY <1>2, <1>3 DEF Waits
<1>5. ASSUME NEW i \in DOMAIN incoming
      PROVE  /\ incoming'[i].task = incoming[i].task /\ incoming'[i].files = incoming[i].files
             /\ incoming'[i].left = Less(incoming[i].left)
  <2>1. incoming[i] \in Requests(Files)
    BY <1>2
  <2>2. incoming'[i] = [incoming[i] EXCEPT !.left = Less(@)]
    BY <1>3, Zenon
  <2>3. QED
    BY <2>1, <2>2 DEF Requests
<1>6. ASSUME NEW t \in Tasks
      PROVE  /\ local'[t].st = local[t].st /\ local'[t].at = local[t].at /\ local'[t].ok = local[t].ok
             /\ local'[t].rv = local[t].rv /\ local'[t].cancelled = local[t].cancelled
             /\ local'[t].next = Less(local[t].next)
             /\ local'[t].since = IF Counts(t) THEN local[t].since + 1 ELSE local[t].since
  <2> DEFINE n == Less(local[t].next)
             k == IF Counts(t) THEN local[t].since + 1 ELSE local[t].since
  <2>1. local'[t] = [local[t] EXCEPT !.next = n, !.since = k] /\ local[t] \in Locals(Files)
    BY <1>2, <1>3
  <2> HIDE DEF n, k
  <2>2. /\ local'[t].st = local[t].st /\ local'[t].at = local[t].at /\ local'[t].ok = local[t].ok
        /\ local'[t].rv = local[t].rv /\ local'[t].cancelled = local[t].cancelled
        /\ local'[t].next = n /\ local'[t].since = k
    BY <2>1 DEF Locals
  <2>3. QED
    BY <2>2 DEF n, k
<1>7. DOMAIN entries' = DOMAIN entries /\ DOMAIN incoming' = DOMAIN incoming
  BY <1>3
<1>8. QED
  BY <1>1, <1>4, <1>5, <1>6, <1>7

\* ... and by what moves no task.
LEMMA StillSeats ==
  ASSUME SchedInv, TypeOK', Tick \/ Answering \/ Network
  PROVE  SeatsOK'
<1>1. /\ TypeOK /\ SeatsOK /\ Once(ready) /\ OncePerTask(incoming) /\ \A u \in Tasks : OneSeat(u) /\ Seated(u)
  BY DEF SchedInv, Ordered, TypeOK, SeatsOK
<1>2. job' = job /\ \A u : ToStart(job', local', thread', u) => ToStart(job, local, thread, u)
  <2>1. Next
    BY DEF Next
  <2>2. QED
    BY <1>1, <2>1, Onward
<1>3. /\ UNCHANGED <<ready, sch, lock, waiter, calls, blocked, thread>> /\ DOMAIN entries' = DOMAIN entries
      /\ OncePerTask(incoming') /\ \A u : Queued(incoming', u) <=> Queued(incoming, u)
      /\ \A u \in Tasks : local'[u].st = local[u].st
  <2>1. CASE Tick
    <3>1. /\ UNCHANGED <<ready, sch, lock, waiter, calls, blocked, thread>> /\ DOMAIN entries' = DOMAIN entries
          /\ DOMAIN incoming' = DOMAIN incoming /\ \A i \in DOMAIN incoming : incoming'[i].task = incoming[i].task
          /\ \A u \in Tasks : local'[u].st = local[u].st
      BY <1>1, <2>1, Ticked
    <3>2. QED
      BY <1>1, <3>1 DEF OncePerTask, Queued
  <2>2. CASE Answering \/ Network
    <3>1. UNCHANGED <<local, ready, sch, entries, incoming, lock, waiter, calls, blocked, thread>>
      BY <2>2 DEF Answering, Answers, HangsUp, Network, Turns, Says, Quiet, schedulerVars, hubVars, syncVars, threadVars
    <3>2. QED
      BY <1>1, <3>1
  <2>3. QED
    BY <2>1, <2>2
<1>4. ASSUME NEW u \in Tasks PROVE OneSeat(u)' /\ Seated(u)'
  <2>1. OneSeat(u) /\ Seated(u) /\ local'[u].st = local[u].st
    BY <1>1, <1>3
  <2>2. OneSeat(u)'
    BY <1>2, <1>3, <2>1 DEF OneSeat, Placed, Claimed
  <2>3. Seated(u)'
    BY <1>2, <1>3, <2>1 DEF Seated, Placed, Claimed
  <2>4. QED
    BY <2>2, <2>3
<1>5. QED
  BY <1>1, <1>3, <1>4 DEF SeatsOK

\* SeatsOK is kept by every step.
LEMMA SeatsKept ==
  ASSUME SchedInv, TypeOK', Next
  PROVE  SeatsOK'
BY NextCases, ProgramSeats, SchedulerSeats, TimerSeats, CallerSeats, BeginSeats, WorkSeats, LoopSeats,
   ThreadSeats,
   LaunchSeats, HubSeats, StillSeats

(* ----------------------------- the waiter ------------------------------ *)
LEMMA DoWaiter ==
  ASSUME TypeOK, NEW o, NEW l, Do(o, l)
  PROVE  waiter'.task = waiter.task /\ (waiter'.wakeable => waiter.wakeable)
<1> USE DEF syncVars
<1>1. waiter \in Waiters
  BY DEF TypeOK
<1>2. CASE o.op = "event"
  <2> DEFINE b == waiter.wakeable /\ ~(waiter.task # Nobody /\ waiter.wakeable)
  <2>1. waiter' = [waiter EXCEPT !.events = @ + 1, !.wakeable = b]
    BY <1>2 DEF Do
  <2>2. waiter'.task = waiter.task /\ waiter'.wakeable = b
    <3> HIDE DEF b
    <3>1. QED
      BY <1>1, <2>1 DEF Waiters
  <2>3. QED
    BY <2>2
<1>3. CASE o.op # "event"
  BY <1>3 DEF Do
<1>4. QED
  BY <1>2, <1>3

\* Less that wakes, and nothing more that is owed.
LEMMA WaiterLess ==
  ASSUME WaiterOK(job, waiter, thread), job' = job, waiter'.task = waiter.task,
         waiter'.wakeable => waiter.wakeable,
         \A f \in Threads : thread'[f].then = <<"wake">> => thread[f].then = <<"wake">>
  PROVE  WaiterOK(job', waiter', thread')
<1>1. Owes(thread') => Owes(thread)
  BY DEF Owes
<1>2. QED
  BY <1>1 DEF WaiterOK

\* A program may wait for events, and is then the only one that does.
LEMMA ProgramWaiter ==
  ASSUME SchedInv, NEW t \in Tasks, ProgramStep(t)
  PROVE  /\ thread' = thread
         /\ \/ waiter'.task = waiter.task /\ (waiter'.wakeable => waiter.wakeable)
            \/ WaitsOnEvents(t) /\ waiter'.task = t
<1> USE DEF syncVars
<1>1. TypeOK /\ waiter \in Waiters
  BY DEF SchedInv, TypeOK
<1>2. thread' = thread
  BY DEF ProgramStep, OthersWait
<1>3. CASE ProgramDoes(t)
  BY <1>1, <1>2, <1>3, DoWaiter DEF ProgramDoes
<1>4. CASE TakesEvents(t)
  <2>1. waiter' = [waiter EXCEPT !.events = 0]
    BY <1>4 DEF TakesEvents
  <2>2. waiter'.task = waiter.task /\ waiter'.wakeable = waiter.wakeable
    BY <1>1, <2>1 DEF Waiters
  <2>3. QED
    BY <1>2, <2>2
<1>5. CASE WaitsOnEvents(t)
  <2>1. waiter' = [waiter EXCEPT !.task = t, !.wakeable = TRUE]
    BY <1>5 DEF WaitsOnEvents
  <2>2. waiter'.task = t
    BY <1>1, <2>1 DEF Waiters
  <2>3. QED
    BY <1>2, <1>5, <2>2
<1>6. CASE \/ ProgramEnds(t) \/ YieldsZero(t) \/ Sleeps(t) \/ Selects(t) \/ Reads(t)
           \/ Parks(t) \/ Acquires(t) \/ Acquired(t) \/ Releases(t) \/ Blocks(t)
  <2>1. waiter' = waiter
    BY <1>6 DEF ProgramEnds, YieldsZero, Sleeps, Selects, Reads, Parks, Acquires, Acquired, Releases, Blocks
  <2>2. QED
    BY <1>2, <2>1
<1>7. QED
  BY <1>3, <1>4, <1>5, <1>6 DEF ProgramStep, Program

\* WaiterOK is kept by every step.
LEMMA WaiterKept ==
  ASSUME SchedInv, Next
  PROVE  WaiterOK(job', waiter', thread')
<1> USE DEF syncVars, threadVars
<1>1. /\ TypeOK /\ SeatsOK /\ WaiterOK(job, waiter, thread) /\ waiter \in Waiters /\ Disciplined(job)
      /\ \A f \in Threads : thread[f].then = <<"wake">> => Owes(thread)
  BY JobOK DEF SchedInv, Ordered, TypeOK, Owes
<1>2. job' = job
  BY TypesKept, Onward
<1>3. CASE \E t \in Tasks : ProgramStep(t)
  <2>1. PICK t \in Tasks : ProgramStep(t)
    BY <1>3
  <2>2. CASE waiter'.task = waiter.task /\ (waiter'.wakeable => waiter.wakeable)
    BY <1>1, <1>2, <2>1, <2>2, ProgramWaiter, WaiterLess
  <2>3. CASE WaitsOnEvents(t) /\ waiter'.task = t
    <3>1. /\ <<t, local[t].at>> \in Steps(job) /\ At(job, <<t, local[t].at>>).op = "wait" /\ Fits(job, <<t, local[t].at>>)
          /\ job.kind[t] = "program" /\ Runs(sch, t)
      <4>1. Doing(t, "wait")
        BY <2>3 DEF WaitsOnEvents
      <4>2. QED
        BY <1>1, <4>1, DoingStep
    <3>2. waiter.task # Nobody => waiter.task = t
      <4>1. \A r \in Steps(job) : At(job, r).op = "wait" => r[1] = t
        BY <3>1 DEF Fits
      <4>2. QED
        BY <1>1, <4>1 DEF WaiterOK
    <3>3. ~Owes(thread)
      <4>1. ~Awaits(waiter, thread, t)
        BY <1>1, <3>1, RunsAlone
      <4>2. QED
        BY <1>1, <3>2, <4>1 DEF Awaits, WaiterOK
    <3>4. thread' = thread
      BY <2>1, ProgramWaiter
    <3>5. t # Nobody
      BY TasksAssumption
    <3>6. \E s \in Steps(job) : s[1] = t /\ At(job, s).op = "wait"
      BY <3>1
    <3>7. QED
      BY <1>1, <1>2, <2>3, <3>1, <3>3, <3>4, <3>5, <3>6 DEF WaiterOK
  <2>4. QED
    BY <2>1, <2>2, <2>3, ProgramWaiter
<1>4. CASE \E t \in Tasks : TimerStep(t)
  <2>1. PICK t \in Tasks : TimerStep(t)
    BY <1>4
  <2>2. thread' = thread
    BY <2>1 DEF TimerStep, OthersWait
  <2>3. waiter'.task = waiter.task /\ (waiter'.wakeable => waiter.wakeable)
    <3>1. CASE TimerFires(t)
      <4>1. \E o, l : Do(o, l)
        BY <3>1 DEF TimerFires
      <4>2. QED
        BY <1>1, <4>1, DoWaiter
    <3>2. CASE TimerSleeps(t) \/ TimerEnds(t)
      BY <3>2 DEF TimerSleeps, TimerEnds
    <3>3. QED
      BY <2>1, <3>1, <3>2 DEF TimerStep
  <2>4. QED
    BY <1>1, <1>2, <2>2, <2>3, WaiterLess
<1>5. CASE CheckStep
  <2>1. waiter' = [waiter EXCEPT !.wakeable = ~CanWake /\ @] /\ thread' = thread
    BY <1>5 DEF CheckStep, ChecksEvents, OthersWait
  <2>2. waiter'.task = waiter.task /\ (waiter'.wakeable => waiter.wakeable)
    BY <1>1, <2>1 DEF Waiters
  <2>3. QED
    BY <1>1, <1>2, <2>1, <2>2, WaiterLess
<1>6. CASE \E f \in Threads : ThreadNotifies(f)
  <2>1. PICK f \in Threads : ThreadNotifies(f)
    BY <1>6
  <2>2. \A g \in Threads : g # f => thread'[g] = thread[g]
    BY <1>1, <2>1, Notified
  <2>3. thread'[f].then = <<"wake">> <=> Head(thread[f].then) = "check" /\ CanWake
    BY <1>1, <2>1, Notified
  <2>4. /\ waiter'.task = waiter.task
        /\ waiter'.wakeable => waiter.wakeable /\ ~(Head(thread[f].then) = "check" /\ CanWake)
    BY <1>1, <2>1, NotifiedWaiter
  <2>5. CASE Head(thread[f].then) = "check" /\ CanWake
    <3>1. ~Owes(thread) /\ waiter.task # Nobody
      BY <1>1, <2>5 DEF WaiterOK, CanWake
    <3>2. \A g \in Threads : g # f => thread'[g].then # <<"wake">>
      BY <2>2, <3>1 DEF Owes
    <3>3. QED
      BY <1>1, <1>2, <2>4, <2>5, <3>1, <3>2 DEF WaiterOK
  <2>6. CASE ~(Head(thread[f].then) = "check" /\ CanWake)
    <3>1. \A g \in Threads : thread'[g].then = <<"wake">> => thread[g].then = <<"wake">>
      BY <2>2, <2>3, <2>6
    <3>2. QED
      BY <1>1, <1>2, <2>4, <3>1, WaiterLess
  <2>7. QED
    BY <2>5, <2>6
<1>7. CASE \E f \in Threads : ThreadDoes(f) \/ Launches(f)
  <2>1. PICK f \in Threads : ThreadDoes(f) \/ Launches(f)
    BY <1>7
  <2>2. \/ Then(f, <<"set">>) \/ Then(f, <<"queue", "ping">>) \/ Then(f, <<"set", "queue", "ping">>)
        \/ Then(f, <<"check">>) \/ Then(f, <<>>)
    BY <2>1 DEF Launches, ThreadDoes
  <2>3. /\ <<"set">> # <<"wake">> /\ <<"check">> # <<"wake">> /\ <<>> # <<"wake">>
        /\ <<"queue", "ping">> # <<"wake">> /\ <<"set", "queue", "ping">> # <<"wake">>
    <3>1. Len(<<"wake">>) = 1 /\ Len(<<>>) = 0 /\ Len(<<"queue", "ping">>) = 2 /\ Len(<<"set", "queue", "ping">>) = 3
      OBVIOUS
    <3>2. <<"wake">>[1] = "wake" /\ <<"check">>[1] = "check" /\ <<"set">>[1] = "set"
      OBVIOUS
    <3>3. QED
      BY <3>1, <3>2
  <2>4. PICK s : s # <<"wake">> /\ Then(f, s)
    BY <2>2, <2>3
  <2>5. \A g \in Threads : thread'[g].then = <<"wake">> => thread[g].then = <<"wake">>
    <3>1. thread[f].then = <<>>
      BY <2>1 DEF Launches, ThreadDoes
    <3>2. thread'[f].then = s /\ \A g \in Threads : g # f => thread'[g] = thread[g]
      BY <1>1, <2>4, <3>1, GoesOn
    <3>3. QED
      BY <2>4, <3>2
  <2>6. waiter' = waiter \/ waiter' = [waiter EXCEPT !.events = @ + 1]
    BY <2>1 DEF Launches, ThreadDoes
  <2>7. waiter'.task = waiter.task /\ waiter'.wakeable = waiter.wakeable
    BY <1>1, <2>6 DEF Waiters
  <2>8. QED
    BY <1>1, <1>2, <2>5, <2>7, WaiterLess
<1>8. CASE \/ Switches \/ Rings \/ CallerStep \/ LostStep \/ LoopStep \/ SetStep \/ Hub \/ Tick \/ Answering \/ Network
           \/ \E t \in Tasks : BeginStep(t) \/ BlockingStep(t)
           \/ \E w \in Workers : WorkStep(w)
  <2>1. waiter' = waiter /\ thread' = thread
    <3>1. CASE \/ Switches \/ Rings \/ CallerStep \/ LostStep \/ LoopStep \/ SetStep
               \/ \E t \in Tasks : BeginStep(t) \/ BlockingStep(t)
      BY <3>1 DEF Switches, Rings, CallerStep, CallerSelects, CallerPongs, CallerPops, LostStep,
         CallerLost, LoopStep,
         LoopCommands, LoopSelects, LoopPongs, SetStep, BlockingSets, BeginStep, Begins, BlockingStep, BlockingEnds, OthersWait, Keeps
    <3>2. CASE Hub \/ Tick \/ Answering \/ Network
      BY <3>2 DEF Hub, Tick, Answering, Answers, HangsUp, Network, Turns, Says, Quiet
    <3>3. CASE \E w \in Workers : WorkStep(w)
      BY <3>3, WorkDone
    <3>4. QED
      BY <1>8, <3>1, <3>2, <3>3
  <2>2. QED
    BY <1>1, <1>2, <2>1, WaiterLess
<1>9. QED
  BY <1>3, <1>4, <1>5, <1>6, <1>7, <1>8, NextCases DEF ThreadStep

(* ------------------------------- the hub ------------------------------- *)
LEMMA HubWorks ==
  ASSUME SchedInv, Hub
  PROVE  HubOK(hub', entries')
<1> USE DEF hubVars
<1>1. /\ TypeOK /\ SeatsOK /\ HubOK(hub, entries) /\ hub \in Passes(Files)
      /\ entries \in [DOMAIN entries -> Waits(Files)] /\ \A t \in DOMAIN entries : entries[t].left \in 0 .. Forever
      /\ Forever \in Nat \ {0} /\ DOMAIN entries \subseteq Tasks
  BY TasksAssumption DEF SchedInv, Ordered, TypeOK, Waits, Forever
<1>2. CASE Scan /\ sch.quit
  <2>1. hub' = [hub EXCEPT !.pc = "done"] /\ entries' = entries
    BY <1>2 DEF Scan
  <2>2. hub'.pc = "done" /\ hub'.back = hub.back
    BY <1>1, <2>1 DEF Passes
  <2>3. QED
    BY <1>1, <2>1, <2>2 DEF HubOK
<1>3. CASE Scan /\ ~sch.quit
  <2> DEFINE others == Without(entries, Expired)
             timed == Timed(others)
             soonest == {t \in timed : \A u \in timed : others[t].left <= others[u].left}
  <2>1. PICK due \in IF timed = {} THEN {Nobody} ELSE soonest :
          hub' = [pc |-> IF Expired = {} THEN "select" ELSE "return", back |-> Expired,
                  got |-> None, due |-> due, then |-> "select",
                  left |-> IF due = Nobody THEN Forever ELSE others[due].left]
    BY <1>3 DEF Scan
  <2>2. entries' = entries
    BY <1>3 DEF Scan
  <2>3. /\ hub'.pc = IF Expired = {} THEN "select" ELSE "return"
        /\ hub'.back = Expired /\ hub'.due = due
        /\ hub'.left = IF due = Nobody THEN Forever ELSE others[due].left
    BY <2>1
  <2>4. Expired \subseteq DOMAIN entries /\ \A t \in Expired : entries[t].left = 0
    BY DEF Expired
  <2>5. due # Nobody => due \in DOMAIN entries \ Expired /\ others[due] = entries[due] /\ others[due].left # Forever
    BY <2>1 DEF Timed, Without
  <2> HIDE DEF others, timed, soonest
  <2>6. hub'.due # Nobody => hub'.left = entries[due].left /\ entries[due].left \in 0 .. Forever
    BY <1>1, <2>3, <2>5
  <2>7. hub'.pc \in {"select", "return"} /\ (hub'.pc = "select" => hub'.back = {})
    BY <2>3
  <2>8. hub'.due # Nobody => hub'.left <= hub'.left /\ hub'.left # Forever
    BY <1>1, <2>3, <2>5, <2>6
  <2>9. QED
    BY <2>2, <2>3, <2>4, <2>5, <2>6, <2>7, <2>8 DEF HubOK
<1>4. CASE Select
  <2> DEFINE found == (Asked(entries) \union {HubPinger}) \intersect io
             got == found \ {HubPinger}
             pc == IF HubPinger \in found THEN "pong" ELSE "return"
             back == OwnersOf(entries, got)
  <2>1. entries' = entries
    BY <1>4 DEF Select
  <2>2. CASE hub' = [hub EXCEPT !.pc = pc, !.got = got, !.back = back, !.then = "scan"]
    <3>1. pc \in {"pong", "return"} /\ back \subseteq DOMAIN entries /\ \A t \in back : entries[t].files # None
      BY DEF OwnersOf, None
    <3> HIDE DEF pc, back, got, found
    <3>2. hub'.pc = pc /\ hub'.back = back /\ hub'.then = "scan"
      BY <1>1, <2>2 DEF Passes
    <3>3. QED
      BY <2>1, <3>1, <3>2 DEF HubOK
  <2>3. CASE hub.left = 0 /\ hub' = [hub EXCEPT !.pc = "return", !.got = None, !.back = {hub.due}, !.then = "scan"]
    <3>1. hub'.pc = "return" /\ hub'.back = {hub.due} /\ hub'.then = "scan"
      BY <1>1, <2>3 DEF Passes
    <3>2. hub.due \in DOMAIN entries /\ entries[hub.due].left <= hub.left /\ hub.left = 0
      BY <1>1, <1>4, <2>3 DEF HubOK, Select
    <3>3. entries[hub.due].left = 0
      BY <1>1, <3>2
    <3>4. QED
      BY <2>1, <3>1, <3>2, <3>3 DEF HubOK
  <2>4. QED
    BY <1>4, <2>2, <2>3 DEF Select
<1>5. CASE pongAll
  <2>1. hub' = [hub EXCEPT !.pc = "drain"] /\ entries' = entries /\ hub.pc = "pong"
    BY <1>5 DEF pongAll
  <2>2. hub'.pc = "drain" /\ hub'.back = hub.back /\ hub'.then = hub.then
    BY <1>1, <2>1 DEF Passes
  <2>3. QED
    BY <1>1, <2>1, <2>2 DEF HubOK
<1>6. CASE Drain
  <2> DEFINE pc == IF hub.back = {} THEN "scan" ELSE "return"
  <2>1. /\ hub' = [hub EXCEPT !.pc = pc] /\ hub.pc = "drain"
        /\ \A t \in DOMAIN entries : t \in DOMAIN entries' /\ entries'[t] = entries[t]
    BY <1>1, <1>6, HubLives DEF Drain
  <2>2. pc \in {"scan", "return"}
    OBVIOUS
  <2> HIDE DEF pc
  <2>3. hub'.pc = pc /\ hub'.back = hub.back /\ hub'.then = hub.then
    BY <1>1, <2>1 DEF Passes
  <2>4. QED
    BY <1>1, <2>1, <2>2, <2>3 DEF HubOK
<1>7. CASE Return
  <2>1. PICK t \in hub.back : /\ entries' = Without(entries, {t}) /\ hub' = [hub EXCEPT !.pc = "set", !.back = @ \ {t}]
    BY <1>1, <1>7, HubLives
  <2>2. /\ hub'.pc = "set" /\ hub'.back = hub.back \ {t} /\ hub'.then = hub.then /\ hub'.due = hub.due /\ hub'.left = hub.left
        /\ hub.pc = "return"
    BY <1>1, <1>7, <2>1 DEF Passes, Return
  <2>3. DOMAIN entries' = DOMAIN entries \ {t} /\ \A u \in DOMAIN entries' : entries'[u] = entries[u]
    BY <2>1 DEF Without
  <2>4. QED
    BY <1>1, <2>2, <2>3 DEF HubOK
<1>8. CASE break_idle
  <2> DEFINE pc == IF hub.back = {} THEN hub.then ELSE "return"
  <2>1. hub' = [hub EXCEPT !.pc = pc] /\ entries' = entries /\ hub.pc = "set" /\ hub.then \in {"select", "scan"}
    BY <1>1, <1>8 DEF break_idle, Passes
  <2>2. pc \in {"select", "scan", "return"} /\ (pc = "select" => hub.back = {} /\ hub.then = "select")
    BY <2>1
  <2> HIDE DEF pc
  <2>3. hub'.pc = pc /\ hub'.back = hub.back /\ hub'.then = hub.then /\ hub'.due = hub.due /\ hub'.left = hub.left
    BY <1>1, <2>1 DEF Passes
  <2>4. QED
    BY <1>1, <2>1, <2>2, <2>3 DEF HubOK
<1>9. QED
  BY <1>2, <1>3, <1>4, <1>5, <1>6, <1>7, <1>8 DEF Hub, HubStep

\* What a tick does to a time.
LEMMA LessOf ==
  ASSUME NEW n \in 0 .. Forever
  PROVE  /\ Less(n) \in 0 .. Forever /\ Less(n) <= n /\ (n = 0 => Less(n) = 0) /\ Less(n) + 1 >= n
         /\ Less(n) = Forever <=> n = Forever
         /\ \A m \in 0 .. Forever : n <= m /\ m # Forever => Less(n) <= Less(m)
BY TasksAssumption DEF Less, Forever

\* HubOK is kept by every step.
LEMMA HubKept ==
  ASSUME SchedInv, Next
  PROVE  HubOK(hub', entries')
<1>1. /\ TypeOK /\ HubOK(hub, entries) /\ hub \in Passes(Files)
      /\ entries \in [DOMAIN entries -> Waits(Files)] /\ \A t \in DOMAIN entries : entries[t].left \in 0 .. Forever
      /\ Forever \in Nat \ {0}
  BY TasksAssumption DEF SchedInv, Ordered, TypeOK, Waits, Forever
<1>2. CASE Hub
  BY <1>2, HubWorks
<1>3. CASE Tick
  <2> DEFINE left == IF hub.pc = "select" THEN Less(hub.left) ELSE hub.left
  <2>1. hub' = [hub EXCEPT !.left = left]
    BY <1>3 DEF Tick, Aged
  <2>2. DOMAIN entries' = DOMAIN entries
        /\ \A t \in DOMAIN entries : entries'[t].files = entries[t].files /\ entries'[t].left = Less(entries[t].left)
    BY <1>1, <1>3, Ticked
  <2>3. hub'.pc = hub.pc /\ hub'.back = hub.back /\ hub'.then = hub.then /\ hub'.due = hub.due /\ hub'.left = left
    <3> HIDE DEF left
    <3>1. QED
      BY <1>1, <2>1 DEF Passes
  <2>4. hub.left \in 0 .. Forever
    BY <1>1 DEF Passes
  <2>5. left = Forever <=> hub.left = Forever
    BY <2>4, LessOf
  <2>6. ASSUME NEW t \in DOMAIN entries, hub.left # Forever, entries[t].left <= hub.left
        PROVE  entries'[t].left <= left
    <3>1. entries[t].left \in 0 .. Forever
      BY <1>1
    <3>2. entries'[t].left <= entries[t].left /\ entries'[t].left \in 0 .. Forever
      BY <2>2, <3>1, LessOf
    <3>3. CASE hub.pc = "select"
      BY <2>2, <2>4, <2>6, <3>1, <3>3, LessOf
    <3>4. CASE hub.pc # "select"
      BY <1>1, <2>4, <2>6, <3>1, <3>2, <3>4
    <3>5. QED
      BY <3>3, <3>4
  <2>7. \A t \in DOMAIN entries : entries[t].left = 0 => entries'[t].left = 0
    BY <1>1, <2>2, LessOf
  <2> HIDE DEF left
  <2>8. QED
    BY <1>1, <2>2, <2>3, <2>5, <2>6, <2>7 DEF HubOK
<1>4. CASE ~Hub /\ ~Tick
  <2>1. hub' = hub /\ entries' = entries
    BY <1>4 DEF Next, Sched, OtherThreads, ThreadDoes, ThreadNotifies, BlockingEnds, BlockingSets,
       Launches, Answering, Answers, HangsUp,
       Network, Turns, Says, Quiet, hubVars
  <2>2. QED
    BY <1>1, <2>1
<1>5. QED
  BY <1>2, <1>3, <1>4

(* ------------------------------ the lock ------------------------------- *)
\* A program goes on to its next operation.
LEMMA ProgramGoesOn ==
  ASSUME TypeOK, NEW t \in Tasks, ProgramStep(t), ~Acquires(t), ~Acquired(t), ~Releases(t), ~ProgramEnds(t)
  PROVE  /\ local'[t].at = local[t].at + 1 /\ local'[t].ok = local[t].ok /\ lock' = lock
         /\ \E op : op \notin {"acquire", "try", "release"} /\ Doing(t, op)
<1> USE DEF syncVars
<1>1. /\ local \in [Tasks -> Locals(Files)]
      /\ On(t) \in [Tasks -> Locals(Files)] /\ On(t)[t].at = local[t].at + 1 /\ On(t)[t].ok = local[t].ok
  BY OnLocal DEF TypeOK
<1>2. CASE ProgramDoes(t)
  <2>1. OpOK(Op(t)) /\ Do(Op(t), On(t)) /\ \E op : op \notin {"acquire", "try", "release"} /\ Doing(t, op)
    BY <1>2, OpsOK DEF ProgramDoes
  <2>2. local'[t].at = On(t)[t].at /\ local'[t].ok = On(t)[t].ok
    BY <1>1, <2>1, DoLocal
  <2>3. lock' = lock
    BY <2>1 DEF Do
  <2>4. QED
    BY <1>1, <2>1, <2>2, <2>3
<1>3. CASE YieldsZero(t) \/ Sleeps(t) \/ Selects(t) \/ Reads(t) \/ Blocks(t) \/ TakesEvents(t)
  <2>1. local' = On(t) /\ lock' = lock /\ \E op : op \notin {"acquire", "try", "release"} /\ Doing(t, op)
    BY <1>3 DEF YieldsZero, Sleeps, Selects, Reads, Blocks, TakesEvents
  <2>2. QED
    BY <1>1, <2>1
<1>4. CASE Parks(t) \/ WaitsOnEvents(t)
  <2>1. local' = [On(t) EXCEPT ![t].st = "asleep"] /\ lock' = lock /\ \E op : op \notin {"acquire", "try", "release"} /\ Doing(t, op)
    BY <1>4 DEF Parks, WaitsOnEvents
  <2>2. local'[t] = [On(t)[t] EXCEPT !.st = "asleep"] /\ On(t)[t] \in Locals(Files)
    BY <1>1, <2>1
  <2>3. local'[t].at = On(t)[t].at /\ local'[t].ok = On(t)[t].ok
    BY <2>2 DEF Locals
  <2>4. QED
    BY <1>1, <2>1, <2>3
<1>5. QED
  BY <1>2, <1>3, <1>4 DEF ProgramStep, Program

\* A task that neither gets nor gives up the lock.
LEMMA LockStays ==
  ASSUME NEW J, NEW lc, NEW lk, LockOK(J, lc, lk), NEW lc2, NEW t \in Tasks, t \notin lk.waiting,
         J.kind[t] = "program", ~lc[t].ok,
         \A u \in Tasks : J.kind[u] = "program" => lc2[u].ok = lc[u].ok /\ (u # t => lc2[u].at = lc[u].at),
         lc2[t].at \in 1 .. Len(J.code[t]) + 1, IsInside(J, lc2, t) <=> IsInside(J, lc, t),
         lk.waiting \subseteq Tasks, lk.holder \in Tasks \union {Nobody}
  PROVE  LockOK(J, lc2, lk)
<1>1. \A u \in Tasks : IsInside(J, lc2, u) <=> IsInside(J, lc, u)
  BY DEF IsInside
<1>2. \A u \in Tasks : u # t => (AtAcquire(J, lc2, u) <=> AtAcquire(J, lc, u))
  BY DEF AtAcquire
<1>3. \A u \in Tasks : J.kind[u] = "program" => lc2[u].at \in 1 .. Len(J.code[u]) + 1
  BY DEF LockOK
<1>4. lk.inside = {u \in Tasks : IsInside(J, lc2, u)} /\ lk.inside \subseteq {lk.holder}
  <2>1. {u \in Tasks : IsInside(J, lc2, u)} = {u \in Tasks : IsInside(J, lc, u)}
    BY <1>1
  <2>2. QED
    BY <2>1 DEF LockOK
<1>5. \A u \in Tasks : J.kind[u] = "program" /\ lc2[u].ok => AtAcquire(J, lc2, u) /\ lk.holder = u
  BY <1>2 DEF LockOK
<1>6. \A u \in lk.waiting : AtAcquire(J, lc2, u) /\ ~lc2[u].ok /\ lk.holder # u
  <2>1. \A u \in lk.waiting : u \in Tasks /\ u # t /\ J.kind[u] = "program" /\ AtAcquire(J, lc, u) /\ ~lc[u].ok /\ lk.holder # u
    BY DEF LockOK, AtAcquire
  <2>2. QED
    BY <1>2, <2>1
<1>7. IF lk.holder = Nobody THEN lk.waiting = {}
      ELSE lk.holder \in lk.inside \/ (J.kind[lk.holder] = "program" /\ lc2[lk.holder].ok)
  BY DEF LockOK
<1>8. QED
  BY <1>3, <1>4, <1>5, <1>6, <1>7 DEF LockOK

\* LockOK is kept by programs: a lock is taken and given back in pairs.
LEMMA ProgramLock ==
  ASSUME SchedInv, NEW t \in Tasks, ProgramStep(t)
  PROVE  LockOK(job, local', lock')
<1> DEFINE code == job.code[t]
           at == local[t].at
           held == Held(job, t)
<1>1. /\ TypeOK /\ LockOK(job, local, lock) /\ Disciplined(job) /\ SeatsOK /\ local \in [Tasks -> Locals(Files)]
      /\ lock \in Locks /\ lock.waiting \subseteq Tasks /\ lock.inside \subseteq Tasks /\ lock.holder \in Tasks \union {Nobody}
      /\ Nobody \notin Tasks
  BY JobOK, TasksAssumption DEF SchedInv, Ordered, TypeOK, Locks
<1>2. /\ job.kind[t] = "program" /\ Runs(sch, t) /\ t \notin lock.waiting
      /\ \A u \in Tasks : u # t => local'[u].at = local[u].at
      /\ \A u \in Tasks : u # t => local'[u].ok = local[u].ok \/ (u \in lock.waiting /\ Releases(t))
  BY <1>1, ProgramLocal, RunsAlone
<1>3. /\ at \in 1 .. Len(code) + 1 /\ Len(code) \in Nat /\ DOMAIN code = 1 .. Len(code)
      /\ Brackets(code, t \in job.loop, held)
  BY <1>1, <1>2, StepsOf, HeldOf DEF LockOK
<1>4. IsInside(job, local, t) <=> held[at]
  BY <1>2 DEF IsInside
<1>5. ~held[1] /\ (t \in job.loop => ~held[Len(code) + 1])
  BY <1>3 DEF Brackets
<1>6. ASSUME NEW i \in DOMAIN code
      PROVE  /\ held[i] = (IF code[i].op \in {"acquire", "try", "release"} THEN code[i].op = "release" ELSE held[i + 1])
             /\ code[i].op \in {"acquire", "try"} => held[i + 1]
             /\ code[i].op = "release" => ~held[i + 1]
             /\ code[i].op = "try" => ~held[code[i].else]
             /\ i + 1 \in 1 .. Len(code) + 1
  BY <1>3 DEF Brackets
<1>7. ASSUME NEW op, Doing(t, op)
      PROVE  at \in DOMAIN code /\ code[at].op = op /\ Op(t) = code[at] /\ Fits(job, <<t, at>>) /\ At(job, <<t, at>>) = Op(t)
  BY <1>1, <1>7, DoingStep DEF Op, Code
<1>8. local[t].ok => at \in DOMAIN code /\ code[at].op = "acquire"
  BY <1>1, <1>2 DEF LockOK, AtAcquire
<1>9. t \in lock.inside <=> held[at]
  BY <1>1, <1>4 DEF LockOK
<1> HIDE DEF code, at, held
<1>10. \A k : local'[t].at = k => (IsInside(job, local', t) <=> held[k])
  BY <1>2 DEF IsInside, held
<1>11. CASE ~Acquires(t) /\ ~Acquired(t) /\ ~Releases(t) /\ ~ProgramEnds(t)
  <2>1. /\ local'[t].at = at + 1 /\ local'[t].ok = local[t].ok /\ lock' = lock
    BY <1>1, <1>11, ProgramGoesOn DEF at
  <2>2. at \in DOMAIN code /\ code[at].op \notin {"acquire", "try", "release"}
    <3>1. PICK op : op \notin {"acquire", "try", "release"} /\ Doing(t, op)
      BY <1>1, <1>11, ProgramGoesOn
    <3>2. QED
      BY <1>7, <3>1
  <2>3. held[at] = held[at + 1] /\ at + 1 \in 1 .. Len(code) + 1
    BY <1>6, <2>2
  <2>4. ~local[t].ok
    BY <1>8, <2>2
  <2>5. IsInside(job, local', t) <=> IsInside(job, local, t)
    BY <1>4, <1>10, <2>1, <2>3
  <2>6. \A u \in Tasks : job.kind[u] = "program" => local'[u].ok = local[u].ok /\ (u # t => local'[u].at = local[u].at)
    BY <1>2, <1>11, <2>1
  <2>7. QED
    BY <1>1, <1>2, <2>1, <2>3, <2>4, <2>5, <2>6, LockStays DEF code
<1>12. CASE ProgramEnds(t)
  <2>1. at = Len(code) + 1 /\ ~local[t].ok /\ lock' = lock
    <3>1. local[t].at > Len(job.code[t]) /\ lock' = lock
      BY <1>12 DEF ProgramEnds, Code, syncVars
    <3>2. at > Len(code)
      BY <3>1 DEF at, code
    <3>3. at = Len(code) + 1 /\ at \notin DOMAIN code
      BY <1>3, <3>2
    <3>4. QED
      BY <1>8, <3>1, <3>3
  <2>2. CASE t \in job.loop
    <3> DEFINE one == 1
    <3>1. local' = [local EXCEPT ![t].at = one]
      BY <1>12, <2>2 DEF ProgramEnds
    <3> HIDE DEF one
    <3>2. local'[t] = [local[t] EXCEPT !.at = one] /\ local[t] \in Locals(Files) /\ \A u \in Tasks : u # t => local'[u] = local[u]
      BY <1>1, <3>1
    <3>3. local'[t].at = one /\ local'[t].ok = local[t].ok
      BY <3>2 DEF Locals
    <3>4. one \in 1 .. Len(code) + 1
      BY <1>3 DEF one
    <3>5. ~held[one]
      BY <1>5 DEF one
    <3>6. IsInside(job, local', t) <=> IsInside(job, local, t)
      BY <1>4, <1>5, <1>10, <2>1, <2>2, <3>3, <3>5
    <3>7. \A u \in Tasks : job.kind[u] = "program" => local'[u].ok = local[u].ok /\ (u # t => local'[u].at = local[u].at)
      BY <3>2, <3>3
    <3>8. QED
      BY <1>1, <1>2, <2>1, <3>3, <3>4, <3>6, <3>7, LockStays DEF code
  <2>3. CASE t \notin job.loop
    <3>1. local' = [local EXCEPT ![t].st = "done"]
      BY <1>12, <2>3 DEF ProgramEnds, Ends
    <3>2. local'[t] = [local[t] EXCEPT !.st = "done"] /\ local[t] \in Locals(Files) /\ \A u \in Tasks : u # t => local'[u] = local[u]
      BY <1>1, <3>1
    <3>3. local'[t].at = local[t].at /\ local'[t].ok = local[t].ok
      BY <3>2 DEF Locals
    <3>4. IsInside(job, local', t) <=> IsInside(job, local, t)
      BY <1>4, <1>10, <3>3 DEF at
    <3>5. \A u \in Tasks : job.kind[u] = "program" => local'[u].ok = local[u].ok /\ (u # t => local'[u].at = local[u].at)
      BY <3>2, <3>3
    <3>6. QED
      BY <1>1, <1>2, <1>3, <2>1, <3>3, <3>4, <3>5, LockStays DEF code, at
  <2>4. QED
    BY <2>2, <2>3
<1>13. CASE Acquires(t)
  <2>1. PICK op \in {"acquire", "try"} : Doing(t, op)
    BY <1>13 DEF Acquires
  <2>2. at \in DOMAIN code /\ code[at].op = op /\ Op(t) = code[at] /\ ~local[t].ok
    BY <1>7, <1>13, <2>1 DEF Acquires
  <2>3. ~held[at] /\ held[at + 1] /\ at + 1 \in 1 .. Len(code) + 1 /\ (op = "try" => ~held[code[at].else])
    BY <1>6, <2>2
  <2>4. t \notin lock.inside
    BY <1>9, <2>3
  <2>5. /\ On(t) \in [Tasks -> Locals(Files)] /\ \A u \in Tasks : u # t => On(t)[u] = local[u]
        /\ On(t)[t].at = at + 1 /\ On(t)[t].ok = local[t].ok
    BY <1>1, OnLocal DEF at
  <2>6. \A u \in Tasks : u # t => local'[u].ok = local[u].ok
    <3>1. ~Releases(t)
      <4>1. ASSUME Releases(t) PROVE FALSE
        <5>1. Doing(t, "release")
          BY <4>1 DEF Releases
        <5>2. code[at].op = "release"
          BY <1>7, <5>1
        <5>3. QED
          BY <2>2, <5>2
      <4>2. QED
        BY <4>1
    <3>2. QED
      BY <1>2, <3>1
  <2>7. CASE lock.holder = Nobody /\ lock' = [lock EXCEPT !.holder = t, !.inside = @ \union {t}] /\ local' = On(t)
    <3>1. lock'.holder = t /\ lock'.inside = lock.inside \union {t} /\ lock'.waiting = lock.waiting
      BY <1>1, <2>7 DEF Locks
    <3>2. lock.inside = {} /\ lock.waiting = {} /\ \A u \in Tasks : job.kind[u] = "program" => ~local[u].ok
      BY <1>1, <2>7 DEF LockOK
    <3>3. IsInside(job, local', t)
      BY <1>10, <2>3, <2>5, <2>7
    <3>4. \A u \in Tasks : u # t => ~IsInside(job, local', u)
      <4>1. \A u \in Tasks : ~IsInside(job, local, u)
        BY <1>1, <3>2 DEF LockOK
      <4>2. QED
        BY <1>2, <4>1 DEF IsInside
    <3>5. \A u \in Tasks : job.kind[u] = "program" => local'[u].at \in 1 .. Len(job.code[u]) + 1 /\ ~local'[u].ok
      <4>1. \A u \in Tasks : job.kind[u] = "program" => local[u].at \in 1 .. Len(job.code[u]) + 1
        BY <1>1 DEF LockOK
      <4>2. local'[t].at = at + 1 /\ ~local'[t].ok
        BY <2>2, <2>5, <2>7
      <4>3. local'[t].at \in 1 .. Len(job.code[t]) + 1
        BY <2>3, <4>2 DEF code
      <4>4. QED
        BY <1>2, <2>6, <3>2, <4>1, <4>2, <4>3
    <3>6. {u \in Tasks : IsInside(job, local', u)} = {t}
      BY <3>3, <3>4
    <3>7. t # Nobody
      BY <1>1
    <3>8. QED
      BY <3>1, <3>2, <3>5, <3>6, <3>7 DEF LockOK
  <2>8. CASE lock.holder # Nobody /\ Op(t).op = "try" /\ local' = [On(t) EXCEPT ![t].at = Op(t).else] /\ lock' = lock
    <3> DEFINE else == code[at].else
    <3>1. else \in 1 .. Len(code) + 1
      <4>1. At(job, <<t, at>>) = code[at] /\ Fits(job, <<t, at>>) /\ code[at].op = "try"
        BY <1>7, <2>1, <2>2, <2>8
      <4>2. code[at].else \in <<t, at>>[2] + 1 .. Len(job.code[<<t, at>>[1]]) + 1
        BY <4>1 DEF Fits
      <4>3. code[at].else \in at + 1 .. Len(code) + 1
        BY <4>2 DEF code
      <4>4. QED
        BY <1>3, <4>3
    <3>2. local' = [On(t) EXCEPT ![t].at = else]
      BY <2>2, <2>8
    <3> HIDE DEF else
    <3>3. local'[t] = [On(t)[t] EXCEPT !.at = else] /\ On(t)[t] \in Locals(Files)
      BY <2>5, <3>2
    <3>4. local'[t].at = else /\ local'[t].ok = local[t].ok
      BY <2>5, <3>3 DEF Locals
    <3>5. IsInside(job, local', t) <=> IsInside(job, local, t)
      BY <1>4, <1>10, <2>2, <2>3, <2>8, <3>4 DEF else
    <3>6. \A u \in Tasks : job.kind[u] = "program" => local'[u].ok = local[u].ok /\ (u # t => local'[u].at = local[u].at)
      BY <1>2, <2>6, <3>4
    <3>7. local'[t].at \in 1 .. Len(job.code[t]) + 1 /\ lock' = lock
      BY <2>8, <3>1, <3>4 DEF code
    <3>8. ~local[t].ok
      BY <2>2
    <3>9. LockOK(job, local', lock)
      BY <1>1, <1>2, <3>5, <3>6, <3>7, <3>8, LockStays
    <3>10. QED
      BY <3>7, <3>9
  <2>9. CASE /\ lock.holder # Nobody /\ Op(t).op # "try" /\ lock' = [lock EXCEPT !.waiting = @ \union {t}]
             /\ local' = [local EXCEPT ![t].st = "live"]
    <3>1. lock'.holder = lock.holder /\ lock'.inside = lock.inside /\ lock'.waiting = lock.waiting \union {t}
      BY <1>1, <2>9 DEF Locks
    <3>2. local'[t] = [local[t] EXCEPT !.st = "live"] /\ local[t] \in Locals(Files)
      BY <1>1, <2>9
    <3>3. local'[t].at = local[t].at /\ local'[t].ok = local[t].ok
      BY <3>2 DEF Locals
    <3>4. \A u \in Tasks : /\ local'[u].at = local[u].at /\ local'[u].ok = local[u].ok
                           /\ IsInside(job, local', u) <=> IsInside(job, local, u)
                           /\ AtAcquire(job, local', u) <=> AtAcquire(job, local, u)
      BY <1>2, <2>6, <3>3 DEF IsInside, AtAcquire
    <3>5. {u \in Tasks : IsInside(job, local', u)} = {u \in Tasks : IsInside(job, local, u)}
      BY <3>4
    <3>6. AtAcquire(job, local, t)
      <4>1. code[at].op = "acquire"
        BY <2>1, <2>2, <2>9
      <4>2. QED
        BY <1>2, <2>2, <4>1 DEF AtAcquire, at, code
    <3>7. lock.holder # t
      BY <1>1, <2>2, <2>4, <2>9 DEF LockOK
    <3>8. /\ \A u \in Tasks : job.kind[u] = "program" => local'[u].at \in 1 .. Len(job.code[u]) + 1
          /\ \A u \in Tasks : job.kind[u] = "program" /\ local'[u].ok => AtAcquire(job, local', u) /\ lock.holder = u
      BY <1>1, <3>4 DEF LockOK
    <3>9. \A u \in lock.waiting \union {t} : AtAcquire(job, local', u) /\ ~local'[u].ok /\ lock.holder # u
      BY <1>1, <2>2, <3>4, <3>6, <3>7 DEF LockOK
    <3>10. lock.inside = {u \in Tasks : IsInside(job, local', u)} /\ lock.inside \subseteq {lock.holder}
      BY <1>1, <3>5 DEF LockOK
    <3>11. lock.holder # Nobody /\ (lock.holder \in lock.inside \/ (job.kind[lock.holder] = "program" /\ local'[lock.holder].ok))
      BY <1>1, <2>9, <3>4 DEF LockOK
    <3>12. QED
      BY <3>1, <3>8, <3>9, <3>10, <3>11 DEF LockOK
  <2>10. QED
    BY <1>13, <2>7, <2>8, <2>9 DEF Acquires
<1>14. CASE Acquired(t)
  <2>1. /\ Doing(t, "acquire") /\ local[t].ok /\ lock' = [lock EXCEPT !.inside = @ \union {t}]
        /\ local' = [On(t) EXCEPT ![t].ok = FALSE]
    BY <1>14 DEF Acquired
  <2>2. at \in DOMAIN code /\ code[at].op = "acquire"
    BY <1>7, <2>1
  <2>3. held[at + 1] /\ at + 1 \in 1 .. Len(code) + 1
    BY <1>6, <2>2
  <2>4. /\ On(t) \in [Tasks -> Locals(Files)] /\ \A u \in Tasks : u # t => On(t)[u] = local[u] /\ On(t)[t].at = at + 1
    BY <1>1, OnLocal DEF at
  <2>5. On(t)[t].at = at + 1
    BY <1>1, OnLocal DEF at
  <2>6. local'[t] = [On(t)[t] EXCEPT !.ok = FALSE] /\ On(t)[t] \in Locals(Files) /\ \A u \in Tasks : u # t => local'[u] = local[u]
    BY <2>1, <2>4
  <2>7. local'[t].at = at + 1 /\ ~local'[t].ok
    BY <2>5, <2>6 DEF Locals
  <2>8. lock'.holder = lock.holder /\ lock'.inside = lock.inside \union {t} /\ lock'.waiting = lock.waiting
    BY <1>1, <2>1 DEF Locks
  <2>9. lock.holder = t /\ lock.inside \subseteq {t}
    BY <1>1, <1>2, <2>1 DEF LockOK
  <2>10. \A u \in Tasks : u # t => /\ IsInside(job, local', u) <=> IsInside(job, local, u)
                                   /\ AtAcquire(job, local', u) <=> AtAcquire(job, local, u)
    BY <2>6 DEF IsInside, AtAcquire
  <2>11. IsInside(job, local', t)
    BY <1>10, <2>3, <2>7
  <2>12. {u \in Tasks : IsInside(job, local', u)} = {t}
    <3>1. \A u \in Tasks : u # t => ~IsInside(job, local, u)
      BY <1>1, <2>9 DEF LockOK
    <3>2. \A u \in Tasks : IsInside(job, local', u) <=> u = t
      BY <2>10, <2>11, <3>1
    <3>3. QED
      BY <3>2
  <2>13. \A u \in Tasks : job.kind[u] = "program" => local'[u].at \in 1 .. Len(job.code[u]) + 1
    <3>1. local'[t].at \in 1 .. Len(job.code[t]) + 1
      BY <2>3, <2>7 DEF code
    <3>2. QED
      BY <1>1, <2>6, <3>1 DEF LockOK
  <2>14. \A u \in Tasks : job.kind[u] = "program" => ~local'[u].ok
    BY <1>1, <2>6, <2>7, <2>9 DEF LockOK
  <2>15. \A u \in lock.waiting : AtAcquire(job, local', u) /\ ~local'[u].ok /\ lock.holder # u
    BY <1>1, <1>2, <2>6, <2>10 DEF LockOK
  <2>16. QED
    BY <1>1, <2>8, <2>9, <2>12, <2>13, <2>14, <2>15 DEF LockOK
<1>15. CASE Releases(t)
  <2>1. Doing(t, "release")
    BY <1>15 DEF Releases
  <2>2. at \in DOMAIN code /\ code[at].op = "release"
    BY <1>7, <2>1
  <2>3. held[at] /\ ~held[at + 1] /\ at + 1 \in 1 .. Len(code) + 1
    BY <1>6, <2>2
  <2>4. lock.inside = {t} /\ lock.holder = t /\ ~local[t].ok
    BY <1>1, <1>8, <1>9, <2>2, <2>3 DEF LockOK
  <2>5. \A u \in Tasks : job.kind[u] = "program" => ~local[u].ok
    BY <1>1, <2>4 DEF LockOK
  <2>6. \A u \in Tasks : u # t => ~IsInside(job, local, u)
    BY <1>1, <2>4 DEF LockOK
  <2>7. /\ On(t) \in [Tasks -> Locals(Files)] /\ \A u \in Tasks : u # t => On(t)[u] = local[u]
        /\ On(t)[t].at = at + 1 /\ On(t)[t].ok = local[t].ok
    BY <1>1, OnLocal DEF at
  <2>8. CASE lock.waiting = {}
    <3>1. lock' = [lock EXCEPT !.holder = Nobody, !.inside = @ \ {t}] /\ local' = On(t)
      BY <1>15, <2>8 DEF Releases
    <3>2. lock'.holder = Nobody /\ lock'.inside = {} /\ lock'.waiting = {}
      BY <1>1, <2>4, <2>8, <3>1 DEF Locks
    <3>3. \A u \in Tasks : ~IsInside(job, local', u)
      <4>1. ~IsInside(job, local', t)
        BY <1>10, <2>3, <2>7, <3>1
      <4>2. QED
        BY <1>2, <2>6, <4>1 DEF IsInside
    <3>4. \A u \in Tasks : job.kind[u] = "program" => ~local'[u].ok
      BY <2>5, <2>7, <3>1
    <3>5. \A u \in Tasks : job.kind[u] = "program" => local'[u].at \in 1 .. Len(job.code[u]) + 1
      <4>1. local'[t].at \in 1 .. Len(job.code[t]) + 1
        BY <2>3, <2>7, <3>1 DEF code
      <4>2. QED
        BY <1>1, <1>2, <4>1 DEF LockOK
    <3>6. {u \in Tasks : IsInside(job, local', u)} = {}
      BY <3>3
    <3>7. QED
      BY <3>2, <3>4, <3>5, <3>6 DEF LockOK
  <2>9. CASE lock.waiting # {}
    <3>1. PICK v \in lock.waiting : /\ lock' = [holder |-> v, waiting |-> lock.waiting \ {v}, inside |-> lock.inside \ {t}]
                                    /\ local' = [On(t) EXCEPT ![v].ok = TRUE]
      BY <1>15, <2>9 DEF Releases
    <3>2. lock'.holder = v /\ lock'.inside = {} /\ lock'.waiting = lock.waiting \ {v}
      BY <2>4, <3>1
    <3>3. v \in Tasks /\ v # t /\ AtAcquire(job, local, v) /\ job.kind[v] = "program"
      BY <1>1, <1>2, <3>1 DEF LockOK, AtAcquire
    <3>4. local'[v] = [On(t)[v] EXCEPT !.ok = TRUE] /\ On(t)[v] \in Locals(Files) /\ \A u \in Tasks : u # v => local'[u] = On(t)[u]
      BY <2>7, <3>1, <3>3
    <3>5. local'[v].ok /\ local'[v].at = local[v].at
      BY <2>7, <3>3, <3>4 DEF Locals
    <3>6. local'[t].at = at + 1
      BY <2>7, <3>3, <3>4
    <3>7. \A u \in Tasks : ~IsInside(job, local', u)
      <4>1. ~IsInside(job, local', t)
        BY <1>10, <2>3, <3>6
      <4>2. QED
        BY <1>2, <2>6, <4>1 DEF IsInside
    <3>8. \A u \in Tasks : job.kind[u] = "program" /\ u # v => ~local'[u].ok
      BY <2>5, <2>7, <3>4
    <3>9. \A u \in Tasks : job.kind[u] = "program" => local'[u].at \in 1 .. Len(job.code[u]) + 1
      <4>1. local'[t].at \in 1 .. Len(job.code[t]) + 1
        BY <2>3, <3>6 DEF code
      <4>2. QED
        BY <1>1, <1>2, <4>1 DEF LockOK
    <3>10. \A u \in Tasks : u # t => (AtAcquire(job, local', u) <=> AtAcquire(job, local, u))
      BY <1>2 DEF AtAcquire
    <3>11. \A u \in lock.waiting \ {v} : AtAcquire(job, local', u) /\ ~local'[u].ok /\ v # u
      <4>1. \A u \in lock.waiting : AtAcquire(job, local, u) /\ job.kind[u] = "program" /\ u \in Tasks /\ u # t
        BY <1>1, <1>2 DEF LockOK, AtAcquire
      <4>2. QED
        BY <3>8, <3>10, <4>1
    <3>12. {u \in Tasks : IsInside(job, local', u)} = {}
      BY <3>7
    <3>13. v # Nobody
      BY <1>1, <3>3
    <3>14. QED
      BY <3>2, <3>3, <3>5, <3>8, <3>9, <3>10, <3>11, <3>12, <3>13 DEF LockOK
  <2>10. QED
    BY <2>8, <2>9
<1>16. QED
  BY <1>11, <1>12, <1>13, <1>14, <1>15

\* LockOK is kept by every step.
LEMMA LockKept ==
  ASSUME SchedInv, Next
  PROVE  LockOK(job', local', lock')
<1>1. TypeOK /\ LockOK(job, local, lock) /\ job' = job /\ lock.waiting \subseteq Tasks /\ lock.holder \in Tasks \union {Nobody}
  BY TypesKept, Onward DEF SchedInv, Ordered, TypeOK, Locks
<1>2. CASE \E t \in Tasks : ProgramStep(t)
  BY <1>1, <1>2, ProgramLock
<1>3. CASE \A t \in Tasks : ~ProgramStep(t)
  <2>1. \A u \in Tasks : job.kind[u] = "program" => local'[u].at = local[u].at /\ local'[u].ok = local[u].ok
    BY <1>3, ProgramsStay
  <2>2. lock' = lock
    <3>1. CASE \/ Switches \/ Rings \/ CheckStep \/ CallerStep \/ LostStep \/ LoopStep \/ SetStep
               \/ \E t \in Tasks : BeginStep(t) \/ BlockingStep(t)
      BY <3>1 DEF Switches, Rings, CheckStep, ChecksEvents, CallerStep, CallerSelects, CallerPongs,
         CallerPops, LostStep, CallerLost,
         LoopStep, LoopCommands, LoopSelects, LoopPongs, SetStep, BlockingSets, BeginStep, Begins, BlockingStep, BlockingEnds,
         OthersWait, Keeps, syncVars
    <3>2. CASE Hub \/ Tick \/ Answering \/ Network
      BY <3>2 DEF Hub, Tick, Answering, Answers, HangsUp, Network, Turns, Says, Quiet, syncVars
    <3>3. CASE \E w \in Workers : WorkStep(w)
      BY <3>3, WorkDone
    <3>4. CASE \E t \in Tasks : TimerStep(t)
      BY <3>4 DEF TimerStep, TimerSleeps, TimerEnds, TimerFires, Do, syncVars
    <3>5. CASE \E f \in Threads : ThreadStep(f) \/ Launches(f)
      BY <3>5 DEF ThreadStep, ThreadDoes, ThreadNotifies, Launches, syncVars
    <3>6. QED
      BY <1>3, <3>1, <3>2, <3>3, <3>4, <3>5, NextCases
  <2>3. \A u \in Tasks : /\ IsInside(job, local', u) <=> IsInside(job, local, u)
                         /\ AtAcquire(job, local', u) <=> AtAcquire(job, local, u)
    BY <2>1 DEF IsInside, AtAcquire
  <2>4. {u \in Tasks : IsInside(job, local', u)} = {u \in Tasks : IsInside(job, local, u)}
    BY <2>3
  <2>5. \A u \in lock.waiting : u \in Tasks /\ job.kind[u] = "program"
    BY <1>1 DEF LockOK, AtAcquire
  <2>6. lock.holder # Nobody => lock.holder \in Tasks
    BY <1>1
  <2>7. QED
    BY <1>1, <2>1, <2>2, <2>3, <2>4, <2>5, <2>6 DEF LockOK
<1>4. QED
  BY <1>2, <1>3

(* ----------------------------- the timers ------------------------------ *)
\* What a timer is not, and where it may be.
LEMMA TimerFacts ==
  ASSUME SchedInv, NEW t \in Of("timer")
  PROVE  /\ t \in Tasks /\ job.kind[t] = "timer" /\ t # Caller /\ t # Loop /\ TimerOK(t)
         /\ t # waiter.task /\ ~Awaits(waiter, thread, t) /\ ~Uncalled(calls, t) /\ t \notin blocked /\ t \notin lock.waiting
         /\ FitsTimer(job, t) /\ job.timer[t].interval \in 0 .. Forever /\ Forever \in Nat
         /\ local[t].at \in Nat \ {0} /\ local[t].next \in 0 .. Forever /\ local[t].since \in Nat
         /\ local[t].st \in {"asleep", "live", "done"}
         /\ Told(ready, t) \/ Wakens(sch, t) \/ ToStart(job, local, thread, t) =>
              local[t].st = "asleep" /\ local[t].at = 1 /\ ~Placed(t)
<1>1. /\ TypeOK /\ SeatsOK /\ WaiterOK(job, waiter, thread) /\ LockOK(job, local, lock) /\ TimersOK
      /\ local \in [Tasks -> Locals(Files)] /\ blocked \subseteq Of("program") /\ lock \in Locks
  BY DEF SchedInv, Ordered, TypeOK
<1>2. t \in Tasks /\ job.kind[t] = "timer" /\ TimerOK(t)
  BY <1>1 DEF Of, Kind, TimersOK
<1>3. Disciplined(job) /\ LaunchesOnce(job)
  BY <1>1, JobOK
<1>4. t # Caller /\ t # Loop /\ FitsTimer(job, t)
  BY <1>2, <1>3 DEF Disciplined, LaunchesOnce
<1>5. Nobody \notin Tasks /\ Forever \in Nat
  BY TasksAssumption DEF Forever
<1>6. t # waiter.task /\ t \notin blocked
  BY <1>1, <1>2, <1>5 DEF WaiterOK, Of, Kind
<1>7. t \notin lock.waiting
  BY <1>1, <1>2 DEF LockOK, AtAcquire
<1>8. ~Awaits(waiter, thread, t) /\ ~Uncalled(calls, t)
  BY <1>4, <1>6 DEF Awaits, Uncalled
<1>9. local[t] \in Locals(Files)
  BY <1>1, <1>2
<1>10. /\ local[t].at \in Nat \ {0} /\ local[t].next \in 0 .. Forever /\ local[t].since \in Nat
       /\ local[t].st \in {"asleep", "live", "done"}
  BY <1>9 DEF Locals
<1>11. job.timer[t].interval \in 0 .. Forever
  BY <1>4 DEF FitsTimer
<1>12. Told(ready, t) \/ Wakens(sch, t) \/ ToStart(job, local, thread, t) =>
         local[t].st = "asleep" /\ local[t].at = 1 /\ ~Placed(t)
  BY <1>1, <1>2, <1>10 DEF SeatsOK, OneSeat, Seated, Claimed, TimerOK
<1>13. QED
  BY <1>2, <1>4, <1>5, <1>6, <1>7, <1>8, <1>10, <1>11, <1>12

\* A timer comes to places only as it may, and keeps its times.
TimesKept(t) ==
  local'[t].st = local[t].st /\ local'[t].at = local[t].at /\ local'[t].next = local[t].next /\ local'[t].since = local[t].since
ComesTo(t) ==
  /\ HasItem(ready', t) \/ Runs(sch', t) =>
       HasItem(ready, t) \/ Runs(sch, t) \/ Wakens(sch, t) \/ (t \in DOMAIN entries /\ (entries[t].files = None => entries[t].left = 0))
  /\ Told(ready', t) \/ Wakens(sch', t) => Told(ready, t) \/ Wakens(sch, t)
  /\ \A i \in DOMAIN incoming' : incoming'[i].task = t => \E k \in DOMAIN incoming : incoming'[i] = incoming[k]
  /\ t \in DOMAIN entries' =>
       \/ t \in DOMAIN entries /\ entries'[t] = entries[t]
       \/ \E k \in DOMAIN incoming : incoming[k].task = t /\ entries'[t] = [files |-> incoming[k].files, left |-> incoming[k].left]

\* A timer that no step concerns keeps its time.
LEMMA TimerStill ==
  ASSUME SchedInv, TypeOK', Next, NEW t \in Of("timer"), TimesKept(t), ComesTo(t)
  PROVE  TimerOK(t)'
<1>1. job' = job /\ LockOK(job', local', lock')
  BY LockKept, Onward
<1>2. /\ t \in Tasks /\ job.kind[t] = "timer" /\ TimerOK(t)
      /\ Told(ready, t) \/ Wakens(sch, t) => local[t].st = "asleep" /\ local[t].at = 1 /\ ~Placed(t)
  BY TimerFacts
<1>3. t \notin blocked' /\ t \notin lock'.waiting
  BY <1>1, <1>2 DEF TypeOK, Of, Kind, LockOK, AtAcquire
<1>4. Placed(t)' \/ Told(ready', t) \/ Wakens(sch', t) => Placed(t) \/ Told(ready, t) \/ Wakens(sch, t)
  BY <1>3 DEF Placed, ComesTo, Queued
<1>5. \A n : Enough(job, local', n, t) <=> Enough(job, local, n, t)
  BY DEF Enough, TimesKept
<1>6. local'[t].st = "asleep" => local'[t].at = 1
  BY <1>2 DEF TimerOK, TimesKept
<1>7. local'[t].at = 1 /\ (Placed(t)' \/ Told(ready', t) \/ Wakens(sch', t)) => Enough(job, local', local'[t].next, t)
  BY <1>2, <1>4, <1>5 DEF TimerOK, TimesKept
<1>8. ASSUME local'[t].at = 2
      PROVE  /\ \A i \in DOMAIN incoming' : incoming'[i].task = t =>
                  incoming'[i].files = None /\ Enough(job, local', incoming'[i].left, t)
             /\ t \in DOMAIN entries' => entries'[t].files = None /\ Enough(job, local', entries'[t].left, t)
             /\ HasItem(ready', t) \/ Runs(sch', t) => Enough(job, local', 0, t)
  <2>1. /\ \A i \in DOMAIN incoming : incoming[i].task = t =>
             incoming[i].files = None /\ Enough(job, local, incoming[i].left, t)
        /\ t \in DOMAIN entries => entries[t].files = None /\ Enough(job, local, entries[t].left, t)
        /\ HasItem(ready, t) \/ Runs(sch, t) => Enough(job, local, 0, t)
    BY <1>2, <1>8 DEF TimerOK, TimesKept
  <2>2. ~Told(ready, t) /\ ~Wakens(sch, t)
    <3>1. local[t].at # 1
      BY <1>8 DEF TimesKept
    <3>2. QED
      BY <1>2, <3>1
  <2>3. \A i \in DOMAIN incoming' : incoming'[i].task = t =>
          incoming'[i].files = None /\ Enough(job, local', incoming'[i].left, t)
    BY <1>5, <2>1 DEF ComesTo
  <2>4. t \in DOMAIN entries' => entries'[t].files = None /\ Enough(job, local', entries'[t].left, t)
    BY <1>5, <2>1 DEF ComesTo
  <2>5. HasItem(ready', t) \/ Runs(sch', t) => Enough(job, local', 0, t)
    BY <1>5, <2>1, <2>2 DEF ComesTo
  <2>6. QED
    BY <2>3, <2>4, <2>5
<1>9. QED
  BY <1>1, <1>6, <1>7, <1>8 DEF TimerOK

\* What a program or a function does makes no timer ready but one that it starts.
LEMMA DoTimer ==
  ASSUME SchedInv, NEW o, OpOK(o), NEW l \in [Tasks -> Locals(Files)], Do(o, l), NEW t \in Of("timer"),
         l[t].st = local[t].st, l[t].at = local[t].at, l[t].next = local[t].next, l[t].since = local[t].since,
         ~(o.op = "start" /\ o.t = t)
  PROVE  /\ TimesKept(t) /\ sch' = sch /\ (HasItem(ready', t) => HasItem(ready, t)) /\ (Told(ready', t) => Told(ready, t))
<1> USE DEF schedulerVars, syncVars
<1>1. TypeOK /\ ready \in Seq(Items) /\ Once(ready) /\ WaiterOK(job, waiter, thread)
  BY DEF SchedInv, Ordered, TypeOK, SeatsOK
<1>2. t \in Tasks /\ t # Caller /\ t # waiter.task
  BY TimerFacts
<1>3. TimesKept(t)
  BY <1>1, <1>2, DoLocal DEF TimesKept
<1>4. sch' = sch /\ (ready' = ready \/ \E x \in Tasks : x # t /\ schedule(x))
  <2>1. CASE o.op = "start"
    <3>1. o.t \in Tasks /\ o.t # t /\ schedule(o.t) /\ sch' = sch
      BY <2>1 DEF Do, OpOK
    <3>2. QED
      BY <3>1
  <2>2. CASE o.op = "call"
    <3>1. (ready' = ready \/ schedule(Caller)) /\ sch' = sch /\ Caller \in Tasks
      BY <2>2, TasksAssumption DEF Do
    <3>2. QED
      BY <1>2, <3>1
  <2>3. CASE o.op = "event"
    <3>1. (ready' = ready \/ (waiter.task # Nobody /\ schedule(waiter.task))) /\ sch' = sch
      BY <2>3 DEF Do
    <3>2. waiter.task # Nobody => waiter.task \in Tasks
      BY <1>1 DEF TypeOK, Waiters
    <3>3. QED
      BY <1>2, <3>1, <3>2
  <2>4. CASE o.op \notin {"start", "call", "event"}
    BY <2>4 DEF Do
  <2>5. QED
    BY <2>1, <2>2, <2>3, <2>4
<1>5. QED
  BY <1>1, <1>2, <1>3, <1>4, Scheduled

\* TimerOK is kept by the scheduler between slices, and by calls that block.
LEMMA SchedulerTimers ==
  ASSUME SchedInv, TypeOK', Next, Switches \/ Rings \/ CheckStep \/ SetStep \/ \E u \in Tasks : BlockingStep(u),
         NEW t \in Of("timer")
  PROVE  TimerOK(t)'
<1> USE DEF schedulerVars, syncVars, hubVars
<1>1. /\ TypeOK /\ SchOK(sch) /\ ready \in Seq(Items) /\ Once(ready) /\ t \in Tasks /\ t # waiter.task /\ t \notin blocked
      /\ waiter.task # Nobody => waiter.task \in Tasks
  BY TimerFacts DEF SchedInv, Ordered, TypeOK, SeatsOK, Waiters
<1>2. UNCHANGED <<local, incoming, entries>>
  BY DEF Switches, Rings, CheckStep, ChecksEvents, SetStep, BlockingStep, BlockingEnds, BlockingSets, OthersWait
<1>3. SUFFICES /\ HasItem(ready', t) \/ Runs(sch', t) => HasItem(ready, t) \/ Runs(sch, t) \/ Wakens(sch, t)
               /\ Told(ready', t) \/ Wakens(sch', t) => Told(ready, t) \/ Wakens(sch, t)
  <2>1. TimesKept(t)
    BY <1>2 DEF TimesKept
  <2>2. ComesTo(t)
    BY <1>2, <1>3 DEF ComesTo
  <2>3. QED
    BY <2>1, <2>2, TimerStill
<1>4. CASE cycle
  <2>1. ready # <<>>
    BY <1>4 DEF cycle
  <2>3. /\ Tail(ready) \in Seq(Items) /\ Once(Tail(ready)) /\ Head(ready) \in Items /\ Head(ready).task \in Tasks
        /\ Head(ready) = IF Head(ready).wake THEN ScheduleTask(Head(ready).task) ELSE Item(Head(ready).task)
        /\ \A u : HasItem(Tail(ready), u) <=> HasItem(ready, u) /\ ~(u = Head(ready).task /\ ~Head(ready).wake)
        /\ \A u : Told(Tail(ready), u) <=> Told(ready, u) /\ ~(u = Head(ready).task /\ Head(ready).wake)
        /\ IF Head(ready).wake THEN Told(ready, Head(ready).task) ELSE HasItem(ready, Head(ready).task)
    BY <1>1, <2>1, TakenOut
  <2>4. CASE /\ sch' = [sch EXCEPT !.pc = IF Head(ready).wake THEN "wake" ELSE "run", !.task = Head(ready).task]
             /\ ready' = Tail(ready)
    <3>1. sch'.task = Head(ready).task /\ sch'.pc = IF Head(ready).wake THEN "wake" ELSE "run"
      BY <1>1, <2>4 DEF SchOK, Slices
    <3>2. \A u : /\ Runs(sch', u) <=> ~Head(ready).wake /\ u = Head(ready).task
                 /\ Wakens(sch', u) <=> Head(ready).wake /\ u = Head(ready).task
      BY <3>1 DEF Runs, Wakens
    <3>3. QED
      BY <2>3, <2>4, <3>2
  <2>5. CASE ~Head(ready).wake /\ ready' = Append(Tail(ready), Head(ready)) /\ UNCHANGED sch
    <3> DEFINE x == Head(ready).task
    <3>1. ready' = Append(Tail(ready), Item(x)) /\ x \in Tasks
      BY <2>3, <2>5
    <3>2. (\A u : HasItem(ready', u) <=> HasItem(Tail(ready), u) \/ u = x) /\ \A u : Told(ready', u) <=> Told(Tail(ready), u)
      BY <2>3, <3>1, MadeReady
    <3>3. \A u : (HasItem(ready', u) <=> HasItem(ready, u)) /\ (Told(ready', u) => Told(ready, u))
      BY <2>3, <2>5, <3>2
    <3>4. QED
      BY <2>5, <3>3
  <2>6. QED
    BY <1>4, <2>4, <2>5 DEF cycle
<1>5. CASE idle \/ Waited \/ Cleared \/ Pings \/ Quit
  <2>1. ready' = ready /\ (Free \/ \E pc \in {"wait", "clear", "check", "done"} : sch' = [sch EXCEPT !.pc = pc])
    BY <1>5 DEF idle, Waited, Cleared, Pings, Quit
  <2>3. \A u : ~Runs(sch', u) /\ ~Wakens(sch', u)
    BY <1>1, <2>1, Freed, Moved
  <2>5. QED
    BY <2>1, <2>3
<1>6. CASE Wakes
  <2> DEFINE x == sch.task
  <2>1. x \in Tasks /\ Wakens(sch, x)
    BY <1>1, <1>6 DEF Wakes, SchOK, Wakens
  <2>2. \A u : ~Runs(sch', u) /\ ~Wakens(sch', u)
    BY <1>1, <1>6, Freed DEF Wakes
  <2>3. (\A u : HasItem(ready', u) <=> HasItem(ready, u) \/ u = x) /\ (\A u : Told(ready', u) <=> Told(ready, u))
    <3>1. CASE IsReady(x)
      BY <1>1, <1>6, <3>1 DEF Wakes, IsReady, HasItem
    <3>2. CASE ~IsReady(x)
      <4>1. ready' = <<Item(x)>> \o ready
        BY <1>6, <3>2 DEF Wakes
      <4>2. QED
        BY <1>1, <2>1, <4>1, PutFirst
    <3>3. QED
      BY <3>1, <3>2
  <2>4. QED
    BY <2>1, <2>2, <2>3
<1>7. CASE CheckStep
  <2>1. Free /\ (IF CanWake THEN schedule(waiter.task) /\ waiter.task # Nobody ELSE ready' = ready)
    BY <1>7 DEF CheckStep, ChecksEvents, CanWake
  <2>2. \A u : ~Runs(sch', u) /\ ~Wakens(sch', u)
    BY <1>1, <2>1, Freed
  <2>3. (HasItem(ready', t) => HasItem(ready, t)) /\ (Told(ready', t) => Told(ready, t))
    BY <1>1, <2>1, Scheduled
  <2>4. QED
    BY <2>2, <2>3
<1>8. CASE SetStep
  BY <1>8 DEF SetStep, BlockingSets
<1>9. CASE \E u \in Tasks : BlockingStep(u)
  <2>1. PICK x \in Tasks : x \in blocked /\ ready' = Append(ready, Item(x)) /\ UNCHANGED sch
    BY <1>9 DEF BlockingStep, BlockingEnds
  <2>3. (\A u : HasItem(ready', u) <=> HasItem(ready, u) \/ u = x) /\ (\A u : Told(ready', u) <=> Told(ready, u))
    BY <1>1, <2>1, MadeReady
  <2>4. QED
    BY <1>1, <2>1, <2>3
<1>10. QED
  BY <1>4, <1>5, <1>6, <1>7, <1>8, <1>9 DEF Switches, Switching, Rings

\* ... by the hub, which gives a timer back when its time is up.
LEMMA HubTimers ==
  ASSUME SchedInv, TypeOK', Next, Hub, NEW t \in Of("timer")
  PROVE  TimerOK(t)'
<1> USE DEF schedulerVars, syncVars, threadVars
<1>1. /\ TypeOK /\ SeatsOK /\ HubOK(hub, entries) /\ ready \in Seq(Items) /\ local \in [Tasks -> Locals(Files)] /\ t \in Tasks
      /\ incoming \in Seq(Requests(Files))
  BY TimerFacts DEF SchedInv, Ordered, TypeOK
<1>2. sch' = sch
  BY DEF Hub
<1>3. CASE UNCHANGED <<ready, local, incoming, entries>>
  <2>1. TimesKept(t) /\ ComesTo(t)
    BY <1>2, <1>3 DEF TimesKept, ComesTo
  <2>2. QED
    BY <2>1, TimerStill
<1>4. CASE Drain
  <2>1. /\ incoming' = <<>> /\ UNCHANGED <<ready, local>>
        /\ \A u : u \in DOMAIN entries' <=> u \in DOMAIN entries \/ Queued(incoming, u)
        /\ \A u \in DOMAIN entries : entries'[u] = entries[u]
        /\ \A u : Queued(incoming, u) =>
             \E i \in DOMAIN incoming : /\ incoming[i].task = u
                                        /\ entries'[u] = [files |-> incoming[i].files, left |-> incoming[i].left]
    BY <1>1, <1>4, HubLives
  <2>2. DOMAIN incoming' = {}
    BY <2>1
  <2>3. TimesKept(t)
    BY <2>1 DEF TimesKept
  <2>4. ComesTo(t)
    BY <1>2, <2>1, <2>2 DEF ComesTo
  <2>5. QED
    BY <2>3, <2>4, TimerStill
<1>5. CASE Return
  <2>1. PICK x \in hub.back : /\ x \in DOMAIN entries /\ x \in Tasks /\ entries' = Without(entries, {x}) /\ incoming' = incoming
                           /\ local' = [local EXCEPT ![x].rv = hub.got \intersect entries[x].files]
                           /\ ready' = Append(ready, Item(x))
    BY <1>1, <1>5, HubLives
  <2>2. t \in DOMAIN entries' => t \in DOMAIN entries /\ entries'[t] = entries[t]
    BY <2>1 DEF Without
  <2>3. entries[x].files = None => entries[x].left = 0
    BY <1>1, <2>1 DEF HubOK
  <2>4. (\A u : HasItem(ready', u) <=> HasItem(ready, u) \/ u = x) /\ (\A u : Told(ready', u) <=> Told(ready, u))
    BY <1>1, <2>1, MadeReady
  <2>5. TimesKept(t)
    <3>1. CASE t = x
      <4>1. local'[t] = [local[t] EXCEPT !.rv = hub.got \intersect entries[x].files] /\ local[t] \in Locals(Files)
        BY <1>1, <2>1, <3>1
      <4>2. QED
        BY <4>1 DEF Locals, TimesKept
    <3>2. CASE t # x
      BY <1>1, <2>1, <3>2 DEF TimesKept
    <3>3. QED
      BY <3>1, <3>2
  <2>6. ComesTo(t)
    BY <1>2, <2>1, <2>2, <2>3, <2>4 DEF ComesTo
  <2>7. QED
    BY <2>5, <2>6, TimerStill
<1>6. QED
  BY <1>3, <1>4, <1>5 DEF Hub, HubStep, Scan, Select, pongAll, break_idle

\* ... by programs, which may start a timer.
LEMMA ProgramTimers ==
  ASSUME SchedInv, TypeOK', Next, NEW p \in Tasks, ProgramStep(p), NEW t \in Of("timer")
  PROVE  TimerOK(t)'
<1> USE DEF schedulerVars, syncVars
<1>1. /\ TypeOK /\ SeatsOK /\ SchOK(sch) /\ ready \in Seq(Items) /\ Once(ready) /\ local \in [Tasks -> Locals(Files)] /\ lock \in Locks
      /\ t \in Tasks /\ job.kind[t] = "timer" /\ t \notin lock.waiting /\ t # waiter.task /\ t # Caller
  BY TimerFacts DEF SchedInv, Ordered, TypeOK, SeatsOK
<1>2. /\ job' = job /\ thread' = thread /\ entries' = entries /\ Runs(sch, p) /\ t # p
      /\ local'[t].st = local[t].st /\ local'[t].at = local[t].at
      /\ ~ProgramDoes(p) => local'[t].next = local[t].next /\ local'[t].since = local[t].since
  <2>1. /\ job.kind[p] = "program" /\ Runs(sch, p)
        /\ \A u \in Tasks : u # p => local'[u].st = local[u].st /\ local'[u].at = local[u].at
        /\ \A u \in Tasks : u # p /\ ~ProgramDoes(p) => local'[u].next = local[u].next /\ local'[u].since = local[u].since
    BY <1>1, ProgramLocal
  <2>2. t # p
    BY <1>1, <2>1
  <2>3. job' = job /\ thread' = thread /\ entries' = entries
    BY Onward DEF ProgramStep, OthersWait, hubVars
  <2>4. QED
    BY <1>1, <2>1, <2>2, <2>3
<1>3. ~Runs(sch, t) /\ ~Wakens(sch, t) /\ ~Queued(incoming, p)
  BY <1>1, <1>2, RunsAlone DEF Runs, Wakens
<1>4. CASE ProgramDoes(p)
  <2>1. PICK op \in {"start", "cancel", "call", "event"} : Doing(p, op)
    BY <1>4 DEF ProgramDoes
  <2> DEFINE o == Op(p)
  <2>2. OpOK(o) /\ Do(o, On(p)) /\ UNCHANGED <<incoming, blocked>> /\ o.op = op
    BY <1>1, <1>4, <2>1, OpsOK, DoingStep DEF ProgramDoes
  <2>3. On(p) \in [Tasks -> Locals(Files)] /\ On(p)[t] = local[t] /\ On(p)[p].at = local[p].at + 1 /\ local[p].at \in Nat
    BY <1>1, <1>2, OnLocal
  <2>4. CASE o.op = "start" /\ o.t = t
    <3> DEFINE s == <<p, local[p].at>>
    <3>1. s \in StartsOf(job, t)
      BY <1>1, <2>1, <2>4, DoingStep DEF StartsOf
    <3>2. p \notin Threads /\ s[1] = p /\ s[2] = local[p].at
      BY TasksAssumption
    <3> HIDE DEF s
    <3>3. Ahead(local, thread, s)
      BY <2>3, <3>2 DEF Ahead
    <3>4. local[t].st = "asleep" /\ local[t].at = 1
      <4>1. ToStart(job, local, thread, t)
        BY <3>1, <3>3 DEF ToStart
      <4>2. QED
        BY <4>1, TimerFacts
    <3>5. local'[t].next = job.timer[t].interval /\ local'[t].st = "asleep" /\ local'[t].at = 1
      BY <1>1, <1>2, <2>2, <2>3, <2>4, <3>4, DoLocal DEF Kind
    <3>6. local'[t].since \in Nat /\ job.timer[t].interval \in Nat
      <4>1. local' \in [Tasks -> Locals(Files)]
        BY <1>1, <2>2, <2>3, DoTypes
      <4>2. local'[t] \in Locals(Files)
        BY <1>1, <4>1
      <4>3. QED
        BY <4>2, TimerFacts DEF Locals
    <3>7. Enough(job', local', local'[t].next, t)
      BY <1>2, <3>5, <3>6 DEF Enough
    <3>8. QED
      BY <3>5, <3>7 DEF TimerOK
  <2>5. CASE ~(o.op = "start" /\ o.t = t)
    <3>1. TimesKept(t) /\ sch' = sch /\ (HasItem(ready', t) => HasItem(ready, t)) /\ (Told(ready', t) => Told(ready, t))
      BY <2>2, <2>3, <2>5, DoTimer
    <3>2. ComesTo(t)
      BY <1>2, <2>2, <3>1 DEF ComesTo
    <3>3. QED
      BY <3>1, <3>2, TimerStill
  <2>6. QED
    BY <2>4, <2>5
<1>5. CASE ~ProgramDoes(p)
  <2>1. sch' = sch \/ \A u : ~Runs(sch', u) /\ ~Wakens(sch', u)
    <3>1. \/ sch' = sch \/ Free \/ \E pc \in {"ping", "check events"} : sch' = [sch EXCEPT !.pc = pc]
      BY <1>5 DEF ProgramStep, Program, ProgramEnds, Ends, YieldsZero, Sleeps, Sleep, Selects,
         registerSelect, Reads, Parks, Acquires, Acquired,
                  Releases, Blocks, WaitsOnEvents, TakesEvents, Again, Unscheduled
    <3>2. QED
      BY <1>1, <3>1, Freed, Moved
  <2>2. \/ ready' = ready
        \/ \E x \in Tasks \ {t} : ready' = Append(ready, Item(x))
    <3>1. \/ ready' = ready \/ ready' = Append(ready, Item(p)) \/ \E x \in lock.waiting : ready' = Append(ready, Item(x))
      BY <1>5 DEF ProgramStep, Program, ProgramEnds, Ends, YieldsZero, Sleeps, Sleep, Selects,
         registerSelect, Reads, Parks, Acquires, Acquired,
                  Releases, Blocks, WaitsOnEvents, TakesEvents, Again, Unscheduled, fast_schedule
    <3>2. lock.waiting \subseteq Tasks
      BY <1>1 DEF Locks
    <3>3. QED
      BY <1>1, <1>2, <3>1, <3>2
  <2>3. \A i \in DOMAIN incoming' : incoming'[i].task = t => i \in DOMAIN incoming /\ incoming'[i] = incoming[i]
    <3>1. \/ incoming' = incoming
          \/ Sleeps(p) /\ Sleep(p, Op(p).n)
          \/ Selects(p) /\ registerSelect(p, {Op(p).fd}, Op(p).n)
      BY <1>5 DEF ProgramStep, Program, ProgramEnds, Ends, YieldsZero, Sleeps, Selects, Reads, Parks,
         Acquires, Acquired,
                  Releases, Blocks, WaitsOnEvents, TakesEvents, Again, Unscheduled
    <3>2. CASE incoming' = incoming
      BY <3>2
    <3>3. CASE Sleeps(p) /\ Sleep(p, Op(p).n)
      <4>1. Op(p).n \in 0 .. Forever
        BY <1>1, <3>3, OpsOK DEF Sleeps
      <4>2. \/ incoming' = incoming
            \/ \A i \in DOMAIN incoming' : incoming'[i] = [task |-> p, files |-> None, left |-> Op(p).n]
                                           \/ (i \in DOMAIN incoming /\ incoming'[i] = incoming[i])
        BY <1>1, <1>2, <3>3, <4>1, Slept
      <4>3. QED
        BY <1>2, <4>2
    <3>4. CASE Selects(p) /\ registerSelect(p, {Op(p).fd}, Op(p).n)
      <4>1. Op(p).n \in 0 .. Forever /\ {Op(p).fd} \in SUBSET Files
        BY <1>1, <3>4, OpsOK DEF Selects
      <4>2. \A i \in DOMAIN incoming' : incoming'[i] = [task |-> p, files |-> {Op(p).fd}, left |-> Op(p).n]
                                        \/ (i \in DOMAIN incoming /\ incoming'[i] = incoming[i])
        BY <1>1, <1>3, <3>4, <4>1, Registered
      <4>3. QED
        BY <1>2, <4>2
    <3>5. QED
      BY <3>1, <3>2, <3>3, <3>4
  <2>4. (HasItem(ready', t) => HasItem(ready, t)) /\ (Told(ready', t) => Told(ready, t))
    <3>1. CASE ready' = ready
      BY <3>1
    <3>2. ASSUME NEW x \in Tasks \ {t}, ready' = Append(ready, Item(x))
          PROVE  (HasItem(ready', t) => HasItem(ready, t)) /\ (Told(ready', t) => Told(ready, t))
      <4>1. (\A u : HasItem(ready', u) <=> HasItem(ready, u) \/ u = x) /\ (\A u : Told(ready', u) <=> Told(ready, u))
        BY <1>1, <3>2, MadeReady
      <4>2. QED
        BY <3>2, <4>1
    <3>3. QED
      BY <2>2, <3>1, <3>2
  <2>5. TimesKept(t)
    BY <1>2, <1>5 DEF TimesKept
  <2>6. ComesTo(t)
    <3>1. HasItem(ready', t) \/ Runs(sch', t) => HasItem(ready, t) \/ Runs(sch, t)
      BY <2>1, <2>4
    <3>2. Told(ready', t) \/ Wakens(sch', t) => Told(ready, t) \/ Wakens(sch, t)
      BY <2>1, <2>4
    <3>3. QED
      BY <1>2, <2>3, <3>1, <3>2 DEF ComesTo
  <2>7. QED
    BY <2>5, <2>6, TimerStill
<1>6. QED
  BY <1>4, <1>5

\* What a timer does itself.
LEMMA OwnTimer ==
  ASSUME SchedInv, TypeOK', Next, NEW t \in Of("timer"), TimerStep(t)
  PROVE  TimerOK(t)'
<1> USE DEF schedulerVars, syncVars
<1>1. /\ TypeOK /\ SeatsOK /\ SchOK(sch) /\ ready \in Seq(Items) /\ Once(ready) /\ local \in [Tasks -> Locals(Files)] /\ t \in Tasks
      /\ TimerOK(t) /\ local[t] \in Locals(Files) /\ local[t].next \in 0 .. Forever
  BY TimerFacts DEF SchedInv, Ordered, TypeOK, SeatsOK
<1>2. job' = job /\ thread' = thread /\ entries' = entries /\ Runs(sch, t)
  BY Onward DEF TimerStep, TimerSleeps, TimerEnds, TimerFires, Running, Runs, OthersWait, hubVars
<1>3. ~HasItem(ready, t) /\ ~Queued(incoming, t) /\ t \notin DOMAIN entries /\ ~Told(ready, t) /\ ~Wakens(sch, t)
      /\ t \notin blocked /\ t \notin lock.waiting
  BY <1>1, <1>2, RunsAlone
<1>4. CASE TimerSleeps(t)
  <2> DEFINE n == local[t].next
             live == "live"
             two == 2
             zero == 0
  <2>1. local' = [local EXCEPT ![t].st = live, ![t].at = two, ![t].next = zero] /\ local[t].at = 1 /\ Sleep(t, n)
    BY <1>4 DEF TimerSleeps
  <2>2. Enough(job, local, n, t)
    BY <1>1, <1>2, <2>1 DEF TimerOK, Placed
  <2>3. local'[t].st = "live" /\ local'[t].at = 2 /\ local'[t].since = local[t].since
    <3> HIDE DEF live, two, zero
    <3>1. local'[t] = [local[t] EXCEPT !.st = live, !.at = two, !.next = zero]
      BY <1>1, <2>1
    <3>2. local'[t].st = live /\ local'[t].at = two /\ local'[t].since = local[t].since
      BY <1>1, <3>1 DEF Locals
    <3>3. QED
      BY <3>2 DEF live, two
  <2>4. \A k : Enough(job, local', k, t) <=> Enough(job, local, k, t)
    BY <2>3 DEF Enough
  <2>5. /\ \A u : ~Runs(sch', u) /\ ~Wakens(sch', u)
        /\ \/ /\ ready' = ready
              /\ \A i \in DOMAIN incoming' : incoming'[i] = [task |-> t, files |-> None, left |-> n]
                                             \/ (i \in DOMAIN incoming /\ incoming'[i] = incoming[i])
           \/ incoming' = incoming /\ n = 0
    BY <1>1, <1>2, <2>1, Slept
  <2>6. \A i \in DOMAIN incoming' : incoming'[i].task = t =>
          incoming'[i].files = None /\ Enough(job, local', incoming'[i].left, t)
    BY <1>3, <2>2, <2>4, <2>5 DEF Queued
  <2>7. HasItem(ready', t) \/ Runs(sch', t) => Enough(job, local', 0, t)
    BY <1>3, <2>2, <2>4, <2>5
  <2>8. t \notin DOMAIN entries'
    BY <1>2, <1>3
  <2>9. QED
    BY <1>2, <2>3, <2>6, <2>7, <2>8 DEF TimerOK
<1>5. CASE TimerEnds(t)
  <2>1. local' = [local EXCEPT ![t].st = "done"] /\ Free /\ UNCHANGED <<ready, incoming, lock, waiter, calls, blocked>>
    BY <1>5 DEF TimerEnds, Ends, Unscheduled
  <2>2. \A u : ~Runs(sch', u) /\ ~Wakens(sch', u)
    BY <1>1, <2>1, Freed
  <2>3. local'[t].st = "done"
    BY <1>1, <2>1 DEF Locals
  <2>4. ~(Placed(t)' \/ Told(ready', t) \/ Wakens(sch', t))
    BY <1>2, <1>3, <2>1, <2>2 DEF Placed
  <2>5. ~HasItem(ready', t) /\ ~Runs(sch', t) /\ ~Queued(incoming', t) /\ t \notin DOMAIN entries'
    BY <2>4 DEF Placed
  <2>6. \A i \in DOMAIN incoming' : incoming'[i].task # t
    BY <2>5 DEF Queued
  <2>7. QED
    BY <2>3, <2>4, <2>5, <2>6 DEF TimerOK
<1>6. CASE TimerFires(t)
  <2>1. /\ OpOK(Timer(t).f) /\ Timer(t).f.op # "start" /\ Do(Timer(t).f, Fired(t)) /\ Fired(t) \in [Tasks -> Locals(Files)]
        /\ Fired(t)[t].st = local[t].st /\ Fired(t)[t].at \in {1, 3} /\ Fired(t)[t].since = 0
        /\ Fired(t)[t].at = 1 => Fired(t)[t].next = job.timer[t].interval
    BY <1>1, <1>6, FiredLocal DEF Timer
  <2>2. local'[t].st = local[t].st /\ local'[t].at \in {1, 3} /\ local'[t].since = 0
        /\ (local'[t].at = 1 => local'[t].next = job.timer[t].interval)
    BY <1>1, <2>1, DoLocal
  <2>3. local[t].st # "asleep"
    BY <1>1, <1>6 DEF TimerFires, TimerOK
  <2>4. local'[t].at = 1 => Enough(job, local', local'[t].next, t)
    <3>1. job.timer[t].interval \in Nat
      BY TimerFacts
    <3>2. QED
      BY <2>2, <3>1 DEF Enough
  <2>5. local'[t].at # 2
    BY <2>2
  <2>6. QED
    BY <1>2, <2>2, <2>3, <2>4, <2>5 DEF TimerOK
<1>7. QED
  BY <1>4, <1>5, <1>6 DEF TimerStep

\* What another timer does.
LEMMA OtherTimer ==
  ASSUME SchedInv, TypeOK', Next, NEW p \in Tasks, TimerStep(p), NEW t \in Of("timer"), t # p
  PROVE  TimerOK(t)'
<1> USE DEF schedulerVars, syncVars
<1>1. /\ TypeOK /\ SeatsOK /\ SchOK(sch) /\ ready \in Seq(Items) /\ Once(ready) /\ local \in [Tasks -> Locals(Files)] /\ t \in Tasks
      /\ local[p].next \in 0 .. Forever
  BY TimerFacts DEF SchedInv, Ordered, TypeOK, SeatsOK, Locals
<1>2. entries' = entries /\ Runs(sch, p)
  BY DEF TimerStep, TimerSleeps, TimerEnds, TimerFires, Running, Runs, OthersWait, hubVars
<1>3. CASE TimerSleeps(p) \/ TimerEnds(p)
  <2> DEFINE n == local[p].next
             live == "live"
             two == 2
             zero == 0
  <2>1. local'[t] = local[t]
    <3>1. \/ local' = [local EXCEPT ![p].st = live, ![p].at = two, ![p].next = zero]
          \/ local' = [local EXCEPT ![p].st = "done"]
      BY <1>3 DEF TimerSleeps, TimerEnds, Ends
    <3> HIDE DEF live, two, zero
    <3>2. QED
      BY <1>1, <3>1
  <2>2. Sleep(p, n) \/ (Free /\ UNCHANGED <<ready, incoming>>)
    BY <1>3 DEF TimerSleeps, TimerEnds, Ends, Unscheduled
  <2>3. /\ \A u : ~Runs(sch', u) /\ ~Wakens(sch', u)
        /\ (HasItem(ready', t) => HasItem(ready, t)) /\ (Told(ready', t) => Told(ready, t))
        /\ \A i \in DOMAIN incoming' : incoming'[i].task = t => i \in DOMAIN incoming /\ incoming'[i] = incoming[i]
    <3>1. CASE Sleep(p, n)
      <4>1. /\ \A u : Told(ready', u) <=> Told(ready, u)
            /\ \A u : ~Runs(sch', u) /\ ~Wakens(sch', u)
            /\ \/ /\ ready' = ready
                  /\ \A i \in DOMAIN incoming' : incoming'[i] = [task |-> p, files |-> None, left |-> n]
                                                 \/ (i \in DOMAIN incoming /\ incoming'[i] = incoming[i])
               \/ (\A u : HasItem(ready', u) <=> HasItem(ready, u) \/ u = p) /\ incoming' = incoming
        BY <1>1, <1>2, <3>1, Slept
      <4>2. QED
        BY <4>1
    <3>2. CASE Free /\ UNCHANGED <<ready, incoming>>
      BY <1>1, <3>2, Freed
    <3>3. QED
      BY <2>2, <3>1, <3>2
  <2>4. TimesKept(t)
    BY <2>1 DEF TimesKept
  <2>5. ComesTo(t)
    BY <1>2, <2>3 DEF ComesTo
  <2>6. QED
    BY <2>4, <2>5, TimerStill
<1>4. CASE TimerFires(p)
  <2>1. /\ OpOK(Timer(p).f) /\ Timer(p).f.op # "start" /\ Do(Timer(p).f, Fired(p)) /\ Fired(p) \in [Tasks -> Locals(Files)]
        /\ Fired(p)[t] = local[t] /\ incoming' = incoming
    BY <1>1, <1>4, FiredLocal
  <2>2. TimesKept(t) /\ sch' = sch /\ (HasItem(ready', t) => HasItem(ready, t)) /\ (Told(ready', t) => Told(ready, t))
    <3> DEFINE l == Fired(p)
               o == Timer(p).f
    <3>1. OpOK(o) /\ o.op # "start" /\ Do(o, l) /\ l \in [Tasks -> Locals(Files)] /\ l[t] = local[t]
      BY <2>1
    <3> HIDE DEF l, o
    <3>2. QED
      BY <3>1, DoTimer
  <2>3. ComesTo(t)
    BY <1>2, <2>1, <2>2 DEF ComesTo
  <2>4. QED
    BY <2>2, <2>3, TimerStill
<1>5. QED
  BY <1>3, <1>4 DEF TimerStep

\* What the task of the functions to be called, the loop and the timers of the workers do.
LEMMA OtherTimers ==
  ASSUME SchedInv, TypeOK', Next,
         CallerStep \/ LostStep \/ LoopStep \/ (\E w \in Workers : WorkStep(w)) \/ \E u \in Tasks : BeginStep(u),
         NEW t \in Of("timer")
  PROVE  TimerOK(t)'
<1> USE DEF schedulerVars, syncVars, ioVars
<1>1. /\ TypeOK /\ SeatsOK /\ SchOK(sch) /\ ready \in Seq(Items) /\ Once(ready) /\ local \in [Tasks -> Locals(Files)] /\ t \in Tasks
      /\ t # Caller /\ t # Loop /\ job.kind[t] = "timer" /\ Caller \in Tasks /\ Loop \in Tasks /\ members \subseteq Workers
  BY TimerFacts, TasksAssumption, WorkersAssumption DEF SchedInv, Ordered, TypeOK, SeatsOK
<1>2. CASE LostStep \/ \E w \in Workers : WorkStep(w)
  <2>1. UNCHANGED <<sch, entries, incoming>>
    BY <1>2, LostDone, WorkDone
  <2>2. PICK l, x, d : /\ l \in [Tasks -> Locals(Files)] /\ l[t] = local[t]
                       /\ (local' = l /\ UNCHANGED ready) \/ SetsUp(l, x, d)
    <3>1. CASE LostStep
      BY <1>1, <3>1, LostDone
    <3>2. CASE \E w \in Workers : WorkStep(w)
      <4>1. PICK f, x, d : (local' = Listed(f) /\ UNCHANGED ready) \/ SetsUp(Listed(f), x, d)
        BY <3>2, WorkDone
      <4>2. QED
        BY <1>1, <4>1, ListedLocal
    <3>3. QED
      BY <1>2, <3>1, <3>2
  <2>3. local'[t] = local[t] /\ (HasItem(ready', t) => HasItem(ready, t)) /\ (Told(ready', t) => Told(ready, t))
    <3>1. CASE local' = l /\ UNCHANGED ready
      BY <2>2, <3>1
    <3>2. CASE SetsUp(l, x, d)
      <4>1. x \in Tasks /\ job.kind[x] = "retry" /\ \A u \in Tasks : u # x => local'[u] = l[u]
        BY <2>2, <3>2, SetUpLocal
      <4>2. schedule(x) /\ t # x
        BY <1>1, <3>2, <4>1 DEF SetsUp
      <4>3. QED
        BY <1>1, <2>2, <4>1, <4>2, Scheduled
    <3>3. QED
      BY <2>2, <3>1, <3>2
  <2>4. TimesKept(t) /\ ComesTo(t)
    BY <2>1, <2>3 DEF TimesKept, ComesTo
  <2>5. QED
    BY <2>4, TimerStill
<1>3. CASE \E u \in Tasks : BeginStep(u)
  <2>1. PICK u \in Tasks : BeginStep(u)
    BY <1>3
  <2>2. /\ local' = [local EXCEPT ![u].at = 3, ![u].since = 0] /\ job.kind[u] = "retry" /\ UNCHANGED <<sch, incoming, entries>>
        /\ ready' = ready \/ schedule(Caller)
    BY <2>1 DEF BeginStep, Begins, Kind, OthersWait, hubVars
  <2>3. local'[t] = local[t]
    BY <1>1, <2>2
  <2>4. (HasItem(ready', t) => HasItem(ready, t)) /\ (Told(ready', t) => Told(ready, t))
    BY <1>1, <2>2, Scheduled
  <2>5. TimesKept(t) /\ ComesTo(t)
    BY <2>2, <2>3, <2>4 DEF TimesKept, ComesTo
  <2>6. QED
    BY <2>5, TimerStill
<1>4. CASE CallerStep \/ LoopStep
  <2>1. PICK x \in {Caller, Loop} : /\ Runs(sch, x) /\ entries' = entries /\ ready' = ready
                                    /\ (CallerStep /\ x = Caller) \/ (LoopStep /\ x = Loop)
    BY <1>4 DEF CallerStep, LoopStep, CallerSelects, CallerPongs, CallerPops, LoopCommands, LoopSelects,
       LoopPongs, AtTop, Running,
                Runs, registerSelect, OthersWait, hubVars
  <2>2. ~Runs(sch, t) /\ ~Wakens(sch, t) /\ ~Queued(incoming, x) /\ x # t /\ x \in Tasks
    <3>1. ~Queued(incoming, x) /\ x # t /\ x \in Tasks
      BY <1>1, <2>1, RunsAlone
    <3>2. QED
      BY <2>1, <3>1 DEF Runs, Wakens
  <2>3. local'[t] = local[t]
    <3>1. CASE CallerStep
      <4>1. \/ local' = [local EXCEPT ![Caller].st = "live", ![Caller].at = 2]
            \/ local' = [local EXCEPT ![Caller].at = 3] \/ local' = local
        BY <3>1 DEF CallerStep, CallerSelects, CallerPongs, CallerPops
      <4>2. QED
        BY <1>1, <4>1
    <3>2. CASE LoopStep
      <4>1. \/ local' = [local EXCEPT ![Loop].st = "live"] \/ local' = [local EXCEPT ![Loop].rv = @ \ Ping] \/ local' = local
        BY <3>2 DEF LoopStep, LoopCommands, LoopSelects, LoopPongs
      <4>2. QED
        BY <1>1, <4>1
    <3>3. QED
      BY <1>4, <3>1, <3>2
  <2>4. /\ ~Runs(sch', t) /\ ~Wakens(sch', t)
        /\ \A i \in DOMAIN incoming' : incoming'[i].task = t => i \in DOMAIN incoming /\ incoming'[i] = incoming[i]
    <3>1. ASSUME NEW files \in SUBSET Files, registerSelect(x, files, Forever)
          PROVE  /\ ~Runs(sch', t) /\ ~Wakens(sch', t)
                 /\ \A i \in DOMAIN incoming' : incoming'[i].task = t => i \in DOMAIN incoming /\ incoming'[i] = incoming[i]
      <4>1. Forever \in 0 .. Forever
        BY TasksAssumption DEF Forever
      <4>2. /\ \A u : ~Runs(sch', u) /\ ~Wakens(sch', u)
            /\ \A i \in DOMAIN incoming' : incoming'[i] = [task |-> x, files |-> files, left |-> Forever]
                                           \/ (i \in DOMAIN incoming /\ incoming'[i] = incoming[i])
        BY <1>1, <2>2, <3>1, <4>1, Registered
      <4>3. QED
        BY <2>2, <4>2
    <3>2. CASE CallerSelects /\ x = Caller
      <4>1. registerSelect(x, {CallPinger}, Forever) /\ {CallPinger} \in SUBSET Files
        BY <3>2 DEF CallerSelects, Files
      <4>2. QED
        BY <3>1, <4>1
    <3>3. CASE LoopSelects /\ x = Loop
      <4> DEFINE files == Ping \union {Readable(w) : w \in members} \union {Writable(w) : w \in {m \in members : ready_to_send(m)}}
      <4>1. registerSelect(x, files, Forever)
        BY <3>3 DEF LoopSelects
      <4>2. files \in SUBSET Files
        BY <1>1 DEF Files, Ping
      <4> HIDE DEF files
      <4>3. QED
        BY <3>1, <4>1, <4>2
    <3>4. CASE CallerPongs \/ CallerPops \/ LoopCommands \/ LoopPongs
      <4>1. incoming' = incoming /\ (sch' = sch \/ \E b \in BOOLEAN : sch' = [sch EXCEPT !.quit = b])
        <5>1. sch.quit \in BOOLEAN
          BY <1>1 DEF SchOK, Slices
        <5>2. QED
          BY <3>4, <5>1 DEF CallerPongs, CallerPops, LoopCommands, LoopPongs
      <4>2. sch'.pc = sch.pc /\ sch'.task = sch.task
        BY <1>1, <4>1 DEF SchOK, Slices
      <4>3. QED
        BY <2>2, <4>1, <4>2 DEF Runs, Wakens
    <3>5. QED
      BY <1>4, <2>1, <3>2, <3>3, <3>4 DEF CallerStep, LoopStep
  <2>5. TimesKept(t)
    BY <2>3 DEF TimesKept
  <2>6. ComesTo(t)
    BY <2>1, <2>4 DEF ComesTo
  <2>7. QED
    BY <2>5, <2>6, TimerStill
<1>5. QED
  BY <1>2, <1>3, <1>4

\* ... by the other threads, which may start one too.
LEMMA ThreadTimers ==
  ASSUME SchedInv, TypeOK', Next, NEW f \in Threads, ThreadStep(f) \/ Launches(f), NEW t \in Of("timer")
  PROVE  TimerOK(t)'
<1> USE DEF schedulerVars, syncVars, hubVars
<1>1. /\ TypeOK /\ SeatsOK /\ WaiterOK(job, waiter, thread) /\ ready \in Seq(Items) /\ local \in [Tasks -> Locals(Files)] /\ t \in Tasks
      /\ t # Caller /\ t # Loop /\ t # waiter.task /\ job.kind[t] = "timer" /\ Caller \in Tasks /\ Loop \in Tasks
      /\ local[t] \in Locals(Files)
  BY TimerFacts, TasksAssumption, WorkersAssumption DEF SchedInv, Ordered, TypeOK
<1>2. job' = job /\ UNCHANGED <<sch, incoming, entries>>
  BY Onward DEF ThreadStep, ThreadDoes, ThreadNotifies, Launches
<1>3. ASSUME TimesKept(t), HasItem(ready', t) => HasItem(ready, t), Told(ready', t) => Told(ready, t)
      PROVE  TimerOK(t)'
  <2>1. ComesTo(t)
    BY <1>2, <1>3 DEF ComesTo
  <2>2. QED
    BY <1>3, <2>1, TimerStill
<1>4. ASSUME NEW x \in Tasks, x # t, ready' = Append(ready, ScheduleTask(x)) \/ ready' = ready
      PROVE  (HasItem(ready', t) => HasItem(ready, t)) /\ (Told(ready', t) => Told(ready, t))
  <2>1. CASE ready' = Append(ready, ScheduleTask(x))
    <3>1. (\A u : Told(ready', u) <=> Told(ready, u) \/ u = x) /\ (\A u : HasItem(ready', u) <=> HasItem(ready, u))
      BY <1>1, <2>1, ToldToWake
    <3>2. QED
      BY <1>4, <3>1
  <2>2. CASE ready' = ready
    BY <2>2
  <2>3. QED
    BY <1>4, <2>1, <2>2
<1>5. CASE ThreadDoes(f) /\ NextOp(f).op = "start"
  <2> DEFINE o == NextOp(f)
             s == <<f, thread[f].at>>
  <2>1. /\ local' = Started(local, o.t) /\ ready' = Append(ready, ScheduleTask(o.t)) /\ thread[f].at <= Len(job.code[f])
    BY <1>5 DEF ThreadDoes
  <2>2. s \in Steps(job) /\ At(job, s) = o /\ Fits(job, s)
    BY <1>1, <2>1, NextStep
  <2>3. o.t \in Tasks /\ s \in StartsOf(job, o.t)
    BY <1>5, <2>2 DEF Fits, StartsOf
  <2>4. CASE o.t = t
    <3>1. Ahead(local, thread, s)
      <4>1. s[1] = f /\ s[2] = thread[f].at /\ thread[f].at \in Nat
        BY <1>1 DEF TypeOK, Others
      <4>2. QED
        BY <4>1 DEF Ahead
    <3>2. local[t].st = "asleep" /\ local[t].at = 1
      <4>1. ToStart(job, local, thread, t)
        BY <2>3, <2>4, <3>1 DEF ToStart
      <4>2. QED
        BY <4>1, TimerFacts
    <3> DEFINE n == job.timer[t].interval
               zero == 0
    <3>3. local' = [local EXCEPT ![t].next = n, ![t].since = zero]
      BY <1>1, <2>1, <2>4 DEF Started, Kind
    <3>4. n \in Nat
      BY TimerFacts
    <3> HIDE DEF n
    <3>5. local'[t].st = "asleep" /\ local'[t].at = 1 /\ local'[t].next = n /\ local'[t].since = zero
      <4> HIDE DEF zero
      <4>1. local'[t] = [local[t] EXCEPT !.next = n, !.since = zero]
        BY <1>1, <3>3
      <4>2. QED
        BY <1>1, <3>2, <4>1 DEF Locals
    <3>6. Enough(job', local', local'[t].next, t)
      BY <1>2, <3>4, <3>5 DEF Enough, n
    <3>7. QED
      BY <3>5, <3>6 DEF TimerOK
  <2>5. CASE o.t # t
    <3> DEFINE n == job.timer[o.t].interval
               zero == 0
    <3>1. local' = local \/ local' = [local EXCEPT ![o.t].next = n, ![o.t].since = zero]
      BY <2>1 DEF Started
    <3>2. local'[t] = local[t]
      <4> HIDE DEF n, zero, o
      <4>1. QED
        BY <1>1, <2>5, <3>1
    <3>3. TimesKept(t)
      BY <3>2 DEF TimesKept
    <3>4. QED
      BY <1>3, <1>4, <2>1, <2>3, <2>5, <3>3
  <2>6. QED
    BY <2>4, <2>5
<1>6. CASE ThreadDoes(f) /\ NextOp(f).op # "start"
  <2>1. local' = local /\ (ready' = ready \/ ready' = Append(ready, ScheduleTask(Caller)))
    BY <1>6 DEF ThreadDoes
  <2>2. TimesKept(t)
    BY <2>1 DEF TimesKept
  <2>3. QED
    BY <1>1, <1>3, <1>4, <2>1, <2>2
<1>7. CASE ThreadNotifies(f)
  <2>1. /\ local' = local
        /\ ready' = ready \/ (ready' = Append(ready, ScheduleTask(waiter.task)) /\ waiter.task \in Tasks)
    BY <1>1, <1>7, NotifiedWaiter
  <2>2. TimesKept(t)
    BY <2>1 DEF TimesKept
  <2>3. QED
    BY <1>1, <1>3, <1>4, <2>1, <2>2
<1>8. CASE Launches(f)
  <2>1. local' = local /\ ready' = Append(ready, ScheduleTask(Loop))
    BY <1>8 DEF Launches
  <2>2. TimesKept(t)
    BY <2>1 DEF TimesKept
  <2>3. QED
    BY <1>1, <1>3, <1>4, <2>1, <2>2
<1>9. QED
  BY <1>5, <1>6, <1>7, <1>8 DEF ThreadStep

\* What is left and the time that a timer has waited change together.
LEMMA TickTimers ==
  ASSUME SchedInv, TypeOK', Next, Tick, NEW t \in Of("timer")
  PROVE  TimerOK(t)'
<1>1. /\ TypeOK /\ t \in Tasks /\ TimerOK(t) /\ local[t].next \in 0 .. Forever /\ local[t].since \in Nat
      /\ FitsTimer(job, t) /\ job.timer[t].interval \in 0 .. Forever /\ Forever \in Nat
      /\ incoming \in Seq(Requests(Files)) /\ entries \in [DOMAIN entries -> Waits(Files)]
  BY TimerFacts DEF SchedInv, TypeOK
<1>2. /\ job' = job /\ UNCHANGED <<ready, sch, lock, blocked>>
      /\ DOMAIN entries' = DOMAIN entries /\ DOMAIN incoming' = DOMAIN incoming
      /\ \A u \in DOMAIN entries : entries'[u].files = entries[u].files /\ entries'[u].left = Less(entries[u].left)
      /\ \A i \in DOMAIN incoming : /\ incoming'[i].task = incoming[i].task /\ incoming'[i].files = incoming[i].files
                                    /\ incoming'[i].left = Less(incoming[i].left)
      /\ local'[t].st = local[t].st /\ local'[t].at = local[t].at /\ local'[t].next = Less(local[t].next)
      /\ local'[t].since = IF Counts(t) THEN local[t].since + 1 ELSE local[t].since
  BY <1>1, Ticked
<1>3. ASSUME NEW n \in 0 .. Forever, Enough(job, local, n, t)
      PROVE  Enough(job, local', Less(n), t)
  <2>1. Less(n) \in 0 .. Forever /\ (n = 0 => Less(n) = 0) /\ Less(n) + 1 >= n
    BY <1>3, LessOf
  <2>2. CASE local[t].since < job.timer[t].interval
    <3>1. local'[t].since = local[t].since + 1
      BY <1>1, <1>2, <2>2 DEF Counts, FitsTimer
    <3>2. QED
      BY <1>1, <1>3, <2>1, <3>1 DEF Enough
  <2>3. CASE local[t].since >= job.timer[t].interval
    <3>1. local'[t].since \in Nat /\ local'[t].since >= job.timer[t].interval
      BY <1>1, <1>2, <2>3
    <3>2. QED
      BY <1>1, <2>1, <3>1 DEF Enough
  <2>4. QED
    BY <1>1, <2>2, <2>3
<1>4. Less(0) = 0 /\ 0 \in 0 .. Forever
  BY <1>1 DEF Less
<1>5. \A u : Queued(incoming', u) <=> Queued(incoming, u)
  BY <1>2 DEF Queued
<1>6. Placed(t)' \/ Told(ready', t) \/ Wakens(sch', t) => Placed(t) \/ Told(ready, t) \/ Wakens(sch, t)
  BY <1>2, <1>5 DEF Placed
<1>7. local'[t].st = "asleep" => local'[t].at = 1
  BY <1>1, <1>2 DEF TimerOK
<1>8. local'[t].at = 1 /\ (Placed(t)' \/ Told(ready', t) \/ Wakens(sch', t)) => Enough(job, local', local'[t].next, t)
  BY <1>1, <1>2, <1>3, <1>6 DEF TimerOK
<1>9. ASSUME local'[t].at = 2
      PROVE  /\ \A i \in DOMAIN incoming' : incoming'[i].task = t =>
                  incoming'[i].files = None /\ Enough(job, local', incoming'[i].left, t)
             /\ t \in DOMAIN entries' => entries'[t].files = None /\ Enough(job, local', entries'[t].left, t)
             /\ HasItem(ready', t) \/ Runs(sch', t) => Enough(job, local', 0, t)
  <2>1. /\ \A i \in DOMAIN incoming : incoming[i].task = t =>
             incoming[i].files = None /\ Enough(job, local, incoming[i].left, t)
        /\ t \in DOMAIN entries => entries[t].files = None /\ Enough(job, local, entries[t].left, t)
        /\ HasItem(ready, t) \/ Runs(sch, t) => Enough(job, local, 0, t)
    BY <1>1, <1>2, <1>9 DEF TimerOK
  <2>2. ASSUME NEW i \in DOMAIN incoming', incoming'[i].task = t
        PROVE  incoming'[i].files = None /\ Enough(job, local', incoming'[i].left, t)
    <3>1. i \in DOMAIN incoming /\ incoming[i].task = t
      BY <1>2, <2>2
    <3>2. incoming[i].left \in 0 .. Forever
      <4>1. incoming[i] \in Requests(Files)
        BY <1>1, <3>1
      <4>2. QED
        BY <4>1 DEF Requests
    <3>3. QED
      BY <1>2, <1>3, <2>1, <3>1, <3>2
  <2>3. ASSUME t \in DOMAIN entries'
        PROVE  entries'[t].files = None /\ Enough(job, local', entries'[t].left, t)
    <3>1. t \in DOMAIN entries
      BY <1>2, <2>3
    <3>2. entries[t].left \in 0 .. Forever
      BY <1>1, <3>1 DEF Waits
    <3>3. QED
      BY <1>2, <1>3, <2>1, <3>1, <3>2
  <2>4. HasItem(ready', t) \/ Runs(sch', t) => Enough(job, local', 0, t)
    BY <1>2, <1>3, <1>4, <2>1
  <2>5. QED
    BY <2>2, <2>3, <2>4
<1>10. QED
  BY <1>2, <1>7, <1>8, <1>9 DEF TimerOK

\* TimersOK is kept by every step.
LEMMA TimersKept ==
  ASSUME SchedInv, TypeOK', Next
  PROVE  TimersOK'
<1>1. job' = job
  BY Onward
<1>2. ASSUME NEW t \in Of("timer") PROVE TimerOK(t)'
  <2>1. CASE \E u \in Tasks : TimerStep(u)
    <3>1. PICK u \in Tasks : TimerStep(u)
      BY <2>1
    <3>2. QED
      BY <3>1, OwnTimer, OtherTimer
  <2>2. CASE Answering \/ Network
    <3>1. UNCHANGED <<local, ready, sch, entries, incoming>>
      BY <2>2 DEF Answering, Answers, HangsUp, Network, Turns, Says, Quiet, schedulerVars, hubVars
    <3>2. TimesKept(t) /\ ComesTo(t)
      BY <3>1 DEF TimesKept, ComesTo
    <3>3. QED
      BY <3>2, TimerStill
  <2>3. QED
    BY <2>1, <2>2, NextCases, ProgramTimers, SchedulerTimers, OtherTimers, ThreadTimers, HubTimers, TickTimers
<1>3. QED
  BY <1>1, <1>2 DEF TimersOK, Of, Kind

(* ------------------------ workers and commands ------------------------- *)
Alike(wk, wk2, v) == wk2[v].st = wk[v].st /\ wk2[v].closed = wk[v].closed

\* Workers that are alike suit the same commands.
LEMMA CommandsAlike ==
  ASSUME NEW wk, NEW wk2, NEW cs, NEW ms \in SUBSET Workers, NEW ms2 \in SUBSET ms, CommandsOK(wk, cs, ms),
         cs \in Seq(Commands), \A v \in Workers : Alike(wk, wk2, v)
  PROVE  CommandsOK(wk2, cs, ms2)
<1>1. \A i \in DOMAIN cs : cs[i].w \in Workers
  <2>1. \A i \in DOMAIN cs : cs[i] \in Commands
    OBVIOUS
  <2>2. QED
    BY <2>1 DEF Commands
<1>2. QED
  BY <1>1 DEF CommandsOK, Alike

\* Commands differ by what they do and by their workers.
LEMMA CommandsApart ==
  \A v, w \in Workers : /\ Add(v) \in Commands /\ Close(v) \in Commands /\ Add(v) # Close(w)
                        /\ (Add(v) = Add(w) => v = w) /\ (Close(v) = Close(w) => v = w)
                        /\ Add(v).op = "add" /\ Add(v).w = v /\ Close(v).op = "close" /\ Close(v).w = v
BY DEF Add, Close, Commands

\* A worker that is opened, with the command to add it.
LEMMA AddCommand ==
  ASSUME NEW wk, NEW wk2, NEW cs \in Seq(Commands), NEW ms \in SUBSET Workers, NEW w \in Workers,
         CommandsOK(wk, cs, ms),
         wk[w].st = "none", wk2[w].st = "open", ~wk2[w].closed, \A v \in Workers : v # w => Alike(wk, wk2, v)
  PROVE  CommandsOK(wk2, Append(cs, Add(w)), ms)
<1> DEFINE n == Len(cs)
           c2 == Append(cs, Add(w))
<1>1. n \in Nat /\ DOMAIN cs = 1 .. n /\ DOMAIN c2 = 1 .. n + 1 /\ c2[n + 1] = Add(w) /\ \A i \in 1 .. n : c2[i] = cs[i]
  BY CommandsApart
<1>2. ~wk[w].closed /\ (\A i \in 1 .. n : cs[i].w # w /\ cs[i].w \in Workers) /\ w \notin ms
  <2>1. \A i \in DOMAIN cs : cs[i] \in Commands
    OBVIOUS
  <2>2. QED
    BY <1>1, <2>1 DEF CommandsOK, Commands
<1>3. ~Contains(cs, Add(w)) /\ (\A v \in Workers : Contains(c2, Close(v)) <=> Contains(cs, Close(v))) /\ Once(c2)
  <2>1. ~Contains(cs, Add(w))
    BY <1>1, <1>2, CommandsApart DEF Contains
  <2>2. /\ \A y : Contains(c2, y) <=> Contains(cs, y) \/ y = Add(w)
        /\ Once(cs) /\ ~Contains(cs, Add(w)) => Once(c2)
    BY CommandsApart, Appended
  <2>3. QED
    BY <2>1, <2>2, CommandsApart DEF CommandsOK
<1>4. \A i \in 1 .. n : wk2[cs[i].w].st = "open"
  BY <1>1, <1>2 DEF CommandsOK, Alike
<1> HIDE DEF n, c2
<1>5. \A i \in 1 .. n + 1 : i \in 1 .. n \/ i = n + 1
  BY <1>1
<1>6. \A i \in DOMAIN c2 : wk2[c2[i].w].st = "open"
  BY <1>1, <1>4, <1>5, CommandsApart
<1>7. \A i, j \in DOMAIN c2 : c2[i].op = "add" /\ c2[j].op = "close" /\ c2[i].w = c2[j].w => i < j
  <2> SUFFICES ASSUME NEW i \in DOMAIN c2, NEW j \in DOMAIN c2, c2[i].op = "add", c2[j].op = "close",
                      c2[i].w = c2[j].w
               PROVE  i < j
    OBVIOUS
  <2>1. j \in 1 .. n
    BY <1>1, <1>5, CommandsApart
  <2>2. i \in 1 .. n
    BY <1>1, <1>2, <1>5, <2>1, CommandsApart
  <2>3. QED
    BY <1>1, <2>1, <2>2 DEF CommandsOK
<1>8. ASSUME NEW v \in Workers
      PROVE  /\ Contains(c2, Close(v)) <=> wk2[v].closed
             /\ wk2[v].closed => wk2[v].st = "open"
             /\ v \in ms => wk2[v].st = "open"
  BY <1>2, <1>3 DEF CommandsOK, Alike
<1>9. QED
  BY <1>3, <1>6, <1>7, <1>8 DEF CommandsOK, c2

\* A worker that is closed, with the command to close it.
LEMMA CloseCommand ==
  ASSUME NEW wk, NEW wk2, NEW cs \in Seq(Commands), NEW ms \in SUBSET Workers, NEW ms2 \in SUBSET ms,
         NEW w \in Workers,
         CommandsOK(wk, cs, ms), wk[w].st = "open", wk[w].closed = FALSE, wk2[w].st = "open", wk2[w].closed,
         \A v \in Workers : v # w => Alike(wk, wk2, v)
  PROVE  CommandsOK(wk2, Append(cs, Close(w)), ms2)
<1> DEFINE n == Len(cs)
           c2 == Append(cs, Close(w))
<1>1. n \in Nat /\ DOMAIN cs = 1 .. n /\ DOMAIN c2 = 1 .. n + 1 /\ c2[n + 1] = Close(w) /\ \A i \in 1 .. n : c2[i] = cs[i]
  BY CommandsApart
<1>2. \A i \in 1 .. n : cs[i].w \in Workers /\ wk2[cs[i].w].st = "open"
  <2>1. \A i \in DOMAIN cs : cs[i] \in Commands
    OBVIOUS
  <2>2. QED
    BY <1>1, <2>1 DEF CommandsOK, Commands, Alike
<1>3. (\A v \in Workers : Contains(c2, Close(v)) <=> Contains(cs, Close(v)) \/ v = w) /\ Once(c2)
  <2>1. ~Contains(cs, Close(w)) /\ Once(cs)
    BY DEF CommandsOK
  <2>2. /\ \A y : Contains(c2, y) <=> Contains(cs, y) \/ y = Close(w)
        /\ Once(cs) /\ ~Contains(cs, Close(w)) => Once(c2)
    BY CommandsApart, Appended
  <2>3. QED
    BY <2>1, <2>2, CommandsApart
<1> HIDE DEF n, c2
<1>5. \A i \in 1 .. n + 1 : i \in 1 .. n \/ i = n + 1
  BY <1>1
<1>6. \A i \in DOMAIN c2 : wk2[c2[i].w].st = "open"
  BY <1>1, <1>2, <1>5, CommandsApart
<1>7. \A i, j \in DOMAIN c2 : c2[i].op = "add" /\ c2[j].op = "close" /\ c2[i].w = c2[j].w => i < j
  <2> SUFFICES ASSUME NEW i \in DOMAIN c2, NEW j \in DOMAIN c2, c2[i].op = "add", c2[j].op = "close",
                      c2[i].w = c2[j].w
               PROVE  i < j
    OBVIOUS
  <2>1. i \in 1 .. n
    BY <1>1, <1>5, CommandsApart
  <2>2. CASE j \in 1 .. n
    BY <1>1, <2>1, <2>2 DEF CommandsOK
  <2>3. CASE j = n + 1
    BY <1>1, <2>1, <2>3
  <2>4. QED
    BY <1>1, <1>5, <2>2, <2>3
<1>8. ASSUME NEW v \in Workers
      PROVE  /\ Contains(c2, Close(v)) <=> wk2[v].closed
             /\ wk2[v].closed => wk2[v].st = "open"
             /\ v \in ms2 => wk2[v].st = "open"
  BY <1>3 DEF CommandsOK, Alike
<1>9. QED
  BY <1>3, <1>6, <1>7, <1>8 DEF CommandsOK, c2

\* A worker without commands is freed, or an attempt has failed.
LEMMA NoCommand ==
  ASSUME NEW wk, NEW wk2, NEW cs \in Seq(Commands), NEW ms \in SUBSET Workers, NEW w \in Workers,
         CommandsOK(wk, cs, ms),
         wk[w].st # "open", ~wk2[w].closed, \A v \in Workers : v # w => Alike(wk, wk2, v)
  PROVE  CommandsOK(wk2, cs, ms)
<1>1. ~wk[w].closed /\ (\A i \in DOMAIN cs : cs[i].w # w /\ cs[i].w \in Workers) /\ w \notin ms
  <2>1. \A i \in DOMAIN cs : cs[i] \in Commands
    OBVIOUS
  <2>2. QED
    BY <2>1 DEF CommandsOK, Commands
<1>2. QED
  BY <1>1 DEF CommandsOK, Alike

\* The next command is run.
LEMMA RunCommand ==
  ASSUME NEW wk, NEW wk2, NEW cs \in Seq(Commands), NEW ms \in SUBSET Workers, NEW ms2,
         CommandsOK(wk, cs, ms), cs # <<>>,
         IF Head(cs).op = "add" THEN wk2 = wk /\ ms2 = ms \union {Head(cs).w}
         ELSE /\ ms2 = ms \ {Head(cs).w} /\ ~wk2[Head(cs).w].closed
              /\ \A v \in Workers : v # Head(cs).w => Alike(wk, wk2, v)
  PROVE  CommandsOK(wk2, Tail(cs), ms2)
<1> DEFINE n == Len(cs)
           c2 == Tail(cs)
           w == Head(cs).w
<1>1. n \in Nat \ {0} /\ DOMAIN cs = 1 .. n /\ DOMAIN c2 = 1 .. n - 1 /\ Len(c2) = n - 1 /\ \A i \in 1 .. n - 1 : c2[i] = cs[i + 1] /\ i + 1 \in 1 .. n
  OBVIOUS
<1>2. Head(cs) = cs[1] /\ 1 \in 1 .. n
  OBVIOUS
<1>3. \A i \in 1 .. n : cs[i].w \in Workers /\ cs[i].op \in {"add", "close"} /\ wk[cs[i].w].st = "open"
                        /\ cs[i] = IF cs[i].op = "add" THEN Add(cs[i].w) ELSE Close(cs[i].w)
  <2>1. \A i \in DOMAIN cs : cs[i] \in Commands
    OBVIOUS
  <2>2. QED
    BY <1>1, <2>1 DEF CommandsOK, Commands, Add, Close
<1>4. /\ \A y : Contains(cs, y) <=> y = Head(cs) \/ Contains(c2, y)
      /\ Once(c2) /\ ~Contains(c2, Head(cs))
  BY Tailed DEF CommandsOK
<1>5. w \in Workers
  BY <1>2, <1>3
<1> HIDE DEF n, c2
<1>6. \A i, j \in DOMAIN c2 : c2[i].op = "add" /\ c2[j].op = "close" /\ c2[i].w = c2[j].w => i < j
  <2> SUFFICES ASSUME NEW i \in 1 .. n - 1, NEW j \in 1 .. n - 1, cs[i + 1].op = "add", cs[j + 1].op = "close",
                      cs[i + 1].w = cs[j + 1].w
               PROVE  i < j
    BY <1>1
  <2>1. i + 1 < j + 1
    BY <1>1 DEF CommandsOK
  <2>2. QED
    BY <2>1
<1>7. CASE Head(cs).op = "add"
  <2>1. wk2 = wk /\ ms2 = ms \union {w}
    BY <1>7
  <2>2. \A v \in Workers : Contains(c2, Close(v)) <=> Contains(cs, Close(v))
    BY <1>2, <1>3, <1>4, <1>5, <1>7, CommandsApart
  <2>3. \A i \in DOMAIN c2 : wk2[c2[i].w].st = "open"
    BY <1>1, <1>3, <2>1
  <2>4. wk[w].st = "open"
    BY <1>2, <1>3
  <2>5. QED
    BY <1>4, <1>6, <2>1, <2>2, <2>3, <2>4 DEF CommandsOK, c2
<1>8. CASE Head(cs).op # "add"
  <2>1. /\ ms2 = ms \ {w} /\ ~wk2[w].closed /\ (\A v \in Workers : v # w => Alike(wk, wk2, v)) /\ Head(cs) = Close(w)
        /\ cs[1].op = "close"
    BY <1>2, <1>3, <1>8
  <2>2. \A i \in 1 .. n - 1 : c2[i].w # w /\ c2[i].w \in Workers
    <3> SUFFICES ASSUME NEW i \in 1 .. n - 1, cs[i + 1].w = w PROVE FALSE
      BY <1>1, <1>3
    <3>1. i + 1 \in 1 .. n /\ ~(i + 1 < 1)
      BY <1>1
    <3>2. cs[i + 1].op # "add"
      BY <1>1, <1>2, <2>1, <3>1 DEF CommandsOK
    <3>3. cs[i + 1] = Close(w)
      BY <1>3, <3>1, <3>2
    <3>4. c2[i] = Close(w) /\ i \in 1 .. Len(c2)
      BY <1>1, <3>3
    <3>5. Contains(c2, Close(w))
      BY <3>4 DEF Contains
    <3>6. QED
      BY <1>4, <2>1, <3>5
  <2>3. \A i \in DOMAIN c2 : wk2[c2[i].w].st = "open"
    BY <1>1, <1>3, <2>1, <2>2 DEF Alike
  <2>4. \A v \in Workers : Contains(c2, Close(v)) <=> Contains(cs, Close(v)) /\ v # w
    BY <1>4, <1>5, <2>1, CommandsApart
  <2>5. ASSUME NEW v \in Workers
        PROVE  /\ Contains(c2, Close(v)) <=> wk2[v].closed
               /\ wk2[v].closed => wk2[v].st = "open"
               /\ v \in ms2 => wk2[v].st = "open"
    BY <2>1, <2>4 DEF CommandsOK, Alike
  <2>6. \A v \in ms2 : wk2[v].st = "open"
    BY <2>1, <2>5
  <2>7. QED
    BY <1>4, <1>6, <2>3, <2>5, <2>6 DEF CommandsOK, c2
<1>9. QED
  BY <1>7, <1>8

(* --------------- the loop and the timers of the workers ---------------- *)
SameLocal(u) == /\ local'[u].st = local[u].st /\ local'[u].at = local[u].at /\ local'[u].cancelled = local[u].cancelled
                /\ local'[u].rv = local[u].rv

\* A task that is neither a program nor a timer keeps what it has but for its own steps, what
\* the hub gives it and what closes a worker.
LEMMA Untouched ==
  ASSUME SchedInv, Next, NEW u \in Tasks, job.kind[u] \notin {"program", "timer"}, u # Caller,
         ~TimerStep(u), ~BeginStep(u),
         ~LostStep, \A w \in Workers : ~WorkStep(w), ~LoopStep, ~Hub
  PROVE  SameLocal(u)
<1>1. TypeOK /\ local \in [Tasks -> Locals(Files)] /\ local[u] \in Locals(Files)
  BY DEF SchedInv, TypeOK
<1>2. ASSUME local'[u] = local[u] PROVE SameLocal(u)
  BY <1>2 DEF SameLocal
<1>3. CASE Switches \/ Rings \/ CheckStep \/ SetStep \/ (\E t \in Tasks : BlockingStep(t)) \/ (\E f \in Threads : Launches(f))
           \/ Answering \/ Network
  BY <1>2, <1>3 DEF Switches, Rings, CheckStep, ChecksEvents, SetStep, BlockingSets, BlockingStep,
     BlockingEnds, Launches, Answering,
        Answers, HangsUp, Network, Turns, Says, Quiet
<1>4. CASE CallerStep
  <2>1. \/ local' = [local EXCEPT ![Caller].st = "live", ![Caller].at = 2]
        \/ local' = [local EXCEPT ![Caller].at = 3] \/ local' = local
    BY <1>4 DEF CallerStep, CallerSelects, CallerPongs, CallerPops
  <2>2. QED
    BY <1>1, <1>2, <2>1, TasksAssumption
<1>5. CASE \E t \in Tasks : BeginStep(t)
  <2>1. PICK t \in Tasks : BeginStep(t)
    BY <1>5
  <2>2. local' = [local EXCEPT ![t].at = 3, ![t].since = 0] /\ t # u
    BY <2>1 DEF BeginStep, Begins
  <2>3. QED
    BY <1>1, <1>2, <2>2
<1>6. CASE \E t \in Tasks : ProgramStep(t)
  <2>1. PICK t \in Tasks : ProgramStep(t)
    BY <1>6
  <2>2. /\ job.kind[t] = "program"
        /\ \A v \in Tasks : v # t => local'[v].st = local[v].st /\ local'[v].at = local[v].at /\ local'[v].rv = local[v].rv
        /\ \A v \in Tasks : v # t /\ ~ProgramDoes(t) => local'[v].cancelled = local[v].cancelled
    BY <1>1, <2>1, ProgramLocal
  <2>3. CASE ProgramDoes(t)
    <3>1. PICK op \in {"start", "cancel", "call", "event"} : Doing(t, op)
      BY <2>3 DEF ProgramDoes
    <3>2. OpOK(Op(t)) /\ Do(Op(t), On(t))
      BY <1>1, <2>3, <3>1, OpsOK DEF ProgramDoes
    <3>3. On(t) \in [Tasks -> Locals(Files)] /\ On(t)[u] = local[u]
      BY <1>1, <2>2, OnLocal
    <3>4. local'[u] = local[u]
      BY <1>1, <3>2, <3>3, DoLocal DEF Kind
    <3>5. QED
      BY <1>2, <3>4
  <2>4. CASE ~ProgramDoes(t)
    BY <2>2, <2>4 DEF SameLocal
  <2>5. QED
    BY <2>3, <2>4
<1>7. CASE \E t \in Tasks : TimerStep(t)
  <2>1. PICK t \in Tasks : TimerStep(t)
    BY <1>7
  <2>2. t # u
    BY <2>1
  <2>3. CASE TimerSleeps(t) \/ TimerEnds(t)
    <3>1. \/ local' = [local EXCEPT ![t].st = "live", ![t].at = 2, ![t].next = 0]
          \/ local' = [local EXCEPT ![t].st = "done"]
      BY <2>3 DEF TimerSleeps, TimerEnds, Ends
    <3>2. QED
      BY <1>1, <1>2, <2>2, <3>1
  <2>4. CASE TimerFires(t)
    <3> DEFINE l == Fired(t)
               o == Timer(t).f
    <3>1. OpOK(o) /\ o.op # "start" /\ Do(o, l) /\ l \in [Tasks -> Locals(Files)] /\ l[u] = local[u]
      BY <1>1, <2>2, <2>4, FiredLocal
    <3> HIDE DEF l, o
    <3>2. local'[u] = local[u]
      BY <1>1, <3>1, DoLocal DEF Kind
    <3>3. QED
      BY <1>2, <3>2
  <2>5. QED
    BY <2>1, <2>3, <2>4 DEF TimerStep
<1>8. CASE \E f \in Threads : ThreadStep(f)
  <2>1. PICK f \in Threads : ThreadStep(f)
    BY <1>8
  <2>2. CASE local' = local
    BY <1>2, <2>2
  <2>3. CASE local' # local
    <3>1. local' = Started(local, NextOp(f).t) /\ thread[f].at <= Len(job.code[f]) /\ NextOp(f).op = "start"
      BY <2>1, <2>3 DEF ThreadStep, ThreadDoes, ThreadNotifies
    <3>2. NextOp(f).t \in Tasks /\ job.kind[NextOp(f).t] \in {"program", "timer"}
      <4>1. At(job, <<f, thread[f].at>>) = NextOp(f) /\ Fits(job, <<f, thread[f].at>>)
        BY <1>1, <2>1, <3>1, NextStep
      <4>2. QED
        BY <3>1, <4>1 DEF Fits
    <3> DEFINE x == NextOp(f).t
               n == job.timer[x].interval
               zero == 0
    <3>3. x # u /\ (local' = local \/ local' = [local EXCEPT ![x].next = n, ![x].since = zero])
      BY <3>1, <3>2 DEF Started
    <3> HIDE DEF x, n, zero
    <3>4. local'[u] = local[u]
      BY <1>1, <3>3
    <3>5. QED
      BY <1>2, <3>4
  <2>4. QED
    BY <2>2, <2>3
<1>9. CASE Tick
  BY <1>1, <1>9, Ticked DEF SameLocal
<1>10. QED
  BY <1>3, <1>4, <1>5, <1>6, <1>7, <1>8, <1>9, NextCases

\* The hub gives a task the files it has found among those the task waits for.
LEMMA HubLocal ==
  ASSUME SchedInv, Hub, NEW u \in Tasks
  PROVE  /\ local'[u].st = local[u].st /\ local'[u].at = local[u].at /\ local'[u].cancelled = local[u].cancelled
         /\ local'[u].rv = local[u].rv \/ (u \in DOMAIN entries /\ local'[u].rv \subseteq entries[u].files)
<1>1. TypeOK /\ SeatsOK /\ HubOK(hub, entries) /\ local \in [Tasks -> Locals(Files)] /\ local[u] \in Locals(Files)
  BY DEF SchedInv, Ordered, TypeOK
<1>2. CASE Return
  <2>1. PICK x \in hub.back : /\ x \in DOMAIN entries /\ x \in Tasks
                              /\ local' = [local EXCEPT ![x].rv = hub.got \intersect entries[x].files]
    BY <1>1, <1>2, HubLives
  <2>2. CASE x = u
    <3> DEFINE got == hub.got \intersect entries[x].files
    <3> HIDE DEF got
    <3>1. local'[u] = [local[u] EXCEPT !.rv = got]
      BY <1>1, <2>1, <2>2 DEF got
    <3>2. local'[u].st = local[u].st /\ local'[u].at = local[u].at /\ local'[u].cancelled = local[u].cancelled /\ local'[u].rv = got
      BY <1>1, <3>1 DEF Locals
    <3>3. QED
      BY <2>1, <2>2, <3>2 DEF got
  <2>3. CASE x # u
    BY <1>1, <2>1, <2>3
  <2>4. QED
    BY <2>2, <2>3
<1>3. CASE ~Return
  BY <1>3 DEF Hub, HubStep, Scan, Select, pongAll, Drain, break_idle
<1>4. QED
  BY <1>2, <1>3

\* The loop takes files from its own list, and nothing else.
LEMMA LoopLocal ==
  ASSUME SchedInv, LoopStep, NEW u \in Tasks
  PROVE  /\ u # Loop => local'[u] = local[u]
         /\ local'[Loop].rv \subseteq local[Loop].rv
<1>1. local \in [Tasks -> Locals(Files)] /\ Loop \in Tasks /\ local[Loop] \in Locals(Files)
  BY WorkersAssumption DEF SchedInv, TypeOK
<1>2. \/ local' = [local EXCEPT ![Loop].st = "live"] \/ local' = [local EXCEPT ![Loop].rv = @ \ Ping] \/ local' = local
  BY DEF LoopStep, LoopCommands, LoopSelects, LoopPongs
<1>3. u # Loop => local'[u] = local[u]
  BY <1>1, <1>2
<1>4. local'[Loop].rv \subseteq local[Loop].rv
  <2>1. CASE local' = [local EXCEPT ![Loop].st = "live"]
    <3>1. local'[Loop] = [local[Loop] EXCEPT !.st = "live"]
      BY <1>1, <2>1
    <3>2. QED
      BY <1>1, <3>1 DEF Locals
  <2>2. CASE local' = [local EXCEPT ![Loop].rv = @ \ Ping]
    <3> DEFINE rest == local[Loop].rv \ Ping
    <3> HIDE DEF rest
    <3>1. local'[Loop] = [local[Loop] EXCEPT !.rv = rest]
      BY <1>1, <2>2 DEF rest
    <3>2. local'[Loop].rv = rest
      BY <1>1, <3>1 DEF Locals
    <3>3. QED
      BY <3>2 DEF rest
  <2>3. QED
    BY <1>2, <2>1, <2>2
<1>5. QED
  BY <1>3, <1>4

\* What is done about workers, in every step that does something about them.
LEMMA WorkersStay ==
  ASSUME TypeOK, Next, \A f \in Threads : ~Launches(f), \A t \in Tasks : ~BeginStep(t), ~LostStep, ~LoopStep,
         \A w \in Workers : ~WorkStep(w)
  PROVE  members' = members /\ commands' = commands /\ \A v \in Workers : Alike(worker, worker', v)
<1> USE DEF ioVars
<1>1. worker \in [Workers -> WorkerStates]
  BY DEF TypeOK
<1>2. CASE Answering \/ Network
  <2>1. members' = members /\ commands' = commands
    BY <1>2 DEF Answering, Answers, HangsUp, Network, Turns, Says, Quiet
  <2>2. CASE \E w \in Workers : \E sock : worker' = [worker EXCEPT ![w].sock = sock]
    <3> PICK w \in Workers : \E sock : worker' = [worker EXCEPT ![w].sock = sock]
      BY <2>2
    <3>1. PICK sock : worker' = [worker EXCEPT ![w].sock = sock]
      OBVIOUS
    <3>2. ASSUME NEW v \in Workers PROVE Alike(worker, worker', v)
      <4>1. worker[v] \in WorkerStates /\ (worker'[v] = worker[v] \/ worker'[v] = [worker[v] EXCEPT !.sock = sock])
        BY <1>1, <3>1
      <4>2. QED
        BY <4>1 DEF Alike, WorkerStates
    <3>3. QED
      BY <2>1, <3>2
  <2>3. CASE Turns
    <3>1. ASSUME NEW v \in Workers PROVE Alike(worker, worker', v)
      <4>1. worker[v] \in WorkerStates /\ (worker'[v] = worker[v] \/ worker'[v] = [worker[v] EXCEPT !.sock = "eof"])
        BY <1>1, <2>3 DEF Turns
      <4>2. QED
        BY <4>1 DEF Alike, WorkerStates
    <3>2. QED
      BY <2>1, <3>1
  <2>4. QED
    BY <1>2, <2>2, <2>3 DEF Answering, Answers, HangsUp, Network, Says
<1>3. CASE Hub \/ Tick
  BY <1>3 DEF Hub, Tick, Alike
<1>4. CASE Switches \/ Rings \/ CheckStep \/ CallerStep \/ SetStep \/ \E t \in Tasks : ProgramStep(t) \/ TimerStep(t) \/ BlockingStep(t)
  BY <1>4 DEF Switches, Rings, CheckStep, CallerStep, SetStep, ProgramStep, TimerStep, BlockingStep, Alike
<1>5. CASE \E f \in Threads : ThreadStep(f)
  BY <1>5 DEF ThreadStep, Alike
<1>6. QED
  BY <1>2, <1>3, <1>4, <1>5, NextCases

\* The switch is launched by one step only.
LEMMA LaunchedStays ==
  ASSUME SchedInv, Next, \A f \in Threads : ~Launches(f)
  PROVE  Launched(job', thread') <=> Launched(job, thread)
<1>1. TypeOK /\ WaiterOK(job, waiter, thread) /\ job' = job
  <2>1. TypeOK'
    BY TypesKept
  <2>2. QED
    BY <2>1, Onward DEF SchedInv, Ordered
<1>2. Disciplined(job)
  BY <1>1, JobOK
<1>3. CASE \E f \in Threads : ThreadStep(f)
  <2>1. PICK f \in Threads : ThreadStep(f)
    BY <1>3
  <2>2. CASE ThreadNotifies(f)
    <3>1. \A g \in Threads : thread'[g].at = thread[g].at
      BY <1>1, <2>2, Notified
    <3>2. QED
      BY <1>1, <3>1 DEF Launched
  <2>3. CASE ThreadDoes(f)
    <3>1. /\ thread[f].at <= Len(job.code[f]) /\ NextOp(f).op # "launch"
          /\ \E s : thread' = [thread EXCEPT ![f] = [at |-> @.at + 1, then |-> s]]
      BY <2>3 DEF ThreadDoes, Then
    <3>2. thread \in [Threads -> Others]
      BY <1>1 DEF TypeOK
    <3>3. /\ thread'[f].at = thread[f].at + 1 /\ \A g \in Threads : g # f => thread'[g] = thread[g]
      BY <3>1, <3>2
    <3>4. <<f, thread[f].at>> \in Steps(job) /\ At(job, <<f, thread[f].at>>) = NextOp(f) /\ thread[f].at \in Nat
      BY <1>1, <3>1, <3>2, NextStep DEF Others
    <3>5. ASSUME NEW s \in Steps(job), At(job, s).op = "launch", s[1] \in Threads
          PROVE  s[2] < thread'[s[1]].at <=> s[2] < thread[s[1]].at
      <4>1. s = <<s[1], s[2]>> /\ s[2] \in Nat
        BY <1>2, StepsOf
      <4>2. s[1] = f => s[2] # thread[f].at
        BY <3>1, <3>4, <3>5, <4>1
      <4>3. QED
        BY <3>3, <3>4, <3>5, <4>1, <4>2
    <3>6. QED
      BY <1>1, <3>5 DEF Launched
  <2>4. QED
    BY <2>1, <2>2, <2>3 DEF ThreadStep
<1>4. CASE ~(\E f \in Threads : ThreadStep(f))
  <2>1. thread' = thread
    <3>1. CASE \E w \in Workers : WorkStep(w)
      BY <3>1 DEF WorkStep, OthersWait
    <3>2. CASE Hub \/ Tick \/ Answering \/ Network
      BY <3>2 DEF Hub, Tick, Answering, Answers, HangsUp, Network, Turns, Says, Quiet, threadVars
    <3>3. CASE SetStep \/ \E t \in Tasks : BlockingStep(t)
      BY <3>3 DEF SetStep, BlockingSets, BlockingStep, BlockingEnds
    <3>4. CASE \/ Switches \/ Rings \/ CheckStep \/ CallerStep \/ LostStep \/ LoopStep
               \/ \E t \in Tasks : ProgramStep(t) \/ TimerStep(t) \/ BeginStep(t)
      BY <3>4 DEF Switches, Rings, CheckStep, CallerStep, LostStep, LoopStep, ProgramStep, TimerStep,
         BeginStep, OthersWait
    <3>5. QED
      BY <1>4, <3>1, <3>2, <3>3, <3>4, NextCases
  <2>2. QED
    BY <1>1, <2>1
<1>5. QED
  BY <1>3, <1>4

\* The switch is launched: its first worker is opened.
LEMMA LaunchDone ==
  ASSUME SchedInv, NEW f \in Threads, Launches(f)
  PROVE  /\ ~Launched(job, thread) /\ Launched(job', thread') /\ UNCHANGED <<local, sch, incoming, entries, members>> /\ job' = job
         /\ \E w \in Workers : /\ worker[w].st = "none" /\ worker'[w].st = "open" /\ worker'[w].closed = FALSE
                               /\ commands' = Append(commands, Add(w)) /\ \A v \in Workers : v # w => Alike(worker, worker', v)
<1>1. TypeOK /\ worker \in [Workers -> WorkerStates] /\ thread \in [Threads -> Others]
  BY DEF SchedInv, TypeOK
<1>2. UNCHANGED <<local, sch, incoming, entries, members>> /\ job' = job
  BY SameJob DEF Launches, hubVars
<1>3. PICK w \in Unused : /\ worker' = [worker EXCEPT ![w] = [NoWorker EXCEPT !.st = "open", !.sock = "syn", !.connecting = TRUE]]
                          /\ commands' = Append(commands, [op |-> "add", w |-> w])
  BY DEF Launches
<1>4. w \in Workers /\ worker[w].st = "none"
  BY <1>3 DEF Unused, Names
<1>5. worker'[w].st = "open" /\ worker'[w].closed = FALSE
  BY <1>1, <1>3, <1>4 DEF NoWorker
<1>6. \A v \in Workers : v # w => Alike(worker, worker', v)
  BY <1>1, <1>3, <1>4 DEF Alike
<1>7. /\ thread[f].at <= Len(job.code[f]) /\ NextOp(f).op = "launch" /\ thread' = [thread EXCEPT ![f] = [at |-> @.at + 1, then |-> <<"set">>]]
  BY DEF Launches, Then
<1> DEFINE s == <<f, thread[f].at>>
<1>8. s \in Steps(job) /\ At(job, s).op = "launch" /\ s[1] = f /\ s[2] = thread[f].at /\ thread[f].at \in Nat
  BY <1>1, <1>7, NextStep DEF Others
<1>9. thread'[f].at = thread[f].at + 1
  BY <1>1, <1>7
<1>10. LaunchesOnce(job)
  BY <1>1, JobOK
<1> HIDE DEF s
<1>11. ~Launched(job, thread)
  BY <1>8, <1>10 DEF Launched, LaunchesOnce
<1>12. Launched(job', thread')
  BY <1>2, <1>8, <1>9 DEF Launched
<1>13. QED
  BY <1>2, <1>3, <1>4, <1>5, <1>6, <1>11, <1>12 DEF Add

\* A timer opens a worker, or its attempt fails at once.
LEMMA BeginDone ==
  ASSUME SchedInv, NEW t \in Tasks, BeginStep(t)
  PROVE  /\ t \in Of("retry") /\ Runs(sch, t) /\ local[t].at = 2 /\ local' = [local EXCEPT ![t].at = 3, ![t].since = 0]
         /\ UNCHANGED <<sch, incoming, entries, members>>
         /\ \E w \in Workers : /\ worker[w].st = "none" /\ worker'[w].closed = FALSE
                               /\ \A v \in Workers : v # w => Alike(worker, worker', v)
                               /\ \/ worker'[w].st = "open" /\ commands' = Append(commands, Add(w))
                                  \/ worker'[w].st = "failed" /\ commands' = commands
<1>1. worker \in [Workers -> WorkerStates]
  BY DEF SchedInv, TypeOK
<1>2. /\ t \in Of("retry") /\ Runs(sch, t) /\ local[t].at = 2 /\ local' = [local EXCEPT ![t].at = 3, ![t].since = 0]
      /\ UNCHANGED <<sch, incoming, entries, members>>
  BY DEF BeginStep, Begins, Of, Running, Runs, OthersWait, hubVars
<1>3. PICK w \in Unused :
       \/ /\ worker' = [worker EXCEPT ![w] = [NoWorker EXCEPT !.st = "open", !.sock = "syn", !.connecting = TRUE,
                                                             !.delay = local[t].arg]]
          /\ commands' = Append(commands, [op |-> "add", w |-> w])
       \/ /\ worker' = [worker EXCEPT ![w] = [NoWorker EXCEPT !.st = "failed", !.delay = local[t].arg]]
          /\ UNCHANGED commands
  BY DEF BeginStep, Begins
<1>4. w \in Workers /\ worker[w].st = "none"
  BY <1>3 DEF Unused, Names
<1>5. \A v \in Workers : v # w => Alike(worker, worker', v)
  BY <1>1, <1>3, <1>4 DEF Alike
<1>6. worker'[w].closed = FALSE /\ \/ worker'[w].st = "open" /\ commands' = Append(commands, Add(w))
                                   \/ worker'[w].st = "failed" /\ commands' = commands
  BY <1>1, <1>3, <1>4 DEF NoWorker, Add
<1>7. QED
  BY <1>2, <1>4, <1>5, <1>6

\* The loop runs a command, or leaves the workers as they are.
LEMMA LoopDone ==
  ASSUME SchedInv, LoopStep
  PROVE  /\ Runs(sch, Loop) /\ Kind(Loop) = "loop" /\ entries' = entries
         /\ \/ UNCHANGED <<worker, members, commands>>
            \/ /\ local[Loop].rv = None /\ UNCHANGED <<local, incoming>> /\ commands # <<>> /\ commands' = Tail(commands)
               /\ IF Head(commands).op = "add" THEN worker' = worker /\ members' = members \union {Head(commands).w}
                  ELSE /\ members' = members \ {Head(commands).w} /\ worker'[Head(commands).w].st = "none"
                       /\ worker'[Head(commands).w].closed = FALSE
                       /\ \A v \in Workers : v # Head(commands).w => Alike(worker, worker', v)
<1> USE DEF ioVars
<1>1. worker \in [Workers -> WorkerStates] /\ commands \in Seq(Commands)
  BY DEF SchedInv, TypeOK
<1>2. Runs(sch, Loop) /\ Kind(Loop) = "loop" /\ entries' = entries
  BY DEF LoopStep, LoopCommands, LoopSelects, LoopPongs, AtTop, Running, Runs, OthersWait, hubVars
<1>3. CASE LoopCommands
  <2> DEFINE c == Head(commands)
  <2>1. /\ local[Loop].rv = None /\ UNCHANGED <<local, incoming>> /\ commands # <<>> /\ commands' = Tail(commands)
        /\ IF c.op = "add" THEN worker' = worker /\ members' = members \union {c.w}
           ELSE members' = members \ {c.w} /\ worker' = [worker EXCEPT ![c.w] = NoWorker]
    BY <1>3 DEF LoopCommands, AtTop
  <2>2. c.w \in Workers
    <3>1. c \in Commands
      BY <1>1, <2>1
    <3>2. QED
      BY <3>1 DEF Commands
  <2> HIDE DEF c
  <2>3. c.op # "add" => /\ worker'[c.w].st = "none" /\ worker'[c.w].closed = FALSE
                        /\ \A v \in Workers : v # c.w => Alike(worker, worker', v)
    BY <1>1, <2>1, <2>2 DEF NoWorker, Alike
  <2>4. QED
    BY <1>2, <2>1, <2>3 DEF c
<1>4. CASE LoopSelects \/ LoopPongs
  BY <1>2, <1>4 DEF LoopSelects, LoopPongs
<1>5. QED
  BY <1>3, <1>4 DEF LoopStep

\* CommandsOK is kept by every step.
LEMMA CommandsKept ==
  ASSUME SchedInv, TypeOK', Next
  PROVE  CommandsOK(worker', commands', members')
<1>1. /\ TypeOK /\ CommandsOK(worker, commands, members) /\ commands \in Seq(Commands) /\ members \in SUBSET Workers
      /\ worker \in [Workers -> WorkerStates]
  BY DEF SchedInv, OneAtWork, TypeOK
<1>2. CASE \E f \in Threads : Launches(f)
  <2>1. PICK f \in Threads : Launches(f)
    BY <1>2
  <2>2. members' = members
    BY <2>1, LaunchDone
  <2>3. PICK w \in Workers : /\ worker[w].st = "none" /\ worker'[w].st = "open" /\ worker'[w].closed = FALSE
                             /\ commands' = Append(commands, Add(w)) /\ \A v \in Workers : v # w => Alike(worker, worker', v)
    BY <2>1, LaunchDone
  <2>4. QED
    BY <1>1, <2>2, <2>3, AddCommand
<1>3. CASE \E t \in Tasks : BeginStep(t)
  <2>1. members' = members
    BY <1>3, BeginDone
  <2>2. PICK w \in Workers : /\ worker[w].st = "none" /\ worker'[w].closed = FALSE
                             /\ \A v \in Workers : v # w => Alike(worker, worker', v)
                             /\ \/ worker'[w].st = "open" /\ commands' = Append(commands, Add(w))
                                \/ worker'[w].st = "failed" /\ commands' = commands
    BY <1>3, BeginDone
  <2>3. CASE worker'[w].st = "open" /\ commands' = Append(commands, Add(w))
    BY <1>1, <2>1, <2>2, <2>3, AddCommand
  <2>4. CASE commands' = commands
    BY <1>1, <2>1, <2>2, <2>4, NoCommand
  <2>5. QED
    BY <2>2, <2>3, <2>4
<1>4. CASE LostStep
  <2>1. members' = members /\ commands' = commands
    BY <1>4, LostDone
  <2>2. PICK w \in Workers : worker[w].st = "failed" /\ worker' = [worker EXCEPT ![w] = NoWorker]
    BY <1>4, LostDone
  <2>3. ~worker'[w].closed /\ \A v \in Workers : v # w => Alike(worker, worker', v)
    BY <1>1, <2>2 DEF NoWorker, Alike
  <2>4. QED
    BY <1>1, <2>1, <2>2, <2>3, NoCommand
<1>5. CASE LoopStep
  <2>1. CASE UNCHANGED <<worker, members, commands>>
    BY <1>1, <2>1
  <2>2. CASE ~UNCHANGED <<worker, members, commands>>
    <3>1. /\ commands # <<>> /\ commands' = Tail(commands)
          /\ IF Head(commands).op = "add" THEN worker' = worker /\ members' = members \union {Head(commands).w}
             ELSE /\ members' = members \ {Head(commands).w}
                  /\ worker'[Head(commands).w].closed = FALSE
                  /\ \A v \in Workers : v # Head(commands).w => Alike(worker, worker', v)
      BY <1>5, <2>2, LoopDone
    <3>2. QED
      BY <1>1, <3>1, RunCommand
  <2>3. QED
    BY <2>1, <2>2
<1>6. CASE \E w \in Workers : WorkStep(w)
  <2>1. PICK w \in Workers : WorkStep(w)
    BY <1>6
  <2>2. members' \subseteq members /\ worker[w].st = "open"
    BY <2>1, WorkDone
  <2>3. PICK wk : /\ AlikeBut(wk)
                  /\ \/ worker' = wk /\ commands' = commands
                     \/ w \in Live /\ worker' = [wk EXCEPT ![w].closed = TRUE] /\ commands' = Append(commands, Close(w))
    BY <2>1, WorkDone
  <2>4. wk \in [Workers -> WorkerStates] /\ \A v \in Workers : Alike(worker, wk, v)
    BY <2>3 DEF AlikeBut, Alike
  <2>5. CASE worker' = wk /\ commands' = commands
    BY <1>1, <2>2, <2>4, <2>5, CommandsAlike
  <2>6. CASE w \in Live /\ worker' = [wk EXCEPT ![w].closed = TRUE] /\ commands' = Append(commands, Close(w))
    <3>1. worker[w].closed = FALSE
      BY <1>1, <2>6 DEF Live, WorkerStates
    <3>2. worker'[w].st = "open" /\ worker'[w].closed
      <4>1. worker'[w] = [wk[w] EXCEPT !.closed = TRUE] /\ wk[w] \in WorkerStates /\ wk[w].st = "open"
        BY <2>2, <2>4, <2>6 DEF Alike
      <4>2. QED
        BY <4>1 DEF WorkerStates
    <3>3. \A v \in Workers : v # w => Alike(worker, worker', v)
      BY <2>4, <2>6 DEF Alike
    <3>4. QED
      BY <1>1, <2>2, <2>6, <3>1, <3>2, <3>3, CloseCommand
  <2>7. QED
    BY <2>3, <2>5, <2>6
<1>7. QED
  BY <1>1, <1>2, <1>3, <1>4, <1>5, <1>6, WorkersStay, CommandsAlike

\* A timer that is running runs on until it is done with its slice.
LEMMA RunsOn ==
  ASSUME SchedInv, Next, NEW t \in Of("retry"), Runs(sch, t), ~TimerStep(t), ~BeginStep(t)
  PROVE  sch' = sch
<1>1. TypeOK /\ t \in Tasks /\ job.kind[t] = "retry" /\ t # Caller /\ t # Loop /\ sch.pc = "run" /\ sch.task = t
  <2>1. TypeOK /\ t \in Tasks /\ job.kind[t] = "retry" /\ sch.pc = "run" /\ sch.task = t
    BY DEF SchedInv, Of, Kind, Runs
  <2>2. Disciplined(job) /\ LaunchesOnce(job)
    BY <2>1, JobOK
  <2>3. QED
    BY <2>1, <2>2 DEF Disciplined, LaunchesOnce
<1>2. CASE Switches \/ Rings \/ CheckStep
  BY <1>1, <1>2 DEF Switches, Switching, cycle, idle, Waited, Cleared, Wakes, Rings, Pings, Quit,
     CheckStep, ChecksEvents
<1>3. CASE CallerStep \/ LostStep
  BY <1>1, <1>3 DEF CallerStep, CallerSelects, CallerPongs, CallerPops, LostStep, CallerLost, Running
<1>4. CASE LoopStep \/ \E w \in Workers : WorkStep(w)
  <2>1. Runs(sch, Loop)
    BY <1>4, LoopDone, WorkDone
  <2>2. QED
    BY <1>1, <2>1 DEF Runs
<1>5. CASE \E u \in Tasks : ProgramStep(u)
  <2>1. PICK u \in Tasks : ProgramStep(u)
    BY <1>5
  <2>2. job.kind[u] = "program" /\ Runs(sch, u)
    BY <1>1, <2>1, ProgramLocal
  <2>3. QED
    BY <1>1, <2>2 DEF Runs
<1>6. CASE \E u \in Tasks : TimerStep(u) \/ BeginStep(u)
  BY <1>1, <1>6 DEF TimerStep, TimerSleeps, TimerEnds, TimerFires, BeginStep, Begins, Running
<1>7. CASE SetStep \/ (\E u \in Tasks : BlockingStep(u)) \/ (\E f \in Threads : ThreadStep(f) \/ Launches(f))
  BY <1>7 DEF SetStep, BlockingSets, BlockingStep, BlockingEnds, ThreadStep, ThreadDoes, ThreadNotifies,
     Launches
<1>8. CASE Hub \/ Tick \/ Answering \/ Network
  BY <1>8 DEF Hub, Tick, Answering, Answers, HangsUp, Network, Turns, Says, Quiet, schedulerVars
<1>9. QED
  BY <1>2, <1>3, <1>4, <1>5, <1>6, <1>7, <1>8, NextCases

Stands(u) == local'[u].st = local[u].st /\ local'[u].at = local[u].at /\ local'[u].cancelled = local[u].cancelled

\* What a step does to a timer of the workers that does not take it.
LEMMA RetryStands ==
  ASSUME SchedInv, Next, NEW t \in Of("retry"), ~TimerStep(t), ~BeginStep(t)
  PROVE  \/ Stands(t)
         \/ /\ LostStep \/ \E w \in Workers : WorkStep(w)
            /\ local[t].st = "done" /\ local'[t].st = "asleep" /\ local'[t].at = 1 /\ ~local'[t].cancelled
<1>1. TypeOK /\ t \in Tasks /\ job.kind[t] = "retry" /\ t # Caller /\ t # Loop /\ local \in [Tasks -> Locals(Files)]
  <2>1. TypeOK /\ t \in Tasks /\ job.kind[t] = "retry" /\ local \in [Tasks -> Locals(Files)]
    BY DEF SchedInv, Of, Kind, TypeOK
  <2>2. Disciplined(job) /\ LaunchesOnce(job)
    BY <2>1, JobOK
  <2>3. QED
    BY <2>1, <2>2 DEF Disciplined, LaunchesOnce
<1>2. CASE Hub
  BY <1>1, <1>2, HubLocal DEF Stands
<1>3. CASE LoopStep
  BY <1>1, <1>3, LoopLocal DEF Stands
<1>4. CASE LostStep
  <2>1. PICK u : \E d : SetsUp(local, u, d)
    BY <1>4, LostDone
  <2>2. /\ local[u].st = "done" /\ local'[u].st = "asleep" /\ local'[u].at = 1 /\ ~local'[u].cancelled
        /\ \A v \in Tasks : v # u => local'[v] = local[v]
    BY <1>1, <2>1, SetUpLocal
  <2>3. QED
    BY <1>1, <1>4, <2>2 DEF Stands
<1>5. ASSUME NEW w \in Workers, WorkStep(w)
      PROVE  Stands(t) \/ (local[t].st = "done" /\ local'[t].st = "asleep" /\ local'[t].at = 1 /\ ~local'[t].cancelled)
  <2>1. PICK f : local' = Listed(f) \/ \E u, d : SetsUp(Listed(f), u, d)
    BY <1>5, WorkDone
  <2>2. Listed(f) \in [Tasks -> Locals(Files)] /\ Listed(f)[t] = local[t]
    BY <1>1, ListedLocal
  <2>3. CASE local' = Listed(f)
    BY <2>2, <2>3 DEF Stands
  <2>4. CASE \E u, d : SetsUp(Listed(f), u, d)
    <3>1. PICK u, d : SetsUp(Listed(f), u, d)
      BY <2>4
    <3>2. /\ Listed(f)[u].st = "done" /\ local'[u].st = "asleep" /\ local'[u].at = 1 /\ ~local'[u].cancelled
          /\ \A v \in Tasks : v # u => local'[v] = Listed(f)[v]
      BY <2>2, <3>1, SetUpLocal
    <3>3. QED
      BY <1>1, <2>2, <3>2 DEF Stands
  <2>5. QED
    BY <2>1, <2>3, <2>4
<1>6. CASE ~Hub /\ ~LoopStep /\ ~LostStep /\ \A w \in Workers : ~WorkStep(w)
  <2>1. SameLocal(t)
    BY <1>1, <1>6, Untouched
  <2>2. QED
    BY <2>1 DEF SameLocal, Stands
<1>7. QED
  BY <1>2, <1>3, <1>4, <1>5, <1>6

\* Its own steps: it sleeps, and when it has opened a worker it ends.
LEMMA RetrySteps ==
  ASSUME SchedInv, NEW t \in Of("retry"), TimerStep(t)
  PROVE  /\ ~local'[t].cancelled /\ UNCHANGED <<worker, thread, commands, members>>
         /\ \A u \in Tasks : u # t => local'[u] = local[u]
         /\ \/ local[t].at = 1 /\ local'[t].at = 2 /\ local'[t].st = "live" /\ local[t].st # "done"
            \/ local[t].at = 3 /\ local'[t].at = 3 /\ local'[t].st = "done"
<1>1. /\ TypeOK /\ SeatsOK /\ RetriesOK /\ t \in Tasks /\ job.kind[t] = "retry" /\ local \in [Tasks -> Locals(Files)]
      /\ local[t] \in Locals(Files)
  BY DEF SchedInv, Ordered, OneAtWork, Of, Kind, TypeOK
<1>2. ~local[t].cancelled /\ UNCHANGED <<worker, thread, commands, members>>
  BY <1>1 DEF RetriesOK, TimerStep, OthersWait, ioVars
<1>3. CASE TimerSleeps(t)
  <2> DEFINE i == 2
             zero == 0
             live == "live"
  <2>1. local' = [local EXCEPT ![t].st = live, ![t].at = i, ![t].next = zero] /\ local[t].at = 1 /\ Runs(sch, t)
    BY <1>3 DEF TimerSleeps, Running, Runs
  <2> HIDE DEF i, zero, live
  <2>2. local'[t] = [local[t] EXCEPT !.st = live, !.at = i, !.next = zero] /\ \A u \in Tasks : u # t => local'[u] = local[u]
    BY <1>1, <2>1
  <2>3. local'[t].st = live /\ local'[t].at = i /\ local'[t].cancelled = local[t].cancelled
    BY <1>1, <2>2 DEF Locals
  <2>4. local[t].st # "done"
    <3>1. Placed(t)
      BY <2>1 DEF Placed
    <3>2. QED
      BY <1>1, <3>1 DEF SeatsOK, Seated
  <2>5. QED
    BY <1>2, <2>1, <2>2, <2>3, <2>4 DEF i, live
<1>4. CASE TimerEnds(t)
  <2>1. local[t].at = 3 /\ local' = [local EXCEPT ![t].st = "done"]
    BY <1>2, <1>4 DEF TimerEnds, Ends
  <2>2. local'[t] = [local[t] EXCEPT !.st = "done"] /\ \A u \in Tasks : u # t => local'[u] = local[u]
    BY <1>1, <2>1
  <2>3. local'[t].st = "done" /\ local'[t].at = local[t].at /\ local'[t].cancelled = local[t].cancelled
    BY <1>1, <2>2 DEF Locals
  <2>4. QED
    BY <1>2, <2>1, <2>2, <2>3
<1>5. ~TimerFires(t)
  BY <1>1 DEF TimerFires, Kind
<1>6. QED
  BY <1>3, <1>4, <1>5 DEF TimerStep

\* A timer that has opened a worker is at its last place.
LEMMA BeginLocal ==
  ASSUME SchedInv, NEW t \in Tasks, BeginStep(t)
  PROVE  /\ local'[t].at = 3 /\ local'[t].st = local[t].st /\ local'[t].cancelled = local[t].cancelled /\ local[t].st # "done"
         /\ \A u \in Tasks : u # t => local'[u] = local[u]
<1> DEFINE i == 3
           zero == 0
<1>1. local' = [local EXCEPT ![t].at = i, ![t].since = zero] /\ Runs(sch, t)
  BY BeginDone
<1>2. local \in [Tasks -> Locals(Files)] /\ local[t] \in Locals(Files) /\ SeatsOK
  BY DEF SchedInv, Ordered, TypeOK
<1> HIDE DEF i, zero
<1>3. local'[t] = [local[t] EXCEPT !.at = i, !.since = zero] /\ \A u \in Tasks : u # t => local'[u] = local[u]
  BY <1>1, <1>2
<1>4. local'[t].at = i /\ local'[t].st = local[t].st /\ local'[t].cancelled = local[t].cancelled
  BY <1>2, <1>3 DEF Locals
<1>5. local[t].st # "done"
  <2>1. Placed(t)
    BY <1>1 DEF Placed
  <2>2. QED
    BY <1>2, <2>1 DEF SeatsOK, Seated
<1>6. QED
  BY <1>3, <1>4, <1>5 DEF i

\* RetriesOK is kept by every step.
LEMMA RetriesKept ==
  ASSUME SchedInv, TypeOK', Next
  PROVE  RetriesOK'
<1>1. RetriesOK /\ job' = job /\ Of("retry")' = Of("retry")
  BY Onward DEF SchedInv, OneAtWork, Of, Kind
<1> SUFFICES ASSUME NEW t \in Of("retry")
             PROVE  ~local'[t].cancelled /\ (local'[t].at = 3 /\ local'[t].st # "done" => Runs(sch', t))
  BY <1>1 DEF RetriesOK
<1>2. t \in Tasks /\ ~local[t].cancelled /\ (local[t].at = 3 /\ local[t].st # "done" => Runs(sch, t))
  BY <1>1 DEF RetriesOK, Of
<1>3. CASE TimerStep(t)
  BY <1>3, RetrySteps
<1>4. CASE BeginStep(t)
  <2>1. Runs(sch, t) /\ sch' = sch
    BY <1>2, <1>4, BeginDone
  <2>2. QED
    BY <1>2, <1>4, <2>1, BeginLocal
<1>5. CASE ~TimerStep(t) /\ ~BeginStep(t)
  <2>1. CASE Stands(t)
    BY <1>2, <1>5, <2>1, RunsOn DEF Stands
  <2>2. QED
    BY <1>5, <2>1, RetryStands
<1>6. QED
  BY <1>3, <1>4, <1>5

\* Who works at the connection, after steps that open and close nothing.
LEMMA RetryingStays ==
  ASSUME SchedInv, TypeOK', Next, \A t \in Tasks : ~BeginStep(t), ~LostStep, \A w \in Workers : ~WorkStep(w)
  PROVE  Retrying' = Retrying
<1>1. Of("retry")' = Of("retry") /\ Of("retry") \subseteq Tasks
  BY Onward DEF Of, Kind
<1>2. ASSUME NEW t \in Of("retry")
      PROVE  local'[t].st # "done" /\ local'[t].at # 3 <=> local[t].st # "done" /\ local[t].at # 3
  <2>1. CASE TimerStep(t)
    BY <2>1, RetrySteps
  <2>2. CASE ~TimerStep(t)
    <3>1. Stands(t)
      BY <1>1, <2>2, RetryStands
    <3>2. QED
      BY <3>1 DEF Stands
  <2>3. QED
    BY <2>1, <2>2
<1>3. QED
  BY <1>1, <1>2 DEF Retrying

(* ----------------------------- one at work ----------------------------- *)
\* OneWorks, after steps that open and close nothing.
LEMMA OneWorksAlike ==
  ASSUME OneWorks, job' = job, Launched(job', thread') <=> Launched(job, thread), Retrying' = Retrying,
         Live' = Live,
         \A w \in Workers : worker[w].st = "none" => worker'[w].st = "none"
  PROVE  OneWorks'
BY DEF OneWorks, Of, Kind

\* A worker is gone and a timer is set up.
LEMMA OneWorksLater ==
  ASSUME SchedInv, job' = job, Launched(job', thread') <=> Launched(job, thread), NEW w \in Live,
         sch.task \notin Of("retry"),
         worker'[w].st = "none" \/ worker'[w].closed, \A v \in Workers : v # w => Alike(worker, worker', v),
         NEW l \in [Tasks -> Locals(Files)], \A t \in Of("retry") : l[t] = local[t], NEW u, NEW d, SetsUp(l, u, d)
  PROVE  OneWorks'
<1>1. TypeOK /\ OneWorks /\ RetriesOK
  BY DEF SchedInv, OneAtWork
<1>2. Launched(job, thread) /\ Live = {w} /\ \A t \in Of("retry") : local[t].st = "done"
  BY <1>1, FreeRetry
<1>3. Live' = {}
  <2>1. Live' = {v \in Workers : worker'[v].st # "none" /\ ~worker'[v].closed}
    BY DEF Live
  <2>2. \A v \in Workers : v # w => ~(worker'[v].st # "none" /\ ~worker'[v].closed)
    BY <1>2 DEF Live, Alike
  <2>3. QED
    BY <2>1, <2>2
<1>4. /\ local'[u].st = "asleep" /\ local'[u].at = 1 /\ \A v \in Tasks : v # u => local'[v] = l[v]
  BY <1>1, SetUpLocal
<1>5. u \in Of("retry") /\ Of("retry")' = Of("retry") /\ Of("retry") \subseteq Tasks
  BY DEF SetsUp, Of, Kind
<1>6. Retrying' = {u}
  BY <1>2, <1>4, <1>5 DEF Retrying
<1>7. QED
  BY <1>2, <1>3, <1>5, <1>6 DEF OneWorks

\* OneWorks is kept by every step: what ends sets up its successor.
LEMMA OneWorksKept ==
  ASSUME SchedInv, TypeOK', Next
  PROVE  OneWorks'
<1>1. /\ TypeOK /\ OneWorks /\ RetriesOK /\ CommandsOK(worker, commands, members) /\ commands \in Seq(Commands)
      /\ worker \in [Workers -> WorkerStates] /\ local \in [Tasks -> Locals(Files)]
  BY DEF SchedInv, OneAtWork, TypeOK
<1>2. /\ job' = job /\ Of("retry")' = Of("retry") /\ Of("retry") \subseteq Tasks /\ Caller \notin Of("retry") /\ Loop \notin Of("retry")
      /\ Retrying' = {t \in Of("retry") : local'[t].st # "done" /\ local'[t].at # 3}
      /\ Live' = {v \in Workers : worker'[v].st # "none" /\ ~worker'[v].closed}
  <2>1. job' = job
    BY Onward
  <2>2. Disciplined(job) /\ LaunchesOnce(job)
    BY <1>1, JobOK
  <2>3. Caller \notin Of("retry") /\ Loop \notin Of("retry")
    BY <2>2 DEF Disciplined, LaunchesOnce, Of, Kind
  <2>4. QED
    BY <2>1, <2>3 DEF Of, Kind, Retrying, Live
<1>3. CASE \E f \in Threads : Launches(f)
  <2>1. ~Launched(job, thread) /\ Launched(job', thread') /\ local' = local
    BY <1>3, LaunchDone
  <2>2. PICK w \in Workers : worker'[w].st = "open" /\ worker'[w].closed = FALSE /\ \A v \in Workers : v # w => Alike(worker, worker', v)
    BY <1>3, LaunchDone
  <2>3. Retrying = {} /\ \A v \in Workers : worker[v].st = "none"
    BY <1>1, <2>1 DEF OneWorks
  <2>4. Retrying' = {}
    BY <1>2, <2>1, <2>3 DEF Retrying
  <2>5. Live' = {w}
    BY <1>2, <2>2, <2>3 DEF Alike
  <2>6. QED
    BY <2>1, <2>4, <2>5 DEF OneWorks
<1>4. CASE \A f \in Threads : ~Launches(f)
  <2>1. Launched(job', thread') <=> Launched(job, thread)
    BY <1>4, LaunchedStays
  <2>2. CASE \E t \in Tasks : BeginStep(t)
    <3>1. PICK t \in Tasks : BeginStep(t)
      BY <2>2
    <3>2. t \in Of("retry") /\ local[t].at = 2 /\ local[t].st # "done"
      BY <3>1, BeginDone, BeginLocal
    <3>3. local'[t].at = 3 /\ \A u \in Tasks : u # t => local'[u] = local[u]
      BY <3>1, BeginLocal
    <3>4. PICK w \in Workers : /\ worker'[w].closed = FALSE /\ worker'[w].st \in {"open", "failed"}
                               /\ \A v \in Workers : v # w => Alike(worker, worker', v)
      <4>1. PICK w \in Workers : /\ worker[w].st = "none" /\ worker'[w].closed = FALSE
                                 /\ \A v \in Workers : v # w => Alike(worker, worker', v)
                                 /\ \/ worker'[w].st = "open" /\ commands' = Append(commands, Add(w))
                                    \/ worker'[w].st = "failed" /\ commands' = commands
        BY <3>1, BeginDone
      <4>2. QED
        BY <4>1
    <3>5. t \in Retrying
      BY <3>2 DEF Retrying
    <3>6. Launched(job, thread) /\ Live = {} /\ Retrying = {t}
      BY <1>1, <3>5 DEF OneWorks
    <3>7. Retrying' = {}
      BY <1>2, <3>3, <3>6 DEF Retrying
    <3>8. Live' = {w}
      <4>1. \A v \in Workers : v # w => ~(worker'[v].st # "none" /\ ~worker'[v].closed)
        BY <3>4, <3>6 DEF Live, Alike
      <4>2. QED
        BY <1>2, <3>4, <4>1
    <3>9. QED
      BY <2>1, <3>6, <3>7, <3>8 DEF OneWorks
  <2>3. CASE LostStep
    <3>1. Runs(sch, Caller)
      BY <2>3, LostDone
    <3>2. PICK w \in Workers : /\ w \in Live /\ worker' = [worker EXCEPT ![w] = NoWorker] /\ \E t : SetsUp(local, t, worker[w].delay)
      BY <2>3, LostDone
    <3>3. PICK t : SetsUp(local, t, worker[w].delay)
      BY <3>2
    <3>4. worker'[w].st = "none" /\ \A v \in Workers : v # w => Alike(worker, worker', v)
      BY <1>1, <3>2 DEF NoWorker, Alike
    <3>5. sch.task \notin Of("retry")
      BY <1>2, <3>1 DEF Runs
    <3>6. QED
      BY <1>1, <1>2, <2>1, <3>2, <3>3, <3>4, <3>5, OneWorksLater
  <2>4. CASE \E w \in Workers : WorkStep(w)
    <3>1. PICK w \in Workers : WorkStep(w)
      BY <2>4
    <3>2. Runs(sch, Loop) /\ worker[w].st = "open"
      BY <3>1, WorkDone
    <3>3. PICK f, wk : /\ AlikeBut(wk)
                       /\ \/ worker' = wk /\ local' = Listed(f)
                          \/ /\ w \in Live /\ worker' = [wk EXCEPT ![w].closed = TRUE] /\ \E t : SetsUp(Listed(f), t, wk[w].delay)
      BY <3>1, WorkDone
    <3>4. /\ wk \in [Workers -> WorkerStates] /\ \A v \in Workers : Alike(worker, wk, v)
          /\ Listed(f) \in [Tasks -> Locals(Files)] /\ \A t \in Of("retry") : Listed(f)[t] = local[t]
      BY <1>1, <1>2, <3>3, ListedLocal DEF AlikeBut, Alike
    <3>5. CASE worker' = wk /\ local' = Listed(f)
      <4>1. Retrying' = Retrying
        BY <1>2, <3>4, <3>5 DEF Retrying
      <4>2. Live' = Live /\ \A v \in Workers : worker[v].st = "none" => worker'[v].st = "none"
        BY <1>2, <3>4, <3>5 DEF Live, Alike
      <4>3. QED
        BY <1>1, <1>2, <2>1, <4>1, <4>2, OneWorksAlike
    <3>6. CASE w \in Live /\ worker' = [wk EXCEPT ![w].closed = TRUE] /\ \E t : SetsUp(Listed(f), t, wk[w].delay)
      <4>1. PICK t : SetsUp(Listed(f), t, wk[w].delay)
        BY <3>6
      <4>2. worker'[w].closed /\ \A v \in Workers : v # w => Alike(worker, worker', v)
        <5>1. worker'[w] = [wk[w] EXCEPT !.closed = TRUE] /\ wk[w] \in WorkerStates
              /\ \A v \in Workers : v # w => worker'[v] = wk[v]
          BY <3>4, <3>6
        <5>2. worker'[w].closed
          BY <5>1 DEF WorkerStates
        <5>3. QED
          BY <3>4, <5>1, <5>2 DEF Alike
      <4>3. sch.task \notin Of("retry")
        BY <1>2, <3>2 DEF Runs
      <4> DEFINE l == Listed(f)
      <4>4. l \in [Tasks -> Locals(Files)] /\ (\A u \in Of("retry") : l[u] = local[u]) /\ SetsUp(l, t, wk[w].delay)
        BY <3>4, <4>1
      <4> HIDE DEF l
      <4>5. QED
        BY <1>2, <2>1, <3>6, <4>2, <4>3, <4>4, OneWorksLater
    <3>7. QED
      BY <3>3, <3>5, <3>6
  <2>5. CASE (\A t \in Tasks : ~BeginStep(t)) /\ ~LostStep /\ \A w \in Workers : ~WorkStep(w)
    <3>1. Retrying' = Retrying
      BY <2>5, RetryingStays
    <3>2. CASE LoopStep /\ ~UNCHANGED <<worker, members, commands>>
      <4> DEFINE c == Head(commands)
      <4>1. /\ commands # <<>>
            /\ IF c.op = "add" THEN worker' = worker
               ELSE /\ worker'[c.w].st = "none" /\ \A v \in Workers : v # c.w => Alike(worker, worker', v)
        BY <3>2, LoopDone
      <4>2. c \in Commands /\ Contains(commands, c)
        BY <1>1, <4>1, Tailed
      <4>3. CASE c.op = "add"
        <5>1. Live' = Live
          BY <4>1, <4>3 DEF Live
        <5>2. QED
          BY <1>1, <1>2, <2>1, <3>1, <4>1, <4>3, <5>1, OneWorksAlike
      <4>4. CASE c.op # "add"
        <5>1. c = Close(c.w) /\ c.w \in Workers
          BY <4>2, <4>4 DEF Commands, Close
        <5>2. worker[c.w].closed
          BY <1>1, <4>2, <5>1 DEF CommandsOK
        <5>3. Live' = Live /\ \A v \in Workers : worker[v].st = "none" => worker'[v].st = "none"
          BY <1>2, <4>1, <4>4, <5>2 DEF Live, Alike
        <5>4. QED
          BY <1>1, <1>2, <2>1, <3>1, <5>3, OneWorksAlike
      <4>5. QED
        BY <4>3, <4>4
    <3>3. CASE ~(LoopStep /\ ~UNCHANGED <<worker, members, commands>>)
      <4>1. \A v \in Workers : Alike(worker, worker', v)
        <5>1. CASE LoopStep
          BY <3>3, <5>1 DEF Alike
        <5>2. CASE ~LoopStep
          BY <1>1, <1>4, <2>5, <5>2, WorkersStay
        <5>3. QED
          BY <5>1, <5>2
      <4>2. Live' = Live /\ \A v \in Workers : worker[v].st = "none" => worker'[v].st = "none"
        BY <1>2, <4>1 DEF Live, Alike
      <4>3. QED
        BY <1>1, <1>2, <2>1, <3>1, <4>2, OneWorksAlike
    <3>4. QED
      BY <3>2, <3>3
  <2>6. QED
    BY <2>2, <2>3, <2>4, <2>5
<1>5. QED
  BY <1>3, <1>4

\* The loop is neither a program nor a timer.
LEMMA LoopIsNone ==
  ASSUME TypeOK
  PROVE  /\ Loop \in Tasks /\ Loop # Caller /\ job.kind[Loop] \in {"loop", "absent"} /\ Loop \notin Of("retry")
         /\ ~TimerStep(Loop) /\ ~BeginStep(Loop) /\ ~ProgramStep(Loop)
<1>1. Loop \in Tasks /\ job.kind[Loop] \in {"loop", "absent"}
  BY JobOK, WorkersAssumption DEF LaunchesOnce
<1>2. Loop \notin Of("retry") /\ ~TimerStep(Loop) /\ ~BeginStep(Loop)
  BY <1>1 DEF TimerStep, TimerSleeps, TimerEnds, TimerFires, BeginStep, Begins, Timers, Of, Kind
<1>3. ~ProgramStep(Loop)
  BY <1>1, ProgramLocal
<1>4. Loop # Caller
  BY DEF Loop, Caller
<1>5. QED
  BY <1>1, <1>2, <1>3, <1>4

\* The files that the loop goes through are those that its select has returned.
LEMMA LoopHas ==
  ASSUME SchedInv, Next
  PROVE  \/ local'[Loop].rv \subseteq local[Loop].rv
         \/ Loop \in DOMAIN entries /\ local'[Loop].rv \subseteq entries[Loop].files
<1>1. TypeOK /\ local \in [Tasks -> Locals(Files)] /\ Loop \in Tasks /\ Loop \notin Of("retry")
  BY LoopIsNone DEF SchedInv, TypeOK
<1>2. CASE Hub
  BY <1>1, <1>2, HubLocal
<1>3. CASE LoopStep
  BY <1>1, <1>3, LoopLocal
<1>4. CASE LostStep
  <2>1. PICK u : \E d : SetsUp(local, u, d)
    BY <1>4, LostDone
  <2>2. job.kind[u] = "retry" /\ \A v \in Tasks : v # u => local'[v] = local[v]
    BY <1>1, <2>1, SetUpLocal
  <2>3. QED
    BY <1>1, <2>2 DEF Of, Kind
<1>5. ASSUME NEW w \in Workers, WorkStep(w)
      PROVE  local'[Loop].rv \subseteq local[Loop].rv
  <2>1. PICK f : local' = Listed(f) \/ \E u, d : SetsUp(Listed(f), u, d)
    BY <1>5, WorkDone
  <2>2. Listed(f) \in [Tasks -> Locals(Files)] /\ Listed(f)[Loop].rv = local[Loop].rv \ {f}
    BY <1>1, ListedLocal
  <2>3. CASE local' = Listed(f)
    BY <2>2, <2>3
  <2>4. CASE \E u, d : SetsUp(Listed(f), u, d)
    <3>1. PICK u, d : SetsUp(Listed(f), u, d)
      BY <2>4
    <3>2. job.kind[u] = "retry" /\ \A v \in Tasks : v # u => local'[v] = Listed(f)[v]
      BY <2>2, <3>1, SetUpLocal
    <3>3. QED
      BY <1>1, <2>2, <3>2 DEF Of, Kind
  <2>5. QED
    BY <2>1, <2>3, <2>4
<1>6. CASE ~Hub /\ ~LoopStep /\ ~LostStep /\ \A w \in Workers : ~WorkStep(w)
  <2>1. SameLocal(Loop)
    BY <1>1, <1>6, LoopIsNone, Untouched
  <2>2. QED
    BY <2>1 DEF SameLocal
<1>7. QED
  BY <1>2, <1>3, <1>4, <1>5, <1>6

\* A task asks for nothing on behalf of the loop.
LEMMA OthersAsk ==
  ASSUME SchedInv, NEW p \in Tasks, p # Loop, ProgramStep(p) \/ TimerStep(p) \/ (p = Caller /\ CallerStep)
  PROVE  \A i \in DOMAIN incoming' : incoming'[i].task = Loop => i \in DOMAIN incoming /\ incoming'[i] = incoming[i]
<1>1. TypeOK /\ SeatsOK /\ local \in [Tasks -> Locals(Files)] /\ local[p] \in Locals(Files)
  BY DEF SchedInv, Ordered, TypeOK
<1>2. Runs(sch, p)
  BY DEF ProgramStep, Program, ProgramDoes, ProgramEnds, YieldsZero, Sleeps, Selects, Reads, Parks,
     Acquires, Acquired,
         Releases, Blocks, WaitsOnEvents, TakesEvents, Doing, Running, Runs,
         TimerStep, TimerSleeps, TimerEnds, TimerFires, CallerStep, CallerSelects, CallerPongs, CallerPops
<1>3. ~Queued(incoming, p)
  BY <1>1, <1>2, RunsAlone
<1>4. ASSUME NEW left \in 0 .. Forever, Sleep(p, left)
      PROVE  \A i \in DOMAIN incoming' : incoming'[i].task = Loop => i \in DOMAIN incoming /\ incoming'[i] = incoming[i]
  <2>1. \/ incoming' = incoming
        \/ \A i \in DOMAIN incoming' : incoming'[i] = [task |-> p, files |-> None, left |-> left]
                                       \/ (i \in DOMAIN incoming /\ incoming'[i] = incoming[i])
    BY <1>1, <1>2, <1>4, Slept
  <2>2. QED
    BY <2>1
<1>5. ASSUME NEW left \in 0 .. Forever, NEW files \in SUBSET Files, registerSelect(p, files, left)
      PROVE  \A i \in DOMAIN incoming' : incoming'[i].task = Loop => i \in DOMAIN incoming /\ incoming'[i] = incoming[i]
  <2>1. \A i \in DOMAIN incoming' : incoming'[i] = [task |-> p, files |-> files, left |-> left]
                                    \/ (i \in DOMAIN incoming /\ incoming'[i] = incoming[i])
    BY <1>1, <1>3, <1>5, Registered
  <2>2. QED
    BY <2>1
<1>6. CASE ProgramStep(p)
  <2>1. \/ incoming' = incoming
        \/ Sleeps(p) /\ Sleep(p, Op(p).n)
        \/ Selects(p) /\ registerSelect(p, {Op(p).fd}, Op(p).n)
    BY <1>6 DEF ProgramStep, Program, ProgramDoes, ProgramEnds, Ends, YieldsZero, Sleeps, Selects,
       Reads, Parks, Acquires, Acquired,
                Releases, Blocks, WaitsOnEvents, TakesEvents, Again, Unscheduled
  <2>2. CASE Sleeps(p) /\ Sleep(p, Op(p).n)
    <3>1. Op(p).n \in 0 .. Forever
      BY <1>1, <2>2, OpsOK DEF Sleeps
    <3>2. QED
      BY <1>4, <2>2, <3>1
  <2>3. CASE Selects(p) /\ registerSelect(p, {Op(p).fd}, Op(p).n)
    <3>1. Op(p).n \in 0 .. Forever /\ {Op(p).fd} \in SUBSET Files
      BY <1>1, <2>3, OpsOK DEF Selects
    <3>2. QED
      BY <1>5, <2>3, <3>1
  <2>4. QED
    BY <2>1, <2>2, <2>3
<1>7. CASE TimerStep(p)
  <2>1. incoming' = incoming \/ Sleep(p, local[p].next)
    BY <1>7 DEF TimerStep, TimerSleeps, TimerEnds, TimerFires, Ends, Unscheduled
  <2>2. local[p].next \in 0 .. Forever
    BY <1>1 DEF Locals
  <2>3. QED
    BY <1>4, <2>1, <2>2
<1>8. CASE p = Caller /\ CallerStep
  <2>1. incoming' = incoming \/ registerSelect(Caller, {CallPinger}, Forever)
    BY <1>8 DEF CallerStep, CallerSelects, CallerPongs, CallerPops
  <2>2. Forever \in 0 .. Forever /\ {CallPinger} \in SUBSET Files
    BY TasksAssumption DEF Forever, Files
  <2>3. QED
    BY <1>5, <1>8, <2>1, <2>2
<1>9. QED
  BY <1>6, <1>7, <1>8

\* The loop asks for the sockets of workers that are open.
LEMMA LoopAsks ==
  ASSUME SchedInv, LoopStep, NEW i \in DOMAIN incoming'
  PROVE  (i \in DOMAIN incoming /\ incoming'[i] = incoming[i]) \/ OfOpen(worker, incoming'[i].files)
<1>1. TypeOK /\ SeatsOK /\ CommandsOK(worker, commands, members) /\ members \subseteq Workers /\ Loop \in Tasks
  BY LoopIsNone DEF SchedInv, Ordered, OneAtWork, TypeOK
<1>2. ~Queued(incoming, Loop)
  BY <1>1, LoopDone, RunsAlone
<1> DEFINE files == Ping \union {Readable(w) : w \in members} \union {Writable(w) : w \in {m \in members : ready_to_send(m)}}
<1>3. incoming' = incoming \/ registerSelect(Loop, files, Forever)
  BY DEF LoopStep, LoopCommands, LoopSelects, LoopPongs
<1>4. Forever \in 0 .. Forever /\ files \in SUBSET Files
  BY <1>1, TasksAssumption DEF Forever, Files, Ping
<1>5. OfOpen(worker, files)
  <2>1. \A w \in members : worker[w].st = "open"
    BY <1>1 DEF CommandsOK
  <2>2. ASSUME NEW w \in Workers, Readable(w) \in files \/ Writable(w) \in files PROVE w \in members
    BY <2>2 DEF Readable, Writable, Ping, LoopPinger
  <2>3. QED
    BY <2>1, <2>2 DEF OfOpen
<1> HIDE DEF files
<1>6. CASE registerSelect(Loop, files, Forever)
  <2>1. incoming'[i] = [task |-> Loop, files |-> files, left |-> Forever] \/ (i \in DOMAIN incoming /\ incoming'[i] = incoming[i])
    BY <1>1, <1>2, <1>4, <1>6, Registered
  <2>2. QED
    BY <1>5, <2>1
<1>7. QED
  BY <1>3, <1>6

\* What the loop asks for was asked for before, or is of workers that are open.
LEMMA LoopAsked ==
  ASSUME SchedInv, Next, NEW i \in DOMAIN incoming', incoming'[i].task = Loop
  PROVE  (i \in DOMAIN incoming /\ incoming[i].task = Loop /\ incoming'[i].files = incoming[i].files)
         \/ OfOpen(worker, incoming'[i].files)
<1>1. TypeOK /\ SeatsOK /\ HubOK(hub, entries)
  BY DEF SchedInv, Ordered
<1>2. CASE incoming' = incoming
  BY <1>2
<1>3. CASE \E p \in Tasks : ProgramStep(p) \/ TimerStep(p)
  BY <1>1, <1>3, OthersAsk, LoopIsNone
<1>4. CASE CallerStep
  BY <1>1, <1>4, OthersAsk, LoopIsNone, TasksAssumption
<1>5. CASE LoopStep
  BY <1>5, LoopAsks
<1>6. CASE Hub
  <2>1. incoming' = incoming \/ incoming' = <<>>
    BY <1>6 DEF Hub, HubStep, Scan, Select, pongAll, Drain, Return, break_idle
  <2>2. QED
    BY <1>2, <2>1
<1>7. CASE Tick
  BY <1>1, <1>7, Ticked
<1>8. CASE Switches \/ Rings \/ CheckStep \/ LostStep \/ SetStep \/ (\E t \in Tasks : BeginStep(t) \/ BlockingStep(t))
           \/ (\E f \in Threads : ThreadStep(f) \/ Launches(f)) \/ Answering \/ Network
  <2>1. incoming' = incoming
    BY <1>8 DEF Switches, Rings, CheckStep, ChecksEvents, LostStep, CallerLost, SetStep, BlockingSets,
       BeginStep, Begins, BlockingStep,
          BlockingEnds, ThreadStep, ThreadDoes, ThreadNotifies, Launches, Answering, Answers, HangsUp, Network, Turns, Says, Quiet
  <2>2. QED
    BY <1>2, <2>1
<1>9. CASE \E w \in Workers : WorkStep(w)
  BY <1>2, <1>9, WorkDone
<1>10. QED
  BY <1>3, <1>4, <1>5, <1>6, <1>7, <1>8, <1>9, NextCases

\* What the loop waits for it has asked for.
LEMMA LoopWaits ==
  ASSUME SchedInv, Next, Loop \in DOMAIN entries'
  PROVE  \/ Loop \in DOMAIN entries /\ entries'[Loop].files = entries[Loop].files
         \/ \E i \in DOMAIN incoming : incoming[i].task = Loop /\ entries'[Loop].files = incoming[i].files
<1>1. TypeOK /\ SeatsOK /\ HubOK(hub, entries)
  BY DEF SchedInv, Ordered
<1>2. CASE entries' = entries
  BY <1>2
<1>3. CASE Drain
  <2>1. /\ Loop \in DOMAIN entries \/ Queued(incoming, Loop)
        /\ Loop \in DOMAIN entries => entries'[Loop] = entries[Loop]
        /\ Queued(incoming, Loop) =>
             \E i \in DOMAIN incoming : /\ incoming[i].task = Loop
                                        /\ entries'[Loop] = [files |-> incoming[i].files, left |-> incoming[i].left]
    BY <1>1, <1>3, HubLives
  <2>2. QED
    BY <2>1
<1>4. CASE Return
  <2>1. PICK t : entries' = Without(entries, {t})
    BY <1>1, <1>4, HubLives
  <2>2. QED
    BY <2>1 DEF Without
<1>5. CASE Hub
  <2>1. entries' = entries \/ Drain \/ Return
    BY <1>5 DEF Hub, HubStep, Scan, Select, pongAll, break_idle
  <2>2. QED
    BY <1>2, <1>3, <1>4, <2>1
<1>6. CASE Tick
  BY <1>1, <1>6, Ticked
<1>7. CASE ~Hub /\ ~Tick
  <2>1. entries' = entries
    <3>1. CASE Switches \/ Rings \/ CheckStep \/ CallerStep \/ LostStep \/ LoopStep \/ (\E t \in Tasks : ProgramStep(t) \/ TimerStep(t) \/ BeginStep(t))
               \/ (\E w \in Workers : WorkStep(w))
      BY <3>1 DEF Switches, Rings, CheckStep, CallerStep, LostStep, LoopStep, ProgramStep, TimerStep,
         BeginStep, WorkStep, OthersWait, hubVars
    <3>2. CASE SetStep \/ (\E t \in Tasks : BlockingStep(t)) \/ (\E f \in Threads : ThreadStep(f) \/ Launches(f)) \/ Answering \/ Network
      BY <3>2 DEF SetStep, BlockingSets, BlockingStep, BlockingEnds, ThreadStep, ThreadDoes,
         ThreadNotifies, Launches, Answering, Answers, HangsUp,
            Network, Turns, Says, Quiet, hubVars
    <3>3. QED
      BY <1>7, <3>1, <3>2, NextCases
  <2>2. QED
    BY <1>2, <2>1
<1>8. QED
  BY <1>5, <1>6, <1>7

\* Only a command of the loop frees a worker that is open.
LEMMA OpenStays ==
  ASSUME SchedInv, Next, ~LoopStep \/ UNCHANGED <<worker, members, commands>>, NEW v \in Workers,
         worker[v].st = "open"
  PROVE  worker'[v].st = "open"
<1>1. TypeOK /\ worker \in [Workers -> WorkerStates]
  BY DEF SchedInv, TypeOK
<1>2. CASE \E f \in Threads : Launches(f)
  <2>1. PICK w \in Workers : worker[w].st = "none" /\ \A u \in Workers : u # w => Alike(worker, worker', u)
    BY <1>2, LaunchDone
  <2>2. QED
    BY <2>1 DEF Alike
<1>3. CASE \E t \in Tasks : BeginStep(t)
  <2>1. PICK w \in Workers : worker[w].st = "none" /\ \A u \in Workers : u # w => Alike(worker, worker', u)
    BY <1>3, BeginDone
  <2>2. QED
    BY <2>1 DEF Alike
<1>4. CASE LostStep
  <2>1. PICK w \in Workers : worker[w].st = "failed" /\ worker' = [worker EXCEPT ![w] = NoWorker]
    BY <1>4, LostDone
  <2>2. QED
    BY <1>1, <2>1
<1>5. CASE \E w \in Workers : WorkStep(w)
  <2>1. PICK w, wk : AlikeBut(wk) /\ w \in Workers /\ (worker' = wk \/ worker' = [wk EXCEPT ![w].closed = TRUE])
    BY <1>5, WorkDone
  <2>2. wk \in [Workers -> WorkerStates] /\ wk[v].st = "open"
    BY <2>1 DEF AlikeBut
  <2>3. worker'[v] = wk[v] \/ worker'[v] = [wk[v] EXCEPT !.closed = TRUE]
    BY <2>1, <2>2
  <2>4. QED
    BY <2>2, <2>3 DEF WorkerStates
<1>6. CASE LoopStep
  BY <1>6
<1>7. QED
  BY <1>1, <1>2, <1>3, <1>4, <1>5, <1>6, WorkersStay DEF Alike

\* WatchesOpen is kept by every step: the loop runs the commands before it selects again.
LEMMA WatchesKept ==
  ASSUME SchedInv, Next
  PROVE  WatchesOpen'
<1>1. TypeOK /\ SeatsOK /\ WatchesOpen /\ Loop \in Tasks
  BY LoopIsNone DEF SchedInv, Ordered, OneAtWork
<1>2. CASE LoopStep /\ ~UNCHANGED <<worker, members, commands>>
  <2>1. local'[Loop].rv = None /\ incoming' = incoming /\ entries' = entries /\ Runs(sch, Loop)
    BY <1>2, LoopDone
  <2>2. ~Queued(incoming, Loop) /\ Loop \notin DOMAIN entries
    BY <1>1, <2>1, RunsAlone
  <2>3. OfOpen(worker', local'[Loop].rv)
    BY <2>1 DEF OfOpen, None
  <2>4. QED
    BY <2>1, <2>2, <2>3 DEF WatchesOpen, Queued
<1>3. CASE ~LoopStep \/ UNCHANGED <<worker, members, commands>>
  <2>1. ASSUME NEW files, OfOpen(worker, files), NEW fewer \in SUBSET files PROVE OfOpen(worker', fewer)
    BY <1>3, <2>1, OpenStays DEF OfOpen
  <2>2. OfOpen(worker', local'[Loop].rv)
    BY <1>1, <2>1, LoopHas DEF WatchesOpen
  <2>3. ASSUME NEW i \in DOMAIN incoming', incoming'[i].task = Loop PROVE OfOpen(worker', incoming'[i].files)
    <3>1. OfOpen(worker, incoming'[i].files)
      BY <1>1, <2>3, LoopAsked DEF WatchesOpen
    <3>2. QED
      BY <2>1, <3>1
  <2>4. ASSUME Loop \in DOMAIN entries' PROVE OfOpen(worker', entries'[Loop].files)
    <3>1. OfOpen(worker, entries'[Loop].files)
      BY <1>1, <2>4, LoopWaits DEF WatchesOpen
    <3>2. QED
      BY <2>1, <3>1
  <2>5. QED
    BY <2>2, <2>3, <2>4 DEF WatchesOpen
<1>4. QED
  BY <1>2, <1>3

(* ----------------------- the start and the steps ----------------------- *)
Start == \E j \in DOMAIN Jobs, b \in BOOLEAN : InitWith(j, b)

\* A start is well-typed.
LEMMA StartTypes ==
  ASSUME Start
  PROVE  TypeOK
<1>1. PICK j \in DOMAIN Jobs, b \in BOOLEAN : InitWith(j, b)
  BY DEF Start
<1>2. Fresh \in Locals(Files) /\ NoWorker \in WorkerStates /\ Forever \in 0 .. Forever
  BY TasksAssumption DEF Fresh, Locals, None, NoWorker, WorkerStates, Half, Forever
<1>3. [Fresh EXCEPT !.st = "done"] \in Locals(Files)
  BY <1>2 DEF Locals
<1>4. about \in DOMAIN Jobs /\ local \in [Tasks -> Locals(Files)] /\ worker \in [Workers -> WorkerStates]
  <2>1. local = [t \in Tasks |-> IF Jobs[j].kind[t] = "retry" THEN [Fresh EXCEPT !.st = "done"] ELSE Fresh]
        /\ worker = [w \in Workers |-> NoWorker] /\ about = j
    BY <1>1 DEF InitWith
  <2>2. QED
    BY <1>2, <1>3, <2>1
<1>5. ready = <<>> /\ incoming = <<>> /\ commands = <<>>
  BY <1>1 DEF InitWith
<1>6. ready \in Seq(Items) /\ incoming \in Seq(Requests(Files)) /\ commands \in Seq(Commands)
  BY <1>5
<1>7. entries = [t \in {} |-> 0]
  BY <1>1 DEF InitWith
<1>8. DOMAIN entries \subseteq Tasks /\ entries \in [DOMAIN entries -> Waits(Files)]
  BY <1>7
<1>9. SchOK(sch) /\ hub \in Passes(Files)
  <2>1. sch = [pc |-> "check", task |-> Nobody, quit |-> FALSE]
        /\ hub = [pc |-> "scan", back |-> {}, got |-> None, due |-> Nobody, then |-> "scan", left |-> Forever]
    BY <1>1 DEF InitWith
  <2>2. QED
    BY <1>2, <2>1 DEF SchOK, Slices, Passes, None
<1>10. /\ lock = [holder |-> Nobody, waiting |-> {}, inside |-> {}]
       /\ waiter = [events |-> 0, task |-> Nobody, wakeable |-> FALSE]
       /\ calls = [started |-> FALSE, queue |-> <<>>]
       /\ blocked = {} /\ thread = [f \in Threads |-> [at |-> 1, then |-> <<>>]] /\ members = {}
  BY <1>1 DEF InitWith
<1>11. /\ lock \in Locks /\ waiter \in Waiters
       /\ calls = [started |-> calls.started, queue |-> calls.queue] /\ calls.started \in BOOLEAN
       /\ blocked \subseteq Of("program") /\ thread \in [Threads -> Others] /\ members \subseteq Workers
  BY <1>10 DEF Locks, Waiters, Others, Notes
<1>12. QED
  BY <1>4, <1>6, <1>8, <1>9, <1>11 DEF TypeOK

\* What is said of a start, in the words of the invariant.
LEMMA StartFacts ==
  ASSUME Start
  PROVE  /\ TypeOK /\ Disciplined(job) /\ LaunchesOnce(job)
         /\ ready = <<>> /\ incoming = <<>> /\ commands = <<>> /\ DOMAIN entries = {} /\ blocked = {} /\ members = {}
         /\ sch.pc = "check" /\ hub.pc = "scan" /\ hub.back = {} /\ hub.then = "scan"
         /\ lock.holder = Nobody /\ lock.waiting = {} /\ lock.inside = {} /\ waiter.task = Nobody /\ ~waiter.wakeable
         /\ ~calls.started /\ \A f \in Threads : thread[f].at = 1 /\ thread[f].then = <<>>
         /\ \A w \in Workers : worker[w].st = "none" /\ ~worker[w].closed
         /\ \A t \in Tasks : /\ local[t].at = 1 /\ local[t].rv = None /\ ~local[t].ok /\ ~local[t].cancelled
                             /\ local[t].st = IF job.kind[t] = "retry" THEN "done" ELSE "asleep"
<1>1. PICK j \in DOMAIN Jobs, b \in BOOLEAN : InitWith(j, b)
  BY DEF Start
<1>2. TypeOK /\ Disciplined(job) /\ LaunchesOnce(job)
  BY StartTypes, JobOK
<1>3. /\ ready = <<>> /\ incoming = <<>> /\ commands = <<>> /\ entries = [t \in {} |-> 0] /\ blocked = {} /\ members = {}
      /\ sch.pc = "check" /\ hub.pc = "scan" /\ hub.back = {} /\ hub.then = "scan"
      /\ lock.holder = Nobody /\ lock.waiting = {} /\ lock.inside = {} /\ waiter.task = Nobody /\ ~waiter.wakeable
      /\ ~calls.started
  BY <1>1 DEF InitWith
<1>4. \A f \in Threads : thread[f].at = 1 /\ thread[f].then = <<>>
  BY <1>1 DEF InitWith
<1>5. \A w \in Workers : worker[w].st = "none" /\ ~worker[w].closed
  BY <1>1 DEF InitWith, NoWorker
<1>6. \A t \in Tasks : /\ local[t].at = 1 /\ local[t].rv = None /\ ~local[t].ok /\ ~local[t].cancelled
                       /\ local[t].st = IF job.kind[t] = "retry" THEN "done" ELSE "asleep"
  <2>1. local = [t \in Tasks |-> IF job.kind[t] = "retry" THEN [Fresh EXCEPT !.st = "done"] ELSE Fresh]
    BY <1>1 DEF InitWith, job
  <2> DEFINE done == [Fresh EXCEPT !.st = "done"]
  <2>2. /\ Fresh.at = 1 /\ Fresh.rv = None /\ ~Fresh.ok /\ ~Fresh.cancelled /\ Fresh.st = "asleep"
        /\ done.at = 1 /\ done.rv = None /\ ~done.ok /\ ~done.cancelled /\ done.st = "done"
    BY DEF Fresh
  <2> HIDE DEF done
  <2>3. \A t \in Tasks : local[t] = IF job.kind[t] = "retry" THEN done ELSE Fresh
    BY <2>1 DEF done
  <2>4. QED
    BY <2>2, <2>3
<1>7. QED
  BY <1>2, <1>3, <1>4, <1>5, <1>6

\* At a start no task is in any place.
LEMMA StartSeats ==
  ASSUME Start
  PROVE  SeatsOK
<1>1. /\ ready = <<>> /\ incoming = <<>> /\ DOMAIN entries = {} /\ blocked = {} /\ sch.pc = "check" /\ lock.waiting = {}
      /\ waiter.task = Nobody /\ Disciplined(job) /\ LaunchesOnce(job)
      /\ \A t \in Tasks : local[t].st = IF job.kind[t] = "retry" THEN "done" ELSE "asleep"
  BY StartFacts
<1>2. Once(ready) /\ OncePerTask(incoming) /\ \A y : ~Contains(ready, y)
  BY <1>1 DEF Once, OncePerTask, Contains
<1> SUFFICES ASSUME NEW t \in Tasks PROVE OneSeat(t) /\ Seated(t)
  BY <1>2 DEF SeatsOK
<1>3. ~HasItem(ready, t) /\ ~Told(ready, t) /\ ~Queued(incoming, t)
  BY <1>1, <1>2 DEF HasItem, Told, Queued
<1>4. ~Placed(t) /\ ~Runs(sch, t) /\ ~Wakens(sch, t) /\ t \notin DOMAIN entries /\ t \notin blocked /\ t \notin lock.waiting
  BY <1>1, <1>3 DEF Placed, Runs, Wakens
<1>5. ~Awaits(waiter, thread, t)
  BY <1>1, TasksAssumption DEF Awaits
<1>6. ToStart(job, local, thread, t) => job.kind[t] \in {"program", "timer", "loop", "absent"} /\ t # Caller
  <2>1. job.kind[Caller] \notin {"program", "timer"} /\ Caller # Loop
    BY <1>1 DEF Disciplined, Caller, Loop
  <2>2. QED
    BY <1>1, <2>1, StartsApart DEF ToStart
<1>7. Uncalled(calls, t) => job.kind[t] \in {"caller", "absent"} /\ t = Caller
  BY <1>1 DEF Uncalled, Disciplined
<1>8. OneSeat(t)
  BY <1>3, <1>4, <1>5, <1>6, <1>7 DEF OneSeat
<1>9. Seated(t)
  BY <1>1, <1>3, <1>4, <1>5, <1>6, <1>7 DEF Seated, Claimed
<1>10. QED
  BY <1>8, <1>9

\* At a start no program holds the lock.
LEMMA StartLock ==
  ASSUME Start
  PROVE  LockOK(job, local, lock)
<1>1. /\ Disciplined(job) /\ lock.holder = Nobody /\ lock.waiting = {} /\ lock.inside = {}
      /\ \A t \in Tasks : local[t].at = 1 /\ ~local[t].ok
  BY StartFacts
<1>2. ASSUME NEW t \in Tasks, job.kind[t] = "program"
             PROVE ~IsInside(job, local, t) /\ local[t].at \in 1 .. Len(job.code[t]) + 1
  <2>1. Brackets(job.code[t], t \in job.loop, Held(job, t)) /\ Len(job.code[t]) \in Nat
    BY <1>1, <1>2, HeldOf, StepsOf
  <2>2. ~Held(job, t)[1]
    BY <2>1 DEF Brackets
  <2>3. QED
    BY <1>1, <2>1, <2>2 DEF IsInside
<1>3. \A t \in Tasks : ~IsInside(job, local, t)
  BY <1>2 DEF IsInside
<1>4. QED
  BY <1>1, <1>2, <1>3 DEF LockOK

\* A start is as the invariant says.
LEMMA StartOK ==
  ASSUME Start
  PROVE  SchedInv
<1>1. TypeOK /\ SeatsOK /\ LockOK(job, local, lock)
  BY StartTypes, StartSeats, StartLock
<1>2. /\ TypeOK /\ Disciplined(job) /\ LaunchesOnce(job)
      /\ ready = <<>> /\ incoming = <<>> /\ commands = <<>> /\ DOMAIN entries = {} /\ blocked = {} /\ members = {}
      /\ sch.pc = "check" /\ hub.pc = "scan" /\ hub.back = {} /\ hub.then = "scan"
      /\ lock.waiting = {} /\ waiter.task = Nobody /\ ~waiter.wakeable
      /\ \A f \in Threads : thread[f].at = 1 /\ thread[f].then = <<>>
      /\ \A w \in Workers : worker[w].st = "none" /\ ~worker[w].closed
      /\ \A t \in Tasks : /\ local[t].at = 1 /\ local[t].rv = None /\ ~local[t].cancelled
                          /\ local[t].st = IF job.kind[t] = "retry" THEN "done" ELSE "asleep"
  BY StartFacts
<1>3. WaiterOK(job, waiter, thread)
  <2>1. \A f \in Threads : thread[f].then # <<"wake">>
    BY <1>2
  <2>2. QED
    BY <1>2, <2>1 DEF WaiterOK, Owes
<1>4. HubOK(hub, entries)
  BY <1>2 DEF HubOK
<1>5. TimersOK
  <2> SUFFICES ASSUME NEW t \in Of("timer") PROVE TimerOK(t)
    BY DEF TimersOK
  <2>1. t \in Tasks
    BY DEF Of
  <2>2. ~Placed(t) /\ ~Told(ready, t) /\ ~Wakens(sch, t)
    BY <1>2 DEF Placed, HasItem, Told, Contains, Queued, Runs, Wakens
  <2>3. QED
    BY <1>2, <2>1, <2>2 DEF TimerOK
<1>6. CommandsOK(worker, commands, members)
  BY <1>2 DEF CommandsOK, Once, Contains
<1>7. WatchesOpen
  BY <1>1, <1>2, LoopIsNone DEF WatchesOpen, OfOpen, None
<1>8. Retrying = {}
  BY <1>2 DEF Retrying, Of, Kind
<1>9. ~Launched(job, thread)
  <2>1. \A s \in Steps(job) : s[2] \in Nat \ {0}
    BY <1>2, StepsOf
  <2>2. QED
    BY <1>2, <2>1 DEF Launched
<1>10. OneWorks
  BY <1>2, <1>8, <1>9 DEF OneWorks
<1>11. RetriesOK
  BY <1>2 DEF RetriesOK, Of
<1>12. QED
  BY <1>1, <1>3, <1>4, <1>5, <1>6, <1>7, <1>10, <1>11 DEF SchedInv, Ordered, OneAtWork

\* Every step keeps the invariant,
LEMMA StepOK ==
  ASSUME SchedInv, Next
  PROVE  SchedInv'
<1>1. TypeOK'
  BY TypesKept
<1>2. Ordered'
  BY <1>1, SeatsKept, WaiterKept, HubKept, LockKept, TimersKept DEF Ordered
<1>3. OneAtWork'
  BY <1>1, CommandsKept, WatchesKept, OneWorksKept, RetriesKept DEF OneAtWork
<1>4. QED
  BY <1>1, <1>2, <1>3 DEF SchedInv

\* and so does one that changes nothing.
LEMMA StutterOK ==
  ASSUME SchedInv, UNCHANGED allVars
  PROVE  SchedInv'
<1>1. /\ UNCHANGED <<about, local, ready, event, sch, hub, entries, incoming, io, lock, waiter, calls, blocked, owed, thread>>
      /\ UNCHANGED <<worker, members, commands, up, losses>>
  BY DEF allVars, vars, ioVars, world, schedulerVars, hubVars, syncVars, threadVars
<1>2. job' = job /\ Files' = Files /\ (\A k : Of(k)' = Of(k)) 
  BY <1>1, SameJob DEF Of, Kind
<1>3. TypeOK'
  BY <1>1, <1>2 DEF SchedInv, TypeOK
<1>4. SeatsOK'
  BY <1>1, <1>2 DEF SchedInv, Ordered, SeatsOK, OneSeat, Seated, Placed, Claimed
<1>5. WaiterOK(job', waiter', thread') /\ HubOK(hub', entries') /\ LockOK(job', local', lock')
  BY <1>1, <1>2 DEF SchedInv, Ordered
<1>6. TimersOK'
  BY <1>1, <1>2 DEF SchedInv, Ordered, TimersOK, TimerOK, Placed
<1>7. CommandsOK(worker', commands', members') /\ WatchesOpen'
  BY <1>1 DEF SchedInv, OneAtWork, WatchesOpen
<1>8. OneWorks' /\ RetriesOK'
  BY <1>1, <1>2 DEF SchedInv, OneAtWork, OneWorks, RetriesOK, Live, Retrying
<1>9. QED
  BY <1>3, <1>4, <1>5, <1>6, <1>7, <1>8 DEF SchedInv, Ordered, OneAtWork

(* ------------------------ what follows from it ------------------------- *)
\* How often a sequence has what it has at most once.
LEMMA TimesOnce ==
  ASSUME NEW s, NEW c, Once(s)
  PROVE  Cardinality({i \in DOMAIN s : s[i] = c}) = IF Contains(s, c) THEN 1 ELSE 0
<1>1. CASE \E k \in DOMAIN s : s[k] = c
  <2>1. PICK k \in DOMAIN s : s[k] = c
    BY <1>1
  <2>2. {i \in DOMAIN s : s[i] = c} = {k}
    BY <2>1 DEF Once
  <2>3. Contains(s, c)
    BY <2>1 DEF Contains
  <2>4. QED
    BY <2>2, <2>3, FS_Singleton
<1>2. CASE ~ \E k \in DOMAIN s : s[k] = c
  <2>1. {i \in DOMAIN s : s[i] = c} = {} /\ ~Contains(s, c)
    BY <1>2 DEF Contains
  <2>2. QED
    BY <2>1, FS_EmptySet
<1>3. QED
  BY <1>1, <1>2

\* How often _incoming has a task.
LEMMA QueuedOnce ==
  ASSUME NEW q, NEW t, OncePerTask(q)
  PROVE  Cardinality({i \in DOMAIN q : q[i].task = t}) = IF Queued(q, t) THEN 1 ELSE 0
<1>1. CASE Queued(q, t)
  <2>1. PICK k \in DOMAIN q : q[k].task = t
    BY <1>1 DEF Queued
  <2>2. {i \in DOMAIN q : q[i].task = t} = {k}
    BY <2>1 DEF OncePerTask
  <2>3. QED
    BY <1>1, <2>2, FS_Singleton
<1>2. CASE ~Queued(q, t)
  <2>1. {i \in DOMAIN q : q[i].task = t} = {}
    BY <1>2 DEF Queued
  <2>2. QED
    BY <1>2, <2>1, FS_EmptySet
<1>3. QED
  BY <1>1, <1>2

\* Places counts what is at most once in each place.
LEMMA PlacesOf ==
  ASSUME SeatsOK, NEW t
  PROVE  Places(t) = (IF HasItem(ready, t) THEN 1 ELSE 0) + (IF Queued(incoming, t) THEN 1 ELSE 0)
                     + (IF t \in DOMAIN entries THEN 1 ELSE 0) + (IF Runs(sch, t) THEN 1 ELSE 0)
<1>1. Places(t) = Cardinality({i \in DOMAIN ready : ready[i] = Item(t)}) + Cardinality({i \in DOMAIN incoming : incoming[i].task = t})
                  + (IF t \in DOMAIN entries THEN 1 ELSE 0) + (IF Running(t) THEN 1 ELSE 0)
  BY DEF Places, Times
<1>2. Cardinality({i \in DOMAIN ready : ready[i] = Item(t)}) = IF HasItem(ready, t) THEN 1 ELSE 0
  BY TimesOnce DEF SeatsOK, HasItem
<1>3. Cardinality({i \in DOMAIN incoming : incoming[i].task = t}) = IF Queued(incoming, t) THEN 1 ELSE 0
  BY QueuedOnce DEF SeatsOK
<1>4. Running(t) <=> Runs(sch, t)
  BY DEF Running, Runs
<1>5. QED
  BY <1>1, <1>2, <1>3, <1>4

\* OnePlace follows from the invariant.
LEMMA InOnePlace ==
  ASSUME SchedInv
  PROVE  OnePlace
<1>1. TypeOK /\ SeatsOK /\ HubOK(hub, entries) /\ LockOK(job, local, lock)
  BY DEF SchedInv, Ordered
<1>2. ASSUME NEW t \in Tasks
      PROVE  LET places == Places(t) + (IF t \in blocked THEN 1 ELSE 0) + (IF t \in lock.waiting THEN 1 ELSE 0)
             IN CASE local[t].st = "live" -> places = 1
                  [] local[t].st = "asleep" -> places <= 1
                  [] local[t].st = "done" -> places = 0
  <2> DEFINE places == Places(t) + (IF t \in blocked THEN 1 ELSE 0) + (IF t \in lock.waiting THEN 1 ELSE 0)
  <2>1. Places(t) = (IF HasItem(ready, t) THEN 1 ELSE 0) + (IF Queued(incoming, t) THEN 1 ELSE 0)
                    + (IF t \in DOMAIN entries THEN 1 ELSE 0) + (IF Runs(sch, t) THEN 1 ELSE 0)
    BY <1>1, PlacesOf
  <2>2. /\ HasItem(ready, t) => ~(Queued(incoming, t) \/ t \in DOMAIN entries \/ Runs(sch, t) \/ t \in blocked \/ t \in lock.waiting)
        /\ Queued(incoming, t) => ~(t \in DOMAIN entries \/ Runs(sch, t) \/ t \in blocked \/ t \in lock.waiting)
        /\ t \in DOMAIN entries => ~(Runs(sch, t) \/ t \in blocked \/ t \in lock.waiting)
        /\ Runs(sch, t) => ~(t \in blocked \/ t \in lock.waiting)
        /\ t \in blocked => ~(t \in lock.waiting)
    BY <1>1 DEF SeatsOK, OneSeat
  <2>3. /\ local[t].st = "live" => Placed(t)
        /\ local[t].st = "done" => ~Placed(t)
    BY <1>1 DEF SeatsOK, Seated
  <2>4. local[t].st \in {"asleep", "live", "done"}
    BY <1>1 DEF TypeOK, Locals
  <2>5. places = IF Placed(t) THEN 1 ELSE 0
    BY <2>1, <2>2 DEF Placed
  <2> HIDE DEF places
  <2>6. (CASE local[t].st = "live" -> places = 1
           [] local[t].st = "asleep" -> places <= 1
           [] local[t].st = "done" -> places = 0)
    <3>1. CASE local[t].st = "live"
      BY <2>3, <2>5, <3>1
    <3>2. CASE local[t].st = "asleep"
      BY <2>5, <3>2
    <3>3. CASE local[t].st = "done"
      BY <2>3, <2>5, <3>3
    <3>4. QED
      BY <2>4, <3>1, <3>2, <3>3
  <2>7. QED
    BY <2>6 DEF places
<1>3. Cardinality(lock.inside) <= 1
  <2>1. lock.inside \subseteq {lock.holder}
    BY <1>1 DEF LockOK
  <2>2. lock.inside = {} \/ lock.inside = {lock.holder}
    BY <2>1
  <2>3. Cardinality({lock.holder}) = 1 /\ Cardinality({}) = 0
    BY FS_EmptySet, FS_Singleton
  <2>4. QED
    BY <2>2, <2>3
<1>4. lock.holder = Nobody => lock.waiting = {}
  BY <1>1 DEF LockOK
<1>5. hub.pc # "dead"
  BY <1>1 DEF HubOK
<1>6. QED
  BY <1>2, <1>3, <1>4, <1>5 DEF OnePlace

\* After the launch one thing works at the connection.
LEMMA OneAtConnection ==
  ASSUME SchedInv, NEW f \in Threads, NEW i \in DOMAIN job.code[f], job.code[f][i].op = "launch",
         i < thread[f].at
  PROVE  Cardinality(Live) + Cardinality(Retrying) = 1
<1>1. Launched(job, thread)
  <2>1. <<f, i>> \in Steps(job) /\ At(job, <<f, i>>) = job.code[f][i]
    BY JobOK, StepsOf DEF SchedInv
  <2> DEFINE s == <<f, i>>
  <2>2. s \in Steps(job) /\ s[1] \in Threads /\ At(job, s).op = "launch" /\ s[2] < thread[s[1]].at
    BY <2>1
  <2> HIDE DEF s
  <2>3. QED
    BY <2>2 DEF Launched
<1>2. \/ Live = {} /\ \E t \in Of("retry") : Retrying = {t}
      \/ Retrying = {} /\ \E w \in Workers : Live = {w}
  BY <1>1 DEF SchedInv, OneAtWork, OneWorks
<1>3. Cardinality({}) = 0 /\ \A x : Cardinality({x}) = 1
  BY FS_EmptySet, FS_Singleton
<1>4. CASE Live = {} /\ \E t \in Of("retry") : Retrying = {t}
  <2>1. Cardinality(Live) = 0 /\ Cardinality(Retrying) = 1
    BY <1>3, <1>4, Zenon
  <2>2. QED
    BY <2>1
<1>5. CASE Retrying = {} /\ \E w \in Workers : Live = {w}
  <2>1. Cardinality(Live) = 1 /\ Cardinality(Retrying) = 0
    BY <1>3, <1>5, Zenon
  <2>2. QED
    BY <2>1
<1>6. QED
  BY <1>2, <1>4, <1>5

\* NothingTwice follows from the invariant.
LEMMA NothingIsTwice ==
  ASSUME SchedInv
  PROVE  NothingTwice
<1>1. OnePlace
  BY InOnePlace
<1>2. (\E f \in Threads : \E i \in DOMAIN job.code[f] : job.code[f][i].op = "launch" /\ i < thread[f].at) =>
        Cardinality(Live) + Cardinality(Retrying) = 1
  BY OneAtConnection
<1>3. /\ \A w \in members : worker[w].st = "open"
      /\ Loop \in DOMAIN entries => \A w \in Workers : Readable(w) \in entries[Loop].files => worker[w].st = "open"
  BY DEF SchedInv, OneAtWork, CommandsOK, WatchesOpen, OfOpen
<1>4. QED
  BY <1>1, <1>2, <1>3 DEF NothingTwice

\* The time that a timer has waited begins again when it is started and when it calls.
LEMMA SinceStays ==
  ASSUME SchedInv, Next, NEW t \in Of("timer"), local[t].st = "live", ~TimerFires(t), ~Tick
  PROVE  local'[t].since = local[t].since
<1> USE DEF schedulerVars, syncVars
<1>1. /\ TypeOK /\ local \in [Tasks -> Locals(Files)] /\ t \in Tasks /\ local[t] \in Locals(Files)
      /\ t # Caller /\ t # Loop /\ job.kind[t] = "timer" /\ ~ToStart(job, local, thread, t) /\ Caller \in Tasks
  BY TimerFacts, TasksAssumption DEF SchedInv, TypeOK
<1>2. CASE local' = local
  BY <1>2
<1>3. CASE \E p \in Tasks : ProgramStep(p)
  <2>1. PICK p \in Tasks : ProgramStep(p)
    BY <1>3
  <2>2. p # t /\ (~ProgramDoes(p) => local'[t].since = local[t].since)
    BY <1>1, <2>1, ProgramLocal
  <2>3. CASE ProgramDoes(p)
    <3>1. PICK op \in {"start", "cancel", "call", "event"} : Doing(p, op)
      BY <2>3 DEF ProgramDoes
    <3> DEFINE o == Op(p)
               s == <<p, local[p].at>>
    <3>2. OpOK(o) /\ Do(o, On(p)) /\ s \in Steps(job) /\ At(job, s) = o
      BY <1>1, <2>3, <3>1, OpsOK, DoingStep DEF ProgramDoes
    <3>3. On(p) \in [Tasks -> Locals(Files)] /\ On(p)[t] = local[t] /\ local[p].at \in Nat
      BY <1>1, <2>2, OnLocal
    <3>4. ~(o.op = "start" /\ o.t = t)
      <4>1. Ahead(local, thread, s)
        <5>1. p \notin Threads /\ s[1] = p /\ s[2] = local[p].at
          BY TasksAssumption
        <5> HIDE DEF s
        <5>2. QED
          BY <3>3, <5>1 DEF Ahead
      <4>2. QED
        BY <1>1, <3>2, <4>1 DEF ToStart, StartsOf
    <3> HIDE DEF o, s
    <3>5. QED
      BY <1>1, <3>2, <3>3, <3>4, DoLocal
  <2>4. QED
    BY <2>2, <2>3
<1>4. CASE \E p \in Tasks : TimerStep(p)
  <2>1. PICK p \in Tasks : TimerStep(p)
    BY <1>4
  <2>2. CASE TimerFires(p)
    <3> DEFINE l == Fired(p)
               o == Timer(p).f
    <3>1. p # t
      BY <2>2
    <3>2. OpOK(o) /\ o.op # "start" /\ Do(o, l) /\ l \in [Tasks -> Locals(Files)] /\ l[t] = local[t]
      BY <1>1, <2>2, <3>1, FiredLocal
    <3> HIDE DEF l, o
    <3>3. QED
      BY <1>1, <3>2, DoLocal
  <2>3. CASE TimerSleeps(p)
    <3> DEFINE i == 2
               zero == 0
               live == "live"
    <3>1. local' = [local EXCEPT ![p].st = live, ![p].at = i, ![p].next = zero]
      BY <2>3 DEF TimerSleeps
    <3> HIDE DEF i, zero, live
    <3>2. local'[t] = local[t] \/ local'[t] = [local[t] EXCEPT !.st = live, !.at = i, !.next = zero]
      BY <1>1, <3>1
    <3>3. QED
      BY <1>1, <3>2 DEF Locals
  <2>4. CASE TimerEnds(p)
    <3>1. local'[t] = local[t] \/ local'[t] = [local[t] EXCEPT !.st = "done"]
      BY <1>1, <2>4 DEF TimerEnds, Ends
    <3>2. QED
      BY <1>1, <3>1 DEF Locals
  <2>5. QED
    BY <2>1, <2>2, <2>3, <2>4 DEF TimerStep
<1>5. CASE \E p \in Tasks : BeginStep(p)
  <2>1. PICK p \in Tasks : BeginStep(p)
    BY <1>5
  <2>2. p # t /\ local' = [local EXCEPT ![p].at = 3, ![p].since = 0]
    BY <1>1, <2>1 DEF BeginStep, Begins, Kind
  <2>3. QED
    BY <1>1, <2>2
<1>6. CASE CallerStep
  <2>1. \/ local' = [local EXCEPT ![Caller].st = "live", ![Caller].at = 2]
        \/ local' = [local EXCEPT ![Caller].at = 3] \/ local' = local
    BY <1>6 DEF CallerStep, CallerSelects, CallerPongs, CallerPops
  <2>2. local'[t] = local[t]
    BY <1>1, <2>1
  <2>3. QED
    BY <2>2
<1>7. CASE LoopStep
  BY <1>1, <1>7, LoopLocal
<1>8. CASE LostStep
  <2>1. PICK u : \E d : SetsUp(local, u, d)
    BY <1>8, LostDone
  <2>2. QED
    BY <1>1, <2>1, SetUpLocal
<1>9. CASE \E w \in Workers : WorkStep(w)
  <2>1. PICK f : local' = Listed(f) \/ \E u, d : SetsUp(Listed(f), u, d)
    BY <1>9, WorkDone
  <2>2. Listed(f) \in [Tasks -> Locals(Files)] /\ Listed(f)[t] = local[t]
    BY <1>1, ListedLocal
  <2>3. QED
    BY <1>1, <2>1, <2>2, SetUpLocal
<1>10. CASE Hub
  <2>1. local' = local \/ \E x, got : local' = [local EXCEPT ![x].rv = got]
    BY <1>10 DEF Hub, HubStep, Scan, Select, pongAll, Drain, Return, break_idle
  <2>2. ASSUME NEW x, NEW got, local' = [local EXCEPT ![x].rv = got] PROVE local'[t].since = local[t].since
    <3>1. local'[t] = local[t] \/ local'[t] = [local[t] EXCEPT !.rv = got]
      BY <1>1, <2>2
    <3>2. QED
      BY <1>1, <3>1 DEF Locals
  <2>3. QED
    BY <1>2, <2>1, <2>2
<1>11. CASE \E f \in Threads : ThreadStep(f)
  <2>1. PICK f \in Threads : ThreadStep(f)
    BY <1>11
  <2>2. CASE local' # local
    <3> DEFINE o == NextOp(f)
               s == <<f, thread[f].at>>
    <3>1. local' = Started(local, o.t) /\ thread[f].at <= Len(job.code[f]) /\ o.op = "start"
      BY <2>1, <2>2 DEF ThreadStep, ThreadDoes, ThreadNotifies
    <3>2. s \in Steps(job) /\ At(job, s) = o
      BY <1>1, <3>1, NextStep
    <3>3. o.t # t
      <4>1. s[1] = f /\ s[2] = thread[f].at /\ thread[f].at \in Nat
        BY <1>1 DEF TypeOK, Others
      <4>2. Ahead(local, thread, s)
        BY <4>1 DEF Ahead
      <4>3. QED
        BY <1>1, <3>1, <3>2, <4>2 DEF ToStart, StartsOf
    <3> DEFINE x == o.t
               n == job.timer[x].interval
               zero == 0
    <3>4. x # t /\ (local' = local \/ local' = [local EXCEPT ![x].next = n, ![x].since = zero])
      BY <3>1, <3>3 DEF Started
    <3> HIDE DEF x, n, zero
    <3>5. local'[t] = local[t]
      BY <1>1, <3>4
    <3>6. QED
      BY <3>5
  <2>3. QED
    BY <1>2, <2>2
<1>12. CASE Switches \/ Rings \/ CheckStep \/ SetStep \/ (\E u \in Tasks : BlockingStep(u)) \/ (\E f \in Threads : Launches(f))
            \/ Answering \/ Network
  BY <1>2, <1>12 DEF Switches, Rings, CheckStep, ChecksEvents, SetStep, BlockingSets, BlockingStep,
     BlockingEnds, Launches, Answering,
        Answers, HangsUp, Network, Turns, Says, Quiet
<1>13. QED
  BY <1>3, <1>4, <1>5, <1>6, <1>7, <1>8, <1>9, <1>10, <1>11, <1>12, NextCases

\* A step that has a timer count from 0 again comes when its time is up.
LEMMA CallsInTime ==
  ASSUME SchedInv, Next, NEW t \in Of("timer"), local'[t].since < local[t].since, local[t].st = "live"
  PROVE  local[t].since >= Timer(t).interval /\ ~local[t].cancelled
<1>1. TypeOK /\ t \in Tasks /\ local[t].since \in Nat /\ Timer(t).interval \in Nat /\ TimerOK(t)
  BY TimerFacts DEF SchedInv, Timer
<1>2. CASE TimerFires(t)
  <2>1. Runs(sch, t) /\ local[t].at = 2 /\ ~local[t].cancelled
    BY <1>2 DEF TimerFires, Running, Runs
  <2>2. Enough(job, local, 0, t)
    BY <1>1, <2>1 DEF TimerOK
  <2>3. QED
    BY <1>1, <2>1, <2>2 DEF Enough, Timer
<1>3. CASE Tick
  <2>1. local'[t].since = local[t].since + 1 \/ local'[t].since = local[t].since
    BY <1>1, <1>3, Ticked
  <2>2. QED
    BY <1>1, <2>1
<1>4. CASE ~TimerFires(t) /\ ~Tick
  <2>1. local'[t].since = local[t].since
    BY <1>4, SinceStays
  <2>2. QED
    BY <1>1, <2>1
<1>5. QED
  BY <1>2, <1>3, <1>4

(* ---------------------------- the theorems ----------------------------- *)
\* SchedInv is an invariant: for any tasks, threads, programs, timers and workers, whether the
\* controller listens at the start or not.  No fairness is used.
THEOREM SchedulerKeeps == Start /\ [][Next]_allVars => []SchedInv
<1>1. Start => SchedInv
  BY StartOK
<1>2. SchedInv /\ [Next]_allVars => SchedInv'
  BY StepOK, StutterOK
<1>3. QED
  BY <1>1, <1>2, PTL

\* No task is in two places of the scheduler, the hub, the lock and the calls that block, none is
\* lost, no two tasks hold the lock, the thread of the hub does not die of a task it gets twice; and
\* once the switch is launched, a worker, an attempt that has failed or a timer, and only one of
\* them, works at its connection, while the loop watches no socket that is closed.
THEOREM NothingIsDoneTwice == Start /\ [][Next]_allVars => []NothingTwice
<1>1. SchedInv => NothingTwice
  BY NothingIsTwice
<1>2. QED
  BY <1>1, SchedulerKeeps, PTL

\* A timer calls its function no sooner than its interval says, counted from the start or from the
\* last call, and never once it is cancelled: through sleeps that the hub holds, ticks and wake-ups.
THEOREM TimersAreNeverEarly == Start /\ [][Next]_allVars => NeverEarly
<1> DEFINE InTime == \A t \in Of("timer") : local'[t].since < local[t].since /\ local[t].st = "live" =>
                       local[t].since >= Timer(t).interval /\ ~local[t].cancelled
<1>1. SchedInv /\ [Next]_allVars => [InTime]_vars
  <2>1. SchedInv /\ Next => InTime
    BY CallsInTime
  <2>2. UNCHANGED allVars => UNCHANGED vars
    BY DEF allVars
  <2>3. QED
    BY <2>1, <2>2
<1>2. NeverEarly <=> [][InTime]_vars
  BY DEF NeverEarly
<1>3. QED
  BY <1>1, <1>2, SchedulerKeeps, PTL

==============================================================================
