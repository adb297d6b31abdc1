---------------------------- MODULE MCScheduler ----------------------------
\* Instances of IOWorkers: a few tasks and threads that meet at a lock, at
\* timers, at functions to be called later, at events, at a file and a blocking
\* call; and a switch that keeps connecting to its controller.
EXTENDS IOWorkers, TLC

AllTasks == {"a", "b", "c", "timer", Caller, Loop, "retry1", "retry2"}
Op1(op) == <<[op |-> op]>>
Start(t) == <<[op |-> "start", t |-> t]>>
SleepFor(n) == <<[op |-> "sleep", n |-> n]>>
CallLater(f) == <<[op |-> "call", f |-> f]>>
File == <<"f">>
SelectFile(n) == <<[op |-> "select", fd |-> File, n |-> n]>>

NoJob == [kind |-> [t \in AllTasks |-> "absent"], code |-> [t \in AllTasks \union Threads |-> <<>>],
          loop |-> {}, low |-> {}, timer |-> [t \in {"retry1", "retry2"} |-> [interval |-> 1]]]
Job(kinds, codes) == [NoJob EXCEPT !.kind = kinds @@ @, !.code = codes @@ @]
Programs(ts) == [t \in ts |-> "program"]

\* Three tasks and a lock; one of them does not wait for it, and another has a
\* low priority and sleeps with it.
LockJob ==
  [Job(Programs({"a", "b", "c"}),
       ("a" :> Op1("acquire") \o Op1("again") \o Op1("release") @@
        "b" :> <<[op |-> "try", else |-> 5]>> \o Op1("again") \o Op1("release") \o Op1("again") @@
        "c" :> Op1("acquire") \o SleepFor(1) \o Op1("release") @@
        "m" :> Start("a") \o Start("c") @@ "n" :> Start("b")))
   EXCEPT !.low = {"c"}]

\* A timer that calls again and again until a task cancels it, and one that its
\* own function stops.
TimerJob(stops, codes) ==
  [Job("timer" :> "timer" @@ "a" :> "program", codes)
   EXCEPT !.timer = @ @@ ("timer" :> [interval |-> 2, recurring |-> TRUE, stops |-> stops, f |-> [op |-> "nothing"]])]
CancelJob == TimerJob(FALSE, "a" :> Start("timer") \o SleepFor(3) \o <<[op |-> "cancel", t |-> "timer"]>> @@ "m" :> Start("a"))
StopJob == TimerJob(TRUE, "m" :> Start("timer"))

\* Two threads and a task have functions called later, the last of which may end
\* the scheduler.
LaterJob(codes) == Job(Caller :> "caller" @@ "a" :> "program", "m" :> CallLater("f") @@ codes)
CallJob == LaterJob("a" :> CallLater("f") @@ "n" :> Start("a") \o CallLater("f"))
QuitJob == LaterJob("n" :> CallLater("quit"))

\* A task waits for events that two threads and a task raise.
EventJob ==
  [Job(Programs({"a", "b"}),
       ("a" :> Op1("wait") \o Op1("take") @@ "b" :> Op1("event") \o Op1("again") \o Op1("event") @@
        "m" :> Start("a") \o Op1("event") @@ "n" :> Start("b") \o Op1("event")))
   EXCEPT !.loop = {"a"}]

\* A task reads a file, or gives up; another makes a blocking call; a third
\* parks until it is woken.
FileJob ==
  Job(Programs({"a", "b", "c"}),
      ("a" :> SelectFile(1) \o <<[op |-> "read"]>> @@
       "b" :> Op1("block") \o Start("c") @@ "c" :> Op1("again") \o Op1("park") @@
       "m" :> Start("a") \o Start("b") @@ "n" :> <<[op |-> "data", fd |-> File]>>))

\* Two tasks wait for what never comes.
IdleJob ==
  Job(Programs({"a", "b"}),
      ("a" :> SelectFile(MaxLeft + 1) @@ "b" :> SleepFor(MaxLeft + 1) @@ "m" :> Start("a") \o Start("b")))

SwitchJob ==
  Job(Loop :> "loop" @@ Caller :> "caller" @@ [t \in {"retry1", "retry2"} |-> "retry"],
      "m" :> Op1("launch"))

AllJobs == [lock |-> LockJob, cancel |-> CancelJob, stop |-> StopJob, call |-> CallJob, quit |-> QuitJob,
            idle |-> IdleJob, event |-> EventJob, file |-> FileJob, switch |-> SwitchJob]
Init == \E j \in DOMAIN Jobs : InitWith(j, TRUE)
Spec == Init /\ [][Next]_allVars /\ Fairness
=============================================================================
