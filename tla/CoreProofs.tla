------------------------------ MODULE CoreProofs ------------------------------
(***************************************************************************)
(* Every listener hears what it is subscribed to, and every callback is    *)
(* called when its components are there, for any threads, events,          *)
(* components and priorities, and however many operations the callbacks do.*)
(***************************************************************************)
EXTENDS Core, PythonListProofs

(* ------------------------------ invariants ----------------------------- *)
Listeners == [handler : Handlers \union Sinks, priority : 0 .. MaxPriority,
              once : BOOLEAN, weak : BOOLEAN, eid : Nat]
RaiseFrames == [kind : {"raise"}, event : Events, guarded : BOOLEAN,
                list : Seq(Listeners), at : Nat, live : BOOLEAN, heard : Seq(Nat),
                moved : BOOLEAN, due : SUBSET Nat]
CallFrames == [kind : {"call"}, who : Handlers \union Sinks \union Components,
               entry : Listeners \union {NoEntry}]
TriesFrames == [kind : {"tries"}, entries : Seq(Sinks), loop : BOOLEAN, changed : BOOLEAN,
                found : BOOLEAN]
QuitFrames == [kind : {"quit"}, pc : {"check", "down", "later", "notify"}]
Frames == RaiseFrames \union CallFrames \union TriesFrames \union QuitFrames \union {Failed}

\* What is left to do: the components to launch, the calls left to the scheduler.
LeftType == commandLine \in Seq(Components) /\ later \in Seq(Events \union {"quit"})

\* A listener is called by the dispatch below it, and nothing stands above or below an
\* exception that nothing catches.
Nested(s) ==
  \A k \in DOMAIN s :
    /\ s[k].kind = "call" /\ s[k].entry.eid # 0 => k > 1 /\ s[k - 1].kind = "raise"
    /\ s[k].kind = "failed" => k = 1 /\ Len(s) = 1

\* The order of a list: by priority, then by age.  No event ID is in it twice, none is new.
Before(x, y) ==
  /\ x.eid # y.eid
  /\ x.priority > y.priority \/ (x.priority = y.priority /\ x.eid < y.eid)
Ranked(list, m) ==
  /\ \A i \in DOMAIN list : list[i].eid <= m
  /\ \A i, j \in DOMAIN list : i < j => Before(list[i], list[j])
ListsOK(hs, m) ==
  m \in Nat /\ hs \in [Events -> Seq(Listeners)] /\ \A e \in Events : Ranked(hs[e], m)

\* A dispatch: its list is the one of the source, or an older one that still has everybody who
\* is due and subscribed; of those due, whoever stands before its place has heard it; and what
\* it has called is what stands there, unless the list was sorted.
Has(list, eid) == \E i \in DOMAIN list : list[i].eid = eid
Sound(f, hs, m) ==
  /\ f.at \in 1 .. Len(f.list) + 1 /\ f.due \subseteq 0 .. m /\ Ranked(f.list, m)
  /\ f.live => f.list = hs[f.event]
  /\ \A x \in f.due : Has(hs[f.event], x) => Has(f.list, x)
  /\ \A i \in 1 .. f.at - 1 : f.list[i].eid \in f.due => f.list[i].eid \in ToSet(f.heard)
  /\ ~f.moved => /\ Len(f.heard) = f.at - 1
                 /\ \A i \in 1 .. f.at - 1 : f.heard[i] = f.list[i].eid
StacksOK(stk, hs, m) ==
  /\ stk \in [Threads -> Seq(Frames)]
  /\ \A t \in Threads :
       /\ Nested(stk[t])
       /\ \A k \in DOMAIN stk[t] : stk[t][k].kind = "raise" => Sound(stk[t][k], hs, m)

\* Whoever waits for nothing any more will be tried by a call that is under way, if none was
\* cut short.
Covers(f, s) == f.kind = "tries" /\ (s \in ToSet(f.entries) \/ (f.loop /\ f.changed))
Covered(stk, s) == \E t \in Threads : \E k \in DOMAIN stk[t] : Covers(stk[t][k], s)
Waiting ==
  /\ waiters \in Seq(Sinks) /\ calls \in [Sinks -> 0 .. 1]
  /\ \A s \in Sinks : calls[s] = 1 => Ready(s) /\ s \notin ToSet(waiters)
  /\ ~cut => \A s \in ToSet(waiters) : Ready(s) => Covered(stack, s)

Orderly == ListsOK(handlers, made) /\ StacksOK(stack, handlers, made) /\ Waiting
CoreInv == LeftType /\ Orderly

(* ------------------------------- operators ----------------------------- *)
\* The kind of a frame tells what it is.
LEMMA Kinds ==
  ASSUME NEW f \in Frames
  PROVE  /\ f.kind = "raise" <=> f \in RaiseFrames
         /\ f.kind = "call" <=> f \in CallFrames
         /\ f.kind = "tries" <=> f \in TriesFrames
         /\ f.kind = "quit" <=> f \in QuitFrames
         /\ f.kind = "failed" <=> f = Failed
  BY DEF Frames, RaiseFrames, CallFrames, TriesFrames, QuitFrames, Failed

\* What a list becomes when a listener is added: it stands at the end, unless the list is sorted.
Added(old, new, m, m2, sorted) ==
  \/ new = old
  \/ \E p \in 1 .. Len(old) + 1 :
       /\ Len(new) = Len(old) + 1 /\ new[p].eid \in m + 1 .. m2
       /\ \A i \in 1 .. p - 1 : new[i] = old[i]
       /\ \A i \in p + 1 .. Len(old) + 1 : new[i] = old[i - 1]
       /\ p = Len(old) + 1 \/ sorted

\* A list with one more entry, at place p: in order, if the entry fits there.
LEMMA Placed ==
  ASSUME NEW m \in Nat, NEW m2 \in Nat, m <= m2, NEW old \in Seq(Listeners), Ranked(old, m),
         NEW entry \in Listeners, entry.eid \in m + 1 .. m2,
         NEW p \in 1 .. Len(old) + 1,
         \A i \in 1 .. p - 1 : old[i].priority >= entry.priority,
         \A i \in p .. Len(old) : old[i].priority < entry.priority,
         NEW sorted \in BOOLEAN, p = Len(old) + 1 \/ sorted
  PROVE  /\ InsertAt(old, p, entry) \in Seq(Listeners) /\ Ranked(InsertAt(old, p, entry), m2)
         /\ Added(old, InsertAt(old, p, entry), m, m2, sorted)
<1> DEFINE new == InsertAt(old, p, entry)
<1>1. Len(old) \in Nat /\ DOMAIN old = 1 .. Len(old) /\ \A i \in 1 .. Len(old) : old[i] \in Listeners
  OBVIOUS
<1>2. /\ new \in Seq(Listeners) /\ Len(new) = Len(old) + 1 /\ new[p] = entry
      /\ \A i \in 1 .. p - 1 : new[i] = old[i]
      /\ \A i \in p + 1 .. Len(old) + 1 : new[i] = old[i - 1]
  BY Spliced
<1> HIDE DEF new
<1>3. DOMAIN new = 1 .. Len(old) + 1
  BY <1>2
<1>4. \A i \in 1 .. Len(old) : old[i].eid \in Nat /\ old[i].priority \in Nat /\ old[i].eid <= m
  <2>1. \A x \in Listeners : x.eid \in Nat /\ x.priority \in Nat
    BY ReventBounds DEF Listeners
  <2>2. \A i \in 1 .. Len(old) : old[i].eid <= m
    BY <1>1 DEF Ranked
  <2>3. QED
    BY <1>1, <2>1, <2>2
<1>5. entry.eid \in Nat /\ entry.priority \in Nat
  BY ReventBounds DEF Listeners
<1>6. ASSUME NEW i \in DOMAIN new PROVE new[i].eid <= m2
  <2>1. i = p \/ i \in 1 .. p - 1 \/ (i \in p + 1 .. Len(old) + 1 /\ i - 1 \in 1 .. Len(old))
    BY <1>1, <1>2, <1>3
  <2>2. CASE i = p
    BY <1>2, <2>2
  <2>3. CASE i \in 1 .. p - 1
    BY <1>1, <1>2, <1>4, <2>3
  <2>4. CASE i \in p + 1 .. Len(old) + 1 /\ i - 1 \in 1 .. Len(old)
    BY <1>1, <1>2, <1>4, <2>4
  <2>5. QED
    BY <2>1, <2>2, <2>3, <2>4
<1>7. ASSUME NEW i \in DOMAIN new, NEW j \in DOMAIN new, i < j PROVE Before(new[i], new[j])
  <2>1. \A a, b \in 1 .. Len(old) : a < b => Before(old[a], old[b])
    BY <1>1 DEF Ranked
  <2>2. \A a \in 1 .. p - 1 : a \in 1 .. Len(old) /\ Before(old[a], entry)
    BY <1>1, <1>4, <1>5 DEF Before
  <2>3. \A a \in p .. Len(old) : a \in 1 .. Len(old) /\ Before(entry, old[a])
    BY <1>1, <1>4, <1>5 DEF Before
  <2>4. CASE j \in 1 .. p - 1
    BY <1>1, <1>2, <1>3, <1>7, <2>1, <2>4
  <2>5. CASE j = p
    BY <1>1, <1>2, <1>3, <1>7, <2>2, <2>5
  <2>6. CASE i = p
    <3>1. j \in p + 1 .. Len(old) + 1 /\ j - 1 \in p .. Len(old)
      BY <1>1, <1>2, <1>3, <1>7, <2>6
    <3>2. QED
      BY <1>2, <2>3, <2>6, <3>1
  <2>7. CASE i \in p + 1 .. Len(old) + 1
    <3>1. i \in Nat /\ j \in Nat /\ p \in Nat /\ 1 <= p /\ p < i /\ i < j /\ j <= Len(old) + 1
      BY <1>1, <1>3, <1>7, <2>7
    <3>2. j \in p + 1 .. Len(old) + 1 /\ i - 1 \in 1 .. Len(old) /\ j - 1 \in 1 .. Len(old) /\ i - 1 < j - 1
      BY <1>1, <3>1
    <3>3. QED
      BY <1>2, <2>1, <2>7, <3>2
  <2>8. CASE i \in 1 .. p - 1 /\ j \in p + 1 .. Len(old) + 1
    <3>1. i \in 1 .. Len(old) /\ j - 1 \in 1 .. Len(old) /\ i < j - 1
      BY <1>1, <1>2, <1>3, <1>7, <2>8
    <3>2. QED
      BY <1>2, <2>1, <2>8, <3>1
  <2>9. QED
    BY <1>1, <1>2, <1>3, <1>7, <2>4, <2>5, <2>6, <2>7, <2>8
<1>8. Ranked(new, m2)
  BY <1>6, <1>7 DEF Ranked
<1>9. Added(old, new, m, m2, sorted)
  BY <1>2 DEF Added
<1>10. QED
  BY <1>2, <1>8, <1>9 DEF new

\* addListener() puts an entry where it belongs.
LEMMA Inserted ==
  ASSUME NEW m \in Nat, NEW old \in Seq(Listeners), Ranked(old, m),
         NEW entry \in Listeners, NEW m2 \in Nat, entry.eid \in m + 1 .. m2,
         NEW sorted \in BOOLEAN, entry.priority # 0 => sorted
  PROVE  /\ Insert(old, entry) \in Seq(Listeners) /\ Ranked(Insert(old, entry), m2)
         /\ Added(old, Insert(old, entry), m, m2, sorted)
<1>1. Len(old) \in Nat /\ DOMAIN old = 1 .. Len(old) /\ \A i \in 1 .. Len(old) : old[i] \in Listeners
  OBVIOUS
<1>2. entry.eid \in Nat /\ entry.priority \in Nat /\ m <= m2
  BY ReventBounds DEF Listeners
<1>3. \A i \in 1 .. Len(old) : old[i].priority \in Nat
  BY <1>1, ReventBounds DEF Listeners
<1>4. CASE entry.priority = 0
  <2> DEFINE p == Len(old) + 1
  <2> DEFINE new == InsertAt(old, p, entry)
  <2>1. Append(old, entry) = new
    <3> DEFINE w == SubSeq(old, 1, p - 1)
    <3>1. w = old
      BY <1>1
    <3>2. SubSeq(old, p, Len(old)) = <<>>
      BY <1>1
    <3>3. Append(old, entry) = old \o <<entry>> \o <<>>
      BY <1>1
    <3>4. QED
      BY <3>1, <3>2, <3>3 DEF InsertAt
  <2>2. /\ \A i \in 1 .. p - 1 : old[i].priority >= entry.priority
        /\ \A i \in p .. Len(old) : old[i].priority < entry.priority
    BY <1>1, <1>3, <1>4
  <2>3. p \in 1 .. Len(old) + 1 /\ p = Len(old) + 1
    BY <1>1
  <2> HIDE DEF p, new
  <2>4. new \in Seq(Listeners) /\ Ranked(new, m2) /\ Added(old, new, m, m2, sorted)
    BY <1>2, <2>2, <2>3, Placed DEF new
  <2>5. Insert(old, entry) = new
    BY <1>4, <2>1 DEF Insert
  <2>6. QED
    BY <2>4, <2>5
<1>5. CASE entry.priority # 0
  <2> DEFINE Lower == {i \in 1 .. Len(old) + 1 : i = Len(old) + 1 \/ old[i].priority < entry.priority}
  <2> DEFINE Fits(k) == /\ \A i \in 1 .. k - 1 : old[i].priority >= entry.priority
                        /\ \A i \in k .. Len(old) : old[i].priority < entry.priority
  <2>1. \E k \in 1 .. Len(old) + 1 : Fits(k)
    <3>1. Lower \subseteq Nat /\ Len(old) + 1 \in Lower
      BY <1>1
    <3>2. PICK k \in Lower : \A e \in Lower : k <= e
      <4> HIDE DEF Lower
      <4>1. QED
        BY <3>1, LeastNumber
    <3>3. ASSUME NEW i \in 1 .. k - 1 PROVE old[i].priority >= entry.priority
      <4>1. k \in 1 .. Len(old) + 1
        BY <3>2
      <4>2. i \in 1 .. Len(old) /\ ~(k <= i)
        BY <1>1, <4>1
      <4>3. i \notin Lower
        BY <3>2, <4>2
      <4>4. ~(old[i].priority < entry.priority)
        BY <1>1, <4>2, <4>3
      <4>5. QED
        BY <1>2, <1>3, <4>2, <4>4
    <3>4. ASSUME NEW i \in k .. Len(old) PROVE old[i].priority < entry.priority
      <4>1. k \in 1 .. Len(old) /\ i \in 1 .. Len(old) /\ old[k].priority < entry.priority
        BY <1>1, <3>2, <3>4
      <4>2. i = k \/ Before(old[k], old[i])
        BY <1>1, <4>1 DEF Ranked
      <4>3. QED
        BY <1>2, <1>3, <4>1, <4>2 DEF Before
    <3>5. QED
      BY <3>2, <3>3, <3>4
  <2> DEFINE p == Behind(old, entry.priority)
  <2>2. p = CHOOSE k \in 1 .. Len(old) + 1 : Fits(k)
    BY DEF Behind
  <2>3. p \in 1 .. Len(old) + 1 /\ Fits(p)
    <3> HIDE DEF Fits, p
    <3>1. QED
      BY <2>1, <2>2
  <2> HIDE DEF p
  <2> DEFINE new == InsertAt(old, p, entry)
  <2> HIDE DEF new
  <2>4. new \in Seq(Listeners) /\ Ranked(new, m2) /\ Added(old, new, m, m2, sorted)
    BY <1>2, <1>5, <2>3, Placed DEF new
  <2>5. Insert(old, entry) = new
    BY <1>5 DEF Insert, new, p
  <2>6. QED
    BY <2>4, <2>5
<1>6. QED
  BY <1>4, <1>5

\* removeListener() leaves a list in order, without what is removed.
LEMMA Removed ==
  ASSUME NEW m \in Nat, NEW old \in Seq(Listeners), Ranked(old, m), NEW eids, NEW rest,
         rest = Without(old, {x \in ToSet(old) : x.eid \in eids})
  PROVE  /\ rest \in Seq(Listeners) /\ Ranked(rest, m)
         /\ \A x : Has(rest, x) => Has(old, x)
<1>1. Len(old) \in Nat /\ DOMAIN old = 1 .. Len(old)
  OBVIOUS
<1>2. rest \in Seq(Listeners) /\ ToSet(rest) \subseteq ToSet(old) /\ InOrder(rest, old, Len(old))
  BY Filtered
<1>3. \A i \in DOMAIN rest : \E j \in DOMAIN old : rest[i] = old[j]
  BY <1>2 DEF ToSet
<1>4. \A i \in DOMAIN rest : rest[i].eid <= m
  BY <1>3 DEF Ranked
<1>5. \A i, j \in DOMAIN rest : i < j => Before(rest[i], rest[j])
  BY <1>1, <1>2 DEF InOrder, Ranked
<1>6. QED
  BY <1>2, <1>3, <1>4, <1>5 DEF Ranked, Has

(* -------------------------------- stacks ------------------------------- *)
\* What may be put on the first n frames of a stack.
Fits(s, n, more) ==
  /\ more # <<>> => \A i \in 1 .. n : s[i].kind # "failed"
  /\ \A k \in DOMAIN more :
       /\ more[k].kind = "call" /\ more[k].entry.eid # 0 => k > 1 /\ more[k - 1].kind = "raise"
       /\ more[k].kind = "failed" => n = 0 /\ Len(more) = 1

\* A thread returns from calls and makes others.
Turn(stk, t, n, more) == [stk EXCEPT ![t] = SubSeq(stk[t], 1, n) \o more]

LEMMA Turned ==
  ASSUME NEW hs, NEW m, NEW stk, StacksOK(stk, hs, m), NEW t \in Threads,
         NEW n \in 0 .. Len(stk[t]), NEW more \in Seq(Frames), Fits(stk[t], n, more),
         \A k \in DOMAIN more : more[k].kind = "raise" => Sound(more[k], hs, m)
  PROVE  StacksOK(Turn(stk, t, n, more), hs, m)
<1> DEFINE s == stk[t]
<1> DEFINE r == SubSeq(s, 1, n) \o more
<1>1. /\ stk \in [Threads -> Seq(Frames)] /\ s \in Seq(Frames) /\ Nested(s)
      /\ \A k \in DOMAIN s : s[k].kind = "raise" => Sound(s[k], hs, m)
  BY DEF StacksOK
<1>2. /\ r \in Seq(Frames) /\ DOMAIN r = 1 .. Len(r) /\ Len(r) = n + Len(more)
      /\ \A i \in 1 .. n : r[i] = s[i]
      /\ \A i \in 1 .. Len(more) : r[n + i] = more[i]
      /\ \A k \in DOMAIN r : k \in 1 .. n \/ \E i \in 1 .. Len(more) : k = n + i
  <2>1. s \in Seq(Frames) /\ n \in 0 .. Len(s)
    BY <1>1
  <2>2. r = SubSeq(s, 1, n) \o more
    OBVIOUS
  <2> HIDE DEF s, r
  <2>3. /\ r \in Seq(Frames) /\ DOMAIN r = 1 .. Len(r) /\ Len(r) = n + Len(more)
        /\ \A i \in 1 .. n : r[i] = s[i]
    BY <2>1, <2>2, Continued
  <2>4. \A i \in 1 .. Len(more) : r[n + i] = more[i]
    BY <2>1, <2>2, Continued
  <2>5. ASSUME NEW k \in DOMAIN r, k \notin 1 .. n PROVE \E i \in 1 .. Len(more) : k = n + i
    <3>1. n \in Nat /\ Len(more) \in Nat /\ k \in 1 .. n + Len(more)
      BY <2>1, <2>3
    <3>2. k - n \in 1 .. Len(more) /\ k = n + (k - n)
      BY <2>5, <3>1
    <3>3. QED
      BY <3>2
  <2>6. QED
    BY <2>3, <2>4, <2>5
<1>3. Turn(stk, t, n, more) = [stk EXCEPT ![t] = r]
  BY DEF Turn
<1>4. n \in 0 .. Len(s) /\ Fits(s, n, more)
  OBVIOUS
<1> HIDE DEF s, r
<1>5. Len(s) \in Nat /\ DOMAIN s = 1 .. Len(s) /\ Len(more) \in Nat /\ DOMAIN more = 1 .. Len(more)
  BY <1>1
<1>6. \A i \in 1 .. n : i \in DOMAIN s
  BY <1>4, <1>5
<1>7. ASSUME NEW k \in DOMAIN r, r[k].kind = "call", r[k].entry.eid # 0
      PROVE  k > 1 /\ r[k - 1].kind = "raise"
  <2>1. CASE k \in 1 .. n
    <3>1. k > 1 /\ s[k - 1].kind = "raise"
      BY <1>1, <1>2, <1>6, <1>7, <2>1 DEF Nested
    <3>2. k - 1 \in 1 .. n
      BY <1>4, <1>5, <2>1, <3>1
    <3>3. QED
      BY <1>2, <3>1, <3>2
  <2>2. ASSUME NEW i \in 1 .. Len(more), k = n + i PROVE k > 1 /\ r[k - 1].kind = "raise"
    <3>1. more[i].kind = "call" /\ more[i].entry.eid # 0
      BY <1>2, <1>7, <2>2
    <3>2. i > 1 /\ more[i - 1].kind = "raise"
      BY <1>4, <1>5, <3>1 DEF Fits
    <3>3. i - 1 \in 1 .. Len(more) /\ n + (i - 1) = k - 1 /\ k > 1
      BY <1>4, <1>5, <2>2, <3>2
    <3>4. r[n + (i - 1)] = more[i - 1]
      BY <1>2, <3>3
    <3>5. QED
      BY <3>2, <3>3, <3>4
  <2>3. QED
    BY <1>2, <2>1, <2>2
<1>8. ASSUME NEW k \in DOMAIN r, r[k].kind = "failed" PROVE k = 1 /\ Len(r) = 1
  <2>1. CASE k \in 1 .. n
    <3>1. s[k].kind = "failed" /\ k \in DOMAIN s
      BY <1>2, <1>6, <1>8, <2>1
    <3>2. k = 1 /\ Len(s) = 1 /\ more = <<>>
      BY <1>1, <1>4, <2>1, <3>1 DEF Nested, Fits
    <3>3. QED
      BY <1>2, <1>4, <2>1, <3>2
  <2>2. ASSUME NEW i \in 1 .. Len(more), k = n + i PROVE k = 1 /\ Len(r) = 1
    <3>1. more[i].kind = "failed"
      BY <1>2, <1>8, <2>2
    <3>2. n = 0 /\ Len(more) = 1
      BY <1>4, <1>5, <3>1 DEF Fits
    <3>3. QED
      BY <1>2, <2>2, <3>2
  <2>3. QED
    BY <1>2, <2>1, <2>2
<1>9. Nested(r)
  BY <1>7, <1>8 DEF Nested
<1>10. ASSUME NEW k \in DOMAIN r, r[k].kind = "raise" PROVE Sound(r[k], hs, m)
  <2>1. CASE k \in 1 .. n
    BY <1>1, <1>2, <1>6, <1>10, <2>1
  <2>2. ASSUME NEW i \in 1 .. Len(more), k = n + i PROVE Sound(r[k], hs, m)
    <3>1. r[k] = more[i] /\ i \in DOMAIN more
      BY <1>2, <1>5, <2>2
    <3>2. QED
      BY <1>10, <3>1
  <2>3. QED
    BY <1>2, <2>1, <2>2
<1> DEFINE stk2 == [stk EXCEPT ![t] = r]
<1>11. stk2 \in [Threads -> Seq(Frames)]
  BY <1>1, <1>2
<1>12. \A u \in Threads : stk2[u] = IF u = t THEN r ELSE stk[u]
  BY <1>1
<1> HIDE DEF stk2
<1>13. ASSUME NEW u \in Threads
       PROVE  /\ Nested(stk2[u])
              /\ \A k \in DOMAIN stk2[u] : stk2[u][k].kind = "raise" => Sound(stk2[u][k], hs, m)
  <2>1. CASE u = t
    BY <1>9, <1>10, <1>12, <2>1
  <2>2. CASE u # t
    BY <1>12, <2>2 DEF StacksOK
  <2>3. QED
    BY <2>1, <2>2
<1>14. StacksOK(stk2, hs, m)
  BY <1>11, <1>13 DEF StacksOK
<1>15. QED
  BY <1>3, <1>14 DEF stk2

\* Who is covered stays so, unless the thread returns from the call that covers him; and
\* the calls a thread makes cover others.
LEMMA Lasting ==
  ASSUME NEW stk \in [Threads -> Seq(Frames)], NEW t \in Threads, NEW n \in 0 .. Len(stk[t]),
         NEW more \in Seq(Frames), NEW x,
         \/ /\ Covered(stk, x)
            /\ \A i \in n + 1 .. Len(stk[t]) : ~Covers(stk[t][i], x)
         \/ \E k \in DOMAIN more : Covers(more[k], x)
  PROVE  Covered(Turn(stk, t, n, more), x)
<1> DEFINE s == stk[t]
<1> DEFINE r == SubSeq(s, 1, n) \o more
<1>1. /\ s \in Seq(Frames) /\ n \in 0 .. Len(s)
      /\ \/ Covered(stk, x) /\ \A i \in n + 1 .. Len(s) : ~Covers(s[i], x)
         \/ \E k \in DOMAIN more : Covers(more[k], x)
  OBVIOUS
<1>2. Turn(stk, t, n, more) = [stk EXCEPT ![t] = r]
  BY DEF Turn
<1>3. s = stk[t]
  OBVIOUS
<1> HIDE DEF s
<1>4. /\ r \in Seq(Frames) /\ DOMAIN r = 1 .. Len(r) /\ Len(r) = n + Len(more)
      /\ \A i \in 1 .. n : r[i] = s[i]
      /\ \A i \in 1 .. Len(more) : r[n + i] = more[i]
  BY <1>1, Continued
<1> HIDE DEF r
<1> DEFINE stk2 == [stk EXCEPT ![t] = r]
<1>5. \A u \in Threads : stk2[u] = IF u = t THEN r ELSE stk[u]
  OBVIOUS
<1> HIDE DEF stk2
<1>6. Len(s) \in Nat /\ DOMAIN s = 1 .. Len(s) /\ Len(more) \in Nat /\ DOMAIN more = 1 .. Len(more)
  BY <1>1
<1>7. CASE \E k \in DOMAIN more : Covers(more[k], x)
  <2>1. PICK k \in DOMAIN more : Covers(more[k], x)
    BY <1>7
  <2>2. n + k \in DOMAIN r /\ r[n + k] = more[k]
    BY <1>1, <1>4, <1>6
  <2>3. QED
    BY <1>2, <1>5, <2>1, <2>2 DEF Covered, stk2
<1>8. CASE Covered(stk, x) /\ \A i \in n + 1 .. Len(s) : ~Covers(s[i], x)
  <2>1. PICK u \in Threads : \E k \in DOMAIN stk[u] : Covers(stk[u][k], x)
    BY <1>8 DEF Covered
  <2> PICK k \in DOMAIN stk[u] : Covers(stk[u][k], x)
    BY <2>1
  <2>2. CASE u # t
    BY <1>2, <1>5, <2>2 DEF Covered, stk2
  <2>3. CASE u = t
    <3>1. k \in 1 .. n
      BY <1>1, <1>3, <1>6, <1>8, <2>3
    <3>2. k \in DOMAIN r /\ r[k] = stk[u][k]
      BY <1>1, <1>3, <1>4, <1>6, <2>3, <3>1
    <3>3. QED
      BY <1>2, <1>5, <2>3, <3>2 DEF Covered, stk2
  <2>4. QED
    BY <2>2, <2>3
<1>9. QED
  BY <1>1, <1>7, <1>8

\* Where each frame is replaced by one of its kind, and only those of dispatches change, the
\* calls stay as they are nested, and cover whom they covered.
Like(f, g) == f.kind = g.kind /\ (f.kind # "raise" => f = g)
Adapted(stk, stk2, hs, m) ==
  /\ stk2 = [t \in Threads |-> stk2[t]]
  /\ \A t \in Threads : stk2[t] = [k \in DOMAIN stk[t] |-> stk2[t][k]]
  /\ \A t \in Threads : \A k \in DOMAIN stk[t] :
       /\ stk2[t][k] \in Frames /\ Like(stk[t][k], stk2[t][k])
       /\ stk2[t][k].kind = "raise" => Sound(stk2[t][k], hs, m)
LEMMA Alike ==
  ASSUME NEW hs0, NEW m0, NEW stk, StacksOK(stk, hs0, m0),
         NEW stk2, NEW hs, NEW m, Adapted(stk, stk2, hs, m)
  PROVE  StacksOK(stk2, hs, m) /\ \A x : Covered(stk, x) => Covered(stk2, x)
<1>1. /\ stk \in [Threads -> Seq(Frames)] /\ \A t \in Threads : Nested(stk[t])
      /\ stk2 = [t \in Threads |-> stk2[t]]
      /\ \A t \in Threads : stk2[t] = [k \in DOMAIN stk[t] |-> stk2[t][k]]
      /\ \A t \in Threads : \A k \in DOMAIN stk[t] :
           /\ stk2[t][k] \in Frames /\ Like(stk[t][k], stk2[t][k])
           /\ stk2[t][k].kind = "raise" => Sound(stk2[t][k], hs, m)
  BY DEF Adapted, StacksOK
<1>2. ASSUME NEW t \in Threads
      PROVE  stk2[t] \in Seq(Frames) /\ DOMAIN stk2[t] = DOMAIN stk[t] /\ Len(stk2[t]) = Len(stk[t])
  <2>1. stk[t] \in Seq(Frames)
    BY <1>1
  <2>2. DOMAIN stk[t] = 1 .. Len(stk[t]) /\ Len(stk[t]) \in Nat
    BY <2>1
  <2> DEFINE f == stk2[t]
  <2> DEFINE n == Len(stk[t])
  <2>3. n \in Nat /\ f = [k \in 1 .. n |-> f[k]] /\ \A k \in 1 .. n : f[k] \in Frames
    BY <1>1, <2>2
  <2> HIDE DEF f, n
  <2>4. f \in Seq(Frames) /\ DOMAIN f = 1 .. n /\ Len(f) = n
    BY <2>3
  <2>5. QED
    BY <2>2, <2>4 DEF f, n
<1>3. stk2 \in [Threads -> Seq(Frames)]
  BY <1>1, <1>2
<1>4. ASSUME NEW t \in Threads PROVE Nested(stk2[t])
  <2>1. ASSUME NEW k \in DOMAIN stk2[t], stk2[t][k].kind = "call", stk2[t][k].entry.eid # 0
        PROVE  k > 1 /\ stk2[t][k - 1].kind = "raise"
    <3>1. stk[t][k] = stk2[t][k] /\ k \in DOMAIN stk[t]
      BY <1>1, <1>2, <2>1 DEF Like
    <3>2. k > 1 /\ stk[t][k - 1].kind = "raise"
      BY <1>1, <2>1, <3>1 DEF Nested
    <3>3. k - 1 \in DOMAIN stk[t]
      <4>1. DOMAIN stk[t] = 1 .. Len(stk[t]) /\ Len(stk[t]) \in Nat
        BY <1>1
      <4>2. QED
        BY <3>1, <3>2, <4>1
    <3>4. QED
      BY <1>1, <3>2, <3>3 DEF Like
  <2>2. ASSUME NEW k \in DOMAIN stk2[t], stk2[t][k].kind = "failed"
        PROVE  k = 1 /\ Len(stk2[t]) = 1
    <3>1. stk[t][k].kind = "failed" /\ k \in DOMAIN stk[t]
      BY <1>1, <1>2, <2>2 DEF Like
    <3>2. QED
      BY <1>1, <1>2, <3>1 DEF Nested
  <2>3. QED
    BY <2>1, <2>2 DEF Nested
<1>5. ASSUME NEW x, Covered(stk, x) PROVE Covered(stk2, x)
  <2>1. PICK u \in Threads : \E k \in DOMAIN stk[u] : Covers(stk[u][k], x)
    BY <1>5 DEF Covered
  <2>2. PICK k \in DOMAIN stk[u] : Covers(stk[u][k], x)
    BY <2>1
  <2>3. stk2[u][k] = stk[u][k] /\ k \in DOMAIN stk2[u]
    BY <1>1, <1>2, <2>2 DEF Like, Covers
  <2>4. QED
    BY <2>2, <2>3 DEF Covered
<1>6. QED
  BY <1>1, <1>2, <1>3, <1>4, <1>5 DEF StacksOK

\* A dispatch whose list gets one more listener.
SeenBy(f, hs, sorted) ==
  IF f.kind = "raise" /\ f.live
  THEN [f EXCEPT !.list = hs[f.event], !.moved = @ \/ f.event \in sorted]
  ELSE f

LEMMA SeenSound ==
  ASSUME NEW hs, NEW m, ListsOK(hs, m), NEW hs2, NEW m2, ListsOK(hs2, m2), m <= m2, NEW sorted,
         \A e \in Events : Added(hs[e], hs2[e], m, m2, e \in sorted),
         NEW f \in RaiseFrames, Sound(f, hs, m)
  PROVE  SeenBy(f, hs2, sorted) \in RaiseFrames /\ Sound(SeenBy(f, hs2, sorted), hs2, m2)
<1> DEFINE old == hs[f.event]
<1> DEFINE new == hs2[f.event]
<1> DEFINE g == SeenBy(f, hs2, sorted)
<1>1. /\ m \in Nat /\ m2 \in Nat /\ old \in Seq(Listeners) /\ new \in Seq(Listeners)
      /\ Ranked(old, m) /\ Ranked(new, m2) /\ f.event \in Events
      /\ Added(old, new, m, m2, f.event \in sorted)
  BY DEF ListsOK, RaiseFrames
<1>2. /\ f.list \in Seq(Listeners) /\ f.at \in Nat /\ f.due \subseteq Nat /\ f.heard \in Seq(Nat)
      /\ f.live \in BOOLEAN /\ f.moved \in BOOLEAN /\ f.kind = "raise"
  BY DEF RaiseFrames
<1>3. /\ f.at \in 1 .. Len(f.list) + 1 /\ f.due \subseteq 0 .. m /\ Ranked(f.list, m)
      /\ f.live => f.list = old
      /\ \A x \in f.due : Has(old, x) => Has(f.list, x)
      /\ \A i \in 1 .. f.at - 1 : f.list[i].eid \in f.due => f.list[i].eid \in ToSet(f.heard)
      /\ ~f.moved => /\ Len(f.heard) = f.at - 1
                     /\ \A i \in 1 .. f.at - 1 : f.heard[i] = f.list[i].eid
  BY DEF Sound
<1>4. f.due \subseteq 0 .. m2
  BY <1>1, <1>3
<1> HIDE DEF old, new
<1>5. ASSUME NEW x \in f.due, Has(new, x) PROVE Has(old, x)
  <2>1. PICK k \in DOMAIN new : new[k].eid = x
    BY <1>5 DEF Has
  <2>2. CASE new = old
    BY <1>5, <2>2
  <2>3. ASSUME NEW p \in 1 .. Len(old) + 1,
               Len(new) = Len(old) + 1, new[p].eid \in m + 1 .. m2,
               \A i \in 1 .. p - 1 : new[i] = old[i],
               \A i \in p + 1 .. Len(old) + 1 : new[i] = old[i - 1]
        PROVE  Has(old, x)
    <3>1. k \in 1 .. Len(old) + 1 /\ k # p /\ DOMAIN old = 1 .. Len(old) /\ Len(old) \in Nat
      BY <1>1, <1>3, <2>1, <2>3
    <3>2. CASE k < p
      <4>1. k \in 1 .. p - 1 /\ k \in DOMAIN old
        BY <3>1, <3>2
      <4>2. QED
        BY <2>1, <2>3, <4>1 DEF Has
    <3>3. CASE k > p
      <4>1. k \in p + 1 .. Len(old) + 1 /\ k - 1 \in DOMAIN old
        BY <3>1, <3>3
      <4>2. QED
        BY <2>1, <2>3, <4>1 DEF Has
    <3>4. QED
      BY <3>1, <3>2, <3>3
  <2>4. QED
    BY <1>1, <2>2, <2>3 DEF Added
<1>6. CASE ~f.live
  <2>1. g = f
    BY <1>6 DEF SeenBy
  <2>2. Ranked(f.list, m2)
    <3>1. \A i \in DOMAIN f.list : f.list[i] \in Listeners
      BY <1>2
    <3>2. \A y \in Listeners : y.eid \in Nat
      BY DEF Listeners
    <3>3. \A i \in DOMAIN f.list : f.list[i].eid <= m2
      BY <1>1, <1>3, <3>1, <3>2 DEF Ranked
    <3>4. QED
      BY <1>3, <3>3 DEF Ranked
  <2>3. Sound(f, hs2, m2)
    BY <1>3, <1>4, <1>5, <1>6, <2>2 DEF Sound, new
  <2>4. QED
    BY <2>1, <2>3
<1>7. CASE f.live
  <2>1. /\ g \in RaiseFrames /\ g.list = new /\ g.moved = (f.moved \/ f.event \in sorted)
        /\ g.at = f.at /\ g.due = f.due /\ g.heard = f.heard /\ g.event = f.event
    <3>1. g = [f EXCEPT !.list = new, !.moved = f.moved \/ f.event \in sorted]
      BY <1>2, <1>7 DEF SeenBy, new
    <3> HIDE DEF g
    <3>2. QED
      BY <1>1, <3>1 DEF RaiseFrames
  <2> HIDE DEF g
  <2>2. f.list = old /\ Len(old) \in Nat /\ Len(new) \in Nat
    BY <1>1, <1>3, <1>7
  <2>3. ASSUME new = old PROVE Sound(g, hs2, m2)
    <3>1. g.list = f.list /\ g.list = hs2[g.event] /\ Ranked(g.list, m2)
      BY <1>1, <2>1, <2>2, <2>3 DEF new
    <3>2. ~g.moved => ~f.moved
      BY <2>1
    <3>3. /\ \A i \in 1 .. g.at - 1 : g.list[i].eid \in g.due => g.list[i].eid \in ToSet(g.heard)
          /\ ~g.moved => /\ Len(g.heard) = g.at - 1
                         /\ \A i \in 1 .. g.at - 1 : g.heard[i] = g.list[i].eid
      BY <1>3, <2>1, <3>1, <3>2
    <3>4. g.at \in 1 .. Len(g.list) + 1 /\ g.due \subseteq 0 .. m2
      BY <1>3, <1>4, <2>1, <3>1
    <3>5. QED
      BY <3>1, <3>3, <3>4 DEF Sound
  <2>4. ASSUME NEW p \in 1 .. Len(old) + 1,
               Len(new) = Len(old) + 1, new[p].eid \in m + 1 .. m2,
               \A i \in 1 .. p - 1 : new[i] = old[i],
               \A i \in p + 1 .. Len(old) + 1 : new[i] = old[i - 1],
               p = Len(old) + 1 \/ f.event \in sorted
        PROVE  Sound(g, hs2, m2)
    <3>1. f.at \in 1 .. Len(new) + 1
      BY <1>3, <2>2, <2>4
    <3>2. ASSUME NEW i \in 1 .. f.at - 1, new[i].eid \in f.due PROVE new[i].eid \in ToSet(f.heard)
      <4>1. i # p /\ i \in 1 .. Len(old) + 1 /\ i \in Nat /\ p \in Nat
        BY <1>1, <1>3, <2>2, <2>4, <3>1, <3>2
      <4>2. CASE i < p
        <5>1. i \in 1 .. p - 1
          BY <4>1, <4>2
        <5>2. QED
          BY <1>3, <2>2, <2>4, <3>2, <5>1
      <4>3. CASE i > p
        <5>1. i \in p + 1 .. Len(old) + 1 /\ i - 1 \in 1 .. f.at - 1
          BY <1>2, <4>1, <4>3
        <5>2. new[i] = f.list[i - 1]
          BY <2>2, <2>4, <5>1
        <5>3. QED
          BY <1>3, <3>2, <5>1, <5>2
      <4>4. QED
        BY <4>1, <4>2, <4>3
    <3>3. ASSUME ~g.moved
          PROVE  Len(f.heard) = f.at - 1 /\ \A i \in 1 .. f.at - 1 : f.heard[i] = new[i].eid
      <4>1. ~f.moved /\ p = Len(old) + 1
        BY <1>2, <2>1, <2>4, <3>3
      <4>2. \A i \in 1 .. f.at - 1 : i \in 1 .. p - 1
        BY <1>3, <2>2, <4>1
      <4>3. QED
        BY <1>3, <2>2, <2>4, <4>1, <4>2
    <3>4. g.due \subseteq 0 .. m2 /\ Ranked(g.list, m2) /\ g.list = hs2[g.event]
      BY <1>1, <1>4, <2>1 DEF new
    <3>5. QED
      BY <2>1, <3>1, <3>2, <3>3, <3>4 DEF Sound
  <2>5. new = old \/ \E p \in 1 .. Len(old) + 1 :
                      /\ Len(new) = Len(old) + 1 /\ new[p].eid \in m + 1 .. m2
                      /\ \A i \in 1 .. p - 1 : new[i] = old[i]
                      /\ \A i \in p + 1 .. Len(old) + 1 : new[i] = old[i - 1]
                      /\ p = Len(old) + 1 \/ f.event \in sorted
    BY <1>1 DEF Added
  <2>6. Sound(g, hs2, m2)
    BY <2>3, <2>4, <2>5, Zenon
  <2>7. g \in RaiseFrames
    BY <2>1
  <2>8. QED
    BY <2>6, <2>7, Zenon DEF g
<1>8. QED
  BY <1>2, <1>6, <1>7

\* The same for all threads.
LEMMA SeenByAll ==
  ASSUME NEW hs, NEW m, ListsOK(hs, m), NEW hs2, NEW m2, ListsOK(hs2, m2), m <= m2, NEW sorted,
         \A e \in Events : Added(hs[e], hs2[e], m, m2, e \in sorted),
         NEW stk, StacksOK(stk, hs, m)
  PROVE  /\ StacksOK(Seen(stk, hs2, sorted), hs2, m2)
         /\ \A x : Covered(stk, x) => Covered(Seen(stk, hs2, sorted), x)
<1> DEFINE stk2 == Seen(stk, hs2, sorted)
<1>1. \A t \in Threads : stk2[t] = [k \in DOMAIN stk[t] |-> SeenBy(stk[t][k], hs2, sorted)]
  BY DEF Seen, SeenBy
<1>2. DOMAIN stk2 = Threads /\ stk2 = [t \in Threads |-> stk2[t]]
  BY DEF Seen
<1> HIDE DEF stk2
<1>3. /\ stk \in [Threads -> Seq(Frames)]
      /\ \A t \in Threads : /\ Nested(stk[t])
                            /\ \A k \in DOMAIN stk[t] : stk[t][k].kind = "raise" => Sound(stk[t][k], hs, m)
  BY DEF StacksOK
<1>4. ASSUME NEW t \in Threads, NEW k \in DOMAIN stk[t]
      PROVE  /\ SeenBy(stk[t][k], hs2, sorted) \in Frames
             /\ Like(stk[t][k], SeenBy(stk[t][k], hs2, sorted))
             /\ stk[t][k].kind = "raise" => Sound(SeenBy(stk[t][k], hs2, sorted), hs2, m2)
  <2> DEFINE f == stk[t][k]
  <2>1. f \in Frames /\ (f.kind = "raise" => Sound(f, hs, m))
    BY <1>3
  <2> HIDE DEF f
  <2>2. CASE f.kind = "raise"
    <3>1. SeenBy(f, hs2, sorted) \in RaiseFrames /\ Sound(SeenBy(f, hs2, sorted), hs2, m2)
      BY <2>1, <2>2, Kinds, SeenSound
    <3>2. SeenBy(f, hs2, sorted) \in Frames /\ SeenBy(f, hs2, sorted).kind = "raise"
      BY <3>1 DEF Frames, RaiseFrames
    <3>3. QED
      BY <2>2, <3>1, <3>2 DEF f, Like
  <2>3. CASE f.kind # "raise"
    BY <2>1, <2>3 DEF f, Like, SeenBy
  <2>4. QED
    BY <2>2, <2>3
<1>5. ASSUME NEW t \in Threads, NEW k \in DOMAIN stk[t]
      PROVE  /\ stk2[t][k] \in Frames /\ Like(stk[t][k], stk2[t][k])
             /\ stk2[t][k].kind = "raise" => Sound(stk2[t][k], hs2, m2)
  <2>1. stk2[t][k] = SeenBy(stk[t][k], hs2, sorted)
    BY <1>1
  <2>2. QED
    BY <1>4, <2>1 DEF Like
<1>6. \A t \in Threads : stk2[t] = [k \in DOMAIN stk[t] |-> stk2[t][k]]
  BY <1>1
<1>7. Adapted(stk, stk2, hs2, m2)
  BY <1>2, <1>5, <1>6 DEF Adapted
<1>8. QED
  BY <1>7, Alike DEF stk2

\* A dispatch whose source puts another list in the place of its own.
ReplacedFor(f, of) == IF f.kind = "raise" /\ f.event \in of THEN [f EXCEPT !.live = FALSE] ELSE f

\* What is unsubscribed, for some or all events, is taken out; the dispatches under way keep it.
LEMMA Unsubscribed ==
  ASSUME NEW hs, NEW m, ListsOK(hs, m), NEW of, of \subseteq Events, NEW eids,
         NEW stk, StacksOK(stk, hs, m)
  PROVE  /\ ListsOK(Unlisted(hs, of, eids), m)
         /\ StacksOK(Replaced(stk, of), Unlisted(hs, of, eids), m)
         /\ \A x : Covered(stk, x) => Covered(Replaced(stk, of), x)
<1> DEFINE hs2 == Unlisted(hs, of, eids)
<1> DEFINE stk2 == Replaced(stk, of)
<1>1. \A t \in Threads : stk2[t] = [k \in DOMAIN stk[t] |-> ReplacedFor(stk[t][k], of)]
  BY DEF Replaced, ReplacedFor
<1>2. DOMAIN stk2 = Threads /\ stk2 = [t \in Threads |-> stk2[t]]
  BY DEF Replaced
<1>3. /\ \A e \in Events : hs2[e] = IF e \in of THEN Without(hs[e], {x \in ToSet(hs[e]) : x.eid \in eids})
                                    ELSE hs[e]
      /\ DOMAIN hs2 = Events /\ hs2 = [e \in Events |-> hs2[e]]
  BY DEF Unlisted
<1> HIDE DEF hs2, stk2
<1>4. m \in Nat /\ \A e \in Events : hs[e] \in Seq(Listeners) /\ Ranked(hs[e], m)
  BY DEF ListsOK
<1>5. ASSUME NEW e \in Events
      PROVE  /\ hs2[e] \in Seq(Listeners) /\ Ranked(hs2[e], m)
             /\ \A x : Has(hs2[e], x) => Has(hs[e], x)
  <2>1. CASE e \in of
    <3>1. hs2[e] = Without(hs[e], {x \in ToSet(hs[e]) : x.eid \in eids})
      BY <1>3, <2>1
    <3>2. QED
      BY <1>4, <3>1, Removed
  <2>2. CASE e \notin of
    BY <1>3, <1>4, <2>2
  <2>3. QED
    BY <2>1, <2>2
<1>6. ListsOK(hs2, m)
  BY <1>3, <1>4, <1>5 DEF ListsOK
<1>7. /\ stk \in [Threads -> Seq(Frames)]
      /\ \A t \in Threads : /\ Nested(stk[t])
                            /\ \A k \in DOMAIN stk[t] : stk[t][k].kind = "raise" => Sound(stk[t][k], hs, m)
  BY DEF StacksOK
<1>8. ASSUME NEW f \in RaiseFrames, Sound(f, hs, m)
      PROVE  ReplacedFor(f, of) \in RaiseFrames /\ Sound(ReplacedFor(f, of), hs2, m)
  <2> DEFINE g == ReplacedFor(f, of)
  <2>1. f.event \in Events /\ f.kind = "raise" /\ \A x : Has(hs2[f.event], x) => Has(hs[f.event], x)
    BY <1>5 DEF RaiseFrames
  <2>2. \A x \in f.due : Has(hs2[f.event], x) => Has(f.list, x)
    BY <1>8, <2>1 DEF Sound
  <2>3. CASE f.event \in of
    <3>1. g = [f EXCEPT !.live = FALSE]
      BY <2>1, <2>3 DEF ReplacedFor
    <3> HIDE DEF g
    <3>2. /\ g \in RaiseFrames /\ ~g.live /\ g.event = f.event /\ g.list = f.list /\ g.at = f.at
          /\ g.due = f.due /\ g.heard = f.heard /\ g.moved = f.moved
      BY <3>1 DEF RaiseFrames
    <3>3. Sound(g, hs2, m)
      BY <1>8, <2>2, <3>2 DEF Sound
    <3>4. QED
      BY <3>2, <3>3 DEF g
  <2>4. CASE f.event \notin of
    <3>1. g = f /\ hs2[f.event] = hs[f.event]
      BY <1>3, <2>1, <2>4 DEF ReplacedFor
    <3> HIDE DEF g
    <3>2. Sound(f, hs2, m)
      BY <1>8, <3>1 DEF Sound
    <3>3. QED
      BY <3>1, <3>2 DEF g
  <2>5. QED
    BY <2>3, <2>4
<1>9. ASSUME NEW t \in Threads, NEW k \in DOMAIN stk[t]
      PROVE  /\ ReplacedFor(stk[t][k], of) \in Frames
             /\ Like(stk[t][k], ReplacedFor(stk[t][k], of))
             /\ stk[t][k].kind = "raise" => Sound(ReplacedFor(stk[t][k], of), hs2, m)
  <2> DEFINE f == stk[t][k]
  <2>1. f \in Frames /\ (f.kind = "raise" => Sound(f, hs, m))
    BY <1>7
  <2> HIDE DEF f
  <2>2. CASE f.kind = "raise"
    <3>1. ReplacedFor(f, of) \in RaiseFrames /\ Sound(ReplacedFor(f, of), hs2, m)
      BY <1>8, <2>1, <2>2, Kinds
    <3>2. ReplacedFor(f, of) \in Frames /\ ReplacedFor(f, of).kind = "raise"
      BY <3>1 DEF Frames, RaiseFrames
    <3>3. QED
      BY <2>2, <3>1, <3>2 DEF f, Like
  <2>3. CASE f.kind # "raise"
    BY <2>1, <2>3 DEF f, Like, ReplacedFor
  <2>4. QED
    BY <2>2, <2>3
<1>10. ASSUME NEW t \in Threads, NEW k \in DOMAIN stk[t]
       PROVE  /\ stk2[t][k] \in Frames /\ Like(stk[t][k], stk2[t][k])
              /\ stk2[t][k].kind = "raise" => Sound(stk2[t][k], hs2, m)
  <2>1. stk2[t][k] = ReplacedFor(stk[t][k], of)
    BY <1>1
  <2>2. QED
    BY <1>9, <2>1 DEF Like
<1>11. \A t \in Threads : stk2[t] = [k \in DOMAIN stk[t] |-> stk2[t][k]]
  BY <1>1
<1>12. Adapted(stk, stk2, hs2, m)
  BY <1>2, <1>10, <1>11 DEF Adapted
<1>13. QED
  BY <1>6, <1>12, Alike DEF hs2, stk2

(* --------------------------------- steps -------------------------------- *)
\* A step that changes no list, in which thread t returns from the calls above the first n and
\* makes those of "more": it leaves nobody who is ready without one that covers him, or cut is set.
LEMMA Step ==
  ASSUME Orderly, NEW t \in Threads, NEW n \in 0 .. Len(stack[t]), NEW more \in Seq(Frames),
         Fits(stack[t], n, more),
         \A k \in DOMAIN more : more[k].kind = "raise" => Sound(more[k], handlers, made),
         stack' = Turn(stack, t, n, more), UNCHANGED <<handlers, made, calls>>,
         components \subseteq components', waiters' \in Seq(Sinks),
         \A s \in ToSet(waiters') : s \in ToSet(waiters) \/ calls[s] = 0,
         \A s \in ToSet(waiters') : ~cut' /\ Ready(s)' =>
           \/ \E k \in DOMAIN more : Covers(more[k], s)
           \/ /\ ~cut /\ s \in ToSet(waiters) /\ Ready(s)
              /\ \A i \in n + 1 .. Len(stack[t]) : ~Covers(stack[t][i], s)
  PROVE  Orderly'
<1>1. ListsOK(handlers, made) /\ StacksOK(stack, handlers, made) /\ Waiting
  BY DEF Orderly
<1>2. stack \in [Threads -> Seq(Frames)]
  BY <1>1 DEF StacksOK
<1>3. StacksOK(Turn(stack, t, n, more), handlers, made)
  BY <1>1, Turned
<1>4. ListsOK(handlers', made') /\ StacksOK(stack', handlers', made')
  BY <1>1, <1>3
<1>5. ASSUME NEW s \in Sinks, calls'[s] = 1 PROVE Ready(s)' /\ s \notin ToSet(waiters')
  BY <1>1, <1>5 DEF Waiting, Ready
<1>6. ASSUME ~cut', NEW s \in ToSet(waiters'), Ready(s)' PROVE Covered(stack', s)
  <2>1. \/ \E k \in DOMAIN more : Covers(more[k], s)
        \/ /\ Covered(stack, s)
           /\ \A i \in n + 1 .. Len(stack[t]) : ~Covers(stack[t][i], s)
    BY <1>1, <1>6 DEF Waiting
  <2>2. Covered(Turn(stack, t, n, more), s)
    BY <1>2, <2>1, Lasting
  <2>3. QED
    BY <2>2
<1>7. Waiting'
  BY <1>1, <1>5, <1>6 DEF Waiting
<1>8. QED
  BY <1>4, <1>7 DEF Orderly

\* One or two frames that may be put on the first n of a stack.
Good(f) ==
  /\ f \in Frames /\ f.kind # "failed" /\ (f.kind = "call" => f.entry.eid = 0)
  /\ f.kind = "raise" => Sound(f, handlers, made)
Sane(s, n) == \A i \in 1 .. n : s[i].kind # "failed"

LEMMA GoodOnes ==
  ASSUME NEW s, NEW n \in Nat, Sane(s, n), NEW f, Good(f)
  PROVE  /\ <<f>> \in Seq(Frames) /\ Fits(s, n, <<f>>)
         /\ \A k \in DOMAIN <<f>> : <<f>>[k].kind = "raise" => Sound(<<f>>[k], handlers, made)
         /\ \A x : Covers(f, x) => \E k \in DOMAIN <<f>> : Covers(<<f>>[k], x)
<1> DEFINE more == <<f>>
<1>1. f \in Frames
  BY DEF Good
<1>2. more \in Seq(Frames) /\ DOMAIN more = {1} /\ more[1] = f
  BY <1>1
<1> HIDE DEF more
<1>3. Fits(s, n, more)
  BY <1>2 DEF Fits, Sane, Good
<1>4. \A k \in DOMAIN more : more[k].kind = "raise" => Sound(more[k], handlers, made)
  BY <1>2 DEF Good
<1>5. \A x : Covers(f, x) => \E k \in DOMAIN more : Covers(more[k], x)
  BY <1>2
<1>6. QED
  BY <1>2, <1>3, <1>4, <1>5 DEF more

LEMMA GoodPairs ==
  ASSUME NEW s, NEW n \in Nat, Sane(s, n), NEW f, Good(f), NEW g,
         Good(g) \/ (f.kind = "raise" /\ g \in CallFrames)
  PROVE  /\ <<f, g>> \in Seq(Frames) /\ Fits(s, n, <<f, g>>)
         /\ \A k \in DOMAIN <<f, g>> : <<f, g>>[k].kind = "raise" => Sound(<<f, g>>[k], handlers, made)
         /\ \A x : Covers(f, x) => \E k \in DOMAIN <<f, g>> : Covers(<<f, g>>[k], x)
<1> DEFINE more == <<f, g>>
<1>1. f \in Frames /\ g \in Frames /\ g.kind # "failed"
  BY Kinds DEF Good, Frames, CallFrames
<1>2. more \in Seq(Frames) /\ DOMAIN more = {1, 2} /\ more[1] = f /\ more[2] = g
  BY <1>1
<1>3. g.kind = "raise" => Good(g)
  BY DEF CallFrames
<1>4. g.kind = "call" /\ g.entry.eid # 0 => f.kind = "raise"
  BY DEF Good
<1> HIDE DEF more
<1>5. Fits(s, n, more)
  <2>1. \A k \in DOMAIN more : more[k].kind # "failed"
    BY <1>1, <1>2 DEF Good
  <2>2. \A k \in DOMAIN more : more[k].kind = "call" /\ more[k].entry.eid # 0
                                 => k > 1 /\ more[k - 1].kind = "raise"
    BY <1>2, <1>4 DEF Good
  <2>3. QED
    BY <2>1, <2>2 DEF Fits, Sane
<1>6. \A k \in DOMAIN more : more[k].kind = "raise" => Sound(more[k], handlers, made)
  BY <1>2, <1>3 DEF Good
<1>7. \A x : Covers(f, x) => \E k \in DOMAIN more : Covers(more[k], x)
  BY <1>2
<1>8. QED
  BY <1>2, <1>5, <1>6, <1>7 DEF more

\* The stack of a thread that is inside of a call.
LEMMA Inside_ ==
  ASSUME StacksOK(stack, handlers, made), NEW t \in Threads, Busy(t)
  PROVE  /\ stack[t] \in Seq(Frames) /\ Len(stack[t]) \in Nat \ {0} /\ DOMAIN stack[t] = 1 .. Len(stack[t])
         /\ Top(t) = stack[t][Len(stack[t])] /\ Top(t) \in Frames
         /\ Below(t) = SubSeq(stack[t], 1, Len(stack[t]) - 1)
         /\ Below(t) \in Seq(Frames) /\ Len(Below(t)) = Len(stack[t]) - 1
         /\ Top(t).kind = "raise" => Sound(Top(t), handlers, made)
         /\ Top(t).kind # "failed" => Sane(stack[t], Len(stack[t])) /\ Sane(stack[t], Len(stack[t]) - 1)
         /\ InHandler(t) => Len(stack[t]) > 1 /\ stack[t][Len(stack[t]) - 1].kind = "raise"
<1> DEFINE s == stack[t]
<1>1. /\ s \in Seq(Frames) /\ s # <<>> /\ Nested(s)
      /\ \A k \in DOMAIN s : s[k].kind = "raise" => Sound(s[k], handlers, made)
      /\ Top(t) = s[Len(s)] /\ Below(t) = SubSeq(s, 1, Len(s) - 1)
      /\ InHandler(t) => Top(t).kind = "call" /\ Top(t).entry.eid # 0
  BY DEF StacksOK, Busy, Top, Last, Below, Front, InHandler, At
<1> HIDE DEF s
<1>2. Len(s) \in Nat \ {0} /\ DOMAIN s = 1 .. Len(s) /\ Len(s) \in DOMAIN s
  BY <1>1
<1>3. Top(t) \in Frames
  BY <1>1, <1>2
<1>4. Below(t) \in Seq(Frames) /\ Len(Below(t)) = Len(s) - 1
  BY <1>1, <1>2
<1>5. ASSUME Top(t).kind # "failed" PROVE Sane(s, Len(s)) /\ Sane(s, Len(s) - 1)
  BY <1>1, <1>2, <1>5 DEF Nested, Sane
<1>6. InHandler(t) => Len(s) > 1 /\ s[Len(s) - 1].kind = "raise"
  BY <1>1, <1>2 DEF Nested
<1>7. QED
  BY <1>1, <1>2, <1>3, <1>4, <1>5, <1>6 DEF s

\* The ways the steps change a stack.
LEMMA Forms ==
  ASSUME StacksOK(stack, handlers, made), NEW t \in Threads, NEW f \in Frames, NEW g \in Frames
  PROVE  /\ Push(t, f) = Turn(stack, t, Len(stack[t]), <<f>>)
         /\ [stack EXCEPT ![t] = @ \o <<f, g>>] = Turn(stack, t, Len(stack[t]), <<f, g>>)
         /\ Busy(t) =>
              /\ [stack EXCEPT ![t] = Below(t)] = Turn(stack, t, Len(stack[t]) - 1, <<>>)
              /\ OnTop(t, f) = Turn(stack, t, Len(stack[t]) - 1, <<f>>)
              /\ [stack EXCEPT ![t] = Below(t) \o <<f, g>>] = Turn(stack, t, Len(stack[t]) - 1, <<f, g>>)
              /\ [stack EXCEPT ![t] = Append(Append(Below(t), f), g)] =
                   Turn(stack, t, Len(stack[t]) - 1, <<f, g>>)
<1>1. stack[t] \in Seq(Frames)
  BY DEF StacksOK
<1>2. ASSUME NEW s \in Seq(Frames)
      PROVE  /\ Append(s, f) = SubSeq(s, 1, Len(s)) \o <<f>>
             /\ s \o <<f, g>> = SubSeq(s, 1, Len(s)) \o <<f, g>>
             /\ Append(Append(s, f), g) = s \o <<f, g>>
  <2>1. SubSeq(s, 1, Len(s)) = s /\ Append(s, f) = s \o <<f>>
    BY Ends
  <2>2. Append(Append(s, f), g) = s \o <<f, g>>
    BY Ends
  <2>3. QED
    BY <2>1, <2>2
<1>3. Push(t, f) = Turn(stack, t, Len(stack[t]), <<f>>)
  BY <1>1, <1>2 DEF Push, Turn
<1>4. [stack EXCEPT ![t] = @ \o <<f, g>>] = Turn(stack, t, Len(stack[t]), <<f, g>>)
  BY <1>1, <1>2 DEF Turn
<1>5. ASSUME Busy(t)
      PROVE  /\ [stack EXCEPT ![t] = Below(t)] = Turn(stack, t, Len(stack[t]) - 1, <<>>)
             /\ OnTop(t, f) = Turn(stack, t, Len(stack[t]) - 1, <<f>>)
             /\ [stack EXCEPT ![t] = Below(t) \o <<f, g>>] = Turn(stack, t, Len(stack[t]) - 1, <<f, g>>)
             /\ [stack EXCEPT ![t] = Append(Append(Below(t), f), g)] =
                  Turn(stack, t, Len(stack[t]) - 1, <<f, g>>)
  <2> DEFINE b == Below(t)
  <2>1. b \in Seq(Frames) /\ b = SubSeq(stack[t], 1, Len(stack[t]) - 1)
    BY <1>5, Inside_
  <2> HIDE DEF b
  <2>2. b \o <<>> = b /\ Append(b, f) = b \o <<f>>
    BY <2>1
  <2>3. Append(Append(b, f), g) = b \o <<f, g>>
    BY <1>2, <2>1
  <2>4. [stack EXCEPT ![t] = b] = Turn(stack, t, Len(stack[t]) - 1, <<>>)
    BY <2>1, <2>2 DEF Turn
  <2>5. OnTop(t, f) = Turn(stack, t, Len(stack[t]) - 1, <<f>>)
    BY <2>1, <2>2 DEF Turn, OnTop, b
  <2>6. [stack EXCEPT ![t] = b \o <<f, g>>] = Turn(stack, t, Len(stack[t]) - 1, <<f, g>>)
    BY <2>1 DEF Turn
  <2>7. [stack EXCEPT ![t] = Append(Append(b, f), g)] = Turn(stack, t, Len(stack[t]) - 1, <<f, g>>)
    BY <2>3, <2>6
  <2>8. QED
    BY <2>4, <2>5, <2>6, <2>7 DEF b
<1>6. QED
  BY <1>3, <1>4, <1>5

\* Two frames in the place of the top.
LEMMA Replacing ==
  ASSUME StacksOK(stack, handlers, made), NEW t \in Threads, Busy(t), NEW f, NEW g
  PROVE  [stack EXCEPT ![t] = Below(t) \o <<f, g>>] = Turn(stack, t, Len(stack[t]) - 1, <<f, g>>)
<1>1. Below(t) = SubSeq(stack[t], 1, Len(stack[t]) - 1)
  BY Inside_
<1>2. QED
  BY <1>1 DEF Turn

\* Steps that change neither the lists nor who waits, and return from no call that tries, unless
\* they cut it short.
Left(t, n) == \A i \in n + 1 .. Len(stack[t]) : stack[t][i].kind # "tries"
LEMMA Returns ==
  ASSUME Orderly, NEW t \in Threads, NEW n \in 0 .. Len(stack[t]), ~cut' => ~cut /\ Left(t, n),
         stack' = Turn(stack, t, n, <<>>), UNCHANGED <<handlers, made, calls, components, waiters>>
  PROVE  Orderly'
<1> DEFINE more == <<>>
<1>1. more \in Seq(Frames) /\ DOMAIN more = {} /\ stack' = Turn(stack, t, n, more) /\ more = <<>>
  OBVIOUS
<1> HIDE DEF more
<1>2. Fits(stack[t], n, more)
  BY <1>1 DEF Fits
<1>3. /\ waiters' \in Seq(Sinks) /\ components \subseteq components'
      /\ \A s \in ToSet(waiters') : s \in ToSet(waiters)
  BY DEF Orderly, Waiting
<1>4. \A s : Ready(s)' => Ready(s)
  BY DEF Ready
<1>5. ~cut' => ~cut /\ \A i \in n + 1 .. Len(stack[t]) : \A s : ~Covers(stack[t][i], s)
  BY DEF Left, Covers
<1>6. QED
  BY <1>1, <1>2, <1>3, <1>4, <1>5, Step

LEMMA Makes ==
  ASSUME Orderly, NEW t \in Threads, NEW n \in 0 .. Len(stack[t]), Left(t, n), Sane(stack[t], n),
         NEW f, Good(f), stack' = Turn(stack, t, n, <<f>>),
         UNCHANGED <<handlers, made, calls, cut, components, waiters>>
  PROVE  Orderly'
<1> DEFINE more == <<f>>
<1>1. /\ more \in Seq(Frames) /\ Fits(stack[t], n, more)
      /\ \A k \in DOMAIN more : more[k].kind = "raise" => Sound(more[k], handlers, made)
      /\ stack' = Turn(stack, t, n, more)
  <2>1. n \in Nat
    OBVIOUS
  <2>2. QED
    BY <2>1, GoodOnes
<1> HIDE DEF more
<1>2. /\ waiters' \in Seq(Sinks) /\ components \subseteq components'
      /\ \A s \in ToSet(waiters') : s \in ToSet(waiters)
  BY DEF Orderly, Waiting
<1>3. \A s : Ready(s)' => Ready(s)
  BY DEF Ready
<1>4. \A i \in n + 1 .. Len(stack[t]) : \A s : ~Covers(stack[t][i], s)
  BY DEF Left, Covers
<1>5. QED
  BY <1>1, <1>2, <1>3, <1>4, Step

LEMMA MakesTwo ==
  ASSUME Orderly, NEW t \in Threads, NEW n \in 0 .. Len(stack[t]), Left(t, n), Sane(stack[t], n),
         NEW f, Good(f), NEW g, Good(g) \/ (f.kind = "raise" /\ g \in CallFrames),
         stack' = Turn(stack, t, n, <<f, g>>),
         UNCHANGED <<handlers, made, calls, cut, components, waiters>>
  PROVE  Orderly'
<1> DEFINE more == <<f, g>>
<1>1. /\ more \in Seq(Frames) /\ Fits(stack[t], n, more)
      /\ \A k \in DOMAIN more : more[k].kind = "raise" => Sound(more[k], handlers, made)
      /\ stack' = Turn(stack, t, n, more)
  <2>1. n \in Nat
    OBVIOUS
  <2>2. QED
    BY <2>1, GoodPairs
<1> HIDE DEF more
<1>2. /\ waiters' \in Seq(Sinks) /\ components \subseteq components'
      /\ \A s \in ToSet(waiters') : s \in ToSet(waiters)
  BY DEF Orderly, Waiting
<1>3. \A s : Ready(s)' => Ready(s)
  BY DEF Ready
<1>4. \A i \in n + 1 .. Len(stack[t]) : \A s : ~Covers(stack[t][i], s)
  BY DEF Left, Covers
<1>5. QED
  BY <1>1, <1>2, <1>3, <1>4, Step

\* Steps that change no list, no stack and nothing about those who wait.
LEMMA Rests ==
  ASSUME Orderly, UNCHANGED <<handlers, made, stack, calls, cut, components, waiters>>
  PROVE  Orderly'
<1>1. ListsOK(handlers', made') /\ StacksOK(stack', handlers', made')
  BY DEF Orderly
<1>2. Waiting'
  BY DEF Orderly, Waiting, Ready
<1>3. QED
  BY <1>1, <1>2 DEF Orderly

\* The frames that are put on stacks.
LEMMA Frames_ ==
  ASSUME Orderly
  PROVE  /\ \A e \in Events, guarded \in BOOLEAN : Good(Raise(e, guarded))
         /\ \A who \in Handlers \union Sinks \union Components : Good(Call(who, NoEntry))
         /\ \A entries \in Seq(Sinks), loop \in BOOLEAN : Good(Tries(entries, loop))
         /\ \A pc \in {"check", "down", "later", "notify"} : Good(Quitting(pc))
<1>1. ASSUME NEW e \in Events, NEW guarded \in BOOLEAN PROVE Good(Raise(e, guarded))
  <2> DEFINE f == Raise(e, guarded)
  <2>1. made \in Nat /\ handlers[e] \in Seq(Listeners) /\ Ranked(handlers[e], made)
    BY DEF Orderly, ListsOK
  <2>2. \A y \in ToSet(handlers[e]) : y.eid \in 0 .. made
    <3>1. \A y \in Listeners : y.eid \in Nat
      BY DEF Listeners
    <3>2. ASSUME NEW i \in DOMAIN handlers[e] PROVE handlers[e][i].eid \in 0 .. made
      <4>1. handlers[e][i] \in Listeners /\ handlers[e][i].eid <= made
        BY <2>1 DEF Ranked
      <4>2. QED
        BY <2>1, <3>1, <4>1
    <3>3. QED
      BY <3>2 DEF ToSet
  <2>3. /\ f.kind = "raise" /\ f.event = e /\ f.guarded = guarded /\ f.list = handlers[e] /\ f.at = 1
        /\ f.live = TRUE /\ f.heard = <<>> /\ f.moved = FALSE /\ f.due \subseteq 0 .. made
    BY <2>2 DEF Raise
  <2>4. f \in RaiseFrames
    BY <2>1, <2>2 DEF Raise, RaiseFrames
  <2> HIDE DEF f
  <2>5. Len(handlers[e]) \in Nat /\ Len(f.heard) = 0 /\ 1 .. f.at - 1 = {}
    BY <2>1, <2>3
  <2>6. Sound(f, handlers, made)
    BY <2>1, <2>3, <2>5 DEF Sound
  <2>7. QED
    BY <2>3, <2>4, <2>6 DEF Good, Frames, f
<1>2. ASSUME NEW who \in Handlers \union Sinks \union Components PROVE Good(Call(who, NoEntry))
  <2>1. Call(who, NoEntry) \in CallFrames
    BY DEF Call, CallFrames
  <2>2. Call(who, NoEntry).kind = "call" /\ Call(who, NoEntry).entry.eid = 0
    BY DEF Call, NoEntry
  <2>3. QED
    BY <2>1, <2>2 DEF Good, Frames
<1>3. ASSUME NEW entries \in Seq(Sinks), NEW loop \in BOOLEAN PROVE Good(Tries(entries, loop))
  BY DEF Tries, TriesFrames, Frames, Good
<1>4. ASSUME NEW pc \in {"check", "down", "later", "notify"} PROVE Good(Quitting(pc))
  BY DEF Quitting, QuitFrames, Frames, Good
<1>5. QED
  BY <1>1, <1>2, <1>3, <1>4

(* -------------------------------- actions ------------------------------- *)
\* The next listener is called.
LEMMA FetchKeeps ==
  ASSUME Orderly, NEW t \in Threads, Fetch(t), UNCHANGED coreVars
  PROVE  Orderly'
<1> DEFINE n == Len(stack[t]) - 1
<1> DEFINE f == Top(t)
<1> DEFINE entry == f.list[f.at]
<1> DEFINE next == [f EXCEPT !.at = @ + 1, !.heard = Append(@, entry.eid)]
<1> DEFINE call == Call(entry.handler, entry)
<1>1. Busy(t) /\ f.kind = "raise" /\ f.at <= Len(f.list) /\ StacksOK(stack, handlers, made)
  BY DEF Fetch, At, Orderly
<1>2. /\ f \in RaiseFrames /\ Sound(f, handlers, made) /\ Sane(stack[t], n)
      /\ n \in 0 .. Len(stack[t]) /\ Left(t, n)
  <2>1. /\ f \in Frames /\ Len(stack[t]) \in Nat \ {0} /\ Sound(f, handlers, made)
        /\ Sane(stack[t], n) /\ f = stack[t][Len(stack[t])]
    BY <1>1, Inside_
  <2>2. \A i \in n + 1 .. Len(stack[t]) : i = Len(stack[t])
    BY <2>1
  <2>3. QED
    BY <1>1, <2>1, <2>2, Kinds DEF Left
<1>3. \/ stack' = [stack EXCEPT ![t] = Append(Below(t), next)]
      \/ stack' = [stack EXCEPT ![t] = Append(Append(Below(t), next), call)]
  BY DEF Fetch
<1>4. UNCHANGED <<handlers, made, calls, cut, components, waiters>>
  BY DEF Fetch, coreVars
<1> HIDE DEF f, n
<1>5. /\ f.list \in Seq(Listeners) /\ f.at \in Nat /\ f.due \subseteq Nat /\ f.heard \in Seq(Nat)
      /\ f.moved \in BOOLEAN /\ f.event \in Events /\ f.kind = "raise"
  BY <1>2 DEF RaiseFrames
<1>6. f.at \in 1 .. Len(f.list) /\ entry \in Listeners /\ entry.eid \in Nat
  <2>1. f.at \in 1 .. Len(f.list)
    BY <1>1, <1>2, <1>5 DEF Sound
  <2>2. entry \in Listeners
    BY <1>5, <2>1
  <2>3. QED
    BY <2>1, <2>2 DEF Listeners
<1>7. /\ next \in RaiseFrames /\ next.kind = "raise" /\ next.list = f.list /\ next.at = f.at + 1
      /\ next.heard = Append(f.heard, entry.eid) /\ next.due = f.due /\ next.moved = f.moved
      /\ next.live = f.live /\ next.event = f.event
  <2> HIDE DEF entry
  <2>1. f.at + 1 \in Nat /\ Append(f.heard, entry.eid) \in Seq(Nat)
    BY <1>5, <1>6
  <2>2. QED
    BY <1>2, <2>1 DEF RaiseFrames
<1>8. call \in CallFrames
  BY <1>6 DEF Call, CallFrames, Listeners
<1> HIDE DEF next, call
<1>9. Sound(next, handlers, made)
  <2> DEFINE heard == Append(f.heard, entry.eid)
  <2>1. /\ Len(heard) = Len(f.heard) + 1 /\ heard[Len(f.heard) + 1] = entry.eid
        /\ \A i \in 1 .. Len(f.heard) : heard[i] = f.heard[i]
        /\ DOMAIN heard = 1 .. Len(f.heard) + 1 /\ DOMAIN f.heard = 1 .. Len(f.heard) /\ Len(f.heard) \in Nat
    BY <1>5, <1>6
  <2> HIDE DEF heard
  <2>2. ToSet(f.heard) \subseteq ToSet(heard) /\ entry.eid \in ToSet(heard)
    <3>1. entry.eid \in ToSet(heard)
      BY <2>1 DEF ToSet
    <3>2. \A i \in DOMAIN f.heard : i \in DOMAIN heard /\ heard[i] = f.heard[i]
      BY <2>1
    <3>3. QED
      BY <3>1, <3>2 DEF ToSet
  <2>3. ASSUME NEW i \in 1 .. f.at, f.list[i].eid \in f.due PROVE f.list[i].eid \in ToSet(heard)
    <3>1. CASE i = f.at
      BY <2>2, <3>1
    <3>2. CASE i # f.at
      <4>1. i \in 1 .. f.at - 1
        BY <1>5, <3>2
      <4>2. f.list[i].eid \in ToSet(f.heard)
        BY <1>2, <2>3, <4>1 DEF Sound
      <4>3. QED
        BY <2>2, <4>2
    <3>3. QED
      BY <3>1, <3>2
  <2>4. ASSUME ~f.moved
        PROVE  Len(heard) = f.at /\ \A i \in 1 .. f.at : heard[i] = f.list[i].eid
    <3>1. Len(f.heard) = f.at - 1 /\ \A i \in 1 .. f.at - 1 : f.heard[i] = f.list[i].eid
      BY <1>2, <2>4 DEF Sound
    <3>2. \A i \in 1 .. f.at : i = f.at \/ i \in 1 .. f.at - 1
      BY <1>5
    <3>3. Len(heard) = f.at
      BY <1>5, <2>1, <3>1
    <3>4. heard[f.at] = entry.eid
      BY <1>5, <2>1, <3>1
    <3>5. \A i \in 1 .. f.at - 1 : heard[i] = f.list[i].eid
      BY <2>1, <3>1
    <3>6. QED
      BY <3>2, <3>3, <3>4, <3>5
  <2>5. next.heard = heard /\ next.at - 1 = f.at /\ next.at \in 1 .. Len(next.list) + 1
    BY <1>5, <1>6, <1>7 DEF heard
  <2>6. \A i \in 1 .. next.at - 1 : next.list[i].eid \in next.due => next.list[i].eid \in ToSet(next.heard)
    BY <1>7, <2>3, <2>5
  <2>7. ~next.moved => /\ Len(next.heard) = next.at - 1
                       /\ \A i \in 1 .. next.at - 1 : next.heard[i] = next.list[i].eid
    BY <1>7, <2>4, <2>5
  <2>8. /\ next.due \subseteq 0 .. made /\ Ranked(next.list, made)
        /\ next.live => next.list = handlers[next.event]
        /\ \A x \in next.due : Has(handlers[next.event], x) => Has(next.list, x)
    BY <1>2, <1>7 DEF Sound
  <2>9. QED
    BY <2>5, <2>6, <2>7, <2>8 DEF Sound
<1>10. Good(next)
  BY <1>7, <1>9 DEF Good, Frames
<1>11. CASE stack' = [stack EXCEPT ![t] = Append(Below(t), next)]
  <2>1. stack' = Turn(stack, t, n, <<next>>)
    BY <1>1, <1>10, <1>11, Forms DEF Good, OnTop, n
  <2>2. QED
    BY <1>2, <1>4, <1>10, <2>1, Makes
<1>12. CASE stack' = [stack EXCEPT ![t] = Append(Append(Below(t), next), call)]
  <2>1. next \in Frames /\ call \in Frames
    BY <1>8, <1>10 DEF Good, Frames
  <2>2. stack' = Turn(stack, t, n, <<next, call>>)
    BY <1>1, <1>12, <2>1, Forms DEF n
  <2>3. QED
    BY <1>2, <1>4, <1>7, <1>8, <1>10, <2>2, MakesTwo
<1>13. QED
  BY <1>3, <1>11, <1>12

\* A thread returns from the call it is inside of, which is not one that tries.
LEMMA ReturnKeeps ==
  ASSUME Orderly, NEW t \in Threads, Busy(t), Top(t).kind # "tries",
         stack' = [stack EXCEPT ![t] = Below(t)],
         UNCHANGED <<handlers, made, calls, cut, components, waiters>>
  PROVE  Orderly'
<1> DEFINE n == Len(stack[t]) - 1
<1>1. StacksOK(stack, handlers, made)
  BY DEF Orderly
<1>2. Len(stack[t]) \in Nat \ {0} /\ Top(t) = stack[t][Len(stack[t])] /\ Top(t) \in Frames
  BY <1>1, Inside_
<1>3. n \in 0 .. Len(stack[t]) /\ \A i \in n + 1 .. Len(stack[t]) : i = Len(stack[t])
  BY <1>2
<1>4. Left(t, n)
  BY <1>2, <1>3 DEF Left
<1>5. stack' = Turn(stack, t, n, <<>>)
  BY <1>1, <1>2, Forms
<1>6. QED
  BY <1>3, <1>4, <1>5, Returns

\* A thread makes another call, or one in the place of the one it returns from.
LEMMA PushKeeps ==
  ASSUME Orderly, NEW t \in Threads, ~Busy(t) \/ Top(t).kind # "failed", NEW f, Good(f),
         \/ stack' = Push(t, f)
         \/ Busy(t) /\ Top(t).kind # "tries" /\ stack' = OnTop(t, f),
         UNCHANGED <<handlers, made, calls, cut, components, waiters>>
  PROVE  Orderly'
<1>1. StacksOK(stack, handlers, made) /\ f \in Frames /\ stack[t] \in Seq(Frames)
  BY DEF Orderly, Good, StacksOK
<1>2. Sane(stack[t], Len(stack[t]))
  <2>1. CASE Busy(t)
    BY <1>1, <2>1, Inside_
  <2>2. CASE ~Busy(t)
    <3>1. Len(stack[t]) = 0
      BY <2>2 DEF Busy
    <3>2. QED
      BY <3>1 DEF Sane
  <2>3. QED
    BY <2>1, <2>2
<1>3. CASE stack' = Push(t, f)
  <2>1. Len(stack[t]) \in 0 .. Len(stack[t]) /\ Left(t, Len(stack[t]))
    BY <1>1 DEF Left
  <2>2. stack' = Turn(stack, t, Len(stack[t]), <<f>>)
    BY <1>1, <1>3, Forms
  <2>3. QED
    BY <1>2, <2>1, <2>2, Makes
<1>4. CASE Busy(t) /\ Top(t).kind # "tries" /\ stack' = OnTop(t, f)
  <2> DEFINE n == Len(stack[t]) - 1
  <2>1. Len(stack[t]) \in Nat \ {0} /\ Top(t) = stack[t][Len(stack[t])] /\ Sane(stack[t], n)
    BY <1>1, <1>4, Inside_
  <2>2. n \in 0 .. Len(stack[t]) /\ \A i \in n + 1 .. Len(stack[t]) : i = Len(stack[t])
    BY <2>1
  <2>3. Left(t, n)
    BY <1>4, <2>1, <2>2 DEF Left
  <2>4. stack' = Turn(stack, t, n, <<f>>)
    BY <1>1, <1>4, Forms
  <2>5. QED
    BY <2>1, <2>2, <2>3, <2>4, Makes
<1>5. QED
  BY <1>3, <1>4

\* Listeners are removed, and the thread has returned from calls that cover nobody.
LEMMA RemovalKeeps ==
  ASSUME Orderly, NEW stk, StacksOK(stk, handlers, made), \A x : Covered(stack, x) => Covered(stk, x),
         NEW of, of \subseteq Events, NEW eids,
         handlers' = Unlisted(handlers, of, eids), stack' = Replaced(stk, of),
         UNCHANGED <<made, calls, cut, components, waiters>>
  PROVE  Orderly'
<1>1. ListsOK(handlers, made) /\ Waiting
  BY DEF Orderly
<1>2. /\ ListsOK(Unlisted(handlers, of, eids), made)
      /\ StacksOK(Replaced(stk, of), Unlisted(handlers, of, eids), made)
      /\ \A x : Covered(stk, x) => Covered(Replaced(stk, of), x)
  BY <1>1, Unsubscribed
<1>3. ListsOK(handlers', made') /\ StacksOK(stack', handlers', made')
  BY <1>2
<1>4. \A x : Covered(stack, x) => Covered(stack', x)
  BY <1>2
<1>5. Waiting'
  BY <1>1, <1>4 DEF Waiting, Ready
<1>6. QED
  BY <1>3, <1>5 DEF Orderly

\* A listener has returned.
LEMMA AnswerKeeps ==
  ASSUME Orderly, NEW t \in Threads, NEW halt \in BOOLEAN, NEW remove \in BOOLEAN,
         Answer(t, halt, remove), UNCHANGED coreVars
  PROVE  Orderly'
<1> DEFINE s == stack[t]
<1> DEFINE n == IF halt THEN Len(s) - 2 ELSE Len(s) - 1
<1> DEFINE stk == [stack EXCEPT ![t] = IF halt THEN Front(Below(t)) ELSE Below(t)]
<1>1. StacksOK(stack, handlers, made) /\ InHandler(t) /\ Busy(t) /\ Top(t).kind = "call"
  BY DEF Orderly, Answer, InHandler, At
<1>2. /\ s \in Seq(Frames) /\ Len(s) \in Nat /\ Len(s) > 1 /\ s[Len(s)].kind = "call"
      /\ s[Len(s) - 1].kind = "raise"
      /\ Below(t) = SubSeq(s, 1, Len(s) - 1) /\ Len(Below(t)) = Len(s) - 1
  BY <1>1, Inside_
<1>3. UNCHANGED <<made, calls, cut, components, waiters>>
  BY DEF Answer, coreVars
<1>4. \/ \E eid : removeEID(eid, stk)
      \/ stack' = stk /\ UNCHANGED handlers
  BY DEF Answer
<1>5. n \in 0 .. Len(s) /\ \A i \in n + 1 .. Len(s) : i = Len(s) \/ i = Len(s) - 1
  BY <1>2
<1>6. \A i \in n + 1 .. Len(s) : s[i].kind # "tries"
  BY <1>2, <1>5
<1>7. stk = Turn(stack, t, n, <<>>)
  <2>1. CASE halt
    <3>1. Front(Below(t)) = SubSeq(SubSeq(s, 1, Len(s) - 1), 1, Len(s) - 2)
      BY <1>2 DEF Front
    <3>2. Len(s) - 1 \in 0 .. Len(s) /\ Len(s) - 2 \in 0 .. Len(s) - 1 /\ Len(s) - 2 \in 0 .. Len(s)
      BY <1>2
    <3> DEFINE a == SubSeq(s, 1, Len(s) - 2)
    <3>3. Front(Below(t)) = a /\ a \in Seq(Frames)
      <4>1. \A k \in 0 .. Len(s) - 1 : SubSeq(SubSeq(s, 1, Len(s) - 1), 1, k) = SubSeq(s, 1, k)
        BY <1>2, <3>2, Parts
      <4>2. a \in Seq(Frames)
        BY <1>2, <3>2, Parts
      <4>3. QED
        BY <3>1, <3>2, <4>1, <4>2
    <3> HIDE DEF a
    <3>4. a \o <<>> = a
      BY <3>3
    <3>5. QED
      BY <2>1, <3>3, <3>4 DEF Turn, a
  <2>2. CASE ~halt
    <3>1. [stack EXCEPT ![t] = Below(t)] = Turn(stack, t, Len(s) - 1, <<>>)
      <4>1. Failed \in Frames
        BY DEF Frames
      <4>2. QED
        BY <1>1, <4>1, Forms
    <3>2. QED
      BY <2>2, <3>1
  <2>3. QED
    BY <2>1, <2>2
<1> HIDE DEF stk, n
<1>8. CASE stack' = stk /\ UNCHANGED handlers
  <2>1. Left(t, n)
    BY <1>6 DEF Left
  <2>2. QED
    BY <1>3, <1>5, <1>7, <1>8, <2>1, Returns
<1>9. ASSUME NEW eid, removeEID(eid, stk) PROVE Orderly'
  <2> DEFINE more == <<>>
  <2>1. more \in Seq(Frames) /\ DOMAIN more = {} /\ more = <<>>
    OBVIOUS
  <2> HIDE DEF more
  <2>2. Fits(s, n, more)
    BY <2>1 DEF Fits
  <2>3. StacksOK(Turn(stack, t, n, more), handlers, made)
    BY <1>1, <1>5, <2>1, <2>2, Turned
  <2>4. \A i \in n + 1 .. Len(s) : \A x : ~Covers(s[i], x)
    BY <1>6 DEF Covers
  <2>5. stack \in [Threads -> Seq(Frames)]
    BY <1>1 DEF StacksOK
  <2>6. \A x : Covered(stack, x) => Covered(Turn(stack, t, n, more), x)
    BY <1>5, <2>1, <2>4, <2>5, Lasting
  <2>7. handlers' = Unlisted(handlers, Events, {eid}) /\ stack' = Replaced(stk, Events)
    BY <1>9 DEF removeEID
  <2>8. stk = Turn(stack, t, n, more)
    BY <1>7, <2>1
  <2>9. QED
    BY <1>3, <2>3, <2>6, <2>7, <2>8, RemovalKeeps
<1>10. QED
  BY <1>4, <1>8, <1>9

\* An exception goes up to whoever catches it; if it ends a search, that is cut short.
LEMMA CaughtKeeps ==
  ASSUME Orderly, NEW t \in Threads, Busy(t), NEW revent,
         stack' = [stack EXCEPT ![t] = Caught(@, revent)], CutShort(t),
         UNCHANGED <<handlers, made, calls, components, waiters>>
  PROVE  Orderly'
<1> DEFINE s == stack[t]
<1> DEFINE found == Catching(s, revent)
<1>1. StacksOK(stack, handlers, made)
  BY DEF Orderly
<1>2. s \in Seq(Frames) /\ Len(s) \in Nat \ {0} /\ DOMAIN s = 1 .. Len(s)
  BY <1>1, Inside_
<1>3. stack'[t] = Caught(s, revent) /\ stack' = [stack EXCEPT ![t] = Caught(s, revent)]
  BY <1>1 DEF StacksOK
<1>4. ~cut' => ~cut /\ Searches(stack'[t]) = Searches(s)
  BY DEF CutShort
<1>5. found \subseteq 1 .. Len(s) - 1
  BY DEF Catching
<1> HIDE DEF s, found
<1>6. CASE found = {}
  <2> DEFINE more == <<Failed>>
  <2>1. Caught(s, revent) = more
    BY <1>6 DEF Caught, found
  <2>2. more \in Seq(Frames) /\ DOMAIN more = {1} /\ Len(more) = 1 /\ more[1] = Failed
    BY DEF Frames
  <2>3. <<>> \o more = more /\ SubSeq(s, 1, 0) = <<>>
    BY <1>2, <2>2
  <2> HIDE DEF more
  <2>4. stack' = Turn(stack, t, 0, more) /\ 0 \in 0 .. Len(stack[t])
    <3>1. stack' = [stack EXCEPT ![t] = more]
      BY <1>3, <2>1
    <3>2. Turn(stack, t, 0, more) = [stack EXCEPT ![t] = SubSeq(s, 1, 0) \o more]
      BY DEF Turn, s
    <3>3. 0 \in 0 .. Len(s)
      BY <1>2
    <3>4. QED
      BY <2>3, <3>1, <3>2, <3>3 DEF s
  <2>5. Failed.kind = "failed"
    BY DEF Failed
  <2>6. Fits(s, 0, more)
    BY <2>2, <2>5 DEF Fits
  <2>7. Searches(more) = {}
    BY <2>2, <2>5 DEF Searches
  <2>8. ~cut' => ~cut /\ \A i \in 0 + 1 .. Len(s) : s[i].kind # "tries"
    <3>1. ~cut' => ~cut /\ Searches(s) = {}
      BY <1>3, <1>4, <2>1, <2>7
    <3>2. Searches(s) = {k \in DOMAIN s : s[k].kind = "tries"}
      BY DEF Searches
    <3>3. QED
      BY <1>2, <3>1, <3>2
  <2>9. ~cut' => ~cut /\ \A i \in 0 + 1 .. Len(s) : \A x : ~Covers(s[i], x)
    BY <2>8 DEF Covers
  <2>10. /\ waiters' \in Seq(Sinks) /\ components \subseteq components'
         /\ \A x \in ToSet(waiters') : x \in ToSet(waiters)
    BY DEF Orderly, Waiting
  <2>11. \A x : Ready(x)' => Ready(x)
    BY DEF Ready
  <2>12. \A k \in DOMAIN more : more[k].kind = "raise" => Sound(more[k], handlers, made)
    BY <2>2, <2>5
  <2>13. QED
    BY <2>2, <2>4, <2>6, <2>9, <2>10, <2>11, <2>12, Step DEF s
<1>7. CASE found # {}
  <2> DEFINE c == CHOOSE k \in Catching(s, revent) : \A j \in Catching(s, revent) : j <= k
  <2>1. \E i \in found : \A j \in found : j <= i
    <3>1. Len(s) - 1 \in Nat
      BY <1>2
    <3>2. QED
      BY <1>5, <1>7, <3>1, GreatestNumber
  <2>2. c \in found
    BY <2>1 DEF found
  <2> DEFINE n == IF s[c].kind = "tries" THEN c ELSE c - 1
  <2> DEFINE a == SubSeq(s, 1, n)
  <2>3. Caught(s, revent) = a
    <3>1. Catching(s, revent) # {}
      BY <1>7 DEF found
    <3>2. Caught(s, revent) = IF Catching(s, revent) = {} THEN <<Failed>> ELSE a
      BY Zenon DEF Caught
    <3>3. QED
      BY <3>1, <3>2
  <2> HIDE DEF c
  <2>4. n \in 0 .. Len(s)
    BY <1>2, <1>5, <2>2
  <2> HIDE DEF n
  <2>5. a \in Seq(Frames) /\ DOMAIN a = 1 .. n /\ a \o <<>> = a
    BY <1>2, <2>4
  <2>6. Searches(a) \subseteq 1 .. n
    BY <2>5 DEF Searches
  <2>7. ~cut' => ~cut /\ Searches(s) \subseteq 1 .. n
    BY <1>3, <1>4, <2>3, <2>6
  <2>8. ~cut' => ~cut /\ \A i \in n + 1 .. Len(s) : s[i].kind # "tries"
    BY <1>2, <2>4, <2>7 DEF Searches
  <2>9. stack' = Turn(stack, t, n, <<>>)
    BY <1>3, <2>3, <2>5 DEF Turn, s
  <2>10. (~cut' => ~cut /\ Left(t, n)) /\ n \in 0 .. Len(stack[t])
    BY <2>4, <2>8 DEF Left, s
  <2>11. QED
    BY <2>9, <2>10, Returns
<1>8. QED
  BY <1>6, <1>7

\* The steps of quit().
LEMMA QuitKeeps ==
  ASSUME Orderly, NEW t \in Threads, _quit(t)
  PROVE  Orderly'
<1>1. CASE CheckRunning(t)
  <2>1. /\ Busy(t) /\ Top(t).kind = "quit" /\ UNCHANGED <<handlers, made, calls, cut, components, waiters>>
        /\ stack' = [stack EXCEPT ![t] = Below(t)] \/ stack' = OnTop(t, Quitting("down"))
    BY <1>1 DEF CheckRunning, At, coreVars
  <2>2. Good(Quitting("down"))
    BY Frames_
  <2>3. CASE stack' = [stack EXCEPT ![t] = Below(t)]
    BY <2>1, <2>3, ReturnKeeps
  <2>4. CASE stack' = OnTop(t, Quitting("down"))
    BY <2>1, <2>2, <2>4, PushKeeps
  <2>5. QED
    BY <2>1, <2>3, <2>4
<1>2. CASE Notify(t)
  <2>1. /\ Busy(t) /\ Top(t).kind = "quit" /\ UNCHANGED <<handlers, made, calls, cut, components, waiters>>
        /\ stack' = [stack EXCEPT ![t] = Below(t)]
    BY <1>2 DEF Notify, At, coreVars
  <2>2. QED
    BY <2>1, ReturnKeeps
<1>3. CASE GoDown(t) \/ StopScheduler(t)
  <2>1. PICK f, g :
          /\ Busy(t) /\ Top(t).kind = "quit" /\ UNCHANGED <<handlers, made, calls, cut, components, waiters>>
          /\ stack' = [stack EXCEPT ![t] = Below(t) \o <<f, g>>]
          /\ f \in {Quitting("later"), Quitting("notify")}
          /\ g \in {Raise("GoingDown", FALSE), Raise("Down", FALSE)}
    BY <1>3 DEF GoDown, StopScheduler, At
  <2>2. {"GoingDown", "Down"} \subseteq Events
    BY CoreNames DEF CoreEvents
  <2>3. Good(f) /\ Good(g)
    BY <2>1, <2>2, Frames_
  <2>4. StacksOK(stack, handlers, made)
    BY DEF Orderly
  <2> DEFINE n == Len(stack[t]) - 1
  <2>5. Len(stack[t]) \in Nat \ {0} /\ Top(t) = stack[t][Len(stack[t])] /\ Sane(stack[t], n)
    BY <2>1, <2>4, Inside_
  <2>6. n \in 0 .. Len(stack[t]) /\ \A i \in n + 1 .. Len(stack[t]) : i = Len(stack[t])
    BY <2>5
  <2>7. Left(t, n)
    BY <2>1, <2>5, <2>6 DEF Left
  <2>8. stack' = Turn(stack, t, n, <<f, g>>)
    <3>1. Busy(t)
      BY <2>1
    <3>2. [stack EXCEPT ![t] = Below(t) \o <<f, g>>] = Turn(stack, t, Len(stack[t]) - 1, <<f, g>>)
      BY <2>4, <3>1, Replacing, Zenon
    <3>3. QED
      BY <2>1, <3>2
  <2>9. QED
    BY <2>1, <2>3, <2>5, <2>6, <2>7, <2>8, MakesTwo
<1>4. QED
  BY <1>1, <1>2, <1>3 DEF _quit

\* An exception that nothing catches ends the thread.
LEMMA UncaughtKeeps ==
  ASSUME Orderly, NEW t \in Threads, Uncaught(t)
  PROVE  Orderly'
<1>1. StacksOK(stack, handlers, made) /\ Busy(t) /\ Top(t).kind = "failed"
  BY DEF Orderly, Uncaught, At
<1>2. /\ stack[t] \in Seq(Frames) /\ Len(stack[t]) \in Nat \ {0} /\ DOMAIN stack[t] = 1 .. Len(stack[t])
      /\ Top(t) = stack[t][Len(stack[t])] /\ Nested(stack[t])
  BY <1>1, Inside_ DEF StacksOK
<1>3. Len(stack[t]) = 1
  BY <1>1, <1>2 DEF Nested
<1>4. Left(t, 0) /\ 0 \in 0 .. Len(stack[t])
  BY <1>1, <1>2, <1>3 DEF Left
<1>5. SubSeq(stack[t], 1, 0) \o <<>> = <<>>
  <2>1. SubSeq(stack[t], 1, 0) = <<>>
    BY <1>2
  <2>2. QED
    BY <2>1
<1>6. stack' = Turn(stack, t, 0, <<>>) /\ UNCHANGED <<handlers, made, calls, cut, components, waiters>>
  BY <1>5 DEF Uncaught, Turn
<1>7. QED
  BY <1>4, <1>6, Returns

\* A component is registered: whoever waits will be tried.
LEMMA RegisteringKeeps ==
  ASSUME Orderly, NEW t \in Threads, ~Busy(t) \/ Top(t).kind # "failed", NEW name,
         Registering(t, name), UNCHANGED <<handlers, made, calls, cut, waiters>>
  PROVE  Orderly'
<1> DEFINE n == Len(stack[t])
<1> DEFINE f == Tries(<<>>, TRUE)
<1> DEFINE g == Raise("ComponentRegistered", TRUE)
<1> DEFINE more == <<f, g>>
<1>1. StacksOK(stack, handlers, made) /\ stack[t] \in Seq(Frames) /\ waiters \in Seq(Sinks)
  BY DEF Orderly, StacksOK, Waiting
<1>2. Sane(stack[t], n)
  <2>1. CASE Busy(t)
    BY <1>1, <2>1, Inside_
  <2>2. CASE ~Busy(t)
    <3>1. Len(stack[t]) = 0
      BY <2>2 DEF Busy
    <3>2. QED
      BY <3>1 DEF Sane
  <2>3. QED
    BY <2>1, <2>2
<1>3. Good(f) /\ Good(g)
  <2>1. "ComponentRegistered" \in Events /\ <<>> \in Seq(Sinks)
    BY CoreNames DEF CoreEvents
  <2>2. QED
    BY <2>1, Frames_
<1>4. \A x : Covers(f, x)
  BY DEF Covers, Tries
<1>5. components \subseteq components' /\ stack' = [stack EXCEPT ![t] = @ \o <<f, g>>]
  BY DEF Registering
<1> HIDE DEF f, g
<1>6. stack' = Turn(stack, t, n, more)
  BY <1>1, <1>3, <1>5, Forms DEF Good
<1>7. n \in Nat /\ n \in 0 .. n
  BY <1>1
<1>8. /\ more \in Seq(Frames) /\ Fits(stack[t], n, more)
      /\ \A k \in DOMAIN more : more[k].kind = "raise" => Sound(more[k], handlers, made)
      /\ \A x : \E k \in DOMAIN more : Covers(more[k], x)
  BY <1>2, <1>3, <1>4, <1>7, GoodPairs
<1> HIDE DEF more
<1>9. QED
  BY <1>1, <1>5, <1>6, <1>7, <1>8, Step

\* Somebody begins to wait, and is tried.
LEMMA WaitKeeps ==
  ASSUME Orderly, NEW t \in Threads, ~Busy(t) \/ Top(t).kind # "failed", NEW s \in Sinks, calls[s] = 0,
         call_when_ready(t, s), UNCHANGED <<handlers, made, calls, cut, components>>
  PROVE  Orderly'
<1> DEFINE n == Len(stack[t])
<1> DEFINE f == Tries(<<s>>, FALSE)
<1> DEFINE more == <<f>>
<1>1. StacksOK(stack, handlers, made) /\ stack[t] \in Seq(Frames) /\ waiters \in Seq(Sinks)
  BY DEF Orderly, StacksOK, Waiting
<1>2. Sane(stack[t], n)
  <2>1. CASE Busy(t)
    BY <1>1, <2>1, Inside_
  <2>2. CASE ~Busy(t)
    <3>1. Len(stack[t]) = 0
      BY <2>2 DEF Busy
    <3>2. QED
      BY <3>1 DEF Sane
  <2>3. QED
    BY <2>1, <2>2
<1>3. Good(f)
  <2>1. <<s>> \in Seq(Sinks)
    OBVIOUS
  <2>2. QED
    BY <2>1, Frames_
<1>4. Covers(f, s)
  <2>1. s \in ToSet(<<s>>)
    BY DEF ToSet
  <2>2. QED
    BY <2>1 DEF Covers, Tries
<1>5. waiters' = Append(waiters, s) /\ stack' = Push(t, f)
  BY DEF call_when_ready
<1> HIDE DEF f
<1>6. stack' = Turn(stack, t, n, more)
  BY <1>1, <1>3, <1>5, Forms DEF Good
<1>7. n \in Nat /\ n \in 0 .. n
  BY <1>1
<1>8. /\ more \in Seq(Frames) /\ Fits(stack[t], n, more)
      /\ \A k \in DOMAIN more : more[k].kind = "raise" => Sound(more[k], handlers, made)
      /\ \E k \in DOMAIN more : Covers(more[k], s)
  BY <1>2, <1>3, <1>4, <1>7, GoodOnes
<1> HIDE DEF more
<1>9. waiters' \in Seq(Sinks) /\ \A x \in ToSet(waiters') : x = s \/ x \in ToSet(waiters)
  <2>1. /\ waiters' \in Seq(Sinks) /\ DOMAIN waiters' = 1 .. Len(waiters) + 1
        /\ waiters'[Len(waiters) + 1] = s /\ DOMAIN waiters = 1 .. Len(waiters) /\ Len(waiters) \in Nat
        /\ \A i \in 1 .. Len(waiters) : waiters'[i] = waiters[i]
    BY <1>1, <1>5
  <2>2. \A i \in DOMAIN waiters' : i = Len(waiters) + 1 \/ i \in DOMAIN waiters
    BY <2>1
  <2>3. QED
    BY <2>1, <2>2 DEF ToSet
<1>10. \A x : Ready(x)' => Ready(x)
  BY DEF Ready
<1>11. \A i \in n + 1 .. Len(stack[t]) : FALSE
  BY <1>7
<1>12. QED
  BY <1>6, <1>7, <1>8, <1>9, <1>10, <1>11, Step

\* The top of a stack, where it tries those who wait.
LEMMA Trying ==
  ASSUME Orderly, NEW t \in Threads, At(t, "tries")
  PROVE  /\ Top(t).kind = "tries" /\ Top(t).entries \in Seq(Sinks) /\ Top(t).loop \in BOOLEAN
         /\ Top(t).changed \in BOOLEAN /\ Top(t) \in TriesFrames
         /\ StacksOK(stack, handlers, made) /\ Busy(t) /\ stack[t] \in Seq(Frames)
         /\ Len(stack[t]) \in Nat \ {0} /\ Len(stack[t]) - 1 \in 0 .. Len(stack[t])
         /\ Sane(stack[t], Len(stack[t]) - 1)
         /\ \A i \in Len(stack[t]) - 1 + 1 .. Len(stack[t]) : stack[t][i] = Top(t)
<1>1. StacksOK(stack, handlers, made) /\ Busy(t) /\ Top(t).kind = "tries"
  BY DEF Orderly, At
<1>2. /\ stack[t] \in Seq(Frames) /\ Len(stack[t]) \in Nat \ {0} /\ Top(t) \in Frames
      /\ Top(t) = stack[t][Len(stack[t])] /\ Sane(stack[t], Len(stack[t]) - 1)
  BY <1>1, Inside_
<1>3. Top(t) \in TriesFrames
  BY <1>1, <1>2, Kinds
<1>4. Top(t).entries \in Seq(Sinks) /\ Top(t).loop \in BOOLEAN /\ Top(t).changed \in BOOLEAN
  BY <1>3 DEF TriesFrames
<1>5. /\ Len(stack[t]) - 1 \in 0 .. Len(stack[t])
      /\ \A i \in Len(stack[t]) - 1 + 1 .. Len(stack[t]) : i = Len(stack[t])
  BY <1>2
<1>6. QED
  BY <1>1, <1>2, <1>3, <1>4, <1>5

\* The loop over those who wait ends, or begins again with all of them.
LEMMA LoopKeeps ==
  ASSUME Orderly, NEW t \in Threads, _try_waiters(t)
  PROVE  Orderly'
<1> DEFINE n == Len(stack[t]) - 1
<1> DEFINE f == [Tries(waiters, TRUE) EXCEPT !.changed = FALSE]
<1>1. /\ At(t, "tries") /\ Top(t).entries = <<>> /\ UNCHANGED <<handlers, made, calls, components, waiters>>
      /\ \/ stack' = OnTop(t, f)
         \/ /\ ~(Top(t).loop /\ Top(t).changed)
            /\ stack' = [stack EXCEPT ![t] = Below(t)] /\ cut' = cut
  BY DEF _try_waiters, TryUnchanged
<1>2. /\ StacksOK(stack, handlers, made) /\ Busy(t) /\ n \in 0 .. Len(stack[t]) /\ n \in Nat
      /\ Sane(stack[t], n) /\ \A i \in n + 1 .. Len(stack[t]) : stack[t][i] = Top(t)
  BY <1>1, Trying
<1>3. waiters \in Seq(Sinks)
  BY DEF Orderly, Waiting
<1>4. \A x : Ready(x)' => Ready(x)
  BY <1>1 DEF Ready
<1> HIDE DEF n
<1>5. CASE stack' = OnTop(t, f)
  <2>1. f \in TriesFrames /\ f.entries = waiters /\ f.kind = "tries"
    <3> DEFINE g == Tries(waiters, TRUE)
    <3>1. g \in TriesFrames /\ g.entries = waiters /\ g.kind = "tries"
      BY <1>3 DEF Tries, TriesFrames
    <3>2. f = [g EXCEPT !.changed = FALSE]
      OBVIOUS
    <3> HIDE DEF f, g
    <3>3. QED
      BY <3>1, <3>2 DEF TriesFrames
  <2> HIDE DEF f
  <2>2. Good(f) /\ \A x \in ToSet(waiters) : Covers(f, x)
    BY <2>1 DEF Good, Frames, Covers
  <2> DEFINE more == <<f>>
  <2>3. stack' = Turn(stack, t, n, more)
    BY <1>2, <1>5, <2>2, Forms DEF Good, n
  <2>4. /\ more \in Seq(Frames) /\ Fits(stack[t], n, more)
        /\ \A k \in DOMAIN more : more[k].kind = "raise" => Sound(more[k], handlers, made)
        /\ \A x : Covers(f, x) => \E k \in DOMAIN more : Covers(more[k], x)
    BY <1>2, <2>2, GoodOnes
  <2> HIDE DEF more
  <2>5. QED
    BY <1>1, <1>2, <1>3, <2>2, <2>3, <2>4, Step
<1>6. CASE /\ ~(Top(t).loop /\ Top(t).changed)
           /\ stack' = [stack EXCEPT ![t] = Below(t)] /\ cut' = cut
  <2>1. \A x : ~Covers(Top(t), x)
    BY <1>1, <1>6 DEF Covers, ToSet
  <2> DEFINE more == <<>>
  <2>2. more \in Seq(Frames) /\ DOMAIN more = {} /\ more = <<>>
    OBVIOUS
  <2>3. stack' = Turn(stack, t, n, more)
    <3>1. Failed \in Frames
      BY DEF Frames
    <3>2. QED
      BY <1>2, <1>6, <3>1, Forms DEF n
  <2> HIDE DEF more
  <2>4. Fits(stack[t], n, more)
    BY <2>2 DEF Fits
  <2>5. /\ waiters' = waiters /\ calls' = calls /\ handlers' = handlers /\ made' = made
        /\ components \subseteq components' /\ waiters' \in Seq(Sinks)
    BY <1>1, <1>3
  <2>6. \A k \in DOMAIN more : more[k].kind = "raise" => Sound(more[k], handlers, made)
    BY <2>2
  <2>7. \A x \in ToSet(waiters') : ~cut' /\ Ready(x)' =>
          /\ ~cut /\ x \in ToSet(waiters) /\ Ready(x)
          /\ \A i \in n + 1 .. Len(stack[t]) : ~Covers(stack[t][i], x)
    BY <1>2, <1>4, <1>6, <2>1, <2>5
  <2>8. \A x \in ToSet(waiters') : x \in ToSet(waiters)
    BY <2>5
  <2>9. QED
    BY <1>2, <2>2, <2>3, <2>4, <2>5, <2>6, <2>7, <2>8, Step
<1>7. QED
  BY <1>1, <1>5, <1>6

\* autoBindEvents() appends one listener to some of the lists.
LEMMA Bound ==
  ASSUME ListsOK(handlers, made), NEW s \in Sinks, NEW hs, hs = autoBindEvents(s, Binds[s]),
         NEW m2, m2 = made + Len(Binds[s])
  PROVE  /\ ListsOK(hs, m2) /\ made <= m2
         /\ \A e \in Events : Added(handlers[e], hs[e], made, m2, FALSE)
<1>1. /\ Len(Binds[s]) \in Nat /\ DOMAIN Binds[s] = 1 .. Len(Binds[s]) /\ made \in Nat
      /\ handlers \in [Events -> Seq(Listeners)] /\ \A e \in Events : Ranked(handlers[e], made)
  BY Subscriptions DEF ListsOK
<1>2. m2 \in Nat /\ made <= m2
  BY <1>1
<1>3. ASSUME NEW e \in Events
      PROVE  hs[e] \in Seq(Listeners) /\ Ranked(hs[e], m2) /\ Added(handlers[e], hs[e], made, m2, FALSE)
  <2>1. handlers[e] \in Seq(Listeners) /\ Ranked(handlers[e], made)
    BY <1>1
  <2>2. CASE e \in ToSet(Binds[s])
    <3> DEFINE k == CHOOSE k \in DOMAIN Binds[s] : Binds[s][k] = e
    <3>1. k \in 1 .. Len(Binds[s])
      BY <1>1, <2>2 DEF ToSet
    <3> DEFINE entry == Entry(s, 0, FALSE, FALSE, made + k)
    <3>2. hs[e] = Append(handlers[e], entry)
      BY <2>2 DEF autoBindEvents
    <3> HIDE DEF k
    <3>3. entry \in Listeners /\ entry.eid \in made + 1 .. m2 /\ entry.priority = 0
      <4>1. made + k \in Nat /\ made + k \in made + 1 .. m2 /\ 0 \in 0 .. MaxPriority
        BY <1>1, <3>1, ReventBounds
      <4>2. QED
        BY <4>1 DEF Entry, Listeners
    <3> HIDE DEF entry
    <3>4. hs[e] = Insert(handlers[e], entry)
      BY <3>2, <3>3 DEF Insert
    <3>5. QED
      BY <1>1, <1>2, <2>1, <3>3, <3>4, Inserted
  <2>3. CASE e \notin ToSet(Binds[s])
    <3>1. hs[e] = handlers[e]
      BY <2>3 DEF autoBindEvents
    <3>2. Ranked(handlers[e], m2)
      <4>1. \A i \in DOMAIN handlers[e] : handlers[e][i].eid <= made /\ handlers[e][i] \in Listeners
        BY <2>1 DEF Ranked
      <4>2. \A y \in Listeners : y.eid \in Nat
        BY DEF Listeners
      <4>3. \A i \in DOMAIN handlers[e] : handlers[e][i].eid <= m2
        BY <1>1, <1>2, <4>1, <4>2
      <4>4. QED
        BY <2>1, <4>3 DEF Ranked
    <3>3. QED
      BY <2>1, <3>1, <3>2 DEF Added
  <2>4. QED
    BY <2>2, <2>3
<1>4. DOMAIN hs = Events /\ hs = [e \in Events |-> hs[e]]
  BY DEF autoBindEvents
<1>5. hs \in [Events -> Seq(Listeners)]
  BY <1>3, <1>4
<1>6. QED
  BY <1>2, <1>3, <1>5 DEF ListsOK

\* The search goes on: nobody is passed over who waits and is ready.
LEMMA Advances ==
  ASSUME Orderly, NEW t \in Threads, At(t, "tries"), NEW g \in TriesFrames,
         g.loop = Top(t).loop, g.changed = Top(t).changed,
         \A x \in ToSet(waiters) : Ready(x) /\ x \in ToSet(Top(t).entries) => x \in ToSet(g.entries),
         stack' = OnTop(t, g), UNCHANGED <<handlers, made, calls, cut, components, waiters>>
  PROVE  Orderly'
<1> DEFINE n == Len(stack[t]) - 1
<1> DEFINE f == Top(t)
<1>1. /\ StacksOK(stack, handlers, made) /\ Busy(t) /\ n \in 0 .. Len(stack[t]) /\ n \in Nat
      /\ Sane(stack[t], n) /\ \A i \in n + 1 .. Len(stack[t]) : stack[t][i] = f
      /\ f.kind = "tries"
  BY Trying
<1>2. waiters \in Seq(Sinks)
  BY DEF Orderly, Waiting
<1>3. \A x : Ready(x)' => Ready(x)
  BY DEF Ready
<1>4. Good(g) /\ g.kind = "tries"
  BY DEF Good, Frames, TriesFrames
<1>5. \A x \in ToSet(waiters) : Ready(x) /\ Covers(f, x) => Covers(g, x)
  BY <1>4 DEF Covers
<1> DEFINE more == <<g>>
<1>6. stack' = Turn(stack, t, n, more)
  BY <1>1, <1>4, Forms DEF Good
<1> HIDE DEF n, f
<1>7. /\ more \in Seq(Frames) /\ Fits(stack[t], n, more)
      /\ \A k \in DOMAIN more : more[k].kind = "raise" => Sound(more[k], handlers, made)
      /\ \A x : Covers(g, x) => \E k \in DOMAIN more : Covers(more[k], x)
  BY <1>1, <1>4, GoodOnes
<1> HIDE DEF more
<1>8. ASSUME NEW x \in ToSet(waiters), Ready(x)
      PROVE  \/ \E k \in DOMAIN more : Covers(more[k], x)
             \/ \A i \in n + 1 .. Len(stack[t]) : ~Covers(stack[t][i], x)
  BY <1>1, <1>5, <1>7, <1>8
<1>9. QED
  BY <1>1, <1>2, <1>3, <1>6, <1>7, <1>8, Step

\* One of those who wait is looked for, tried, and called if what it needs is there.
LEMMA TryKeeps ==
  ASSUME Orderly, NEW t \in Threads, _try_waiter(t)
  PROVE  Orderly'
<1> DEFINE n == Len(stack[t]) - 1
<1> DEFINE f == Top(t)
<1> DEFINE s == Head(f.entries)
<1>1. At(t, "tries") /\ f.entries # <<>> /\ UNCHANGED components
  BY DEF _try_waiter, Find, Try, TryUnchanged
<1>2. /\ StacksOK(stack, handlers, made) /\ Busy(t) /\ n \in 0 .. Len(stack[t]) /\ n \in Nat
      /\ Sane(stack[t], n) /\ \A i \in n + 1 .. Len(stack[t]) : stack[t][i] = f
      /\ f.kind = "tries" /\ f.entries \in Seq(Sinks) /\ f.loop \in BOOLEAN /\ f.changed \in BOOLEAN
      /\ f \in TriesFrames
  BY <1>1, Trying
<1>3. /\ waiters \in Seq(Sinks) /\ calls \in [Sinks -> 0 .. 1] /\ ListsOK(handlers, made)
      /\ \A x \in Sinks : calls[x] = 1 => Ready(x) /\ x \notin ToSet(waiters)
      /\ ~cut => \A x \in ToSet(waiters) : Ready(x) => Covered(stack, x)
  BY DEF Orderly, Waiting
<1>4. \A x : Ready(x)' => Ready(x)
  BY <1>1 DEF Ready
<1> HIDE DEF n
<1>5. s \in Sinks /\ Tail(f.entries) \in Seq(Sinks) /\ \A x \in ToSet(f.entries) : x = s \/ x \in ToSet(Tail(f.entries))
  <2> DEFINE q == f.entries
  <2>1. q \in Seq(Sinks) /\ q # <<>>
    BY <1>1, <1>2
  <2> HIDE DEF q
  <2>2. /\ Head(q) = q[1] /\ Head(q) \in Sinks /\ Tail(q) \in Seq(Sinks) /\ Len(Tail(q)) = Len(q) - 1
        /\ \A i \in 1 .. Len(q) - 1 : Tail(q)[i] = q[i + 1]
        /\ Len(q) \in Nat /\ DOMAIN q = 1 .. Len(q) /\ DOMAIN Tail(q) = 1 .. Len(q) - 1
    BY <2>1
  <2>3. ASSUME NEW i \in DOMAIN q PROVE q[i] = Head(q) \/ q[i] \in ToSet(Tail(q))
    <3>1. i = 1 \/ (i - 1 \in 1 .. Len(q) - 1 /\ (i - 1) + 1 = i)
      BY <2>2
    <3>2. CASE i - 1 \in 1 .. Len(q) - 1 /\ (i - 1) + 1 = i
      BY <2>2, <3>2 DEF ToSet
    <3>3. QED
      BY <2>2, <3>1, <3>2
  <2>4. QED
    BY <2>2, <2>3 DEF ToSet, q
<1> DEFINE passed == [f EXCEPT !.entries = Tail(@), !.found = FALSE]
<1> DEFINE seen == [f EXCEPT !.found = TRUE]
<1>51. /\ passed \in TriesFrames /\ passed.entries = Tail(f.entries)
       /\ passed.loop = f.loop /\ passed.changed = f.changed
  BY <1>2, <1>5 DEF TriesFrames
<1>52. /\ seen \in TriesFrames /\ seen.entries = f.entries
       /\ seen.loop = f.loop /\ seen.changed = f.changed
  BY <1>2 DEF TriesFrames
<1>53. CASE ~f.found /\ Find(t)
  <2>1. /\ UNCHANGED <<handlers, made, calls, cut, components, waiters>>
        /\ stack' = OnTop(t, IF s \in ToSet(waiters) THEN seen ELSE [f EXCEPT !.entries = Tail(@)])
    BY <1>53 DEF Find, TryUnchanged
  <2>2. [f EXCEPT !.entries = Tail(@)] = passed
    BY <1>2, <1>5, <1>53 DEF TriesFrames
  <2> HIDE DEF passed, seen, f
  <2>3. CASE s \in ToSet(waiters)
    BY <1>1, <1>52, <2>1, <2>3, Advances DEF f
  <2>4. CASE s \notin ToSet(waiters)
    BY <1>1, <1>5, <1>51, <2>1, <2>2, <2>4, Advances DEF f
  <2>5. QED
    BY <2>3, <2>4
<1>6. CASE ~Ready(s) /\ stack' = OnTop(t, passed) /\ UNCHANGED <<handlers, made, waiters, calls, cut>>
  <2> HIDE DEF passed, f
  <2>1. QED
    BY <1>1, <1>5, <1>51, <1>6, Advances DEF f
<1> HIDE DEF f, passed, seen
<1>7. CASE Ready(s) /\ s \in ToSet(waiters) /\ cut' = cut /\ Notified(t, s, TRUE)
           /\ waiters' = Without(waiters, {s}) /\ calls' = [calls EXCEPT ![s] = @ + 1]
  <2> DEFINE g == [f EXCEPT !.entries = Tail(@), !.found = FALSE, !.changed = TRUE]
  <2> DEFINE call == Call(s, NoEntry)
  <2> DEFINE more == <<g, call>>
  <2> DEFINE stk == [stack EXCEPT ![t] = Below(t) \o more]
  <2> DEFINE hs == autoBindEvents(s, Binds[s])
  <2>1. /\ waiters' = Without(waiters, {s}) /\ calls' = [calls EXCEPT ![s] = @ + 1]
        /\ handlers' = hs /\ stack' = Seen(stk, hs, {}) /\ made' = made + Len(Binds[s])
    BY <1>7 DEF Notified, f
  <2>2. g \in TriesFrames /\ g.entries = Tail(f.entries) /\ g.loop = f.loop /\ g.changed = TRUE
    BY <1>2, <1>5 DEF TriesFrames
  <2> HIDE DEF g
  <2>3. Good(g) /\ g.kind = "tries"
    BY <2>2 DEF Good, Frames, TriesFrames
  <2>4. \A x : x # s /\ Covers(f, x) => Covers(g, x)
    BY <1>2, <1>5, <2>2, <2>3 DEF Covers
  <2>5. Good(call)
    BY <1>5, Frames_
  <2> HIDE DEF call
  <2>6. stk = Turn(stack, t, n, more)
    <3>1. StacksOK(stack, handlers, made) /\ Busy(t)
      BY <1>2
    <3>2. [stack EXCEPT ![t] = Below(t) \o <<g, call>>] = Turn(stack, t, Len(stack[t]) - 1, <<g, call>>)
      BY <3>1, Replacing, Zenon
    <3>3. QED
      BY <3>2 DEF n
  <2>7. /\ more \in Seq(Frames) /\ Fits(stack[t], n, more)
        /\ \A k \in DOMAIN more : more[k].kind = "raise" => Sound(more[k], handlers, made)
        /\ \A x : Covers(g, x) => \E k \in DOMAIN more : Covers(more[k], x)
    BY <1>2, <2>3, <2>5, GoodPairs
  <2> HIDE DEF more, stk, hs
  <2>8. StacksOK(stk, handlers, made)
    BY <1>2, <2>6, <2>7, Turned
  <2>9. /\ ListsOK(hs, made') /\ made <= made'
        /\ \A e \in Events : Added(handlers[e], hs[e], made, made', e \in {})
    <3>1. \A e \in Events : (e \in {}) = FALSE
      OBVIOUS
    <3>2. QED
      BY <1>3, <1>5, <2>1, <3>1, Bound DEF hs
  <2>10. StacksOK(stack', hs, made') /\ \A x : Covered(stk, x) => Covered(stack', x)
    BY <1>3, <2>1, <2>8, <2>9, SeenByAll
  <2>11. waiters' \in Seq(Sinks) /\ ToSet(waiters') = ToSet(waiters) \ {s}
    BY <1>3, <2>1, Filtered
  <2>12. calls[s] = 0 /\ calls' \in [Sinks -> 0 .. 1] /\ calls'[s] = 1 /\ \A x \in Sinks : x # s => calls'[x] = calls[x]
    <3>1. calls[s] \in 0 .. 1 /\ calls[s] # 1
      BY <1>3, <1>5, <1>7
    <3>2. calls[s] = 0
      BY <3>1
    <3>3. calls' = [calls EXCEPT ![s] = 1]
      BY <2>1, <3>2
    <3>4. QED
      BY <1>3, <1>5, <3>2, <3>3
  <2>13. \A x : Ready(x) => Ready(x)'
    BY <1>1 DEF Ready
  <2>14. ASSUME ~cut', NEW x \in ToSet(waiters'), Ready(x)' PROVE Covered(stack', x)
    <3>1. x \in ToSet(waiters) /\ x # s /\ Ready(x) /\ Covered(stack, x)
      BY <1>3, <1>4, <1>7, <2>11, <2>14
    <3>2. \/ \E k \in DOMAIN more : Covers(more[k], x)
          \/ \A i \in n + 1 .. Len(stack[t]) : ~Covers(stack[t][i], x)
      BY <1>2, <2>4, <2>7, <3>1
    <3>3. stack \in [Threads -> Seq(Frames)]
      BY <1>2 DEF StacksOK
    <3>4. Covered(Turn(stack, t, n, more), x)
      BY <1>2, <2>7, <3>1, <3>2, <3>3, Lasting
    <3>5. QED
      BY <2>6, <2>10, <3>4
  <2>15. \A x \in Sinks : calls'[x] = 1 => Ready(x)' /\ x \notin ToSet(waiters')
    BY <1>3, <1>7, <2>11, <2>12, <2>13
  <2>16. Waiting'
    BY <2>11, <2>12, <2>14, <2>15 DEF Waiting
  <2>17. QED
    BY <2>1, <2>9, <2>10, <2>16 DEF Orderly
<1>8. CASE /\ stack' = [stack EXCEPT ![t] = Caught(@, FALSE)] /\ CutShort(t)
           /\ UNCHANGED <<handlers, made, waiters, calls>>
  BY <1>1, <1>2, <1>8, CaughtKeeps
<1>9. CASE Try(t)
  BY <1>6, <1>7, <1>8, <1>9 DEF Try, f, passed
<1>10. QED
  BY <1>9, <1>53 DEF _try_waiter, Find, f

\* A callback subscribes a listener.
LEMMA ListenKeeps ==
  ASSUME Orderly, NEW e \in Events, NEW h \in Handlers, NEW style \in Styles,
         addListener(e, h, style.priority, style.once, style.weak),
         UNCHANGED <<calls, cut, components, waiters>>
  PROVE  Orderly'
<1> DEFINE entry == Entry(h, style.priority, style.once, style.weak, made + 1)
<1> DEFINE hs == [handlers EXCEPT ![e] = Insert(@, entry)]
<1> DEFINE sorted == IF style.priority = 0 THEN {} ELSE {e}
<1>1. /\ ListsOK(handlers, made) /\ StacksOK(stack, handlers, made) /\ Waiting
      /\ made \in Nat /\ handlers \in [Events -> Seq(Listeners)]
      /\ \A x \in Events : Ranked(handlers[x], made)
  BY DEF Orderly, ListsOK
<1>2. made' = made + 1 /\ handlers' = hs /\ stack' = Seen(stack, hs, sorted)
  BY DEF addListener
<1>3. entry \in Listeners /\ entry.eid = made + 1 /\ entry.priority = style.priority
  <2>1. style.priority \in 0 .. MaxPriority /\ style.once \in BOOLEAN /\ style.weak \in BOOLEAN
    BY Subscriptions
  <2>2. QED
    BY <1>1, <2>1 DEF Entry, Listeners
<1> HIDE DEF entry
<1>4. DOMAIN hs = Events /\ hs[e] = Insert(handlers[e], entry) /\ \A x \in Events : x # e => hs[x] = handlers[x]
  BY <1>1
<1>5. hs = [x \in Events |-> hs[x]]
  BY <1>1
<1>6. (e \in sorted) \in BOOLEAN /\ (entry.priority # 0 => e \in sorted)
  BY <1>3
<1> HIDE DEF hs, sorted
<1>7. made' \in Nat /\ made <= made' /\ entry.eid \in made + 1 .. made'
  BY <1>1, <1>2, <1>3
<1>8. ASSUME NEW x \in Events
      PROVE  /\ hs[x] \in Seq(Listeners) /\ Ranked(hs[x], made')
             /\ Added(handlers[x], hs[x], made, made', x \in sorted)
  <2>1. handlers[x] \in Seq(Listeners) /\ Ranked(handlers[x], made)
    BY <1>1
  <2>2. CASE x = e
    <3> DEFINE inOrder == e \in sorted
    <3>1. inOrder \in BOOLEAN /\ (entry.priority # 0 => inOrder)
      BY <1>6
    <3> HIDE DEF inOrder
    <3>2. /\ Insert(handlers[e], entry) \in Seq(Listeners) /\ Ranked(Insert(handlers[e], entry), made')
          /\ Added(handlers[e], Insert(handlers[e], entry), made, made', inOrder)
      BY <1>1, <1>3, <1>7, <3>1, Inserted
    <3>3. QED
      BY <1>4, <2>2, <3>2 DEF inOrder
  <2>3. CASE x # e
    <3>1. hs[x] = handlers[x]
      BY <1>4, <2>3
    <3>2. \A i \in DOMAIN handlers[x] : handlers[x][i].eid <= made /\ handlers[x][i].eid \in Nat
      <4>1. \A y \in Listeners : y.eid \in Nat
        BY DEF Listeners
      <4>2. QED
        BY <2>1, <4>1 DEF Ranked
    <3>3. \A i \in DOMAIN handlers[x] : handlers[x][i].eid <= made'
      BY <1>1, <1>7, <3>2
    <3>4. Ranked(handlers[x], made')
      BY <2>1, <3>3 DEF Ranked
    <3>5. QED
      BY <2>1, <3>1, <3>4 DEF Added
  <2>4. QED
    BY <2>2, <2>3
<1>9. hs \in [Events -> Seq(Listeners)]
  BY <1>5, <1>8
<1>10. ListsOK(hs, made')
  BY <1>7, <1>8, <1>9 DEF ListsOK
<1>11. StacksOK(stack', hs, made') /\ \A x : Covered(stack, x) => Covered(stack', x)
  BY <1>1, <1>2, <1>7, <1>8, <1>10, SeenByAll
<1>12. Waiting'
  BY <1>1, <1>11 DEF Waiting, Ready
<1>13. QED
  BY <1>2, <1>10, <1>11, <1>12 DEF Orderly

\* Callbacks unsubscribe listeners, and weak ones go.
LEMMA UnlistenKeeps ==
  ASSUME Orderly, UNCHANGED <<made, calls, cut, components, waiters>>,
         \/ \E h : removeHandler(h)
         \/ \E e \in Events : \E eid : removePair(e, eid)
  PROVE  Orderly'
<1>1. StacksOK(stack, handlers, made) /\ \A x : Covered(stack, x) => Covered(stack, x)
  BY DEF Orderly
<1>2. ASSUME NEW h, removeHandler(h) PROVE Orderly'
  <2>1. handlers' = Unlisted(handlers, Events, EidsOf(h)) /\ stack' = Replaced(stack, Events)
    BY <1>2 DEF removeHandler
  <2>2. QED
    BY <1>1, <2>1, RemovalKeeps
<1>3. ASSUME NEW e \in Events, NEW eid, removePair(e, eid) PROVE Orderly'
  <2>1. handlers' = Unlisted(handlers, {e}, {eid}) /\ stack' = Replaced(stack, {e}) /\ {e} \subseteq Events
    BY <1>3 DEF removePair
  <2>2. QED
    BY <1>1, <2>1, RemovalKeeps
<1>4. QED
  BY <1>2, <1>3

(* ----------------------------- next states ----------------------------- *)
LEMMA InsideKeeps ==
  ASSUME Orderly, NEW t \in Threads, Inside(t)
  PROVE  Orderly'
<1>1. CASE Fetch(t) /\ UNCHANGED coreVars
  BY <1>1, FetchKeeps
<1>2. CASE (Exhausted(t) /\ UNCHANGED coreVars) \/ Done(t)
  <2>1. /\ Busy(t) /\ Top(t).kind # "tries" /\ stack' = [stack EXCEPT ![t] = Below(t)]
        /\ UNCHANGED <<handlers, made, calls, cut, components, waiters>>
    BY <1>2 DEF Exhausted, Done, At, coreVars
  <2>2. QED
    BY <2>1, ReturnKeeps
<1>3. CASE (\E halt, remove \in BOOLEAN : Answer(t, halt, remove)) /\ UNCHANGED coreVars
  BY <1>3, AnswerKeeps
<1>4. CASE _try_waiter(t)
  BY <1>4, TryKeeps
<1>5. CASE _try_waiters(t)
  BY <1>5, LoopKeeps
<1>6. CASE _quit(t)
  BY <1>6, QuitKeeps
<1>7. CASE Uncaught(t)
  BY <1>7, UncaughtKeeps
<1>8. QED
  BY <1>1, <1>2, <1>3, <1>4, <1>5, <1>6, <1>7 DEF Inside

LEMMA CallbackKeeps ==
  ASSUME Orderly, NEW t \in Threads, Callback(t)
  PROVE  Orderly'
<1>1. CASE RaisesError(t)
  <2>1. PICK revent : Raises(t, revent)
    BY <1>1 DEF RaisesError
  <2>2. CutShort(t) /\ UNCHANGED <<calls, components, waiters>>
    BY <1>1 DEF RaisesError
  <2>3. QED
    BY <2>1, <2>2, CaughtKeeps DEF Raises, At
<1>2. CASE Register(t)
  <2>1. PICK name : Registering(t, name)
    BY <1>2 DEF Register
  <2>2. Top(t).kind # "failed" /\ UNCHANGED <<handlers, made, calls, cut, waiters>>
    BY <1>2 DEF Register, At
  <2>3. QED
    BY <2>1, <2>2, RegisteringKeeps
<1>3. CASE listen_to_dependencies(t)
  <2>1. PICK s \in Sinks : calls[s] = 0 /\ call_when_ready(t, s)
    BY <1>3 DEF listen_to_dependencies
  <2>2. Top(t).kind # "failed" /\ UNCHANGED <<handlers, made, calls, cut, components>>
    BY <1>3 DEF listen_to_dependencies, MayAct, At
  <2>3. QED
    BY <2>1, <2>2, WaitKeeps
<1>4. CASE Listen(t)
  <2>1. PICK e \in ListenTo, h \in Handlers, style \in Styles :
          addListener(e, h, style.priority, style.once, style.weak)
    BY <1>4 DEF Listen
  <2>2. e \in Events
    BY Subscriptions
  <2>3. UNCHANGED <<calls, cut, components, waiters>>
    BY <1>4 DEF Listen
  <2>4. QED
    BY <2>1, <2>2, <2>3, ListenKeeps
<1>5. CASE Unlisten(t)
  <2>1. UNCHANGED <<made, calls, cut, components, waiters>>
    BY <1>5 DEF Unlisten
  <2>2. (\E h : removeHandler(h)) \/ \E e \in Events : \E eid : removePair(e, eid)
    BY <1>5 DEF Unlisten
  <2>3. QED
    BY <2>1, <2>2, UnlistenKeeps
<1>6. CASE RaiseEvent(t)
  <2>1. /\ Top(t).kind # "failed" /\ stack' = Push(t, Raise("RereadConfiguration", FALSE))
        /\ UNCHANGED <<handlers, made, calls, cut, components, waiters>>
    BY <1>6 DEF RaiseEvent, MayAct, At
  <2>2. "RereadConfiguration" \in Events
    BY CoreNames DEF CoreEvents
  <2>3. Good(Raise("RereadConfiguration", FALSE))
    BY <2>2, Frames_
  <2>4. QED
    BY <2>1, <2>3, PushKeeps
<1>7. CASE quit(t)
  <2>1. Top(t).kind # "failed" /\ UNCHANGED <<handlers, made, calls, cut, components, waiters>>
    BY <1>7 DEF quit, MayAct, At
  <2>2. PICK q \in Threads : (~Busy(q) \/ q = t) /\ stack' = Push(q, Quitting("check"))
    BY <1>7, CoreNames DEF quit
  <2>3. Good(Quitting("check"))
    BY Frames_
  <2>4. QED
    BY <2>1, <2>2, <2>3, PushKeeps
<1>8. QED
  BY <1>1, <1>2, <1>3, <1>4, <1>5, <1>6, <1>7 DEF Callback

LEMMA MainKeeps ==
  ASSUME Orderly, LeftType, Main \/ Interrupt
  PROVE  Orderly'
<1>1. "main" \in Threads /\ ~Busy("main") /\ UNCHANGED <<handlers, made, calls, cut, waiters>>
  BY CoreNames DEF Main, _pre_startup, _do_launch, _post_startup, goUp, Leave, Interrupt, MainAt, BootUnchanged
<1>2. CASE \E name : Registering("main", name)
  BY <1>1, <1>2, RegisteringKeeps
<1>3. CASE UNCHANGED <<stack, components>>
  BY <1>1, <1>3, Rests
<1>4. ASSUME NEW f, Good(f), stack' = Push("main", f), UNCHANGED components PROVE Orderly'
  BY <1>1, <1>4, PushKeeps
<1>5. CASE _pre_startup
  BY <1>2, <1>5 DEF _pre_startup
<1>6. CASE _do_launch
  <2>1. commandLine # <<>> /\ UNCHANGED components
    BY <1>6 DEF _do_launch
  <2>2. Head(commandLine) \in Components
    BY <2>1 DEF LeftType
  <2>3. Good(Call(Head(commandLine), NoEntry))
    BY <2>2, Frames_
  <2>4. stack' = Push("main", Call(Head(commandLine), NoEntry)) \/ UNCHANGED stack
    BY <1>6 DEF _do_launch
  <2>5. QED
    BY <1>3, <1>4, <2>1, <2>3, <2>4
<1>7. CASE _post_startup
  BY <1>2, <1>3, <1>7 DEF _post_startup
<1>8. CASE goUp
  <2>1. {"GoingUp", "Up"} \subseteq Events
    BY CoreNames DEF CoreEvents
  <2>2. Good(Raise("GoingUp", FALSE)) /\ Good(Raise("Up", FALSE))
    BY <2>1, Frames_
  <2>3. /\ UNCHANGED components
        /\ stack' = Push("main", Raise("GoingUp", FALSE)) \/ stack' = Push("main", Raise("Up", FALSE))
    BY <1>8 DEF goUp
  <2>4. QED
    BY <1>4, <2>2, <2>3
<1>9. CASE Leave
  BY <1>3, <1>9 DEF Leave
<1>10. CASE Interrupt
  <2>1. Good(Quitting("check"))
    BY Frames_
  <2>2. QED
    BY <1>4, <1>10, <2>1 DEF Interrupt
<1>11. QED
  BY <1>5, <1>6, <1>7, <1>8, <1>9, <1>10 DEF Main

LEMMA LaterKeeps ==
  ASSUME Orderly, LeftType, _signal_handler_SIGHUP \/ callLater \/ (_forgetMe /\ UNCHANGED coreVars)
  PROVE  Orderly'
<1>1. CASE _signal_handler_SIGHUP
  <2>1. UNCHANGED <<handlers, made, stack, calls, cut, components, waiters>>
    BY <1>1 DEF _signal_handler_SIGHUP, reventVars
  <2>2. QED
    BY <2>1, Rests
<1>2. CASE callLater
  <2>1. /\ "scheduler" \in Threads /\ ~Busy("scheduler")
        /\ stack' = Push("scheduler", Raise(Head(later), FALSE))
        /\ UNCHANGED <<handlers, made, calls, cut, components, waiters>>
    BY <1>2, CoreNames DEF callLater
  <2>2. Head(later) \in Events
    <3>1. later \in Seq(Events \union {"quit"}) /\ later # <<>> /\ Head(later) # "quit"
      BY <1>2 DEF callLater, LeftType
    <3>2. Head(later) \in Events \union {"quit"}
      BY <3>1
    <3>3. QED
      BY <3>1, <3>2
  <2>3. Good(Raise(Head(later), FALSE))
    BY <2>2, Frames_
  <2>4. QED
    BY <2>1, <2>3, PushKeeps
<1>3. CASE _forgetMe /\ UNCHANGED coreVars
  <2>1. UNCHANGED <<made, calls, cut, components, waiters>> /\ \E e \in Events : \E eid : removePair(e, eid)
    BY <1>3 DEF _forgetMe, coreVars
  <2>2. QED
    BY <2>1, UnlistenKeeps
<1>4. QED
  BY <1>1, <1>2, <1>3

\* What is left to do is only made shorter, or grows by what there may be in it.
LEMMA LeftKeeps ==
  ASSUME LeftType, [Next]_vars
  PROVE  LeftType'
<1>1. commandLine' = commandLine \/ (commandLine # <<>> /\ commandLine' = Tail(commandLine))
  BY DEF Next, Inside, Callback, Main, _pre_startup, _do_launch, _post_startup, goUp, Leave, Interrupt,
     _signal_handler_SIGHUP, callLater, BootUnchanged, coreVars, vars, _try_waiter, Find, Try, TryUnchanged,
     _try_waiters, Done, RaisesError,
     _quit, CheckRunning, GoDown, StopScheduler, Notify, Uncaught, Register, listen_to_dependencies,
     Listen, Unlisten, RaiseEvent, quit
<1>2. \/ later' = later
      \/ later # <<>> /\ later' = Tail(later)
      \/ later' = Append(later, "quit")
      \/ later' = Append(later, "RereadConfiguration")
  BY DEF Next, Inside, Callback, Main, _pre_startup, _do_launch, _post_startup, goUp, Leave, Interrupt,
     _signal_handler_SIGHUP, callLater, BootUnchanged, coreVars, vars, _try_waiter, Find, Try, TryUnchanged,
     _try_waiters, Done, RaisesError,
     _quit, CheckRunning, GoDown, StopScheduler, Notify, Uncaught, Register, listen_to_dependencies,
     Listen, Unlisten, RaiseEvent, quit
<1>3. "RereadConfiguration" \in Events
  BY CoreNames DEF CoreEvents
<1>4. commandLine' \in Seq(Components)
  BY <1>1 DEF LeftType
<1>5. later' \in Seq(Events \union {"quit"})
  <2> DEFINE What == Events \union {"quit"}
  <2>1. later \in Seq(What) /\ "quit" \in What /\ "RereadConfiguration" \in What
    BY <1>3 DEF LeftType
  <2> HIDE DEF What
  <2>2. later' \in Seq(What)
    BY <1>2, <2>1
  <2>3. QED
    BY <2>2 DEF What
<1>6. QED
  BY <1>4, <1>5 DEF LeftType

LEMMA CoreKeeps ==
  ASSUME CoreInv, [Next]_vars
  PROVE  CoreInv'
<1>1. Orderly /\ LeftType /\ LeftType'
  BY LeftKeeps DEF CoreInv
<1>2. CASE UNCHANGED vars
  <2>1. UNCHANGED <<handlers, made, stack, calls, cut, components, waiters>>
    BY <1>2 DEF vars, reventVars, coreVars
  <2>2. QED
    BY <1>1, <2>1, Rests DEF CoreInv
<1>3. CASE Next
  <2>1. \/ \E t \in Threads : Inside(t) \/ Callback(t)
        \/ Main \/ Interrupt \/ _signal_handler_SIGHUP \/ callLater \/ (_forgetMe /\ UNCHANGED coreVars)
    BY <1>3 DEF Next
  <2>2. ASSUME NEW t \in Threads, Inside(t) \/ Callback(t) PROVE Orderly'
    BY <1>1, <2>2, InsideKeeps, CallbackKeeps
  <2>3. ASSUME Main \/ Interrupt PROVE Orderly'
    BY <1>1, <2>3, MainKeeps
  <2>4. ASSUME _signal_handler_SIGHUP \/ callLater \/ (_forgetMe /\ UNCHANGED coreVars) PROVE Orderly'
    BY <1>1, <2>4, LaterKeeps
  <2>5. Orderly'
    BY <2>1, <2>2, <2>3, <2>4
  <2>6. QED
    BY <1>1, <2>5 DEF CoreInv
<1>4. QED
  BY <1>2, <1>3

LEMMA CoreStarts ==
  ASSUME Init
  PROVE  CoreInv
<1>1. /\ handlers = [e \in Events |-> <<>>] /\ stack = [t \in Threads |-> <<>>] /\ made = 0
      /\ waiters = <<>> /\ calls = [s \in Sinks |-> 0] /\ commandLine \in CommandLines /\ later = <<>>
  BY DEF Init, ReventInit
<1>2. LeftType
  BY <1>1, Subscriptions DEF LeftType
<1>3. ListsOK(handlers, made)
  BY <1>1 DEF ListsOK, Ranked
<1>4. StacksOK(stack, handlers, made)
  BY <1>1 DEF StacksOK, Nested
<1>5. Waiting
  BY <1>1 DEF Waiting, ToSet
<1>6. QED
  BY <1>2, <1>3, <1>4, <1>5 DEF CoreInv, Orderly

(* ------------------------------- theorems ------------------------------ *)
LEMMA HeardThen ==
  ASSUME CoreInv
  PROVE  HeardByAll
<1>1. /\ handlers \in [Events -> Seq(Listeners)] /\ \A e \in Events : Ranked(handlers[e], made)
      /\ StacksOK(stack, handlers, made)
  BY DEF CoreInv, Orderly, ListsOK
<1>2. ASSUME NEW f \in Dispatches PROVE f \in RaiseFrames /\ Sound(f, handlers, made)
  <2>1. PICK t \in Threads : f \in ToSet(stack[t])
    BY DEF Dispatches
  <2>2. PICK k \in DOMAIN stack[t] : f = stack[t][k]
    BY <2>1 DEF ToSet
  <2>3. f.kind = "raise"
    BY DEF Dispatches
  <2>4. f \in Frames /\ Sound(f, handlers, made)
    BY <1>1, <2>2, <2>3 DEF StacksOK
  <2>5. QED
    BY <2>3, <2>4, Kinds
<1>3. ASSUME NEW f \in Dispatches, f.at > Len(f.list), NEW x \in f.due,
             NEW entry \in ToSet(handlers[f.event]), entry.eid = x
      PROVE  x \in ToSet(f.heard)
  <2>1. f.event \in Events /\ f.list \in Seq(Listeners)
    BY <1>2 DEF RaiseFrames
  <2>2. Has(handlers[f.event], x)
    BY <1>3 DEF Has, ToSet
  <2>3. PICK i \in DOMAIN f.list : f.list[i].eid = x
    BY <1>2, <2>2 DEF Sound, Has
  <2>4. f.at \in 1 .. Len(f.list) + 1 /\ Len(f.list) \in Nat /\ DOMAIN f.list = 1 .. Len(f.list)
    BY <1>2, <2>1 DEF Sound
  <2>5. i \in 1 .. f.at - 1
    BY <1>3, <2>3, <2>4
  <2>6. QED
    BY <1>2, <2>3, <2>5 DEF Sound
<1>4. ASSUME NEW f \in Dispatches, ~f.moved PROVE Len(f.heard) = Cardinality(ToSet(f.heard))
  <2>1. f.list \in Seq(Listeners) /\ f.heard \in Seq(Nat)
    BY <1>2 DEF RaiseFrames
  <2>2. /\ Len(f.heard) = f.at - 1 /\ f.at \in 1 .. Len(f.list) + 1 /\ Ranked(f.list, made)
        /\ \A i \in 1 .. f.at - 1 : f.heard[i] = f.list[i].eid
    BY <1>2, <1>4 DEF Sound
  <2>3. \A i, j \in 1 .. Len(f.heard) : i < j => f.heard[i] # f.heard[j]
    <3>1. Len(f.list) \in Nat /\ DOMAIN f.list = 1 .. Len(f.list)
      BY <2>1
    <3>2. \A i, j \in DOMAIN f.list : i < j => f.list[i].eid # f.list[j].eid
      BY <2>2 DEF Ranked, Before
    <3>3. \A i \in 1 .. Len(f.heard) : i \in DOMAIN f.list
      BY <2>2, <3>1
    <3>4. QED
      BY <2>2, <3>2, <3>3
  <2>4. Distinct(f.heard)
    <3>1. Len(f.heard) \in Nat /\ DOMAIN f.heard = 1 .. Len(f.heard)
      BY <2>1
    <3>2. \A i, j \in 1 .. Len(f.heard) : i # j => i < j \/ j < i
      BY <3>1
    <3>3. QED
      BY <2>3, <3>1, <3>2 DEF Distinct
  <2>5. QED
    BY <2>1, <2>4, Counted
<1>5. ASSUME NEW e \in Events, NEW i \in DOMAIN handlers[e], NEW j \in DOMAIN handlers[e], i < j
      PROVE  \/ handlers[e][i].priority > handlers[e][j].priority
             \/ /\ handlers[e][i].priority = handlers[e][j].priority
                /\ handlers[e][i].eid < handlers[e][j].eid
  BY <1>1, <1>5 DEF Ranked, Before
<1>6. QED
  BY <1>3, <1>4, <1>5 DEF HeardByAll

LEMMA CalledThen ==
  ASSUME CoreInv
  PROVE  CalledWhenReady
<1>1. Waiting
  BY DEF CoreInv, Orderly
<1>2. ASSUME NEW s \in Sinks PROVE calls[s] <= 1
  <2>1. calls[s] \in 0 .. 1
    BY <1>1 DEF Waiting
  <2>2. QED
    BY <2>1
<1>3. ASSUME ~cut, \A t \in Threads : Searches(stack[t]) = {},
             NEW s \in ToSet(waiters), Ready(s)
      PROVE  FALSE
  <2>1. Covered(stack, s)
    BY <1>1, <1>3 DEF Waiting
  <2>2. QED
    BY <1>3, <2>1 DEF Covered, Covers, Searches
<1>4. QED
  BY <1>1, <1>2, <1>3 DEF CalledWhenReady, Waiting

\* What CoreInv says holds in every state: the lists are in order, each dispatch holds a list
\* with everybody who is due, and those who wait for nothing will be tried.
THEOREM CoreInvariant == Spec => []CoreInv
<1>1. Init => CoreInv
  BY CoreStarts
<1>2. CoreInv /\ [Next]_vars => CoreInv'
  BY CoreKeeps
<1>3. QED
  BY <1>1, <1>2, PTL DEF Spec

\* raiseEvent() calls every listener that was subscribed when it began and still is when it ends,
\* and none twice unless one was added with a priority meanwhile, however many listeners,
\* priorities and threads there are, and whatever the handlers subscribe and unsubscribe.
THEOREM AllHaveHeard == Spec => []HeardByAll
<1>1. CoreInv => HeardByAll
  BY HeardThen
<1>2. QED
  BY <1>1, CoreInvariant, PTL

\* call_when_ready() calls each callback once, when all its components are registered, and forgets
\* none unless an exception of revent, or of a thread that came second, ends a search for them; the
\* next register() finds those too.  Whatever callbacks register or wait for, in whichever threads.
THEOREM AllAreCalled == Spec => []CalledWhenReady
<1>1. CoreInv => CalledWhenReady
  BY CalledThen
<1>2. QED
  BY <1>1, CoreInvariant, PTL
=============================================================================
