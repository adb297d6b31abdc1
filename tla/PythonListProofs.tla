-------------------------- MODULE PythonListProofs --------------------------
(***************************************************************************)
(* About lists of any length: what is left of one that is filtered, lists  *)
(* joined and cut, and lists without repetitions.                          *)
(***************************************************************************)
EXTENDS PythonLists, FiniteSetTheorems, SequenceTheorems, WellFoundedInduction, TLAPS

Distinct(s) == \A i, j \in DOMAIN s : s[i] = s[j] => i = j

\* A set of numbers has a least one, if it has any.
LEMMA LeastNumber ==
  ASSUME NEW T, T \subseteq Nat, T # {}
  PROVE  \E d \in T : \A e \in T : d <= e
<1> DEFINE R == OpToRel(<, Nat)
<1>1. PICK d \in T : \A e \in T : <<e, d>> \notin R
  BY NatLessThanWellFounded, WFMin
<1>2. \A e \in T : <<e, d>> \in R <=> e < d
  BY DEF OpToRel
<1> HIDE DEF R
<1>3. \A e \in T : ~(e < d)
  BY <1>1, <1>2
<1>4. QED
  BY <1>3

\* A set of numbers up to n has a greatest one.
LEMMA GreatestNumber ==
  ASSUME NEW n \in Nat, NEW T, T \subseteq 1..n, T # {}
  PROVE  \E d \in T : \A e \in T : e <= d
<1> DEFINE U == {i \in Nat : n - i \in T}
<1>1. \A j \in T : j \in 1..n /\ n - j \in Nat /\ n - (n - j) = j
  OBVIOUS
<1>2. \A j \in T : n - j \in U
  BY <1>1
<1>3. U # {} /\ U \subseteq Nat
  BY <1>2
<1>4. PICK i \in U : \A j \in U : i <= j
  <2> HIDE DEF U
  <2>1. QED
    BY <1>3, LeastNumber
<1>5. n - i \in T
  BY <1>4
<1>6. ASSUME NEW e \in T PROVE e <= n - i
  <2>1. i <= n - e /\ i \in Nat /\ e \in 1..n
    BY <1>1, <1>2, <1>4
  <2>2. QED
    BY <2>1
<1>7. QED
  BY <1>5, <1>6

\* The function in Without is there: up to each index, and so for the whole list.
IsKept(list, gone, f) ==
  f = [i \in 0..Len(list) |->
         IF i = 0 THEN <<>>
         ELSE IF list[i] \in gone THEN f[i - 1] ELSE Append(f[i - 1], list[i])]
\* The function by which Without is defined exists, for lists of any length.
LEMMA KeptExists ==
  ASSUME NEW list, Len(list) \in Nat, NEW gone
  PROVE  \E f : IsKept(list, gone, f)
<1> DEFINE Then(f, i) == IF i = 0 THEN <<>>
                         ELSE IF list[i] \in gone THEN f[i - 1] ELSE Append(f[i - 1], list[i])
<1> DEFINE Goes(n) == \E f : f = [i \in 0..n |-> Then(f, i)]
<1> DEFINE T == {n \in 0..Len(list) : ~Goes(n)}
<1>1. SUFFICES Goes(Len(list))
  BY DEF IsKept
<1>2. Goes(0)
  <2>1. [i \in 0..0 |-> <<>>] = [i \in 0..0 |-> Then([j \in 0..0 |-> <<>>], i)]
    OBVIOUS
  <2>2. QED
    BY <2>1
<1>3. ASSUME NEW d \in 1..Len(list), Goes(d - 1) PROVE Goes(d)
  <2>1. PICK f : f = [i \in 0..(d - 1) |-> Then(f, i)]
    BY <1>3
  <2> DEFINE g == [i \in 0..d |-> IF i = d THEN Then(f, d) ELSE f[i]]
  <2>2. \A i \in 0..(d - 1) : f[i] = Then(f, i)
    BY <2>1
  <2>3. \A i \in 0..(d - 1) : g[i] = f[i]
    OBVIOUS
  <2>4. ASSUME NEW i \in 0..d PROVE g[i] = Then(g, i)
    <3>1. CASE i = 0
      BY <2>2, <2>3, <3>1
    <3>2. CASE i \in 1..(d - 1)
      <4>1. i - 1 \in 0..(d - 1) /\ i \in 0..(d - 1)
        BY <3>2
      <4>2. g[i - 1] = f[i - 1] /\ g[i] = f[i] /\ f[i] = Then(f, i)
        BY <2>2, <2>3, <4>1
      <4> HIDE DEF g
      <4>3. QED
        BY <3>2, <4>2
    <3>3. CASE i = d
      <4>1. d - 1 \in 0..(d - 1)
        OBVIOUS
      <4>2. g[d - 1] = f[d - 1] /\ g[d] = Then(f, d)
        BY <2>3, <4>1
      <4> HIDE DEF g
      <4>3. QED
        BY <3>3, <4>2
    <3>4. QED
      BY <3>1, <3>2, <3>3
  <2>5. g = [i \in 0..d |-> Then(g, i)]
    BY <2>4
  <2>6. QED
    BY <2>5
<1> HIDE DEF Goes
<1>4. T = {}
  <2>1. SUFFICES ASSUME T # {} PROVE FALSE
    OBVIOUS
  <2>2. PICK d \in T : \A e \in T : d <= e
    <3>1. T \subseteq Nat
      OBVIOUS
    <3> HIDE DEF T
    <3>2. QED
      BY <2>1, <3>1, LeastNumber
  <2>3. d \in 1..Len(list) /\ d - 1 \in 0..Len(list) /\ d - 1 \notin T
    BY <1>2, <2>2
  <2>4. QED
    BY <1>3, <2>2, <2>3
<1>5. QED
  BY <1>4

\* Any two elements of the list "part" stand in the first n places of another list,
\* in the same order.
InOrder(part, list, n) ==
  \A i, j \in DOMAIN part : i < j =>
    \E a, b \in 1..n : a < b /\ part[i] = list[a] /\ part[j] = list[b]

\* What is taken out of a list is gone, the rest is there as often as before, and in
\* the same order.
LEMMA Filtered ==
  ASSUME NEW S, NEW list \in Seq(S), NEW gone
  PROVE  /\ Without(list, gone) \in Seq(S)
         /\ ToSet(Without(list, gone)) = ToSet(list) \ gone
         /\ InOrder(Without(list, gone), list, Len(list))
         /\ Distinct(list) => Distinct(Without(list, gone))
<1> DEFINE Then(f, i) == IF i = 0 THEN <<>>
                         ELSE IF list[i] \in gone THEN f[i - 1] ELSE Append(f[i - 1], list[i])
<1> DEFINE Kept == CHOOSE f : IsKept(list, gone, f)
<1>1. Len(list) \in Nat /\ DOMAIN list = 1..Len(list) /\ \A i \in 1..Len(list) : list[i] \in S
  OBVIOUS
<1>2. Kept = [i \in 0..Len(list) |-> Then(Kept, i)]
  <2>1. Len(list) \in Nat
    BY <1>1
  <2>2. \E f : IsKept(list, gone, f)
    BY <2>1, KeptExists
  <2>3. IsKept(list, gone, Kept)
    BY <2>2
  <2> HIDE DEF Kept
  <2>4. QED
    BY <2>3 DEF IsKept
<1>3. Without(list, gone) = Kept[Len(list)]
  BY DEF Without, IsKept
<1> HIDE DEF Kept
<1> DEFINE Upto(i) == {list[k] : k \in 1..i}
<1> DEFINE Right(i) == /\ Kept[i] \in Seq(S)
                       /\ ToSet(Kept[i]) = Upto(i) \ gone
                       /\ InOrder(Kept[i], list, i)
<1> DEFINE T == {n \in 0..Len(list) : ~Right(n)}
<1>4. Right(0)
  <2>1. Kept[0] = <<>>
    BY <1>1, <1>2
  <2>2. QED
    BY <2>1 DEF ToSet, InOrder
<1>5. ASSUME NEW d \in 1..Len(list), Right(d - 1) PROVE Right(d)
  <2>1. d \in 0..Len(list) /\ d # 0 /\ d - 1 \in 0..Len(list) /\ d \in DOMAIN list
    BY <1>1
  <2>2. Kept[d] = IF list[d] \in gone THEN Kept[d - 1] ELSE Append(Kept[d - 1], list[d])
    BY <1>2, <2>1
  <2>3. Upto(d) = Upto(d - 1) \cup {list[d]}
    <3>1. 1..d = (1..(d - 1)) \cup {d}
      BY <1>1
    <3>2. QED
      BY <3>1
  <2>4. CASE list[d] \in gone
    <3>1. InOrder(Kept[d - 1], list, d)
      BY <1>1, <1>5, <2>1 DEF InOrder
    <3>2. QED
      BY <1>5, <2>2, <2>3, <2>4, <3>1
  <2>5. CASE list[d] \notin gone
    <3> DEFINE k == Kept[d - 1]
    <3>1. k \in Seq(S) /\ ToSet(k) = Upto(d - 1) \ gone /\ InOrder(k, list, d - 1)
      BY <1>5
    <3>2. Kept[d] = Append(k, list[d])
      BY <2>2, <2>5
    <3> HIDE DEF k
    <3>3. /\ Append(k, list[d]) \in Seq(S) /\ DOMAIN k = 1..Len(k) /\ Len(k) \in Nat
          /\ DOMAIN Append(k, list[d]) = 1..(Len(k) + 1)
          /\ Append(k, list[d])[Len(k) + 1] = list[d]
          /\ \A i \in 1..Len(k) : Append(k, list[d])[i] = k[i]
      BY <1>1, <3>1
    <3>4. ToSet(Append(k, list[d])) = ToSet(k) \cup {list[d]}
      <4>1. 1..(Len(k) + 1) = (1..Len(k)) \cup {Len(k) + 1}
        BY <3>3
      <4>2. QED
        BY <3>3, <4>1 DEF ToSet
    <3>5. ASSUME NEW i \in DOMAIN Append(k, list[d]), NEW j \in DOMAIN Append(k, list[d]), i < j
          PROVE  \E a, b \in 1..d :
                   a < b /\ Append(k, list[d])[i] = list[a] /\ Append(k, list[d])[j] = list[b]
      <4>1. i \in 1..Len(k) /\ Append(k, list[d])[i] = k[i]
        BY <3>3, <3>5
      <4>2. CASE j = Len(k) + 1
        <5>1. PICK a \in 1..(d - 1) : k[i] = list[a]
          BY <3>1, <3>3, <4>1 DEF ToSet
        <5>2. a \in 1..d /\ d \in 1..d /\ a < d
          BY <1>1
        <5>3. QED
          BY <3>3, <4>1, <4>2, <5>1, <5>2
      <4>3. CASE j \in 1..Len(k)
        <5> SUFFICES \E a, b \in 1..(d - 1) : a < b /\ k[i] = list[a] /\ k[j] = list[b]
          <6>1. PICK a, b \in 1..(d - 1) : a < b /\ k[i] = list[a] /\ k[j] = list[b]
            OBVIOUS
          <6>2. a \in 1..d /\ b \in 1..d
            BY <1>1
          <6>3. QED
            BY <3>3, <4>1, <4>3, <6>1, <6>2
        <5>1. i \in DOMAIN k /\ j \in DOMAIN k
          BY <3>3, <4>1, <4>3
        <5>2. QED
          BY <3>1, <3>5, <5>1 DEF InOrder
      <4>4. QED
        BY <3>3, <4>2, <4>3
    <3>6. InOrder(Append(k, list[d]), list, d)
      BY <3>5 DEF InOrder
    <3>7. QED
      BY <2>3, <2>5, <3>1, <3>2, <3>3, <3>4, <3>6
  <2>6. QED
    BY <2>4, <2>5
<1>6. Upto(Len(list)) = ToSet(list)
  BY <1>1 DEF ToSet
<1> HIDE DEF Right
<1>7. T = {}
  <2>1. SUFFICES ASSUME T # {} PROVE FALSE
    OBVIOUS
  <2>2. PICK d \in T : \A e \in T : d <= e
    <3>1. T \subseteq Nat
      BY <1>1
    <3> HIDE DEF T
    <3>2. QED
      BY <2>1, <3>1, LeastNumber
  <2>3. d \in 1..Len(list) /\ d - 1 \in 0..Len(list) /\ d - 1 \notin T
    BY <1>1, <1>4, <2>2
  <2>4. QED
    BY <1>5, <2>2, <2>3
<1>8. Right(Len(list))
  BY <1>1, <1>7
<1> DEFINE rest == Without(list, gone)
<1>9. rest \in Seq(S) /\ ToSet(rest) = ToSet(list) \ gone /\ InOrder(rest, list, Len(list))
  BY <1>3, <1>6, <1>8 DEF Right
<1> HIDE DEF rest
<1>10. ASSUME Distinct(list), NEW i \in DOMAIN rest, NEW j \in DOMAIN rest, i < j
       PROVE  rest[i] # rest[j]
  BY <1>1, <1>9, <1>10 DEF InOrder, Distinct
<1>11. DOMAIN rest = 1..Len(rest) /\ Len(rest) \in Nat
  BY <1>9
<1>12. Distinct(list) => Distinct(rest)
  BY <1>10, <1>11 DEF Distinct
<1>13. QED
  BY <1>9, <1>12 DEF rest

\* A list without repetitions is as long as its set is large.
LEMMA Counted ==
  ASSUME NEW S, NEW s \in Seq(S), Distinct(s)
  PROVE  IsFiniteSet(ToSet(s)) /\ Cardinality(ToSet(s)) = Len(s)
<1>1. Len(s) \in Nat /\ DOMAIN s = 1..Len(s)
  OBVIOUS
<1>2. s \in Surjection(1..Len(s), ToSet(s))
  BY <1>1 DEF Surjection, ToSet
<1>3. s \in Injection(1..Len(s), ToSet(s))
  BY <1>1, <1>2 DEF Distinct, Injection, Surjection, IsInjective
<1>4. IsFiniteSet(1..Len(s)) /\ Cardinality(1..Len(s)) = Len(s)
  BY <1>1, FS_Interval
<1>5. QED
  BY <1>2, <1>3, <1>4, FS_Surjection

\* One list behind another, and a part of a list.
LEMMA Joined ==
  ASSUME NEW S, NEW s \in Seq(S), NEW t \in Seq(S)
  PROVE  /\ s \o t \in Seq(S) /\ Len(s \o t) = Len(s) + Len(t)
         /\ ToSet(s \o t) = ToSet(s) \cup ToSet(t)
         /\ Distinct(s \o t) <=> Distinct(s) /\ Distinct(t) /\ ToSet(s) \cap ToSet(t) = {}
<1>1. /\ s \o t \in Seq(S) /\ Len(s \o t) = Len(s) + Len(t)
      /\ Len(s) \in Nat /\ Len(t) \in Nat /\ DOMAIN s = 1..Len(s) /\ DOMAIN t = 1..Len(t)
      /\ DOMAIN (s \o t) = 1..(Len(s) + Len(t))
  OBVIOUS
<1>2. \A i \in 1..Len(s) : i \in DOMAIN (s \o t) /\ (s \o t)[i] = s[i]
  BY <1>1
<1>3. \A i \in 1..Len(t) : Len(s) + i \in DOMAIN (s \o t) /\ (s \o t)[Len(s) + i] = t[i]
  BY <1>1
<1>4. ASSUME NEW i \in DOMAIN (s \o t)
      PROVE  i \in 1..Len(s) \/ \E j \in 1..Len(t) : i = Len(s) + j
  <2>1. i \in 1..Len(s) \/ (i - Len(s) \in 1..Len(t) /\ i = Len(s) + (i - Len(s)))
    BY <1>1
  <2>2. QED
    BY <2>1
<1>5. ToSet(s \o t) = ToSet(s) \cup ToSet(t)
  <2>1. ASSUME NEW x \in ToSet(s \o t) PROVE x \in ToSet(s) \cup ToSet(t)
    <3>1. PICK i \in DOMAIN (s \o t) : x = (s \o t)[i]
      BY DEF ToSet
    <3>2. CASE i \in 1..Len(s)
      BY <1>1, <1>2, <3>1, <3>2 DEF ToSet
    <3>3. CASE \E j \in 1..Len(t) : i = Len(s) + j
      BY <1>1, <1>3, <3>1, <3>3 DEF ToSet
    <3>4. QED
      BY <1>4, <3>2, <3>3
  <2>2. ASSUME NEW x \in ToSet(s) \cup ToSet(t) PROVE x \in ToSet(s \o t)
    <3>1. CASE x \in ToSet(s)
      BY <1>1, <1>2, <3>1 DEF ToSet
    <3>2. CASE x \in ToSet(t)
      BY <1>1, <1>3, <3>2 DEF ToSet
    <3>3. QED
      BY <2>2, <3>1, <3>2
  <2>3. QED
    BY <2>1, <2>2
<1>6. ASSUME Distinct(s \o t)
      PROVE  Distinct(s) /\ Distinct(t) /\ ToSet(s) \cap ToSet(t) = {}
  <2>1. Distinct(s)
    BY <1>1, <1>2, <1>6 DEF Distinct
  <2>2. ASSUME NEW i \in DOMAIN t, NEW j \in DOMAIN t, t[i] = t[j] PROVE i = j
    <3>1. Len(s) + i = Len(s) + j
      BY <1>1, <1>3, <1>6, <2>2 DEF Distinct
    <3>2. QED
      BY <1>1, <3>1
  <2>3. ASSUME NEW i \in DOMAIN s, NEW j \in DOMAIN t PROVE s[i] # t[j]
    <3>1. i # Len(s) + j
      BY <1>1
    <3>2. QED
      BY <1>1, <1>2, <1>3, <1>6, <3>1 DEF Distinct
  <2>4. QED
    BY <2>1, <2>2, <2>3 DEF Distinct, ToSet
<1>7. ASSUME Distinct(s), Distinct(t), ToSet(s) \cap ToSet(t) = {}
      PROVE  Distinct(s \o t)
  <2>1. SUFFICES ASSUME NEW i \in DOMAIN (s \o t), NEW j \in DOMAIN (s \o t), (s \o t)[i] = (s \o t)[j]
                 PROVE  i = j
    BY DEF Distinct
  <2>2. \A a \in 1..Len(s), b \in 1..Len(t) : s[a] # t[b]
    BY <1>1, <1>7 DEF ToSet
  <2>3. CASE i \in 1..Len(s) /\ j \in 1..Len(s)
    BY <1>1, <1>2, <1>7, <2>1, <2>3 DEF Distinct
  <2>4. CASE \E a, b \in 1..Len(t) : i = Len(s) + a /\ j = Len(s) + b
    <3>1. PICK a, b \in 1..Len(t) : i = Len(s) + a /\ j = Len(s) + b
      BY <2>4
    <3>2. t[a] = t[b]
      BY <1>3, <2>1, <3>1
    <3>3. a = b
      BY <1>1, <1>7, <3>2 DEF Distinct
    <3>4. QED
      BY <3>1, <3>3
  <2>5. CASE \/ i \in 1..Len(s) /\ \E b \in 1..Len(t) : j = Len(s) + b
             \/ j \in 1..Len(s) /\ \E b \in 1..Len(t) : i = Len(s) + b
    BY <1>2, <1>3, <2>1, <2>2, <2>5
  <2>6. QED
    BY <1>4, <2>3, <2>4, <2>5
<1>8. QED
  BY <1>1, <1>5, <1>6, <1>7

\* A list cut in two.
LEMMA Cut ==
  ASSUME NEW S, NEW s \in Seq(S), NEW m \in 0..Len(s)
  PROVE  /\ SubSeq(s, 1, m) \in Seq(S) /\ SubSeq(s, m + 1, Len(s)) \in Seq(S)
         /\ Len(SubSeq(s, 1, m)) = m /\ Len(SubSeq(s, m + 1, Len(s))) = Len(s) - m
         /\ SubSeq(s, 1, m) \o SubSeq(s, m + 1, Len(s)) = s
<1>1. Len(s) \in Nat /\ \A i \in 1..Len(s) : s[i] \in S
  OBVIOUS
<1>2. SubSeq(s, 1, m) \in Seq(S) /\ Len(SubSeq(s, 1, m)) = m /\ \A i \in 1..m : SubSeq(s, 1, m)[i] = s[i]
  BY <1>1
<1>3. /\ SubSeq(s, m + 1, Len(s)) \in Seq(S) /\ Len(SubSeq(s, m + 1, Len(s))) = Len(s) - m
      /\ \A i \in 1..(Len(s) - m) : SubSeq(s, m + 1, Len(s))[i] = s[m + i]
  BY <1>1
<1> DEFINE a == SubSeq(s, 1, m)
<1> DEFINE b == SubSeq(s, m + 1, Len(s))
<1>4. a \o b = s
  <2> HIDE DEF a, b
  <2>1. a \in Seq(S) /\ b \in Seq(S) /\ Len(a) = m /\ Len(b) = Len(s) - m
    BY <1>2, <1>3 DEF a, b
  <2>2. a \o b \in Seq(S) /\ Len(a \o b) = Len(s)
    BY <1>1, <2>1
  <2>3. \A i \in 1..Len(s) : (a \o b)[i] = s[i]
    <3>1. \A i \in 1..m : (a \o b)[i] = a[i] /\ a[i] = s[i]
      BY <1>1, <1>2, <2>1 DEF a
    <3>2. \A i \in 1..(Len(s) - m) : (a \o b)[m + i] = b[i] /\ b[i] = s[m + i]
      BY <1>1, <1>3, <2>1 DEF b
    <3>3. ASSUME NEW i \in 1..Len(s), ~(i \in 1..m) PROVE (a \o b)[i] = s[i]
      <4>1. i - m \in 1..(Len(s) - m) /\ m + (i - m) = i
        BY <1>1, <3>3
      <4>2. (a \o b)[m + (i - m)] = s[m + (i - m)]
        BY <3>2, <4>1
      <4>3. QED
        BY <4>1, <4>2
    <3>4. QED
      BY <3>1, <3>3
  <2>4. QED
    BY <2>2, <2>3, SeqEqual
<1>5. QED
  BY <1>2, <1>3, <1>4

\* An element put into a list, at place p.
LEMMA Spliced ==
  ASSUME NEW S, NEW s \in Seq(S), NEW e \in S, NEW p \in 1..(Len(s) + 1)
  PROVE  /\ InsertAt(s, p, e) \in Seq(S) /\ Len(InsertAt(s, p, e)) = Len(s) + 1
         /\ InsertAt(s, p, e)[p] = e
         /\ \A i \in 1..(p - 1) : InsertAt(s, p, e)[i] = s[i]
         /\ \A i \in (p + 1)..(Len(s) + 1) : InsertAt(s, p, e)[i] = s[i - 1]
<1> DEFINE a == SubSeq(s, 1, p - 1)
<1> DEFINE b == a \o <<e>>
<1> DEFINE c == SubSeq(s, p, Len(s))
<1>1. Len(s) \in Nat /\ p - 1 \in 0..Len(s) /\ p \in Nat /\ p # 0
  OBVIOUS
<1>2. a \in Seq(S) /\ Len(a) = p - 1 /\ \A i \in 1..(p - 1) : a[i] = s[i]
  BY <1>1
<1>3. c \in Seq(S) /\ Len(c) = Len(s) + 1 - p /\ \A i \in 1..(Len(s) + 1 - p) : c[i] = s[p + i - 1]
  BY <1>1
<1>4. b \in Seq(S) /\ Len(b) = p /\ b[p] = e /\ \A i \in 1..(p - 1) : b[i] = s[i]
  <2> HIDE DEF a
  <2>1. b \in Seq(S) /\ Len(b) = Len(a) + 1 /\ b[Len(a) + 1] = e /\ \A i \in 1..Len(a) : b[i] = a[i]
    BY <1>2
  <2> HIDE DEF b
  <2>2. QED
    BY <1>1, <1>2, <2>1
<1>5. InsertAt(s, p, e) = b \o c
  BY DEF InsertAt
<1> HIDE DEF a, b, c
<1>6. b \o c \in Seq(S) /\ Len(b \o c) = Len(s) + 1
  <2>1. b \in Seq(S) /\ c \in Seq(S)
    BY <1>3, <1>4
  <2>2. b \o c \in Seq(S) /\ Len(b \o c) = Len(b) + Len(c)
    BY <2>1
  <2>3. QED
    BY <1>1, <1>3, <1>4, <2>2
<1>7. \A i \in 1..p : (b \o c)[i] = b[i]
  BY <1>1, <1>3, <1>4
<1>8. \A i \in 1..(Len(s) + 1 - p) : (b \o c)[p + i] = c[i]
  BY <1>1, <1>3, <1>4
<1>9. ASSUME NEW i \in (p + 1)..(Len(s) + 1) PROVE (b \o c)[i] = s[i - 1]
  <2>1. i - p \in 1..(Len(s) + 1 - p) /\ p + (i - p) = i /\ p + (i - p) - 1 = i - 1
    BY <1>1
  <2>2. (b \o c)[p + (i - p)] = c[i - p] /\ c[i - p] = s[p + (i - p) - 1]
    BY <1>3, <1>8, <2>1
  <2>3. QED
    BY <2>1, <2>2
<1>10. QED
  BY <1>1, <1>4, <1>5, <1>6, <1>7, <1>9

\* The first n elements of a list, and others behind them.
LEMMA Continued ==
  ASSUME NEW S, NEW s \in Seq(S), NEW n \in 0..Len(s), NEW more \in Seq(S), NEW r,
         r = SubSeq(s, 1, n) \o more
  PROVE  /\ r \in Seq(S) /\ DOMAIN r = 1..Len(r) /\ Len(r) = n + Len(more)
         /\ \A i \in 1..n : r[i] = s[i]
         /\ \A i \in 1..Len(more) : r[n + i] = more[i]
         /\ \A k \in DOMAIN r : k \in 1..n \/ \E i \in 1..Len(more) : k = n + i
<1> DEFINE a == SubSeq(s, 1, n)
<1>1. Len(s) \in Nat /\ Len(more) \in Nat /\ n \in Nat
  OBVIOUS
<1>2. a \in Seq(S) /\ Len(a) = n /\ \A i \in 1..n : a[i] = s[i]
  BY <1>1
<1>3. r = a \o more
  OBVIOUS
<1> HIDE DEF a
<1>4. r \in Seq(S) /\ Len(r) = n + Len(more) /\ DOMAIN r = 1..Len(r)
  BY <1>2, <1>3
<1>5. \A i \in 1..n : r[i] = s[i]
  BY <1>1, <1>2, <1>3
<1>6. \A i \in 1..Len(more) : r[n + i] = more[i]
  BY <1>1, <1>2, <1>3
<1>7. ASSUME NEW k \in DOMAIN r, k \notin 1..n PROVE \E i \in 1..Len(more) : k = n + i
  <2>1. k \in 1..(n + Len(more))
    BY <1>4, <1>7
  <2>2. \A u, v \in Nat : \A j \in 1..(u + v) :
          j \notin 1..u => j - u \in 1..v /\ j = u + (j - u)
    OBVIOUS
  <2>3. k - n \in 1..Len(more) /\ k = n + (k - n)
    BY <1>1, <1>7, <2>1, <2>2
  <2>4. QED
    BY <2>3
<1>8. QED
  BY <1>4, <1>5, <1>6, <1>7

\* Elements put at the end of a list, in several ways.
LEMMA Ends ==
  ASSUME NEW S, NEW s \in Seq(S), NEW x \in S, NEW y \in S
  PROVE  /\ SubSeq(s, 1, Len(s)) = s /\ s \o <<>> = s /\ Append(s, x) = s \o <<x>>
         /\ Append(Append(s, x), y) = s \o <<x, y>>
  OBVIOUS

\* A part of a part.
LEMMA Parts ==
  ASSUME NEW S, NEW s \in Seq(S), NEW n \in 0..Len(s), NEW k \in 0..n
  PROVE  /\ SubSeq(s, 1, n) \in Seq(S) /\ Len(SubSeq(s, 1, n)) = n
         /\ SubSeq(SubSeq(s, 1, n), 1, k) = SubSeq(s, 1, k)
<1>1. Len(s) \in Nat /\ n \in Nat /\ k \in Nat /\ n <= Len(s) /\ k <= n
  OBVIOUS
<1>2. SubSeq(s, 1, n) \in Seq(S) /\ Len(SubSeq(s, 1, n)) = n /\ \A i \in 1..n : SubSeq(s, 1, n)[i] = s[i]
  BY <1>1
<1>3. SubSeq(SubSeq(s, 1, n), 1, k) = SubSeq(s, 1, k)
  <2> DEFINE a == SubSeq(s, 1, n)
  <2>1. a \in Seq(S) /\ Len(a) = n /\ \A i \in 1..n : a[i] = s[i]
    BY <1>2
  <2> HIDE DEF a
  <2>2. SubSeq(a, 1, k) \in Seq(S) /\ Len(SubSeq(a, 1, k)) = k /\ \A i \in 1..k : SubSeq(a, 1, k)[i] = a[i]
    BY <1>1, <2>1
  <2>3. SubSeq(s, 1, k) \in Seq(S) /\ Len(SubSeq(s, 1, k)) = k /\ \A i \in 1..k : SubSeq(s, 1, k)[i] = s[i]
    BY <1>1
  <2>4. \A i \in 1..k : SubSeq(a, 1, k)[i] = SubSeq(s, 1, k)[i]
    BY <1>1, <2>1, <2>2, <2>3
  <2>5. SubSeq(a, 1, k) = SubSeq(s, 1, k)
    BY <2>2, <2>3, <2>4, SeqEqual
  <2>6. QED
    BY <2>5 DEF a
<1>4. QED
  BY <1>2, <1>3
=============================================================================
