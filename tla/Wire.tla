------------------------------- MODULE Wire -------------------------------
(* What the classes of libopenflow_01 and nicira have in common: pack, unpack and __len__.      *)
(* A class is a layout: its name c, the type numbers it is registered for, what pack writes     *)
(* (p) and unpack reads (u), and the fixed part n of __len__, to which the lengths of the       *)
(* fields of variable length are added.  The three are written apart from each other in the     *)
(* code, and so they are here.  An object is a record of its fields and its class.              *)
EXTENDS Matches, TLC

(* --------------------------------- fields --------------------------------- *)
U(name, w)     == [k |-> "num", f |-> name, w |-> w]        \* a number
Raw(name, w)   == [k |-> "raw", f |-> name, w |-> w]        \* w bytes as they are
Str(name, w)   == [k |-> "str", f |-> name, w |-> w]        \* a string, filled up with zeros
Pad(w)         == [k |-> "pad", w |-> w]                    \* written as zeros, skipped
Zero(w)        == [k |-> "zero", w |-> w]                   \* written as zeros, asserted to be zero
Size(w)        == [k |-> "size", w |-> w]                   \* len(self)
SizeOf(name, w) == [k |-> "sizeof", f |-> name, w |-> w]    \* bytes of the field name
Rest(name)     == [k |-> "rest", f |-> name]                \* bytes up to the end
Sub(name, s)   == [k |-> "sub", f |-> name, s |-> s]        \* an object of layout s
Many(name, s)  == [k |-> "many", f |-> name, s |-> s]       \* objects of layout s up to the end
AnyOf(name, fam) == [k |-> "any", f |-> name, fam |-> fam]    \* objects of the layouts fam, by type
Body(fam, req) == [k |-> "body", f |-> "body", fam |-> fam, req |-> req]  \* of statistics, by type
MatchOf(flow_mod) == [k |-> "match", f |-> "match", flow_mod |-> flow_mod]
NXMatchField   == [k |-> "nxmatch", f |-> "match"]          \* entries and padding
Specs          == [k |-> "specs", f |-> "spec"]             \* flow_mod_specs and padding
NXClass(name)  == [k |-> "class", f |-> name]               \* the header of an entry's type
OfsBits        == [k |-> "ofsbits"]                         \* offset << 6 | nbits - 1
MaxLen         == [k |-> "maxlen", f |-> "max_len", w |-> 2]  \* written as 0 unless the port is the controller
Raises         == [k |-> "raise"]                           \* code that always raises

Layout(c, types, fields, n) == [c |-> c, t |-> types, p |-> fields, u |-> fields, n |-> n,
                          many |-> FALSE, checks |-> TRUE]
Broken == -1000000                                          \* a __len__ that raises

LayoutFor(fam, c) == fam[CHOOSE i \in DOMAIN fam : fam[i].c = c]

(* --------------------------------- __len__ --------------------------------- *)
Total(ns) == LET total[i \in 0..Len(ns)] == IF i = 0 THEN 0 ELSE total[i - 1] + ns[i] IN total[Len(ns)]

RECURSIVE LenOf(_, _), Pack(_, _), Packs(_, _)

BodyLayout(f, v) == f.fam[CHOOSE i \in DOMAIN f.fam : v.type \in f.fam[i].t]
HasBody(f, v) == \E i \in DOMAIN f.fam : v.type \in f.fam[i].t

FieldLen(f, v) ==
  CASE f.k = "rest" -> Len(v[f.f])
    [] f.k = "many" -> Total([i \in DOMAIN v[f.f] |-> LenOf(f.s, v[f.f][i])])
    [] f.k = "any"  -> Total([i \in DOMAIN v[f.f] |-> LenOf(LayoutFor(f.fam, v[f.f][i].class), v[f.f][i])])
    [] f.k = "body" -> IF ~HasBody(f, v) THEN (IF f.req THEN Broken ELSE Len(v.body))
                       ELSE Total([i \in DOMAIN v.body |->
                              IF f.req THEN (IF Packs(BodyLayout(f, v), v.body[i])
                                             THEN Len(Pack(BodyLayout(f, v), v.body[i])) ELSE Broken)
                                       ELSE LenOf(BodyLayout(f, v), v.body[i])])
    [] f.k = "nxmatch" -> LET n == Len(PackMatch(v[f.f])) IN n + ToEight(n)
    [] f.k = "specs" -> LET n == Len(PackSpecs(v[f.f])) IN n + ToEight(n)
    [] OTHER -> 0
LenOf(s, v) == s.n + Total([i \in DOMAIN s.p |-> FieldLen(s.p[i], v)])

(* ---------------------------------- pack ---------------------------------- *)
SentMaxLen(a) == IF a.port = 65533 THEN a.max_len ELSE 0
PackField(f, s, v) ==
  CASE f.k = "num"  -> BE(v[f.f], f.w)
    [] f.k = "maxlen" -> BE(SentMaxLen(v), f.w)
    [] f.k = "raw"  -> v[f.f]
    [] f.k = "str"  -> Justified(v[f.f], f.w)
    [] f.k \in {"pad", "zero"} -> Zeros(f.w)
    [] f.k = "size" -> BE(LenOf(s, v), f.w)
    [] f.k = "sizeof" -> LET g == s.p[CHOOSE i \in DOMAIN s.p : s.p[i].k \in {"any", "nxmatch"} /\ s.p[i].f = f.f]
                         IN BE(IF g.k = "nxmatch" THEN Len(PackMatch(v[f.f])) ELSE FieldLen(g, v), f.w)
    [] f.k = "rest" -> v[f.f]
    [] f.k = "sub"  -> Pack(f.s, v[f.f])
    [] f.k = "many" -> FlattenSeq([i \in DOMAIN v[f.f] |-> Pack(f.s, v[f.f][i])])
    [] f.k = "any"  -> FlattenSeq([i \in DOMAIN v[f.f] |-> Pack(LayoutFor(f.fam, v[f.f][i].class), v[f.f][i])])
    [] f.k = "body" -> IF HasBody(f, v) THEN FlattenSeq([i \in DOMAIN v.body |-> Pack(BodyLayout(f, v), v.body[i])])
                       ELSE v.body
    [] f.k = "match" -> MatchBytes(v[f.f], f.flow_mod)
    [] f.k = "nxmatch" -> PackMatch(v[f.f]) \o Zeros(ToEight(Len(PackMatch(v[f.f]))))
    [] f.k = "specs" -> PackSpecs(v[f.f]) \o Zeros(ToEight(Len(PackSpecs(v[f.f]))))
    [] f.k = "class" -> NXMHeader(v[f.f].t, FALSE, v[f.f].w)
    [] f.k = "ofsbits" -> BE(64 * v.offset + v.nbits - 1, 2)
Pack(s, v) == FlattenSeq([i \in DOMAIN s.p |-> PackField(s.p[i], s, v)])

\* Whether pack returns at all: its assertions hold and nothing in it raises.
FieldPacks(f, v) ==
  CASE f.k = "str"  -> Len(v[f.f]) <= f.w
    [] f.k = "sub"  -> Packs(f.s, v[f.f])
    [] f.k = "many" -> \A i \in DOMAIN v[f.f] : Packs(f.s, v[f.f][i])
    [] f.k = "any"  -> \A i \in DOMAIN v[f.f] : Packs(LayoutFor(f.fam, v[f.f][i].class), v[f.f][i])
    [] f.k = "body" -> HasBody(f, v) => \A i \in DOMAIN v.body : Packs(BodyLayout(f, v), v.body[i])
    [] f.k = "nxmatch" -> \A i \in DOMAIN v[f.f] : EntryPacks(v[f.f][i])
    [] f.k = "specs" -> \A i \in DOMAIN v[f.f] : v[f.f][i].n_bits < 1024
    [] f.k = "ofsbits" -> v.nbits \in 1..64 /\ v.offset \in 0..1023
    [] f.k = "raise" -> FALSE
    [] OTHER -> TRUE
Packs(s, v) == /\ \A i \in DOMAIN s.p : FieldPacks(s.p[i], v)
               /\ (\E i \in DOMAIN s.p : s.p[i].k = "size") => LenOf(s, v) >= 0

(* ---------------------------------- unpack ---------------------------------- *)
\* A reader: where it is, where the object ends, the size read for a field to come, and what it
\* has read.  bad says that something was raised.
Reader(off, end) == [bad |-> FALSE, start |-> off, off |-> off, end |-> end, size |-> -1, v |-> <<>>]
Fail(r) == [r EXCEPT !.bad = TRUE]
Skip(r, b, n) == IF r.off + n > Len(b) THEN Fail(r) ELSE [r EXCEPT !.off = @ + n]
\* n bytes, that stand for the value x of the field.
Take(r, b, n, f, x) == IF r.off + n > Len(b) THEN Fail(r)
                       ELSE [r EXCEPT !.off = @ + n, !.v = (f.f :> x) @@ @]
Here(r, b, n) == Slice(b, r.off, n)
Items(r, f) == IF f.f \in DOMAIN r.v THEN r.v[f.f] ELSE <<>>

RECURSIVE Unpack(_, _, _, _), UnpackMany(_, _, _, _), UnpackAny(_, _, _, _), UnpackFields(_, _, _, _)

\* An object o is added to those of the field f, and the reader goes on at off.
Added(r, f, off, o) == IF o.bad THEN Fail(r) ELSE [r EXCEPT !.off = off, !.v = (f.f :> Append(Items(r, f), o.v)) @@ @]
Finished(r, f) == [r EXCEPT !.v = (f.f :> Items(r, f)) @@ @]

\* Objects of one layout until the end; one that takes nothing is refused.
NextOne(r, f, o) == Added(r, f, o.off, [o EXCEPT !.bad = @ \/ o.off = r.off])
UnpackMany(r, b, f, stop) ==
  IF r.bad \/ r.off >= stop THEN Finished(r, f)
  ELSE UnpackMany(NextOne(r, f, Unpack(f.s, b, r.off, stop)), b, f, stop)

\* _unpack_actions and _unpack_queue_props: the layout follows from the type, the last layout is
\* that of unknown types; each object is cut out by its own length.
LayoutOfType(fam, t) == IF \E i \in DOMAIN fam : t \in fam[i].t THEN fam[CHOOSE i \in DOMAIN fam : t \in fam[i].t] ELSE Last(fam)
Sized(s, l, o) == [o EXCEPT !.bad = @ \/ LenOf(s, o.v) # l]
NextAny(r, b, f, s, l) ==
  IF r.off + l > Len(b) THEN Fail(r) ELSE Added(r, f, r.off + l, Sized(s, l, Unpack(s, Here(r, b, l), 0, l)))
UnpackAny(r, b, f, stop) ==
  IF r.bad \/ r.off >= stop THEN Finished(r, f)
  ELSE IF r.off + 4 > Len(b) THEN Fail(r)
  ELSE UnpackAny(NextAny(r, b, f, LayoutOfType(f.fam, Num(Here(r, b, 2))), Num(Slice(b, r.off + 2, 2))), b, f, stop)

TakeObject(r, b, f, o) == IF o.bad THEN Fail(r) ELSE Take(r, b, o.off - r.off, f, o.v)
\* The n bytes of statistics of layout s: many objects, or one.
OnlyOne(r, s, n, o) == [bad |-> o.bad \/ (s.p = <<>> /\ n # 0), off |-> r.off + n, v |-> <<o.v>>]
Moved(r, m) == [m EXCEPT !.off = r.off + @]
UnpackBodyAs(r, b, f, s, n) ==
  IF s.many THEN Moved(r, UnpackMany([r EXCEPT !.off = 0], Here(r, b, n), [f |-> "body", s |-> s], n))
  ELSE TakeObject(r, b, f, OnlyOne(r, s, n, Unpack(s, Here(r, b, n), 0, n)))
UnpackBody(r, b, f) ==
  LET n == r.end - r.off IN
  IF r.off + n > Len(b) THEN Fail(r)
  ELSE IF ~HasBody(f, r.v) THEN Take(r, b, n, f, Here(r, b, n))
  ELSE UnpackBodyAs(r, b, f, BodyLayout(f, r.v), n)

\* Entries of n bytes, and the padding after them.
TakePadded(r, b, f, e, es, n) == IF e.bad THEN Fail(r) ELSE Skip(Take(r, b, e.off - r.off, f, es), b, ToEight(n))
TakeEntries(r, b, f, e) == TakePadded(r, b, f, e, e.es, r.size)
TakeSpecs(r, b, f, e) == TakePadded(r, b, f, e, e.ss, e.off - r.off)

UnpackField(r, b, f) ==
  CASE f.k \in {"num", "maxlen"} -> Take(r, b, f.w, f, Num(Here(r, b, f.w)))
    [] f.k = "raw"  -> Take(r, b, f.w, f, Here(r, b, f.w))
    [] f.k = "str"  -> IF r.off + f.w <= Len(b) /\ ~IsZString(Here(r, b, f.w)) THEN Fail(r)
                       ELSE Take(r, b, f.w, f, Stripped(Here(r, b, f.w)))
    [] f.k = "pad"  -> Skip(r, b, f.w)
    [] f.k = "zero" -> IF r.off + f.w <= Len(b) /\ Here(r, b, f.w) # Zeros(f.w) THEN Fail(r) ELSE Skip(r, b, f.w)
    [] f.k = "size" -> IF r.off + f.w > Len(b) THEN Fail(r)
                       ELSE [Skip(r, b, f.w) EXCEPT !.end = r.start + Num(Here(r, b, f.w))]
    [] f.k = "sizeof" -> IF r.off + f.w > Len(b) THEN Fail(r)
                         ELSE [Skip(r, b, f.w) EXCEPT !.size = Num(Here(r, b, f.w))]
    [] f.k = "rest" -> Take(r, b, r.end - r.off, f, Here(r, b, r.end - r.off))
    [] f.k = "sub"  -> TakeObject(r, b, f, Unpack(f.s, b, r.off, Len(b)))
    [] f.k = "many" -> UnpackMany(r, b, f, r.end)
    [] f.k = "any"  -> LET n == IF r.size >= 0 THEN r.size ELSE r.end - r.off IN
                       IF r.off + n > Len(b) THEN Fail(r) ELSE UnpackAny(r, b, f, r.off + n)
    [] f.k = "body" -> UnpackBody(r, b, f)
    [] f.k = "match" -> IF r.off + 40 > Len(b) THEN Fail(r) ELSE Take(r, b, 40, f, ReadMatch(b, r.off, f.flow_mod))
    [] f.k = "nxmatch" -> TakeEntries(r, b, f, ReadEntries(b, r.off, r.off + r.size))
    [] f.k = "specs" -> IF (r.end - r.off) % 2 = 1 THEN Fail(r) ELSE TakeSpecs(r, b, f, ReadSpecs(b, r.off, r.end))
    [] f.k = "class" -> LET t == <<Num(Here(r, b, 2)), b[r.off + 3] \div 2>> IN
                        IF r.off + 4 > Len(b) THEN Fail(r)
                        ELSE Take(r, b, 4, f, IF Registered(t) THEN NXMType(t)
                                              ELSE NXM(t[1], t[2], b[r.off + 4] % 128, b[r.off + 3] % 2 = 1))
    [] f.k = "ofsbits" -> IF r.off + 2 > Len(b) THEN Fail(r)
                          ELSE LET x == Num(Here(r, b, 2)) IN
                               [Skip(r, b, 2) EXCEPT !.v = [offset |-> x \div 64, nbits |-> 1 + (x % 64)] @@ @]
    [] f.k = "raise" -> Fail(r)

UnpackFields(r, b, fs, i) ==
  IF r.bad \/ i > Len(fs) THEN r ELSE UnpackFields(UnpackField(r, b, fs[i]), b, fs, i + 1)

\* The object of layout s in b after the first off bytes, with at most the bytes before end.
\* Most classes assert that they have read as much as their __len__ says.
Object(s, r, v) == [bad |-> IF r.bad THEN TRUE ELSE s.checks /\ r.off - r.start # LenOf(s, v),
                    off |-> r.off, end |-> r.end, v |-> v]
Unpacked(s, r) == Object(s, r, ("class" :> s.c) @@ r.v)
Unpack(s, b, off, end) == Unpacked(s, UnpackFields(Reader(off, end), b, s.u, 1))
==========================================================================
