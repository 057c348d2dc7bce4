----------------------- MODULE ZendGcOperators_proofs -------------------------
(***************************************************************************)
(* Lemmas about what the model of the collector is built from, for any     *)
(* number of objects: the headers and the buffer of roots, the stack of    *)
(* calls, what the counts count, and what references lead to.              *)
(***************************************************************************)
EXTENDS ZendGcInvariant, FiniteSetTheorems, SequenceTheorems, TLAPS

-----------------------------------------------------------------------------
(* The operations on the headers of objects and on the buffer of roots     *)
(* (gc_possible_root(), gc_remove_from_buffer(), gc_compact(),             *)
(* gc_add_garbage()): an object and its slot know each other afterwards,   *)
(* and the tags of all other objects are what they were.                   *)

(* Headers whose counts may be anything: in the middle of a step.          *)
Headers == [refcount : [Node -> Int], color : [Node -> Colors], address : [Node -> Nat],
            buf : Seq(Entry), unused : Seq(Nat)]

(* The parts of the headers, and what a used slot holds.                   *)
LEMMA Fields ==
    ASSUME NEW g \in Headers
    PROVE  /\ g.refcount \in [Node -> Int] /\ g.color \in [Node -> Colors]
           /\ g.address \in [Node -> Nat] /\ g.buf \in Seq(Entry) /\ g.unused \in Seq(Nat)
           /\ Len(g.buf) \in Nat /\ DOMAIN g.buf = 1..Len(g.buf)
           /\ \A i \in DOMAIN g.buf : g.buf[i] \in Entry
           /\ Used(g) \subseteq 1..Len(g.buf)
           /\ \A i \in Used(g) : g.buf[i] \in [ref : Node, tag : {"root", "garbage", "dtor"}]
           /\ \A i \in Used(g) : g.buf[i].ref \in Node /\ g.buf[i].tag \in {"root", "garbage", "dtor"}
<1>1. g.refcount \in [Node -> Int] /\ g.color \in [Node -> Colors]
      /\ g.address \in [Node -> Nat] /\ g.buf \in Seq(Entry) /\ g.unused \in Seq(Nat)
  BY DEF Headers
<1>2. Len(g.buf) \in Nat /\ DOMAIN g.buf = 1..Len(g.buf)
  BY <1>1, LenProperties
<1>3. \A i \in DOMAIN g.buf : g.buf[i] \in Entry
  BY <1>1, <1>2, ElementOfSeq
<1>4. \A e \in Entry : e.tag # "unused" => e \in [ref : Node, tag : {"root", "garbage", "dtor"}]
  BY DEF Entry
<1>5. \A i \in Used(g) : g.buf[i] \in [ref : Node, tag : {"root", "garbage", "dtor"}]
  BY <1>3, <1>4 DEF Used
<1>6. \A e \in [ref : Node, tag : {"root", "garbage", "dtor"}] : e.ref \in Node /\ e.tag \in {"root", "garbage", "dtor"}
  OBVIOUS
<1> QED
  BY <1>1, <1>2, <1>3, <1>5, <1>6, Zenon DEF Used

(* Setting the counts alone.                                               *)
LEMMA SetRefcount ==
    ASSUME NEW g \in Headers, NEW f \in [Node -> Int]
    PROVE  LET h == [g EXCEPT !.refcount = f] IN
           /\ h \in Headers /\ h.refcount = f
           /\ h.color = g.color /\ h.address = g.address /\ h.buf = g.buf /\ h.unused = g.unused
  BY DEF Headers

(* GC_ADDREF() changes one count.                                          *)
LEMMA AddrefIs ==
    ASSUME NEW g \in Headers, NEW n \in Node
    PROVE  LET h == Addref(g, n) IN
           /\ h \in Headers
           /\ \A m \in Node : h.refcount[m] = IF m = n THEN g.refcount[m] + 1 ELSE g.refcount[m]
           /\ h.color = g.color /\ h.address = g.address /\ h.buf = g.buf /\ h.unused = g.unused
<1> DEFINE f == [g.refcount EXCEPT ![n] = @ + 1]
<1>1. f \in [Node -> Int]
  BY Fields
<1>2. Addref(g, n) = [g EXCEPT !.refcount = f]
  BY DEF Addref
<1>3. \A m \in Node : f[m] = IF m = n THEN g.refcount[m] + 1 ELSE g.refcount[m]
  BY Fields
<1> HIDE DEF f
<1> QED
  BY <1>1, <1>2, <1>3, SetRefcount

(* GC_DELREF() changes one count.                                          *)
LEMMA DelrefIs ==
    ASSUME NEW g \in Headers, NEW n \in Node
    PROVE  LET h == Delref(g, n) IN
           /\ h \in Headers
           /\ \A m \in Node : h.refcount[m] = IF m = n THEN g.refcount[m] - 1 ELSE g.refcount[m]
           /\ h.color = g.color /\ h.address = g.address /\ h.buf = g.buf /\ h.unused = g.unused
<1> DEFINE f == [g.refcount EXCEPT ![n] = @ - 1]
<1>1. f \in [Node -> Int]
  BY Fields
<1>2. Delref(g, n) = [g EXCEPT !.refcount = f]
  BY DEF Delref
<1>3. \A m \in Node : f[m] = IF m = n THEN g.refcount[m] - 1 ELSE g.refcount[m]
  BY Fields
<1> HIDE DEF f
<1> QED
  BY <1>1, <1>2, <1>3, SetRefcount

(* GC_REF_SET_COLOR() changes one colour.                                  *)
LEMMA PaintIs ==
    ASSUME NEW g \in Headers, NEW n \in Node, NEW c \in Colors
    PROVE  LET h == Paint(g, n, c) IN
           /\ h \in Headers
           /\ \A m \in Node : h.color[m] = IF m = n THEN c ELSE g.color[m]
           /\ h.refcount = g.refcount /\ h.address = g.address /\ h.buf = g.buf /\ h.unused = g.unused
  BY DEF Headers, Paint

(* The counts of a set of objects change together.                         *)
LEMMA AllOfIs ==
    ASSUME NEW g \in Headers, NEW S, NEW by \in Int
    PROVE  LET h == AllOf(g, S, by) IN
           /\ h \in Headers
           /\ \A m \in Node : h.refcount[m] = IF m \in S THEN g.refcount[m] + by ELSE g.refcount[m]
           /\ h.color = g.color /\ h.address = g.address /\ h.buf = g.buf /\ h.unused = g.unused
<1> DEFINE f == [n \in Node |-> IF n \in S THEN g.refcount[n] + by ELSE g.refcount[n]]
<1>1. f \in [Node -> Int]
  BY Fields
<1>2. AllOf(g, S, by) = [g EXCEPT !.refcount = f]
  BY DEF AllOf
<1>3. \A m \in Node : f[m] = IF m \in S THEN g.refcount[m] + by ELSE g.refcount[m]
  BY Fields
<1> HIDE DEF f
<1> QED
  BY <1>1, <1>2, <1>3, SetRefcount

(* The colours of a set of objects change together.                        *)
LEMMA PaintAllIs ==
    ASSUME NEW g \in Headers, NEW S, NEW c \in Colors
    PROVE  LET h == PaintAll(g, S, c) IN
           /\ h \in Headers
           /\ \A m \in Node : h.color[m] = IF m \in S THEN c ELSE g.color[m]
           /\ h.refcount = g.refcount /\ h.address = g.address /\ h.buf = g.buf /\ h.unused = g.unused
  BY DEF Headers, PaintAll

(* The buffer, its list of unused slots and the addresses decide whether   *)
(* they fit together and what the tags are.                                *)
LEMMA SameBuffer ==
    ASSUME NEW g, NEW h, h.address = g.address, h.buf = g.buf, h.unused = g.unused
    PROVE  /\ Wired(g) => Wired(h)
           /\ Used(h) = Used(g)
           /\ \A n : TagIn(h, n) = TagIn(g, n) /\ (Buffered(h, n) <=> Buffered(g, n))
  BY DEF Wired, Used, Buffered, TagIn

(* A free slot: the first of the list, or one more.                        *)
LEMMA UnusedIs ==
    ASSUME NEW g \in Headers, Wired(g)
    PROVE  /\ \A k \in DOMAIN g.unused : g.unused[k] \in DOMAIN g.buf \ Used(g)
           /\ \A i \in DOMAIN g.buf \ Used(g) : \E k \in DOMAIN g.unused : g.unused[k] = i
           /\ \A k, l \in DOMAIN g.unused : g.unused[k] = g.unused[l] => k = l
           /\ DOMAIN g.unused = 1..Len(g.unused) /\ Len(g.unused) \in Nat
  BY Fields, LenProperties DEF Wired, ToSet, IsInjective

(* Wired speaks of addresses, slots and the list of unused ones only.      *)
LEMMA WiredIs ==
    ASSUME NEW g \in Headers,
           \A n \in Node : Buffered(g, n) => g.address[n] \in Used(g) /\ g.buf[g.address[n]].ref = n,
           \A i \in Used(g) : g.address[g.buf[i].ref] = i,
           \A k \in DOMAIN g.unused : g.unused[k] \in DOMAIN g.buf \ Used(g),
           \A i \in DOMAIN g.buf \ Used(g) : \E k \in DOMAIN g.unused : g.unused[k] = i,
           \A k, l \in DOMAIN g.unused : g.unused[k] = g.unused[l] => k = l
    PROVE  Wired(g)
  BY DEF Wired, ToSet, IsInjective

(* gc_possible_root() and gc_add_garbage() give an object that has none a  *)
(* slot, and leave the others theirs.                                      *)
LEMMA EnterIs ==
    ASSUME NEW g \in Headers, Wired(g), NEW n \in Node, ~Buffered(g, n),
           NEW t \in {"root", "garbage"}, NEW c \in Colors
    PROVE  LET h == Enter(g, n, t, c) IN
           /\ h \in Headers /\ Wired(h)
           /\ h.refcount = g.refcount
           /\ \A m \in Node : h.color[m] = IF m = n THEN c ELSE g.color[m]
           /\ Buffered(h, n) /\ TagIn(h, n) = t
           /\ \A m \in Node \ {n} : h.address[m] = g.address[m] /\ TagIn(h, m) = TagIn(g, m)
           /\ Len(h.buf) >= Len(g.buf)
           /\ g.unused = <<>> => /\ h.unused = <<>> /\ h.address[n] = Len(g.buf) + 1
                                /\ Len(h.buf) = Len(g.buf) + 1
<1> DEFINE i == IF g.unused # <<>> THEN Head(g.unused) ELSE Len(g.buf) + 1
           e == [ref |-> n, tag |-> t]
           u == IF g.unused # <<>> THEN Tail(g.unused) ELSE g.unused
           b == IF i > Len(g.buf) THEN Append(g.buf, e) ELSE [g.buf EXCEPT ![i] = e]
           h == Enter(g, n, t, c)
<1>0. e \in Entry /\ e.ref = n /\ e.tag = t /\ t # "unused"
  BY DEF Entry
<1>1. \/ g.unused = <<>> /\ i = Len(g.buf) + 1
      \/ g.unused # <<>> /\ i = g.unused[1] /\ i \in DOMAIN g.buf /\ i \notin Used(g) /\ 1 \in DOMAIN g.unused
  <2>1. CASE g.unused = <<>>
    BY <2>1
  <2>2. CASE g.unused # <<>>
    <3>1. 1 \in DOMAIN g.unused
      BY <2>2, UnusedIs, Fields, EmptySeq
    <3>2. Head(g.unused) = g.unused[1]
      BY Fields
    <3> QED
      BY <3>1, <3>2, <2>2, UnusedIs
  <2> QED
    BY <2>1, <2>2
<1>2. i \in Nat /\ i >= 1 /\ i \notin Used(g)
  BY <1>1, Fields
<1>3. /\ b \in Seq(Entry) /\ i \in DOMAIN b /\ b[i] = e /\ DOMAIN b = DOMAIN g.buf \cup {i}
      /\ \A j \in DOMAIN g.buf : j # i => b[j] = g.buf[j]
      /\ Len(b) >= Len(g.buf) /\ (g.unused = <<>> => Len(b) = Len(g.buf) + 1)
  <2> HIDE DEF e
  <2>1. CASE i > Len(g.buf)
    <3>1. i = Len(g.buf) + 1 /\ b = Append(g.buf, e)
      BY <2>1, <1>1, Fields
    <3> HIDE DEF i, b
    <3>2. /\ b \in Seq(Entry) /\ Len(b) = Len(g.buf) + 1
          /\ \A j \in 1..Len(g.buf) : b[j] = g.buf[j]
          /\ b[Len(g.buf) + 1] = e
      BY <3>1, <1>0, Fields, AppendProperties
    <3>3. DOMAIN b = 1..(Len(g.buf) + 1)
      BY <3>2, LenProperties
    <3> QED
      BY <3>1, <3>2, <3>3, Fields
  <2>2. CASE ~(i > Len(g.buf))
    <3>1. i \in 1..Len(g.buf) /\ b = [g.buf EXCEPT ![i] = e] /\ g.unused # <<>>
      BY <2>2, <1>1, <1>2, Fields
    <3> HIDE DEF i, b
    <3>2. /\ b \in Seq(Entry) /\ Len(b) = Len(g.buf)
          /\ \A j \in 1..Len(g.buf) : b[j] = IF j = i THEN e ELSE g.buf[j]
      BY <3>1, <1>0, Fields, ExceptSeq
    <3>3. DOMAIN b = 1..Len(g.buf)
      BY <3>2, LenProperties
    <3> QED
      BY <3>1, <3>2, <3>3, Fields
  <2> QED
    BY <2>1, <2>2
<1>4. u \in Seq(Nat) /\ DOMAIN u = 1..Len(u) /\ Len(u) \in Nat
      /\ \/ g.unused = <<>> /\ u = <<>>
         \/ Len(u) = Len(g.unused) - 1 /\ \A k \in DOMAIN u : u[k] = g.unused[k + 1]
  BY Fields, HeadTailProperties, LenProperties
<1>5. h = [g EXCEPT !.address = [@ EXCEPT ![n] = i], !.color = [@ EXCEPT ![n] = c], !.unused = u, !.buf = b]
  BY DEF Enter
<1> HIDE DEF h, u, b, i, e
<1>6. /\ h \in Headers /\ h.refcount = g.refcount /\ h.buf = b /\ h.unused = u
      /\ \A m \in Node : h.color[m] = IF m = n THEN c ELSE g.color[m]
      /\ \A m \in Node : h.address[m] = IF m = n THEN i ELSE g.address[m]
  BY <1>2, <1>3, <1>4, <1>5 DEF Headers
<1>7. Used(h) = Used(g) \cup {i}
  BY <1>0, <1>2, <1>3, <1>6 DEF Used
<1>8. \A j \in Used(g) : h.buf[j] = g.buf[j] /\ g.buf[j].ref # n
  BY <1>2, <1>3, <1>6, Fields DEF Used, Wired, Buffered
<1>9. Wired(h)
  <2>1. \A m \in Node : Buffered(h, m) => h.address[m] \in Used(h) /\ h.buf[h.address[m]].ref = m
    BY <1>0, <1>3, <1>6, <1>7, <1>8 DEF Wired, Buffered
  <2>2. \A j \in Used(h) : h.address[h.buf[j].ref] = j
    BY <1>0, <1>3, <1>6, <1>7, <1>8, Fields DEF Wired
  <2>3. \A k \in DOMAIN u : k \in Nat /\ k >= 1 /\ k + 1 \in DOMAIN g.unused /\ u[k] = g.unused[k + 1]
    BY <1>4, UnusedIs
  <2>4. \A k \in DOMAIN g.unused : k # 1 => k - 1 \in DOMAIN u /\ u[k - 1] = g.unused[k]
    BY <1>4, UnusedIs
  <2>5. \A k \in DOMAIN u : u[k] \in DOMAIN b \ Used(h)
    <3> TAKE k \in DOMAIN u
    <3>1. k + 1 \in DOMAIN g.unused /\ u[k] = g.unused[k + 1] /\ k + 1 # 1
      BY <2>3
    <3>2. g.unused # <<>> /\ i = g.unused[1] /\ 1 \in DOMAIN g.unused
      BY <3>1, <1>1, UnusedIs, EmptySeq
    <3>3. u[k] # i
      BY <3>1, <3>2, UnusedIs
    <3>4. u[k] \in DOMAIN g.buf \ Used(g)
      BY <3>1, UnusedIs
    <3> QED
      BY <3>3, <3>4, <1>3, <1>7
  <2>6. \A j \in DOMAIN b \ Used(h) : \E k \in DOMAIN u : u[k] = j
    BY <2>4, <1>1, <1>3, <1>7, UnusedIs
  <2>7. \A k, l \in DOMAIN u : u[k] = u[l] => k = l
    BY <2>3, UnusedIs
  <2> QED
    BY <1>6, <2>1, <2>2, <2>5, <2>6, <2>7, WiredIs
<1>10. Buffered(h, n) /\ TagIn(h, n) = t
  BY <1>0, <1>2, <1>3, <1>6 DEF Buffered, TagIn
<1>11. \A m \in Node \ {n} : h.address[m] = g.address[m] /\ TagIn(h, m) = TagIn(g, m)
  BY <1>6, <1>8 DEF Buffered, TagIn, Wired
<1>12. Len(h.buf) >= Len(g.buf)
  BY <1>3, <1>6
<1>13. g.unused = <<>> => /\ h.unused = <<>> /\ h.address[n] = Len(g.buf) + 1
                          /\ Len(h.buf) = Len(g.buf) + 1
  BY <1>1, <1>3, <1>4, <1>6, Fields, EmptySeq
<1> QED
  BY <1>6, <1>9, <1>10, <1>11, <1>12, <1>13 DEF h

(* gc_check_possible_root(): a black object outside of the buffer becomes  *)
(* a purple root.                                                          *)
LEMMA PossibleRootIs ==
    ASSUME NEW g \in Headers, Wired(g), NEW n \in Node
    PROVE  LET h == PossibleRoot(g, n) IN
           /\ h \in Headers /\ Wired(h)
           /\ h.refcount = g.refcount /\ Len(h.buf) >= Len(g.buf)
           /\ \A m \in Node \ {n} : /\ h.address[m] = g.address[m] /\ TagIn(h, m) = TagIn(g, m)
                                   /\ h.color[m] = g.color[m]
           /\ IF Buffered(g, n) \/ g.color[n] # "black" THEN h = g
              ELSE Buffered(h, n) /\ TagIn(h, n) = "root" /\ h.color[n] = "purple"
<1>1. CASE Buffered(g, n) \/ g.color[n] # "black"
  BY <1>1, Fields DEF PossibleRoot
<1>2. CASE ~(Buffered(g, n) \/ g.color[n] # "black")
  <2>1. PossibleRoot(g, n) = Enter(g, n, "root", "purple")
    BY <1>2 DEF PossibleRoot
  <2> QED
    BY <2>1, <1>2, EnterIs DEF Colors
<1> QED
  BY <1>1, <1>2

(* GC_REMOVE_FROM_BUFFER(): the slot is free, the object black.            *)
LEMMA RemoveIs ==
    ASSUME NEW g \in Headers, Wired(g), NEW n \in Node
    PROVE  LET h == RemoveFromBuffer(g, n) IN
           /\ h \in Headers /\ Wired(h)
           /\ h.refcount = g.refcount /\ ~Buffered(h, n) /\ TagIn(h, n) = "none"
           /\ \A m \in Node \ {n} : /\ h.address[m] = g.address[m] /\ TagIn(h, m) = TagIn(g, m)
                                   /\ h.color[m] = g.color[m]
           /\ h.color[n] = IF Buffered(g, n) THEN "black" ELSE g.color[n]
           /\ Len(h.buf) = Len(g.buf)
<1>1. CASE ~Buffered(g, n)
  BY <1>1 DEF RemoveFromBuffer, TagIn
<1>2. CASE Buffered(g, n)
  <2> DEFINE i == g.address[n]
             b == [g.buf EXCEPT ![i] = [tag |-> "unused"]]
             u == <<i>> \o g.unused
             h == RemoveFromBuffer(g, n)
  <2>1. i \in Used(g) /\ i \in 1..Len(g.buf) /\ i \in Nat /\ g.buf[i].ref = n
    BY <1>2, Fields DEF Wired
  <2>2. h = [g EXCEPT !.address = [@ EXCEPT ![n] = 0], !.color = [@ EXCEPT ![n] = "black"], !.unused = u, !.buf = b]
    BY <1>2 DEF RemoveFromBuffer, Unlink
  <2>3. [tag |-> "unused"] \in Entry
    BY DEF Entry
  <2>4. /\ b \in Seq(Entry) /\ Len(b) = Len(g.buf) /\ DOMAIN b = DOMAIN g.buf /\ b[i].tag = "unused"
        /\ \A j \in DOMAIN g.buf : j # i => b[j] = g.buf[j]
    <3>1. /\ b \in Seq(Entry) /\ Len(b) = Len(g.buf)
          /\ \A j \in 1..Len(g.buf) : b[j] = IF j = i THEN [tag |-> "unused"] ELSE g.buf[j]
      BY <2>1, <2>3, Fields, ExceptSeq
    <3>2. DOMAIN b = 1..Len(g.buf)
      BY <3>1, LenProperties
    <3> HIDE DEF b, i
    <3> QED
      BY <3>1, <3>2, <2>1, Fields
  <2>5. /\ u \in Seq(Nat) /\ DOMAIN u = 1..(Len(g.unused) + 1) /\ u[1] = i
        /\ \A k \in DOMAIN g.unused : u[k + 1] = g.unused[k]
    BY <2>1, Fields, UnusedIs
  <2> HIDE DEF h, b, u, i
  <2>6. /\ h \in Headers /\ h.refcount = g.refcount /\ h.buf = b /\ h.unused = u
        /\ \A m \in Node : h.color[m] = IF m = n THEN "black" ELSE g.color[m]
        /\ \A m \in Node : h.address[m] = IF m = n THEN 0 ELSE g.address[m]
    BY <2>2, <2>4, <2>5 DEF Headers, Colors
  <2>7. Used(h) = Used(g) \ {i}
    BY <2>1, <2>4, <2>6 DEF Used
  <2>8. \A j \in Used(h) : h.buf[j] = g.buf[j] /\ h.buf[j].ref # n
    BY <2>1, <2>4, <2>6, <2>7, Fields DEF Wired, Used, i
  <2>9. \A m \in Node : Buffered(h, m) => h.address[m] \in Used(h) /\ h.buf[h.address[m]].ref = m
    <3> SUFFICES ASSUME NEW m \in Node, Buffered(h, m)
                 PROVE  h.address[m] \in Used(h) /\ h.buf[h.address[m]].ref = m
      OBVIOUS
    <3>1. m # n /\ h.address[m] = g.address[m] /\ Buffered(g, m)
      BY <2>6 DEF Buffered
    <3>2. g.address[m] \in Used(g) /\ g.buf[g.address[m]].ref = m
      BY <3>1 DEF Wired
    <3>3. g.address[m] # i
      BY <3>1, <3>2, <2>1
    <3> QED
      BY <3>1, <3>2, <3>3, <2>7, <2>8
  <2>10. \A j \in Used(h) : h.address[h.buf[j].ref] = j
    BY <2>6, <2>7, <2>8, Fields DEF Wired
  <2>11. \A k \in DOMAIN u : k = 1 \/ (k - 1 \in DOMAIN g.unused /\ u[k] = g.unused[k - 1])
    BY <2>5, UnusedIs
  <2>12. \A k \in DOMAIN u : u[k] \in DOMAIN b \ Used(h)
    <3> TAKE k \in DOMAIN u
    <3>1. CASE k = 1
      BY <3>1, <2>1, <2>4, <2>5, <2>7, Fields
    <3>2. CASE k # 1
      BY <3>2, <2>4, <2>7, <2>11, UnusedIs
    <3> QED
      BY <3>1, <3>2
  <2>13. \A j \in DOMAIN b \ Used(h) : \E k \in DOMAIN u : u[k] = j
    <3> TAKE j \in DOMAIN b \ Used(h)
    <3>1. CASE j = i
      BY <3>1, <2>5, UnusedIs
    <3>2. CASE j # i
      <4>1. PICK k \in DOMAIN g.unused : g.unused[k] = j
        BY <3>2, <2>4, <2>7, UnusedIs
      <4>2. k + 1 \in DOMAIN u
        BY <4>1, <2>5, UnusedIs
      <4> QED
        BY <4>1, <4>2, <2>5
    <3> QED
      BY <3>1, <3>2
  <2>14. \A k, l \in DOMAIN u : u[k] = u[l] => k = l
    <3> TAKE k \in DOMAIN u, l \in DOMAIN u
    <3>1. k \in Nat /\ l \in Nat
      BY <2>5, UnusedIs
    <3>2. \A j \in DOMAIN g.unused : g.unused[j] # i
      BY <2>1, UnusedIs
    <3> QED
      BY <3>1, <3>2, <2>5, <2>11, UnusedIs
  <2>15. Wired(h)
    BY <2>6, <2>9, <2>10, <2>12, <2>13, <2>14, WiredIs
  <2>16. \A m \in Node \ {n} : TagIn(h, m) = TagIn(g, m)
    BY <2>6, <2>7, <2>8, <2>9 DEF TagIn, Buffered
  <2>17. ~Buffered(h, n)
    BY <2>6 DEF Buffered
  <2> QED
    BY <2>4, <2>6, <2>15, <2>16, <2>17, <1>2 DEF h, TagIn
<1> QED
  BY <1>1, <1>2

(* A list of slots, given slot by slot.                                    *)
LEMMA ListIs ==
    ASSUME NEW k \in Nat, NEW f \in [1..k -> Entry]
    PROVE  f \in Seq(Entry) /\ Len(f) = k /\ DOMAIN f = 1..k
<1>1. f \in Seq(Entry) /\ DOMAIN f = 1..k
  BY SeqDef
<1> QED
  BY <1>1, LenProperties

(* Other tags at the slots S.                                              *)
Retag(g, S, t) ==
    [g EXCEPT !.buf = [i \in DOMAIN g.buf |-> IF i \in S THEN [g.buf[i] EXCEPT !.tag = t] ELSE g.buf[i]]]

(* Slots may change their tags: the wiring stays.                          *)
LEMMA RetagIs ==
    ASSUME NEW g \in Headers, Wired(g), NEW S \in SUBSET Used(g), NEW t \in {"root", "garbage", "dtor"}
    PROVE  LET h == Retag(g, S, t) IN
           /\ h \in Headers /\ Wired(h) /\ Len(h.buf) = Len(g.buf)
           /\ h.refcount = g.refcount /\ h.color = g.color /\ h.address = g.address /\ h.unused = g.unused
           /\ \A m \in Node : TagIn(h, m) = IF g.address[m] \in S THEN t ELSE TagIn(g, m)
<1> DEFINE b == [i \in DOMAIN g.buf |-> IF i \in S THEN [g.buf[i] EXCEPT !.tag = t] ELSE g.buf[i]]
           h == Retag(g, S, t)
<1>0. h = [g EXCEPT !.buf = b]
  BY DEF Retag
<1> HIDE DEF h
<1>1. \A i \in S : i \in DOMAIN g.buf /\ b[i].tag = t /\ b[i].ref = g.buf[i].ref /\ b[i] \in Entry
  BY Fields DEF Entry
<1>2. \A i \in DOMAIN g.buf : i \notin S => b[i] = g.buf[i] /\ b[i] \in Entry
  BY Fields
<1>3. b \in [1..Len(g.buf) -> Entry] /\ DOMAIN b = DOMAIN g.buf
  BY <1>1, <1>2, Fields
<1>4. b \in Seq(Entry) /\ Len(b) = Len(g.buf)
  BY <1>3, Fields, ListIs
<1>5. /\ h \in Headers /\ h.buf = b
      /\ h.refcount = g.refcount /\ h.color = g.color /\ h.address = g.address /\ h.unused = g.unused
  BY <1>0, <1>4 DEF Headers
<1>6. Used(h) = Used(g)
  BY <1>1, <1>2, <1>3, <1>5 DEF Used
<1>7. \A i \in Used(g) : b[i].ref = g.buf[i].ref
  BY <1>1, <1>2, Fields
<1>8. Wired(h)
  BY <1>3, <1>5, <1>6, <1>7 DEF Wired, Buffered
<1>9. \A m \in Node : TagIn(h, m) = IF g.address[m] \in S THEN t ELSE TagIn(g, m)
  BY <1>1, <1>2, <1>5, Fields DEF TagIn, Buffered, Wired
<1> QED
  BY <1>4, <1>5, <1>8, <1>9 DEF h

-----------------------------------------------------------------------------
(* Numbers of a finite set, each given once, are all given.                *)
LEMMA OneToOne ==
    ASSUME NEW F, IsFiniteSet(F), NEW r \in [F -> 0..(Cardinality(F) - 1)],
           \A i, j \in F : r[i] = r[j] => i = j
    PROVE  \A v \in 0..(Cardinality(F) - 1) : \E i \in F : r[i] = v
<1>1. Cardinality(F) \in Nat
  BY FS_CardinalityType
<1> SUFFICES ASSUME NEW v \in 0..(Cardinality(F) - 1), \A i \in F : r[i] # v PROVE FALSE
  OBVIOUS
<1> DEFINE T == (0..(Cardinality(F) - 1)) \ {v}
<1>2. IsFiniteSet(0..(Cardinality(F) - 1)) /\ Cardinality(0..(Cardinality(F) - 1)) = Cardinality(F)
  BY <1>1, FS_Interval
<1>3. IsFiniteSet(T) /\ Cardinality(T) = Cardinality(F) - 1
  BY <1>2, FS_RemoveElement
<1>4. r \in [F -> T]
  OBVIOUS
<1> HIDE DEF T
<1>5. Cardinality(T) < Cardinality(F)
  BY <1>1, <1>3
<1>6. \E i, j \in F : i # j /\ r[i] = r[j]
  BY <1>3, <1>4, <1>5, FS_PigeonHole, Zenon
<1> QED
  BY <1>6

(* A place of a numbered list: how many of F come before it, or after it.  *)
(* Every number below the size of F is the rank of one element.            *)
LEMMA Ranks ==
    ASSUME NEW F \in SUBSET Int, IsFiniteSet(F)
    PROVE  /\ \A i \in F : Before(F, i) \in 0..(Cardinality(F) - 1)
           /\ \A i, j \in F : Before(F, i) = Before(F, j) => i = j
           /\ \A v \in 0..(Cardinality(F) - 1) : \E i \in F : Before(F, i) = v
<1> DEFINE P(i) == {k \in F : k < i}
<1>1. Cardinality(F) \in Nat
  BY FS_CardinalityType
<1>2. \A i \in F : IsFiniteSet(P(i)) /\ Cardinality(P(i)) \in Nat /\ Cardinality(P(i)) < Cardinality(F)
  <2> TAKE i \in F
  <2>1. P(i) \in SUBSET (F \ {i}) /\ P(i) \in SUBSET F
    OBVIOUS
  <2>2. IsFiniteSet(F \ {i}) /\ Cardinality(F \ {i}) = Cardinality(F) - 1
    BY FS_RemoveElement
  <2>3. IsFiniteSet(P(i)) /\ Cardinality(P(i)) <= Cardinality(F \ {i})
    BY <2>1, <2>2, FS_Subset
  <2> HIDE DEF P
  <2>4. Cardinality(P(i)) \in Nat
    BY <2>3, FS_CardinalityType
  <2> QED
    BY <1>1, <2>2, <2>3, <2>4
<1>3. \A i, j \in F : i < j => Cardinality(P(i)) < Cardinality(P(j))
  <2> SUFFICES ASSUME NEW i \in F, NEW j \in F, i < j PROVE Cardinality(P(i)) < Cardinality(P(j))
    OBVIOUS
  <2>0. i \in Int /\ j \in Int /\ i \in P(j)
    OBVIOUS
  <2>1. \A k \in P(i) : k \in P(j) \ {i}
    BY <2>0
  <2>2. IsFiniteSet(P(j)) /\ Cardinality(P(j)) \in Nat /\ Cardinality(P(i)) \in Nat
    BY <1>2
  <2> HIDE DEF P
  <2>3. IsFiniteSet(P(j) \ {i}) /\ Cardinality(P(j) \ {i}) = Cardinality(P(j)) - 1
    BY <2>0, <2>2, FS_RemoveElement
  <2>4. P(i) \in SUBSET (P(j) \ {i})
    BY <2>1
  <2>5. Cardinality(P(i)) <= Cardinality(P(j) \ {i})
    BY <2>3, <2>4, FS_Subset
  <2> QED
    BY <2>2, <2>3, <2>5
<1>4. \A i \in F : Before(F, i) = Cardinality(P(i))
  BY DEF Before
<1> HIDE DEF P
<1>5. \A i \in F : Before(F, i) \in 0..(Cardinality(F) - 1)
  BY <1>1, <1>2, <1>4
<1>6. \A i, j \in F : Before(F, i) = Before(F, j) => i = j
  <2> TAKE i \in F, j \in F
  <2>1. i \in Int /\ j \in Int /\ Before(F, i) \in Int /\ Before(F, j) \in Int
    BY <1>5
  <2>2. i < j => Before(F, i) < Before(F, j)
    BY <1>3, <1>4
  <2>3. j < i => Before(F, j) < Before(F, i)
    BY <1>3, <1>4
  <2> QED
    BY <2>1, <2>2, <2>3
<1> DEFINE r == [i \in F |-> Before(F, i)]
<1>7. r \in [F -> 0..(Cardinality(F) - 1)] /\ \A i \in F : r[i] = Before(F, i)
  BY <1>5
<1> HIDE DEF r
<1>8. r \in [F -> 0..(Cardinality(F) - 1)]
  BY <1>7
<1>9. \A i, j \in F : r[i] = r[j] => i = j
  BY <1>6, <1>7
<1>10. \A v \in 0..(Cardinality(F) - 1) : \E i \in F : r[i] = v
  BY <1>8, <1>9, OneToOne, Zenon
<1> QED
  BY <1>5, <1>6, <1>7, <1>10

(* The same, counted from the end.                                         *)
LEMMA RanksBack ==
    ASSUME NEW F \in SUBSET Int, IsFiniteSet(F)
    PROVE  /\ \A i \in F : After(F, i) \in 0..(Cardinality(F) - 1)
           /\ \A i, j \in F : After(F, i) = After(F, j) => i = j
           /\ \A v \in 0..(Cardinality(F) - 1) : \E i \in F : After(F, i) = v
<1> DEFINE P(i) == {k \in F : k > i}
<1>1. Cardinality(F) \in Nat
  BY FS_CardinalityType
<1>2. \A i \in F : IsFiniteSet(P(i)) /\ Cardinality(P(i)) \in Nat /\ Cardinality(P(i)) < Cardinality(F)
  <2> TAKE i \in F
  <2>1. P(i) \in SUBSET (F \ {i}) /\ P(i) \in SUBSET F
    OBVIOUS
  <2>2. IsFiniteSet(F \ {i}) /\ Cardinality(F \ {i}) = Cardinality(F) - 1
    BY FS_RemoveElement
  <2>3. IsFiniteSet(P(i)) /\ Cardinality(P(i)) <= Cardinality(F \ {i})
    BY <2>1, <2>2, FS_Subset
  <2> HIDE DEF P
  <2>4. Cardinality(P(i)) \in Nat
    BY <2>3, FS_CardinalityType
  <2> QED
    BY <1>1, <2>2, <2>3, <2>4
<1>3. \A i, j \in F : i > j => Cardinality(P(i)) < Cardinality(P(j))
  <2> SUFFICES ASSUME NEW i \in F, NEW j \in F, i > j PROVE Cardinality(P(i)) < Cardinality(P(j))
    OBVIOUS
  <2>0. i \in Int /\ j \in Int /\ i \in P(j)
    OBVIOUS
  <2>1. \A k \in P(i) : k \in P(j) \ {i}
    BY <2>0
  <2>2. IsFiniteSet(P(j)) /\ Cardinality(P(j)) \in Nat /\ Cardinality(P(i)) \in Nat
    BY <1>2
  <2> HIDE DEF P
  <2>3. IsFiniteSet(P(j) \ {i}) /\ Cardinality(P(j) \ {i}) = Cardinality(P(j)) - 1
    BY <2>0, <2>2, FS_RemoveElement
  <2>4. P(i) \in SUBSET (P(j) \ {i})
    BY <2>1
  <2>5. Cardinality(P(i)) <= Cardinality(P(j) \ {i})
    BY <2>3, <2>4, FS_Subset
  <2> QED
    BY <2>2, <2>3, <2>5
<1>4. \A i \in F : After(F, i) = Cardinality(P(i))
  BY DEF After
<1> HIDE DEF P
<1>5. \A i \in F : After(F, i) \in 0..(Cardinality(F) - 1)
  BY <1>1, <1>2, <1>4
<1>6. \A i, j \in F : After(F, i) = After(F, j) => i = j
  <2> TAKE i \in F, j \in F
  <2>1. i \in Int /\ j \in Int /\ After(F, i) \in Int /\ After(F, j) \in Int
    BY <1>5
  <2>2. i > j => After(F, i) < After(F, j)
    BY <1>3, <1>4
  <2>3. j > i => After(F, j) < After(F, i)
    BY <1>3, <1>4
  <2> QED
    BY <2>1, <2>2, <2>3
<1> DEFINE r == [i \in F |-> After(F, i)]
<1>7. r \in [F -> 0..(Cardinality(F) - 1)] /\ \A i \in F : r[i] = After(F, i)
  BY <1>5
<1> HIDE DEF r
<1>8. r \in [F -> 0..(Cardinality(F) - 1)]
  BY <1>7
<1>9. \A i, j \in F : r[i] = r[j] => i = j
  BY <1>6, <1>7
<1>10. \A v \in 0..(Cardinality(F) - 1) : \E i \in F : r[i] = v
  BY <1>8, <1>9, OneToOne, Zenon
<1> QED
  BY <1>5, <1>6, <1>7, <1>10

(* There are as many entries to be moved as slots to move them to.         *)
LEMMA CompactFits ==
    ASSUME NEW g \in Headers
    PROVE  /\ Count(g) \in Nat /\ IsFiniteSet(Free(g)) /\ IsFiniteSet(Beyond(g))
           /\ Cardinality(Free(g)) = Cardinality(Beyond(g))
<1> DEFINE N == Count(g)
<1>1. IsFiniteSet(Used(g)) /\ N \in Nat
  <2>1. IsFiniteSet(1..Len(g.buf))
    <3>1. 1 \in Int /\ Len(g.buf) \in Int
      BY Fields
    <3> QED
      BY <3>1, FS_Interval
  <2>2. IsFiniteSet(Used(g))
    BY <2>1, Fields, FS_Subset
  <2> QED
    BY <2>2, FS_CardinalityType DEF Count
<1>2. IsFiniteSet(1..N) /\ Cardinality(1..N) = N
  BY <1>1, FS_Interval
<1>3. /\ IsFiniteSet(Free(g)) /\ Cardinality(Free(g)) = N - Cardinality((1..N) \cap Used(g))
  BY <1>2, FS_Difference DEF Free
<1>4. /\ IsFiniteSet(Beyond(g)) /\ Cardinality(Beyond(g)) = N - Cardinality(Used(g) \cap (1..N))
  BY <1>1, FS_Difference DEF Beyond, Count
<1>5. (1..N) \cap Used(g) = Used(g) \cap (1..N)
  OBVIOUS
<1> QED
  BY <1>1, <1>3, <1>4, <1>5

(* So the entries are renumbered one to one.                               *)
LEMMA Renumbered ==
    ASSUME NEW g \in Headers
    PROVE  /\ \A i \in 1..Count(g) : Source(g, i) \in Used(g) /\ Target(g, Source(g, i)) = i
           /\ \A j \in Used(g) : Target(g, j) \in 1..Count(g) /\ Source(g, Target(g, j)) = j
<1> DEFINE F == Free(g)
           B == Beyond(g)
<1>1. IsFiniteSet(F) /\ IsFiniteSet(B) /\ Cardinality(F) = Cardinality(B)
  BY CompactFits
<1>2. F \in SUBSET Int /\ B \in SUBSET Int
  BY CompactFits, Fields DEF Free, Beyond
<1> HIDE DEF F, B
<1>3. /\ \A i \in F : Before(F, i) \in 0..(Cardinality(F) - 1)
      /\ \A i, j \in F : Before(F, i) = Before(F, j) => i = j
      /\ \A v \in 0..(Cardinality(F) - 1) : \E i \in F : Before(F, i) = v
  BY <1>1, <1>2, Ranks
<1>4. /\ \A i \in B : After(B, i) \in 0..(Cardinality(F) - 1)
      /\ \A i, j \in B : After(B, i) = After(B, j) => i = j
      /\ \A v \in 0..(Cardinality(F) - 1) : \E i \in B : After(B, i) = v
  BY <1>1, <1>2, RanksBack
<1>5. \A i, j : Takes(g, i, j) <=> Before(F, i) = After(B, j)
  BY DEF Takes, F, B
<1>6. \A i \in F : Source(g, i) \in B /\ Takes(g, i, Source(g, i))
  <2> TAKE i \in F
  <2>1. \E j \in B : Takes(g, i, j)
    BY <1>3, <1>4, <1>5
  <2>2. Source(g, i) = CHOOSE j \in B : Takes(g, i, j)
    BY DEF Source, Free, F, B
  <2> QED
    BY <2>1, <2>2
<1>7. \A j \in B : Target(g, j) \in F /\ Takes(g, Target(g, j), j)
  <2> TAKE j \in B
  <2>1. \E i \in F : Takes(g, i, j)
    BY <1>3, <1>4, <1>5
  <2>2. Target(g, j) = CHOOSE i \in F : Takes(g, i, j)
    BY DEF Target, F, B
  <2> QED
    BY <2>1, <2>2
<1>8. \A i \in F : Target(g, Source(g, i)) = i
  BY <1>3, <1>5, <1>6, <1>7
<1>9. \A j \in B : Source(g, Target(g, j)) = j
  BY <1>4, <1>5, <1>6, <1>7
<1>10. \A i \in (1..Count(g)) \cap Used(g) : Source(g, i) = i /\ Target(g, i) = i
  BY DEF Source, Target, Beyond
<1> QED
  BY <1>6, <1>7, <1>8, <1>9, <1>10 DEF Free, Beyond, F, B

(* gc_compact(): the slots are used up to the number of entries, and every *)
(* object in the buffer is told its new one.                               *)
LEMMA CompactIs ==
    ASSUME NEW g \in Headers, \A i \in Used(g) : g.address[g.buf[i].ref] = i
    PROVE  LET h == Compact(g) IN
           /\ h \in Headers /\ h.refcount = g.refcount /\ h.color = g.color /\ h.unused = <<>>
           /\ Used(h) = 1..Count(g) /\ DOMAIN h.buf = 1..Count(g) /\ Len(h.buf) = Count(g)
           /\ \A n \in Node : g.address[n] \in Used(g) =>
                 h.address[n] \in Used(h) /\ h.buf[h.address[n]] = g.buf[g.address[n]]
           /\ \A n \in Node : g.address[n] \notin Used(g) => h.address[n] = g.address[n]
           /\ \A i \in Used(h) : h.address[h.buf[i].ref] = i
<1> DEFINE N == Count(g)
           b == [i \in 1..N |-> g.buf[Source(g, i)]]
           a == [n \in Node |-> Target(g, g.address[n])]
           h == Compact(g)
<1>1. h = [g EXCEPT !.buf = b, !.unused = <<>>, !.address = a]
  BY DEF Compact
<1>2. N \in Nat
  BY CompactFits
<1>3. \A i \in 1..N : b[i] = g.buf[Source(g, i)] /\ b[i] \in Entry /\ b[i].tag # "unused"
  BY Renumbered, Fields DEF Used
<1>4. b \in Seq(Entry) /\ Len(b) = N /\ DOMAIN b = 1..N
  <2>1. b \in [1..N -> Entry]
    BY <1>3
  <2> HIDE DEF b, N
  <2> QED
    BY <2>1, <1>2, ListIs
<1>5. \A n \in Node : /\ g.address[n] \in Used(g) => a[n] \in 1..N /\ Source(g, a[n]) = g.address[n]
                      /\ g.address[n] \notin Used(g) => a[n] = g.address[n]
  BY Renumbered DEF Target, Beyond
<1>6. a \in [Node -> Nat]
  BY <1>2, <1>5, Fields
<1>0. <<>> \in Seq(Nat)
  BY EmptySeq
<1> HIDE DEF a, b, N, h
<1>7. /\ h \in Headers /\ h.refcount = g.refcount /\ h.color = g.color /\ h.unused = <<>>
      /\ h.buf = b /\ h.address = a
  BY <1>0, <1>1, <1>4, <1>6 DEF Headers
<1>8. Used(h) = 1..N /\ DOMAIN h.buf = 1..N /\ Len(h.buf) = N
  BY <1>3, <1>4, <1>7 DEF Used
<1>9. \A n \in Node : g.address[n] \in Used(g) =>
          h.address[n] \in Used(h) /\ h.buf[h.address[n]] = g.buf[g.address[n]]
  BY <1>3, <1>5, <1>7, <1>8
<1>10. \A i \in Used(h) : h.address[h.buf[i].ref] = i
  <2> TAKE i \in Used(h)
  <2>1. i \in 1..N /\ h.buf[i] = g.buf[Source(g, i)] /\ Source(g, i) \in Used(g) /\ Target(g, Source(g, i)) = i
    BY <1>3, <1>7, <1>8, Renumbered DEF N
  <2>2. h.buf[i].ref \in Node /\ g.address[h.buf[i].ref] = Source(g, i)
    BY <2>1, Fields
  <2>3. a[h.buf[i].ref] = Target(g, Source(g, i))
    BY <2>2 DEF a
  <2> QED
    BY <2>1, <2>3, <1>7
<1> QED
  BY <1>5, <1>7, <1>8, <1>9, <1>10 DEF h, N

(* What compaction leaves: no unused slots, and the entries that there were.*)
LEMMA CompactWired ==
    ASSUME NEW g \in Headers, Wired(g)
    PROVE  LET h == Compact(g) IN
           /\ h \in Headers /\ Wired(h) /\ h.refcount = g.refcount /\ h.color = g.color /\ h.unused = <<>>
           /\ Used(h) = 1..Len(h.buf)
           /\ \A n \in Node : TagIn(h, n) = TagIn(g, n) /\ (Buffered(h, n) <=> Buffered(g, n))
           /\ Used(g) = {} <=> Used(h) = {}
<1> DEFINE h == Compact(g)
<1>1. \A i \in Used(g) : g.address[g.buf[i].ref] = i
  BY DEF Wired
<1>2. /\ h \in Headers /\ h.refcount = g.refcount /\ h.color = g.color /\ h.unused = <<>>
      /\ Used(h) = 1..Count(g) /\ DOMAIN h.buf = 1..Count(g) /\ Len(h.buf) = Count(g)
      /\ \A n \in Node : g.address[n] \in Used(g) =>
            h.address[n] \in Used(h) /\ h.buf[h.address[n]] = g.buf[g.address[n]]
      /\ \A n \in Node : g.address[n] \notin Used(g) => h.address[n] = g.address[n]
      /\ \A i \in Used(h) : h.address[h.buf[i].ref] = i
  BY <1>1, CompactIs
<1> HIDE DEF h
<1>3. \A n \in Node : Buffered(g, n) => g.address[n] \in Used(g) /\ g.buf[g.address[n]].ref = n
  BY DEF Wired
<1>4. 0 \notin Used(g) /\ 0 \notin Used(h)
  BY <1>2, Fields, CompactFits
<1>5. \A n \in Node : Buffered(h, n) <=> Buffered(g, n)
  BY <1>2, <1>3, <1>4 DEF Buffered
<1>6. \A n \in Node : Buffered(h, n) => h.address[n] \in Used(h) /\ h.buf[h.address[n]] = g.buf[g.address[n]]
  BY <1>2, <1>3, <1>5
<1>7. DOMAIN h.unused = {}
  BY <1>2
<1>8. Wired(h)
  BY <1>2, <1>3, <1>5, <1>6, <1>7, WiredIs
<1>9. \A n \in Node : TagIn(h, n) = TagIn(g, n)
  BY <1>5, <1>6 DEF TagIn
<1>10. Used(g) = {} <=> Used(h) = {}
  <2>1. \A i \in Used(g) : g.buf[i].ref \in Node /\ h.address[g.buf[i].ref] \in Used(h)
    <3> TAKE i \in Used(g)
    <3>1. g.buf[i].ref \in Node /\ g.address[g.buf[i].ref] \in Used(g)
      BY <1>1, Fields
    <3> QED
      BY <3>1, <1>2
  <2>2. \A i \in Used(h) : h.buf[i].ref \in Node /\ Buffered(h, h.buf[i].ref)
    BY <1>2, <1>4, Fields DEF Buffered
  <2>3. \A i \in Used(h) : g.address[h.buf[i].ref] \in Used(g)
    BY <2>2, <1>3, <1>5
  <2> QED
    BY <2>1, <2>3
<1> QED
  BY <1>2, <1>5, <1>8, <1>9, <1>10 DEF h

(* Slots fall vacant, before the compaction.                               *)
LEMMA VacateIs ==
    ASSUME NEW g \in Headers, NEW S \in SUBSET Used(g)
    PROVE  LET h == Vacate(g, S) IN
           /\ h \in Headers
           /\ h.refcount = g.refcount /\ h.color = g.color /\ h.address = g.address
           /\ Used(h) = Used(g) \ S
           /\ \A i \in Used(h) : h.buf[i] = g.buf[i]
<1> DEFINE b == [i \in DOMAIN g.buf |-> IF i \in S THEN [tag |-> "unused"] ELSE g.buf[i]]
           h == Vacate(g, S)
<1>1. h = [g EXCEPT !.buf = b]
  BY DEF Vacate
<1>2. [tag |-> "unused"] \in Entry /\ [tag |-> "unused"].tag = "unused"
  BY DEF Entry
<1>3. /\ b \in [1..Len(g.buf) -> Entry] /\ DOMAIN b = DOMAIN g.buf
      /\ \A i \in S : i \in DOMAIN b => b[i].tag = "unused"
      /\ \A i \in DOMAIN b : i \notin S => b[i] = g.buf[i]
  BY <1>2, Fields
<1> HIDE DEF b
<1>4. b \in Seq(Entry)
  BY <1>3, Fields, ListIs
<1> HIDE DEF h
<1>5. h \in Headers /\ h.refcount = g.refcount /\ h.color = g.color /\ h.address = g.address /\ h.buf = b
  BY <1>1, <1>4 DEF Headers
<1>6. Used(h) = Used(g) \ S
  BY <1>3, <1>5 DEF Used
<1>7. \A i \in Used(h) : h.buf[i] = g.buf[i]
  BY <1>3, <1>5, <1>6 DEF Used
<1> QED
  BY <1>5, <1>6, <1>7 DEF h

(* Entries taken out before gc_compact(): their objects are no longer in   *)
(* the buffer, all others are, with their tags.                            *)
LEMMA DropIs ==
    ASSUME NEW g \in Headers, Wired(g), NEW S \in SUBSET Used(g),
           NEW d, d = [Vacate(g, S) EXCEPT !.address = [n \in Node |-> IF g.address[n] \in S THEN 0 ELSE g.address[n]]]
    PROVE  LET h == Compact(d) IN
           /\ h \in Headers /\ Wired(h) /\ h.refcount = g.refcount /\ h.color = g.color /\ h.unused = <<>>
           /\ Used(h) = 1..Len(h.buf)
           /\ \A n \in Node : IF g.address[n] \in S THEN ~Buffered(h, n) /\ TagIn(h, n) = "none"
                              ELSE TagIn(h, n) = TagIn(g, n) /\ (Buffered(h, n) <=> Buffered(g, n))
<1> DEFINE v == Vacate(g, S)
           a == [n \in Node |-> IF g.address[n] \in S THEN 0 ELSE g.address[n]]
           h == Compact(d)
<1>1. /\ v \in Headers
      /\ v.refcount = g.refcount /\ v.color = g.color /\ v.address = g.address
      /\ Used(v) = Used(g) \ S
      /\ \A i \in Used(v) : v.buf[i] = g.buf[i]
  BY VacateIs
<1>2. a \in [Node -> Nat]
  BY Fields
<1>3. d = [v EXCEPT !.address = a]
  OBVIOUS
<1> HIDE DEF v, a
<1>4. d \in Headers /\ d.refcount = g.refcount /\ d.color = g.color /\ d.buf = v.buf /\ d.address = a
  BY <1>1, <1>2, <1>3 DEF Headers
<1>5. Used(d) = Used(g) \ S
  BY <1>1, <1>4 DEF Used
<1>6. \A i \in Used(d) : d.buf[i] = g.buf[i] /\ g.buf[i].ref \in Node /\ d.address[d.buf[i].ref] = i
  BY <1>1, <1>4, <1>5, Fields DEF Wired, a, Used
<1>7. /\ h \in Headers /\ h.refcount = d.refcount /\ h.color = d.color /\ h.unused = <<>>
      /\ Used(h) = 1..Count(d) /\ DOMAIN h.buf = 1..Count(d) /\ Len(h.buf) = Count(d)
      /\ \A n \in Node : d.address[n] \in Used(d) =>
            h.address[n] \in Used(h) /\ h.buf[h.address[n]] = d.buf[d.address[n]]
      /\ \A n \in Node : d.address[n] \notin Used(d) => h.address[n] = d.address[n]
      /\ \A i \in Used(h) : h.address[h.buf[i].ref] = i
  BY <1>4, <1>6, CompactIs
<1> HIDE DEF h
<1>8. 0 \notin Used(d) /\ 0 \notin Used(h) /\ 0 \notin Used(g)
  BY <1>4, <1>7, Fields, CompactFits
<1>9. \A n \in Node : g.address[n] \in S => ~Buffered(h, n)
  BY <1>4, <1>7, <1>8 DEF a, Buffered
<1>10. \A n \in Node : g.address[n] \notin S /\ Buffered(g, n) =>
          /\ Buffered(h, n) /\ h.address[n] \in Used(h)
          /\ h.buf[h.address[n]] = g.buf[g.address[n]] /\ g.buf[g.address[n]].ref = n
  <2> SUFFICES ASSUME NEW n \in Node, g.address[n] \notin S, Buffered(g, n)
               PROVE  /\ Buffered(h, n) /\ h.address[n] \in Used(h)
                      /\ h.buf[h.address[n]] = g.buf[g.address[n]] /\ g.buf[g.address[n]].ref = n
    OBVIOUS
  <2>1. d.address[n] = g.address[n] /\ g.address[n] \in Used(d) /\ g.buf[g.address[n]].ref = n
    BY <1>4, <1>5 DEF a, Wired
  <2>2. h.address[n] \in Used(h) /\ h.buf[h.address[n]] = g.buf[g.address[n]]
    <3>1. d.address[n] \in Used(d)
      BY <2>1
    <3>2. h.address[n] \in Used(h) /\ h.buf[h.address[n]] = d.buf[d.address[n]]
      BY <3>1, <1>7
    <3> QED
      BY <3>1, <3>2, <2>1, <1>6
  <2> QED
    BY <2>1, <2>2, <1>8 DEF Buffered
<1>11. \A n \in Node : ~Buffered(g, n) => ~Buffered(h, n)
  BY <1>4, <1>7, <1>8 DEF a, Buffered
<1>12. Wired(h)
  <2>1. \A n \in Node : Buffered(h, n) => h.address[n] \in Used(h) /\ h.buf[h.address[n]].ref = n
    BY <1>9, <1>10, <1>11
  <2>2. DOMAIN h.unused = {}
    BY <1>7
  <2> QED
    BY <2>1, <2>2, <1>7, WiredIs
<1> QED
  BY <1>4, <1>7, <1>9, <1>10, <1>11, <1>12 DEF h, TagIn

(* Objects T whose memory is given back, and that no slot refers to.       *)
Clear(g, T) ==
    [g EXCEPT !.refcount = [n \in Node |-> IF n \in T THEN 0 ELSE g.refcount[n]],
              !.color = [n \in Node |-> IF n \in T THEN "black" ELSE g.color[n]],
              !.address = [n \in Node |-> IF n \in T THEN 0 ELSE g.address[n]]]

(* Headers of objects whose memory is given back are as Init has them.     *)
LEMMA ClearIs ==
    ASSUME NEW g \in Headers, NEW T \in SUBSET Node,
           \A n \in Node \ T : Buffered(g, n) => g.address[n] \in Used(g) /\ g.buf[g.address[n]].ref = n,
           \A i \in Used(g) : g.address[g.buf[i].ref] = i /\ g.buf[i].ref \notin T,
           ToSet(g.unused) = DOMAIN g.buf \ Used(g), IsInjective(g.unused)
    PROVE  LET h == Clear(g, T) IN
           /\ h \in Headers /\ Wired(h) /\ h.unused = g.unused /\ Used(h) = Used(g) /\ h.buf = g.buf
           /\ \A n \in T : h.refcount[n] = 0 /\ h.color[n] = "black" /\ ~Buffered(h, n) /\ TagIn(h, n) = "none"
           /\ \A n \in Node \ T : /\ h.refcount[n] = g.refcount[n] /\ h.color[n] = g.color[n]
                                   /\ h.address[n] = g.address[n] /\ TagIn(h, n) = TagIn(g, n)
                                   /\ (Buffered(h, n) <=> Buffered(g, n))
<1> DEFINE r == [n \in Node |-> IF n \in T THEN 0 ELSE g.refcount[n]]
           c == [n \in Node |-> IF n \in T THEN "black" ELSE g.color[n]]
           a == [n \in Node |-> IF n \in T THEN 0 ELSE g.address[n]]
           h == Clear(g, T)
<1>1. r \in [Node -> Int] /\ c \in [Node -> Colors] /\ a \in [Node -> Nat]
  BY Fields DEF Colors
<1>2. h = [g EXCEPT !.refcount = r, !.color = c, !.address = a]
  BY DEF Clear
<1> HIDE DEF r, c, a, h
<1>3. h \in Headers /\ h.refcount = r /\ h.color = c /\ h.address = a /\ h.buf = g.buf /\ h.unused = g.unused
  BY <1>1, <1>2 DEF Headers
<1>4. Used(h) = Used(g)
  BY <1>3 DEF Used
<1>5. \A n \in T : h.refcount[n] = 0 /\ h.color[n] = "black" /\ h.address[n] = 0
  BY <1>3 DEF r, c, a
<1>6. \A n \in Node \ T : h.refcount[n] = g.refcount[n] /\ h.color[n] = g.color[n] /\ h.address[n] = g.address[n]
  BY <1>3 DEF r, c, a
<1>7. \A n \in Node : Buffered(h, n) => h.address[n] \in Used(h) /\ h.buf[h.address[n]].ref = n
  BY <1>3, <1>4, <1>5, <1>6 DEF Buffered
<1>8. \A i \in Used(h) : h.address[h.buf[i].ref] = i
  BY <1>3, <1>4, <1>6, Fields
<1>9. ToSet(h.unused) = DOMAIN h.buf \ Used(h) /\ IsInjective(h.unused)
  BY <1>3, <1>4
<1>10. Wired(h)
  BY <1>7, <1>8, <1>9 DEF Wired
<1> QED
  BY <1>3, <1>4, <1>5, <1>6, <1>10 DEF Buffered, TagIn, h

(* Both at once: the slots S become unused, and the memory of their objects*)
(* is given back.                                                          *)
LEMMA SweepIs ==
    ASSUME NEW g \in Headers, Wired(g), NEW S \in SUBSET Used(g), NEW T, T = {g.buf[i].ref : i \in S}
    PROVE  LET h == Clear(Compact(Vacate(g, S)), T) IN
           /\ h \in Headers /\ Wired(h)
           /\ \A n \in T : h.refcount[n] = 0 /\ h.color[n] = "black" /\ ~Buffered(h, n) /\ TagIn(h, n) = "none"
           /\ \A n \in Node \ T : /\ h.refcount[n] = g.refcount[n] /\ h.color[n] = g.color[n]
                                  /\ TagIn(h, n) = TagIn(g, n) /\ (Buffered(h, n) <=> Buffered(g, n))
<1> DEFINE v == Vacate(g, S)
           c == Compact(v)
           h == Clear(c, T)
<1>1. /\ v \in Headers
      /\ v.refcount = g.refcount /\ v.color = g.color /\ v.address = g.address
      /\ Used(v) = Used(g) \ S
      /\ \A i \in Used(v) : v.buf[i] = g.buf[i]
  BY VacateIs
<1>2. c = Compact(v)
  OBVIOUS
<1> HIDE DEF v, c
<1>3. \A i \in Used(v) : v.address[v.buf[i].ref] = i /\ v.buf[i].ref \in Node
  BY <1>1, Fields DEF Wired
<1>4. /\ c \in Headers /\ c.refcount = v.refcount /\ c.color = v.color /\ c.unused = <<>>
      /\ Used(c) = 1..Count(v) /\ DOMAIN c.buf = 1..Count(v)
      /\ \A n \in Node : v.address[n] \in Used(v) =>
            c.address[n] \in Used(c) /\ c.buf[c.address[n]] = v.buf[v.address[n]]
      /\ \A n \in Node : v.address[n] \notin Used(v) => c.address[n] = v.address[n]
      /\ \A i \in Used(c) : c.address[c.buf[i].ref] = i
  BY <1>1, <1>2, <1>3, CompactIs
<1>5. \A i \in Used(c) : \E j \in Used(v) : c.buf[i] = v.buf[j]
  <2> DEFINE b == [i \in 1..Count(v) |-> v.buf[Source(v, i)]]
             a == [n \in Node |-> Target(v, v.address[n])]
  <2>1. c = [v EXCEPT !.buf = b, !.unused = <<>>, !.address = a]
    BY <1>2 DEF Compact
  <2> HIDE DEF a, b
  <2>2. c.buf = b
    BY <2>1, <1>1 DEF Headers
  <2>3. \A i \in 1..Count(v) : c.buf[i] = v.buf[Source(v, i)] /\ Source(v, i) \in Used(v)
    BY <2>2, <1>1, Renumbered DEF b
  <2> QED
    BY <2>3, <1>4
<1>6. \A i \in S : g.buf[i].ref \in Node /\ g.address[g.buf[i].ref] = i
  BY Fields DEF Wired
<1>7. T \in SUBSET Node /\ \A n \in T : g.address[n] \in S
  BY <1>6
<1>8. \A n \in Node : Buffered(g, n) => g.address[n] \in Used(g) /\ g.buf[g.address[n]].ref = n
  BY DEF Wired
<1>9. 0 \notin Used(v) /\ 0 \notin Used(c)
  BY <1>1, <1>4, Fields
<1>10. \A n \in Node \ T : /\ Buffered(g, n) => /\ c.address[n] \in Used(c) /\ Buffered(c, n)
                                               /\ c.buf[c.address[n]] = g.buf[g.address[n]]
                           /\ ~Buffered(g, n) => ~Buffered(c, n)
  <2> SUFFICES ASSUME NEW n \in Node, n \notin T
               PROVE  /\ Buffered(g, n) => /\ c.address[n] \in Used(c) /\ Buffered(c, n)
                                           /\ c.buf[c.address[n]] = g.buf[g.address[n]]
                      /\ ~Buffered(g, n) => ~Buffered(c, n)
    OBVIOUS
  <2>1. CASE Buffered(g, n)
    <3>1. g.address[n] \in Used(v)
      BY <2>1, <1>1, <1>8
    <3>2. v.address[n] \in Used(v) /\ v.buf[v.address[n]] = g.buf[g.address[n]]
      BY <3>1, <1>1
    <3>3. c.address[n] \in Used(c) /\ c.buf[c.address[n]] = v.buf[v.address[n]]
      BY <3>2, <1>4
    <3> QED
      BY <2>1, <3>2, <3>3, <1>9 DEF Buffered
  <2>2. CASE ~Buffered(g, n)
    BY <2>2, <1>1, <1>4, <1>9 DEF Buffered
  <2> QED
    BY <2>1, <2>2
<1>11. \A n \in Node \ T : Buffered(c, n) => c.address[n] \in Used(c) /\ c.buf[c.address[n]].ref = n
  BY <1>8, <1>10
<1>12. \A i \in Used(c) : c.address[c.buf[i].ref] = i /\ c.buf[i].ref \notin T
  <2> TAKE i \in Used(c)
  <2>1. PICK j \in Used(v) : c.buf[i] = v.buf[j]
    BY <1>5
  <2>2. g.address[c.buf[i].ref] = j /\ j \notin S
    BY <2>1, <1>1, <1>3
  <2> QED
    BY <2>2, <1>4, <1>7
<1>13. ToSet(c.unused) = DOMAIN c.buf \ Used(c) /\ IsInjective(c.unused)
  BY <1>4 DEF ToSet, IsInjective
<1>14. /\ h \in Headers /\ Wired(h)
       /\ \A n \in T : h.refcount[n] = 0 /\ h.color[n] = "black" /\ ~Buffered(h, n) /\ TagIn(h, n) = "none"
       /\ \A n \in Node \ T : /\ h.refcount[n] = c.refcount[n] /\ h.color[n] = c.color[n]
                              /\ TagIn(h, n) = TagIn(c, n) /\ (Buffered(h, n) <=> Buffered(c, n))
  <2>1. c \in Headers /\ T \in SUBSET Node
    BY <1>4, <1>7
  <2> QED
    BY ONLY <2>1, <1>11, <1>12, <1>13, ClearIs
<1> HIDE DEF h
<1>15. \A n \in Node \ T : TagIn(c, n) = TagIn(g, n) /\ (Buffered(c, n) <=> Buffered(g, n))
  BY <1>10 DEF TagIn
<1> QED
  BY <1>1, <1>4, <1>14, <1>15 DEF h, c, v

-----------------------------------------------------------------------------
(* Frames and stacks of them.                                              *)
LEMMA FrameIs ==
    ASSUME NEW f \in Frame
    PROVE  /\ f.kind \in {"del", "dtor", "last", "free", "gcdtor", "gcfree", "gc"}
           /\ f.kind # "gc" => f.obj \in Node /\ f.rest \in SUBSET Node
  BY DEF Frame

(* A call is a frame.                                                      *)
LEMMA CallIs ==
    ASSUME NEW k \in {"del", "dtor", "last", "free", "gcdtor", "gcfree"}, NEW n \in Node, NEW S \in SUBSET Node
    PROVE  /\ Call(k, n, S) \in Frame
           /\ Call(k, n, S).kind = k /\ Call(k, n, S).obj = n /\ Call(k, n, S).rest = S
  BY DEF Call, Frame

(* A stack of calls is a sequence of frames.                               *)
LEMMA StackIs ==
    ASSUME NEW F \in Seq(Frame)
    PROVE  /\ Len(F) \in Nat /\ DOMAIN F = 1..Len(F)
           /\ \A i \in DOMAIN F : F[i] \in Frame
           /\ F # <<>> <=> Len(F) \in DOMAIN F
  BY LenProperties, ElementOfSeq, EmptySeq

(* A call is entered.                                                      *)
LEMMA PushIs ==
    ASSUME NEW F \in Seq(Frame), NEW f \in Frame
    PROVE  LET G == Append(F, f) IN
           /\ G \in Seq(Frame) /\ Len(G) = Len(F) + 1 /\ DOMAIN G = 1..(Len(F) + 1) /\ G # <<>>
           /\ DOMAIN F = 1..Len(F) /\ Len(F) \in Nat
           /\ \A i \in DOMAIN F : G[i] = F[i]
           /\ G[Len(F) + 1] = f
  BY AppendProperties, LenProperties

(* A call returns, or becomes another one.                                 *)
LEMMA FrontIs ==
    ASSUME NEW F \in Seq(Frame), F # <<>>
    PROVE  /\ Front(F) \in Seq(Frame) /\ Len(Front(F)) = Len(F) - 1
           /\ F[Len(F)] \in Frame
           /\ \A i \in DOMAIN Front(F) : Front(F)[i] = F[i]
           /\ F = Append(Front(F), F[Len(F)])
           /\ \A f \in Frame : [F EXCEPT ![Len(F)] = f] = Append(Front(F), f)
<1>1. Len(F) \in Nat /\ Len(F) >= 1 /\ Len(F) \in DOMAIN F /\ DOMAIN F = 1..Len(F) /\ F[Len(F)] \in Frame
  BY StackIs
<1>2. /\ Front(F) \in Seq(Frame) /\ Len(Front(F)) = Len(F) - 1
      /\ \A i \in 1..(Len(F) - 1) : Front(F)[i] = F[i]
  <2>1. \A i \in 1..(Len(F) - 1) : F[i] \in Frame
    BY <1>1, StackIs
  <2>2. Len(F) - 1 \in Int /\ 1 \in Int
    BY <1>1
  <2>3. /\ SubSeq(F, 1, Len(F) - 1) \in Seq(Frame)
        /\ Len(SubSeq(F, 1, Len(F) - 1)) = IF 1 <= Len(F) - 1 THEN Len(F) - 1 - 1 + 1 ELSE 0
        /\ \A i \in 1..(Len(F) - 1 - 1 + 1) : SubSeq(F, 1, Len(F) - 1)[i] = F[1 + i - 1]
    BY <2>1, <2>2, SubSeqProperties
  <2> QED
    BY <1>1, <2>3 DEF Front
<1> DEFINE P == Front(F)
<1>3. /\ P \in Seq(Frame) /\ DOMAIN P = 1..(Len(F) - 1) /\ Len(P) = Len(F) - 1 /\ Len(P) + 1 = Len(F)
      /\ \A i \in 1..(Len(F) - 1) : P[i] = F[i]
  BY <1>1, <1>2, StackIs
<1> HIDE DEF P
<1>4. ASSUME NEW f \in Frame
      PROVE  /\ Append(P, f) \in Seq(Frame) /\ Len(Append(P, f)) = Len(F)
             /\ \A i \in 1..Len(F) : Append(P, f)[i] = IF i = Len(F) THEN f ELSE F[i]
  <2>1. /\ Append(P, f) \in Seq(Frame) /\ Len(Append(P, f)) = Len(P) + 1
        /\ \A i \in DOMAIN P : Append(P, f)[i] = P[i]
        /\ Append(P, f)[Len(P) + 1] = f
    BY <1>3, PushIs
  <2>2. \A i \in 1..Len(F) : i # Len(F) => i \in DOMAIN P /\ P[i] = F[i]
    <3>1. Len(F) \in Nat
      BY <1>1
    <3>2. \A i \in 1..Len(F) : i # Len(F) => i \in 1..(Len(F) - 1)
      BY <3>1
    <3> QED
      BY <3>2, <1>3
  <2> QED
    BY <1>3, <2>1, <2>2
<1>5. F = Append(P, F[Len(F)])
  <2> DEFINE G == Append(P, F[Len(F)])
  <2>1. G \in Seq(Frame) /\ Len(G) = Len(F) /\ \A i \in 1..Len(F) : G[i] = F[i]
    BY <1>1, <1>4
  <2> HIDE DEF G
  <2>2. F = G
    BY <2>1, SeqEqual
  <2> QED
    BY <2>2 DEF G
<1>6. ASSUME NEW f \in Frame PROVE [F EXCEPT ![Len(F)] = f] = Append(P, f)
  <2> DEFINE G == Append(P, f)
             H == [F EXCEPT ![Len(F)] = f]
  <2>1. H \in Seq(Frame) /\ Len(H) = Len(F) /\ \A i \in 1..Len(F) : H[i] = IF i = Len(F) THEN f ELSE F[i]
    BY <1>1, ExceptSeq
  <2>2. G \in Seq(Frame) /\ Len(G) = Len(F) /\ \A i \in 1..Len(F) : G[i] = IF i = Len(F) THEN f ELSE F[i]
    BY <1>4
  <2> HIDE DEF G, H
  <2>3. \A i \in 1..Len(H) : H[i] = G[i]
    BY <2>1, <2>2
  <2>4. H = G
    BY <2>1, <2>2, <2>3, SeqEqual
  <2> QED
    BY <2>4 DEF G, H
<1> QED
  BY <1>1, <1>2, <1>3, <1>5, <1>6 DEF P

-----------------------------------------------------------------------------
(* The references that a stack of calls holds.                             *)
Weight(f, n) ==
    (IF f.kind # "gc" /\ n \in f.rest THEN 1 ELSE 0)
    + (IF f.kind \in {"dtor", "gcdtor"} /\ f.obj = n THEN 2 ELSE 0)
    + (IF f.kind \in {"free", "gcfree"} /\ f.obj = n THEN 1 ELSE 0)

(* What a frame adds to the count of an object.                            *)
LEMMA WeightIs == \A f, n : Weight(f, n) \in Nat
  BY DEF Weight

(* The positions of a longer stack at which something holds.               *)
LEMMA OneMore ==
    ASSUME NEW k \in Nat, NEW A \in SUBSET (1..k), NEW c \in BOOLEAN, NEW B,
           B = A \cup (IF c THEN {k + 1} ELSE {})
    PROVE  /\ IsFiniteSet(A) /\ Cardinality(A) \in Nat
           /\ Cardinality(B) = Cardinality(A) + (IF c THEN 1 ELSE 0)
<1>1. IsFiniteSet(1..k)
  BY FS_Interval
<1>2. IsFiniteSet(A) /\ Cardinality(A) \in Nat
  BY <1>1, FS_Subset, FS_CardinalityType
<1>3. k + 1 \notin A
  OBVIOUS
<1>4. Cardinality(A \cup {k + 1}) = Cardinality(A) + 1
  BY <1>2, <1>3, FS_AddElement
<1> QED
  BY <1>2, <1>4

(* A call adds the references that it holds.                               *)
LEMMA HeldPush ==
    ASSUME NEW F \in Seq(Frame), NEW f \in Frame, NEW n
    PROVE  Held(F, n) \in Nat /\ Held(Append(F, f), n) = Held(F, n) + Weight(f, n)
<1> DEFINE G == Append(F, f)
           k == Len(F)
           D == {"dtor", "gcdtor"}
           E == {"free", "gcfree"}
<1>1. /\ DOMAIN G = 1..(k + 1) /\ DOMAIN F = 1..k /\ k \in Nat /\ k + 1 \notin 1..k
      /\ \A i \in 1..k : G[i] = F[i]
      /\ G[k + 1] = f
  BY PushIs
<1> HIDE DEF G, k
<1>2. InRest(G, n) = InRest(F, n) \cup (IF f.kind # "gc" /\ n \in f.rest THEN {k + 1} ELSE {})
  BY <1>1 DEF InRest
<1>3. Calls(G, D, n) = Calls(F, D, n) \cup (IF f.kind \in D /\ f.obj = n THEN {k + 1} ELSE {})
  BY <1>1 DEF Calls
<1>4. Calls(G, E, n) = Calls(F, E, n) \cup (IF f.kind \in E /\ f.obj = n THEN {k + 1} ELSE {})
  BY <1>1 DEF Calls
<1>5. InRest(F, n) \in SUBSET (1..k) /\ Calls(F, D, n) \in SUBSET (1..k) /\ Calls(F, E, n) \in SUBSET (1..k)
  BY <1>1 DEF InRest, Calls
<1>6. /\ Cardinality(InRest(F, n)) \in Nat
      /\ Cardinality(InRest(G, n)) = Cardinality(InRest(F, n)) + (IF f.kind # "gc" /\ n \in f.rest THEN 1 ELSE 0)
  BY <1>1, <1>2, <1>5, OneMore
<1>7. /\ Cardinality(Calls(F, D, n)) \in Nat
      /\ Cardinality(Calls(G, D, n)) = Cardinality(Calls(F, D, n)) + (IF f.kind \in D /\ f.obj = n THEN 1 ELSE 0)
  BY <1>1, <1>3, <1>5, OneMore
<1>8. /\ Cardinality(Calls(F, E, n)) \in Nat
      /\ Cardinality(Calls(G, E, n)) = Cardinality(Calls(F, E, n)) + (IF f.kind \in E /\ f.obj = n THEN 1 ELSE 0)
  BY <1>1, <1>4, <1>5, OneMore
<1>9. /\ Held(F, n) = Cardinality(InRest(F, n)) + 2 * Cardinality(Calls(F, D, n)) + Cardinality(Calls(F, E, n))
      /\ Held(G, n) = Cardinality(InRest(G, n)) + 2 * Cardinality(Calls(G, D, n)) + Cardinality(Calls(G, E, n))
  BY DEF Held
<1> QED
  <2> DEFINE w1 == IF f.kind # "gc" /\ n \in f.rest THEN 1 ELSE 0
             w2 == IF f.kind \in D /\ f.obj = n THEN 1 ELSE 0
             w3 == IF f.kind \in E /\ f.obj = n THEN 1 ELSE 0
  <2>1. Weight(f, n) = w1 + 2 * w2 + w3
    BY DEF Weight
  <2>2. w1 \in Nat /\ w2 \in Nat /\ w3 \in Nat
    OBVIOUS
  <2> HIDE DEF w1, w2, w3
  <2>3. /\ Cardinality(InRest(G, n)) = Cardinality(InRest(F, n)) + w1
        /\ Cardinality(Calls(G, D, n)) = Cardinality(Calls(F, D, n)) + w2
        /\ Cardinality(Calls(G, E, n)) = Cardinality(Calls(F, E, n)) + w3
    BY <1>6, <1>7, <1>8 DEF w1, w2, w3
  <2>4. Held(F, n) \in Nat /\ Held(G, n) = Held(F, n) + Weight(f, n)
    <3>1. Cardinality(InRest(F, n)) \in Nat /\ Cardinality(Calls(F, D, n)) \in Nat /\ Cardinality(Calls(F, E, n)) \in Nat
      BY <1>6, <1>7, <1>8
    <3> HIDE DEF D, E
    <3> QED
      BY <2>1, <2>2, <2>3, <3>1, <1>9
  <2> QED
    BY <2>4 DEF G

(* A call that becomes another one trades its references for those of the  *)
(* other.                                                                  *)
LEMMA HeldTurn ==
    ASSUME NEW F \in Seq(Frame), F # <<>>, NEW f \in Frame, NEW n
    PROVE  /\ Held(F, n) \in Nat /\ Held(Front(F), n) \in Nat
           /\ Held(F, n) = Held(Front(F), n) + Weight(F[Len(F)], n)
           /\ Held([F EXCEPT ![Len(F)] = f], n) = Held(Front(F), n) + Weight(f, n)
<1> USE WeightIs
<1>1. /\ Front(F) \in Seq(Frame) /\ F[Len(F)] \in Frame
      /\ F = Append(Front(F), F[Len(F)]) /\ [F EXCEPT ![Len(F)] = f] = Append(Front(F), f)
  BY FrontIs
<1>2. Held(Front(F), n) \in Nat /\ Held(Append(Front(F), F[Len(F)]), n) = Held(Front(F), n) + Weight(F[Len(F)], n)
  BY <1>1, HeldPush
<1>3. Held(Append(Front(F), f), n) = Held(Front(F), n) + Weight(f, n)
  BY <1>1, HeldPush
<1>4. Held(F, n) = Held(Front(F), n) + Weight(F[Len(F)], n)
  BY <1>1, <1>2, Zenon
<1>5. Held([F EXCEPT ![Len(F)] = f], n) = Held(Front(F), n) + Weight(f, n)
  BY <1>1, <1>3, Zenon
<1> QED
  BY <1>2, <1>4, <1>5

(* Nothing is held if and only if no call holds anything.                  *)
LEMMA HeldZero ==
    ASSUME NEW F \in Seq(Frame), NEW n
    PROVE  /\ Held(F, n) \in Nat
           /\ Held(F, n) = 0 <=> \A i \in DOMAIN F : Weight(F[i], n) = 0
<1> DEFINE D == {"dtor", "gcdtor"}
           E == {"free", "gcfree"}
<1>1. DOMAIN F = 1..Len(F) /\ Len(F) \in Nat
  BY StackIs
<1>2. IsFiniteSet(1..Len(F))
  BY <1>1, FS_Interval
<1>3. InRest(F, n) \in SUBSET (1..Len(F)) /\ Calls(F, D, n) \in SUBSET (1..Len(F)) /\ Calls(F, E, n) \in SUBSET (1..Len(F))
  BY <1>1 DEF InRest, Calls
<1>4. IsFiniteSet(InRest(F, n)) /\ IsFiniteSet(Calls(F, D, n)) /\ IsFiniteSet(Calls(F, E, n))
  BY <1>2, <1>3, FS_Subset
<1>5. /\ Cardinality(InRest(F, n)) \in Nat /\ Cardinality(Calls(F, D, n)) \in Nat /\ Cardinality(Calls(F, E, n)) \in Nat
      /\ Cardinality(InRest(F, n)) = 0 <=> InRest(F, n) = {}
      /\ Cardinality(Calls(F, D, n)) = 0 <=> Calls(F, D, n) = {}
      /\ Cardinality(Calls(F, E, n)) = 0 <=> Calls(F, E, n) = {}
  BY <1>4, FS_CardinalityType, FS_EmptySet
<1>6. Held(F, n) = Cardinality(InRest(F, n)) + 2 * Cardinality(Calls(F, D, n)) + Cardinality(Calls(F, E, n))
  BY DEF Held
<1>7. Held(F, n) \in Nat /\ (Held(F, n) = 0 <=> InRest(F, n) = {} /\ Calls(F, D, n) = {} /\ Calls(F, E, n) = {})
  BY <1>5, <1>6
<1>8. (\A i \in DOMAIN F : Weight(F[i], n) = 0) <=> InRest(F, n) = {} /\ Calls(F, D, n) = {} /\ Calls(F, E, n) = {}
  <2>1. \A i \in DOMAIN F : Weight(F[i], n) = 0 <=>
            i \notin InRest(F, n) /\ i \notin Calls(F, D, n) /\ i \notin Calls(F, E, n)
    BY DEF Weight, InRest, Calls
  <2> QED
    BY <2>1 DEF InRest, Calls
<1> QED
  BY <1>7, <1>8

-----------------------------------------------------------------------------
(* What refers to an object, but for the references of the objects T.      *)
Refs(v, o, T, F, n) ==
    (IF v[n] THEN 1 ELSE 0) + Cardinality({m \in Node : n \in o[m]} \ T) + Held(F, n)

(* What the counts count, with everything it depends on spelled out.       *)
LEMMA CountedIs == \A n : Counted(n) = Refs(var, out, Taken, frames, n)
  BY DEF Counted, Refs, Holders

(* Sets of objects are finite.                                             *)
LEMMA NodesIs ==
    ASSUME NEW A \in SUBSET Node
    PROVE  IsFiniteSet(A) /\ Cardinality(A) \in Nat /\ (Cardinality(A) = 0 <=> A = {})
<1>1. IsFiniteSet(A)
  BY ZendGcAssumption, FS_Subset
<1> QED
  BY <1>1, FS_CardinalityType, FS_EmptySet

(* A set with one object.                                                  *)
LEMMA OneNode ==
    ASSUME NEW A \in SUBSET Node, NEW m, m \notin A
    PROVE  Cardinality(A \cup {m}) = Cardinality(A) + 1
  BY NodesIs, FS_AddElement

(* The parts of the count: the variable, the holders and the calls.        *)
LEMMA RefsIs ==
    ASSUME NEW v \in [Node -> BOOLEAN], NEW o \in [Node -> SUBSET Node], NEW T, NEW F \in Seq(Frame), NEW n \in Node
    PROVE  /\ Refs(v, o, T, F, n) \in Nat
           /\ Refs(v, o, T, F, n) = 0 <=>
                 /\ ~v[n]
                 /\ \A m \in Node : n \in o[m] => m \in T
                 /\ \A i \in DOMAIN F : Weight(F[i], n) = 0
<1> DEFINE A == {m \in Node : n \in o[m]} \ T
<1>1. A \in SUBSET Node
  OBVIOUS
<1>2. A = {} <=> \A m \in Node : n \in o[m] => m \in T
  OBVIOUS
<1> HIDE DEF A
<1>3. Cardinality(A) \in Nat /\ (Cardinality(A) = 0 <=> A = {})
  BY <1>1, NodesIs
<1>4. Held(F, n) \in Nat /\ (Held(F, n) = 0 <=> \A i \in DOMAIN F : Weight(F[i], n) = 0)
  BY HeldZero
<1> DEFINE Z == \A i \in DOMAIN F : Weight(F[i], n) = 0
           Y == \A m \in Node : n \in o[m] => m \in T
<1>5. Refs(v, o, T, F, n) = (IF v[n] THEN 1 ELSE 0) + Cardinality(A) + Held(F, n)
  BY DEF Refs, A
<1> HIDE DEF Y, Z
<1>6. Refs(v, o, T, F, n) \in Nat /\ (Refs(v, o, T, F, n) = 0 <=> ~v[n] /\ Y /\ Z)
  BY <1>2, <1>3, <1>4, <1>5 DEF Y, Z
<1> QED
  BY <1>6 DEF Y, Z

(* The count is a number.                                                  *)
LEMMA RefsNat ==
    ASSUME NEW v \in [Node -> BOOLEAN], NEW o \in [Node -> SUBSET Node], NEW T, NEW F \in Seq(Frame)
    PROVE  \A n \in Node : Refs(v, o, T, F, n) \in Nat
  BY RefsIs

(* Nothing counted means that nothing refers to the object.                *)
LEMMA RefsZero ==
    ASSUME NEW v \in [Node -> BOOLEAN], NEW o \in [Node -> SUBSET Node], NEW T, NEW F \in Seq(Frame), NEW n \in Node,
           ~v[n], \A m \in Node : n \in o[m] => m \in T, \A i \in DOMAIN F : Weight(F[i], n) = 0
    PROVE  Refs(v, o, T, F, n) = 0
  BY RefsIs, Zenon

(* And the other way round.                                                *)
LEMMA RefsNone ==
    ASSUME NEW v \in [Node -> BOOLEAN], NEW o \in [Node -> SUBSET Node], NEW T, NEW F \in Seq(Frame)
    PROVE  \A n \in Node :
               Refs(v, o, T, F, n) = 0 =>
                   /\ ~v[n]
                   /\ \A m \in Node : n \in o[m] => m \in T
                   /\ \A i \in DOMAIN F : Weight(F[i], n) = 0
<1> SUFFICES ASSUME NEW n \in Node, Refs(v, o, T, F, n) = 0
             PROVE  /\ ~v[n]
                    /\ \A m \in Node : n \in o[m] => m \in T
                    /\ \A i \in DOMAIN F : Weight(F[i], n) = 0
  OBVIOUS
<1> DEFINE A == {m \in Node : n \in o[m]} \ T
<1>1. A \in SUBSET Node
  OBVIOUS
<1>2. A = {} => \A m \in Node : n \in o[m] => m \in T
  OBVIOUS
<1> HIDE DEF A
<1>3. Cardinality(A) \in Nat /\ (Cardinality(A) = 0 => A = {})
  BY <1>1, NodesIs
<1>4. Held(F, n) \in Nat /\ (Held(F, n) = 0 => \A i \in DOMAIN F : Weight(F[i], n) = 0)
  BY HeldZero
<1>5. (IF v[n] THEN 1 ELSE 0) + Cardinality(A) + Held(F, n) = 0
  BY DEF Refs, A
<1>6. ~v[n] /\ Cardinality(A) = 0 /\ Held(F, n) = 0
  BY <1>3, <1>4, <1>5
<1> QED
  BY <1>2, <1>3, <1>4, <1>6

(* A variable that is set or unset is one reference.                       *)
LEMMA RefsVar ==
    ASSUME NEW v \in [Node -> BOOLEAN], NEW k \in Node, ~v[k],
           NEW w \in [Node -> BOOLEAN], w[k], \A i \in Node : i # k => w[i] = v[i],
           NEW o \in [Node -> SUBSET Node], NEW T, NEW F \in Seq(Frame), NEW n \in Node
    PROVE  Refs(w, o, T, F, n) = Refs(v, o, T, F, n) + IF n = k THEN 1 ELSE 0
<1> DEFINE A == {m \in Node : n \in o[m]} \ T
<1>1. A \in SUBSET Node
  OBVIOUS
<1> HIDE DEF A
<1>2. Cardinality(A) \in Nat /\ Held(F, n) \in Nat
  BY <1>1, NodesIs, HeldZero
<1>3. /\ Refs(v, o, T, F, n) = (IF v[n] THEN 1 ELSE 0) + Cardinality(A) + Held(F, n)
      /\ Refs(w, o, T, F, n) = (IF w[n] THEN 1 ELSE 0) + Cardinality(A) + Held(F, n)
  BY DEF Refs, A
<1> QED
  BY <1>2, <1>3

(* One holder more or less.                                                *)
LEMMA OneHolder ==
    ASSUME NEW A \in SUBSET Node, NEW m, NEW c \in BOOLEAN, c => m \notin A,
           NEW B, B = A \cup (IF c THEN {m} ELSE {})
    PROVE  Cardinality(A) \in Nat /\ Cardinality(B) = Cardinality(A) + IF c THEN 1 ELSE 0
<1>1. Cardinality(A) \in Nat
  BY NodesIs
<1>2. CASE c
  <2>1. B = A \cup {m} /\ m \notin A
    BY <1>2
  <2>2. Cardinality(A \cup {m}) = Cardinality(A) + 1
    BY <2>1, OneNode
  <2> QED
    BY <1>1, <1>2, <2>1, <2>2
<1>3. CASE ~c
  BY <1>1, <1>3
<1> QED
  BY <1>2, <1>3

(* The references of an object are taken; some of them are cut.            *)
LEMMA RefsTake ==
    ASSUME NEW v \in [Node -> BOOLEAN], NEW F \in Seq(Frame), NEW n \in Node, NEW m \in Node,
           NEW o \in [Node -> SUBSET Node], NEW T, m \notin T
    PROVE  Refs(v, o, T, F, n) = Refs(v, o, T \cup {m}, F, n) + IF n \in o[m] THEN 1 ELSE 0
<1> DEFINE c == n \in o[m]
           A == {k \in Node : n \in o[k]} \ (T \cup {m})
           B == {k \in Node : n \in o[k]} \ T
<1>1. A \in SUBSET Node /\ B = A \cup (IF c THEN {m} ELSE {}) /\ (c => m \notin A) /\ c \in BOOLEAN
  OBVIOUS
<1>2. /\ Refs(v, o, T, F, n) = (IF v[n] THEN 1 ELSE 0) + Cardinality(B) + Held(F, n)
      /\ Refs(v, o, T \cup {m}, F, n) = (IF v[n] THEN 1 ELSE 0) + Cardinality(A) + Held(F, n)
  BY DEF Refs
<1> HIDE DEF c, A, B
<1>3. Cardinality(A) \in Nat /\ Cardinality(B) = Cardinality(A) + IF c THEN 1 ELSE 0
  BY <1>1, OneHolder
<1>4. Held(F, n) \in Nat
  BY HeldZero
<1>5. Refs(v, o, T, F, n) = Refs(v, o, T \cup {m}, F, n) + IF c THEN 1 ELSE 0
  BY <1>2, <1>3, <1>4
<1> QED
  BY <1>5 DEF c

(* A property that is assigned or unset is one reference.                  *)
LEMMA RefsEdge ==
    ASSUME NEW v \in [Node -> BOOLEAN], NEW F \in Seq(Frame), NEW n \in Node, NEW m \in Node,
           NEW o \in [Node -> SUBSET Node], NEW p \in [Node -> SUBSET Node],
           o[m] \subseteq p[m], \A k \in Node : k # m => p[k] = o[k], NEW T, m \notin T
    PROVE  Refs(v, p, T, F, n) = Refs(v, o, T, F, n) + IF n \in p[m] /\ n \notin o[m] THEN 1 ELSE 0
<1> DEFINE c == n \in p[m] /\ n \notin o[m]
           A == {k \in Node : n \in o[k]} \ T
           B == {k \in Node : n \in p[k]} \ T
<1>1. A \in SUBSET Node /\ B = A \cup (IF c THEN {m} ELSE {}) /\ (c => m \notin A) /\ c \in BOOLEAN
  OBVIOUS
<1>2. /\ Refs(v, o, T, F, n) = (IF v[n] THEN 1 ELSE 0) + Cardinality(A) + Held(F, n)
      /\ Refs(v, p, T, F, n) = (IF v[n] THEN 1 ELSE 0) + Cardinality(B) + Held(F, n)
  BY DEF Refs
<1> HIDE DEF c, A, B
<1>3. Cardinality(A) \in Nat /\ Cardinality(B) = Cardinality(A) + IF c THEN 1 ELSE 0
  BY <1>1, OneHolder
<1>4. Held(F, n) \in Nat
  BY HeldZero
<1>5. Refs(v, p, T, F, n) = Refs(v, o, T, F, n) + IF c THEN 1 ELSE 0
  BY <1>2, <1>3, <1>4
<1> QED
  BY <1>5 DEF c

(* An object that is taken to pieces holds nothing any more.               *)
LEMMA RefsGone ==
    ASSUME NEW v \in [Node -> BOOLEAN], NEW F \in Seq(Frame), NEW n \in Node, NEW m \in Node,
           NEW o \in [Node -> SUBSET Node],
           NEW p \in [Node -> SUBSET Node], p[m] = {}, \A k \in Node : k # m => p[k] = o[k], NEW T, m \notin T
    PROVE  Refs(v, o, T, F, n) = Refs(v, p, T, F, n) + IF n \in o[m] THEN 1 ELSE 0
<1> DEFINE c == n \in o[m]
           A == {k \in Node : n \in p[k]} \ T
           B == {k \in Node : n \in o[k]} \ T
<1>1. A \in SUBSET Node /\ B = A \cup (IF c THEN {m} ELSE {}) /\ (c => m \notin A) /\ c \in BOOLEAN
  OBVIOUS
<1>2. /\ Refs(v, o, T, F, n) = (IF v[n] THEN 1 ELSE 0) + Cardinality(B) + Held(F, n)
      /\ Refs(v, p, T, F, n) = (IF v[n] THEN 1 ELSE 0) + Cardinality(A) + Held(F, n)
  BY DEF Refs
<1> HIDE DEF c, A, B
<1>3. Cardinality(A) \in Nat /\ Cardinality(B) = Cardinality(A) + IF c THEN 1 ELSE 0
  BY <1>1, OneHolder
<1>4. Held(F, n) \in Nat
  BY HeldZero
<1>5. Refs(v, o, T, F, n) = Refs(v, p, T, F, n) + IF c THEN 1 ELSE 0
  BY <1>2, <1>3, <1>4
<1> QED
  BY <1>5 DEF c

(* A call that is entered adds what it holds.                              *)
LEMMA RefsPush ==
    ASSUME NEW v \in [Node -> BOOLEAN], NEW o \in [Node -> SUBSET Node], NEW T, NEW F \in Seq(Frame),
           NEW f \in Frame, NEW n \in Node
    PROVE  Refs(v, o, T, Append(F, f), n) = Refs(v, o, T, F, n) + Weight(f, n)
<1> DEFINE A == {k \in Node : n \in o[k]} \ T
<1>1. A \in SUBSET Node
  OBVIOUS
<1> HIDE DEF A
<1>2. Cardinality(A) \in Nat /\ Held(F, n) \in Nat /\ Weight(f, n) \in Nat
      /\ Held(Append(F, f), n) = Held(F, n) + Weight(f, n)
  BY <1>1, NodesIs, HeldPush, WeightIs
<1>3. /\ Refs(v, o, T, F, n) = (IF v[n] THEN 1 ELSE 0) + Cardinality(A) + Held(F, n)
      /\ Refs(v, o, T, Append(F, f), n) = (IF v[n] THEN 1 ELSE 0) + Cardinality(A) + Held(Append(F, f), n)
  BY DEF Refs, A
<1> QED
  BY <1>2, <1>3

(* A call that returns takes away what it held.                            *)
LEMMA RefsTop ==
    ASSUME NEW v \in [Node -> BOOLEAN], NEW o \in [Node -> SUBSET Node], NEW T, NEW F \in Seq(Frame), F # <<>>,
           NEW n \in Node
    PROVE  /\ Refs(v, o, T, F, n) = Refs(v, o, T, Front(F), n) + Weight(F[Len(F)], n)
           /\ \A f \in Frame : Refs(v, o, T, [F EXCEPT ![Len(F)] = f], n) = Refs(v, o, T, Front(F), n) + Weight(f, n)
<1>1. /\ Front(F) \in Seq(Frame) /\ F[Len(F)] \in Frame /\ F = Append(Front(F), F[Len(F)])
      /\ \A f \in Frame : [F EXCEPT ![Len(F)] = f] = Append(Front(F), f)
  BY FrontIs
<1> DEFINE P == Front(F)
           t == F[Len(F)]
<1>2. P \in Seq(Frame) /\ t \in Frame /\ F = Append(P, t)
  BY <1>1
<1> HIDE DEF P, t
<1>3. Refs(v, o, T, F, n) = Refs(v, o, T, P, n) + Weight(t, n)
  BY <1>2, RefsPush
<1>4. ASSUME NEW f \in Frame
      PROVE  Refs(v, o, T, [F EXCEPT ![Len(F)] = f], n) = Refs(v, o, T, P, n) + Weight(f, n)
  <2>1. [F EXCEPT ![Len(F)] = f] = Append(P, f)
    BY <1>1 DEF P
  <2>2. Refs(v, o, T, Append(P, f), n) = Refs(v, o, T, P, n) + Weight(f, n)
    BY <1>2, RefsPush
  <2> QED
    BY <2>1, <2>2
<1> QED
  BY <1>3, <1>4 DEF P, t

-----------------------------------------------------------------------------
(* What the calls mention, and which of them the collector makes.          *)
Ment(F, i, n) == F[i].kind # "gc" /\ (F[i].obj = n \/ n \in F[i].rest)
Abv(F, i) == \E j \in DOMAIN F : j < i /\ F[j].kind = "gc"
HasGc(F) == \E j \in DOMAIN F : F[j].kind = "gc"
NoLast(F) == \A i \in DOMAIN F : F[i].kind \notin {"del", "last"}

(* What the calls mention and which are above the collector, as a          *)
(* function of the stack.                                                  *)
LEMMA MentionsAre == \A i, n : (Mentions(i, n) <=> Ment(frames, i, n)) /\ (Above(i) <=> Abv(frames, i))
  BY DEF Mentions, Calling, Above, Ment, Abv

(* A longer stack: the calls below stay, with what they mention.           *)
LEMMA Pushed ==
    ASSUME NEW F \in Seq(Frame), NEW f \in Frame
    PROVE  LET G == Append(F, f) IN
           /\ G \in Seq(Frame) /\ G # <<>> /\ Len(G) = Len(F) + 1 /\ Len(F) \in Nat
           /\ Len(G) \in DOMAIN G /\ Len(G) \notin DOMAIN F
           /\ \A i \in DOMAIN G : i \in DOMAIN F \/ i = Len(G)
           /\ \A i \in DOMAIN F : i \in DOMAIN G /\ G[i] = F[i] /\ i < Len(G)
           /\ G[Len(G)] = f
           /\ \A i \in DOMAIN F : Abv(G, i) <=> Abv(F, i)
           /\ Abv(G, Len(G)) <=> HasGc(F)
<1> DEFINE G == Append(F, f)
<1>1. /\ G \in Seq(Frame) /\ Len(G) = Len(F) + 1 /\ DOMAIN G = 1..(Len(F) + 1) /\ G # <<>>
      /\ DOMAIN F = 1..Len(F) /\ Len(F) \in Nat
      /\ \A i \in DOMAIN F : G[i] = F[i]
      /\ G[Len(F) + 1] = f
  BY PushIs
<1> HIDE DEF G
<1>2. /\ Len(G) \in DOMAIN G /\ Len(G) \notin DOMAIN F
      /\ \A i \in DOMAIN G : i \in DOMAIN F \/ i = Len(G)
      /\ \A i \in DOMAIN F : i \in DOMAIN G /\ i < Len(G)
  BY <1>1
<1>3. \A i \in DOMAIN F : Abv(G, i) <=> Abv(F, i)
  BY <1>1, <1>2 DEF Abv
<1>4. Abv(G, Len(G)) <=> HasGc(F)
  BY <1>1, <1>2 DEF Abv, HasGc
<1> QED
  BY <1>1, <1>2, <1>3, <1>4 DEF G

(* A shorter stack: the calls that remain are the same.                    *)
LEMMA Popped ==
    ASSUME NEW F \in Seq(Frame), F # <<>>
    PROVE  LET P == Front(F) IN
           /\ P \in Seq(Frame) /\ Len(P) = Len(F) - 1 /\ Len(F) \in DOMAIN F /\ Len(F) \in Nat
           /\ F[Len(F)] \in Frame
           /\ DOMAIN P = DOMAIN F \ {Len(F)}
           /\ \A i \in DOMAIN P : P[i] = F[i]
           /\ \A i \in DOMAIN P : Abv(P, i) <=> Abv(F, i)
<1> DEFINE P == Front(F)
<1>1. P \in Seq(Frame) /\ Len(P) = Len(F) - 1 /\ F[Len(F)] \in Frame /\ \A i \in DOMAIN P : P[i] = F[i]
  BY FrontIs
<1>2. Len(F) \in Nat /\ DOMAIN F = 1..Len(F) /\ Len(F) \in DOMAIN F
  BY StackIs
<1>3. DOMAIN P = 1..(Len(F) - 1)
  BY <1>1, StackIs
<1>4. DOMAIN P = DOMAIN F \ {Len(F)} /\ \A i \in DOMAIN P : i < Len(F)
  <2>1. Len(F) \in Nat
    BY <1>2
  <2>2. 1..(Len(F) - 1) = (1..Len(F)) \ {Len(F)} /\ \A i \in 1..(Len(F) - 1) : i < Len(F)
    BY <2>1
  <2> QED
    BY <2>2, <1>2, <1>3
<1> HIDE DEF P
<1>5. \A i \in DOMAIN P : Abv(P, i) <=> Abv(F, i)
  BY <1>1, <1>2, <1>4 DEF Abv
<1> QED
  BY <1>1, <1>2, <1>4, <1>5 DEF P

(* Another call on the top: those below stay.                              *)
LEMMA Turned ==
    ASSUME NEW F \in Seq(Frame), F # <<>>, NEW f \in Frame
    PROVE  LET G == [F EXCEPT ![Len(F)] = f] IN
           /\ G = Append(Front(F), f)
           /\ G \in Seq(Frame) /\ G # <<>> /\ Len(G) = Len(F) /\ Len(F) \in DOMAIN F
           /\ DOMAIN G = DOMAIN F /\ G[Len(F)] = f
           /\ \A i \in DOMAIN F : i # Len(F) => G[i] = F[i]
           /\ \A i \in DOMAIN F : Abv(G, i) <=> Abv(F, i)
<1> DEFINE G == [F EXCEPT ![Len(F)] = f]
<1>1. Len(F) \in Nat /\ DOMAIN F = 1..Len(F) /\ Len(F) \in DOMAIN F
  BY StackIs
<1>2. G = Append(Front(F), f)
  BY FrontIs
<1>3. G \in Seq(Frame) /\ Len(G) = Len(F)
  BY <1>1, ExceptSeq
<1>4. DOMAIN G = DOMAIN F /\ G[Len(F)] = f /\ \A i \in DOMAIN F : i # Len(F) => G[i] = F[i]
  BY <1>1
<1> HIDE DEF G
<1>5. G # <<>>
  BY <1>1, <1>3, StackIs
<1>6. \A i \in DOMAIN F : Abv(G, i) <=> Abv(F, i)
  BY <1>1, <1>4 DEF Abv
<1> QED
  BY <1>1, <1>2, <1>3, <1>4, <1>5, <1>6 DEF G

-----------------------------------------------------------------------------
(* The order of the calls.                                                 *)
StackOK(F, p) ==
    /\ \A i \in DOMAIN F :
          /\ F[i].kind \in {"del", "last"} => i = Len(F)
          /\ F[i].kind = "gcdtor" => p = "call" /\ i > 1 /\ F[i - 1].kind = "gc"
          /\ F[i].kind = "gcfree" => p = "destroy" /\ i > 1 /\ F[i - 1].kind = "gc"
          /\ \A j \in DOMAIN F : F[i].kind = "gc" /\ F[j].kind = "gc" => i = j
          /\ F[i].kind = "gc" => p # "idle"
    /\ p # "idle" => HasGc(F)

(* A call that is not the collector returns: the stack stays in order.     *)
LEMMA StackPop ==
    ASSUME NEW F \in Seq(Frame), F # <<>>, NEW p, StackOK(F, p)
    PROVE  /\ NoLast(Front(F))
           /\ F[Len(F)].kind # "gc" => StackOK(Front(F), p)
<1> DEFINE P == Front(F)
<1>1. /\ P \in Seq(Frame) /\ Len(P) = Len(F) - 1 /\ Len(F) \in DOMAIN F /\ Len(F) \in Nat
      /\ DOMAIN P = DOMAIN F \ {Len(F)}
      /\ \A i \in DOMAIN P : P[i] = F[i]
  BY Popped
<1>2. DOMAIN F = 1..Len(F)
  BY StackIs
<1> HIDE DEF P
<1>3. NoLast(P)
  BY <1>1 DEF StackOK, NoLast
<1>4. ASSUME F[Len(F)].kind # "gc" PROVE StackOK(P, p)
  <2>1. ASSUME NEW i \in DOMAIN P
        PROVE  /\ P[i].kind = "gcdtor" => p = "call" /\ i > 1 /\ P[i - 1].kind = "gc"
               /\ P[i].kind = "gcfree" => p = "destroy" /\ i > 1 /\ P[i - 1].kind = "gc"
    <3>1. P[i] = F[i] /\ i \in DOMAIN F /\ i \in 1..Len(F) /\ i # Len(F)
      BY <1>1, <1>2
    <3>2. i > 1 => i - 1 \in DOMAIN P /\ P[i - 1] = F[i - 1]
      BY <3>1, <1>1, <1>2
    <3> QED
      BY <3>1, <3>2 DEF StackOK
  <2>2. p # "idle" => HasGc(P)
    BY <1>1, <1>4 DEF StackOK, HasGc
  <2>3. \A i \in DOMAIN P :
          /\ P[i].kind \in {"del", "last"} => i = Len(P)
          /\ \A j \in DOMAIN P : P[i].kind = "gc" /\ P[j].kind = "gc" => i = j
          /\ P[i].kind = "gc" => p # "idle"
    BY <1>1, <1>3 DEF StackOK, NoLast
  <2> QED
    BY <2>1, <2>2, <2>3 DEF StackOK
<1> QED
  BY <1>3, <1>4 DEF P

(* A call is entered: the stack stays in order if the call may be there.   *)
LEMMA StackPush ==
    ASSUME NEW F \in Seq(Frame), NoLast(F), NEW p, StackOK(F, p), NEW f \in Frame, f.kind # "gc",
           f.kind = "gcdtor" => p = "call" /\ F # <<>> /\ F[Len(F)].kind = "gc",
           f.kind = "gcfree" => p = "destroy" /\ F # <<>> /\ F[Len(F)].kind = "gc"
    PROVE  StackOK(Append(F, f), p)
<1> DEFINE G == Append(F, f)
<1>1. /\ G \in Seq(Frame) /\ Len(G) = Len(F) + 1 /\ Len(F) \in Nat
      /\ Len(G) \in DOMAIN G /\ Len(G) \notin DOMAIN F
      /\ \A i \in DOMAIN G : i \in DOMAIN F \/ i = Len(G)
      /\ \A i \in DOMAIN F : i \in DOMAIN G /\ G[i] = F[i] /\ i < Len(G)
      /\ G[Len(G)] = f
  BY Pushed
<1>2. DOMAIN F = 1..Len(F) /\ (F # <<>> <=> Len(F) \in DOMAIN F)
  BY StackIs
<1> HIDE DEF G
<1>3. ASSUME NEW i \in DOMAIN G
      PROVE  /\ G[i].kind = "gcdtor" => p = "call" /\ i > 1 /\ G[i - 1].kind = "gc"
             /\ G[i].kind = "gcfree" => p = "destroy" /\ i > 1 /\ G[i - 1].kind = "gc"
  <2>1. CASE i = Len(G)
    <3>1. F # <<>> => i > 1 /\ G[i - 1] = F[Len(F)]
      BY <1>1, <1>2, <2>1
    <3> QED
      BY <1>1, <2>1, <3>1
  <2>2. CASE i \in DOMAIN F
    <3>1. G[i] = F[i] /\ i \in 1..Len(F)
      BY <1>1, <1>2, <2>2
    <3>2. i > 1 => i - 1 \in DOMAIN F /\ G[i - 1] = F[i - 1]
      BY <3>1, <1>1, <1>2
    <3> QED
      BY <2>2, <3>1, <3>2 DEF StackOK
  <2> QED
    BY <1>1, <2>1, <2>2
<1>4. p # "idle" => HasGc(G)
  BY <1>1 DEF StackOK, HasGc
<1>5. \A i \in DOMAIN G : G[i].kind \in {"del", "last"} => i = Len(G)
  BY <1>1 DEF NoLast
<1>6. \A i \in DOMAIN G :
        /\ \A j \in DOMAIN G : G[i].kind = "gc" /\ G[j].kind = "gc" => i = j
        /\ G[i].kind = "gc" => p # "idle"
  BY <1>1 DEF StackOK
<1>7. StackOK(G, p)
  BY <1>3, <1>4, <1>5, <1>6 DEF StackOK
<1> QED
  BY <1>7 DEF G

-----------------------------------------------------------------------------
(* What can be reached from S over the references o.                       *)
Leads(o, S, k) == \A C \in SUBSET Node : S \subseteq C /\ (\A m \in C : o[m] \subseteq C) => k \in C

(* Reach, as a function of the references.                                 *)
LEMMA ReachIs == \A S : Reach(S) = {n \in Node : Leads(out, S, n)}
  BY DEF Reach, Closed, Leads

(* The objects themselves.                                                 *)
LEMMA LeadsBase ==
    ASSUME NEW o, NEW S
    PROVE  \A k \in S : Leads(o, S, k)
  BY DEF Leads

(* And those that they refer to.                                           *)
LEMMA LeadsNext ==
    ASSUME NEW o \in [Node -> SUBSET Node], NEW S
    PROVE  \A m \in Node : Leads(o, S, m) => \A k \in o[m] : Leads(o, S, k)
  BY DEF Leads

(* The references may change, and the objects Z go, as long as whatever is *)
(* no longer referred to is reached in another way.                        *)
LEMMA LeadsStep ==
    ASSUME NEW o \in [Node -> SUBSET Node], NEW p \in [Node -> SUBSET Node], NEW S \in SUBSET Node, NEW T,
           NEW Z \in SUBSET Node, \A z \in Z : o[z] \subseteq Z,
           \A m \in S : m \in Z \/ Leads(p, T, m),
           \A m \in Node \ Z : \A j \in o[m] : j \in p[m] \/ j \in Z \/ Leads(p, T, j),
           NEW k, k \notin Z, Leads(o, S, k)
    PROVE  Leads(p, T, k)
<1> SUFFICES ASSUME NEW C \in SUBSET Node, T \subseteq C, \A m \in C : p[m] \subseteq C
             PROVE  k \in C
  BY DEF Leads
<1>1. \A m : Leads(p, T, m) => m \in C
  BY DEF Leads
<1>2. S \subseteq C \cup Z
  BY <1>1
<1>3. \A m \in C \cup Z : o[m] \subseteq C \cup Z
  BY <1>1
<1>4. C \cup Z \in SUBSET Node
  OBVIOUS
<1>5. k \in C \cup Z
  BY <1>2, <1>3, <1>4 DEF Leads
<1> QED
  BY <1>5

(* The objects G are not reached.                                          *)
LEMMA LeadsAround ==
    ASSUME NEW o \in [Node -> SUBSET Node], NEW p \in [Node -> SUBSET Node], NEW S \in SUBSET Node, NEW T,
           NEW G, S \subseteq T, S \cap G = {},
           \A m \in Node \ G : o[m] \subseteq p[m] /\ o[m] \cap G = {},
           NEW k, Leads(o, S, k)
    PROVE  Leads(p, T, k)
<1> SUFFICES ASSUME NEW C \in SUBSET Node, T \subseteq C, \A m \in C : p[m] \subseteq C
             PROVE  k \in C
  BY DEF Leads
<1>1. C \ G \in SUBSET Node /\ S \subseteq C \ G
  OBVIOUS
<1>2. \A m \in C \ G : o[m] \subseteq C \ G
  OBVIOUS
<1>3. k \in C \ G
  BY <1>1, <1>2 DEF Leads
<1> QED
  BY <1>3

-----------------------------------------------------------------------------
(* A collector at work is the last of the calls.                           *)
LEMMA StackAt ==
    ASSUME NEW F \in Seq(Frame), F # <<>>, F[Len(F)].kind = "gc", NEW p, StackOK(F, p)
    PROVE  /\ \A i \in DOMAIN F : F[i].kind \notin {"gcdtor", "gcfree"} /\ ~Abv(F, i)
           /\ NoLast(F)
           /\ \A q : q # "idle" => StackOK(F, q)
           /\ StackOK(Front(F), "idle")
<1>1. Len(F) \in Nat /\ DOMAIN F = 1..Len(F) /\ Len(F) \in DOMAIN F
  BY StackIs
<1>2. NoLast(F)
  BY <1>1 DEF StackOK, NoLast
<1>3. \A i \in DOMAIN F : F[i].kind = "gc" => i = Len(F)
  BY <1>1 DEF StackOK
<1>4. \A i \in DOMAIN F : ~Abv(F, i)
  BY <1>1, <1>3 DEF Abv
<1>5. ASSUME NEW i \in DOMAIN F, F[i].kind \in {"gcdtor", "gcfree"}
      PROVE  FALSE
  <2>1. i > 1 /\ F[i - 1].kind = "gc"
    BY <1>5 DEF StackOK
  <2>2. i - 1 \in DOMAIN F /\ i - 1 # Len(F)
    BY <2>1, <1>1
  <2> QED
    BY <2>1, <2>2, <1>3
<1>6. HasGc(F)
  BY <1>1 DEF HasGc
<1>7. \A q : q # "idle" => StackOK(F, q)
  BY <1>2, <1>3, <1>5, <1>6, Zenon DEF StackOK, NoLast
<1>8. /\ DOMAIN Front(F) = DOMAIN F \ {Len(F)}
      /\ \A i \in DOMAIN Front(F) : Front(F)[i] = F[i]
  BY Popped
<1>9. StackOK(Front(F), "idle")
  BY <1>2, <1>3, <1>5, <1>8 DEF StackOK, NoLast
<1> QED
  BY <1>2, <1>4, <1>5, <1>7, <1>9

StackRest ==
    /\ phase \in {"mark", "scan", "collect", "nested"} => Running("gc")
    /\ todo # {} => phase \in {"mark", "scan", "collect", "nested"}
    /\ black # {} => phase = "scan"
    /\ idx >= 1
    /\ phase \in {"collect", "nested", "call", "destroy"} => end <= Len(gc.buf)

(* The two parts of StackInv.                                              *)
LEMMA StackInvIs == StackInv <=> StackOK(frames, phase) /\ StackRest
  BY DEF StackInv, StackOK, StackRest, HasGc

-----------------------------------------------------------------------------
(* The types, but that counts are not negative.                            *)
Types ==
    /\ state \in [Node -> {"none", "live", "null"}]
    /\ out \in [Node -> SUBSET Node] /\ var \in [Node -> BOOLEAN]
    /\ dtor_called \in [Node -> BOOLEAN] /\ free_called \in [Node -> BOOLEAN]
    /\ gc \in Headers
    /\ frames \in Seq(Frame)
    /\ phase \in Phases /\ idx \in Nat /\ end \in Nat
    /\ todo \in SUBSET Node /\ black \in SUBSET Node
    /\ has_dtors \in BOOLEAN /\ rerun \in {"no", "should", "did"}

(* TypeOK gives Types, where the counts are integers.                      *)
LEMMA TypesIs == TypeOK => Types /\ \A n \in Node : gc.refcount[n] \in Nat
<1>1. ASSUME gc \in Header PROVE gc \in Headers /\ gc.refcount \in [Node -> Nat]
  <2>1. \A f \in [Node -> Nat] : f \in [Node -> Int]
    OBVIOUS
  <2> QED
    BY <1>1, <2>1 DEF Header, Headers
<1> QED
  BY <1>1 DEF TypeOK, Types

(* The counts are natural numbers because of what they count.              *)
LEMMA TypesAre == Types /\ CountInv => TypeOK
<1> SUFFICES ASSUME Types, CountInv PROVE TypeOK
  OBVIOUS
<1>1. gc \in Headers /\ var \in [Node -> BOOLEAN] /\ out \in [Node -> SUBSET Node] /\ frames \in Seq(Frame)
  BY DEF Types
<1>2. \A n \in Node : gc.refcount[n] \in Nat
  BY <1>1, RefsIs, CountedIs DEF CountInv
<1>3. gc \in Header
  <2>1. gc.refcount \in [Node -> Nat]
    BY <1>1, <1>2, Fields
  <2> QED
    BY <1>1, <2>1 DEF Header, Headers
<1> QED
  BY <1>3 DEF TypeOK, Types

Inv ==
    /\ Types /\ StackOK(frames, phase) /\ StackRest /\ Wired(gc)
    /\ HeapInv /\ FrameInv /\ ColorInv /\ CountInv /\ FoundInv
    /\ MarkInv /\ ScanInv /\ CollectInv /\ GarbageInv /\ AllInv

(* IInv, as the proofs use it.                                             *)
LEMMA InvIs == IInv <=> Inv
<1>2. Types /\ CountInv => TypeOK
  BY TypesAre
<1>3. TypeOK => Types
  BY TypesIs
<1> QED
  BY <1>2, <1>3, StackInvIs DEF IInv, Inv
=============================================================================
