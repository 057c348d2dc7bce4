--------------------------- MODULE ZendGc_proofs ------------------------------
(***************************************************************************)
(* Proofs about reference counts, destructors and the collector of cycles: *)
(* for any number of objects and references, whatever the program and its  *)
(* destructors do.  Every step keeps IInv, action by action in the order   *)
(* of a run; the theorems are at the end.                                  *)
(***************************************************************************)
EXTENDS ZendGcOperators_proofs

-----------------------------------------------------------------------------
(* The traversals change headers only.                                     *)
LEMMA AtGc ==
    ASSUME Inv, Collector
    PROVE  /\ frames \in Seq(Frame) /\ frames # <<>> /\ frames[Len(frames)].kind = "gc"
           /\ \A i \in DOMAIN frames : frames[i].kind \notin {"del", "last", "gcdtor", "gcfree"} /\ ~Above(i)
           /\ \A q : q # "idle" => StackOK(frames, q)
           /\ StackOK(Front(frames), "idle")
           /\ phase # "idle"
<1>1. frames \in Seq(Frame) /\ StackOK(frames, phase)
  BY DEF Inv, Types
<1>2. frames # <<>> /\ frames[Len(frames)].kind = "gc"
  BY DEF Collector, Running, Top
<1>3. /\ \A i \in DOMAIN frames : frames[i].kind \notin {"gcdtor", "gcfree"} /\ ~Abv(frames, i)
      /\ NoLast(frames)
      /\ \A q : q # "idle" => StackOK(frames, q)
      /\ StackOK(Front(frames), "idle")
  BY <1>1, <1>2, StackAt
<1>4. Len(frames) \in DOMAIN frames
  BY <1>1, <1>2, StackIs
<1>5. phase # "idle"
  BY <1>1, <1>2, <1>4 DEF StackOK
<1> QED
  BY <1>1, <1>2, <1>3, <1>5, MentionsAre DEF NoLast

(* The heap does not notice when only headers change.                      *)
LEMMA HeapSame ==
    ASSUME HeapInv, UNCHANGED <<heap, frames>>,
           \A n \in Node : state[n] = "none" => ~Buffered(gc', n) /\ gc'.color[n] = "black",
           \A n \in Node : state[n] = "null" => phase' = "destroy" /\ TagIn(gc', n) = "garbage"
    PROVE  HeapInv'
  BY DEF HeapInv, heap, Mentions, Calling, Tag

(* Nor do the calls.                                                       *)
LEMMA FrameSame ==
    ASSUME FrameInv, UNCHANGED <<state, free_called, frames>>,
           \A n \in Node : dtor_called[n] => dtor_called'[n], frames \in Seq(Frame),
           \A i \in DOMAIN frames : frames[i].kind \notin {"del", "last"}
    PROVE  FrameInv'
<1>1. \A i \in DOMAIN frames : frames[i].kind # "gc" => frames[i].obj \in Node
  BY StackIs, FrameIs
<1> QED
  BY <1>1 DEF FrameInv

(* Nothing is lost as long as the roots stay in the buffer.                *)
LEMMA FoundSame ==
    ASSUME FoundInv, Types, UNCHANGED <<heap, frames>>, Roots \subseteq Roots'
    PROVE  FoundInv'
<1> SUFFICES ASSUME NEW n \in Node, state'[n] # "none"
             PROVE  (n \in Reach(Outside \cup Roots))'
  BY DEF FoundInv
<1>1. Outside' = Outside
  BY DEF Outside, heap, Mentions, Calling
<1>2. Leads(out, Outside \cup Roots, n)
  BY ReachIs DEF FoundInv, heap
<1>3. Leads(out, Outside' \cup Roots', n)
  BY <1>1, <1>2 DEF Leads
<1> QED
  BY <1>3 DEF Reach, Closed, Leads, heap

(* Types, when headers and the place of the collector change.              *)
LEMMA TypesSame ==
    ASSUME Types, UNCHANGED <<heap, frames>>, gc' \in Headers, phase' \in Phases, idx' \in Nat, end' \in Nat,
           todo' \in SUBSET Node, black' \in SUBSET Node, has_dtors' \in BOOLEAN, rerun' \in {"no", "should", "did"}
    PROVE  Types'
  BY DEF Types, heap

(* Counts, when the references of an object are taken, or given back.      *)
LEMMA CountTake ==
    ASSUME Types, CountInv, UNCHANGED <<heap, frames>>, NEW m \in Node, m \notin Taken, Taken' = Taken \cup {m},
           \A n \in Node : gc'.refcount[n] = IF n \in out[m] THEN gc.refcount[n] - 1 ELSE gc.refcount[n]
    PROVE  CountInv'
<1> SUFFICES ASSUME NEW n \in Node PROVE gc'.refcount[n] = Counted(n)'
  BY DEF CountInv
<1>0. var \in [Node -> BOOLEAN] /\ out \in [Node -> SUBSET Node] /\ frames \in Seq(Frame)
  BY DEF Types
<1>1. gc.refcount[n] = Refs(var, out, Taken, frames, n)
  BY CountedIs DEF CountInv
<1>2. Counted(n)' = Refs(var, out, Taken', frames, n)
  BY DEF Counted, Refs, Holders, heap
<1>3. Refs(var, out, Taken, frames, n) = Refs(var, out, Taken \cup {m}, frames, n) + IF n \in out[m] THEN 1 ELSE 0
  BY <1>0, RefsTake
<1>4. Refs(var, out, Taken \cup {m}, frames, n) \in Nat
  BY <1>0, RefsNat
<1> QED
  BY <1>1, <1>2, <1>3, <1>4

(* gc_scan_black() and gc_collect_white() give back what was taken for     *)
(* one object.                                                             *)
LEMMA CountGive ==
    ASSUME Types, CountInv, UNCHANGED <<heap, frames>>, NEW m \in Node, m \in Taken, Taken' = Taken \ {m},
           \A n \in Node : gc'.refcount[n] = IF n \in out[m] THEN gc.refcount[n] + 1 ELSE gc.refcount[n]
    PROVE  CountInv'
<1> SUFFICES ASSUME NEW n \in Node PROVE gc'.refcount[n] = Counted(n)'
  BY DEF CountInv
<1>0. var \in [Node -> BOOLEAN] /\ out \in [Node -> SUBSET Node] /\ frames \in Seq(Frame)
  BY DEF Types
<1>1. gc.refcount[n] = Refs(var, out, Taken, frames, n)
  BY CountedIs DEF CountInv
<1>2. Counted(n)' = Refs(var, out, Taken', frames, n)
  BY DEF Counted, Refs, Holders, heap
<1> DEFINE T == Taken \ {m}
<1>3. m \notin T /\ T \cup {m} = Taken /\ Taken' = T
  OBVIOUS
<1> HIDE DEF T
<1>4. Refs(var, out, T, frames, n) = Refs(var, out, T \cup {m}, frames, n) + IF n \in out[m] THEN 1 ELSE 0
  BY <1>0, <1>3, RefsTake
<1>5. Refs(var, out, T \cup {m}, frames, n) \in Nat
  BY <1>0, RefsNat
<1>6. gc.refcount[n] \in Nat /\ Counted(n)' = gc.refcount[n] + IF n \in out[m] THEN 1 ELSE 0
  BY <1>1, <1>2, <1>3, <1>4, <1>5
<1> QED
  BY <1>6

(* The counts are kept when nothing is taken or given back.                *)
LEMMA CountSame ==
    ASSUME CountInv, UNCHANGED <<out, var, frames>>, Taken' = Taken, \A n \in Node : gc'.refcount[n] = gc.refcount[n]
    PROVE  CountInv'
  BY DEF CountInv, Counted, Holders

(* Only the program's own references count while nothing is taken.         *)
LEMMA Untaken ==
    ASSUME Types, CountInv, phase \notin {"mark", "scan", "collect"}
    PROVE  Taken = {} /\ \A n \in Node : gc.refcount[n] = Refs(var, out, {}, frames, n) /\ gc.refcount[n] \in Nat
<1>0. var \in [Node -> BOOLEAN] /\ out \in [Node -> SUBSET Node] /\ frames \in Seq(Frame)
  BY DEF Types
<1>1. Taken = {}
  BY DEF Taken
<1>2. \A n \in Node : gc.refcount[n] = Refs(var, out, {}, frames, n)
  BY <1>1, CountedIs DEF CountInv
<1> QED
  BY <1>0, <1>1, <1>2, RefsNat

(* Children are the objects that the properties refer to.                  *)
LEMMA ChildrenAre ==
    ASSUME Inv
    PROVE  /\ \A n \in Node : Children(n) = out[n]
           /\ \A n \in Node : \A m \in out[n] : m \in Node /\ state[m] # "none" /\ state[n] # "none"
           /\ \A n \in Node : Buffered(gc, n) => state[n] # "none"
           /\ \A n \in Node : state[n] = "null" => phase = "destroy"
<1>1. out \in [Node -> SUBSET Node]
  BY DEF Inv, Types
<1>2. \A n \in Node : free_called[n] => out[n] = {}
  BY DEF Inv, HeapInv
<1> QED
  BY <1>1, <1>2 DEF Inv, HeapInv, Children

-----------------------------------------------------------------------------
(* What all steps of gc_mark_roots() and gc_scan_roots() have in common.   *)
LEMMA TraversalStep ==
    ASSUME Inv, Collector, UNCHANGED <<heap, frames>>, phase # "destroy",
           gc' \in Headers, Wired(gc'), phase' \in {"mark", "scan", "collect", "nested", "call"},
           idx' \in Nat, idx' >= 1, end' \in Nat, has_dtors' \in BOOLEAN, rerun' \in {"no", "should", "did"},
           phase' \in {"collect", "nested", "call"} => end' <= Len(gc'.buf),
           todo' \in SUBSET Node, black' \in SUBSET Node,
           phase' = "call" => todo' = {}, phase' # "scan" => black' = {},
           \A n \in Node : Buffered(gc', n) => Buffered(gc, n) \/ state[n] # "none",
           \A n \in Node : state[n] = "none" => gc'.color[n] = "black",
           FoundInv', ColorInv', CountInv', MarkInv', ScanInv', CollectInv', GarbageInv', AllInv'
    PROVE  Inv'
<1>1. Types'
  <2>1. phase' \in Phases
    BY DEF Phases
  <2> QED
    BY <2>1, TypesSame DEF Inv
<1>2. /\ frames \in Seq(Frame) /\ frames # <<>> /\ frames[Len(frames)].kind = "gc"
      /\ \A i \in DOMAIN frames : frames[i].kind \notin {"del", "last", "gcdtor", "gcfree"}
      /\ \A q : q # "idle" => StackOK(frames, q)
  BY AtGc
<1>3. StackOK(frames, phase)'
  BY <1>2
<1>4. StackRest'
  BY <1>2 DEF StackRest, Running, Top
<1>5. HeapInv'
  <2>1. HeapInv /\ UNCHANGED <<heap, frames>>
    BY DEF Inv
  <2>2. \A n \in Node : state[n] = "none" => ~Buffered(gc', n) /\ gc'.color[n] = "black"
    BY ChildrenAre
  <2>3. \A n \in Node : state[n] # "null"
    BY ChildrenAre
  <2> QED
    BY <2>1, <2>2, <2>3, HeapSame
<1>6. FrameInv'
  <2>1. FrameInv
    BY DEF Inv
  <2>2. UNCHANGED <<state, free_called, frames>> /\ \A n \in Node : dtor_called[n] => dtor_called'[n]
    BY DEF heap
  <2> QED
    BY <1>2, <2>1, <2>2, FrameSame
<1> QED
  BY <1>1, <1>3, <1>4, <1>5, <1>6 DEF Inv

(* gc_mark_roots() and gc_mark_grey().                                     *)
LEMMA RootIs ==
    ASSUME NEW g \in Headers, Wired(g), NEW i \in DOMAIN g.buf, g.buf[i].tag # "unused"
    PROVE  /\ g.buf[i].ref \in Node /\ g.address[g.buf[i].ref] = i /\ Buffered(g, g.buf[i].ref)
           /\ TagIn(g, g.buf[i].ref) = g.buf[i].tag /\ i \in Used(g)
           /\ \A n \in Node : g.address[n] = i => n = g.buf[i].ref
<1>1. i \in Used(g)
  BY DEF Used
<1>2. g.buf[i].ref \in Node /\ i \in 1..Len(g.buf)
  BY <1>1, Fields
<1>3. g.address[g.buf[i].ref] = i /\ i # 0
  BY <1>1, <1>2, Fields DEF Wired
<1> QED
  BY <1>1, <1>2, <1>3 DEF Wired, Buffered, TagIn

(* The tag of an object in the buffer is the one of its slot.              *)
LEMMA SlotIs ==
    ASSUME NEW g \in Headers, Wired(g), NEW n \in Node, Buffered(g, n)
    PROVE  /\ g.address[n] \in DOMAIN g.buf /\ g.address[n] \in 1..Len(g.buf) /\ g.buf[g.address[n]].ref = n
           /\ TagIn(g, n) = g.buf[g.address[n]].tag /\ TagIn(g, n) \in {"root", "garbage", "dtor"}
  BY Fields DEF Wired, Used, TagIn

(* gc_mark_roots(), the next root.                                         *)
LEMMA MarkRootKeeps == ASSUME Inv, MarkRoot PROVE Inv'
<1>0. /\ Types /\ Wired(gc) /\ ColorInv /\ CountInv /\ FoundInv /\ MarkInv /\ StackRest
      /\ gc \in Headers /\ out \in [Node -> SUBSET Node]
      /\ Collector /\ phase = "mark" /\ todo = {} /\ idx <= Len(gc.buf) /\ idx' = idx + 1 /\ idx \in Nat /\ idx >= 1
      /\ UNCHANGED <<heap, frames, phase, end, black, has_dtors, rerun>>
      /\ black = {} /\ has_dtors \in BOOLEAN /\ rerun \in {"no", "should", "did"} /\ end \in Nat
  BY DEF Inv, Types, MarkRoot, StackRest
<1>1. idx \in DOMAIN gc.buf
  BY <1>0, Fields
<1> DEFINE e == gc.buf[idx]
           P == IF e.tag = "root" /\ gc.color[e.ref] = "purple" THEN {e.ref} ELSE {}
<1>2. /\ P \subseteq Node
      /\ \A n \in P : Buffered(gc, n) /\ gc.address[n] = idx /\ gc.color[n] = "purple"
      /\ \A n \in Node : Buffered(gc, n) /\ gc.address[n] = idx /\ gc.color[n] = "purple" => n \in P
  <2>1. ASSUME NEW n \in P PROVE n \in Node /\ Buffered(gc, n) /\ gc.address[n] = idx /\ gc.color[n] = "purple"
    BY <1>0, <1>1, RootIs
  <2>2. ASSUME NEW n \in Node, Buffered(gc, n), gc.address[n] = idx, gc.color[n] = "purple" PROVE n \in P
    <3>1. e.ref = n /\ e.tag = Tag(n)
      BY <1>0, <2>2, SlotIs DEF Tag
    <3>2. Tag(n) = "root"
      BY <1>0, <2>2, SlotIs DEF ColorInv, Tags, Tag
    <3> QED
      BY <3>1, <3>2, <2>2
  <2> QED
    BY <2>1, <2>2
<1>3. /\ gc' \in Headers /\ todo' = P
      /\ gc'.refcount = gc.refcount /\ gc'.address = gc.address /\ gc'.buf = gc.buf /\ gc'.unused = gc.unused
      /\ \A n \in Node : gc'.color[n] = IF n \in P THEN "grey" ELSE gc.color[n]
  <2>1. CASE e.tag = "root" /\ gc.color[e.ref] = "purple"
    <3> DEFINE r == e.ref
    <3>1. r \in Node /\ P = {r}
      BY <1>2, <2>1
    <3>2. gc' = Paint(gc, r, "grey") /\ todo' = {r}
      BY <2>1 DEF MarkRoot
    <3> HIDE DEF r, P
    <3>3. gc \in Headers /\ "grey" \in Colors
      BY <1>0 DEF Colors
    <3>4. /\ gc' \in Headers
          /\ \A n \in Node : gc'.color[n] = IF n = r THEN "grey" ELSE gc.color[n]
          /\ gc'.refcount = gc.refcount /\ gc'.address = gc.address /\ gc'.buf = gc.buf /\ gc'.unused = gc.unused
      BY <3>1, <3>2, <3>3, PaintIs
    <3> QED
      BY <3>1, <3>2, <3>4
  <2>2. CASE ~(e.tag = "root" /\ gc.color[e.ref] = "purple")
    <3>1. gc' = gc /\ todo' = {} /\ P = {}
      BY <1>0, <2>2 DEF MarkRoot
    <3> QED
      BY <1>0, <3>1
  <2> QED
    BY <2>1, <2>2
<1> HIDE DEF P, e
<1>4. /\ Wired(gc') /\ \A n \in Node : (Buffered(gc', n) <=> Buffered(gc, n)) /\ Tag(n)' = Tag(n)
  BY <1>0, <1>3, SameBuffer DEF Tag
<1>5. Roots' = Roots
  BY <1>4 DEF Roots
<1>6. FoundInv'
  BY <1>0, <1>5, FoundSame
<1>7. ColorInv'
  <2>1. SUFFICES ASSUME NEW n \in Node
                 PROVE  /\ Tag(n)' \in Tags(phase)
                        /\ gc'.color[n] # "white"
                        /\ gc'.color[n] = "purple" => Buffered(gc', n) /\ gc'.address[n] >= idx'
                        /\ Buffered(gc', n) => gc'.color[n] # "black"
                        /\ Tag(n)' = "dtor" => n \in Destructor
    BY <1>0 DEF ColorInv
  <2>2. /\ Tag(n)' \in Tags(phase)
        /\ gc.color[n] # "white"
        /\ gc.color[n] = "purple" => Buffered(gc, n) /\ gc.address[n] >= idx
        /\ Buffered(gc, n) => gc.color[n] # "black"
        /\ Tag(n) = "dtor" => n \in Destructor
        /\ gc.address[n] \in Nat
    BY <1>0, <1>4, Fields DEF ColorInv
  <2> QED
    BY <2>2, <1>0, <1>2, <1>3, <1>4
<1>8. CountInv'
  <2>1. Taken' = Taken
    BY <1>0, <1>2, <1>3 DEF Taken, Painted
  <2> QED
    BY <2>1, <1>0, <1>3, CountSame DEF heap
<1>9. MarkInv'
  <2>1. Reach(Roots)' = Reach(Roots)
    BY <1>0, <1>5 DEF Reach, Closed, heap
  <2>2. Painted("grey")' = Painted("grey") \cup P
    BY <1>2, <1>3 DEF Painted
  <2>3. P \subseteq Reach(Roots)
    BY <1>2 DEF Roots, Reach
  <2>4. \A m \in Painted("grey") : out[m] \subseteq Painted("grey")
    BY <1>0 DEF MarkInv
  <2>5. P \cap Painted("grey") = {} /\ Painted("grey") \subseteq Reach(Roots)
    BY <1>0, <1>2 DEF Painted, MarkInv
  <2> QED
    BY <1>0, <1>3, <2>1, <2>2, <2>3, <2>4, <2>5 DEF MarkInv, heap
<1>10. \A n \in Node : state[n] = "none" => gc'.color[n] = "black"
  BY <1>2, <1>3, ChildrenAre DEF Inv, HeapInv
<1>11. ScanInv' /\ CollectInv' /\ GarbageInv' /\ AllInv'
  BY <1>0 DEF ScanInv, CollectInv, GarbageInv, AllInv
<1> QED
  BY <1>0, <1>2, <1>3, <1>4, <1>6, <1>7, <1>8, <1>9, <1>10, <1>11, TraversalStep

(* gc_mark_grey(), one object: the counts of its children go down.         *)
LEMMA MarkGreyKeeps == ASSUME Inv, NEW n \in Node, MarkGrey(n) PROVE Inv'
<1> DEFINE new == OfColor(Children(n), Colors \ {"grey"})
<1>0. /\ Types /\ Wired(gc) /\ ColorInv /\ CountInv /\ FoundInv /\ MarkInv /\ StackRest
      /\ gc \in Headers /\ out \in [Node -> SUBSET Node] /\ gc.color \in [Node -> Colors]
      /\ Collector /\ phase = "mark" /\ n \in todo /\ idx \in Nat /\ idx >= 1
      /\ gc' = PaintAll(AllOf(gc, Children(n), -1), new, "grey") /\ todo' = (todo \ {n}) \cup new
      /\ UNCHANGED <<heap, frames, phase, idx, end, black, has_dtors, rerun>>
      /\ black = {} /\ has_dtors \in BOOLEAN /\ rerun \in {"no", "should", "did"} /\ end \in Nat /\ todo \in SUBSET Node
  BY Fields DEF Inv, Types, MarkGrey, StackRest
<1>1. /\ Children(n) = out[n] /\ new \subseteq out[n] /\ new \subseteq Node
      /\ \A m \in out[n] : m \in new <=> gc.color[m] # "grey"
      /\ \A m \in new : state[m] # "none"
  BY <1>0, ChildrenAre DEF OfColor
<1>2. todo \subseteq Painted("grey") /\ gc.color[n] = "grey" /\ n \notin new
  BY <1>0, <1>1 DEF MarkInv, Painted
<1> HIDE DEF new
<1>3. /\ gc' \in Headers
      /\ gc'.address = gc.address /\ gc'.buf = gc.buf /\ gc'.unused = gc.unused
      /\ \A m \in Node : gc'.color[m] = IF m \in new THEN "grey" ELSE gc.color[m]
      /\ \A m \in Node : gc'.refcount[m] = IF m \in out[n] THEN gc.refcount[m] - 1 ELSE gc.refcount[m]
  <2> DEFINE g == AllOf(gc, Children(n), -1)
  <2>1. -1 \in Int /\ "grey" \in Colors /\ gc \in Headers
    BY <1>0 DEF Colors
  <2>2. /\ g \in Headers
        /\ \A m \in Node : g.refcount[m] = IF m \in Children(n) THEN gc.refcount[m] + (-1) ELSE gc.refcount[m]
        /\ g.color = gc.color /\ g.address = gc.address /\ g.buf = gc.buf /\ g.unused = gc.unused
    BY <2>1, AllOfIs
  <2>3. gc' = PaintAll(g, new, "grey")
    BY <1>0
  <2> HIDE DEF g
  <2>4. /\ gc' \in Headers
        /\ \A m \in Node : gc'.color[m] = IF m \in new THEN "grey" ELSE g.color[m]
        /\ gc'.refcount = g.refcount /\ gc'.address = g.address /\ gc'.buf = g.buf /\ gc'.unused = g.unused
    BY <2>1, <2>2, <2>3, PaintAllIs
  <2>5. \A m \in Node : gc.refcount[m] + (-1) = gc.refcount[m] - 1
    BY <1>0, Fields
  <2> QED
    BY <1>1, <2>2, <2>4, <2>5
<1>4. /\ Wired(gc') /\ \A m \in Node : (Buffered(gc', m) <=> Buffered(gc, m)) /\ Tag(m)' = Tag(m)
  BY <1>0, <1>3, SameBuffer DEF Tag
<1>5. Roots' = Roots
  BY <1>4 DEF Roots
<1>6. FoundInv'
  BY <1>0, <1>5, FoundSame
<1>7. ColorInv'
  <2>1. SUFFICES ASSUME NEW m \in Node
                 PROVE  /\ Tag(m)' \in Tags(phase)
                        /\ gc'.color[m] # "white"
                        /\ gc'.color[m] = "purple" => Buffered(gc', m) /\ gc'.address[m] >= idx
                        /\ Buffered(gc', m) => gc'.color[m] # "black"
                        /\ Tag(m)' = "dtor" => m \in Destructor
    BY <1>0 DEF ColorInv
  <2>2. /\ Tag(m)' \in Tags(phase)
        /\ gc.color[m] # "white"
        /\ gc.color[m] = "purple" => Buffered(gc, m) /\ gc.address[m] >= idx
        /\ Buffered(gc, m) => gc.color[m] # "black"
        /\ Tag(m) = "dtor" => m \in Destructor
    BY <1>0, <1>4 DEF ColorInv
  <2> QED
    BY <2>2, <1>3, <1>4
<1>8. Painted("grey")' = Painted("grey") \cup new
  BY <1>1, <1>3 DEF Painted
<1>9. new \cap Painted("grey") = {}
  BY <1>1 DEF Painted
<1>10. CountInv'
  <2>1. Taken = Painted("grey") \ todo /\ Taken' = Painted("grey")' \ todo'
    BY <1>0 DEF Taken
  <2>2. n \notin Taken /\ Taken' = Taken \cup {n}
    BY <2>1, <1>0, <1>2, <1>8, <1>9
  <2> QED
    BY <2>2, <1>0, <1>3, CountTake
<1>11. MarkInv'
  <2>1. Reach(Roots)' = Reach(Roots) /\ Reach(Roots) = {k \in Node : Leads(out, Roots, k)}
    BY <1>0, <1>5, ReachIs DEF Reach, Closed, heap
  <2>2. new \subseteq Reach(Roots)
    BY <2>1, <1>0, <1>1, <1>2, LeadsNext DEF MarkInv
  <2>3. \A m \in Painted("grey") \ todo : out[m] \subseteq Painted("grey")
    BY <1>0 DEF MarkInv
  <2>4. Painted("grey") \subseteq Reach(Roots)
    BY <1>0 DEF MarkInv
  <2>5. out[n] \subseteq Painted("grey") \cup new
    BY <1>0, <1>1 DEF Painted
  <2>6. todo' \subseteq Painted("grey")'
    BY <1>0, <1>2, <1>8
  <2>7. \A m \in Painted("grey")' \ todo' : out[m] \subseteq Painted("grey")'
    BY <1>0, <1>8, <2>3, <2>5
  <2> QED
    BY <1>0, <2>1, <2>2, <2>4, <2>6, <2>7, <1>8 DEF MarkInv, heap
<1>12. \A m \in Node : state[m] = "none" => gc'.color[m] = "black"
  BY <1>1, <1>3 DEF Inv, HeapInv
<1>13. ScanInv' /\ CollectInv' /\ GarbageInv' /\ AllInv'
  BY <1>0 DEF ScanInv, CollectInv, GarbageInv, AllInv
<1> QED
  BY <1>0, <1>1, <1>3, <1>4, <1>6, <1>7, <1>10, <1>11, <1>12, <1>13, TraversalStep

(* All that can be garbage is grey when gc_scan_roots() begins.            *)
LEMMA EndMarkKeeps == ASSUME Inv, EndMark PROVE Inv'
<1>0. /\ Types /\ Wired(gc) /\ ColorInv /\ CountInv /\ FoundInv /\ MarkInv /\ StackRest
      /\ gc \in Headers /\ out \in [Node -> SUBSET Node] /\ gc.color \in [Node -> Colors]
      /\ Collector /\ phase = "mark" /\ todo = {} /\ idx \in Nat /\ idx > Len(gc.buf)
      /\ phase' = "scan" /\ idx' = 1
      /\ UNCHANGED <<heap, gc, frames, end, todo, black, has_dtors, rerun>>
      /\ black = {} /\ has_dtors \in BOOLEAN /\ rerun \in {"no", "should", "did"} /\ end \in Nat
  BY Fields DEF Inv, Types, EndMark, StackRest
<1>1. /\ Roots' = Roots /\ Reach(Roots)' = Reach(Roots) /\ Outside' = Outside /\ Reach(Outside)' = Reach(Outside)
      /\ Painted("grey")' = Painted("grey") /\ Painted("white")' = Painted("white") /\ Painted("black")' = Painted("black")
      /\ \A n \in Node : Tag(n)' = Tag(n)
  BY <1>0 DEF Roots, Outside, Painted, Tag, Reach, Closed, heap, Mentions, Calling
<1>2. \A n \in Node : Buffered(gc, n) => ~(gc.address[n] >= idx)
  BY <1>0, SlotIs
<1>3. \A n \in Node : /\ gc.color[n] \in Colors \ {"white", "purple"}
                      /\ Buffered(gc, n) => gc.color[n] = "grey"
  BY <1>0, <1>2 DEF ColorInv, Colors
<1>4. FoundInv'
  BY <1>0, <1>1, FoundSame
<1>5. ColorInv'
  BY <1>0, <1>1, <1>3 DEF ColorInv, Tags
<1>6. CountInv'
  <2>1. Taken' = Taken
    BY <1>0, <1>1, <1>3 DEF Taken, Painted
  <2> QED
    BY <2>1, <1>0, CountSame DEF heap
<1>7. ScanInv'
  <2> DEFINE G == Painted("grey")
  <2>1. G \subseteq Reach(Roots) /\ \A m \in G : out[m] \subseteq G
    BY <1>0 DEF MarkInv
  <2>2. Roots \subseteq G /\ G \in SUBSET Node
    BY <1>3 DEF Roots, Painted
  <2>3. Reach(Roots) \subseteq G
    BY <2>1, <2>2 DEF Reach, Closed
  <2>4. \A n \in Painted("black") : state[n] # "none" => n \in Reach(Outside)
    <3> SUFFICES ASSUME NEW n \in Painted("black"), state[n] # "none",
                        NEW C \in SUBSET Node, Outside \subseteq C, \A m \in C : out[m] \subseteq C
                 PROVE  n \in C
      BY DEF Reach, Closed, Painted
    <3>1. n \in Reach(Outside \cup Roots) /\ n \notin G /\ n \in Node
      BY <1>0 DEF FoundInv, Painted
    <3>2. C \cup G \in SUBSET Node /\ Outside \cup Roots \subseteq C \cup G /\ \A m \in C \cup G : out[m] \subseteq C \cup G
      BY <2>1, <2>2
    <3>3. n \in C \cup G
      BY <3>1, <3>2 DEF Reach, Closed
    <3> QED
      BY <3>1, <3>3
  <2>5. Painted("white") = {}
    BY <1>3 DEF Painted
  <2>6. \A n \in Reach(Roots) : gc.color[n] = "grey"
    BY <2>3 DEF Painted
  <2>7. \A n \in Roots : ~(gc.address[n] < 1)
    BY <1>0, SlotIs DEF Roots
  <2> QED
    BY <1>0, <1>1, <2>1, <2>4, <2>5, <2>6, <2>7 DEF ScanInv, heap
<1>8. \A n \in Node : state[n] = "none" => gc.color[n] = "black"
  BY DEF Inv, HeapInv
<1>9. MarkInv' /\ CollectInv' /\ GarbageInv' /\ AllInv'
  BY <1>0 DEF MarkInv, CollectInv, GarbageInv, AllInv
<1> QED
  BY <1>0, <1>4, <1>5, <1>6, <1>7, <1>8, <1>9, TraversalStep

-----------------------------------------------------------------------------
(* gc_scan_roots(), gc_scan() and gc_scan_black().                         *)
LEMMA ScanStep ==
    ASSUME Inv, Collector, phase = "scan", UNCHANGED <<heap, frames, phase, end, has_dtors, rerun>>,
           gc' \in Headers, idx' \in Nat, idx' >= 1, todo' \in SUBSET Node, black' \in SUBSET Node,
           gc'.address = gc.address, gc'.buf = gc.buf, gc'.unused = gc.unused,
           \A n \in Node : gc'.color[n] # "purple" /\ (state[n] = "none" => gc'.color[n] = "black"),
           CountInv', ScanInv'
    PROVE  Inv'
<1>1. /\ Types /\ Wired(gc) /\ FoundInv /\ ColorInv /\ gc \in Headers
      /\ has_dtors \in BOOLEAN /\ rerun \in {"no", "should", "did"} /\ end \in Nat
  BY DEF Inv, Types
<1>2. /\ Wired(gc') /\ \A n \in Node : (Buffered(gc', n) <=> Buffered(gc, n)) /\ Tag(n)' = Tag(n)
  BY <1>1, SameBuffer DEF Tag
<1>3. Roots' = Roots
  BY <1>2 DEF Roots
<1>4. FoundInv'
  BY <1>1, <1>3, FoundSame
<1>5. ColorInv'
  <2>1. \A n \in Node : Tag(n)' \in Tags("scan") /\ (Tag(n)' = "dtor" => n \in Destructor)
    BY <1>1, <1>2 DEF ColorInv
  <2> QED
    BY <2>1 DEF ColorInv
<1>6. MarkInv' /\ CollectInv' /\ GarbageInv' /\ AllInv'
  BY DEF MarkInv, CollectInv, GarbageInv, AllInv
<1> QED
  BY <1>1, <1>2, <1>4, <1>5, <1>6, TraversalStep

(* gc_scan_roots(), the next root.                                         *)
LEMMA ScanRootKeeps == ASSUME Inv, ScanRoot PROVE Inv'
<1>0. /\ Types /\ Wired(gc) /\ ColorInv /\ CountInv /\ ScanInv
      /\ gc \in Headers /\ out \in [Node -> SUBSET Node]
      /\ Collector /\ phase = "scan" /\ todo = {} /\ black = {}
      /\ idx <= Len(gc.buf) /\ idx' = idx + 1 /\ idx \in Nat /\ idx >= 1
      /\ UNCHANGED <<heap, frames, phase, end, black, has_dtors, rerun>>
  BY DEF Inv, Types, ScanRoot, StackRest
<1>1. idx \in DOMAIN gc.buf
  BY <1>0, Fields
<1> DEFINE e == gc.buf[idx]
           P == IF e.tag = "root" /\ gc.color[e.ref] = "grey" THEN {e.ref} ELSE {}
<1>2. /\ P \subseteq Node
      /\ \A n \in P : Buffered(gc, n) /\ gc.address[n] = idx /\ gc.color[n] = "grey"
      /\ \A n \in Node : Buffered(gc, n) /\ gc.address[n] = idx /\ gc.color[n] = "grey" => n \in P
  <2>1. ASSUME NEW n \in P PROVE n \in Node /\ Buffered(gc, n) /\ gc.address[n] = idx /\ gc.color[n] = "grey"
    BY <1>0, <1>1, RootIs
  <2>2. ASSUME NEW n \in Node, Buffered(gc, n), gc.address[n] = idx, gc.color[n] = "grey" PROVE n \in P
    <3>1. e.ref = n /\ e.tag = Tag(n)
      BY <1>0, <2>2, SlotIs DEF Tag
    <3>2. Tag(n) = "root"
      BY <1>0, <2>2, SlotIs DEF ColorInv, Tags, Tag
    <3> QED
      BY <3>1, <3>2, <2>2
  <2> QED
    BY <2>1, <2>2
<1>3. /\ gc' \in Headers /\ todo' = P
      /\ gc'.refcount = gc.refcount /\ gc'.address = gc.address /\ gc'.buf = gc.buf /\ gc'.unused = gc.unused
      /\ \A n \in Node : gc'.color[n] = IF n \in P THEN "white" ELSE gc.color[n]
  <2>1. CASE e.tag = "root" /\ gc.color[e.ref] = "grey"
    <3> DEFINE r == e.ref
    <3>1. r \in Node /\ P = {r}
      BY <1>2, <2>1
    <3>2. gc' = Paint(gc, r, "white") /\ todo' = {r}
      BY <2>1 DEF ScanRoot
    <3> HIDE DEF r, P
    <3>3. gc \in Headers /\ "white" \in Colors
      BY <1>0 DEF Colors
    <3>4. /\ gc' \in Headers
          /\ \A n \in Node : gc'.color[n] = IF n = r THEN "white" ELSE gc.color[n]
          /\ gc'.refcount = gc.refcount /\ gc'.address = gc.address /\ gc'.buf = gc.buf /\ gc'.unused = gc.unused
      BY <3>1, <3>2, <3>3, PaintIs
    <3> QED
      BY <3>1, <3>2, <3>4
  <2>2. CASE ~(e.tag = "root" /\ gc.color[e.ref] = "grey")
    <3>1. gc' = gc /\ todo' = {} /\ P = {}
      BY <1>0, <2>2 DEF ScanRoot
    <3> QED
      BY <1>0, <3>1
  <2> QED
    BY <2>1, <2>2
<1> HIDE DEF P, e
<1>4. Roots' = Roots /\ Reach(Roots)' = Reach(Roots) /\ Reach(Outside)' = Reach(Outside)
  <2>1. \A n \in Node : Buffered(gc', n) <=> Buffered(gc, n)
    BY <1>3, SameBuffer
  <2>2. Roots' = Roots
    BY <2>1 DEF Roots
  <2> QED
    BY <2>2, <1>0 DEF Reach, Closed, heap, Outside, Mentions, Calling
<1>5. /\ Painted("grey")' = Painted("grey") \ P /\ Painted("white")' = Painted("white") \cup P
      /\ Painted("black")' = Painted("black") /\ P \subseteq Painted("grey")
  BY <1>2, <1>3 DEF Painted
<1>6. CountInv'
  <2>1. Taken' = Taken
    BY <1>0, <1>5 DEF Taken
  <2> QED
    BY <2>1, <1>0, <1>3, CountSame DEF heap
<1>7. ScanInv'
  <2>1. /\ Painted("grey") \subseteq Reach(Roots)
        /\ \A n \in Reach(Roots) : gc.color[n] = "grey" \/ out[n] \cap Painted("grey") = {}
        /\ \A n \in Roots : gc.address[n] < idx => gc.color[n] # "grey"
        /\ \A n \in Painted("white") : gc.refcount[n] = 0
        /\ \A n \in Painted("black") : state[n] # "none" => n \in Reach(Outside)
    BY <1>0 DEF ScanInv
  <2>2. Painted("grey")' \cup todo' \cup black' \subseteq Reach(Roots)
    BY <2>1, <1>0, <1>3, <1>5
  <2>3. todo' \cap Painted("grey")' = {} /\ black' \subseteq Painted("black")'
    BY <1>0, <1>3, <1>5
  <2>4. \A n \in Reach(Roots) : \/ gc'.color[n] = "grey" \/ (n \in todo' /\ gc'.color[n] # "black")
                                \/ out[n] \cap Painted("grey")' = {}
    <3> TAKE n \in Reach(Roots)
    <3>1. n \in Node /\ (gc.color[n] = "grey" \/ out[n] \cap Painted("grey") = {})
      BY <2>1 DEF Reach
    <3>2. gc'.color[n] = IF n \in P THEN "white" ELSE gc.color[n]
      BY <3>1, <1>3
    <3> QED
      BY <3>1, <3>2, <1>3, <1>5
  <2>5. \A n \in Roots : gc'.address[n] < idx' => gc'.color[n] # "grey"
    <3> SUFFICES ASSUME NEW n \in Roots, gc.address[n] < idx + 1 PROVE gc'.color[n] # "grey"
      BY <1>0, <1>3
    <3>1. n \in Node /\ gc.address[n] \in Nat /\ Buffered(gc, n)
      BY <1>0, Fields DEF Roots
    <3>2. gc.address[n] < idx \/ gc.address[n] = idx
      BY <3>1, <1>0
    <3> QED
      BY <3>1, <3>2, <2>1, <1>2, <1>3
  <2>6. \A n \in Painted("white")' \ todo' : gc'.refcount[n] = 0
    BY <2>1, <1>3, <1>5
  <2>7. \A n \in Painted("black")' : state[n] # "none" => n \in Reach(Outside)
    BY <2>1, <1>5
  <2> QED
    BY <2>2, <2>3, <2>4, <2>5, <2>6, <2>7, <1>0, <1>4 DEF ScanInv, heap
<1>8. \A n \in Node : gc'.color[n] # "purple" /\ (state[n] = "none" => gc'.color[n] = "black")
  <2>1. \A n \in Node : gc.color[n] # "purple" /\ (state[n] = "none" => ~Buffered(gc, n) /\ gc.color[n] = "black")
    BY <1>0 DEF ColorInv, Inv, HeapInv
  <2> QED
    BY <2>1, <1>2, <1>3
<1> QED
  BY <1>0, <1>2, <1>3, <1>6, <1>7, <1>8, ScanStep

(* gc_scan(), one object: it is in use, or its children are scanned.       *)
LEMMA ScanKeeps == ASSUME Inv, NEW n \in Node, Scan(n) PROVE Inv'
<1> DEFINE new == OfColor(Children(n), {"grey"})
<1>0. /\ Types /\ Wired(gc) /\ ColorInv /\ CountInv /\ ScanInv
      /\ gc \in Headers /\ out \in [Node -> SUBSET Node] /\ gc.color \in [Node -> Colors]
      /\ Collector /\ phase = "scan" /\ n \in todo /\ black = {} /\ todo \in SUBSET Node
      /\ idx \in Nat /\ idx >= 1 /\ frames \in Seq(Frame) /\ var \in [Node -> BOOLEAN]
      /\ UNCHANGED <<heap, frames, phase, idx, end, has_dtors, rerun>>
  BY Fields DEF Inv, Types, Scan, StackRest
<1>1. /\ Children(n) = out[n] /\ new \subseteq out[n] /\ new \subseteq Node
      /\ \A m \in out[n] : m \in new <=> gc.color[m] = "grey"
      /\ \A m \in new : gc.color[m] = "grey"
      /\ \A m \in new : state[m] # "none"
  BY <1>0, ChildrenAre DEF OfColor
<1>2. /\ Painted("grey") \subseteq Reach(Roots) /\ todo \subseteq Reach(Roots)
      /\ todo \cap Painted("grey") = {}
      /\ \A k \in Reach(Roots) : gc.color[k] = "grey" \/ (k \in todo /\ gc.color[k] # "black") \/ out[k] \cap Painted("grey") = {}
      /\ \A k \in Roots : gc.address[k] < idx => gc.color[k] # "grey"
      /\ \A k \in Painted("white") \ todo : gc.refcount[k] = 0
      /\ \A k \in Painted("black") : state[k] # "none" => k \in Reach(Outside)
  BY <1>0 DEF ScanInv
<1>3. \A k \in Node : gc.color[k] \in {"black", "grey", "white"} /\ (state[k] = "none" => gc.color[k] = "black")
  BY <1>0 DEF ColorInv, Inv, HeapInv, Colors
<1>4. /\ Reach(Roots) = {k \in Node : Leads(out, Roots, k)} /\ Reach(Outside) = {k \in Node : Leads(out, Outside, k)}
  BY ReachIs
<1>5. /\ gc' \in Headers /\ todo' \in SUBSET Node /\ black' \in SUBSET Node
      /\ gc'.refcount = gc.refcount /\ gc'.address = gc.address /\ gc'.buf = gc.buf /\ gc'.unused = gc.unused
      /\ \/ /\ gc.color[n] = "black" /\ gc' = gc /\ todo' = todo \ {n} /\ black' = {}
         \/ /\ gc.color[n] = "white" /\ gc.refcount[n] > 0 /\ todo' = todo \ {n} /\ black' = {n}
            /\ \A k \in Node : gc'.color[k] = IF k = n THEN "black" ELSE gc.color[k]
         \/ /\ gc.color[n] = "white" /\ gc.refcount[n] = 0 /\ todo' = (todo \ {n}) \cup new /\ black' = {}
            /\ \A k \in Node : gc'.color[k] = IF k \in new THEN "white" ELSE gc.color[k]
  <2>1. CASE gc.color[n] # "white"
    <3>1. gc' = gc /\ todo' = todo \ {n} /\ black' = {}
      BY <2>1, <1>0 DEF Scan
    <3>2. gc.color[n] = "black"
      BY <2>1, <1>0, <1>2, <1>3 DEF Painted
    <3> QED
      BY <3>1, <3>2, <1>0
  <2>2. CASE gc.color[n] = "white" /\ gc.refcount[n] > 0
    <3>1. gc' = Paint(gc, n, "black") /\ todo' = todo \ {n} /\ black' = {n}
      BY <2>2 DEF Scan
    <3>2. gc \in Headers /\ "black" \in Colors
      BY <1>0 DEF Colors
    <3>3. /\ gc' \in Headers
          /\ \A k \in Node : gc'.color[k] = IF k = n THEN "black" ELSE gc.color[k]
          /\ gc'.refcount = gc.refcount /\ gc'.address = gc.address /\ gc'.buf = gc.buf /\ gc'.unused = gc.unused
      BY <3>1, <3>2, PaintIs
    <3> QED
      BY <3>1, <3>3, <2>2, <1>0
  <2>3. CASE gc.color[n] = "white" /\ ~(gc.refcount[n] > 0)
    <3>1. gc' = PaintAll(gc, new, "white") /\ todo' = (todo \ {n}) \cup new /\ black' = {}
      BY <2>3, <1>0 DEF Scan
    <3>2. gc \in Headers /\ "white" \in Colors
      BY <1>0 DEF Colors
    <3> HIDE DEF new
    <3>3. /\ gc' \in Headers
          /\ \A k \in Node : gc'.color[k] = IF k \in new THEN "white" ELSE gc.color[k]
          /\ gc'.refcount = gc.refcount /\ gc'.address = gc.address /\ gc'.buf = gc.buf /\ gc'.unused = gc.unused
      BY <3>1, <3>2, PaintAllIs
    <3>4. gc.refcount[n] = 0
      <4>1. gc.refcount[n] = Refs(var, out, Taken, frames, n)
        BY <1>0, CountedIs DEF CountInv
      <4>2. gc.refcount[n] \in Nat
        BY <4>1, <1>0, RefsNat
      <4> QED
        BY <4>2, <2>3
    <3> QED
      BY <3>1, <3>3, <3>4, <2>3, <1>0, <1>1
  <2> QED
    BY <2>1, <2>2, <2>3
<1> HIDE DEF new
<1>6. Roots' = Roots /\ Reach(Roots)' = Reach(Roots) /\ Reach(Outside)' = Reach(Outside)
  <2>1. \A k \in Node : Buffered(gc', k) <=> Buffered(gc, k)
    BY <1>5, SameBuffer
  <2>2. Roots' = Roots
    BY <2>1 DEF Roots
  <2> QED
    BY <2>2, <1>0 DEF Reach, Closed, heap, Outside, Mentions, Calling
<1>7. gc.color[n] = "white" /\ gc.refcount[n] > 0 => n \in Reach(Outside)
  <2> SUFFICES ASSUME gc.color[n] = "white", gc.refcount[n] > 0, n \notin Reach(Outside) PROVE FALSE
    OBVIOUS
  <2>1. Refs(var, out, Taken, frames, n) # 0
    BY <1>0, CountedIs DEF CountInv
  <2>2. ~var[n] /\ \A i \in DOMAIN frames : ~Mentions(i, n)
    BY <1>4, LeadsBase DEF Outside
  <2>3. \A i \in DOMAIN frames : Weight(frames[i], n) = 0
    BY <2>2 DEF Weight, Mentions, Calling
  <2>4. ASSUME NEW m \in Node, n \in out[m] PROVE m \in Taken
    <3>1. state[m] # "none"
      BY <2>4, ChildrenAre
    <3>2. gc.color[m] # "black"
      BY <3>1, <2>4, <1>0, <1>2, <1>4, LeadsNext DEF Painted
    <3> QED
      BY <3>2, <1>0, <1>3 DEF Taken, Painted
  <2>5. var \in [Node -> BOOLEAN] /\ out \in [Node -> SUBSET Node] /\ frames \in Seq(Frame)
    BY <1>0
  <2>6. Refs(var, out, Taken, frames, n) = 0
    BY <2>2, <2>3, <2>4, <2>5, RefsZero
  <2> QED
    BY <2>1, <2>6
<1>8. /\ new \subseteq Reach(Roots) /\ n \in Reach(Roots)
  BY <1>0, <1>1, <1>2, <1>4, LeadsNext
<1>9. CASE gc' = gc /\ gc.color[n] = "black" /\ todo' = todo \ {n} /\ black' = {}
  <2>1. CountInv'
    <3>1. Taken' = Taken
      BY <1>0, <1>9 DEF Taken, Painted
    <3> QED
      BY <3>1, <1>0, <1>9, CountSame DEF heap
  <2>2. ScanInv'
    <3>1. \A c : Painted(c)' = Painted(c)
      BY <1>9 DEF Painted
    <3> QED
      BY <3>1, <1>0, <1>2, <1>6, <1>9 DEF ScanInv, heap, Painted
  <2> QED
    BY <2>1, <2>2, <1>0, <1>3, <1>5, <1>9, ScanStep
<1>10. CASE /\ gc.color[n] = "white" /\ gc.refcount[n] > 0 /\ todo' = todo \ {n} /\ black' = {n}
            /\ \A k \in Node : gc'.color[k] = IF k = n THEN "black" ELSE gc.color[k]
  <2>1. /\ Painted("grey")' = Painted("grey") /\ Painted("white")' = Painted("white") \ {n}
        /\ Painted("black")' = Painted("black") \cup {n} /\ n \in Painted("white")
    BY <1>10 DEF Painted
  <2>2. CountInv'
    <3>1. Taken' = Taken
      BY <1>0, <1>10, <2>1 DEF Taken
    <3> QED
      BY <3>1, <1>0, <1>5, CountSame DEF heap
  <2>3. ScanInv'
    <3>1. \A k \in Reach(Roots) : \/ gc'.color[k] = "grey" \/ k \in black' \/ (k \in todo' /\ gc'.color[k] # "black")
                                  \/ out[k] \cap Painted("grey")' = {}
      <4> TAKE k \in Reach(Roots)
      <4>1. k \in Node /\ gc'.color[k] = IF k = n THEN "black" ELSE gc.color[k]
        BY <1>4, <1>10
      <4> QED
        BY <4>1, <2>1, <1>2, <1>10
    <3>2. \A k \in Roots : gc'.address[k] < idx' => gc'.color[k] # "grey"
      BY <1>0, <1>2, <1>5, <1>10 DEF Roots
    <3>3. \A k \in Painted("white")' \ todo' : gc'.refcount[k] = 0
      BY <2>1, <1>2, <1>5, <1>10
    <3>4. \A k \in Painted("black")' : state[k] # "none" => k \in Reach(Outside)
      BY <2>1, <1>2, <1>7, <1>10
    <3>5. /\ Painted("grey")' \cup todo' \cup black' \subseteq Reach(Roots)
          /\ todo' \cap Painted("grey")' = {} /\ black' \subseteq Painted("black")'
      BY <2>1, <1>2, <1>8, <1>10
    <3> QED
      BY <3>1, <3>2, <3>3, <3>4, <3>5, <1>0, <1>6 DEF ScanInv, heap
  <2>4. \A k \in Node : gc'.color[k] # "purple" /\ (state[k] = "none" => gc'.color[k] = "black")
    BY <1>3, <1>10
  <2> QED
    BY <2>2, <2>3, <2>4, <1>0, <1>5, ScanStep
<1>11. CASE /\ gc.color[n] = "white" /\ gc.refcount[n] = 0 /\ todo' = (todo \ {n}) \cup new /\ black' = {}
            /\ \A k \in Node : gc'.color[k] = IF k \in new THEN "white" ELSE gc.color[k]
  <2>1. /\ Painted("grey")' = Painted("grey") \ new /\ Painted("white")' = Painted("white") \cup new
        /\ Painted("black")' = Painted("black") /\ new \subseteq Painted("grey") /\ out[n] \cap Painted("grey")' = {}
    BY <1>1, <1>11 DEF Painted
  <2>2. CountInv'
    <3>1. Taken' = Taken
      BY <1>0, <1>11, <2>1 DEF Taken
    <3> QED
      BY <3>1, <1>0, <1>5, CountSame DEF heap
  <2>3. ScanInv'
    <3>1. \A k \in Reach(Roots) : \/ gc'.color[k] = "grey" \/ k \in black' \/ (k \in todo' /\ gc'.color[k] # "black")
                                  \/ out[k] \cap Painted("grey")' = {}
      <4> TAKE k \in Reach(Roots)
      <4>1. k \in Node /\ gc'.color[k] = IF k \in new THEN "white" ELSE gc.color[k]
        BY <1>4, <1>11
      <4> QED
        BY <4>1, <2>1, <1>2, <1>11
    <3>2. \A k \in Roots : gc'.address[k] < idx' => gc'.color[k] # "grey"
      BY <1>0, <1>2, <1>5, <1>11 DEF Roots
    <3>3. \A k \in Painted("white")' \ todo' : gc'.refcount[k] = 0
      BY <2>1, <1>2, <1>5, <1>11
    <3>4. \A k \in Painted("black")' : state[k] # "none" => k \in Reach(Outside)
      BY <2>1, <1>2
    <3>5. /\ Painted("grey")' \cup todo' \cup black' \subseteq Reach(Roots)
          /\ todo' \cap Painted("grey")' = {} /\ black' \subseteq Painted("black")'
      BY <2>1, <1>2, <1>8, <1>11
    <3> QED
      BY <3>1, <3>2, <3>3, <3>4, <3>5, <1>0, <1>6 DEF ScanInv, heap
  <2>4. \A k \in Node : gc'.color[k] # "purple" /\ (state[k] = "none" => gc'.color[k] = "black")
    BY <1>1, <1>3, <1>11
  <2> QED
    BY <2>2, <2>3, <2>4, <1>0, <1>5, ScanStep
<1> QED
  BY <1>5, <1>9, <1>10, <1>11

(* gc_scan_black(), one object: its children are in use, and their counts  *)
(* go up.                                                                  *)
LEMMA ScanBlackKeeps == ASSUME Inv, NEW n \in Node, ScanBlack(n) PROVE Inv'
<1> DEFINE new == OfColor(Children(n), Colors \ {"black"})
<1>0. /\ Types /\ Wired(gc) /\ ColorInv /\ CountInv /\ ScanInv
      /\ gc \in Headers /\ out \in [Node -> SUBSET Node] /\ gc.color \in [Node -> Colors]
      /\ Collector /\ phase = "scan" /\ n \in black /\ black \in SUBSET Node /\ todo \in SUBSET Node
      /\ idx \in Nat /\ idx >= 1
      /\ gc' = PaintAll(AllOf(gc, Children(n), 1), new, "black") /\ black' = (black \ {n}) \cup new
      /\ UNCHANGED <<heap, frames, phase, idx, end, todo, has_dtors, rerun>>
  BY Fields DEF Inv, Types, ScanBlack, StackRest
<1>1. /\ Children(n) = out[n] /\ new \subseteq out[n] /\ new \subseteq Node
      /\ \A m \in out[n] : m \in new <=> gc.color[m] # "black"
      /\ \A m \in new : gc.color[m] # "black" /\ state[m] # "none"
      /\ \A m \in out[n] : state[n] # "none"
  BY <1>0, ChildrenAre DEF OfColor
<1>2. /\ Painted("grey") \subseteq Reach(Roots) /\ todo \subseteq Reach(Roots) /\ black \subseteq Reach(Roots)
      /\ todo \cap Painted("grey") = {} /\ black \subseteq Painted("black")
      /\ \A k \in Reach(Roots) : \/ gc.color[k] = "grey" \/ k \in black \/ (k \in todo /\ gc.color[k] # "black")
                                 \/ out[k] \cap Painted("grey") = {}
      /\ \A k \in Roots : gc.address[k] < idx => gc.color[k] # "grey"
      /\ \A k \in Painted("white") \ todo : gc.refcount[k] = 0
      /\ \A k \in Painted("black") : state[k] # "none" => k \in Reach(Outside)
  BY <1>0 DEF ScanInv
<1>3. \A k \in Node : gc.color[k] \in {"black", "grey", "white"} /\ (state[k] = "none" => gc.color[k] = "black")
  BY <1>0 DEF ColorInv, Inv, HeapInv, Colors
<1>4. /\ Reach(Roots) = {k \in Node : Leads(out, Roots, k)} /\ Reach(Outside) = {k \in Node : Leads(out, Outside, k)}
  BY ReachIs
<1> HIDE DEF new
<1>5. /\ gc' \in Headers
      /\ gc'.address = gc.address /\ gc'.buf = gc.buf /\ gc'.unused = gc.unused
      /\ \A m \in Node : gc'.color[m] = IF m \in new THEN "black" ELSE gc.color[m]
      /\ \A m \in Node : gc'.refcount[m] = IF m \in out[n] THEN gc.refcount[m] + 1 ELSE gc.refcount[m]
  <2> DEFINE g == AllOf(gc, Children(n), 1)
  <2>1. 1 \in Int /\ "black" \in Colors /\ gc \in Headers
    BY <1>0 DEF Colors
  <2>2. /\ g \in Headers
        /\ \A m \in Node : g.refcount[m] = IF m \in Children(n) THEN gc.refcount[m] + 1 ELSE gc.refcount[m]
        /\ g.color = gc.color /\ g.address = gc.address /\ g.buf = gc.buf /\ g.unused = gc.unused
    BY <2>1, AllOfIs
  <2>3. gc' = PaintAll(g, new, "black")
    BY <1>0
  <2> HIDE DEF g
  <2>4. /\ gc' \in Headers
        /\ \A m \in Node : gc'.color[m] = IF m \in new THEN "black" ELSE g.color[m]
        /\ gc'.refcount = g.refcount /\ gc'.address = g.address /\ gc'.buf = g.buf /\ gc'.unused = g.unused
    BY <2>1, <2>2, <2>3, PaintAllIs
  <2> QED
    BY <1>1, <2>2, <2>4
<1>6. Roots' = Roots /\ Reach(Roots)' = Reach(Roots) /\ Reach(Outside)' = Reach(Outside)
  <2>1. \A k \in Node : Buffered(gc', k) <=> Buffered(gc, k)
    BY <1>5, SameBuffer
  <2>2. Roots' = Roots
    BY <2>1 DEF Roots
  <2> QED
    BY <2>2, <1>0 DEF Reach, Closed, heap, Outside, Mentions, Calling
<1>7. /\ Painted("grey")' = Painted("grey") \ new /\ Painted("white")' = Painted("white") \ new
      /\ Painted("black")' = Painted("black") \cup new
      /\ new \subseteq Painted("grey") \cup Painted("white") /\ new \cap Painted("black") = {}
      /\ gc.color[n] = "black" /\ n \in Painted("black") /\ out[n] \cap Painted("grey")' = {}
  BY <1>0, <1>1, <1>2, <1>3, <1>5 DEF Painted
<1>8. CountInv'
  <2>1. /\ Taken = Painted("grey") \cup Painted("white") \cup black
        /\ Taken' = Painted("grey")' \cup Painted("white")' \cup black'
    BY <1>0 DEF Taken
  <2>2. n \notin Painted("grey") \cup Painted("white")
    BY <1>7 DEF Painted
  <2>3. n \in Taken /\ Taken' = Taken \ {n}
    BY <2>1, <2>2, <1>0, <1>2, <1>7
  <2> QED
    BY <2>3, <1>0, <1>5, CountGive
<1>9. new \subseteq Reach(Roots) /\ \A k \in new : k \in Reach(Outside)
  BY <1>0, <1>1, <1>2, <1>4, <1>7, LeadsNext
<1>10. ScanInv'
  <2>1. \A k \in Reach(Roots) : \/ gc'.color[k] = "grey" \/ k \in black' \/ (k \in todo' /\ gc'.color[k] # "black")
                                \/ out[k] \cap Painted("grey")' = {}
    <3> TAKE k \in Reach(Roots)
    <3>1. k \in Node /\ gc'.color[k] = IF k \in new THEN "black" ELSE gc.color[k]
      BY <1>4, <1>5
    <3>2. \/ gc.color[k] = "grey" \/ k \in black \/ (k \in todo /\ gc.color[k] # "black")
          \/ out[k] \cap Painted("grey") = {}
      BY <1>2
    <3> QED
      BY <3>1, <3>2, <1>0, <1>7
  <2>2. \A k \in Roots : gc'.address[k] < idx' => gc'.color[k] # "grey"
    BY <1>0, <1>2, <1>5 DEF Roots
  <2>3. \A k \in Painted("white")' \ todo' : gc'.refcount[k] = 0
    BY <1>0, <1>1, <1>2, <1>5, <1>7 DEF Painted
  <2>4. \A k \in Painted("black")' : state[k] # "none" => k \in Reach(Outside)
    BY <1>2, <1>7, <1>9
  <2>5. /\ Painted("grey")' \cup todo' \cup black' \subseteq Reach(Roots)
        /\ todo' \cap Painted("grey")' = {} /\ black' \subseteq Painted("black")'
    BY <1>0, <1>2, <1>7, <1>9
  <2> QED
    BY <2>1, <2>2, <2>3, <2>4, <2>5, <1>0, <1>6 DEF ScanInv, heap
<1>11. \A k \in Node : gc'.color[k] # "purple" /\ (state[k] = "none" => gc'.color[k] = "black")
  BY <1>3, <1>5
<1>12. todo' \in SUBSET Node /\ black' \in SUBSET Node
  BY <1>0, <1>1
<1> QED
  BY <1>0, <1>5, <1>8, <1>10, <1>11, <1>12, ScanStep

(* gc_collect_roots() forgets the roots that are in use.                   *)
LEMMA EndScanKeeps == ASSUME Inv, EndScan PROVE Inv'
<1> DEFINE S == {i \in Used(gc) : gc.buf[i].tag = "root" /\ gc.color[gc.buf[i].ref] = "black"}
<1>0. /\ Types /\ Wired(gc) /\ ColorInv /\ CountInv /\ ScanInv /\ FoundInv
      /\ gc \in Headers /\ out \in [Node -> SUBSET Node] /\ gc.color \in [Node -> Colors]
      /\ Collector /\ phase = "scan" /\ todo = {} /\ black = {} /\ idx \in Nat /\ idx > Len(gc.buf)
      /\ gc' = Compact(DropBlack(gc)) /\ phase' = "collect" /\ idx' = 1 /\ end' = Len(gc'.buf)
      /\ UNCHANGED <<heap, frames, todo, black, has_dtors, rerun>>
      /\ frames \in Seq(Frame) /\ var \in [Node -> BOOLEAN] /\ has_dtors \in BOOLEAN /\ rerun \in {"no", "should", "did"}
  BY Fields DEF Inv, Types, EndScan
<1>1. S \in SUBSET Used(gc)
  OBVIOUS
<1>2. DropBlack(gc) = [Vacate(gc, S) EXCEPT !.address = [k \in Node |-> IF gc.address[k] \in S THEN 0 ELSE gc.address[k]]]
  <2>1. Vacate(gc, S).address = gc.address
    BY <1>0, <1>1, VacateIs
  <2> QED
    BY <2>1 DEF DropBlack
<1>3. \A k \in Node : gc.address[k] \in S <=> Tag(k) = "root" /\ gc.color[k] = "black"
  <2> TAKE k \in Node
  <2>1. CASE Buffered(gc, k)
    BY <2>1, <1>0, SlotIs DEF Tag, Wired
  <2>2. CASE ~Buffered(gc, k)
    <3>1. gc.address[k] \notin Used(gc)
      BY <2>2, <1>0, Fields DEF Buffered
    <3> QED
      BY <2>2, <3>1 DEF Tag, TagIn
  <2> QED
    BY <2>1, <2>2
<1> HIDE DEF S
<1>4. /\ gc' \in Headers /\ Wired(gc') /\ gc'.refcount = gc.refcount /\ gc'.color = gc.color /\ gc'.unused = <<>>
      /\ Used(gc') = 1..Len(gc'.buf)
      /\ \A k \in Node : IF gc.address[k] \in S THEN ~Buffered(gc', k) /\ TagIn(gc', k) = "none"
                         ELSE TagIn(gc', k) = TagIn(gc, k) /\ (Buffered(gc', k) <=> Buffered(gc, k))
  BY <1>0, <1>1, <1>2, DropIs
<1>5. /\ Painted("grey") \subseteq Reach(Roots)
      /\ \A k \in Reach(Roots) : gc.color[k] = "grey" \/ out[k] \cap Painted("grey") = {}
      /\ \A k \in Roots : gc.address[k] < idx => gc.color[k] # "grey"
      /\ \A k \in Painted("white") : gc.refcount[k] = 0
      /\ \A k \in Painted("black") : state[k] # "none" => k \in Reach(Outside)
  BY <1>0 DEF ScanInv
<1>6. Reach(Roots) = {k \in Node : Leads(out, Roots, k)} /\ Reach(Outside) = {k \in Node : Leads(out, Outside, k)}
  BY ReachIs
<1>7. Painted("grey") = {}
  <2> DEFINE D == {k \in Reach(Roots) : gc.color[k] # "grey"}
  <2>1. Roots \subseteq D
    <3> SUFFICES ASSUME NEW k \in Roots PROVE k \in Reach(Roots) /\ gc.color[k] # "grey"
      OBVIOUS
    <3>1. k \in Node /\ gc.address[k] < idx
      BY <1>0, SlotIs DEF Roots
    <3> QED
      BY <3>1, <1>5, <1>6, LeadsBase
  <2>2. D \in SUBSET Node
    BY <1>6
  <2>3. \A m \in D : out[m] \subseteq D
    <3> TAKE m \in D
    <3>1. out[m] \cap Painted("grey") = {} /\ m \in Node
      BY <1>5, <1>6
    <3>2. out[m] \subseteq Reach(Roots)
      BY <1>0, <1>6, LeadsNext
    <3> QED
      BY <3>1, <3>2, <1>6 DEF Painted
  <2>4. Reach(Roots) \subseteq D
    <3> HIDE DEF D
    <3> QED
      BY <2>1, <2>2, <2>3, <1>6 DEF Leads
  <2> QED
    BY <2>4, <1>5 DEF Painted
<1>8. \A k \in Node : gc.color[k] \in {"black", "white"} /\ (state[k] = "none" => gc.color[k] = "black")
  <2>1. \A k \in Node : gc.color[k] # "grey"
    BY <1>7 DEF Painted
  <2> QED
    BY <2>1, <1>0 DEF ColorInv, Inv, HeapInv, Colors
<1>9. Taken = Painted("white")
  BY <1>0, <1>7 DEF Taken
<1>10. ASSUME NEW k \in Painted("white")
       PROVE  k \notin Outside /\ \A m \in Node : k \in out[m] => m \in Painted("white")
  <2>1. k \in Node
    BY DEF Painted
  <2>2. Refs(var, out, Taken, frames, k) = 0
    BY <2>1, <1>0, <1>5, CountedIs DEF CountInv
  <2>3. var \in [Node -> BOOLEAN] /\ out \in [Node -> SUBSET Node] /\ frames \in Seq(Frame)
    BY <1>0
  <2>4. /\ ~var[k]
        /\ \A m \in Node : k \in out[m] => m \in Taken
        /\ \A i \in DOMAIN frames : Weight(frames[i], k) = 0
    <3>1. ~var[k]
      BY <2>1, <2>2, <2>3, RefsNone
    <3>2. \A m \in Node : k \in out[m] => m \in Taken
      BY <2>1, <2>2, <2>3, RefsNone
    <3>3. \A i \in DOMAIN frames : Weight(frames[i], k) = 0
      BY <2>1, <2>2, <2>3, RefsNone
    <3> QED
      BY <3>1, <3>2, <3>3
  <2>5. \A i \in DOMAIN frames : ~Mentions(i, k)
    <3> TAKE i \in DOMAIN frames
    <3>1. frames[i].kind \in {"dtor", "free", "gc"}
      BY <1>0, AtGc, StackIs, FrameIs
    <3>2. Weight(frames[i], k) = 0
      BY <2>4
    <3> QED
      BY <3>1, <3>2 DEF Weight, Mentions, Calling
  <2> QED
    BY <2>4, <2>5, <1>9 DEF Outside
<1>11. Outside' = Outside /\ Painted("white")' = Painted("white") /\ Painted("black")' = Painted("black")
       /\ Reach(Outside)' = Reach(Outside)
  BY <1>0, <1>4 DEF Outside, Painted, Reach, Closed, heap, Mentions, Calling
<1>12. \A k \in Node : Tag(k)' = IF Tag(k) = "root" /\ gc.color[k] = "black" THEN "none" ELSE Tag(k)
  BY <1>3, <1>4 DEF Tag
<1>13. \A k \in Node : Tag(k) \in {"none", "root"} /\ (Tag(k) = "root" <=> Buffered(gc, k))
  <2> TAKE k \in Node
  <2>1. Tag(k) \in {"none", "root"}
    BY <1>0 DEF ColorInv, Tags
  <2> QED
    BY <2>1, <1>0, SlotIs DEF Tag, TagIn
<1>14. \A k \in Node : Buffered(gc', k) <=> Buffered(gc, k) /\ gc.color[k] # "black"
  BY <1>3, <1>4, <1>13
<1>15. Roots' \subseteq Painted("white") /\ Roots' = Roots \ Painted("black")
  BY <1>8, <1>14 DEF Roots, Painted
<1>16. \A k \in Node : Buffered(gc', k) => 1 <= gc'.address[k] /\ gc'.address[k] <= end'
  BY <1>0, <1>4, SlotIs
<1>17. CountInv'
  <2>1. Taken' = Taken
    BY <1>0, <1>9, <1>11 DEF Taken
  <2> QED
    BY <2>1, <1>0, <1>4, CountSame DEF heap
<1>18. ColorInv'
  <2>1. SUFFICES ASSUME NEW k \in Node
                 PROVE  /\ Tag(k)' \in Tags("collect") /\ (Tag(k)' = "dtor" => k \in Destructor)
                        /\ gc'.color[k] \in {"black", "white"}
                        /\ Tag(k)' = "root" <=> Buffered(gc', k) /\ idx' <= gc'.address[k] /\ gc'.address[k] <= end'
                        /\ gc'.color[k] = "white" /\ Buffered(gc', k) => idx' <= gc'.address[k] /\ gc'.address[k] <= end'
    BY <1>0 DEF ColorInv
  <2>2. Tag(k)' \in {"none", "root"} /\ (Tag(k)' = "root" <=> Buffered(gc', k))
    BY <1>12, <1>13, <1>14
  <2> QED
    BY <2>2, <1>0, <1>4, <1>8, <1>16 DEF Tags
<1>19. CollectInv'
  <2>1. Dead' = Painted("white")
    BY <1>0, <1>11, <1>15 DEF Dead
  <2>2. \A k \in Node : gc.color[k] = "black" => out[k] \cap Painted("white") = {}
    BY <1>10 DEF Painted
  <2>3. \A k \in Node \ Painted("white") : state[k] # "none" => k \in Reach(Outside)
    BY <1>5, <1>8 DEF Painted
  <2>4. \A k \in Roots' : gc'.color[k] # "black"
    BY <1>4, <1>15 DEF Painted
  <2>5. \A k \in Painted("white") : state[k] # "none"
    BY <1>8 DEF Painted
  <2> QED
    BY <2>1, <2>2, <2>3, <2>4, <2>5, <1>0, <1>4, <1>10, <1>11 DEF CollectInv, heap
<1>20. FoundInv'
  <2> SUFFICES ASSUME NEW k \in Node, state[k] # "none" PROVE (k \in Reach(Outside \cup Roots))'
    BY <1>0 DEF FoundInv, heap
  <2>1. Leads(out, Outside \cup Roots, k)
    BY ReachIs, <1>0 DEF FoundInv
  <2>2. ASSUME NEW m \in Outside \cup Roots PROVE Leads(out, Outside \cup Roots', m)
    <3>1. CASE m \in Outside \/ m \in Roots'
      BY <3>1, LeadsBase
    <3>2. CASE m \in Roots \cap Painted("black")
      <4>1. m \in Reach(Outside)
        BY <3>2, <1>5, ChildrenAre DEF Roots
      <4> QED
        BY <4>1, <1>6 DEF Leads
    <3> QED
      BY <2>2, <3>1, <3>2, <1>15
  <2>3. Outside \cup Roots \in SUBSET Node
    BY DEF Outside, Roots
  <2>4. Leads(out, Outside \cup Roots', k)
    <3> SUFFICES ASSUME NEW C \in SUBSET Node, Outside \cup Roots' \subseteq C, \A m \in C : out[m] \subseteq C
                 PROVE  k \in C
      BY DEF Leads
    <3>1. Outside \cup Roots \subseteq C
      BY <2>2 DEF Leads
    <3> QED
      BY <3>1, <2>1 DEF Leads
  <2> QED
    BY <2>4, <1>0, <1>11 DEF Reach, Closed, Leads, heap
<1>21. \A k \in Node : (Buffered(gc', k) => Buffered(gc, k)) /\ (state[k] = "none" => gc'.color[k] = "black")
  BY <1>4, <1>8, <1>14
<1>22. MarkInv' /\ ScanInv' /\ GarbageInv' /\ AllInv'
  BY <1>0 DEF MarkInv, ScanInv, GarbageInv, AllInv
<1>23. Len(gc'.buf) \in Nat
  BY <1>4, Fields
<1> QED
  BY <1>0, <1>4, <1>17, <1>18, <1>19, <1>20, <1>21, <1>22, <1>23, TraversalStep

-----------------------------------------------------------------------------
(* gc_collect_roots() and gc_collect_white().                              *)
LEMMA CollectRootKeeps == ASSUME Inv, CollectRoot PROVE Inv'
<1> DEFINE n == gc.buf[idx].ref
           P == IF gc.color[n] = "white" THEN {n} ELSE {}
           S == {idx}
           b == [i \in DOMAIN gc.buf |-> IF i \in S THEN [gc.buf[i] EXCEPT !.tag = "garbage"] ELSE gc.buf[i]]
           g == [gc EXCEPT !.buf = b]
<1>0. /\ Types /\ Wired(gc) /\ ColorInv /\ CountInv /\ CollectInv /\ FoundInv /\ StackRest
      /\ gc \in Headers /\ out \in [Node -> SUBSET Node] /\ gc.color \in [Node -> Colors]
      /\ Collector /\ phase = "collect" /\ todo = {} /\ idx \in Nat /\ idx >= 1 /\ idx <= end /\ idx' = idx + 1
      /\ end \in Nat /\ end <= Len(gc.buf)
      /\ UNCHANGED <<heap, frames, phase, end, black, has_dtors, rerun>>
      /\ black = {} /\ has_dtors \in BOOLEAN /\ rerun \in {"no", "should", "did"}
  BY Fields DEF Inv, Types, CollectRoot, StackRest
<1>1. idx \in DOMAIN gc.buf /\ idx \in Used(gc) /\ gc.buf[idx].tag # "unused"
  <2>1. idx \in DOMAIN gc.buf
    BY <1>0, Fields
  <2>2. gc.unused = <<>>
    BY <1>0 DEF CollectInv
  <2>3. idx \in Used(gc)
    BY <1>0, <2>1, <2>2, UnusedIs, EmptySeq
  <2> QED
    BY <2>1, <2>3 DEF Used
<1>2. /\ n \in Node /\ gc.address[n] = idx /\ Buffered(gc, n)
      /\ \A k \in Node : gc.address[k] = idx => k = n
  BY <1>0, <1>1, RootIs
<1>3. Tag(n) = "root"
  BY <1>0, <1>2 DEF ColorInv
<1>4. /\ g \in Headers /\ Wired(g) /\ Len(g.buf) = Len(gc.buf)
      /\ g.refcount = gc.refcount /\ g.color = gc.color /\ g.address = gc.address /\ g.unused = gc.unused
      /\ \A m \in Node : TagIn(g, m) = IF gc.address[m] \in {idx} THEN "garbage" ELSE TagIn(gc, m)
  <2>1. S \in SUBSET Used(gc) /\ "garbage" \in {"root", "garbage", "dtor"} /\ gc \in Headers /\ Wired(gc)
    BY <1>0, <1>1
  <2>2. g = Retag(gc, S, "garbage")
    BY DEF Retag
  <2>3. \A m \in Node : gc.address[m] \in S <=> gc.address[m] \in {idx}
    OBVIOUS
  <2> HIDE DEF g, S, b
  <2>5. /\ g \in Headers /\ Wired(g) /\ Len(g.buf) = Len(gc.buf)
        /\ g.refcount = gc.refcount /\ g.color = gc.color /\ g.address = gc.address /\ g.unused = gc.unused
        /\ \A m \in Node : TagIn(g, m) = IF gc.address[m] \in S THEN "garbage" ELSE TagIn(gc, m)
    BY <2>1, <2>2, RetagIs
  <2> QED
    BY <2>3, <2>5
<1>5. [gc EXCEPT !.buf[idx].tag = "garbage"] = g
  <2>1. gc.buf = [i \in DOMAIN gc.buf |-> gc.buf[i]]
    BY <1>0, Fields
  <2> QED
    BY <1>0, <1>1, <2>1 DEF Headers
<1>6. P \subseteq Node /\ \A k \in P : k = n /\ gc.color[k] = "white"
  BY <1>2
<1> HIDE DEF g
<1>7. /\ gc' \in Headers /\ todo' = P
      /\ gc'.refcount = gc.refcount /\ gc'.address = gc.address /\ gc'.buf = g.buf /\ gc'.unused = gc.unused
      /\ \A k \in Node : gc'.color[k] = IF k \in P THEN "black" ELSE gc.color[k]
  <2>1. CASE gc.color[n] = "white"
    <3>1. gc' = Paint(g, n, "black") /\ todo' = {n} /\ P = {n}
      BY <2>1, <1>5 DEF CollectRoot
    <3> HIDE DEF n, P
    <3>2. "black" \in Colors
      BY DEF Colors
    <3>3. /\ gc' \in Headers
          /\ \A k \in Node : gc'.color[k] = IF k = n THEN "black" ELSE g.color[k]
          /\ gc'.refcount = g.refcount /\ gc'.address = g.address /\ gc'.buf = g.buf /\ gc'.unused = g.unused
      BY <3>1, <3>2, <1>2, <1>4, PaintIs
    <3> QED
      BY <3>1, <3>3, <1>4
  <2>2. CASE gc.color[n] # "white"
    <3>1. gc' = g /\ todo' = todo /\ P = {}
      BY <2>2, <1>5 DEF CollectRoot
    <3> QED
      BY <3>1, <1>0, <1>4
  <2> QED
    BY <2>1, <2>2
<1>8. n \in P \/ gc.color[n] = "black"
  BY <1>0, <1>2 DEF ColorInv
<1> HIDE DEF n, P, b
<1>9. /\ Wired(gc') /\ \A k \in Node : Buffered(gc', k) <=> Buffered(gc, k)
      /\ \A k \in Node : TagIn(gc', k) = TagIn(g, k)
  <2>1. gc'.address = g.address /\ gc'.buf = g.buf /\ gc'.unused = g.unused /\ Wired(g)
    BY <1>4, <1>7
  <2>2. Wired(gc') /\ \A k \in Node : TagIn(gc', k) = TagIn(g, k)
    BY <2>1, SameBuffer
  <2> QED
    BY <2>2, <1>7 DEF Buffered
<1>10. \A k \in Node : Tag(k)' = IF k = n THEN "garbage" ELSE Tag(k)
  BY <1>2, <1>4, <1>9 DEF Tag
<1>11. Roots' = Roots
  BY <1>9 DEF Roots
<1>12. FoundInv'
  BY <1>0, <1>11, FoundSame
<1>13. Painted("white")' = Painted("white") \ P /\ Painted("black")' = Painted("black") \cup P /\ P \subseteq Painted("white")
  BY <1>6, <1>7 DEF Painted
<1>14. CountInv'
  <2>1. Taken' = Taken
    BY <1>0, <1>7, <1>13 DEF Taken
  <2> QED
    BY <2>1, <1>0, <1>7, CountSame DEF heap
<1>15. ColorInv'
  <2>1. SUFFICES ASSUME NEW k \in Node
                 PROVE  /\ Tag(k)' \in Tags("collect") /\ (Tag(k)' = "dtor" => k \in Destructor)
                        /\ gc'.color[k] \in {"black", "white"}
                        /\ Tag(k)' = "root" <=> Buffered(gc', k) /\ idx' <= gc'.address[k] /\ gc'.address[k] <= end
                        /\ gc'.color[k] = "white" /\ Buffered(gc', k) => idx' <= gc'.address[k] /\ gc'.address[k] <= end
    BY <1>0 DEF ColorInv
  <2>2. /\ Tag(k) \in {"none", "root", "garbage"} /\ gc.color[k] \in {"black", "white"} /\ gc.address[k] \in Nat
        /\ Tag(k) = "root" <=> Buffered(gc, k) /\ idx <= gc.address[k] /\ gc.address[k] <= end
        /\ gc.color[k] = "white" /\ Buffered(gc, k) => idx <= gc.address[k] /\ gc.address[k] <= end
    BY <1>0, Fields DEF ColorInv, Tags
  <2>3. CASE k = n
    <3>1. Tag(k)' = "garbage" /\ gc'.color[k] = "black" /\ gc'.address[k] = idx
      BY <2>3, <2>2, <1>2, <1>7, <1>8, <1>10
    <3> QED
      BY <3>1, <1>0 DEF Tags
  <2>4. CASE k # n
    <3>1. Tag(k)' = Tag(k) /\ gc'.color[k] = gc.color[k] /\ gc'.address[k] = gc.address[k] /\ gc.address[k] # idx
      BY <2>4, <1>2, <1>6, <1>7, <1>10
    <3>2. idx + 1 <= gc.address[k] <=> idx <= gc.address[k]
      BY <3>1, <2>2, <1>0
    <3> QED
      BY <3>1, <3>2, <2>2, <1>0, <1>9 DEF Tags
  <2> QED
    BY <2>3, <2>4
<1>16. CollectInv'
  <2>1. /\ gc.unused = <<>>
        /\ \A k \in Node : gc.color[k] = "black" => out[k] \cap Painted("white") = {}
        /\ \A k \in Dead : state[k] # "none" /\ k \notin Outside /\ \A m \in Node : k \in out[m] => m \in Dead
        /\ \A k \in Node \ Dead : state[k] # "none" => k \in Reach(Outside)
        /\ \A k \in Roots : gc.color[k] = "black" /\ Undestructed(k) => has_dtors
    BY <1>0 DEF CollectInv
  <2>2. Dead' = Dead
    BY <1>0, <1>7, <1>11, <1>13 DEF Dead
  <2>3. Outside' = Outside /\ Reach(Outside)' = Reach(Outside) /\ \A k : Undestructed(k)' = Undestructed(k)
    BY <1>0 DEF Outside, Reach, Closed, heap, Mentions, Calling, Undestructed
  <2>4. todo' \subseteq Painted("black")'
    BY <1>7, <1>13
  <2>5. \A k \in Node \ todo' : gc'.color[k] = "black" => out[k] \cap Painted("white")' = {}
    BY <2>1, <1>7, <1>13
  <2>6. \A k \in Roots \ todo' : gc'.color[k] = "black" /\ Undestructed(k) => has_dtors
    BY <2>1, <1>7 DEF Roots
  <2> QED
    BY <2>1, <2>2, <2>3, <2>4, <2>5, <2>6, <1>0, <1>7, <1>11 DEF CollectInv, heap
<1>17. \A k \in Node : state[k] = "none" => gc'.color[k] = "black"
  BY <1>7 DEF Inv, HeapInv
<1>18. MarkInv' /\ ScanInv' /\ GarbageInv' /\ AllInv'
  BY <1>0 DEF MarkInv, ScanInv, GarbageInv, AllInv
<1>19. end <= Len(gc'.buf)
  BY <1>0, <1>4, <1>7
<1> QED
  BY <1>0, <1>6, <1>7, <1>9, <1>12, <1>14, <1>15, <1>16, <1>17, <1>18, <1>19, TraversalStep

(* gc_collect_white(), one object: it gets a slot, and the counts of its   *)
(* children go up.                                                         *)
LEMMA CollectWhiteKeeps == ASSUME Inv, NEW n \in Node, CollectWhite(n) PROVE Inv'
<1> DEFINE new == OfColor(Children(n), {"white"})
           g == IF Buffered(gc, n) \/ free_called[n] THEN gc ELSE Enter(gc, n, "garbage", "black")
<1>0. /\ Types /\ Wired(gc) /\ ColorInv /\ CountInv /\ CollectInv /\ FoundInv /\ StackRest
      /\ gc \in Headers /\ out \in [Node -> SUBSET Node] /\ gc.color \in [Node -> Colors]
      /\ Collector /\ phase = "collect" /\ n \in todo /\ todo \in SUBSET Node /\ idx \in Nat /\ idx >= 1
      /\ end \in Nat /\ end <= Len(gc.buf) /\ Len(gc.buf) \in Nat
      /\ gc' = PaintAll(AllOf(g, Children(n), 1), new, "black") /\ todo' = (todo \ {n}) \cup new
      /\ has_dtors' = (has_dtors \/ (n \in Destructor /\ ~dtor_called[n] /\ ~free_called[n]))
      /\ UNCHANGED <<heap, frames, phase, idx, end, black, rerun>>
      /\ black = {} /\ has_dtors \in BOOLEAN /\ rerun \in {"no", "should", "did"}
      /\ free_called \in [Node -> BOOLEAN] /\ dtor_called \in [Node -> BOOLEAN]
  BY Fields DEF Inv, Types, CollectWhite, StackRest
<1>1. /\ Children(n) = out[n] /\ new \subseteq out[n] /\ new \subseteq Node
      /\ \A m \in out[n] : m \in new <=> gc.color[m] = "white"
      /\ \A m \in new : gc.color[m] = "white" /\ state[m] # "none"
  BY <1>0, ChildrenAre DEF OfColor
<1>2. /\ gc.unused = <<>> /\ todo \subseteq Painted("black")
      /\ \A k \in Node \ todo : gc.color[k] = "black" => out[k] \cap Painted("white") = {}
      /\ \A k \in Dead : state[k] # "none" /\ k \notin Outside /\ \A m \in Node : k \in out[m] => m \in Dead
      /\ \A k \in Node \ Dead : state[k] # "none" => k \in Reach(Outside)
      /\ \A k \in Roots \ todo : gc.color[k] = "black" /\ Undestructed(k) => has_dtors
  BY <1>0 DEF CollectInv
<1>3. gc.color[n] = "black" /\ n \notin new /\ n \in Dead /\ n \notin Outside /\ state[n] # "none"
  BY <1>0, <1>1, <1>2 DEF Painted, Dead
<1>4. ~free_called[n]
  <2> SUFFICES ASSUME free_called[n] PROVE FALSE
    OBVIOUS
  <2>1. state[n] = "live"
    BY <1>0, <1>3, ChildrenAre DEF Types
  <2>2. Calls(frames, {"free"}, n) # {}
    BY <2>1 DEF Inv, HeapInv
  <2> QED
    BY <2>2, <1>3 DEF Calls, Outside, Mentions, Calling
<1>5. /\ g \in Headers /\ Wired(g) /\ g.refcount = gc.refcount /\ g.color = gc.color /\ g.unused = <<>>
      /\ Len(g.buf) >= Len(gc.buf) /\ Buffered(g, n)
      /\ \A k \in Node \ {n} : g.address[k] = gc.address[k] /\ TagIn(g, k) = TagIn(gc, k)
      /\ IF Buffered(gc, n) THEN g = gc ELSE TagIn(g, n) = "garbage" /\ g.address[n] > end
  <2>1. CASE Buffered(gc, n)
    BY <2>1, <1>0, <1>2
  <2>2. CASE ~Buffered(gc, n)
    <3>1. g = Enter(gc, n, "garbage", "black")
      BY <2>2, <1>4
    <3>2. "black" \in Colors /\ "garbage" \in {"root", "garbage"}
      BY DEF Colors
    <3> HIDE DEF g
    <3>3. /\ g \in Headers /\ Wired(g) /\ g.refcount = gc.refcount
          /\ \A m \in Node : g.color[m] = IF m = n THEN "black" ELSE gc.color[m]
          /\ Buffered(g, n) /\ TagIn(g, n) = "garbage"
          /\ \A m \in Node \ {n} : g.address[m] = gc.address[m] /\ TagIn(g, m) = TagIn(gc, m)
          /\ Len(g.buf) >= Len(gc.buf)
          /\ gc.unused = <<>> => g.unused = <<>> /\ g.address[n] = Len(gc.buf) + 1
      BY <2>2, <3>1, <3>2, <1>0, EnterIs
    <3>4. g.color = gc.color
      <4>1. \A m \in Node : g.color[m] = gc.color[m]
        BY <3>3, <1>3
      <4>2. g.color \in [Node -> Colors]
        BY <3>3, Fields
      <4> QED
        BY <4>1, <4>2, <1>0
    <3>5. g.address[n] > end
      BY <3>3, <1>0, <1>2
    <3> QED
      BY <2>2, <3>3, <3>4, <3>5, <1>2
  <2> QED
    BY <2>1, <2>2
<1> HIDE DEF g, new
<1>6. /\ gc' \in Headers
      /\ gc'.address = g.address /\ gc'.buf = g.buf /\ gc'.unused = g.unused
      /\ \A m \in Node : gc'.color[m] = IF m \in new THEN "black" ELSE gc.color[m]
      /\ \A m \in Node : gc'.refcount[m] = IF m \in out[n] THEN gc.refcount[m] + 1 ELSE gc.refcount[m]
  <2> DEFINE h == AllOf(g, Children(n), 1)
  <2>1. 1 \in Int /\ "black" \in Colors
    BY DEF Colors
  <2>2. /\ h \in Headers
        /\ \A m \in Node : h.refcount[m] = IF m \in Children(n) THEN g.refcount[m] + 1 ELSE g.refcount[m]
        /\ h.color = g.color /\ h.address = g.address /\ h.buf = g.buf /\ h.unused = g.unused
    BY <2>1, <1>5, AllOfIs
  <2>3. gc' = PaintAll(h, new, "black")
    BY <1>0
  <2> HIDE DEF h
  <2>4. /\ gc' \in Headers
        /\ \A m \in Node : gc'.color[m] = IF m \in new THEN "black" ELSE h.color[m]
        /\ gc'.refcount = h.refcount /\ gc'.address = h.address /\ gc'.buf = h.buf /\ gc'.unused = h.unused
    BY <2>1, <2>2, <2>3, PaintAllIs
  <2> QED
    BY <1>1, <1>5, <2>2, <2>4
<1>7. /\ Wired(gc')
      /\ \A k \in Node : TagIn(gc', k) = TagIn(g, k) /\ (Buffered(gc', k) <=> Buffered(g, k))
  BY <1>5, <1>6, SameBuffer
<1>8. Roots' = Roots \cup {n}
  BY <1>5, <1>7 DEF Roots, Buffered
<1>9. FoundInv'
  BY <1>0, <1>8, FoundSame
<1>10. /\ Painted("white")' = Painted("white") \ new /\ Painted("black")' = Painted("black") \cup new
       /\ new \subseteq Painted("white") /\ out[n] \cap Painted("white")' = {}
  BY <1>1, <1>6 DEF Painted
<1>11. CountInv'
  <2>1. Taken = Painted("white") \cup todo /\ Taken' = Painted("white")' \cup todo'
    BY <1>0 DEF Taken
  <2>2. n \notin Painted("white")
    BY <1>3 DEF Painted
  <2>3. n \in Taken /\ Taken' = Taken \ {n}
    BY <2>1, <2>2, <1>0, <1>3, <1>10
  <2> QED
    BY <2>3, <1>0, <1>6, CountGive
<1>12. ColorInv'
  <2>1. SUFFICES ASSUME NEW k \in Node
                 PROVE  /\ Tag(k)' \in Tags("collect") /\ (Tag(k)' = "dtor" => k \in Destructor)
                        /\ gc'.color[k] \in {"black", "white"}
                        /\ Tag(k)' = "root" <=> Buffered(gc', k) /\ idx <= gc'.address[k] /\ gc'.address[k] <= end
                        /\ gc'.color[k] = "white" /\ Buffered(gc', k) => idx <= gc'.address[k] /\ gc'.address[k] <= end
    BY <1>0 DEF ColorInv
  <2>2. /\ Tag(k) \in {"none", "root", "garbage"} /\ gc.color[k] \in {"black", "white"}
        /\ Tag(k) = "root" <=> Buffered(gc, k) /\ idx <= gc.address[k] /\ gc.address[k] <= end
        /\ gc.color[k] = "white" /\ Buffered(gc, k) => idx <= gc.address[k] /\ gc.address[k] <= end
    BY <1>0 DEF ColorInv, Tags
  <2>3. gc'.color[k] \in {"black", "white"} /\ (gc'.color[k] = "white" => gc.color[k] = "white")
    BY <2>2, <1>6
  <2>4. CASE k # n \/ Buffered(gc, n)
    <3>1. Tag(k)' = Tag(k) /\ gc'.address[k] = gc.address[k]
      BY <2>4, <1>5, <1>6, <1>7 DEF Tag
    <3> QED
      BY <3>1, <2>2, <2>3 DEF Tags, Buffered
  <2>5. CASE k = n /\ ~Buffered(gc, n)
    <3>1. Tag(k)' = "garbage" /\ gc'.address[k] > end /\ gc'.address[k] \in Nat
      BY <2>5, <1>5, <1>6, <1>7, Fields DEF Tag
    <3>2. gc'.color[k] = "black" /\ ~(gc'.address[k] <= end)
      BY <3>1, <2>5, <1>0, <1>3, <1>6
    <3> QED
      BY <3>1, <3>2 DEF Tags
  <2> QED
    BY <2>4, <2>5
<1>13. CollectInv'
  <2>1. Dead' = Dead
    BY <1>0, <1>3, <1>8, <1>10 DEF Dead
  <2>2. Outside' = Outside /\ Reach(Outside)' = Reach(Outside) /\ \A k : Undestructed(k)' = Undestructed(k)
    BY <1>0 DEF Outside, Reach, Closed, heap, Mentions, Calling, Undestructed
  <2>3. todo' \subseteq Painted("black")'
    BY <1>0, <1>2, <1>10
  <2>4. \A k \in Node \ todo' : gc'.color[k] = "black" => out[k] \cap Painted("white")' = {}
    <3> SUFFICES ASSUME NEW k \in Node \ todo', gc'.color[k] = "black" PROVE out[k] \cap Painted("white")' = {}
      OBVIOUS
    <3>1. k = n \/ (k \notin todo /\ gc.color[k] = "black")
      BY <1>0, <1>6
    <3> QED
      BY <3>1, <1>2, <1>10
  <2>5. \A k \in Roots' \ todo' : gc'.color[k] = "black" /\ Undestructed(k) => has_dtors'
    <3> SUFFICES ASSUME NEW k \in Roots' \ todo', gc'.color[k] = "black", Undestructed(k) PROVE has_dtors'
      OBVIOUS
    <3>1. CASE k = n
      BY <3>1, <1>0, <1>4 DEF Undestructed
    <3>2. CASE k # n
      <4>1. k \in Roots \ todo
        BY <3>2, <1>0, <1>8
      <4>2. gc.color[k] = "black"
        <5>1. k \in Node /\ k \notin new /\ gc.color[k] \in {"black", "white"}
          BY <1>0, <4>1 DEF Roots, ColorInv
        <5> QED
          BY <5>1, <1>0, <1>1, <1>6
      <4> QED
        BY <4>1, <4>2, <1>0, <1>2
    <3> QED
      BY <3>1, <3>2
  <2> QED
    BY <2>1, <2>2, <2>3, <2>4, <2>5, <1>0, <1>2, <1>5, <1>6 DEF CollectInv, heap
<1>14. \A k \in Node : (Buffered(gc', k) => Buffered(gc, k) \/ state[k] # "none") /\ (state[k] = "none" => gc'.color[k] = "black")
  <2>1. \A k \in Node : state[k] = "none" => gc.color[k] = "black"
    BY DEF Inv, HeapInv
  <2> QED
    BY <2>1, <1>3, <1>5, <1>6, <1>7 DEF Buffered
<1>15. MarkInv' /\ ScanInv' /\ GarbageInv' /\ AllInv'
  BY <1>0 DEF MarkInv, ScanInv, GarbageInv, AllInv
<1>16. end <= Len(gc'.buf)
  <2>1. Len(g.buf) \in Nat
    BY <1>5, Fields
  <2> QED
    BY <2>1, <1>0, <1>5, <1>6
<1>17. todo' \in SUBSET Node /\ has_dtors' \in BOOLEAN
  BY <1>0, <1>1
<1> QED
  BY <1>0, <1>6, <1>7, <1>9, <1>11, <1>12, <1>13, <1>14, <1>15, <1>16, <1>17, TraversalStep

-----------------------------------------------------------------------------
(* The collector goes on with its list, and destructors may count as called.*)
LEMMA FoundKeeps ==
    ASSUME FoundInv, UNCHANGED <<state, out>>, Outside \subseteq Outside', Roots \subseteq Roots'
    PROVE  FoundInv'
<1> SUFFICES ASSUME NEW n \in Node, state'[n] # "none"
             PROVE  (n \in Reach(Outside \cup Roots))'
  BY DEF FoundInv
<1>1. Leads(out, Outside \cup Roots, n)
  BY ReachIs DEF FoundInv
<1>2. Leads(out, Outside' \cup Roots', n)
  BY <1>1 DEF Leads
<1> QED
  BY <1>2 DEF Reach, Closed, Leads

(* What all steps behind the traversals have in common that leave the      *)
(* heap and the calls alone.                                               *)
LEMMA QuietStep ==
    ASSUME Inv, Collector, UNCHANGED <<state, out, var, free_called, frames>>,
           dtor_called' \in [Node -> BOOLEAN], \A n \in Node : dtor_called[n] => dtor_called'[n],
           \A n \in Node : state[n] = "none" => ~dtor_called'[n] /\ gc'.color[n] = "black",
           \A n \in Node : state[n] = "null" => phase' = "destroy" /\ TagIn(gc', n) = "garbage",
           gc' \in Headers, Wired(gc'), phase' \in {"nested", "call", "destroy"},
           idx' \in Nat, idx' >= 1, end' \in Nat, has_dtors' \in BOOLEAN, rerun' \in {"no", "should", "did"},
           end' <= Len(gc'.buf), todo' = {}, black' = {},
           \A n \in Node : Buffered(gc', n) <=> Buffered(gc, n),
           ColorInv', CountInv', GarbageInv', AllInv'
    PROVE  Inv'
<1>1. Types'
  BY DEF Inv, Types, Phases
<1>2. /\ frames \in Seq(Frame) /\ frames # <<>> /\ frames[Len(frames)].kind = "gc"
      /\ \A i \in DOMAIN frames : frames[i].kind \notin {"del", "last", "gcdtor", "gcfree"}
      /\ \A q : q # "idle" => StackOK(frames, q)
  BY AtGc
<1>3. StackOK(frames, phase)'
  BY <1>2
<1>4. StackRest'
  BY <1>2 DEF StackRest, Running, Top
<1>5. HeapInv'
  <2>1. HeapInv
    BY DEF Inv
  <2>2. \A n \in Node : state[n] = "none" => ~Buffered(gc, n)
    BY <2>1 DEF HeapInv
  <2>3. \A i, n : Mentions(i, n)' <=> Mentions(i, n)
    BY DEF Mentions, Calling
  <2> QED
    BY <2>1, <2>2, <2>3 DEF HeapInv, Tag
<1>6. FrameInv'
  <2>1. FrameInv
    BY DEF Inv
  <2> QED
    BY <1>2, <2>1, FrameSame
<1>7. FoundInv'
  <2>1. FoundInv /\ Outside' = Outside /\ Roots' = Roots
    BY DEF Inv, Outside, Roots, Mentions, Calling
  <2> QED
    BY <2>1, FoundKeeps
<1>8. MarkInv' /\ ScanInv' /\ CollectInv'
  BY DEF MarkInv, ScanInv, CollectInv
<1> QED
  BY <1>1, <1>3, <1>4, <1>5, <1>6, <1>7, <1>8 DEF Inv

(* At the end of the list nothing is white, and the buffer holds what was  *)
(* found to be garbage.                                                    *)
LEMMA CollectDone ==
    ASSUME Inv, Collector, phase = "collect", todo = {}, idx > end
    PROVE  /\ \A n \in Node : gc.color[n] = "black"
           /\ \A n \in Node : Buffered(gc, n) <=> Tag(n) = "garbage"
           /\ \A n \in Node : Tag(n) \in {"none", "garbage"}
           /\ Taken = {}
           /\ \A n \in Roots : state[n] # "none" /\ n \notin Outside /\ \A m \in Node : n \in out[m] => m \in Roots
           /\ \A n \in Node \ Roots : state[n] # "none" => n \in Reach(Outside)
           /\ \A n \in Roots : Undestructed(n) => has_dtors
<1>0. /\ Wired(gc) /\ gc \in Headers /\ ColorInv /\ FoundInv /\ idx \in Nat /\ end \in Nat
      /\ gc.address \in [Node -> Nat]
  BY Fields DEF Inv, Types
<1>1. /\ \A k \in Node : gc.color[k] = "black" => out[k] \cap Painted("white") = {}
      /\ \A k \in Dead : state[k] # "none" /\ k \notin Outside /\ \A m \in Node : k \in out[m] => m \in Dead
      /\ \A k \in Node \ Dead : state[k] # "none" => k \in Reach(Outside)
      /\ \A k \in Roots : gc.color[k] = "black" /\ Undestructed(k) => has_dtors
  BY DEF Inv, CollectInv
<1>2. \A n \in Node : Tag(n) \in {"none", "garbage"} /\ (Buffered(gc, n) <=> Tag(n) = "garbage")
  <2> TAKE n \in Node
  <2>1. Tag(n) \in {"none", "root", "garbage"} /\ (Tag(n) = "root" => idx <= gc.address[n] /\ gc.address[n] <= end)
    BY <1>0 DEF ColorInv, Tags
  <2>2. gc.address[n] \in Nat
    BY <1>0
  <2>3. Tag(n) # "root"
    BY <2>1, <2>2, <1>0
  <2>4. Buffered(gc, n) => Tag(n) # "none"
    BY <1>0, SlotIs DEF Tag
  <2> QED
    BY <2>1, <2>3, <2>4 DEF Tag, TagIn
<1>3. \A n \in Roots : gc.color[n] = "black"
  <2> TAKE n \in Roots
  <2>1. n \in Node /\ Buffered(gc, n) /\ gc.address[n] \in Nat
    BY <1>0 DEF Roots
  <2>2. gc.color[n] \in {"black", "white"} /\ (gc.color[n] = "white" => idx <= gc.address[n] /\ gc.address[n] <= end)
    BY <1>0, <2>1 DEF ColorInv
  <2> QED
    BY <2>1, <2>2, <1>0
<1>4. \A n \in Node : gc.color[n] = "black"
  <2> DEFINE B == Painted("black")
  <2>1. \A n \in Node : gc.color[n] \in {"black", "white"}
    BY <1>0 DEF ColorInv
  <2>2. Outside \cup Roots \subseteq B
    <3>1. Outside \subseteq Node /\ Roots \subseteq Node
      BY DEF Outside, Roots
    <3>2. \A n \in Outside : n \notin Painted("white")
      BY <1>1 DEF Dead
    <3> QED
      BY <3>1, <3>2, <1>3, <2>1 DEF Painted
  <2>3. B \in SUBSET Node
    BY DEF Painted
  <2>4. \A m \in B : out[m] \subseteq B
    <3> TAKE m \in B
    <3>1. m \in Node /\ out[m] \subseteq Node /\ out[m] \cap Painted("white") = {}
      BY <1>1 DEF Inv, Types, Painted
    <3> QED
      BY <3>1, <2>1 DEF Painted
  <2>5. ASSUME NEW n \in Node, gc.color[n] = "white" PROVE FALSE
    <3>1. state[n] # "none"
      BY <2>5, <1>1 DEF Dead, Painted
    <3>2. Leads(out, Outside \cup Roots, n)
      BY <3>1, <1>0, ReachIs DEF FoundInv
    <3>3. n \in B
      <4> HIDE DEF B
      <4> QED
        BY <3>2, <2>2, <2>3, <2>4 DEF Leads
    <3> QED
      BY <3>3, <2>5 DEF Painted
  <2> QED
    BY <2>1, <2>5
<1>5. Painted("white") = {} /\ Dead = Roots
  BY <1>4 DEF Painted, Dead
<1>6. Taken = {}
  BY <1>5 DEF Taken
<1> QED
  BY <1>1, <1>2, <1>3, <1>4, <1>5, <1>6

-----------------------------------------------------------------------------
(* The collector returns.                                                  *)
LEMMA FinishStep ==
    ASSUME Inv, Collector, Finish, todo = {}, UNCHANGED <<out, var, todo, black>>, black = {},
           state' \in [Node -> {"none", "live"}], free_called' \in [Node -> BOOLEAN], dtor_called' \in [Node -> BOOLEAN],
           \A n \in Node : state'[n] = state[n] /\ free_called'[n] = free_called[n] /\ dtor_called'[n] = dtor_called[n],
           gc' \in Headers, Wired(gc'), Taken = {},
           \A n \in Node : /\ gc'.refcount[n] = gc.refcount[n] /\ TagIn(gc', n) \in {"none", "root"}
                           /\ Buffered(gc, n) <=> Buffered(gc', n)
                           /\ gc'.color[n] = IF TagIn(gc', n) = "root" THEN "purple" ELSE "black"
    PROVE  Inv'
<1> DEFINE P == Front(frames)
<1>0. /\ Types /\ HeapInv /\ FrameInv /\ FoundInv /\ CountInv
      /\ phase' = "idle" /\ idx' = 1 /\ end' = 0 /\ has_dtors' = FALSE /\ rerun' = "no" /\ frames' = P
  BY DEF Inv, Finish, Return
<1>1. /\ frames \in Seq(Frame) /\ frames # <<>> /\ frames[Len(frames)].kind = "gc"
      /\ \A i \in DOMAIN frames : frames[i].kind \notin {"del", "last", "gcdtor", "gcfree"}
      /\ StackOK(P, "idle")
  BY AtGc
<1>2. /\ P \in Seq(Frame) /\ Len(frames) \in DOMAIN frames
      /\ DOMAIN P = DOMAIN frames \ {Len(frames)}
      /\ \A i \in DOMAIN P : P[i] = frames[i]
  BY <1>1, Popped
<1> HIDE DEF P
<1>3. Types'
  BY <1>0, <1>2 DEF Types, Phases
<1>4. StackOK(frames, phase)'
  BY <1>0, <1>1
<1>5. StackRest'
  BY <1>0 DEF StackRest
<1>6. /\ \A i \in DOMAIN frames' : i \in DOMAIN frames /\ frames'[i] = frames[i]
      /\ \A i \in DOMAIN frames : frames[i].kind # "gc" => i \in DOMAIN frames'
  BY <1>0, <1>1, <1>2
<1>7. \A n : \A i \in DOMAIN frames' : Mentions(i, n)' <=> Mentions(i, n)
  BY <1>6 DEF Mentions, Calling
<1>8. HeapInv'
  <2> SUFFICES ASSUME NEW n \in Node
               PROVE  /\ state[n] = "none" =>
                            /\ ~var[n] /\ out[n] = {} /\ ~dtor_called[n] /\ ~free_called[n]
                            /\ ~Buffered(gc', n) /\ gc'.color[n] = "black"
                            /\ \A m \in Node : n \notin out[m]
                            /\ \A i \in DOMAIN frames' : ~Mentions(i, n)'
                      /\ free_called[n] => out[n] = {} /\ (n \in Destructor => dtor_called[n])
                      /\ free_called[n] /\ state[n] = "live" =>
                            /\ ~var[n]
                            /\ \A m \in Node : n \notin out[m]
                            /\ InRest(frames', n) = {} /\ Calls(frames', {"dtor", "gcdtor"}, n) = {}
                            /\ Calls(frames', {"free"}, n) # {}
                      /\ state[n] # "null"
    BY <1>0 DEF HeapInv
  <2>1. /\ state[n] = "none" =>
              /\ ~var[n] /\ out[n] = {} /\ ~dtor_called[n] /\ ~free_called[n]
              /\ ~Buffered(gc, n)
              /\ \A m \in Node : n \notin out[m]
              /\ \A i \in DOMAIN frames : ~Mentions(i, n)
        /\ free_called[n] => out[n] = {} /\ (n \in Destructor => dtor_called[n])
        /\ free_called[n] /\ state[n] = "live" =>
              /\ ~var[n]
              /\ \A m \in Node : n \notin out[m]
              /\ InRest(frames, n) = {} /\ Calls(frames, {"dtor", "gcdtor"}, n) = {}
              /\ Calls(frames, {"free"}, n) # {}
    BY <1>0 DEF HeapInv
  <2>2. ~Buffered(gc, n) => ~Buffered(gc', n) /\ gc'.color[n] = "black"
    <3>1. ~Buffered(gc', n) => TagIn(gc', n) = "none"
      BY DEF TagIn
    <3> QED
      BY <3>1
  <2>3. /\ InRest(frames', n) \subseteq InRest(frames, n)
        /\ Calls(frames', {"dtor", "gcdtor"}, n) \subseteq Calls(frames, {"dtor", "gcdtor"}, n)
        /\ Calls(frames, {"free"}, n) \subseteq Calls(frames', {"free"}, n)
    BY <1>6 DEF InRest, Calls
  <2>4. state[n] # "null"
    BY DEF HeapInv
  <2> QED
    BY <2>1, <2>2, <2>3, <2>4, <1>6, <1>7
<1>9. FrameInv'
  <2>1. \A i \in DOMAIN frames' : frames[i].kind # "gc" => frames[i].obj \in Node
    BY <1>1, <1>6, StackIs, FrameIs
  <2> QED
    BY <2>1, <1>0, <1>1, <1>6 DEF FrameInv
<1>10. CountInv'
  <2> SUFFICES ASSUME NEW n \in Node PROVE gc'.refcount[n] = Counted(n)'
    BY DEF CountInv
  <2>0. var \in [Node -> BOOLEAN] /\ out \in [Node -> SUBSET Node]
    BY <1>0 DEF Types
  <2>1. gc.refcount[n] = Refs(var, out, {}, frames, n)
    BY <1>0, CountedIs DEF CountInv
  <2>2. Taken' = {}
    BY <1>0 DEF Taken
  <2>3. Counted(n)' = Refs(var, out, {}, P, n)
    BY <1>0, <2>2 DEF Counted, Refs, Holders
  <2>4. Refs(var, out, {}, frames, n) = Refs(var, out, {}, P, n) + Weight(frames[Len(frames)], n)
    BY <2>0, <1>1, RefsTop DEF P
  <2>5. Weight(frames[Len(frames)], n) = 0
    BY <1>1 DEF Weight
  <2>6. Refs(var, out, {}, P, n) \in Nat
    BY <2>0, <1>2, RefsNat
  <2> QED
    BY <2>1, <2>3, <2>4, <2>5, <2>6
<1>11. FoundInv'
  <2>1. Outside \subseteq Outside'
    <3> SUFFICES ASSUME NEW n \in Outside PROVE n \in Outside'
      OBVIOUS
    <3>1. n \in Node /\ (var[n] \/ \E i \in DOMAIN frames : Mentions(i, n))
      BY DEF Outside
    <3>2. ASSUME NEW i \in DOMAIN frames, Mentions(i, n) PROVE i \in DOMAIN frames' /\ Mentions(i, n)'
      BY <3>2, <1>6, <1>7 DEF Mentions, Calling
    <3> QED
      BY <3>1, <3>2 DEF Outside
  <2>2. Roots \subseteq Roots'
    BY DEF Roots
  <2>3. UNCHANGED <<state, out>>
    <3>1. \A n \in Node : state'[n] = state[n]
      OBVIOUS
    <3>2. state' \in [Node -> {"none", "live", "null"}] /\ state \in [Node -> {"none", "live", "null"}]
      BY <1>0 DEF Types
    <3> QED
      BY <3>1, <3>2
  <2> QED
    BY <2>1, <2>2, <2>3, <1>0, FoundKeeps
<1>12. ColorInv'
  BY <1>0 DEF ColorInv, Tags, Tag
<1>13. MarkInv' /\ ScanInv' /\ CollectInv' /\ GarbageInv' /\ AllInv'
  BY <1>0 DEF MarkInv, ScanInv, CollectInv, GarbageInv, AllInv
<1> QED
  BY <1>3, <1>4, <1>5, <1>8, <1>9, <1>10, <1>11, <1>12, <1>13 DEF Inv

-----------------------------------------------------------------------------
(* gc_collect_roots() is done: nothing was found, destructors are to be    *)
(* called, or the garbage is destroyed.                                    *)
LEMMA NothingFound ==
    ASSUME Inv, Collector, phase = "collect", todo = {}, idx > end, Used(gc) = {},
           Finish, UNCHANGED <<heap, gc, todo, black>>
    PROVE  Inv'
<1>1. /\ \A n \in Node : gc.color[n] = "black"
      /\ Taken = {}
  BY CollectDone
<1>2. /\ gc \in Headers /\ Wired(gc) /\ black = {} /\ Types /\ HeapInv
  BY DEF Inv, Types, StackRest
<1>3. \A n \in Node : ~Buffered(gc, n) /\ TagIn(gc, n) = "none"
  BY <1>2 DEF Wired, TagIn
<1>4. \A n \in Node : state[n] # "null"
  BY <1>2 DEF HeapInv
<1>5. /\ state' \in [Node -> {"none", "live"}] /\ free_called' \in [Node -> BOOLEAN] /\ dtor_called' \in [Node -> BOOLEAN]
      /\ UNCHANGED <<out, var, todo, black>>
      /\ \A n \in Node : state'[n] = state[n] /\ free_called'[n] = free_called[n] /\ dtor_called'[n] = dtor_called[n]
  BY <1>2, <1>4 DEF Types, heap
<1>6. gc' = gc
  OBVIOUS
<1>7. gc' \in Headers /\ Wired(gc')
  BY <1>2, <1>6
<1>8. \A n \in Node : /\ gc'.refcount[n] = gc.refcount[n] /\ TagIn(gc', n) \in {"none", "root"}
                      /\ Buffered(gc, n) <=> Buffered(gc', n)
                      /\ gc'.color[n] = IF TagIn(gc', n) = "root" THEN "purple" ELSE "black"
  BY <1>1, <1>3, <1>6
<1> QED
  BY <1>1, <1>2, <1>5, <1>7, <1>8, FinishStep

(* There is garbage, and no destructor is to be called: all of it will be  *)
(* destroyed.                                                              *)
LEMMA GarbageFound ==
    ASSUME Inv, Collector, phase = "collect", todo = {}, idx > end, ~has_dtors,
           phase' = "destroy", idx' = 1, end' = Len(gc.buf), UNCHANGED <<heap, gc, frames, has_dtors, rerun, todo, black>>
    PROVE  Inv'
<1>0. /\ gc \in Headers /\ Wired(gc) /\ black = {} /\ Types /\ HeapInv /\ CountInv /\ ColorInv
      /\ Len(gc.buf) \in Nat /\ dtor_called \in [Node -> BOOLEAN] /\ has_dtors \in BOOLEAN /\ rerun \in {"no", "should", "did"}
  BY Fields DEF Inv, Types, StackRest
<1>1. /\ \A n \in Node : gc.color[n] = "black"
      /\ \A n \in Node : Buffered(gc, n) <=> Tag(n) = "garbage"
      /\ \A n \in Node : Tag(n) \in {"none", "garbage"}
      /\ Taken = {}
      /\ \A n \in Roots : state[n] # "none" /\ n \notin Outside /\ \A m \in Node : n \in out[m] => m \in Roots
      /\ \A n \in Node \ Roots : state[n] # "none" => n \in Reach(Outside)
      /\ \A n \in Roots : ~Undestructed(n)
  BY CollectDone
<1>2. gc' = gc /\ UNCHANGED <<state, out, var, dtor_called, free_called, frames>> /\ todo' = {} /\ black' = {}
  BY <1>0 DEF heap
<1>3. Roots = OfTag("garbage")
  BY <1>1 DEF Roots, OfTag
<1>4. \A n \in Node : Tag(n)' = Tag(n)
  BY <1>2 DEF Tag
<1>5. ColorInv'
  <2> SUFFICES ASSUME NEW n \in Node
               PROVE  /\ Tag(n) \in Tags("destroy")
                      /\ gc.color[n] = IF Tag(n) \in {"root", "dtor"} THEN "purple" ELSE "black"
                      /\ Tag(n) \in {"garbage", "dtor"} => gc.address[n] <= Len(gc.buf)
                      /\ Tag(n) = "dtor" => n \in Destructor
                      /\ ~(Tag(n) = "garbage" /\ gc.address[n] < 1)
    BY <1>2, <1>4 DEF ColorInv
  <2>1. Buffered(gc, n) => gc.address[n] \in 1..Len(gc.buf)
    BY <1>0, SlotIs
  <2>2. Buffered(gc, n) => 1 <= gc.address[n] /\ gc.address[n] <= Len(gc.buf) /\ gc.address[n] \in Nat
    BY <2>1, <1>0
  <2> QED
    BY <1>1, <2>2 DEF Tags
<1>6. CountInv'
  <2>1. Taken' = Taken
    BY <1>1 DEF Taken
  <2> QED
    BY <2>1, <1>0, <1>2, CountSame
<1>7. \A i \in DOMAIN frames : ~Above(i)
  BY AtGc
<1>8. \A i, n : (Mentions(i, n)' <=> Mentions(i, n)) /\ (Above(i)' <=> Above(i))
  BY <1>2 DEF Mentions, Calling, Above
<1>9. GarbageInv'
  <2> SUFFICES ASSUME NEW n \in OfTag("garbage")
               PROVE  /\ ~var[n] /\ ~Undestructed(n)
                      /\ \A i \in DOMAIN frames : ~Mentions(i, n)
                      /\ \A m \in Node : n \in out[m] => Tag(m) = "garbage"
    BY <1>2, <1>4, <1>8 DEF GarbageInv, OfTag, Undestructed
  <2>1. n \in Roots /\ n \in Node
    BY <1>3 DEF OfTag
  <2>2. ~var[n] /\ \A i \in DOMAIN frames : ~Mentions(i, n)
    BY <2>1, <1>1 DEF Outside
  <2>3. \A m \in Node : n \in out[m] => Tag(m) = "garbage"
    BY <2>1, <1>1, <1>3 DEF OfTag
  <2> QED
    BY <2>1, <2>2, <2>3, <1>1
<1>10. AllInv'
  <2>1. InUse' = Outside
    BY <1>2, <1>7, <1>8 DEF InUse, Outside
  <2>2. Reach(InUse)' = Reach(Outside)
    BY <2>1, <1>2 DEF Reach, Closed
  <2>3. \A n \in Node : state[n] # "none" => Tag(n) = "garbage" \/ n \in Reach(Outside)
    BY <1>1, <1>3 DEF OfTag
  <2> QED
    BY <2>2, <2>3, <1>2, <1>4, <1>7, <1>8 DEF AllInv
<1>11. \A n \in Node : /\ state[n] # "null" /\ (dtor_called[n] => dtor_called'[n])
                       /\ state[n] = "none" => ~dtor_called'[n] /\ gc'.color[n] = "black"
  BY <1>0, <1>1, <1>2 DEF HeapInv
<1>12. phase' \in {"nested", "call", "destroy"} /\ end' <= Len(gc'.buf) /\ end' \in Nat /\ idx' \in Nat /\ idx' >= 1
       /\ gc' \in Headers /\ Wired(gc') /\ dtor_called' \in [Node -> BOOLEAN]
       /\ \A n \in Node : Buffered(gc', n) <=> Buffered(gc, n)
  BY <1>0, <1>2
<1> QED
  BY <1>0, <1>2, <1>5, <1>6, <1>9, <1>10, <1>11, <1>12, QuietStep

(* There are destructors to be called: their objects are set apart.        *)
LEMMA DestructorsFound ==
    ASSUME Inv, Collector, phase = "collect", todo = {}, idx > end,
           SetApart, phase' = "nested", idx' = 1, end' = Len(gc.buf),
           rerun' = IF rerun = "no" THEN "should" ELSE rerun,
           UNCHANGED <<state, out, var, free_called, frames, has_dtors, todo, black>>
    PROVE  Inv'
<1> DEFINE S == {i \in Garbage : Undestructed(gc.buf[i].ref)}
           plain == {gc.buf[i].ref : i \in Garbage \ S}
           g == Retag(gc, S, "dtor")
           f == [n \in Node |-> IF \E i \in S : gc.buf[i].ref = n THEN "purple" ELSE gc.color[n]]
<1>0. /\ gc \in Headers /\ Wired(gc) /\ black = {} /\ Types /\ HeapInv /\ CountInv /\ ColorInv
      /\ Len(gc.buf) \in Nat /\ dtor_called \in [Node -> BOOLEAN] /\ has_dtors \in BOOLEAN /\ rerun \in {"no", "should", "did"}
      /\ gc.color \in [Node -> Colors]
  BY Fields DEF Inv, Types, StackRest
<1>1. /\ \A n \in Node : gc.color[n] = "black"
      /\ \A n \in Node : Buffered(gc, n) <=> Tag(n) = "garbage"
      /\ \A n \in Node : Tag(n) \in {"none", "garbage"}
      /\ Taken = {}
      /\ \A n \in Roots : state[n] # "none" /\ n \notin Outside /\ \A m \in Node : n \in out[m] => m \in Roots
      /\ \A n \in Node \ Roots : state[n] # "none" => n \in Reach(Outside)
      /\ \A n \in Roots : Undestructed(n) => has_dtors
  BY CollectDone
<1>2. Roots = OfTag("garbage")
  BY <1>1 DEF Roots, OfTag
<1>3. /\ gc' = [gc EXCEPT !.buf = g.buf, !.color = f]
      /\ dtor_called' = [n \in Node |-> dtor_called[n] \/ n \in plain]
  <2>1. g.buf = [i \in DOMAIN gc.buf |-> IF i \in S THEN [gc.buf[i] EXCEPT !.tag = "dtor"] ELSE gc.buf[i]]
    BY <1>0 DEF Retag, Headers
  <2>2. dtor_called' = [n \in Node |-> dtor_called[n] \/ n \in plain]
    BY DEF SetApart
  <2>3. gc' = [gc EXCEPT !.buf = [i \in DOMAIN gc.buf |-> IF i \in S THEN [gc.buf[i] EXCEPT !.tag = "dtor"] ELSE gc.buf[i]],
                         !.color = f]
    BY DEF SetApart
  <2> HIDE DEF g, f, S
  <2> QED
    BY <2>1, <2>2, <2>3
<1>4. S \in SUBSET Used(gc)
  BY DEF Garbage
<1>5. \A n \in Node : gc.address[n] \in S <=> Tag(n) = "garbage" /\ Undestructed(n)
  <2> TAKE n \in Node
  <2>1. CASE Buffered(gc, n)
    <3>1. gc.address[n] \in Used(gc) /\ gc.buf[gc.address[n]].ref = n /\ Tag(n) = gc.buf[gc.address[n]].tag
      BY <2>1, <1>0, SlotIs DEF Tag, Wired
    <3> QED
      BY <3>1 DEF Garbage
  <2>2. CASE ~Buffered(gc, n)
    <3>1. gc.address[n] \notin Used(gc)
      BY <2>2, <1>0, Fields DEF Buffered
    <3> QED
      BY <2>2, <3>1 DEF Tag, TagIn, Garbage
  <2> QED
    BY <2>1, <2>2
<1>6. \A n \in Node : (\E i \in S : gc.buf[i].ref = n) <=> gc.address[n] \in S
  <2> TAKE n \in Node
  <2>1. \A i \in S : gc.address[gc.buf[i].ref] = i
    BY <1>0, <1>4 DEF Wired
  <2>2. gc.address[n] \in S => gc.buf[gc.address[n]].ref = n
    BY <1>0, <1>5, SlotIs DEF Tag, TagIn
  <2> HIDE DEF S
  <2> QED
    BY <2>1, <2>2
<1>7. \A n \in Node : n \in plain <=> Tag(n) = "garbage" /\ ~Undestructed(n)
  <2> TAKE n \in Node
  <2>1. ASSUME n \in plain PROVE Tag(n) = "garbage" /\ ~Undestructed(n)
    <3> PICK i \in Garbage \ S : n = gc.buf[i].ref
      BY <2>1
    <3>1. i \in DOMAIN gc.buf /\ gc.buf[i].tag = "garbage" /\ gc.buf[i].tag # "unused" /\ ~Undestructed(n)
      BY DEF Garbage, Used
    <3> HIDE DEF S
    <3> QED
      BY <3>1, <1>0, RootIs DEF Tag
  <2>2. ASSUME Tag(n) = "garbage", ~Undestructed(n) PROVE n \in plain
    <3>1. Buffered(gc, n)
      BY <2>2 DEF Tag, TagIn
    <3>2. gc.address[n] \in Used(gc) /\ gc.buf[gc.address[n]].ref = n /\ Tag(n) = gc.buf[gc.address[n]].tag
      BY <3>1, <1>0, SlotIs DEF Tag, Wired
    <3>3. gc.address[n] \in Garbage \ S
      BY <2>2, <3>2 DEF Garbage
    <3> QED
      BY <3>2, <3>3
  <2> QED
    BY <2>1, <2>2
<1> HIDE DEF S, plain, f
<1>8. /\ g \in Headers /\ Wired(g) /\ Len(g.buf) = Len(gc.buf)
      /\ g.refcount = gc.refcount /\ g.color = gc.color /\ g.address = gc.address /\ g.unused = gc.unused
      /\ \A m \in Node : TagIn(g, m) = IF gc.address[m] \in S THEN "dtor" ELSE TagIn(gc, m)
  <2>1. "dtor" \in {"root", "garbage", "dtor"} /\ gc \in Headers /\ Wired(gc)
    BY <1>0
  <2> QED
    BY <2>1, <1>4, RetagIs
<1>9. \A n \in Node : f[n] = IF gc.address[n] \in S THEN "purple" ELSE "black"
  BY <1>1, <1>6 DEF f
<1>10. f \in [Node -> Colors]
  BY <1>9 DEF f, Colors
<1> HIDE DEF g
<1>11. /\ gc' \in Headers /\ gc'.buf = g.buf /\ gc'.color = f /\ gc'.refcount = gc.refcount
       /\ gc'.address = gc.address /\ gc'.unused = gc.unused
  BY <1>0, <1>3, <1>8, <1>10 DEF Headers
<1>12. Wired(gc') /\ \A n \in Node : TagIn(gc', n) = TagIn(g, n)
  BY <1>8, <1>11, SameBuffer
<1>13. \A n \in Node : /\ Tag(n)' = IF Tag(n) = "garbage" /\ Undestructed(n) THEN "dtor" ELSE Tag(n)
                       /\ gc'.color[n] = IF Tag(n) = "garbage" /\ Undestructed(n) THEN "purple" ELSE "black"
                       /\ dtor_called'[n] = (dtor_called[n] \/ (Tag(n) = "garbage" /\ ~Undestructed(n)))
                       /\ Buffered(gc', n) <=> Buffered(gc, n)
  BY <1>3, <1>5, <1>7, <1>8, <1>9, <1>11, <1>12 DEF Tag, Buffered
<1>14. dtor_called' \in [Node -> BOOLEAN]
  BY <1>0, <1>3
<1>15. ColorInv'
  <2> SUFFICES ASSUME NEW n \in Node
               PROVE  /\ Tag(n)' \in Tags("nested")
                      /\ gc'.color[n] = IF Tag(n)' \in {"root", "dtor"} THEN "purple" ELSE "black"
                      /\ Tag(n)' \in {"garbage", "dtor"} => gc'.address[n] <= Len(gc.buf)
                      /\ Tag(n)' = "dtor" => n \in Destructor
    BY DEF ColorInv
  <2>1. Buffered(gc, n) => gc.address[n] \in 1..Len(gc.buf)
    BY <1>0, SlotIs
  <2>2. Buffered(gc, n) => gc'.address[n] <= Len(gc.buf)
    BY <2>1, <1>0, <1>11
  <2> QED
    BY <1>1, <1>13, <2>2 DEF Tags, Undestructed
<1>16. CountInv'
  <2>1. Taken' = Taken
    BY <1>1 DEF Taken
  <2> QED
    BY <2>1, <1>0, <1>11, CountSame
<1>17. \A i, n : Mentions(i, n)' <=> Mentions(i, n)
  BY DEF Mentions, Calling
<1>18. GarbageInv'
  <2>1. ASSUME NEW n \in OfTag("garbage")'
        PROVE  /\ ~var[n] /\ ~Undestructed(n)'
               /\ \A i \in DOMAIN frames : ~Mentions(i, n)
               /\ \A m \in Node : n \in out[m] => Tag(m)' = "garbage" \/ (Tag(m)' = "dtor" /\ gc'.address[m] >= 1)
    <3>1. n \in Node /\ Tag(n) = "garbage" /\ ~Undestructed(n) /\ n \in Roots
      BY <1>1, <1>13 DEF OfTag, Roots
    <3>2. ~var[n] /\ \A i \in DOMAIN frames : ~Mentions(i, n)
      BY <3>1, <1>1 DEF Outside
    <3>3. ~Undestructed(n)'
      BY <3>1, <1>13 DEF Undestructed
    <3>4. ASSUME NEW m \in Node, n \in out[m]
          PROVE  Tag(m)' = "garbage" \/ (Tag(m)' = "dtor" /\ gc'.address[m] >= 1)
      <4>1. m \in Roots /\ Buffered(gc, m) /\ Tag(m) = "garbage"
        BY <3>1, <3>4, <1>1 DEF Roots
      <4>2. gc.address[m] \in 1..Len(gc.buf)
        BY <4>1, <1>0, SlotIs
      <4> QED
        BY <4>1, <4>2, <1>11, <1>13
    <3> QED
      BY <3>2, <3>3, <3>4
  <2> QED
    BY <2>1, <1>17 DEF GarbageInv
<1>19. AllInv'
  BY <1>0 DEF AllInv
<1>20. \A n \in Node : /\ state[n] # "null" /\ (dtor_called[n] => dtor_called'[n])
                       /\ state[n] = "none" => ~dtor_called'[n] /\ gc'.color[n] = "black"
  <2> TAKE n \in Node
  <2>1. /\ state[n] # "null" /\ (state[n] = "none" => ~dtor_called[n] /\ ~Buffered(gc, n))
    BY <1>0 DEF HeapInv
  <2> QED
    BY <2>1, <1>1, <1>13
<1>21. phase' \in {"nested", "call", "destroy"} /\ end' <= Len(gc'.buf) /\ end' \in Nat /\ idx' \in Nat /\ idx' >= 1
       /\ todo' = {} /\ black' = {} /\ has_dtors' \in BOOLEAN /\ rerun' \in {"no", "should", "did"}
  BY <1>0, <1>8, <1>11
<1> QED
  BY <1>11, <1>12, <1>13, <1>14, <1>15, <1>16, <1>18, <1>19, <1>20, <1>21, QuietStep

(* gc_collect_roots() is done, in each of the three ways.                  *)
LEMMA EndCollectKeeps == ASSUME Inv, EndCollect PROVE Inv'
<1>1. Collector /\ phase = "collect" /\ todo = {} /\ idx > end
      /\ UNCHANGED <<state, out, var, free_called, todo, black>>
  BY DEF EndCollect
<1>2. CASE Used(gc) = {} /\ Finish /\ UNCHANGED <<gc, dtor_called>>
  <2>1. UNCHANGED <<heap, gc, todo, black>>
    BY <1>1, <1>2 DEF heap
  <2> QED
    BY <1>1, <1>2, <2>1, NothingFound
<1>3. CASE /\ SetApart /\ phase' = "nested" /\ idx' = 1 /\ end' = Len(gc.buf)
           /\ rerun' = IF rerun = "no" THEN "should" ELSE rerun
           /\ UNCHANGED <<frames, has_dtors>>
  BY <1>1, <1>3, DestructorsFound
<1>4. CASE /\ ~has_dtors /\ phase' = "destroy" /\ idx' = 1 /\ end' = Len(gc.buf)
           /\ UNCHANGED <<gc, dtor_called, frames, has_dtors, rerun>>
  <2>1. UNCHANGED <<heap, gc, frames, has_dtors, rerun, todo, black>>
    BY <1>1, <1>4 DEF heap
  <2> QED
    BY <1>1, <1>4, <2>1, GarbageFound
<1> QED
  BY <1>2, <1>3, <1>4 DEF EndCollect

(* More objects lead to more.                                              *)
LEMMA LeadsMore ==
    ASSUME NEW o, NEW S, NEW T, \A m \in S : Leads(o, T, m), NEW k, Leads(o, S, k)
    PROVE  Leads(o, T, k)
<1> SUFFICES ASSUME NEW C \in SUBSET Node, T \subseteq C, \A m \in C : o[m] \subseteq C
             PROVE  k \in C
  BY DEF Leads
<1>1. S \subseteq C
  BY DEF Leads
<1> QED
  BY <1>1 DEF Leads

-----------------------------------------------------------------------------
(* gc_remove_nested_data_from_buffer().                                    *)
LEMMA NestedRootKeeps == ASSUME Inv, NestedRoot PROVE Inv'
<1>0. /\ Types /\ Wired(gc) /\ ColorInv /\ CountInv /\ FoundInv /\ StackRest /\ GarbageInv /\ AllInv
      /\ gc \in Headers /\ out \in [Node -> SUBSET Node] /\ Len(gc.buf) \in Nat
      /\ Collector /\ phase = "nested" /\ todo = {} /\ idx <= end /\ idx' = idx + 1 /\ idx \in Nat /\ idx >= 1
      /\ todo' = IF gc.buf[idx].tag = "dtor" THEN Children(gc.buf[idx].ref) ELSE {}
      /\ UNCHANGED <<heap, gc, frames, phase, end, black, has_dtors, rerun>>
      /\ black = {} /\ has_dtors \in BOOLEAN /\ rerun \in {"no", "should", "did"} /\ end \in Nat /\ end <= Len(gc.buf)
  BY Fields DEF Inv, Types, NestedRoot, StackRest
<1>1. idx \in DOMAIN gc.buf
  BY <1>0, Fields
<1>2. \A m \in Node : Tag(m) = "dtor" /\ gc.address[m] = idx => todo' = out[m]
  <2> TAKE m \in Node
  <2> HAVE Tag(m) = "dtor" /\ gc.address[m] = idx
  <2>1. Buffered(gc, m)
    BY DEF Tag, TagIn
  <2>2. gc.buf[idx].ref = m /\ gc.buf[idx].tag = "dtor"
    BY <2>1, <1>0, SlotIs DEF Tag
  <2> QED
    BY <2>2, <1>0, ChildrenAre
<1>3. todo' \in SUBSET Node /\ todo' \subseteq Reach(OfTag("dtor"))
  <2>1. CASE gc.buf[idx].tag = "dtor"
    <3> DEFINE m == gc.buf[idx].ref
    <3>1. m \in Node /\ Tag(m) = "dtor"
      BY <2>1, <1>0, <1>1, RootIs DEF Tag
    <3>2. todo' = out[m]
      BY <2>1, <3>1, <1>0, ChildrenAre
    <3> HIDE DEF m
    <3>3. Leads(out, OfTag("dtor"), m)
      BY <3>1, LeadsBase DEF OfTag
    <3>4. \A k \in out[m] : Leads(out, OfTag("dtor"), k)
      BY <3>1, <3>3, <1>0, LeadsNext
    <3> QED
      BY <3>1, <3>2, <3>4, <1>0, ReachIs
  <2>2. CASE gc.buf[idx].tag # "dtor"
    BY <2>2, <1>0
  <2> QED
    BY <2>1, <2>2
<1>4. \A n \in Node : Tag(n)' = Tag(n)
  BY <1>0 DEF Tag
<1>5. ColorInv'
  BY <1>0, <1>4 DEF ColorInv
<1>6. CountInv'
  BY <1>0, CountSame DEF heap, Taken
<1>7. FoundInv'
  <2>1. Roots' = Roots
    BY <1>0 DEF Roots
  <2> QED
    BY <2>1, <1>0, FoundSame
<1>8. GarbageInv'
  <2>1. OfTag("garbage")' = OfTag("garbage") /\ OfTag("dtor")' = OfTag("dtor") /\ Reach(OfTag("dtor"))' = Reach(OfTag("dtor"))
    BY <1>0, <1>4 DEF OfTag, Reach, Closed, heap
  <2>2. \A i, n : (Mentions(i, n)' <=> Mentions(i, n)) /\ (Undestructed(n)' <=> Undestructed(n))
    BY <1>0 DEF Mentions, Calling, Undestructed, heap
  <2>3. ASSUME NEW n \in OfTag("garbage"), NEW m \in Node, n \in out[m]
        PROVE  Tag(m) = "garbage" \/ n \in todo' \/ (Tag(m) = "dtor" /\ gc.address[m] >= idx + 1)
    <3>1. Tag(m) = "garbage" \/ (Tag(m) = "dtor" /\ gc.address[m] >= idx)
      BY <2>3, <1>0 DEF GarbageInv
    <3>2. gc.address[m] \in Nat
      BY <1>0, Fields
    <3>3. gc.address[m] >= idx => gc.address[m] = idx \/ gc.address[m] >= idx + 1
      BY <3>2, <1>0
    <3> QED
      BY <3>1, <3>3, <2>3, <1>2
  <2>4. \A n \in OfTag("garbage") : ~var[n] /\ ~Undestructed(n) /\ \A i \in DOMAIN frames : ~Mentions(i, n)
    BY <1>0 DEF GarbageInv
  <2> QED
    BY <2>1, <2>2, <2>3, <2>4, <1>0, <1>3, <1>4 DEF GarbageInv, heap
<1>9. \A n \in Node : state[n] = "none" => gc'.color[n] = "black"
  BY <1>0 DEF Inv, HeapInv
<1>10. MarkInv' /\ ScanInv' /\ CollectInv' /\ AllInv'
  BY <1>0 DEF MarkInv, ScanInv, CollectInv, AllInv
<1> QED
  BY <1>0, <1>3, <1>5, <1>6, <1>7, <1>8, <1>9, <1>10, TraversalStep

(* gc_remove_nested_data_from_buffer(), one object: it is taken out of     *)
(* the buffer if it is black, and then so are its children.                *)
LEMMA RemoveNestedKeeps == ASSUME Inv, NEW n \in Node, RemoveNested(n) PROVE Inv'
<1>0. /\ Types /\ Wired(gc) /\ ColorInv /\ CountInv /\ FoundInv /\ StackRest /\ GarbageInv /\ AllInv
      /\ gc \in Headers /\ out \in [Node -> SUBSET Node] /\ Len(gc.buf) \in Nat
      /\ Collector /\ phase = "nested" /\ n \in todo /\ todo \in SUBSET Node /\ idx \in Nat /\ idx >= 1
      /\ UNCHANGED <<heap, frames, phase, idx, end, black, has_dtors, rerun>>
      /\ black = {} /\ has_dtors \in BOOLEAN /\ rerun \in {"no", "should", "did"} /\ end \in Nat /\ end <= Len(gc.buf)
  BY Fields DEF Inv, Types, RemoveNested, StackRest
<1>1. Buffered(gc, n) /\ gc.color[n] = "black" <=> Tag(n) = "garbage"
  <2>1. Tag(n) \in {"none", "garbage", "dtor"}
    BY <1>0 DEF ColorInv, Tags
  <2>2. gc.color[n] = IF Tag(n) \in {"root", "dtor"} THEN "purple" ELSE "black"
    BY <1>0 DEF ColorInv
  <2>3. Buffered(gc, n) <=> Tag(n) # "none"
    BY <1>0, SlotIs DEF Tag, TagIn
  <2> QED
    BY <2>1, <2>2, <2>3
<1>2. /\ gc' \in Headers /\ Wired(gc') /\ gc'.refcount = gc.refcount /\ Len(gc'.buf) = Len(gc.buf)
      /\ \A k \in Node : k # n => gc'.address[k] = gc.address[k] /\ Tag(k)' = Tag(k)
      /\ \A k \in Node : gc'.color[k] = gc.color[k]
      /\ Tag(n) = "garbage" => Tag(n)' = "none" /\ ~Buffered(gc', n) /\ todo' = (todo \ {n}) \cup out[n]
      /\ Tag(n) # "garbage" => gc' = gc /\ todo' = todo \ {n}
  <2>1. CASE Tag(n) = "garbage"
    <3>1. gc' = RemoveFromBuffer(gc, n) /\ todo' = (todo \ {n}) \cup out[n]
      BY <2>1, <1>1, ChildrenAre DEF RemoveNested
    <3>2. gc \in Headers /\ Wired(gc)
      BY <1>0
    <3>3. /\ gc' \in Headers /\ Wired(gc')
          /\ gc'.refcount = gc.refcount /\ ~Buffered(gc', n) /\ TagIn(gc', n) = "none"
          /\ \A m \in Node \ {n} : /\ gc'.address[m] = gc.address[m] /\ TagIn(gc', m) = TagIn(gc, m)
                                  /\ gc'.color[m] = gc.color[m]
          /\ gc'.color[n] = IF Buffered(gc, n) THEN "black" ELSE gc.color[n]
          /\ Len(gc'.buf) = Len(gc.buf)
      BY <3>1, <3>2, RemoveIs
    <3> QED
      BY <3>1, <3>3, <2>1, <1>1 DEF Tag
  <2>2. CASE Tag(n) # "garbage"
    <3>1. gc' = gc /\ todo' = todo \ {n}
      BY <2>2, <1>1 DEF RemoveNested
    <3> QED
      BY <3>1, <2>2, <1>0 DEF Tag
  <2> QED
    BY <2>1, <2>2
<1>3. n \in Reach(OfTag("dtor")) /\ todo \subseteq Reach(OfTag("dtor"))
  BY <1>0 DEF GarbageInv
<1>4. \A k \in Node : Buffered(gc', k) <=> Buffered(gc, k) /\ ~(k = n /\ Tag(n) = "garbage")
  BY <1>2 DEF Buffered
<1>5. ColorInv'
  <2> SUFFICES ASSUME NEW k \in Node
               PROVE  /\ Tag(k)' \in Tags("nested")
                      /\ gc'.color[k] = IF Tag(k)' \in {"root", "dtor"} THEN "purple" ELSE "black"
                      /\ Tag(k)' \in {"garbage", "dtor"} => gc'.address[k] <= end
                      /\ Tag(k)' = "dtor" => k \in Destructor
    BY <1>0 DEF ColorInv
  <2>1. /\ Tag(k) \in Tags("nested")
        /\ gc.color[k] = IF Tag(k) \in {"root", "dtor"} THEN "purple" ELSE "black"
        /\ Tag(k) \in {"garbage", "dtor"} => gc.address[k] <= end
        /\ Tag(k) = "dtor" => k \in Destructor
    BY <1>0 DEF ColorInv
  <2>2. CASE k = n /\ Tag(n) = "garbage"
    BY <2>1, <2>2, <1>2 DEF Tags
  <2>3. CASE ~(k = n /\ Tag(n) = "garbage")
    <3>1. Tag(k)' = Tag(k) /\ gc'.address[k] = gc.address[k] /\ gc'.color[k] = gc.color[k]
      BY <2>3, <1>2 DEF Tag
    <3> QED
      BY <3>1, <2>1
  <2> QED
    BY <2>2, <2>3
<1>6. CountInv'
  <2>1. Taken' = Taken
    BY <1>0 DEF Taken
  <2> QED
    BY <2>1, <1>0, <1>2, CountSame DEF heap
<1>7. OfTag("dtor")' = OfTag("dtor") /\ Reach(OfTag("dtor"))' = Reach(OfTag("dtor"))
  <2>1. OfTag("dtor")' = OfTag("dtor")
    BY <1>2 DEF OfTag, Tag
  <2> QED
    BY <2>1, <1>0 DEF Reach, Closed, heap
<1>8. FoundInv'
  <2> SUFFICES ASSUME NEW k \in Node, state[k] # "none" PROVE (k \in Reach(Outside \cup Roots))'
    BY <1>0 DEF FoundInv, heap
  <2> DEFINE S == Outside \cup Roots
             T == Outside \cup Roots'
  <2>1. Leads(out, S, k)
    BY ReachIs, <1>0 DEF FoundInv
  <2>2. S \in SUBSET Node
    BY DEF Outside, Roots
  <2>3. OfTag("dtor") \subseteq T
    <3> SUFFICES ASSUME NEW m \in Node, Tag(m) = "dtor" PROVE Buffered(gc', m)
      BY DEF OfTag, Roots
    <3>1. Buffered(gc, m)
      BY DEF Tag, TagIn
    <3> QED
      BY <3>1, <1>4
  <2>4. \A m \in S : Leads(out, T, m)
    <3> TAKE m \in S
    <3>1. CASE m = n
      <4>1. Leads(out, OfTag("dtor"), n)
        BY <1>3, ReachIs
      <4> QED
        BY <4>1, <2>3, <3>1 DEF Leads
    <3>2. CASE m # n
      <4>1. m \in T
        BY <3>2, <1>4 DEF Roots
      <4> QED
        BY <4>1, LeadsBase
    <3> QED
      BY <3>1, <3>2
  <2> HIDE DEF S, T
  <2>5. Leads(out, T, k)
    BY <2>1, <2>4, LeadsMore
  <2>6. Outside' = Outside
    BY <1>0 DEF Outside, heap, Mentions, Calling
  <2> QED
    BY <2>5, <2>6, <1>0 DEF Reach, Closed, Leads, heap, T
<1>9. todo' \in SUBSET Node /\ todo' \subseteq Reach(OfTag("dtor"))
  <2>1. Leads(out, OfTag("dtor"), n)
    BY <1>3, ReachIs
  <2>2. \A k \in out[n] : k \in Node /\ Leads(out, OfTag("dtor"), k)
    BY <2>1, <1>0, LeadsNext
  <2>3. out[n] \subseteq Reach(OfTag("dtor"))
    BY <2>2, ReachIs
  <2> QED
    BY <2>2, <2>3, <1>0, <1>2, <1>3
<1>10. GarbageInv'
  <2>1. \A i, k : (Mentions(i, k)' <=> Mentions(i, k)) /\ (Undestructed(k)' <=> Undestructed(k))
    BY <1>0 DEF Mentions, Calling, Undestructed, heap
  <2>2. \A k \in OfTag("garbage")' : k \in OfTag("garbage") /\ k # n
    BY <1>2 DEF OfTag, Tag
  <2>3. ASSUME NEW k \in OfTag("garbage")', NEW m \in Node, k \in out[m]
        PROVE  Tag(m)' = "garbage" \/ k \in todo' \/ (Tag(m)' = "dtor" /\ gc'.address[m] >= idx)
    <3>1. Tag(m) = "garbage" \/ k \in todo \/ (Tag(m) = "dtor" /\ gc.address[m] >= idx)
      BY <2>2, <2>3, <1>0 DEF GarbageInv
    <3>2. CASE k \in todo
      BY <3>2, <2>2, <2>3, <1>2
    <3>3. CASE m = n /\ Tag(n) = "garbage"
      BY <3>3, <2>3, <1>2
    <3>4. CASE ~(m = n /\ Tag(n) = "garbage")
      <4>1. Tag(m)' = Tag(m) /\ gc'.address[m] = gc.address[m]
        BY <3>4, <1>2 DEF Tag
      <4> QED
        BY <4>1, <3>1, <3>2
    <3> QED
      BY <3>3, <3>4
  <2>4. \A k \in OfTag("garbage") : ~var[k] /\ ~Undestructed(k) /\ \A i \in DOMAIN frames : ~Mentions(i, k)
    BY <1>0 DEF GarbageInv
  <2>5. todo' \subseteq Reach(OfTag("dtor"))'
    BY <1>7, <1>9
  <2>6. phase' = "nested" /\ UNCHANGED <<var, out, frames, idx>>
    BY <1>0 DEF heap
  <2> QED
    BY <2>1, <2>2, <2>3, <2>4, <2>5, <2>6 DEF GarbageInv
<1>11. \A k \in Node : state[k] = "none" => gc'.color[k] = "black"
  BY <1>2 DEF Inv, HeapInv
<1>12. MarkInv' /\ ScanInv' /\ CollectInv' /\ AllInv'
  BY <1>0 DEF MarkInv, ScanInv, CollectInv, AllInv
<1>13. end <= Len(gc'.buf)
  BY <1>0, <1>2
<1> QED
  BY <1>0, <1>2, <1>4, <1>5, <1>6, <1>8, <1>9, <1>10, <1>11, <1>12, <1>13, TraversalStep

(* What is still garbage is not referred to by objects with a destructor   *)
(* to be called.                                                           *)
LEMMA EndNestedKeeps == ASSUME Inv, EndNested PROVE Inv'
<1>0. /\ Types /\ Wired(gc) /\ ColorInv /\ CountInv /\ FoundInv /\ StackRest /\ GarbageInv /\ AllInv
      /\ gc \in Headers /\ out \in [Node -> SUBSET Node] /\ Len(gc.buf) \in Nat
      /\ Collector /\ phase = "nested" /\ todo = {} /\ idx > end /\ idx' = 1 /\ idx \in Nat /\ phase' = "call"
      /\ UNCHANGED <<heap, gc, frames, end, todo, black, has_dtors, rerun>>
      /\ black = {} /\ has_dtors \in BOOLEAN /\ rerun \in {"no", "should", "did"} /\ end \in Nat /\ end <= Len(gc.buf)
  BY Fields DEF Inv, Types, EndNested, StackRest
<1>1. \A n \in Node : Tag(n)' = Tag(n) /\ gc.address[n] \in Nat
  BY <1>0, Fields DEF Tag
<1>2. ColorInv'
  <2> SUFFICES ASSUME NEW n \in Node
               PROVE  /\ Tag(n) \in Tags("call")
                      /\ gc.color[n] = IF Tag(n) \in {"root", "dtor"} THEN "purple" ELSE "black"
                      /\ Tag(n) \in {"garbage", "dtor"} => gc.address[n] <= end
                      /\ Tag(n) = "dtor" => n \in Destructor
                      /\ Tag(n) = "dtor" => gc.address[n] >= 1
    BY <1>0, <1>1 DEF ColorInv
  <2>1. Tag(n) = "dtor" => gc.address[n] >= 1
    BY <1>1 DEF Tag, TagIn, Buffered
  <2> QED
    BY <2>1, <1>0 DEF ColorInv, Tags
<1>3. CountInv'
  BY <1>0, CountSame DEF heap, Taken
<1>4. FoundInv'
  <2>1. Roots' = Roots
    BY <1>0 DEF Roots
  <2> QED
    BY <2>1, <1>0, FoundSame
<1>5. GarbageInv'
  <2>1. OfTag("garbage")' = OfTag("garbage")
    BY <1>1 DEF OfTag
  <2>2. \A i, n : (Mentions(i, n)' <=> Mentions(i, n)) /\ (Undestructed(n)' <=> Undestructed(n))
    BY <1>0 DEF Mentions, Calling, Undestructed, heap
  <2>3. \A m \in Node : ~(Tag(m) = "dtor" /\ gc.address[m] >= idx)
    <3> TAKE m \in Node
    <3>1. Tag(m) = "dtor" => gc.address[m] <= end
      BY <1>0 DEF ColorInv
    <3> QED
      BY <3>1, <1>0, <1>1
  <2>4. \A n \in OfTag("garbage") : \A m \in Node : n \in out[m] => Tag(m) = "garbage"
    BY <2>3, <1>0 DEF GarbageInv
  <2>5. \A n \in OfTag("garbage") : ~var[n] /\ ~Undestructed(n) /\ \A i \in DOMAIN frames : ~Mentions(i, n)
    BY <1>0 DEF GarbageInv
  <2> QED
    BY <2>1, <2>2, <2>4, <2>5, <1>0, <1>1 DEF GarbageInv, heap
<1>6. \A n \in Node : state[n] = "none" => gc'.color[n] = "black"
  BY <1>0 DEF Inv, HeapInv
<1>7. MarkInv' /\ ScanInv' /\ CollectInv' /\ AllInv'
  BY <1>0 DEF MarkInv, ScanInv, CollectInv, AllInv
<1> QED
  BY <1>0, <1>2, <1>3, <1>4, <1>5, <1>6, <1>7, TraversalStep

-----------------------------------------------------------------------------
(* The collector makes a call.                                             *)
LEMMA Entered ==
    ASSUME Inv, Collector, NEW f \in Frame, f.kind \in {"gcdtor", "gcfree"}, frames' = Append(frames, f), var' = var
    PROVE  /\ frames' \in Seq(Frame) /\ f.obj \in Node /\ f.rest \in SUBSET Node
           /\ \A i \in DOMAIN frames' : i \in DOMAIN frames \/ i = Len(frames')
           /\ \A i \in DOMAIN frames : /\ i \in DOMAIN frames' /\ frames'[i] = frames[i]
                                       /\ ~Above(i) /\ ~Above(i)'
                                       /\ \A n : Mentions(i, n)' <=> Mentions(i, n)
                                       /\ frames[i].kind \in {"dtor", "free", "gc"}
                                       /\ frames[i].kind # "gc" => frames[i].obj \in Node
           /\ Len(frames') \in DOMAIN frames' /\ Len(frames') \notin DOMAIN frames
           /\ frames'[Len(frames')] = f /\ Above(Len(frames))'
           /\ \A n : Mentions(Len(frames), n)' <=> n = f.obj \/ n \in f.rest
           /\ Outside' = Outside \cup {f.obj} \cup f.rest
           /\ InUse = Outside /\ InUse' = Outside
           /\ \A p : p = (IF f.kind = "gcdtor" THEN "call" ELSE "destroy") => StackOK(frames', p)
<1>1. /\ frames \in Seq(Frame) /\ frames # <<>> /\ frames[Len(frames)].kind = "gc"
      /\ \A i \in DOMAIN frames : frames[i].kind \notin {"del", "last", "gcdtor", "gcfree"} /\ ~Above(i)
      /\ \A q : q # "idle" => StackOK(frames, q)
  BY AtGc
<1>2. /\ frames' \in Seq(Frame) /\ frames' # <<>>
      /\ Len(frames') \in DOMAIN frames' /\ Len(frames') \notin DOMAIN frames
      /\ \A i \in DOMAIN frames' : i \in DOMAIN frames \/ i = Len(frames')
      /\ \A i \in DOMAIN frames : i \in DOMAIN frames' /\ frames'[i] = frames[i] /\ i < Len(frames')
      /\ frames'[Len(frames')] = f
      /\ \A i \in DOMAIN frames : Abv(frames', i) <=> Abv(frames, i)
      /\ Abv(frames', Len(frames')) <=> HasGc(frames)
  <2>1. frames \in Seq(Frame) /\ frames' = Append(frames, f)
    BY <1>1
  <2> QED
    BY <2>1, Pushed
<1>3. HasGc(frames)
  BY <1>1, StackIs DEF HasGc
<1>4. \A i : (Above(i) <=> Abv(frames, i)) /\ (Above(i)' <=> Abv(frames', i))
  BY DEF Above, Abv
<1>5. \A i \in DOMAIN frames : frames[i].kind \in {"dtor", "free", "gc"} /\ (frames[i].kind # "gc" => frames[i].obj \in Node)
  BY <1>1, StackIs, FrameIs
<1>6. f.kind # "gc" /\ f.obj \in Node /\ f.rest \in SUBSET Node
  BY FrameIs
<1>7. /\ \A i \in DOMAIN frames : \A n : Mentions(i, n)' <=> Mentions(i, n)
      /\ \A n : Mentions(Len(frames), n)' <=> n = f.obj \/ n \in f.rest
  <2>1. \A i \in DOMAIN frames : \A n : Mentions(i, n)' <=> Mentions(i, n)
    BY <1>2 DEF Mentions, Calling
  <2>2. \A n : Mentions(Len(frames), n)' <=> n = f.obj \/ n \in f.rest
    BY <1>2, <1>6 DEF Mentions, Calling
  <2> QED
    BY <2>1, <2>2
<1>8. Outside' = Outside \cup {f.obj} \cup f.rest
  <2>1. \A n : (\E i \in DOMAIN frames' : Mentions(i, n)') <=> (\E i \in DOMAIN frames : Mentions(i, n)) \/ n = f.obj \/ n \in f.rest
    BY <1>2, <1>7
  <2>2. Outside' = {n \in Node : var[n] \/ \E i \in DOMAIN frames' : Mentions(i, n)'}
    BY DEF Outside
  <2> QED
    BY <2>1, <2>2, <1>6 DEF Outside
<1>9. InUse = Outside /\ InUse' = Outside
  <2>1. InUse = Outside
    BY <1>1 DEF InUse, Outside
  <2>2. InUse' = Outside
    BY <1>1, <1>2, <1>3, <1>4, <1>7 DEF InUse, Outside
  <2> QED
    BY <2>1, <2>2
<1>10. ASSUME NEW p, p = (IF f.kind = "gcdtor" THEN "call" ELSE "destroy") PROVE StackOK(frames', p)
  <2>1. p # "idle" /\ NoLast(frames)
    BY <1>1, <1>10 DEF NoLast
  <2>2. StackOK(frames, p)
    BY <2>1, <1>1
  <2>3. /\ f.kind = "gcdtor" => p = "call" /\ frames # <<>> /\ frames[Len(frames)].kind = "gc"
        /\ f.kind = "gcfree" => p = "destroy" /\ frames # <<>> /\ frames[Len(frames)].kind = "gc"
    BY <1>1, <1>10
  <2>4. StackOK(Append(frames, f), p)
    BY <1>1, <1>6, <2>1, <2>2, <2>3, StackPush
  <2> QED
    BY <2>4
<1>11. Above(Len(frames))'
  <2>1. Abv(frames', Len(frames'))
    BY <1>2, <1>3
  <2> QED
    BY <2>1 DEF Abv, Above
<1>12. \A i \in DOMAIN frames : ~Above(i) /\ ~Above(i)'
  BY <1>1, <1>2, <1>4
<1> QED
  BY <1>2, <1>5, <1>6, <1>7, <1>8, <1>9, <1>10, <1>11, <1>12

(* A slot of the list is not one of those to come.                         *)
LEMMA NextSlot ==
    ASSUME NEW g \in Headers, NEW n \in Node, NEW i \in Nat, g.address[n] >= i, g.address[n] # i
    PROVE  g.address[n] >= i + 1
  BY Fields

(* One slot gets another tag.                                              *)
LEMMA OneTag ==
    ASSUME NEW g \in Headers, NEW i \in DOMAIN g.buf, g.buf[i].tag # "unused", NEW t, NEW h, h = [g EXCEPT !.buf[i].tag = t]
    PROVE  h = Retag(g, {i}, t)
<1>1. g.buf = [j \in DOMAIN g.buf |-> g.buf[j]]
  BY Fields
<1> QED
  BY <1>1 DEF Headers, Retag

(* All destructors were called: what is tagged garbage still is.           *)
LEMMA EndCallsKeeps == ASSUME Inv, EndCalls PROVE Inv'
<1>0. /\ Types /\ Wired(gc) /\ ColorInv /\ CountInv /\ StackRest /\ GarbageInv /\ AllInv /\ HeapInv
      /\ gc \in Headers /\ Len(gc.buf) \in Nat
      /\ Collector /\ phase = "call" /\ idx > end /\ idx' = 1 /\ idx \in Nat /\ phase' = "destroy"
      /\ UNCHANGED <<state, out, var, dtor_called, free_called, gc, frames, end, todo, black, has_dtors, rerun>>
      /\ todo = {} /\ black = {} /\ has_dtors \in BOOLEAN /\ rerun \in {"no", "should", "did"}
      /\ end \in Nat /\ end <= Len(gc.buf) /\ dtor_called \in [Node -> BOOLEAN]
  BY Fields DEF Inv, Types, EndCalls, StackRest, heap
<1>1. \A n \in Node : Tag(n)' = Tag(n) /\ gc.address[n] \in Nat
  BY <1>0, Fields DEF Tag
<1>2. \A n \in Node : Tag(n) # "dtor"
  <2> TAKE n \in Node
  <2>1. Tag(n) = "dtor" => gc.address[n] >= idx /\ gc.address[n] <= end
    BY <1>0 DEF ColorInv
  <2> QED
    BY <2>1, <1>0, <1>1
<1>3. ColorInv'
  <2> SUFFICES ASSUME NEW n \in Node
               PROVE  /\ Tag(n) \in Tags("destroy")
                      /\ gc.color[n] = IF Tag(n) \in {"root", "dtor"} THEN "purple" ELSE "black"
                      /\ Tag(n) \in {"garbage", "dtor"} => gc.address[n] <= end
                      /\ ~(Tag(n) = "garbage" /\ gc.address[n] < 1)
    BY <1>0, <1>1, <1>2 DEF ColorInv
  <2>1. ~(Tag(n) = "garbage" /\ gc.address[n] < 1)
    BY <1>1 DEF Tag, TagIn, Buffered
  <2> QED
    BY <2>1, <1>0, <1>2 DEF ColorInv, Tags
<1>4. CountInv'
  <2>1. Taken' = Taken
    BY <1>0 DEF Taken
  <2> QED
    BY <2>1, <1>0, CountSame
<1>5. GarbageInv'
  <2>1. OfTag("garbage")' = OfTag("garbage")
    BY <1>1 DEF OfTag
  <2>2. \A i, n : (Mentions(i, n)' <=> Mentions(i, n)) /\ (Undestructed(n)' <=> Undestructed(n))
    BY <1>0 DEF Mentions, Calling, Undestructed
  <2>3. \A n \in OfTag("garbage") : /\ ~var[n] /\ ~Undestructed(n) /\ \A i \in DOMAIN frames : ~Mentions(i, n)
                                    /\ \A m \in Node : n \in out[m] => Tag(m) = "garbage"
    BY <1>0 DEF GarbageInv
  <2> QED
    BY <2>1, <2>2, <2>3, <1>0, <1>1 DEF GarbageInv
<1>6. AllInv'
  BY <1>0 DEF AllInv
<1>7. \A n \in Node : state[n] # "null" /\ (state[n] = "none" => ~dtor_called[n] /\ gc.color[n] = "black")
  BY <1>0 DEF HeapInv
<1>8. /\ dtor_called' \in [Node -> BOOLEAN] /\ phase' \in {"nested", "call", "destroy"} /\ idx' \in Nat /\ idx' >= 1
      /\ todo' = {} /\ black' = {} /\ gc' \in Headers /\ Wired(gc') /\ end' <= Len(gc'.buf) /\ end' \in Nat
      /\ has_dtors' \in BOOLEAN /\ rerun' \in {"no", "should", "did"}
      /\ \A n \in Node : /\ Buffered(gc', n) <=> Buffered(gc, n)
                         /\ dtor_called[n] => dtor_called'[n]
                         /\ state[n] # "null"
                         /\ state[n] = "none" => ~dtor_called'[n] /\ gc'.color[n] = "black"
  BY <1>0, <1>7
<1> QED
  BY <1>0, <1>3, <1>4, <1>5, <1>6, <1>8, QuietStep

-----------------------------------------------------------------------------
(* gc_collect_cycles() calls the destructors.                              *)
LEMMA NothingCalled ==
    ASSUME Inv, Collector, phase = "call", idx <= end, idx' = idx + 1,
           gc.buf[idx].tag # "dtor" => gc' = gc,
           gc.buf[idx].tag = "dtor" => gc' = [gc EXCEPT !.buf[idx].tag = "root"],
           UNCHANGED <<state, out, var, free_called, dtor_called, frames, phase, end, todo, black, has_dtors, rerun>>
    PROVE  Inv'
<1>0. /\ Types /\ Wired(gc) /\ ColorInv /\ CountInv /\ StackRest /\ GarbageInv /\ AllInv /\ HeapInv
      /\ gc \in Headers /\ Len(gc.buf) \in Nat /\ idx \in Nat /\ idx >= 1
      /\ todo = {} /\ black = {} /\ has_dtors \in BOOLEAN /\ rerun \in {"no", "should", "did"}
      /\ end \in Nat /\ end <= Len(gc.buf) /\ dtor_called \in [Node -> BOOLEAN]
  BY Fields DEF Inv, Types, StackRest
<1>1. idx \in DOMAIN gc.buf
  BY <1>0, Fields
<1>2. /\ gc' \in Headers /\ Wired(gc') /\ gc'.refcount = gc.refcount /\ gc'.color = gc.color /\ gc'.address = gc.address
      /\ Len(gc'.buf) = Len(gc.buf)
      /\ \A n \in Node : Tag(n)' = IF Tag(n) = "dtor" /\ gc.address[n] = idx THEN "root" ELSE Tag(n)
  <2>1. CASE gc.buf[idx].tag = "dtor"
    <3>1. gc.buf[idx].tag # "unused" /\ idx \in Used(gc)
      BY <2>1, <1>1 DEF Used
    <3>2. gc' = Retag(gc, {idx}, "root")
      BY <2>1, <3>1, <1>0, <1>1, OneTag
    <3>3. {idx} \in SUBSET Used(gc) /\ "root" \in {"root", "garbage", "dtor"} /\ gc \in Headers /\ Wired(gc)
      BY <3>1, <1>0
    <3>4. /\ gc' \in Headers /\ Wired(gc') /\ Len(gc'.buf) = Len(gc.buf)
          /\ gc'.refcount = gc.refcount /\ gc'.color = gc.color /\ gc'.address = gc.address
          /\ \A m \in Node : TagIn(gc', m) = IF gc.address[m] \in {idx} THEN "root" ELSE TagIn(gc, m)
      BY <3>2, <3>3, RetagIs
    <3>5. \A n \in Node : gc.address[n] = idx => Tag(n) = "dtor"
      <4> TAKE n \in Node
      <4> HAVE gc.address[n] = idx
      <4>1. Buffered(gc, n)
        BY <1>0 DEF Buffered
      <4> QED
        BY <4>1, <2>1, <1>0, SlotIs DEF Tag
    <3> QED
      BY <3>4, <3>5 DEF Tag
  <2>2. CASE gc.buf[idx].tag # "dtor"
    <3>1. \A n \in Node : ~(Tag(n) = "dtor" /\ gc.address[n] = idx)
      <4> TAKE n \in Node
      <4>1. Tag(n) = "dtor" => Buffered(gc, n)
        BY DEF Tag, TagIn
      <4> QED
        BY <4>1, <2>2, <1>0, SlotIs DEF Tag
    <3> QED
      BY <2>2, <3>1, <1>0 DEF Tag
  <2> QED
    BY <2>1, <2>2
<1>3. ColorInv'
  <2> SUFFICES ASSUME NEW n \in Node
               PROVE  /\ Tag(n)' \in Tags("call")
                      /\ gc'.color[n] = IF Tag(n)' \in {"root", "dtor"} THEN "purple" ELSE "black"
                      /\ Tag(n)' \in {"garbage", "dtor"} => gc'.address[n] <= end
                      /\ Tag(n)' = "dtor" => n \in Destructor
                      /\ Tag(n)' = "dtor" => gc'.address[n] >= idx + 1
    BY DEF ColorInv
  <2>1. /\ Tag(n) \in Tags("call")
        /\ gc.color[n] = IF Tag(n) \in {"root", "dtor"} THEN "purple" ELSE "black"
        /\ Tag(n) \in {"garbage", "dtor"} => gc.address[n] <= end
        /\ Tag(n) = "dtor" => n \in Destructor
        /\ Tag(n) = "dtor" => gc.address[n] >= idx
    BY <1>0 DEF ColorInv
  <2>2. Tag(n)' = "dtor" => gc.address[n] >= idx + 1
    <3> HAVE Tag(n)' = "dtor"
    <3>1. Tag(n) = "dtor" /\ gc.address[n] # idx /\ gc.address[n] >= idx
      BY <1>2, <2>1
    <3> QED
      BY <3>1, <1>0, NextSlot
  <2> QED
    BY <2>1, <2>2, <1>2 DEF Tags
<1>4. CountInv'
  <2>1. Taken' = Taken
    BY DEF Taken
  <2> QED
    BY <2>1, <1>0, <1>2, CountSame
<1>5. GarbageInv'
  <2>1. OfTag("garbage")' = OfTag("garbage") /\ \A m \in Node : Tag(m) = "garbage" => Tag(m)' = "garbage"
    BY <1>2 DEF OfTag
  <2>2. \A i, n : (Mentions(i, n)' <=> Mentions(i, n)) /\ (Undestructed(n)' <=> Undestructed(n))
    BY DEF Mentions, Calling, Undestructed
  <2>3. \A n \in OfTag("garbage") : /\ ~var[n] /\ ~Undestructed(n) /\ \A i \in DOMAIN frames : ~Mentions(i, n)
                                    /\ \A m \in Node : n \in out[m] => Tag(m) = "garbage"
    BY <1>0 DEF GarbageInv
  <2> QED
    BY <2>1, <2>2, <2>3 DEF GarbageInv
<1>6. AllInv'
  BY <1>0 DEF AllInv
<1>7. \A n \in Node : state[n] # "null" /\ (state[n] = "none" => ~dtor_called[n] /\ gc.color[n] = "black")
  BY <1>0 DEF HeapInv
<1>8. /\ dtor_called' \in [Node -> BOOLEAN] /\ phase' \in {"nested", "call", "destroy"} /\ idx' \in Nat /\ idx' >= 1
      /\ todo' = {} /\ black' = {} /\ end' <= Len(gc'.buf) /\ end' \in Nat
      /\ has_dtors' \in BOOLEAN /\ rerun' \in {"no", "should", "did"}
      /\ \A n \in Node : /\ Buffered(gc', n) <=> Buffered(gc, n)
                         /\ dtor_called[n] => dtor_called'[n]
                         /\ state[n] # "null"
                         /\ state[n] = "none" => ~dtor_called'[n] /\ gc'.color[n] = "black"
  BY <1>0, <1>2, <1>7 DEF Buffered
<1> QED
  BY <1>0, <1>2, <1>3, <1>4, <1>5, <1>6, <1>8, QuietStep

(* The next destructor is called.                                          *)
LEMMA OneCalled ==
    ASSUME Inv, Collector, phase = "call", idx <= end, idx' = idx + 1,
           gc.buf[idx].tag = "dtor", NEW n, n = gc.buf[idx].ref, ~dtor_called[n],
           dtor_called' \in [Node -> BOOLEAN], \A k \in Node : dtor_called'[k] = (k = n \/ dtor_called[k]),
           gc' = Addref(Addref(Retag(gc, {idx}, "root"), n), n),
           Enters(Call("gcdtor", n, {})),
           UNCHANGED <<state, out, var, free_called, phase, end, todo, black, has_dtors, rerun>>
    PROVE  Inv'
<1> DEFINE f == Call("gcdtor", n, {})
<1>0. /\ Types /\ Wired(gc) /\ ColorInv /\ CountInv /\ StackRest /\ GarbageInv /\ AllInv /\ HeapInv /\ FrameInv /\ FoundInv
      /\ gc \in Headers /\ Len(gc.buf) \in Nat /\ idx \in Nat /\ idx >= 1 /\ gc.color \in [Node -> Colors]
      /\ todo = {} /\ black = {} /\ has_dtors \in BOOLEAN /\ rerun \in {"no", "should", "did"}
      /\ end \in Nat /\ end <= Len(gc.buf) /\ dtor_called \in [Node -> BOOLEAN]
      /\ var \in [Node -> BOOLEAN] /\ out \in [Node -> SUBSET Node] /\ frames \in Seq(Frame)
      /\ free_called \in [Node -> BOOLEAN] /\ state \in [Node -> {"none", "live", "null"}]
  BY Fields DEF Inv, Types, StackRest
<1>1. idx \in DOMAIN gc.buf /\ gc.buf[idx].tag # "unused" /\ idx \in Used(gc)
  BY <1>0, Fields DEF Used
<1>2. n \in Node /\ gc.address[n] = idx /\ Buffered(gc, n) /\ Tag(n) = "dtor" /\ \A k \in Node : gc.address[k] = idx => k = n
  BY <1>0, <1>1, RootIs DEF Tag
<1>3. n \in Destructor /\ ~free_called[n] /\ state[n] = "live"
  <2>1. n \in Destructor
    BY <1>0, <1>2 DEF ColorInv
  <2>2. state[n] # "null" /\ state[n] # "none" /\ ~free_called[n]
    BY <2>1, <1>0, <1>2 DEF HeapInv
  <2> QED
    BY <2>1, <2>2, <1>0, <1>2
<1>4. /\ gc' \in Headers /\ Wired(gc') /\ gc'.color = gc.color /\ gc'.address = gc.address
      /\ Len(gc'.buf) = Len(gc.buf)
      /\ \A k \in Node : gc'.refcount[k] = IF k = n THEN gc.refcount[k] + 2 ELSE gc.refcount[k]
      /\ \A k \in Node : Tag(k)' = IF k = n THEN "root" ELSE Tag(k)
  <2> DEFINE g == Retag(gc, {idx}, "root")
             h == Addref(g, n)
  <2>2. gc' = Addref(h, n)
    OBVIOUS
  <2>3. {idx} \in SUBSET Used(gc) /\ "root" \in {"root", "garbage", "dtor"} /\ gc \in Headers /\ Wired(gc)
    BY <1>0, <1>1
  <2>4. /\ g \in Headers /\ Wired(g) /\ Len(g.buf) = Len(gc.buf)
        /\ g.refcount = gc.refcount /\ g.color = gc.color /\ g.address = gc.address
        /\ \A m \in Node : TagIn(g, m) = IF gc.address[m] \in {idx} THEN "root" ELSE TagIn(gc, m)
    BY <2>3, RetagIs
  <2> HIDE DEF g
  <2>5. /\ h \in Headers
        /\ \A m \in Node : h.refcount[m] = IF m = n THEN g.refcount[m] + 1 ELSE g.refcount[m]
        /\ h.color = g.color /\ h.address = g.address /\ h.buf = g.buf /\ h.unused = g.unused
    BY <2>4, <1>2, AddrefIs
  <2> HIDE DEF h
  <2>6. /\ gc' \in Headers
        /\ \A m \in Node : gc'.refcount[m] = IF m = n THEN h.refcount[m] + 1 ELSE h.refcount[m]
        /\ gc'.color = h.color /\ gc'.address = h.address /\ gc'.buf = h.buf /\ gc'.unused = h.unused
    <3> DEFINE q == Addref(h, n)
    <3>1. h \in Headers /\ n \in Node
      BY <2>5, <1>2
    <3>2. /\ q \in Headers
          /\ \A m \in Node : q.refcount[m] = IF m = n THEN h.refcount[m] + 1 ELSE h.refcount[m]
          /\ q.color = h.color /\ q.address = h.address /\ q.buf = h.buf /\ q.unused = h.unused
      BY <3>1, AddrefIs
    <3>3. gc' = q
      BY <2>2
    <3> HIDE DEF q
    <3> QED
      BY <3>2, <3>3
  <2>7. gc'.address = g.address /\ gc'.buf = g.buf /\ gc'.unused = g.unused
    BY <2>5, <2>6
  <2>8. Wired(gc') /\ \A m \in Node : TagIn(gc', m) = TagIn(g, m)
    BY <2>4, <2>7, SameBuffer
  <2>9. \A m \in Node : gc'.refcount[m] = IF m = n THEN gc.refcount[m] + 2 ELSE gc.refcount[m]
    <3> TAKE m \in Node
    <3>1. gc.refcount[m] \in Int
      BY <1>0, Fields
    <3>2. g.refcount[m] = gc.refcount[m]
      BY <2>4
    <3>3. h.refcount[m] = IF m = n THEN g.refcount[m] + 1 ELSE g.refcount[m]
      BY <2>5
    <3>4. gc'.refcount[m] = IF m = n THEN h.refcount[m] + 1 ELSE h.refcount[m]
      BY <2>6
    <3> QED
      BY <3>1, <3>2, <3>3, <3>4
  <2>10. \A m \in Node : Tag(m)' = IF m = n THEN "root" ELSE Tag(m)
    BY <2>4, <2>8, <1>2 DEF Tag
  <2> QED
    BY <2>4, <2>6, <2>7, <2>5, <2>8, <2>9, <2>10
<1>5. f \in Frame /\ f.kind = "gcdtor" /\ f.obj = n /\ f.rest = {} /\ frames' = Append(frames, f)
  BY <1>2, CallIs DEF Enters
<1> HIDE DEF f
<1>6. /\ frames' \in Seq(Frame)
      /\ \A i \in DOMAIN frames' : i \in DOMAIN frames \/ i = Len(frames')
      /\ \A i \in DOMAIN frames : /\ i \in DOMAIN frames' /\ frames'[i] = frames[i]
                                  /\ ~Above(i) /\ ~Above(i)'
                                  /\ \A k : Mentions(i, k)' <=> Mentions(i, k)
                                  /\ frames[i].kind \in {"dtor", "free", "gc"}
                                  /\ frames[i].kind # "gc" => frames[i].obj \in Node
      /\ Len(frames') \in DOMAIN frames' /\ Len(frames') \notin DOMAIN frames
      /\ frames'[Len(frames')] = f /\ Above(Len(frames))'
      /\ \A k : Mentions(Len(frames), k)' <=> k = n
      /\ Outside \subseteq Outside'
      /\ \A p : p = "call" => StackOK(frames', p)
  <2>1. f.kind \in {"gcdtor", "gcfree"} /\ f \in Frame /\ frames' = Append(frames, f) /\ var' = var
    BY <1>5
  <2> QED
    BY <2>1, <1>5, Entered
<1>7. Types'
  <2>1. idx' \in Nat /\ dtor_called' \in [Node -> BOOLEAN]
    BY <1>0
  <2> QED
    BY <2>1, <1>0, <1>4, <1>6 DEF Types
<1>8. StackOK(frames, phase)' /\ StackRest'
  BY <1>0, <1>4, <1>6 DEF StackRest
<1>9. HeapInv'
  <2> SUFFICES ASSUME NEW k \in Node
               PROVE  /\ state[k] = "none" =>
                            /\ ~var[k] /\ out[k] = {} /\ ~dtor_called'[k] /\ ~free_called[k]
                            /\ ~Buffered(gc', k) /\ gc'.color[k] = "black"
                            /\ \A m \in Node : k \notin out[m]
                            /\ \A i \in DOMAIN frames' : ~Mentions(i, k)'
                      /\ free_called[k] => out[k] = {} /\ (k \in Destructor => dtor_called'[k])
                      /\ free_called[k] /\ state[k] = "live" =>
                            /\ ~var[k]
                            /\ \A m \in Node : k \notin out[m]
                            /\ InRest(frames', k) = {} /\ Calls(frames', {"dtor", "gcdtor"}, k) = {}
                            /\ Calls(frames', {"free"}, k) # {}
                      /\ state[k] # "null"
    BY DEF HeapInv
  <2>1. /\ state[k] = "none" =>
              /\ ~var[k] /\ out[k] = {} /\ ~dtor_called[k] /\ ~free_called[k]
              /\ ~Buffered(gc, k) /\ gc.color[k] = "black"
              /\ \A m \in Node : k \notin out[m]
              /\ \A i \in DOMAIN frames : ~Mentions(i, k)
        /\ free_called[k] => out[k] = {} /\ (k \in Destructor => dtor_called[k])
        /\ free_called[k] /\ state[k] = "live" =>
              /\ ~var[k]
              /\ \A m \in Node : k \notin out[m]
              /\ InRest(frames, k) = {} /\ Calls(frames, {"dtor", "gcdtor"}, k) = {}
              /\ Calls(frames, {"free"}, k) # {}
        /\ state[k] # "null"
    BY <1>0 DEF HeapInv
  <2>2. k # n => dtor_called'[k] = dtor_called[k]
    BY <1>0, <1>2
  <2>3. k = n => state[k] = "live" /\ ~free_called[k]
    BY <1>3
  <2>4. k # n => \A i \in DOMAIN frames' : Mentions(i, k)' => i \in DOMAIN frames /\ Mentions(i, k)
    BY <1>6
  <2>5. k # n => /\ InRest(frames', k) \subseteq InRest(frames, k)
                 /\ Calls(frames', {"dtor", "gcdtor"}, k) \subseteq Calls(frames, {"dtor", "gcdtor"}, k)
                 /\ Calls(frames, {"free"}, k) \subseteq Calls(frames', {"free"}, k)
    BY <1>5, <1>6 DEF InRest, Calls
  <2>6. Buffered(gc', k) <=> Buffered(gc, k)
    BY <1>4 DEF Buffered
  <2> QED
    BY <2>1, <2>2, <2>3, <2>4, <2>5, <2>6, <1>4
<1>10. FrameInv'
  <2> SUFFICES ASSUME NEW i \in DOMAIN frames'
               PROVE  LET e == frames'[i] IN
                      /\ e.kind = "del" => state[e.obj] = "live" /\ ~free_called[e.obj] /\ gc'.refcount[e.obj] = 0
                      /\ e.kind \in {"dtor", "gcdtor", "last"} =>
                            dtor_called'[e.obj] /\ state[e.obj] = "live" /\ ~free_called[e.obj]
                      /\ e.kind = "last" => gc'.refcount[e.obj] = 0 \/ Buffered(gc', e.obj)
                      /\ e.kind = "free" =>
                            /\ free_called[e.obj] /\ state[e.obj] = "live"
                            /\ \A j \in DOMAIN frames' : frames'[j].kind = "free" /\ frames'[j].obj = e.obj => i = j
                      /\ e.kind = "gcfree" => free_called[e.obj] /\ state[e.obj] = "null"
                      /\ e.kind \in {"del", "dtor", "last", "gcdtor"} => e.rest = {}
    BY DEF FrameInv
  <2>1. CASE i = Len(frames')
    <3>1. frames'[i] = f /\ dtor_called'[n]
      BY <2>1, <1>0, <1>2, <1>6
    <3> QED
      BY <3>1, <1>3, <1>5
  <2>2. CASE i \in DOMAIN frames
    <3>1. frames'[i] = frames[i] /\ frames[i].kind \in {"dtor", "free", "gc"}
      BY <2>2, <1>6
    <3>2. CASE frames[i].kind = "dtor"
      <4>1. frames[i].obj \in Node /\ dtor_called[frames[i].obj] /\ state[frames[i].obj] = "live"
            /\ ~free_called[frames[i].obj] /\ frames[i].rest = {}
        BY <2>2, <3>2, <1>0, <1>6 DEF FrameInv
      <4>2. dtor_called'[frames[i].obj]
        BY <4>1, <1>0
      <4> QED
        BY <3>1, <3>2, <4>1, <4>2
    <3>3. CASE frames[i].kind = "free"
      <4>1. /\ free_called[frames[i].obj] /\ state[frames[i].obj] = "live"
            /\ \A j \in DOMAIN frames : frames[j].kind = "free" /\ frames[j].obj = frames[i].obj => i = j
        BY <2>2, <3>3, <1>0 DEF FrameInv
      <4>2. \A j \in DOMAIN frames' : frames'[j].kind = "free" => j \in DOMAIN frames /\ frames'[j] = frames[j]
        BY <1>5, <1>6
      <4> QED
        BY <3>1, <3>3, <4>1, <4>2
    <3>4. CASE frames[i].kind = "gc"
      BY <3>1, <3>4
    <3> QED
      BY <3>1, <3>2, <3>3, <3>4
  <2> QED
    BY <2>1, <2>2, <1>6
<1>11. ColorInv'
  <2> SUFFICES ASSUME NEW k \in Node
               PROVE  /\ Tag(k)' \in Tags("call")
                      /\ gc'.color[k] = IF Tag(k)' \in {"root", "dtor"} THEN "purple" ELSE "black"
                      /\ Tag(k)' \in {"garbage", "dtor"} => gc'.address[k] <= end
                      /\ Tag(k)' = "dtor" => k \in Destructor
                      /\ Tag(k)' = "dtor" => gc'.address[k] >= idx + 1
    BY DEF ColorInv
  <2>1. /\ Tag(k) \in Tags("call")
        /\ gc.color[k] = IF Tag(k) \in {"root", "dtor"} THEN "purple" ELSE "black"
        /\ Tag(k) \in {"garbage", "dtor"} => gc.address[k] <= end
        /\ Tag(k) = "dtor" => k \in Destructor
        /\ Tag(k) = "dtor" => gc.address[k] >= idx
    BY <1>0 DEF ColorInv
  <2>2. Tag(k)' = "dtor" => gc.address[k] >= idx + 1
    <3> HAVE Tag(k)' = "dtor"
    <3>1. Tag(k) = "dtor" /\ gc.address[k] # idx /\ gc.address[k] >= idx
      BY <1>2, <1>4, <2>1
    <3> QED
      BY <3>1, <1>0, NextSlot
  <2> QED
    BY <2>1, <2>2, <1>2, <1>4 DEF Tags
<1>12. CountInv'
  <2> SUFFICES ASSUME NEW k \in Node PROVE gc'.refcount[k] = Counted(k)'
    BY DEF CountInv
  <2>1. gc.refcount[k] = Refs(var, out, {}, frames, k) /\ gc.refcount[k] \in Nat
    BY <1>0, Untaken
  <2>2. Taken' = {}
    BY DEF Taken
  <2>3. Counted(k)' = Refs(var, out, {}, frames', k)
    BY <2>2 DEF Counted, Refs, Holders
  <2>4. Refs(var, out, {}, frames', k) = Refs(var, out, {}, frames, k) + Weight(f, k)
    BY <1>0, <1>5, RefsPush
  <2>5. Weight(f, k) = IF k = n THEN 2 ELSE 0
    BY <1>5 DEF Weight
  <2>6. gc'.refcount[k] = IF k = n THEN gc.refcount[k] + 2 ELSE gc.refcount[k]
    BY <1>4
  <2> QED
    BY <2>1, <2>3, <2>4, <2>5, <2>6
<1>13. FoundInv'
  <2>1. Roots' = Roots
    BY <1>4 DEF Roots, Buffered
  <2> QED
    BY <2>1, <1>0, <1>6, FoundKeeps
<1>14. GarbageInv'
  <2>1. \A k \in OfTag("garbage")' : k \in OfTag("garbage") /\ k # n /\ k \in Node
    BY <1>4 DEF OfTag
  <2>2. \A m \in Node : Tag(m) = "garbage" => Tag(m)' = "garbage"
    BY <1>2, <1>4
  <2>3. \A k \in OfTag("garbage") : /\ ~var[k] /\ ~Undestructed(k) /\ \A i \in DOMAIN frames : ~Mentions(i, k)
                                    /\ \A m \in Node : k \in out[m] => Tag(m) = "garbage"
    BY <1>0 DEF GarbageInv
  <2>4. \A k \in Node : ~Undestructed(k) => ~Undestructed(k)'
    BY <1>0 DEF Undestructed
  <2>5. \A k \in OfTag("garbage")' : \A i \in DOMAIN frames' : ~Mentions(i, k)'
    BY <2>1, <2>3, <1>6
  <2> QED
    BY <2>1, <2>2, <2>3, <2>4, <2>5 DEF GarbageInv
<1>15. MarkInv' /\ ScanInv' /\ CollectInv' /\ AllInv'
  BY <1>0 DEF MarkInv, ScanInv, CollectInv, AllInv
<1> QED
  BY <1>4, <1>7, <1>8, <1>9, <1>10, <1>11, <1>12, <1>13, <1>14, <1>15 DEF Inv

(* The next slot, with or without a destructor to be called.               *)
LEMMA CallNextKeeps == ASSUME Inv, CallNext PROVE Inv'
<1> DEFINE e == gc.buf[idx]
           g == [gc EXCEPT !.buf[idx].tag = "root"]
<1>1. /\ Collector /\ phase = "call" /\ idx <= end /\ idx' = idx + 1
      /\ UNCHANGED <<state, out, var, free_called, phase, end, todo, black, has_dtors, rerun>>
      /\ IF e.tag # "dtor" THEN UNCHANGED <<gc, dtor_called, frames>>
         ELSE IF dtor_called[e.ref] THEN gc' = g /\ UNCHANGED <<dtor_called, frames>>
         ELSE /\ dtor_called' = [dtor_called EXCEPT ![e.ref] = TRUE]
              /\ gc' = Addref(Addref(g, e.ref), e.ref)
              /\ Enters(Call("gcdtor", e.ref, {}))
  BY DEF CallNext
<1>2. CASE e.tag # "dtor" \/ dtor_called[e.ref]
  <2>1. /\ gc.buf[idx].tag # "dtor" => gc' = gc
        /\ gc.buf[idx].tag = "dtor" => gc' = [gc EXCEPT !.buf[idx].tag = "root"]
        /\ UNCHANGED <<dtor_called, frames>>
    BY <1>1, <1>2
  <2> HIDE DEF e, g
  <2> QED
    BY <1>1, <2>1, NothingCalled
<1>3. CASE e.tag = "dtor" /\ ~dtor_called[e.ref]
  <2>0. /\ gc \in Headers /\ Wired(gc) /\ idx \in DOMAIN gc.buf /\ e.tag # "unused"
        /\ dtor_called \in [Node -> BOOLEAN]
    <3>1. gc \in Headers /\ idx \in Nat /\ idx >= 1 /\ end \in Nat /\ end <= Len(gc.buf) /\ Wired(gc)
          /\ dtor_called \in [Node -> BOOLEAN]
      BY <1>1 DEF Inv, Types, StackRest
    <3>2. idx \in DOMAIN gc.buf
      BY <3>1, <1>1, Fields
    <3> QED
      BY <3>1, <3>2, <1>3
  <2>1. g = Retag(gc, {idx}, "root")
    BY <2>0, OneTag
  <2>2. e.ref \in Node
    BY <2>0, RootIs
  <2> DEFINE n == e.ref
  <2>3. /\ gc.buf[idx].tag = "dtor" /\ n = gc.buf[idx].ref /\ ~dtor_called[n] /\ n \in Node
        /\ gc' = Addref(Addref(g, n), n) /\ dtor_called' = [dtor_called EXCEPT ![n] = TRUE]
        /\ Enters(Call("gcdtor", n, {}))
    BY <1>1, <1>3, <2>2
  <2> HIDE DEF n, e, g
  <2>4. dtor_called' \in [Node -> BOOLEAN] /\ \A k \in Node : dtor_called'[k] = (k = n \/ dtor_called[k])
    BY <2>0, <2>3
  <2>5. gc' = Addref(Addref(Retag(gc, {idx}, "root"), n), n)
    BY <2>1, <2>3
  <2>6. Collector /\ phase = "call" /\ idx <= end /\ idx' = idx + 1 /\ Inv
    BY <1>1
  <2>7. UNCHANGED <<state, out, var, free_called, phase, end, todo, black, has_dtors, rerun>>
    BY <1>1
  <2> QED
    BY <2>3, <2>4, <2>5, <2>6, <2>7, OneCalled
<1> QED
  BY <1>2, <1>3

-----------------------------------------------------------------------------
(* gc_collect_cycles() destroys the garbage.                               *)
LEMMA Unfounded ==
    ASSUME NEW o \in [Node -> SUBSET Node], NEW p \in [Node -> SUBSET Node], NEW S, NEW T,
           \A m \in S : Leads(p, T, m),
           \A m \in Node : \A j \in o[m] : j \in p[m] \/ Leads(p, T, j),
           NEW k, Leads(o, S, k)
    PROVE  Leads(p, T, k)
<1> SUFFICES ASSUME NEW C \in SUBSET Node, T \subseteq C, \A m \in C : p[m] \subseteq C
             PROVE  k \in C
  BY DEF Leads
<1>1. \A m : Leads(p, T, m) => m \in C
  BY DEF Leads
<1>2. S \subseteq C
  BY <1>1
<1>3. \A m \in C : o[m] \subseteq C
  BY <1>1
<1> QED
  BY <1>2, <1>3 DEF Leads

(* The properties of m go to a call that destroys them.                    *)
LEMMA RefsRest ==
    ASSUME NEW v \in [Node -> BOOLEAN], NEW o \in [Node -> SUBSET Node], NEW F \in Seq(Frame), NEW m \in Node,
           NEW p \in [Node -> SUBSET Node], p[m] = {}, \A k \in Node : k # m => p[k] = o[k], NEW n \in Node,
           NEW T, m \notin T,
           NEW f \in Frame, Weight(f, n) = (IF n \in o[m] THEN 1 ELSE 0) + IF n = m THEN 1 ELSE 0
    PROVE  Refs(v, p, T, Append(F, f), n) = Refs(v, o, T, F, n) + IF n = m THEN 1 ELSE 0
<1>1. Refs(v, p, T, Append(F, f), n) = Refs(v, p, T, F, n) + Weight(f, n)
  BY RefsPush
<1>2. Refs(v, o, T, F, n) = Refs(v, p, T, F, n) + IF n \in o[m] THEN 1 ELSE 0
  BY RefsGone
<1>3. Refs(v, p, T, F, n) \in Nat
  BY RefsNat
<1> QED
  BY <1>1, <1>2, <1>3

(* What is tagged garbage when the collector is the last of the calls.     *)
LEMMA GarbageAtGc ==
    ASSUME Inv, Collector, phase = "destroy"
    PROVE  \A n \in Node : Tag(n) = "garbage" =>
               /\ n \notin Outside /\ ~Undestructed(n)
               /\ state[n] # "none" /\ (free_called[n] <=> state[n] = "null")
               /\ \A m \in Node : n \in out[m] => Tag(m) = "garbage"
<1> SUFFICES ASSUME NEW n \in Node, Tag(n) = "garbage"
             PROVE  /\ n \notin Outside /\ ~Undestructed(n)
                    /\ state[n] # "none" /\ (free_called[n] <=> state[n] = "null")
                    /\ \A m \in Node : n \in out[m] => Tag(m) = "garbage"
  OBVIOUS
<1>0. GarbageInv /\ HeapInv /\ state \in [Node -> {"none", "live", "null"}]
  BY DEF Inv, Types
<1>1. n \in OfTag("garbage") /\ Buffered(gc, n)
  BY DEF OfTag, Tag, TagIn
<1>2. /\ ~var[n] /\ ~Undestructed(n)
      /\ \A i \in DOMAIN frames : Mentions(i, n) => Above(i)
      /\ \A m \in Node : n \in out[m] => Tag(m) = "garbage"
  BY <1>0, <1>1 DEF GarbageInv
<1>3. \A i \in DOMAIN frames : ~Mentions(i, n)
  BY <1>2, AtGc
<1>4. state[n] # "none" /\ (state[n] = "null" => free_called[n])
  BY <1>0, <1>1 DEF HeapInv
<1>5. free_called[n] => state[n] # "live"
  <2>1. \A i \in Calls(frames, {"free"}, n) : i \in DOMAIN frames /\ Mentions(i, n)
    BY DEF Calls, Mentions, Calling
  <2> QED
    BY <2>1, <1>0, <1>3 DEF HeapInv
<1> QED
  BY <1>0, <1>2, <1>3, <1>4, <1>5 DEF Outside

(* The next slot holds no garbage, or garbage that was destroyed already.  *)
LEMMA NothingDestroyed ==
    ASSUME Inv, Collector, phase = "destroy", idx <= end, idx' = idx + 1,
           idx \in Garbage => state[gc.buf[idx].ref] = "null",
           UNCHANGED <<state, out, var, free_called, dtor_called, gc, frames, phase, end, todo, black, has_dtors, rerun>>
    PROVE  Inv'
<1>0. /\ Types /\ Wired(gc) /\ ColorInv /\ CountInv /\ StackRest /\ GarbageInv /\ AllInv /\ HeapInv
      /\ gc \in Headers /\ Len(gc.buf) \in Nat /\ idx \in Nat /\ idx >= 1
      /\ todo = {} /\ black = {} /\ has_dtors \in BOOLEAN /\ rerun \in {"no", "should", "did"}
      /\ end \in Nat /\ end <= Len(gc.buf) /\ dtor_called \in [Node -> BOOLEAN]
  BY Fields DEF Inv, Types, StackRest
<1>1. \A n : Tag(n)' = Tag(n)
  BY DEF Tag
<1>2. ColorInv'
  <2> SUFFICES ASSUME NEW n \in Node, Tag(n) = "garbage", gc.address[n] < idx + 1 PROVE state[n] = "null"
    BY <1>0, <1>1 DEF ColorInv
  <2>1. Buffered(gc, n) /\ gc.address[n] \in Nat
    BY <1>0, Fields DEF Tag, TagIn
  <2>2. CASE gc.address[n] = idx
    <3>1. gc.buf[idx].ref = n /\ gc.buf[idx].tag = "garbage" /\ idx \in Used(gc)
      BY <2>1, <2>2, <1>0, SlotIs DEF Tag, Wired
    <3> QED
      BY <3>1 DEF Garbage
  <2>3. CASE gc.address[n] # idx
    <3>1. gc.address[n] < idx
      BY <2>1, <2>3, <1>0
    <3> QED
      BY <3>1, <1>0 DEF ColorInv
  <2> QED
    BY <2>2, <2>3
<1>3. CountInv'
  <2>1. Taken' = Taken
    BY DEF Taken
  <2> QED
    BY <2>1, <1>0, CountSame
<1>4. GarbageInv'
  <2>1. OfTag("garbage")' = OfTag("garbage")
    BY <1>1 DEF OfTag
  <2>2. \A i, n : (Mentions(i, n)' <=> Mentions(i, n)) /\ (Undestructed(n)' <=> Undestructed(n)) /\ (Above(i)' <=> Above(i))
    BY DEF Mentions, Calling, Undestructed, Above
  <2> QED
    BY <2>1, <2>2, <1>0, <1>1 DEF GarbageInv
<1>5. AllInv'
  <2>1. \A i, n : (Mentions(i, n)' <=> Mentions(i, n)) /\ (Calling(i)' <=> Calling(i)) /\ (Above(i)' <=> Above(i))
    BY DEF Mentions, Calling, Above
  <2>2. InUse' = InUse
    BY <2>1 DEF InUse
  <2>3. Reach(InUse)' = Reach(InUse)
    BY <2>2 DEF Reach, Closed
  <2> QED
    BY <2>1, <2>3, <1>0, <1>1 DEF AllInv
<1>6. \A n \in Node : /\ state[n] = "null" => Tag(n) = "garbage"
                      /\ state[n] = "none" => ~dtor_called[n] /\ gc.color[n] = "black"
  BY <1>0 DEF HeapInv
<1>7. /\ dtor_called' \in [Node -> BOOLEAN] /\ phase' \in {"nested", "call", "destroy"} /\ idx' \in Nat /\ idx' >= 1
      /\ todo' = {} /\ black' = {} /\ gc' \in Headers /\ Wired(gc') /\ end' <= Len(gc'.buf) /\ end' \in Nat
      /\ has_dtors' \in BOOLEAN /\ rerun' \in {"no", "should", "did"}
      /\ \A n \in Node : /\ Buffered(gc', n) <=> Buffered(gc, n)
                         /\ dtor_called[n] => dtor_called'[n]
                         /\ state[n] = "null" => phase' = "destroy" /\ TagIn(gc', n) = "garbage"
                         /\ state[n] = "none" => ~dtor_called'[n] /\ gc'.color[n] = "black"
  BY <1>0, <1>6 DEF Tag
<1> QED
  BY <1>0, <1>2, <1>3, <1>4, <1>5, <1>7, QuietStep

(* The next object of the garbage is destroyed: its references pass to     *)
(* the call.                                                               *)
LEMMA OneDestroyed ==
    ASSUME Inv, Collector, phase = "destroy", idx <= end, idx' = idx + 1,
           NEW n, n = gc.buf[idx].ref, idx \in Garbage, ~free_called[n],
           state' \in [Node -> {"none", "live", "null"}], \A k \in Node : state'[k] = IF k = n THEN "null" ELSE state[k],
           out' \in [Node -> SUBSET Node], \A k \in Node : out'[k] = IF k = n THEN {} ELSE out[k],
           free_called' \in [Node -> BOOLEAN], \A k \in Node : free_called'[k] = (k = n \/ free_called[k]),
           gc' = Addref(gc, n), Enters(Call("gcfree", n, out[n])),
           UNCHANGED <<var, dtor_called, phase, end, todo, black, has_dtors, rerun>>
    PROVE  Inv'
<1> DEFINE f == Call("gcfree", n, out[n])
<1>0. /\ Types /\ Wired(gc) /\ ColorInv /\ CountInv /\ StackRest /\ GarbageInv /\ AllInv /\ HeapInv /\ FrameInv /\ FoundInv
      /\ gc \in Headers /\ Len(gc.buf) \in Nat /\ idx \in Nat /\ idx >= 1 /\ gc.color \in [Node -> Colors]
      /\ todo = {} /\ black = {} /\ has_dtors \in BOOLEAN /\ rerun \in {"no", "should", "did"}
      /\ end \in Nat /\ end <= Len(gc.buf) /\ dtor_called \in [Node -> BOOLEAN]
      /\ var \in [Node -> BOOLEAN] /\ out \in [Node -> SUBSET Node] /\ frames \in Seq(Frame)
      /\ free_called \in [Node -> BOOLEAN] /\ state \in [Node -> {"none", "live", "null"}]
  BY Fields DEF Inv, Types, StackRest
<1>1. idx \in DOMAIN gc.buf /\ gc.buf[idx].tag = "garbage" /\ gc.buf[idx].tag # "unused" /\ idx \in Used(gc)
  BY DEF Garbage, Used
<1>2. n \in Node /\ gc.address[n] = idx /\ Buffered(gc, n) /\ Tag(n) = "garbage"
      /\ \A k \in Node : gc.address[k] = idx => k = n
  BY <1>0, <1>1, RootIs DEF Tag
<1>3. /\ n \notin Outside /\ ~Undestructed(n) /\ state[n] = "live"
      /\ \A k \in Node : Tag(k) = "garbage" => k \notin Outside /\ \A m \in Node : k \in out[m] => Tag(m) = "garbage"
  BY <1>0, <1>2, GarbageAtGc
<1>4. /\ gc' \in Headers /\ Wired(gc') /\ gc'.color = gc.color /\ gc'.address = gc.address /\ gc'.buf = gc.buf
      /\ \A k \in Node : gc'.refcount[k] = IF k = n THEN gc.refcount[k] + 1 ELSE gc.refcount[k]
      /\ \A k \in Node : Tag(k)' = Tag(k)
  <2> DEFINE q == Addref(gc, n)
  <2>1. gc \in Headers /\ n \in Node /\ Wired(gc)
    BY <1>0, <1>2
  <2>2. /\ q \in Headers
        /\ \A m \in Node : q.refcount[m] = IF m = n THEN gc.refcount[m] + 1 ELSE gc.refcount[m]
        /\ q.color = gc.color /\ q.address = gc.address /\ q.buf = gc.buf /\ q.unused = gc.unused
    BY <2>1, AddrefIs
  <2>3. gc' = q
    OBVIOUS
  <2> HIDE DEF q
  <2>4. Wired(gc') /\ \A m \in Node : TagIn(gc', m) = TagIn(gc, m)
    BY <2>1, <2>2, <2>3, SameBuffer
  <2> QED
    BY <2>2, <2>3, <2>4 DEF Tag
<1>5. f \in Frame /\ f.kind = "gcfree" /\ f.obj = n /\ f.rest = out[n] /\ frames' = Append(frames, f)
  <2>1. out[n] \in SUBSET Node
    BY <1>0, <1>2
  <2> QED
    BY <2>1, <1>2, CallIs DEF Enters
<1> HIDE DEF f
<1>6. /\ frames' \in Seq(Frame)
      /\ \A i \in DOMAIN frames' : i \in DOMAIN frames \/ i = Len(frames')
      /\ \A i \in DOMAIN frames : /\ i \in DOMAIN frames' /\ frames'[i] = frames[i]
                                  /\ ~Above(i) /\ ~Above(i)'
                                  /\ \A k : Mentions(i, k)' <=> Mentions(i, k)
                                  /\ frames[i].kind \in {"dtor", "free", "gc"}
                                  /\ frames[i].kind # "gc" => frames[i].obj \in Node
      /\ Len(frames') \in DOMAIN frames' /\ Len(frames') \notin DOMAIN frames
      /\ frames'[Len(frames')] = f /\ Above(Len(frames))'
      /\ \A k : Mentions(Len(frames), k)' <=> k = n \/ k \in out[n]
      /\ Outside' = Outside \cup {n} \cup out[n]
      /\ InUse = Outside /\ InUse' = Outside
      /\ \A p : p = "destroy" => StackOK(frames', p)
  <2>1. f.kind \in {"gcdtor", "gcfree"} /\ f \in Frame /\ frames' = Append(frames, f) /\ var' = var
    BY <1>5
  <2> QED
    BY <2>1, <1>5, Entered
<1>7. /\ state' \in [Node -> {"none", "live", "null"}] /\ out' \in [Node -> SUBSET Node] /\ free_called' \in [Node -> BOOLEAN]
      /\ \A k \in Node : state'[k] = IF k = n THEN "null" ELSE state[k]
      /\ \A k \in Node : free_called'[k] = (k = n \/ free_called[k])
      /\ \A k \in Node : out'[k] = IF k = n THEN {} ELSE out[k]
  OBVIOUS
<1>8. Types'
  BY <1>0, <1>4, <1>6, <1>7 DEF Types
<1>9. StackOK(frames, phase)' /\ StackRest'
  BY <1>0, <1>4, <1>6 DEF StackRest
<1>10. HeapInv'
  <2> SUFFICES ASSUME NEW k \in Node
               PROVE  /\ state'[k] = "none" =>
                            /\ ~var[k] /\ out'[k] = {} /\ ~dtor_called[k] /\ ~free_called'[k]
                            /\ ~Buffered(gc', k) /\ gc'.color[k] = "black"
                            /\ \A m \in Node : k \notin out'[m]
                            /\ \A i \in DOMAIN frames' : ~Mentions(i, k)'
                      /\ free_called'[k] => out'[k] = {} /\ (k \in Destructor => dtor_called[k])
                      /\ free_called'[k] /\ state'[k] = "live" =>
                            /\ ~var[k]
                            /\ \A m \in Node : k \notin out'[m]
                            /\ InRest(frames', k) = {} /\ Calls(frames', {"dtor", "gcdtor"}, k) = {}
                            /\ Calls(frames', {"free"}, k) # {}
                      /\ state'[k] = "null" => free_called'[k] /\ Tag(k)' = "garbage"
    BY DEF HeapInv
  <2>1. /\ state[k] = "none" =>
              /\ ~var[k] /\ out[k] = {} /\ ~dtor_called[k] /\ ~free_called[k]
              /\ ~Buffered(gc, k) /\ gc.color[k] = "black"
              /\ \A m \in Node : k \notin out[m]
              /\ \A i \in DOMAIN frames : ~Mentions(i, k)
        /\ free_called[k] => out[k] = {} /\ (k \in Destructor => dtor_called[k])
        /\ free_called[k] /\ state[k] = "live" =>
              /\ ~var[k]
              /\ \A m \in Node : k \notin out[m]
              /\ InRest(frames, k) = {} /\ Calls(frames, {"dtor", "gcdtor"}, k) = {}
              /\ Calls(frames, {"free"}, k) # {}
        /\ state[k] = "null" => free_called[k] /\ Tag(k) = "garbage"
    BY <1>0 DEF HeapInv
  <2>2. \A m \in Node : k \in out'[m] => k \in out[m]
    BY <1>7
  <2>3. k # n /\ k \notin out[n] => \A i \in DOMAIN frames' : Mentions(i, k)' => i \in DOMAIN frames /\ Mentions(i, k)
    BY <1>6
  <2>4. k # n /\ k \notin out[n] =>
              /\ InRest(frames', k) \subseteq InRest(frames, k)
              /\ Calls(frames', {"dtor", "gcdtor"}, k) \subseteq Calls(frames, {"dtor", "gcdtor"}, k)
              /\ Calls(frames, {"free"}, k) \subseteq Calls(frames', {"free"}, k)
    BY <1>5, <1>6 DEF InRest, Calls
  <2>5. Buffered(gc', k) <=> Buffered(gc, k)
    BY <1>4 DEF Buffered
  <2>6. state'[k] = "none" => k # n /\ k \notin out[n] /\ state[k] = "none"
    BY <2>1, <1>2, <1>7
  <2>7. state'[k] = "live" /\ free_called'[k] => k # n /\ k \notin out[n] /\ state[k] = "live" /\ free_called[k]
    BY <2>1, <1>2, <1>7
  <2>8. state'[k] = "none" =>
            /\ ~var[k] /\ out'[k] = {} /\ ~dtor_called[k] /\ ~free_called'[k]
            /\ ~Buffered(gc', k) /\ gc'.color[k] = "black"
            /\ \A m \in Node : k \notin out'[m]
            /\ \A i \in DOMAIN frames' : ~Mentions(i, k)'
    BY <2>1, <2>2, <2>3, <2>5, <2>6, <1>4, <1>7
  <2>9. free_called'[k] => out'[k] = {} /\ (k \in Destructor => dtor_called[k])
    BY <2>1, <1>3, <1>7 DEF Undestructed
  <2>10. free_called'[k] /\ state'[k] = "live" =>
            /\ ~var[k]
            /\ \A m \in Node : k \notin out'[m]
            /\ InRest(frames', k) = {} /\ Calls(frames', {"dtor", "gcdtor"}, k) = {}
            /\ Calls(frames', {"free"}, k) # {}
    BY <2>1, <2>2, <2>4, <2>7
  <2>11. state'[k] = "null" => free_called'[k] /\ Tag(k)' = "garbage"
    BY <2>1, <1>2, <1>4, <1>7
  <2> QED
    BY <2>8, <2>9, <2>10, <2>11
<1>11. FrameInv'
  <2> SUFFICES ASSUME NEW i \in DOMAIN frames'
               PROVE  LET e == frames'[i] IN
                      /\ e.kind = "del" => state'[e.obj] = "live" /\ ~free_called'[e.obj] /\ gc'.refcount[e.obj] = 0
                      /\ e.kind \in {"dtor", "gcdtor", "last"} =>
                            dtor_called[e.obj] /\ state'[e.obj] = "live" /\ ~free_called'[e.obj]
                      /\ e.kind = "last" => gc'.refcount[e.obj] = 0 \/ Buffered(gc', e.obj)
                      /\ e.kind = "free" =>
                            /\ free_called'[e.obj] /\ state'[e.obj] = "live"
                            /\ \A j \in DOMAIN frames' : frames'[j].kind = "free" /\ frames'[j].obj = e.obj => i = j
                      /\ e.kind = "gcfree" => free_called'[e.obj] /\ state'[e.obj] = "null"
                      /\ e.kind \in {"del", "dtor", "last", "gcdtor"} => e.rest = {}
    BY DEF FrameInv
  <2>1. CASE i = Len(frames')
    <3>1. frames'[i] = f /\ state'[n] = "null" /\ free_called'[n]
      BY <2>1, <1>2, <1>6, <1>7
    <3> QED
      BY <3>1, <1>5
  <2>2. CASE i \in DOMAIN frames
    <3>1. frames'[i] = frames[i] /\ frames[i].kind \in {"dtor", "free", "gc"}
      BY <2>2, <1>6
    <3>2. frames[i].kind # "gc" => frames[i].obj \in Node /\ frames[i].obj # n
      BY <2>2, <1>3, <1>6 DEF Outside, Mentions, Calling
    <3>3. CASE frames[i].kind = "dtor"
      <4>1. dtor_called[frames[i].obj] /\ state[frames[i].obj] = "live"
            /\ ~free_called[frames[i].obj] /\ frames[i].rest = {}
        BY <2>2, <3>3, <1>0 DEF FrameInv
      <4>2. state'[frames[i].obj] = "live" /\ ~free_called'[frames[i].obj]
        BY <4>1, <3>2, <3>3, <1>7
      <4> QED
        BY <3>1, <3>3, <4>1, <4>2
    <3>4. CASE frames[i].kind = "free"
      <4>1. /\ free_called[frames[i].obj] /\ state[frames[i].obj] = "live"
            /\ \A j \in DOMAIN frames : frames[j].kind = "free" /\ frames[j].obj = frames[i].obj => i = j
        BY <2>2, <3>4, <1>0 DEF FrameInv
      <4>2. \A j \in DOMAIN frames' : frames'[j].kind = "free" => j \in DOMAIN frames /\ frames'[j] = frames[j]
        BY <1>5, <1>6
      <4>3. state'[frames[i].obj] = "live" /\ free_called'[frames[i].obj]
        BY <4>1, <3>2, <3>4, <1>7
      <4> QED
        BY <3>1, <3>4, <4>1, <4>2, <4>3
    <3>5. CASE frames[i].kind = "gc"
      BY <3>1, <3>5
    <3> QED
      BY <3>1, <3>3, <3>4, <3>5
  <2> QED
    BY <2>1, <2>2, <1>6
<1>12. ColorInv'
  <2> SUFFICES ASSUME NEW k \in Node
               PROVE  /\ Tag(k) \in Tags("destroy")
                      /\ gc.color[k] = IF Tag(k) \in {"root", "dtor"} THEN "purple" ELSE "black"
                      /\ Tag(k) \in {"garbage", "dtor"} => gc.address[k] <= end
                      /\ Tag(k) = "dtor" => k \in Destructor
                      /\ Tag(k) = "garbage" /\ gc.address[k] < idx + 1 => state'[k] = "null"
    BY <1>4 DEF ColorInv
  <2>1. Tag(k) = "garbage" /\ gc.address[k] < idx + 1 => state'[k] = "null"
    <3> HAVE Tag(k) = "garbage" /\ gc.address[k] < idx + 1
    <3>1. gc.address[k] \in Nat
      BY <1>0, Fields
    <3>2. gc.address[k] = idx \/ gc.address[k] < idx
      BY <3>1, <1>0
    <3>3. gc.address[k] < idx => state[k] = "null"
      BY <1>0 DEF ColorInv
    <3> QED
      BY <3>2, <3>3, <1>2, <1>7
  <2> QED
    BY <2>1, <1>0 DEF ColorInv
<1>13. CountInv'
  <2> SUFFICES ASSUME NEW k \in Node PROVE gc'.refcount[k] = Counted(k)'
    BY DEF CountInv
  <2>1. gc.refcount[k] = Refs(var, out, {}, frames, k) /\ gc.refcount[k] \in Nat
    BY <1>0, Untaken
  <2>2. Taken' = {}
    BY DEF Taken
  <2>3. Counted(k)' = Refs(var, out', {}, frames', k)
    BY <2>2 DEF Counted, Refs, Holders
  <2>4. Refs(var, out', {}, frames', k) = Refs(var, out, {}, frames, k) + IF k = n THEN 1 ELSE 0
    <3>1. /\ var \in [Node -> BOOLEAN] /\ out \in [Node -> SUBSET Node] /\ out' \in [Node -> SUBSET Node]
          /\ frames \in Seq(Frame) /\ n \in Node
      BY <1>0, <1>2
    <3>2. f \in Frame /\ Weight(f, k) = (IF k \in out[n] THEN 1 ELSE 0) + IF k = n THEN 1 ELSE 0
      BY <1>5 DEF Weight
    <3>3. out'[n] = {} /\ \A m \in Node : m # n => out'[m] = out[m]
      BY <1>2
    <3>4. \A T : n \notin T => Refs(var, out', T, Append(frames, f), k) = Refs(var, out, T, frames, k) + IF k = n THEN 1 ELSE 0
      BY ONLY <3>1, <3>2, <3>3, k \in Node, RefsRest
    <3> QED
      BY <3>4, <1>5
  <2>5. gc'.refcount[k] = IF k = n THEN gc.refcount[k] + 1 ELSE gc.refcount[k]
    BY <1>4
  <2> QED
    BY <2>1, <2>3, <2>4, <2>5
<1>14. FoundInv'
  <2> SUFFICES ASSUME NEW k \in Node, state'[k] # "none" PROVE (k \in Reach(Outside \cup Roots))'
    BY DEF FoundInv
  <2> DEFINE S == Outside \cup Roots
             T == Outside' \cup Roots'
  <2>1. Leads(out, S, k)
    <3>1. state[k] # "none"
      BY <1>3, <1>7
    <3> QED
      BY <3>1, ReachIs, <1>0 DEF FoundInv
  <2>2. Roots' = Roots
    BY <1>4 DEF Roots, Buffered
  <2>3. S \subseteq T /\ out[n] \subseteq T
    BY <2>2, <1>6
  <2>4. \A m \in S : Leads(out', T, m)
    BY <2>3, LeadsBase
  <2>5. \A m \in Node : \A j \in out[m] : j \in out'[m] \/ Leads(out', T, j)
    BY <2>3, <1>7, LeadsBase
  <2> HIDE DEF S, T
  <2>6. Leads(out', T, k)
    BY <2>1, <2>4, <2>5, <1>0, <1>7, Unfounded
  <2> QED
    BY <2>6 DEF Reach, Closed, Leads, T
<1>15. GarbageInv'
  <2>1. OfTag("garbage")' = OfTag("garbage")
    BY <1>4 DEF OfTag
  <2>2. \A k : Undestructed(k)' <=> Undestructed(k)
    BY DEF Undestructed
  <2>3. ASSUME NEW k \in OfTag("garbage")
        PROVE  /\ ~var[k] /\ ~Undestructed(k)
               /\ \A i \in DOMAIN frames : ~Mentions(i, k)
               /\ \A m \in Node : k \in out[m] => Tag(m) = "garbage"
    <3>1. k \in Node /\ Tag(k) = "garbage"
      BY DEF OfTag
    <3> QED
      BY <3>1, GarbageAtGc DEF Outside
  <2>4. \A k \in OfTag("garbage") : \A i \in DOMAIN frames' : Mentions(i, k)' => i = Len(frames')
    BY <2>3, <1>6
  <2>5. \A i \in DOMAIN frames' : i = Len(frames') => Above(i)' /\ frames'[i].kind \notin {"dtor", "gcdtor"}
    <3>1. frames'[Len(frames')].kind = "gcfree"
      BY <1>5, <1>6
    <3>2. \A i : i = Len(frames') => Above(i)'
      BY <1>6 DEF Above
    <3> QED
      BY <3>1, <3>2
  <2>6. \A k, m \in Node : k \in out'[m] => k \in out[m]
    BY <1>7
  <2>7. \A k \in OfTag("garbage") : k \in Node
    BY DEF OfTag
  <2> QED
    BY <2>1, <2>2, <2>3, <2>4, <2>5, <2>6, <2>7, <1>4 DEF GarbageInv
<1>16. AllInv'
  <2>1. ASSUME rerun = "no", NEW k \in Node, state'[k] # "none", Tag(k) # "garbage"
        PROVE  Leads(out', InUse', k)
    <3> DEFINE G == {m \in Node : Tag(m) = "garbage"}
               S == InUse
               T == InUse'
    <3>1. state[k] # "none"
      BY <2>1, <1>3, <1>7
    <3>2. Leads(out, S, k)
      BY <3>1, <2>1, <1>0, ReachIs DEF AllInv
    <3>3. S \in SUBSET Node /\ S \subseteq T /\ S \cap G = {}
      BY <1>3, <1>6 DEF InUse
    <3>4. \A m \in Node \ G : out[m] \subseteq out'[m] /\ out[m] \cap G = {}
      BY <1>2, <1>3, <1>7
    <3> HIDE DEF G, S, T
    <3>5. Leads(out', T, k)
      BY <3>2, <3>3, <3>4, <1>0, <1>7, LeadsAround
    <3> QED
      BY <3>5 DEF T
  <2>2. ASSUME rerun = "no", NEW k \in Node, state'[k] # "none"
        PROVE  Tag(k)' = "garbage" \/ (k \in Reach(InUse))'
    BY <2>1, <2>2, <1>4 DEF Reach, Closed, Leads
  <2>3. ASSUME NEW i \in DOMAIN frames', Above(i)'
        PROVE  (Tag(frames[i].obj) = "garbage" /\ frames[i].kind = "gcfree")'
    <3>1. frames'[i] = f
      BY <2>3, <1>6
    <3>2. Tag(n)' = "garbage"
      BY <1>2, <1>4
    <3> QED
      BY <3>1, <3>2, <1>5
  <2> QED
    BY <2>2, <2>3 DEF AllInv
<1>17. MarkInv' /\ ScanInv' /\ CollectInv'
  BY <1>0 DEF MarkInv, ScanInv, CollectInv
<1> QED
  BY <1>4, <1>8, <1>9, <1>10, <1>11, <1>12, <1>13, <1>14, <1>15, <1>16, <1>17 DEF Inv

(* The next slot, whatever it holds.                                       *)
LEMMA DestroyKeeps == ASSUME Inv, Destroy PROVE Inv'
<1> DEFINE n == gc.buf[idx].ref
<1>0. /\ Types /\ Wired(gc) /\ gc \in Headers /\ state \in [Node -> {"none", "live", "null"}]
      /\ out \in [Node -> SUBSET Node] /\ free_called \in [Node -> BOOLEAN] /\ FrameInv
  BY DEF Inv, Types
<1>1. /\ Collector /\ phase = "destroy" /\ idx <= end /\ idx' = idx + 1
      /\ UNCHANGED <<phase, end, todo, black, has_dtors, rerun>>
      /\ idx \notin Garbage => UNCHANGED <<heap, gc, frames>>
      /\ idx \in Garbage =>
            /\ state' = [state EXCEPT ![n] = "null"] /\ UNCHANGED <<var, dtor_called>>
            /\ free_called[n] => UNCHANGED <<out, free_called, gc, frames>>
            /\ ~free_called[n] =>
                  /\ free_called' = [free_called EXCEPT ![n] = TRUE] /\ gc' = Addref(gc, n)
                  /\ out' = [out EXCEPT ![n] = {}] /\ Enters(Call("gcfree", n, out[n]))
  BY DEF Destroy
<1>2. CASE idx \notin Garbage
  <2>1. UNCHANGED <<state, out, var, free_called, dtor_called, gc, frames>>
    BY <1>1, <1>2 DEF heap
  <2> QED
    BY <1>1, <1>2, <2>1, NothingDestroyed
<1>3. CASE idx \in Garbage
  <2>1. idx \in DOMAIN gc.buf /\ gc.buf[idx].tag = "garbage" /\ gc.buf[idx].tag # "unused"
    BY <1>3 DEF Garbage, Used
  <2>2. n \in Node /\ Tag(n) = "garbage"
    BY <2>1, <1>0, RootIs DEF Tag
  <2>3. CASE free_called[n]
    <3>1. state[n] = "null"
      BY <1>1, <2>2, <2>3, GarbageAtGc
    <3>2. state' = state
      BY <1>0, <1>1, <1>3, <2>2, <3>1
    <3>3. UNCHANGED <<state, out, var, free_called, dtor_called, gc, frames>>
      BY <1>1, <1>3, <2>3, <3>2
    <3> QED
      BY <1>1, <3>1, <3>3, NothingDestroyed
  <2>4. CASE ~free_called[n]
    <3>1. /\ state' = [state EXCEPT ![n] = "null"] /\ free_called' = [free_called EXCEPT ![n] = TRUE]
          /\ out' = [out EXCEPT ![n] = {}] /\ gc' = Addref(gc, n) /\ Enters(Call("gcfree", n, out[n]))
          /\ UNCHANGED <<var, dtor_called>>
      BY <1>1, <1>3, <2>4
    <3>2. /\ state' \in [Node -> {"none", "live", "null"}] /\ \A k \in Node : state'[k] = IF k = n THEN "null" ELSE state[k]
          /\ out' \in [Node -> SUBSET Node] /\ \A k \in Node : out'[k] = IF k = n THEN {} ELSE out[k]
          /\ free_called' \in [Node -> BOOLEAN] /\ \A k \in Node : free_called'[k] = (k = n \/ free_called[k])
      BY <1>0, <3>1
    <3>3. gc' = Addref(gc, n) /\ Enters(Call("gcfree", n, out[n])) /\ UNCHANGED <<var, dtor_called>>
      BY <3>1
    <3>4. \A k : k = gc.buf[idx].ref => k = n
      OBVIOUS
    <3>5. ~free_called[n] /\ n = gc.buf[idx].ref
      BY <2>4
    <3> HIDE DEF n
    <3> QED
      BY ONLY Inv, <1>1, <1>3, <3>2, <3>3, <3>5, OneDestroyed
  <2> QED
    BY <2>3, <2>4
<1> QED
  BY <1>2, <1>3

-----------------------------------------------------------------------------
(* The memory of the garbage is given back, at the end of a run or before  *)
(* another one.                                                            *)
LEMMA SweepStep ==
    ASSUME Inv, Collector, phase = "destroy", NEW T, T = OfTag("garbage"),
           \A n \in T : gc.address[n] < idx,
           UNCHANGED <<var, todo, black>>, idx' = 1, end' \in Nat, has_dtors' = FALSE, rerun' \in {"no", "should", "did"},
           state' \in [Node -> {"none", "live", "null"}], out' \in [Node -> SUBSET Node],
           dtor_called' \in [Node -> BOOLEAN], free_called' \in [Node -> BOOLEAN],
           \A n \in T : state'[n] = "none" /\ out'[n] = {} /\ ~dtor_called'[n] /\ ~free_called'[n],
           \A n \in Node : n \notin T => /\ state'[n] = state[n] /\ out'[n] = out[n]
                                         /\ dtor_called'[n] = dtor_called[n] /\ free_called'[n] = free_called[n],
           gc' \in Headers, Wired(gc'),
           \A n \in T : gc'.refcount[n] = 0 /\ gc'.color[n] = "black" /\ ~Buffered(gc', n) /\ Tag(n)' = "none",
           \A n \in Node : n \notin T => /\ gc'.refcount[n] = gc.refcount[n] /\ gc'.color[n] = gc.color[n]
                                         /\ Tag(n)' = Tag(n) /\ (Buffered(gc', n) <=> Buffered(gc, n)),
           \/ phase' = "idle" /\ frames' = Front(frames)
           \/ phase' = "mark" /\ frames' = frames
    PROVE  Inv'
<1>0. /\ Types /\ StackRest /\ Wired(gc) /\ HeapInv /\ FrameInv /\ ColorInv /\ CountInv /\ FoundInv
      /\ todo = {} /\ black = {} /\ gc \in Headers /\ idx \in Nat /\ frames \in Seq(Frame)
      /\ var \in [Node -> BOOLEAN] /\ out \in [Node -> SUBSET Node] /\ free_called \in [Node -> BOOLEAN]
  BY DEF Inv, Types, StackRest
<1>1. /\ frames # <<>> /\ frames[Len(frames)].kind = "gc"
      /\ \A i \in DOMAIN frames : frames[i].kind \notin {"del", "last", "gcdtor", "gcfree"} /\ ~Above(i)
      /\ \A q : q # "idle" => StackOK(frames, q)
      /\ StackOK(Front(frames), "idle")
  BY AtGc
<1>2. /\ frames' \in Seq(Frame)
      /\ \A i \in DOMAIN frames' : i \in DOMAIN frames /\ frames'[i] = frames[i]
      /\ \A i \in DOMAIN frames : frames[i].kind # "gc" => i \in DOMAIN frames'
      /\ StackOK(frames', phase')
  <2> DEFINE P == Front(frames)
  <2>1. /\ P \in Seq(Frame) /\ DOMAIN P = DOMAIN frames \ {Len(frames)} /\ \A i \in DOMAIN P : P[i] = frames[i]
    BY <1>0, <1>1, Popped
  <2> HIDE DEF P
  <2>2. CASE phase' = "idle" /\ frames' = P
    BY <2>1, <2>2, <1>1 DEF P
  <2>3. CASE phase' = "mark" /\ frames' = frames
    BY <2>3, <1>0, <1>1
  <2> QED
    BY <2>2, <2>3 DEF P
<1>3. \A n \in T : /\ n \in Node /\ Tag(n) = "garbage" /\ n \notin Outside /\ state[n] = "null" /\ free_called[n] /\ out[n] = {}
                   /\ \A m \in Node : n \notin out[m]
  <2> TAKE n \in T
  <2>1. n \in Node /\ Tag(n) = "garbage"
    BY DEF OfTag
  <2>2. state[n] = "null"
    BY <2>1, <1>0 DEF ColorInv
  <2>3. n \notin Outside /\ free_called[n] /\ \A m \in Node : n \in out[m] => Tag(m) = "garbage"
    BY <2>1, <2>2, GarbageAtGc
  <2>4. \A m \in Node : Tag(m) = "garbage" => out[m] = {}
    <3> SUFFICES ASSUME NEW m \in Node, Tag(m) = "garbage" PROVE out[m] = {}
      OBVIOUS
    <3>1. m \in T
      BY DEF OfTag
    <3>2. state[m] = "null"
      BY <3>1, <1>0 DEF ColorInv
    <3> QED
      BY <3>2, <1>0 DEF HeapInv
  <2> QED
    BY <2>1, <2>2, <2>3, <2>4
<1>4. out' = out
  <2>1. \A n \in Node : out'[n] = out[n]
    BY <1>3
  <2>2. out' \in [Node -> SUBSET Node]
    OBVIOUS
  <2> QED
    BY ONLY <2>1, <2>2, <1>0
<1>5. \A i \in DOMAIN frames' : \A n : Mentions(i, n)' <=> Mentions(i, n)
  BY <1>2 DEF Mentions, Calling
<1>6. \A n \in T : ~var[n] /\ \A i \in DOMAIN frames : ~Mentions(i, n)
  BY <1>3 DEF Outside
<1>7. \A n \in Node : n \notin T => Tag(n) # "garbage" /\ state[n] # "null"
  BY <1>0 DEF HeapInv, OfTag
<1>8. Types'
  BY <1>0, <1>2, <1>4 DEF Types, Phases
<1>9. StackRest'
  <2>1. phase' = "mark" => frames' # <<>> /\ frames'[Len(frames')].kind = "gc"
    BY <1>1
  <2>2. phase' = "mark" => Running("gc")'
    BY <2>1 DEF Running, Top
  <2> QED
    BY <2>2, <1>0 DEF StackRest
<1>10. HeapInv'
  <2> SUFFICES ASSUME NEW n \in Node
               PROVE  /\ state'[n] = "none" =>
                            /\ ~var[n] /\ out[n] = {} /\ ~dtor_called'[n] /\ ~free_called'[n]
                            /\ ~Buffered(gc', n) /\ gc'.color[n] = "black"
                            /\ \A m \in Node : n \notin out[m]
                            /\ \A i \in DOMAIN frames' : ~Mentions(i, n)'
                      /\ free_called'[n] => out[n] = {} /\ (n \in Destructor => dtor_called'[n])
                      /\ free_called'[n] /\ state'[n] = "live" =>
                            /\ ~var[n]
                            /\ \A m \in Node : n \notin out[m]
                            /\ InRest(frames', n) = {} /\ Calls(frames', {"dtor", "gcdtor"}, n) = {}
                            /\ Calls(frames', {"free"}, n) # {}
                      /\ state'[n] # "null"
    BY <1>4 DEF HeapInv
  <2>1. CASE n \in T
    BY <2>1, <1>2, <1>3, <1>5, <1>6
  <2>2. CASE n \notin T
    <3>1. /\ state[n] = "none" =>
                /\ ~var[n] /\ out[n] = {} /\ ~dtor_called[n] /\ ~free_called[n]
                /\ ~Buffered(gc, n) /\ gc.color[n] = "black"
                /\ \A m \in Node : n \notin out[m]
                /\ \A i \in DOMAIN frames : ~Mentions(i, n)
          /\ free_called[n] => out[n] = {} /\ (n \in Destructor => dtor_called[n])
          /\ free_called[n] /\ state[n] = "live" =>
                /\ ~var[n]
                /\ \A m \in Node : n \notin out[m]
                /\ InRest(frames, n) = {} /\ Calls(frames, {"dtor", "gcdtor"}, n) = {}
                /\ Calls(frames, {"free"}, n) # {}
      BY <1>0 DEF HeapInv
    <3>2. /\ InRest(frames', n) \subseteq InRest(frames, n)
          /\ Calls(frames', {"dtor", "gcdtor"}, n) \subseteq Calls(frames, {"dtor", "gcdtor"}, n)
          /\ Calls(frames, {"free"}, n) \subseteq Calls(frames', {"free"}, n)
      BY <1>2 DEF InRest, Calls
    <3> QED
      BY <2>2, <3>1, <3>2, <1>2, <1>5, <1>7
  <2> QED
    BY <2>1, <2>2
<1>11. FrameInv'
  <2> SUFFICES ASSUME NEW i \in DOMAIN frames'
               PROVE  LET e == frames'[i] IN
                      /\ e.kind \in {"dtor", "gcdtor", "last"} =>
                            dtor_called'[e.obj] /\ state'[e.obj] = "live" /\ ~free_called'[e.obj]
                      /\ e.kind = "free" =>
                            /\ free_called'[e.obj] /\ state'[e.obj] = "live"
                            /\ \A j \in DOMAIN frames' : frames'[j].kind = "free" /\ frames'[j].obj = e.obj => i = j
                      /\ e.kind \notin {"del", "last", "gcfree"}
                      /\ e.kind \in {"del", "dtor", "last", "gcdtor"} => e.rest = {}
    BY DEF FrameInv
  <2>1. i \in DOMAIN frames /\ frames'[i] = frames[i] /\ frames[i].kind \notin {"del", "last", "gcdtor", "gcfree"}
    BY <1>1, <1>2
  <2>2. frames[i].kind # "gc" => frames[i].obj \in Node /\ frames[i].obj \notin T
    <3>1. frames[i].kind # "gc" => frames[i].obj \in Node /\ Mentions(i, frames[i].obj)
      BY <2>1, <1>0, StackIs, FrameIs DEF Mentions, Calling
    <3> QED
      BY <2>1, <3>1, <1>6
  <2>3. CASE frames[i].kind = "dtor"
    <3>1. dtor_called[frames[i].obj] /\ state[frames[i].obj] = "live" /\ ~free_called[frames[i].obj] /\ frames[i].rest = {}
      BY <2>1, <2>3, <1>0 DEF FrameInv
    <3> QED
      BY <2>1, <2>2, <2>3, <3>1
  <2>4. CASE frames[i].kind = "free"
    <3>1. /\ free_called[frames[i].obj] /\ state[frames[i].obj] = "live"
          /\ \A j \in DOMAIN frames : frames[j].kind = "free" /\ frames[j].obj = frames[i].obj => i = j
      BY <2>1, <2>4, <1>0 DEF FrameInv
    <3>2. \A j \in DOMAIN frames' : j \in DOMAIN frames /\ frames'[j] = frames[j]
      BY <1>2
    <3> QED
      BY <2>1, <2>2, <2>4, <3>1, <3>2
  <2> QED
    BY <2>1, <2>3, <2>4
<1>12. ColorInv'
  <2> SUFFICES ASSUME NEW n \in Node
               PROVE  /\ Tag(n)' \in {"none", "root"}
                      /\ gc'.color[n] = IF Tag(n)' = "root" THEN "purple" ELSE "black"
                      /\ Buffered(gc', n) <=> Tag(n)' = "root"
                      /\ gc'.address[n] \in Nat
    BY DEF ColorInv, Tags, Buffered
  <2>1. gc'.address[n] \in Nat
    BY Fields
  <2>2. Tag(n)' = "none" \/ Buffered(gc', n)
    BY DEF Tag, TagIn
  <2>3. ~Buffered(gc', n) => Tag(n)' = "none"
    BY DEF Tag, TagIn
  <2>4. Buffered(gc', n) => Tag(n)' \in {"root", "garbage", "dtor"}
    BY SlotIs DEF Tag
  <2>5. CASE n \in T
    BY <2>1, <2>5
  <2>6. CASE n \notin T
    <3>1. Tag(n) \in {"none", "root"} /\ gc.color[n] = IF Tag(n) \in {"root", "dtor"} THEN "purple" ELSE "black"
      BY <2>6, <1>0, <1>7 DEF ColorInv, Tags
    <3> QED
      BY <2>1, <2>3, <2>4, <2>6, <3>1
  <2> QED
    BY <2>5, <2>6
<1>13. CountInv'
  <2> SUFFICES ASSUME NEW n \in Node PROVE gc'.refcount[n] = Counted(n)'
    BY DEF CountInv
  <2>1. gc.refcount[n] = Refs(var, out, {}, frames, n) /\ gc.refcount[n] \in Nat
    BY <1>0, Untaken
  <2>2. Taken' = {}
    <3>1. phase' = "mark" => Painted("grey")' = {}
      <4>1. \A k \in Node : gc'.color[k] # "grey"
        BY <1>0, <1>7 DEF ColorInv
      <4> QED
        BY <4>1 DEF Painted
    <3> QED
      BY <3>1 DEF Taken
  <2>3. Counted(n)' = Refs(var, out, {}, frames', n)
    BY <2>2, <1>4 DEF Counted, Refs, Holders
  <2>4. Refs(var, out, {}, frames', n) = Refs(var, out, {}, frames, n)
    <3>1. CASE frames' = Front(frames)
      <4>1. Refs(var, out, {}, frames, n) = Refs(var, out, {}, Front(frames), n) + Weight(frames[Len(frames)], n)
        BY <1>0, <1>1, RefsTop
      <4>2. Weight(frames[Len(frames)], n) = 0
        BY <1>1 DEF Weight
      <4>3. Refs(var, out, {}, Front(frames), n) \in Nat
        <5>1. Front(frames) \in Seq(Frame)
          BY <3>1, <1>2
        <5> QED
          BY <5>1, <1>0, RefsNat
      <4> QED
        BY <3>1, <4>1, <4>2, <4>3
    <3> QED
      BY <3>1
  <2>5. CASE n \in T
    <3>1. ~var[n] /\ (\A m \in Node : n \notin out[m]) /\ \A i \in DOMAIN frames : Weight(frames[i], n) = 0
      BY <2>5, <1>3, <1>6 DEF Weight, Mentions, Calling
    <3>2. gc.refcount[n] = 0
      <4>1. \A S : Refs(var, out, S, frames, n) = 0
        BY <3>1, <1>0, RefsZero
      <4> QED
        BY <2>1, <4>1
    <3> QED
      BY <2>1, <2>3, <2>4, <2>5, <3>2
  <2>6. CASE n \notin T
    BY <2>1, <2>3, <2>4, <2>6
  <2> QED
    BY <2>5, <2>6
<1>14. FoundInv'
  <2> SUFFICES ASSUME NEW k \in Node, state'[k] # "none" PROVE (k \in Reach(Outside \cup Roots))'
    BY DEF FoundInv
  <2> DEFINE S == Outside \cup Roots
             U == Outside' \cup Roots'
  <2>1. k \notin T /\ Leads(out, S, k)
    <3>1. k \notin T /\ state[k] # "none"
      OBVIOUS
    <3> QED
      BY <3>1, ReachIs, <1>0 DEF FoundInv
  <2>2. \A n \in Outside : n \in Outside'
    <3> SUFFICES ASSUME NEW n \in Outside PROVE n \in Outside'
      OBVIOUS
    <3>1. n \in Node /\ (var[n] \/ \E i \in DOMAIN frames : Mentions(i, n))
      BY DEF Outside
    <3>2. ASSUME NEW i \in DOMAIN frames, Mentions(i, n) PROVE i \in DOMAIN frames' /\ Mentions(i, n)'
      BY <3>2, <1>2, <1>5 DEF Mentions, Calling
    <3> QED
      BY <3>1, <3>2 DEF Outside
  <2>3. \A n \in Roots : n \in T \/ n \in Roots'
    BY DEF Roots
  <2>4. S \in SUBSET Node /\ \A m \in S : m \in T \/ Leads(out, U, m)
    <3>1. \A m \in U : Leads(out, U, m)
      BY LeadsBase
    <3> QED
      BY <3>1, <2>2, <2>3 DEF Outside, Roots
  <2>5. T \in SUBSET Node /\ \A z \in T : out[z] \subseteq T
    BY <1>3
  <2> HIDE DEF S, U
  <2>6. Leads(out, U, k)
    <3>1. \A m \in Node \ T : \A j \in out[m] : j \in out[m] \/ j \in T \/ Leads(out, U, j)
      OBVIOUS
    <3> QED
      BY ONLY <1>0, <2>1, <2>4, <2>5, <3>1, LeadsStep
  <2> QED
    BY <2>6, <1>4 DEF Reach, Closed, Leads, U
<1>15. MarkInv'
  <2>1. \A k \in Node : gc'.color[k] # "grey"
    BY <1>0, <1>7 DEF ColorInv
  <2>2. Painted("grey")' = {}
    BY <2>1 DEF Painted
  <2> QED
    BY <2>2, <1>0 DEF MarkInv
<1>16. ScanInv' /\ CollectInv' /\ GarbageInv' /\ AllInv'
  BY DEF ScanInv, CollectInv, GarbageInv, AllInv
<1>17. StackOK(frames, phase)'
  BY <1>2
<1> QED
  BY <1>8, <1>9, <1>10, <1>11, <1>12, <1>13, <1>14, <1>15, <1>16, <1>17 DEF Inv

(* What the end of a run does: all garbage is gone, and nothing else       *)
(* changes.                                                                *)
LEMMA EndDestroyIs ==
    ASSUME Inv, EndDestroy
    PROVE  LET T == OfTag("garbage") IN
           /\ Collector /\ phase = "destroy" /\ \A n \in T : gc.address[n] < idx
           /\ UNCHANGED <<var, todo, black>>
           /\ idx' = 1 /\ end' \in Nat /\ has_dtors' = FALSE /\ rerun' \in {"no", "should", "did"}
           /\ \/ phase' = "idle" /\ frames' = Front(frames)
              \/ phase' = "mark" /\ frames' = frames
           /\ state' \in [Node -> {"none", "live", "null"}] /\ out' \in [Node -> SUBSET Node]
           /\ dtor_called' \in [Node -> BOOLEAN] /\ free_called' \in [Node -> BOOLEAN]
           /\ \A n \in T : state'[n] = "none" /\ out'[n] = {} /\ ~dtor_called'[n] /\ ~free_called'[n]
           /\ \A n \in Node : n \notin T => /\ state'[n] = state[n] /\ out'[n] = out[n]
                                            /\ dtor_called'[n] = dtor_called[n] /\ free_called'[n] = free_called[n]
           /\ gc' \in Headers /\ Wired(gc')
           /\ \A n \in T : gc'.refcount[n] = 0 /\ gc'.color[n] = "black" /\ ~Buffered(gc', n) /\ Tag(n)' = "none"
           /\ \A n \in Node : n \notin T => /\ gc'.refcount[n] = gc.refcount[n] /\ gc'.color[n] = gc.color[n]
                                            /\ Tag(n)' = Tag(n) /\ (Buffered(gc', n) <=> Buffered(gc, n))
<1> DEFINE S == Garbage \cap 1..end
           T == {gc.buf[i].ref : i \in S}
           h == Compact(Vacate(gc, S))
<1>0. /\ Types /\ Wired(gc) /\ gc \in Headers /\ state \in [Node -> {"none", "live", "null"}]
      /\ out \in [Node -> SUBSET Node] /\ free_called \in [Node -> BOOLEAN] /\ dtor_called \in [Node -> BOOLEAN]
      /\ ColorInv /\ idx \in Nat /\ end \in Nat
  BY DEF Inv, Types
<1>1. /\ Collector /\ phase = "destroy" /\ idx > end
      /\ Efree(h, T)
      /\ IF rerun = "should" /\ Used(gc') # {}
         THEN /\ rerun' = "did" /\ phase' = "mark" /\ idx' = 1 /\ has_dtors' = FALSE
              /\ UNCHANGED <<frames, end>>
         ELSE Finish
      /\ UNCHANGED <<todo, black>>
  BY DEF EndDestroy
<1>2. S \in SUBSET Used(gc) /\ \A i \in S : gc.buf[i].tag = "garbage" /\ i <= end
  BY DEF Garbage, Used
<1>3. \A n \in Node : Tag(n) = "garbage" => gc.address[n] \in S /\ gc.address[n] <= end
  <2> SUFFICES ASSUME NEW n \in Node, Tag(n) = "garbage" PROVE gc.address[n] \in S /\ gc.address[n] <= end
    OBVIOUS
  <2>1. Buffered(gc, n)
    BY DEF Tag, TagIn
  <2>2. gc.address[n] \in Used(gc) /\ gc.buf[gc.address[n]].tag = "garbage" /\ gc.address[n] \in 1..Len(gc.buf)
    BY <2>1, <1>0, SlotIs DEF Tag, Wired
  <2>3. gc.address[n] <= end
    BY <1>0, <1>1 DEF ColorInv
  <2> QED
    BY <2>2, <2>3, <1>0 DEF Garbage
<1>4. T = OfTag("garbage")
  <2>1. \A i \in S : gc.buf[i].ref \in OfTag("garbage")
    <3> TAKE i \in S
    <3>1. i \in DOMAIN gc.buf /\ gc.buf[i].tag # "unused" /\ gc.buf[i].tag = "garbage"
      BY <1>2 DEF Used
    <3> QED
      BY <3>1, <1>0, RootIs DEF OfTag, Tag
  <2>2. \A n \in OfTag("garbage") : n = gc.buf[gc.address[n]].ref /\ gc.address[n] \in S
    BY <1>0, <1>3, SlotIs DEF OfTag, Tag, TagIn
  <2> QED
    BY <2>1, <2>2
<1>5. \A n \in T : gc.address[n] < idx
  <2>1. \A n \in Node : gc.address[n] \in Nat
    BY <1>0, Fields
  <2> QED
    BY <2>1, <1>0, <1>1, <1>3, <1>4 DEF OfTag
<1>6. /\ state' = [n \in Node |-> IF n \in T THEN "none" ELSE state[n]]
      /\ out' = [n \in Node |-> IF n \in T THEN {} ELSE out[n]]
      /\ dtor_called' = [n \in Node |-> n \notin T /\ dtor_called[n]]
      /\ free_called' = [n \in Node |-> n \notin T /\ free_called[n]]
      /\ gc' = Clear(h, T) /\ UNCHANGED var
  BY <1>1 DEF Efree, Clear
<1>7. LET g == Clear(h, T) IN
      /\ g \in Headers /\ Wired(g)
      /\ \A n \in T : g.refcount[n] = 0 /\ g.color[n] = "black" /\ ~Buffered(g, n) /\ TagIn(g, n) = "none"
      /\ \A n \in Node \ T : /\ g.refcount[n] = gc.refcount[n] /\ g.color[n] = gc.color[n]
                             /\ TagIn(g, n) = TagIn(gc, n) /\ (Buffered(g, n) <=> Buffered(gc, n))
  <2> HIDE DEF S
  <2> QED
    BY ONLY <1>0, <1>2, SweepIs
<1> HIDE DEF T, h
<1>8. /\ gc' \in Headers /\ Wired(gc')
      /\ \A n \in T : gc'.refcount[n] = 0 /\ gc'.color[n] = "black" /\ ~Buffered(gc', n) /\ TagIn(gc', n) = "none"
      /\ \A n \in Node \ T : /\ gc'.refcount[n] = gc.refcount[n] /\ gc'.color[n] = gc.color[n]
                             /\ TagIn(gc', n) = TagIn(gc, n) /\ (Buffered(gc', n) <=> Buffered(gc, n))
  BY <1>6, <1>7
<1>9. T \subseteq Node
  BY <1>4 DEF OfTag
<1>10. /\ idx' = 1 /\ end' \in Nat /\ has_dtors' = FALSE /\ rerun' \in {"no", "should", "did"}
       /\ \/ phase' = "idle" /\ frames' = Front(frames)
          \/ phase' = "mark" /\ frames' = frames
  BY <1>0, <1>1 DEF Finish, Return
<1>11. /\ state' \in [Node -> {"none", "live", "null"}] /\ out' \in [Node -> SUBSET Node]
       /\ dtor_called' \in [Node -> BOOLEAN] /\ free_called' \in [Node -> BOOLEAN]
       /\ \A n \in T : state'[n] = "none" /\ out'[n] = {} /\ ~dtor_called'[n] /\ ~free_called'[n]
       /\ \A n \in Node : n \notin T => /\ state'[n] = state[n] /\ out'[n] = out[n]
                                        /\ dtor_called'[n] = dtor_called[n] /\ free_called'[n] = free_called[n]
  BY <1>0, <1>6, <1>9
<1>12. /\ \A n \in T : Tag(n)' = "none"
       /\ \A n \in Node : n \notin T => Tag(n)' = Tag(n)
  BY <1>8 DEF Tag
<1>13. UNCHANGED <<var, todo, black>>
  BY <1>1, <1>6
<1> QED
  BY <1>1, <1>4, <1>5, <1>8, <1>10, <1>11, <1>12, <1>13

(* A run is over, or there is one more after destructors.                  *)
LEMMA EndDestroyKeeps == ASSUME Inv, EndDestroy PROVE Inv'
<1> DEFINE T == OfTag("garbage")
<1>1. T = OfTag("garbage")
  OBVIOUS
<1>2. /\ Collector /\ phase = "destroy" /\ \A n \in T : gc.address[n] < idx
      /\ UNCHANGED <<var, todo, black>>
      /\ idx' = 1 /\ end' \in Nat /\ has_dtors' = FALSE /\ rerun' \in {"no", "should", "did"}
      /\ \/ phase' = "idle" /\ frames' = Front(frames)
         \/ phase' = "mark" /\ frames' = frames
      /\ state' \in [Node -> {"none", "live", "null"}] /\ out' \in [Node -> SUBSET Node]
      /\ dtor_called' \in [Node -> BOOLEAN] /\ free_called' \in [Node -> BOOLEAN]
      /\ \A n \in T : state'[n] = "none" /\ out'[n] = {} /\ ~dtor_called'[n] /\ ~free_called'[n]
      /\ \A n \in Node : n \notin T => /\ state'[n] = state[n] /\ out'[n] = out[n]
                                       /\ dtor_called'[n] = dtor_called[n] /\ free_called'[n] = free_called[n]
      /\ gc' \in Headers /\ Wired(gc')
      /\ \A n \in T : gc'.refcount[n] = 0 /\ gc'.color[n] = "black" /\ ~Buffered(gc', n) /\ Tag(n)' = "none"
      /\ \A n \in Node : n \notin T => /\ gc'.refcount[n] = gc.refcount[n] /\ gc'.color[n] = gc.color[n]
                                       /\ Tag(n)' = Tag(n) /\ (Buffered(gc', n) <=> Buffered(gc, n))
  BY EndDestroyIs
<1> HIDE DEF T
<1> QED
  BY ONLY Inv, <1>1, <1>2, SweepStep

-----------------------------------------------------------------------------
(* The program calls the collector.                                        *)
LEMMA CollectKeeps == ASSUME Inv, Collect PROVE Inv'
<1> DEFINE e == [kind |-> "gc"]
<1>0. /\ Types /\ StackOK(frames, phase) /\ StackRest /\ Wired(gc) /\ HeapInv /\ FrameInv /\ ColorInv /\ CountInv /\ FoundInv
      /\ gc \in Headers /\ frames \in Seq(Frame) /\ phase = "idle" /\ todo = {} /\ black = {}
      /\ var \in [Node -> BOOLEAN] /\ out \in [Node -> SUBSET Node]
  BY DEF Inv, Types, StackRest, Collect
<1>1. /\ Program /\ gc' = Compact(gc) /\ UNCHANGED <<state, out, var, dtor_called, free_called, todo, black>>
      /\ \/ UNCHANGED <<frames, phase, idx, end, has_dtors, rerun>>
         \/ /\ frames' = Append(frames, e)
            /\ phase' = "mark" /\ idx' = 1 /\ rerun' = "no" /\ has_dtors' = FALSE /\ UNCHANGED end
  BY DEF Collect, Enters, heap, run
<1>2. /\ gc' \in Headers /\ Wired(gc') /\ gc'.refcount = gc.refcount /\ gc'.color = gc.color
      /\ \A n \in Node : Tag(n)' = Tag(n) /\ (Buffered(gc', n) <=> Buffered(gc, n))
  <2> DEFINE h == Compact(gc)
  <2>1. /\ h \in Headers /\ Wired(h) /\ h.refcount = gc.refcount /\ h.color = gc.color
        /\ \A n \in Node : TagIn(h, n) = TagIn(gc, n) /\ (Buffered(h, n) <=> Buffered(gc, n))
    BY <1>0, CompactWired
  <2>2. gc' = h
    BY <1>1
  <2> HIDE DEF h
  <2> QED
    BY <2>1, <2>2 DEF Tag
<1>3. \A i \in DOMAIN frames : /\ frames[i].kind \notin {"del", "last", "gcdtor", "gcfree", "gc"}
                               /\ frames[i].obj \in Node
  <2> SUFFICES ASSUME NEW i \in DOMAIN frames
               PROVE  frames[i].kind \notin {"del", "last", "gcdtor", "gcfree", "gc"} /\ frames[i].obj \in Node
    OBVIOUS
  <2>1. frames[i].kind \notin {"gcdtor", "gcfree", "gc"}
    BY <1>0 DEF StackOK
  <2>2. frames[i].kind \in {"del", "last"} => i = Len(frames)
    BY <1>0 DEF StackOK
  <2>3. frames # <<>>
    BY <1>0, StackIs
  <2>4. frames[Len(frames)].kind \in {"dtor", "gcdtor"}
    BY <1>1, <2>3 DEF Program, Running, Top
  <2>5. frames[i].obj \in Node
    BY <2>1, <1>0, StackIs, FrameIs
  <2> QED
    BY <2>1, <2>2, <2>4, <2>5
<1>4. e \in Frame /\ e.kind = "gc"
  BY DEF Frame
<1>5. /\ frames' \in Seq(Frame)
      /\ \A i \in DOMAIN frames' : (i \in DOMAIN frames /\ frames'[i] = frames[i]) \/ frames'[i].kind = "gc"
      /\ \A i \in DOMAIN frames : i \in DOMAIN frames' /\ frames'[i] = frames[i]
  <2> HIDE DEF e
  <2>1. CASE frames' = frames
    BY <2>1, <1>0
  <2>2. CASE frames' = Append(frames, e)
    <3> DEFINE G == Append(frames, e)
    <3>1. /\ G \in Seq(Frame)
          /\ \A i \in DOMAIN G : i \in DOMAIN frames \/ i = Len(G)
          /\ \A i \in DOMAIN frames : i \in DOMAIN G /\ G[i] = frames[i]
          /\ G[Len(G)] = e
      BY <1>0, <1>4, Pushed
    <3> HIDE DEF G
    <3>2. frames' = G
      BY <2>2 DEF G
    <3> QED
      BY <3>1, <3>2, <1>4
  <2> QED
    BY <2>1, <2>2, <1>1
<1>6. StackOK(frames, phase)'
  <2> HIDE DEF e
  <2>1. CASE frames' = frames /\ phase' = phase
    BY <2>1, <1>0
  <2>2. CASE frames' = Append(frames, e) /\ phase' = "mark"
    <3> DEFINE G == Append(frames, e)
    <3>1. /\ \A i \in DOMAIN G : i \in DOMAIN frames \/ i = Len(G)
          /\ \A i \in DOMAIN frames : G[i] = frames[i]
          /\ G[Len(G)] = e /\ Len(G) \in DOMAIN G
      BY <1>0, <1>4, Pushed
    <3> HIDE DEF G
    <3>2. StackOK(G, "mark")
      BY <3>1, <1>3, <1>4 DEF StackOK, HasGc
    <3> QED
      BY <2>2, <3>2 DEF G
  <2> QED
    BY <2>1, <2>2, <1>1
<1>7. Types'
  <2>1. /\ phase' \in Phases /\ idx' \in Nat /\ end' \in Nat /\ has_dtors' \in BOOLEAN /\ rerun' \in {"no", "should", "did"}
    <3>1. phase \in Phases /\ idx \in Nat /\ end \in Nat /\ has_dtors \in BOOLEAN /\ rerun \in {"no", "should", "did"}
      BY <1>0 DEF Types
    <3>2. CASE UNCHANGED <<phase, idx, end, has_dtors, rerun>>
      BY <3>1, <3>2
    <3>3. CASE phase' = "mark" /\ idx' = 1 /\ rerun' = "no" /\ has_dtors' = FALSE /\ UNCHANGED end
      BY <3>1, <3>3 DEF Phases
    <3> QED
      BY <1>1, <3>2, <3>3
  <2>2. frames' \in Seq(Frame) /\ gc' \in Headers /\ UNCHANGED <<state, out, var, dtor_called, free_called, todo, black>>
    BY <1>1, <1>2, <1>5
  <2> QED
    BY ONLY <2>1, <2>2, <1>0 DEF Types
<1>8. StackRest'
  <2>1. phase' = "mark" => frames' # <<>> /\ frames'[Len(frames')].kind = "gc"
    <3> HIDE DEF e
    <3>1. Append(frames, e) # <<>> /\ Append(frames, e)[Len(Append(frames, e))] = e
      BY <1>0, <1>4, Pushed
    <3>2. phase' = "mark" => frames' = Append(frames, e)
      BY <1>0, <1>1
    <3> QED
      BY <3>1, <3>2, <1>4
  <2>2. phase' = "mark" => Running("gc")'
    BY <2>1 DEF Running, Top
  <2>3. phase' \in {"idle", "mark"} /\ idx' >= 1 /\ todo' = {} /\ black' = {}
    BY <1>0, <1>1 DEF StackRest
  <2> QED
    BY <2>2, <2>3 DEF StackRest
<1>9. \A n : \A i \in DOMAIN frames' : Mentions(i, n)' => i \in DOMAIN frames /\ Mentions(i, n)
  BY <1>5 DEF Mentions, Calling
<1>10. \A n : \A i \in DOMAIN frames : Mentions(i, n) => i \in DOMAIN frames' /\ Mentions(i, n)'
  BY <1>5 DEF Mentions, Calling
<1>11. HeapInv'
  <2> SUFFICES ASSUME NEW n \in Node
               PROVE  /\ state[n] = "none" =>
                            /\ ~var[n] /\ out[n] = {} /\ ~dtor_called[n] /\ ~free_called[n]
                            /\ ~Buffered(gc', n) /\ gc'.color[n] = "black"
                            /\ \A m \in Node : n \notin out[m]
                            /\ \A i \in DOMAIN frames' : ~Mentions(i, n)'
                      /\ free_called[n] => out[n] = {} /\ (n \in Destructor => dtor_called[n])
                      /\ free_called[n] /\ state[n] = "live" =>
                            /\ ~var[n]
                            /\ \A m \in Node : n \notin out[m]
                            /\ InRest(frames', n) = {} /\ Calls(frames', {"dtor", "gcdtor"}, n) = {}
                            /\ Calls(frames', {"free"}, n) # {}
                      /\ state[n] # "null"
    BY <1>1 DEF HeapInv
  <2>1. /\ state[n] = "none" =>
              /\ ~var[n] /\ out[n] = {} /\ ~dtor_called[n] /\ ~free_called[n]
              /\ ~Buffered(gc, n) /\ gc.color[n] = "black"
              /\ \A m \in Node : n \notin out[m]
              /\ \A i \in DOMAIN frames : ~Mentions(i, n)
        /\ free_called[n] => out[n] = {} /\ (n \in Destructor => dtor_called[n])
        /\ free_called[n] /\ state[n] = "live" =>
              /\ ~var[n]
              /\ \A m \in Node : n \notin out[m]
              /\ InRest(frames, n) = {} /\ Calls(frames, {"dtor", "gcdtor"}, n) = {}
              /\ Calls(frames, {"free"}, n) # {}
        /\ state[n] # "null"
    BY <1>0 DEF HeapInv
  <2>2. /\ InRest(frames', n) \subseteq InRest(frames, n)
        /\ Calls(frames', {"dtor", "gcdtor"}, n) \subseteq Calls(frames, {"dtor", "gcdtor"}, n)
        /\ Calls(frames, {"free"}, n) \subseteq Calls(frames', {"free"}, n)
    BY <1>5 DEF InRest, Calls
  <2> QED
    BY <2>1, <2>2, <1>2, <1>9
<1>12. FrameInv'
  <2> SUFFICES ASSUME NEW i \in DOMAIN frames', i \in DOMAIN frames, frames'[i] = frames[i]
               PROVE  LET f == frames'[i] IN
                      /\ f.kind \in {"dtor", "gcdtor", "last"} =>
                            dtor_called[f.obj] /\ state[f.obj] = "live" /\ ~free_called[f.obj]
                      /\ f.kind = "free" =>
                            /\ free_called[f.obj] /\ state[f.obj] = "live"
                            /\ \A j \in DOMAIN frames' : frames'[j].kind = "free" /\ frames'[j].obj = f.obj => i = j
                      /\ f.kind \notin {"del", "last", "gcfree"}
                      /\ f.kind \in {"del", "dtor", "last", "gcdtor"} => f.rest = {}
    BY <1>1, <1>5 DEF FrameInv
  <2>1. frames[i].kind \notin {"del", "last", "gcdtor", "gcfree", "gc"}
    BY <1>3
  <2>2. CASE frames[i].kind = "dtor"
    <3>1. dtor_called[frames[i].obj] /\ state[frames[i].obj] = "live" /\ ~free_called[frames[i].obj] /\ frames[i].rest = {}
      BY <2>2, <1>0 DEF FrameInv
    <3> QED
      BY <2>2, <3>1
  <2>3. CASE frames[i].kind = "free"
    <3>1. /\ free_called[frames[i].obj] /\ state[frames[i].obj] = "live"
          /\ \A j \in DOMAIN frames : frames[j].kind = "free" /\ frames[j].obj = frames[i].obj => i = j
      BY <2>3, <1>0 DEF FrameInv
    <3>2. \A j \in DOMAIN frames' : frames'[j].kind = "free" => j \in DOMAIN frames /\ frames'[j] = frames[j]
      BY <1>5
    <3> QED
      BY <2>3, <3>1, <3>2
  <2> QED
    BY <2>1, <2>2, <2>3
<1>13. ColorInv'
  <2> SUFFICES ASSUME NEW n \in Node
               PROVE  /\ Tag(n)' \in {"none", "root"} /\ phase' \in {"idle", "mark"} /\ idx' \in Nat
                      /\ phase' = "mark" => idx' = 1
                      /\ gc'.color[n] = IF Tag(n)' = "root" THEN "purple" ELSE "black"
                      /\ Buffered(gc', n) <=> Tag(n)' = "root"
                      /\ gc'.address[n] \in Nat
    BY DEF ColorInv, Tags, Buffered
  <2>1. gc'.address[n] \in Nat
    BY <1>2, Fields
  <2>2. Tag(n)' = "none" <=> ~Buffered(gc', n)
    <3>1. Buffered(gc', n) => TagIn(gc', n) \in {"root", "garbage", "dtor"}
      BY <1>2, SlotIs
    <3> QED
      BY <3>1 DEF Tag, TagIn
  <2>3. Tag(n) \in {"none", "root"} /\ gc.color[n] = IF Tag(n) \in {"root", "dtor"} THEN "purple" ELSE "black"
    BY <1>0 DEF ColorInv, Tags
  <2>4. phase' \in {"idle", "mark"} /\ idx' \in Nat /\ (phase' = "mark" => idx' = 1)
    BY <1>0, <1>1, <1>7 DEF Types
  <2> QED
    BY <2>1, <2>2, <2>3, <2>4, <1>2
<1>14. Painted("grey")' = {}
  <2>1. \A n \in Node : gc'.color[n] # "grey"
    BY <1>0, <1>2 DEF ColorInv
  <2> QED
    BY <2>1 DEF Painted
<1>15. CountInv'
  <2> SUFFICES ASSUME NEW n \in Node PROVE gc'.refcount[n] = Counted(n)'
    BY DEF CountInv
  <2>1. gc.refcount[n] = Refs(var, out, {}, frames, n) /\ gc.refcount[n] \in Nat
    BY <1>0, Untaken
  <2>2. Taken' = {}
    BY <1>0, <1>1, <1>14 DEF Taken
  <2>3. Counted(n)' = Refs(var, out, {}, frames', n)
    BY <2>2, <1>1 DEF Counted, Refs, Holders
  <2>4. Refs(var, out, {}, frames', n) = Refs(var, out, {}, frames, n)
    <3>1. CASE frames' = Append(frames, e)
      <4> HIDE DEF e
      <4>1. Refs(var, out, {}, Append(frames, e), n) = Refs(var, out, {}, frames, n) + Weight(e, n)
        BY <1>0, <1>4, RefsPush
      <4>2. Weight(e, n) = 0
        BY <1>4 DEF Weight
      <4> QED
        BY <3>1, <4>1, <4>2, <2>1
    <3> QED
      BY <3>1, <1>1
  <2> QED
    BY <2>1, <2>3, <2>4, <1>2
<1>16. FoundInv'
  <2>1. Outside \subseteq Outside'
    BY <1>1, <1>10 DEF Outside
  <2>2. Roots \subseteq Roots'
    BY <1>2 DEF Roots
  <2>3. UNCHANGED <<state, out>>
    BY <1>1
  <2> QED
    BY <2>1, <2>2, <2>3, <1>0, FoundKeeps
<1>17. MarkInv'
  BY <1>0, <1>1, <1>14 DEF MarkInv
<1>18. ScanInv' /\ CollectInv' /\ GarbageInv' /\ AllInv'
  <2>1. phase' \in {"idle", "mark"}
    BY <1>0, <1>1
  <2> QED
    BY <2>1 DEF ScanInv, CollectInv, GarbageInv, AllInv
<1> QED
  BY <1>2, <1>6, <1>7, <1>8, <1>11, <1>12, <1>13, <1>15, <1>16, <1>17, <1>18 DEF Inv

-----------------------------------------------------------------------------
(* The program runs outside of the traversals, and during a run that is    *)
(* destroying it runs only when destructors were called.                   *)
LEMMA Calm ==
    ASSUME Inv, Program
    PROVE  /\ phase \in {"idle", "call", "destroy"} /\ todo = {} /\ black = {} /\ NoLast(frames)
           /\ phase = "destroy" => rerun # "no"
<1>0. /\ Types /\ StackOK(frames, phase) /\ StackRest /\ AllInv /\ frames \in Seq(Frame)
  BY DEF Inv, Types
<1>1. frames = <<>> => ~HasGc(frames) /\ DOMAIN frames = {}
  BY <1>0, StackIs DEF HasGc
<1>2. frames # <<>> => Len(frames) \in DOMAIN frames /\ DOMAIN frames = 1..Len(frames) /\ Len(frames) \in Nat
  BY <1>0, StackIs
<1>3. frames # <<>> => frames[Len(frames)].kind \in {"dtor", "gcdtor"}
  BY DEF Program, Running, Top
<1>4. phase \notin {"mark", "scan", "collect", "nested"}
  <2>1. CASE frames = <<>>
    BY <2>1, <1>0, <1>1 DEF StackOK
  <2>2. CASE frames # <<>>
    <3>1. ~Running("gc")
      BY <2>2, <1>3 DEF Running, Top
    <3> QED
      BY <3>1, <1>0 DEF StackRest
  <2> QED
    BY <2>1, <2>2
<1>5. phase \in {"idle", "call", "destroy"}
  BY <1>0, <1>4 DEF Types, Phases
<1>6. todo = {} /\ black = {}
  BY <1>0, <1>5 DEF StackRest
<1>7. NoLast(frames)
  <2>1. \A i \in DOMAIN frames : frames[i].kind \in {"del", "last"} => i = Len(frames)
    BY <1>0 DEF StackOK
  <2> QED
    BY <2>1, <1>1, <1>3 DEF NoLast
<1>8. ASSUME phase = "destroy", rerun = "no" PROVE FALSE
  <2>1. PICK j \in DOMAIN frames : frames[j].kind = "gc"
    BY <1>8, <1>0 DEF StackOK, HasGc
  <2>2. frames # <<>>
    BY <2>1, <1>1
  <2>3. j < Len(frames)
    <3>1. j \in 1..Len(frames) /\ j # Len(frames)
      BY <2>1, <2>2, <1>2, <1>3
    <3> QED
      BY <3>1, <2>2, <1>2
  <2>4. Above(Len(frames)) /\ Calling(Len(frames))
    BY <2>1, <2>2, <2>3, <1>3 DEF Above, Calling
  <2> QED
    BY <2>2, <2>4, <1>2, <1>3, <1>8, <1>0 DEF AllInv
<1> QED
  BY <1>5, <1>6, <1>7, <1>8

(* What the program can get at is there, and it is not garbage.            *)
LEMMA VisibleUsable ==
    ASSUME Inv
    PROVE  /\ \A n \in Visible : n \in Node /\ state[n] = "live" /\ ~free_called[n]
           /\ phase \in {"call", "destroy"} => \A n \in Visible : Tag(n) # "garbage"
<1> DEFINE V == {n \in Node : var[n]} \cup This
           C == {n \in Node : state[n] = "live" /\ ~free_called[n] /\ (phase \in {"call", "destroy"} => Tag(n) # "garbage")}
<1>0. /\ Types /\ HeapInv /\ FrameInv /\ GarbageInv /\ frames \in Seq(Frame)
      /\ state \in [Node -> {"none", "live", "null"}] /\ out \in [Node -> SUBSET Node]
  BY DEF Inv, Types
<1>1. \A n \in Node : phase \in {"call", "destroy"} /\ Tag(n) = "garbage" =>
          /\ ~var[n] /\ \A i \in DOMAIN frames : Mentions(i, n) => frames[i].kind \notin {"dtor", "gcdtor"}
          /\ \A m \in Node : n \in out[m] => Tag(m) = "garbage"
  BY <1>0 DEF GarbageInv, OfTag
<1>2. \A n \in Node : var[n] => n \in C
  <2> SUFFICES ASSUME NEW n \in Node, var[n] PROVE n \in C
    OBVIOUS
  <2>1. state[n] # "none" /\ (free_called[n] => state[n] # "live") /\ (state[n] = "null" => phase = "destroy" /\ Tag(n) = "garbage")
    BY <1>0 DEF HeapInv
  <2>2. phase \in {"call", "destroy"} => Tag(n) # "garbage"
    BY <1>1
  <2>3. state[n] = "live"
    BY <2>1, <2>2, <1>0
  <2> QED
    BY <2>1, <2>2, <2>3
<1>3. \A n \in This : n \in C
  <2> SUFFICES ASSUME NEW i \in DOMAIN frames, frames[i].kind \in {"dtor", "gcdtor"} PROVE frames[i].obj \in C
    BY DEF This
  <2>1. frames[i].obj \in Node
    BY <1>0, StackIs, FrameIs
  <2>2. state[frames[i].obj] = "live" /\ ~free_called[frames[i].obj]
    BY <1>0 DEF FrameInv
  <2>3. Mentions(i, frames[i].obj)
    BY DEF Mentions, Calling
  <2> QED
    BY <2>1, <2>2, <2>3, <1>1
<1>4. Closed(C)
  <2> SUFFICES ASSUME NEW m \in C, NEW n \in out[m] PROVE n \in C
    BY DEF Closed
  <2>1. m \in Node /\ n \in Node
    BY <1>0
  <2>2. state[n] # "none" /\ (free_called[n] => state[n] # "live") /\ (state[n] = "null" => phase = "destroy" /\ Tag(n) = "garbage")
    BY <2>1, <1>0 DEF HeapInv
  <2>3. phase \in {"call", "destroy"} => Tag(n) # "garbage"
    BY <2>1, <1>1
  <2>4. state[n] = "live"
    BY <2>1, <2>2, <2>3, <1>0
  <2> QED
    BY <2>1, <2>2, <2>3, <2>4
<1>5. V \subseteq C /\ C \in SUBSET Node
  BY <1>2, <1>3
<1>6. Visible = Reach(V)
  BY DEF Visible
<1> HIDE DEF V
<1>7. \A n \in Visible : n \in C
  <2> HIDE DEF C
  <2> QED
    BY <1>4, <1>5, <1>6 DEF Reach
<1> QED
  BY <1>7

(* A reference to n comes.                                                 *)
LEMMA GrabStep ==
    ASSUME Inv, Program, NEW n \in Node, ~free_called[n], state[n] \in {"none", "live"}, Tag(n) # "garbage",
           state[n] = "none" => var'[n],
           state' \in [Node -> {"none", "live", "null"}], state'[n] = "live",
           \A k \in Node : k # n => state'[k] = state[k],
           var' \in [Node -> BOOLEAN], \A k \in Node : (var[k] => var'[k]) /\ (var'[k] => var[k] \/ k = n),
           out' \in [Node -> SUBSET Node],
           \A k \in Node : \A j \in out[k] : j \in out'[k],
           \A k \in Node : \A j \in out'[k] : j \in out[k] \/ j = n,
           \A k \in Node : out'[k] = out[k] \/ (state[k] = "live" /\ ~free_called[k]),
           gc' = Addref(gc, n), \A T : T = {} => \A k \in Node : Refs(var', out', T, frames, k) = Refs(var, out, T, frames, k) + IF k = n THEN 1 ELSE 0,
           UNCHANGED <<dtor_called, free_called, frames, phase, idx, end, todo, black, has_dtors, rerun>>
    PROVE  Inv'
<1>0. /\ Types /\ StackOK(frames, phase) /\ StackRest /\ Wired(gc) /\ HeapInv /\ FrameInv /\ ColorInv /\ CountInv /\ FoundInv
      /\ GarbageInv /\ AllInv
      /\ gc \in Headers /\ frames \in Seq(Frame) /\ idx \in Nat
      /\ var \in [Node -> BOOLEAN] /\ out \in [Node -> SUBSET Node] /\ state \in [Node -> {"none", "live", "null"}]
  BY DEF Inv, Types
<1>1. /\ phase \in {"idle", "call", "destroy"} /\ todo = {} /\ black = {} /\ NoLast(frames)
      /\ phase = "destroy" => rerun # "no"
  BY Calm
<1>2. /\ gc' \in Headers /\ Wired(gc') /\ gc'.color = gc.color /\ gc'.address = gc.address /\ gc'.buf = gc.buf
      /\ \A k \in Node : gc'.refcount[k] = IF k = n THEN gc.refcount[k] + 1 ELSE gc.refcount[k]
      /\ \A k : Tag(k)' = Tag(k) /\ (Buffered(gc', k) <=> Buffered(gc, k))
  <2> DEFINE q == Addref(gc, n)
  <2>1. gc \in Headers /\ n \in Node /\ Wired(gc)
    BY <1>0
  <2>2. /\ q \in Headers
        /\ \A m \in Node : q.refcount[m] = IF m = n THEN gc.refcount[m] + 1 ELSE gc.refcount[m]
        /\ q.color = gc.color /\ q.address = gc.address /\ q.buf = gc.buf /\ q.unused = gc.unused
    BY <2>1, AddrefIs
  <2>3. gc' = q
    OBVIOUS
  <2> HIDE DEF q
  <2>4. Wired(gc') /\ \A m : TagIn(gc', m) = TagIn(gc, m) /\ (Buffered(gc', m) <=> Buffered(gc, m))
    BY <2>1, <2>2, <2>3, SameBuffer
  <2> QED
    BY <2>2, <2>3, <2>4 DEF Tag
<1>3. \A i, k : /\ Mentions(i, k)' <=> Mentions(i, k)
                /\ Above(i)' <=> Above(i)
                /\ Calling(i)' <=> Calling(i)
  BY DEF Mentions, Above, Calling
<1>4. Types'
  BY <1>0, <1>2 DEF Types
<1>5. StackOK(frames, phase)' /\ StackRest'
  <2>1. StackOK(frames, phase)'
    BY <1>0
  <2>2. StackRest'
    BY <1>0, <1>1, <1>2 DEF StackRest
  <2> QED
    BY <2>1, <2>2
<1>6. HeapInv'
  <2> SUFFICES ASSUME NEW k \in Node
               PROVE  /\ state'[k] = "none" =>
                            /\ ~var'[k] /\ out'[k] = {} /\ ~dtor_called[k] /\ ~free_called[k]
                            /\ ~Buffered(gc', k) /\ gc'.color[k] = "black"
                            /\ \A m \in Node : k \notin out'[m]
                            /\ \A i \in DOMAIN frames : ~Mentions(i, k)
                      /\ free_called[k] => out'[k] = {} /\ (k \in Destructor => dtor_called[k])
                      /\ free_called[k] /\ state'[k] = "live" =>
                            /\ ~var'[k]
                            /\ \A m \in Node : k \notin out'[m]
                            /\ InRest(frames, k) = {} /\ Calls(frames, {"dtor", "gcdtor"}, k) = {}
                            /\ Calls(frames, {"free"}, k) # {}
                      /\ state'[k] = "null" => phase = "destroy" /\ free_called[k] /\ Tag(k)' = "garbage"
    BY <1>3 DEF HeapInv
  <2>1. /\ state[k] = "none" =>
              /\ ~var[k] /\ out[k] = {} /\ ~dtor_called[k] /\ ~free_called[k]
              /\ ~Buffered(gc, k) /\ gc.color[k] = "black"
              /\ \A m \in Node : k \notin out[m]
              /\ \A i \in DOMAIN frames : ~Mentions(i, k)
        /\ free_called[k] => out[k] = {} /\ (k \in Destructor => dtor_called[k])
        /\ free_called[k] /\ state[k] = "live" =>
              /\ ~var[k]
              /\ \A m \in Node : k \notin out[m]
              /\ InRest(frames, k) = {} /\ Calls(frames, {"dtor", "gcdtor"}, k) = {}
              /\ Calls(frames, {"free"}, k) # {}
        /\ state[k] = "null" => phase = "destroy" /\ free_called[k] /\ Tag(k) = "garbage"
    BY <1>0 DEF HeapInv
  <2>2. CASE k = n
    BY <2>2, <2>1
  <2>3. CASE k # n
    <3>1. state'[k] = state[k] /\ (var'[k] => var[k]) /\ \A m \in Node : k \in out'[m] => k \in out[m]
      BY <2>3
    <3>2. out'[k] = out[k] \/ (state[k] = "live" /\ ~free_called[k])
      OBVIOUS
    <3> QED
      BY <2>1, <3>1, <3>2, <1>2
  <2> QED
    BY <2>2, <2>3
<1>7. FrameInv'
  <2> SUFFICES ASSUME NEW i \in DOMAIN frames
               PROVE  LET f == frames[i] IN
                      /\ f.kind = "del" => state'[f.obj] = "live" /\ ~free_called[f.obj] /\ gc'.refcount[f.obj] = 0
                      /\ f.kind \in {"dtor", "gcdtor", "last"} =>
                            dtor_called[f.obj] /\ state'[f.obj] = "live" /\ ~free_called[f.obj]
                      /\ f.kind = "last" => gc'.refcount[f.obj] = 0 \/ Buffered(gc', f.obj)
                      /\ f.kind = "free" =>
                            /\ free_called[f.obj] /\ state'[f.obj] = "live"
                            /\ \A j \in DOMAIN frames : frames[j].kind = "free" /\ frames[j].obj = f.obj => i = j
                      /\ f.kind = "gcfree" => free_called[f.obj] /\ state'[f.obj] = "null"
                      /\ f.kind \in {"del", "dtor", "last", "gcdtor"} => f.rest = {}
    BY DEF FrameInv
  <2>1. LET f == frames[i] IN
                      /\ f.kind \in {"dtor", "gcdtor", "last"} =>
                            dtor_called[f.obj] /\ state[f.obj] = "live" /\ ~free_called[f.obj]
                      /\ f.kind = "free" =>
                            /\ free_called[f.obj] /\ state[f.obj] = "live"
                            /\ \A j \in DOMAIN frames : frames[j].kind = "free" /\ frames[j].obj = f.obj => i = j
                      /\ f.kind = "gcfree" => free_called[f.obj] /\ state[f.obj] = "null"
                      /\ f.kind \in {"del", "dtor", "last", "gcdtor"} => f.rest = {}
    BY <1>0 DEF FrameInv
  <2>2. frames[i].kind \notin {"del", "last"}
    BY <1>1 DEF NoLast
  <2>3. frames[i].kind # "gc" => frames[i].obj \in Node
    BY <1>0, StackIs, FrameIs
  <2>4. \A k \in Node : state'[k] = IF k = n THEN "live" ELSE state[k]
    OBVIOUS
  <2> QED
    BY <2>1, <2>2, <2>3, <2>4
<1>8. ColorInv'
  <2>1. \A k \in Node : Tag(k) = "garbage" => k # n
    OBVIOUS
  <2> QED
    BY <2>1, <1>0, <1>1, <1>2 DEF ColorInv
<1>9. CountInv'
  <2> SUFFICES ASSUME NEW k \in Node PROVE gc'.refcount[k] = Counted(k)'
    BY DEF CountInv
  <2>1. gc.refcount[k] = Refs(var, out, {}, frames, k) /\ gc.refcount[k] \in Nat
    BY <1>0, <1>1, Untaken
  <2>2. Taken' = {}
    BY <1>1 DEF Taken
  <2>3. Counted(k)' = Refs(var', out', {}, frames, k)
    BY <2>2 DEF Counted, Refs, Holders
  <2>4. \A T : T = {} => Refs(var', out', T, frames, k) = Refs(var, out, T, frames, k) + IF k = n THEN 1 ELSE 0
    OBVIOUS
  <2> QED
    BY <2>1, <2>3, <2>4, <1>2
<1>10. FoundInv'
  <2> SUFFICES ASSUME NEW k \in Node, state'[k] # "none" PROVE (k \in Reach(Outside \cup Roots))'
    BY DEF FoundInv
  <2> DEFINE S == Outside \cup Roots
             U == Outside' \cup Roots'
  <2>1. \A m \in S : m \in U
    BY <1>2, <1>3 DEF Outside, Roots
  <2>2. CASE state[k] = "none"
    <3>1. k = n /\ var'[n]
      BY <2>2
    <3>2. k \in U
      BY <3>1 DEF Outside
    <3> HIDE DEF U
    <3>3. Leads(out', U, k)
      BY <3>2, LeadsBase
    <3> QED
      BY <3>3 DEF Reach, Closed, Leads, U
  <2>3. CASE state[k] # "none"
    <3>1. Leads(out, S, k)
      BY <2>3, ReachIs, <1>0 DEF FoundInv
    <3> HIDE DEF S, U
    <3>2. \A m \in S : Leads(out', U, m)
      BY <2>1, LeadsBase
    <3>3. \A m \in Node : \A j \in out[m] : j \in out'[m] \/ Leads(out', U, j)
      OBVIOUS
    <3>4. out' \in [Node -> SUBSET Node]
      OBVIOUS
    <3>5. Leads(out', U, k)
      BY ONLY <3>1, <3>2, <3>3, <3>4, <1>0, Unfounded
    <3> QED
      BY <3>5 DEF Reach, Closed, Leads, U
  <2> QED
    BY <2>2, <2>3
<1>11. GarbageInv'
  <2> SUFFICES ASSUME phase \in {"call", "destroy"}, NEW k \in Node, Tag(k) = "garbage"
               PROVE  /\ ~var'[k] /\ ~Undestructed(k)
                      /\ \A i \in DOMAIN frames : Mentions(i, k) =>
                            phase = "destroy" /\ Above(i) /\ frames[i].kind \notin {"dtor", "gcdtor"}
                      /\ \A m \in Node : k \in out'[m] => Tag(m) = "garbage"
    <3>1. \A k \in Node : (Undestructed(k)' <=> Undestructed(k))
      BY DEF Undestructed
    <3>2. OfTag("garbage")' = {k \in Node : Tag(k) = "garbage"}
      BY <1>2 DEF OfTag
    <3> QED
      BY <3>1, <3>2, <1>1, <1>2, <1>3 DEF GarbageInv
  <2>1. k # n
    OBVIOUS
  <2>2. k \in OfTag("garbage")
    BY DEF OfTag
  <2>3. /\ ~var[k] /\ ~Undestructed(k)
        /\ \A i \in DOMAIN frames : Mentions(i, k) =>
              phase = "destroy" /\ Above(i) /\ frames[i].kind \notin {"dtor", "gcdtor"}
        /\ \A m \in Node : k \in out[m] => Tag(m) = "garbage"
    BY <2>2, <1>0 DEF GarbageInv
  <2> QED
    BY <2>1, <2>3
<1>12. AllInv'
  BY <1>0, <1>1 DEF AllInv
<1>13. MarkInv' /\ ScanInv' /\ CollectInv'
  BY <1>1 DEF MarkInv, ScanInv, CollectInv
<1> QED
  BY <1>2, <1>4, <1>5, <1>6, <1>7, <1>8, <1>9, <1>10, <1>11, <1>12, <1>13 DEF Inv

-----------------------------------------------------------------------------
(* The program makes an object.                                            *)
LEMMA NewKeeps == ASSUME Inv, Program, NEW n \in Node, New(n) PROVE Inv'
<1>0. /\ Types /\ HeapInv /\ frames \in Seq(Frame)
      /\ var \in [Node -> BOOLEAN] /\ out \in [Node -> SUBSET Node] /\ state \in [Node -> {"none", "live", "null"}]
  BY DEF Inv, Types
<1>1. /\ state[n] = "none"
      /\ state' \in [Node -> {"none", "live", "null"}] /\ state'[n] = "live" /\ \A k \in Node : k # n => state'[k] = state[k]
      /\ var' \in [Node -> BOOLEAN] /\ var'[n] /\ \A k \in Node : k # n => var'[k] = var[k]
      /\ gc' = Addref(gc, n)
      /\ UNCHANGED <<out, dtor_called, free_called, frames, phase, idx, end, todo, black, has_dtors, rerun>>
  BY <1>0 DEF New, run
<1>2. ~free_called[n] /\ Tag(n) = "none" /\ ~var[n]
  BY <1>0, <1>1 DEF HeapInv, Tag, TagIn
<1>3. \A T : T = {} => \A k \in Node : Refs(var', out', T, frames, k) = Refs(var, out, T, frames, k) + IF k = n THEN 1 ELSE 0
  <2> SUFFICES ASSUME NEW T, NEW k \in Node
               PROVE  Refs(var', out', T, frames, k) = Refs(var, out, T, frames, k) + IF k = n THEN 1 ELSE 0
    OBVIOUS
  <2>1. Refs(var', out, T, frames, k) = Refs(var, out, T, frames, k) + IF k = n THEN 1 ELSE 0
    BY ONLY <1>0, <1>1, <1>2, k \in Node, n \in Node, RefsVar
  <2> QED
    BY <2>1, <1>1
<1>4. /\ state[n] \in {"none", "live"} /\ Tag(n) # "garbage" /\ (state[n] = "none" => var'[n])
      /\ \A k \in Node : (var[k] => var'[k]) /\ (var'[k] => var[k] \/ k = n)
      /\ out' \in [Node -> SUBSET Node]
      /\ \A k \in Node : \A j \in out[k] : j \in out'[k]
      /\ \A k \in Node : \A j \in out'[k] : j \in out[k] \/ j = n
      /\ \A k \in Node : out'[k] = out[k] \/ (state[k] = "live" /\ ~free_called[k])
  BY <1>0, <1>1, <1>2
<1> QED
  BY ONLY Inv, Program, n \in Node, <1>1, <1>2, <1>3, <1>4, GrabStep

(* The program stores an object it can get at in a variable.               *)
LEMMA FetchKeeps == ASSUME Inv, Program, NEW n \in Visible, Fetch(n) PROVE Inv'
<1>0. /\ Types /\ HeapInv /\ frames \in Seq(Frame) /\ ColorInv
      /\ var \in [Node -> BOOLEAN] /\ out \in [Node -> SUBSET Node] /\ state \in [Node -> {"none", "live", "null"}]
  BY DEF Inv, Types
<1>1. n \in Node /\ state[n] = "live" /\ ~free_called[n]
  BY VisibleUsable
<1>2. Tag(n) # "garbage"
  <2>1. phase \in {"call", "destroy"} => Tag(n) # "garbage"
    BY VisibleUsable
  <2>2. phase = "idle" => Tag(n) # "garbage"
    BY <1>0, <1>1 DEF ColorInv, Tags
  <2> QED
    BY <2>1, <2>2, Calm
<1>3. /\ ~var[n]
      /\ var' \in [Node -> BOOLEAN] /\ var'[n] /\ \A k \in Node : k # n => var'[k] = var[k]
      /\ gc' = Addref(gc, n)
      /\ UNCHANGED <<state, out, dtor_called, free_called, frames, phase, idx, end, todo, black, has_dtors, rerun>>
  BY <1>0, <1>1 DEF Fetch, run
<1>4. \A T : T = {} => \A k \in Node : Refs(var', out', T, frames, k) = Refs(var, out, T, frames, k) + IF k = n THEN 1 ELSE 0
  <2> SUFFICES ASSUME NEW T, NEW k \in Node
               PROVE  Refs(var', out', T, frames, k) = Refs(var, out, T, frames, k) + IF k = n THEN 1 ELSE 0
    OBVIOUS
  <2>1. Refs(var', out, T, frames, k) = Refs(var, out, T, frames, k) + IF k = n THEN 1 ELSE 0
    BY ONLY <1>0, <1>1, <1>3, k \in Node, RefsVar
  <2> QED
    BY <2>1, <1>3
<1>5. /\ state[n] \in {"none", "live"} /\ (state[n] = "none" => var'[n])
      /\ state' \in [Node -> {"none", "live", "null"}] /\ state'[n] = "live" /\ \A k \in Node : k # n => state'[k] = state[k]
      /\ \A k \in Node : (var[k] => var'[k]) /\ (var'[k] => var[k] \/ k = n)
      /\ out' \in [Node -> SUBSET Node]
      /\ \A k \in Node : \A j \in out[k] : j \in out'[k]
      /\ \A k \in Node : \A j \in out'[k] : j \in out[k] \/ j = n
      /\ \A k \in Node : out'[k] = out[k] \/ (state[k] = "live" /\ ~free_called[k])
  BY <1>0, <1>1, <1>3
<1> QED
  BY ONLY Inv, Program, <1>1, <1>2, <1>3, <1>4, <1>5, GrabStep

(* The program stores an object it can get at in a property.               *)
LEMMA AssignKeeps == ASSUME Inv, Program, NEW m \in Visible, NEW n \in Visible, Assign(m, n) PROVE Inv'
<1>0. /\ Types /\ HeapInv /\ frames \in Seq(Frame) /\ ColorInv
      /\ var \in [Node -> BOOLEAN] /\ out \in [Node -> SUBSET Node] /\ state \in [Node -> {"none", "live", "null"}]
  BY DEF Inv, Types
<1>1. /\ n \in Node /\ state[n] = "live" /\ ~free_called[n]
      /\ m \in Node /\ state[m] = "live" /\ ~free_called[m]
  BY VisibleUsable
<1>2. Tag(n) # "garbage"
  <2>1. phase \in {"call", "destroy"} => Tag(n) # "garbage"
    BY VisibleUsable
  <2>2. phase = "idle" => Tag(n) # "garbage"
    BY <1>0, <1>1 DEF ColorInv, Tags
  <2> QED
    BY <2>1, <2>2, Calm
<1>3. /\ n \notin out[m] /\ out' = [out EXCEPT ![m] = @ \cup {n}]
      /\ gc' = Addref(gc, n)
      /\ UNCHANGED <<state, var, dtor_called, free_called, frames, phase, idx, end, todo, black, has_dtors, rerun>>
  BY DEF Assign, run
<1>4. /\ out' \in [Node -> SUBSET Node] /\ out'[m] = out[m] \cup {n} /\ \A k \in Node : k # m => out'[k] = out[k]
  BY <1>0, <1>1, <1>3
<1>5. \A T : T = {} => \A k \in Node : Refs(var', out', T, frames, k) = Refs(var, out, T, frames, k) + IF k = n THEN 1 ELSE 0
  <2> SUFFICES ASSUME NEW T, T = {}, NEW k \in Node
               PROVE  Refs(var', out', T, frames, k) = Refs(var, out, T, frames, k) + IF k = n THEN 1 ELSE 0
    OBVIOUS
  <2>1. m \notin T /\ n \notin out[m]
    BY <1>3
  <2>2. Refs(var, out', T, frames, k) = Refs(var, out, T, frames, k) + IF k = n THEN 1 ELSE 0
    <3>1. /\ var \in [Node -> BOOLEAN] /\ out \in [Node -> SUBSET Node] /\ out' \in [Node -> SUBSET Node]
          /\ frames \in Seq(Frame) /\ m \in Node /\ k \in Node
          /\ out[m] \subseteq out'[m] /\ \A i \in Node : i # m => out'[i] = out[i]
      BY <1>0, <1>1, <1>4
    <3>2. Refs(var, out', T, frames, k) = Refs(var, out, T, frames, k) + IF k \in out'[m] /\ k \notin out[m] THEN 1 ELSE 0
      BY ONLY <3>1, <2>1, RefsEdge
    <3>3. k \in out'[m] /\ k \notin out[m] <=> k = n
      BY <2>1, <1>4
    <3> QED
      BY <3>2, <3>3
  <2> QED
    BY <2>2, <1>3
<1>6. /\ state[n] \in {"none", "live"} /\ (state[n] = "none" => var'[n])
      /\ state' \in [Node -> {"none", "live", "null"}] /\ state'[n] = "live" /\ \A k \in Node : k # n => state'[k] = state[k]
      /\ var' \in [Node -> BOOLEAN]
      /\ \A k \in Node : (var[k] => var'[k]) /\ (var'[k] => var[k] \/ k = n)
      /\ \A k \in Node : \A j \in out[k] : j \in out'[k]
      /\ \A k \in Node : \A j \in out'[k] : j \in out[k] \/ j = n
      /\ \A k \in Node : out'[k] = out[k] \/ (state[k] = "live" /\ ~free_called[k])
  <2> USE <1>0, <1>1
  <2>1. \A k \in Node : \A j \in out'[k] : j \in out[k] \/ j = n
    BY <1>4
  <2>2. \A k \in Node : \A j \in out[k] : j \in out'[k]
    BY <1>4
  <2>3. \A k \in Node : out'[k] = out[k] \/ (state[k] = "live" /\ ~free_called[k])
    BY <1>4
  <2> QED
    BY <2>1, <2>2, <2>3, <1>3
<1>7. /\ gc' = Addref(gc, n) /\ out' \in [Node -> SUBSET Node]
      /\ UNCHANGED <<dtor_called, free_called, frames, phase, idx, end, todo, black, has_dtors, rerun>>
  BY <1>3, <1>4
<1> QED
  BY ONLY Inv, Program, <1>1, <1>2, <1>5, <1>6, <1>7, GrabStep

-----------------------------------------------------------------------------
(* A reference to n goes, and with it perhaps n: var, out and the calls F  *)
(* have one reference to n less than before, and are the same otherwise.   *)
LEMMA ReleaseStep ==
    ASSUME Inv, phase \in {"idle", "call", "destroy"},
           NEW n \in Node, state[n] # "none", free_called[n] => state[n] = "null",
           Tag(n) = "garbage" => phase \in {"idle", "destroy"},
           NEW F \in Seq(Frame), DOMAIN F = DOMAIN frames, NoLast(F), StackOK(F, phase),
           \A i \in DOMAIN frames : /\ F[i].kind = frames[i].kind
                                    /\ frames[i].kind # "gc" => /\ F[i].obj = frames[i].obj
                                                                /\ \A k \in F[i].rest : k \in frames[i].rest
                                                                /\ \A k \in frames[i].rest : k \in F[i].rest \/ k = n,
           var' \in [Node -> BOOLEAN], \A k \in Node : (var'[k] => var[k]) /\ (var[k] => var'[k] \/ k = n),
           out' \in [Node -> SUBSET Node],
           \A k \in Node : \A j \in out'[k] : j \in out[k],
           \A k \in Node : \A j \in out[k] : j \in out'[k] \/ j = n,
           \A T : T = {} => \A k \in Node : Refs(var, out, T, frames, k) = Refs(var', out', T, F, k) + IF k = n THEN 1 ELSE 0,
           Release(n, F), AllInv',
           UNCHANGED <<state, dtor_called, free_called, phase, idx, end, todo, black, has_dtors, rerun>>
    PROVE  Inv'
<1> DEFINE d == Call("del", n, {})
<1>0. /\ Types /\ StackRest /\ Wired(gc) /\ HeapInv /\ FrameInv /\ ColorInv /\ CountInv /\ FoundInv
      /\ GarbageInv /\ StackOK(frames, phase)
      /\ gc \in Headers /\ frames \in Seq(Frame) /\ idx \in Nat /\ end \in Nat
      /\ var \in [Node -> BOOLEAN] /\ out \in [Node -> SUBSET Node] /\ state \in [Node -> {"none", "live", "null"}]
  BY DEF Inv, Types
<1>1. todo = {} /\ black = {}
  BY <1>0 DEF StackRest
<1>2. d \in Frame /\ d.kind = "del" /\ d.obj = n /\ d.rest = {}
  BY CallIs
<1> HIDE DEF d
<1>3. \/ /\ gc.refcount[n] = 1 /\ state[n] = "live" /\ gc' = Delref(gc, n) /\ frames' = Append(F, d)
      \/ gc' = PossibleRoot(Delref(gc, n), n) /\ frames' = F
  BY <1>0 DEF Release, d
<1>4. /\ gc' \in Headers /\ Wired(gc') /\ Len(gc'.buf) >= Len(gc.buf) /\ Len(gc.buf) \in Nat /\ Len(gc'.buf) \in Nat
      /\ \A k \in Node : gc'.refcount[k] = IF k = n THEN gc.refcount[k] - 1 ELSE gc.refcount[k]
      /\ \A k \in Node : k # n => /\ gc'.address[k] = gc.address[k] /\ Tag(k)' = Tag(k)
                                  /\ gc'.color[k] = gc.color[k]
                                  /\ (Buffered(gc', k) <=> Buffered(gc, k))
      /\ \/ /\ gc'.address[n] = gc.address[n] /\ Tag(n)' = Tag(n) /\ gc'.color[n] = gc.color[n]
            /\ frames' = F => Buffered(gc, n) \/ gc.color[n] # "black"
         \/ ~Buffered(gc, n) /\ Buffered(gc', n) /\ Tag(n)' = "root" /\ gc'.color[n] = "purple"
  <2> DEFINE q == Delref(gc, n)
             r == PossibleRoot(q, n)
  <2>0. gc \in Headers /\ n \in Node /\ Wired(gc)
    BY <1>0
  <2>1. /\ q \in Headers
        /\ \A m \in Node : q.refcount[m] = IF m = n THEN gc.refcount[m] - 1 ELSE gc.refcount[m]
        /\ q.color = gc.color /\ q.address = gc.address /\ q.buf = gc.buf /\ q.unused = gc.unused
    BY <2>0, DelrefIs
  <2> HIDE DEF q
  <2>2. Wired(q) /\ \A m : TagIn(q, m) = TagIn(gc, m) /\ (Buffered(q, m) <=> Buffered(gc, m))
    BY <2>0, <2>1, SameBuffer
  <2>3. /\ r \in Headers /\ Wired(r)
        /\ r.refcount = q.refcount /\ Len(r.buf) >= Len(q.buf)
        /\ \A m \in Node \ {n} : /\ r.address[m] = q.address[m] /\ TagIn(r, m) = TagIn(q, m)
                                /\ r.color[m] = q.color[m]
        /\ IF Buffered(q, n) \/ q.color[n] # "black" THEN r = q
           ELSE Buffered(r, n) /\ TagIn(r, n) = "root" /\ r.color[n] = "purple"
    BY <2>0, <2>1, <2>2, PossibleRootIs
  <2> HIDE DEF r
  <2>4. Len(gc.buf) \in Nat /\ Len(gc'.buf) \in Nat
    <3>1. gc' \in Headers
      BY <1>3, <2>1, <2>3 DEF q, r
    <3> QED
      BY <3>1, <2>0, Fields
  <2>5. CASE gc' = q /\ frames' = Append(F, d)
    <3>1. frames' # F
      <4>1. Append(F, d) # F
        BY <1>2, PushIs
      <4> QED
        BY <4>1, <2>5
    <3> QED
      BY <2>1, <2>2, <2>4, <2>5, <3>1 DEF Tag, Buffered
  <2>6. CASE gc' = r
    <3>1. \A k \in Node : k # n => (Buffered(r, k) <=> Buffered(gc, k))
      BY <2>1, <2>3 DEF Buffered
    <3>2. CASE Buffered(gc, n) \/ gc.color[n] # "black"
      <4>1. r = q
        BY <2>1, <2>2, <2>3, <3>2
      <4> QED
        BY <2>1, <2>2, <2>4, <2>6, <3>2, <4>1 DEF Tag, Buffered
    <3>3. CASE ~(Buffered(gc, n) \/ gc.color[n] # "black")
      <4>1. Buffered(r, n) /\ TagIn(r, n) = "root" /\ r.color[n] = "purple"
        BY <2>1, <2>2, <2>3, <3>3
      <4> QED
        BY <2>1, <2>2, <2>3, <2>4, <2>6, <3>1, <3>3, <4>1 DEF Tag
    <3> QED
      BY <3>2, <3>3
  <2> QED
    BY <1>3, <2>5, <2>6 DEF q, r
<1>5. /\ frames' \in Seq(Frame)
      /\ \A i \in DOMAIN frames : i \in DOMAIN frames' /\ frames'[i] = F[i] /\ (Above(i)' <=> Above(i))
      /\ \A i \in DOMAIN frames' : i \in DOMAIN frames \/ (/\ frames'[i] = d /\ state[n] = "live" /\ gc.refcount[n] = 1
                                                          /\ (Above(i)' <=> HasGc(frames)))
      /\ StackOK(frames', phase)
      /\ frames' = F \/ \E i \in DOMAIN frames' : frames'[i] = d
  <2>0. \A i \in DOMAIN frames : Abv(F, i) <=> Abv(frames, i)
    BY DEF Abv
  <2>1. HasGc(F) <=> HasGc(frames)
    BY DEF HasGc
  <2>2. CASE gc.refcount[n] = 1 /\ state[n] = "live" /\ frames' = Append(F, d)
    <3> DEFINE G == Append(F, d)
    <3>1. /\ G \in Seq(Frame)
          /\ Len(G) \in DOMAIN G
          /\ \A i \in DOMAIN G : i \in DOMAIN F \/ i = Len(G)
          /\ \A i \in DOMAIN F : i \in DOMAIN G /\ G[i] = F[i] /\ i < Len(G)
          /\ G[Len(G)] = d
          /\ \A i \in DOMAIN F : Abv(G, i) <=> Abv(F, i)
          /\ Abv(G, Len(G)) <=> HasGc(F)
      BY <1>2, Pushed
    <3>2. StackOK(G, phase)
      BY <1>2, StackPush
    <3>3. frames' = G
      BY <2>2
    <3> HIDE DEF G
    <3>4. \A i : Above(i)' <=> Abv(G, i)
      BY <3>3 DEF Above, Abv
    <3>5. \A i : Above(i) <=> Abv(frames, i)
      BY MentionsAre
    <3> QED
      BY <3>1, <3>2, <3>3, <3>4, <3>5, <2>0, <2>1, <2>2
  <2>3. CASE frames' = F
    <3>1. \A i : (Above(i)' <=> Abv(F, i)) /\ (Above(i) <=> Abv(frames, i))
      BY <2>3 DEF Above, Abv
    <3> QED
      BY <2>0, <2>3, <3>1
  <2> QED
    BY <1>3, <2>2, <2>3
<1>6. /\ \A i \in DOMAIN frames : \A k : Mentions(i, k)' => Mentions(i, k)
      /\ \A i \in DOMAIN frames : \A k : Mentions(i, k) => Mentions(i, k)' \/ k = n
  BY <1>5 DEF Mentions, Calling
<1>7. \A i \in DOMAIN frames' : \A k : Mentions(i, k)' => (i \in DOMAIN frames /\ Mentions(i, k)) \/ (k = n /\ i \notin DOMAIN frames)
  <2>1. \A i \in DOMAIN frames' : i \notin DOMAIN frames => frames'[i] = d
    BY <1>5
  <2>2. \A i \in DOMAIN frames' : i \notin DOMAIN frames => \A k : Mentions(i, k)' => k = n
    BY <2>1, <1>2 DEF Mentions, Calling
  <2> QED
    BY <2>2, <1>6
<1>8. Types'
  BY <1>0, <1>4, <1>5 DEF Types
<1>9. StackOK(frames, phase)' /\ StackRest'
  <2>1. StackOK(frames, phase)'
    BY <1>5
  <2>2. StackRest'
    BY <1>0, <1>1, <1>4 DEF StackRest
  <2> QED
    BY <2>1, <2>2
<1>10. HeapInv'
  <2> SUFFICES ASSUME NEW k \in Node
               PROVE  /\ state[k] = "none" =>
                            /\ ~var'[k] /\ out'[k] = {} /\ ~dtor_called[k] /\ ~free_called[k]
                            /\ ~Buffered(gc', k) /\ gc'.color[k] = "black"
                            /\ \A m \in Node : k \notin out'[m]
                            /\ \A i \in DOMAIN frames' : ~Mentions(i, k)'
                      /\ free_called[k] => out'[k] = {} /\ (k \in Destructor => dtor_called[k])
                      /\ free_called[k] /\ state[k] = "live" =>
                            /\ ~var'[k]
                            /\ \A m \in Node : k \notin out'[m]
                            /\ InRest(frames', k) = {} /\ Calls(frames', {"dtor", "gcdtor"}, k) = {}
                            /\ Calls(frames', {"free"}, k) # {}
                      /\ state[k] = "null" => phase = "destroy" /\ free_called[k] /\ Tag(k)' = "garbage"
    BY DEF HeapInv
  <2>1. /\ state[k] = "none" =>
              /\ ~var[k] /\ out[k] = {} /\ ~dtor_called[k] /\ ~free_called[k]
              /\ ~Buffered(gc, k) /\ gc.color[k] = "black"
              /\ \A m \in Node : k \notin out[m]
              /\ \A i \in DOMAIN frames : ~Mentions(i, k)
        /\ free_called[k] => out[k] = {} /\ (k \in Destructor => dtor_called[k])
        /\ free_called[k] /\ state[k] = "live" =>
              /\ ~var[k]
              /\ \A m \in Node : k \notin out[m]
              /\ InRest(frames, k) = {} /\ Calls(frames, {"dtor", "gcdtor"}, k) = {}
              /\ Calls(frames, {"free"}, k) # {}
        /\ state[k] = "null" => phase = "destroy" /\ free_called[k] /\ Tag(k) = "garbage"
    BY <1>0 DEF HeapInv
  <2>2. \A m \in Node : k \in out'[m] => k \in out[m]
    OBVIOUS
  <2>3. out[k] = {} => out'[k] = {}
    OBVIOUS
  <2>4. /\ InRest(frames', k) \subseteq InRest(frames, k)
        /\ Calls(frames', {"dtor", "gcdtor"}, k) \subseteq Calls(frames, {"dtor", "gcdtor"}, k)
        /\ Calls(frames, {"free"}, k) \subseteq Calls(frames', {"free"}, k)
    <3>1. \A i \in DOMAIN frames' : i \notin DOMAIN frames => frames'[i].kind = "del" /\ frames'[i].rest = {}
      BY <1>2, <1>5
    <3> QED
      BY <3>1, <1>5 DEF InRest, Calls
  <2>5. state[k] = "none" =>
            /\ ~var'[k] /\ out'[k] = {} /\ ~dtor_called[k] /\ ~free_called[k]
            /\ ~Buffered(gc', k) /\ gc'.color[k] = "black"
            /\ \A m \in Node : k \notin out'[m]
            /\ \A i \in DOMAIN frames' : ~Mentions(i, k)'
    <3> HAVE state[k] = "none"
    <3>1. k # n
      OBVIOUS
    <3>2. \A i \in DOMAIN frames' : ~Mentions(i, k)'
      BY <3>1, <2>1, <1>7
    <3> QED
      BY <3>1, <3>2, <2>1, <2>2, <2>3, <1>4
  <2>6. free_called[k] /\ state[k] = "live" =>
            /\ ~var'[k]
            /\ \A m \in Node : k \notin out'[m]
            /\ InRest(frames', k) = {} /\ Calls(frames', {"dtor", "gcdtor"}, k) = {}
            /\ Calls(frames', {"free"}, k) # {}
    BY <2>1, <2>2, <2>4
  <2>7. state[k] = "null" => phase = "destroy" /\ free_called[k] /\ Tag(k)' = "garbage"
    <3> HAVE state[k] = "null"
    <3>1. Tag(k) = "garbage"
      BY <2>1
    <3>2. Buffered(gc, k)
      BY <3>1 DEF Tag, TagIn
    <3>3. Tag(k)' = Tag(k)
      BY <3>2, <1>4
    <3> QED
      BY <3>1, <3>3, <2>1
  <2> QED
    BY <2>1, <2>3, <2>5, <2>6, <2>7
<1>11. FrameInv'
  <2> SUFFICES ASSUME NEW i \in DOMAIN frames'
               PROVE  LET f == frames'[i] IN
                      /\ f.kind = "del" => state[f.obj] = "live" /\ ~free_called[f.obj] /\ gc'.refcount[f.obj] = 0
                      /\ f.kind \in {"dtor", "gcdtor", "last"} =>
                            dtor_called[f.obj] /\ state[f.obj] = "live" /\ ~free_called[f.obj]
                      /\ f.kind # "last"
                      /\ f.kind = "free" =>
                            /\ free_called[f.obj] /\ state[f.obj] = "live"
                            /\ \A j \in DOMAIN frames' : frames'[j].kind = "free" /\ frames'[j].obj = f.obj => i = j
                      /\ f.kind = "gcfree" => free_called[f.obj] /\ state[f.obj] = "null"
                      /\ f.kind \in {"del", "dtor", "last", "gcdtor"} => f.rest = {}
    BY DEF FrameInv
  <2>1. CASE i \in DOMAIN frames
    <3>1. /\ frames'[i] = F[i] /\ F[i].kind = frames[i].kind /\ F[i].kind \notin {"del", "last"}
          /\ frames[i].kind # "gc" => F[i].obj = frames[i].obj /\ \A k \in F[i].rest : k \in frames[i].rest
      BY <2>1, <1>5 DEF NoLast
    <3>2. LET f == frames[i] IN
          /\ f.kind \in {"dtor", "gcdtor", "last"} =>
                dtor_called[f.obj] /\ state[f.obj] = "live" /\ ~free_called[f.obj]
          /\ f.kind = "free" =>
                /\ free_called[f.obj] /\ state[f.obj] = "live"
                /\ \A j \in DOMAIN frames : frames[j].kind = "free" /\ frames[j].obj = f.obj => i = j
          /\ f.kind = "gcfree" => free_called[f.obj] /\ state[f.obj] = "null"
          /\ f.kind \in {"del", "dtor", "last", "gcdtor"} => f.rest = {}
      BY <2>1, <1>0 DEF FrameInv
    <3>3. \A j \in DOMAIN frames' : frames'[j].kind = "free" =>
              j \in DOMAIN frames /\ frames[j].kind = "free" /\ frames'[j].obj = frames[j].obj
      <4>1. \A j \in DOMAIN frames' : j \notin DOMAIN frames => frames'[j].kind = "del"
        BY <1>2, <1>5
      <4> QED
        BY <4>1, <1>5
    <3>4. frames[i].kind \in {"dtor", "gcdtor"} => F[i].rest = {}
      <4>1. F[i] \in Frame
        BY <2>1, StackIs
      <4> QED
        BY <4>1, <3>1, <3>2, FrameIs
    <3> QED
      BY <3>1, <3>2, <3>3, <3>4
  <2>2. CASE i \notin DOMAIN frames
    <3>1. frames'[i] = d /\ state[n] = "live" /\ gc.refcount[n] = 1
      BY <2>2, <1>5
    <3>2. gc'.refcount[n] = 0 /\ ~free_called[n]
      BY <3>1, <1>4
    <3> QED
      BY <3>1, <3>2, <1>2
  <2> QED
    BY <2>1, <2>2
<1>12. ColorInv'
  <2> SUFFICES ASSUME NEW k \in Node
               PROVE  /\ Tag(k)' \in Tags(phase)
                      /\ gc'.color[k] = IF Tag(k)' \in {"root", "dtor"} THEN "purple" ELSE "black"
                      /\ phase # "idle" /\ Tag(k)' \in {"garbage", "dtor"} => gc'.address[k] <= end
                      /\ Tag(k)' = "dtor" => k \in Destructor
                      /\ phase = "call" /\ Tag(k)' = "dtor" => gc'.address[k] >= idx
                      /\ phase = "destroy" /\ Tag(k)' = "garbage" /\ gc'.address[k] < idx => state[k] = "null"
    BY DEF ColorInv
  <2>1. /\ Tag(k) \in Tags(phase)
        /\ gc.color[k] = IF Tag(k) \in {"root", "dtor"} THEN "purple" ELSE "black"
        /\ phase # "idle" /\ Tag(k) \in {"garbage", "dtor"} => gc.address[k] <= end
        /\ Tag(k) = "dtor" => k \in Destructor
        /\ phase = "call" /\ Tag(k) = "dtor" => gc.address[k] >= idx
        /\ phase = "destroy" /\ Tag(k) = "garbage" /\ gc.address[k] < idx => state[k] = "null"
    BY <1>0 DEF ColorInv
  <2>2. CASE Tag(k)' = Tag(k) /\ gc'.color[k] = gc.color[k] /\ gc'.address[k] = gc.address[k]
    BY <2>1, <2>2
  <2>3. CASE Tag(k)' = "root" /\ gc'.color[k] = "purple"
    BY <2>3 DEF Tags
  <2> QED
    BY <2>2, <2>3, <1>4
<1>13. CountInv'
  <2> SUFFICES ASSUME NEW k \in Node PROVE gc'.refcount[k] = Counted(k)'
    BY DEF CountInv
  <2>1. gc.refcount[k] = Refs(var, out, {}, frames, k) /\ gc.refcount[k] \in Nat
    BY <1>0, Untaken
  <2>2. Taken' = {}
    BY DEF Taken
  <2>3. Counted(k)' = Refs(var', out', {}, frames', k)
    BY <2>2 DEF Counted, Refs, Holders
  <2>4. \A T : T = {} => Refs(var, out, T, frames, k) = Refs(var', out', T, F, k) + IF k = n THEN 1 ELSE 0
    OBVIOUS
  <2>5. \A T : Refs(var', out', T, F, k) \in Nat /\ Refs(var', out', T, frames', k) = Refs(var', out', T, F, k)
    <3> SUFFICES ASSUME NEW T
                 PROVE  Refs(var', out', T, F, k) \in Nat /\ Refs(var', out', T, frames', k) = Refs(var', out', T, F, k)
      OBVIOUS
    <3>0. var' \in [Node -> BOOLEAN] /\ out' \in [Node -> SUBSET Node]
      OBVIOUS
    <3>1. Refs(var', out', T, F, k) \in Nat
      BY <3>0, RefsNat
    <3>2. Refs(var', out', T, Append(F, d), k) = Refs(var', out', T, F, k) + Weight(d, k)
      BY <3>0, <1>2, RefsPush
    <3>3. Weight(d, k) = 0
      BY <1>2 DEF Weight
    <3>4. CASE frames' = F
      BY <3>1, <3>4
    <3>5. CASE frames' = Append(F, d)
      <4>1. Refs(var', out', T, Append(F, d), k) = Refs(var', out', T, F, k)
        BY <3>1, <3>2, <3>3
      <4> QED
        BY <3>1, <3>5, <4>1
    <3> QED
      BY <3>4, <3>5, <1>3
  <2> QED
    BY <2>1, <2>3, <2>4, <2>5, <1>4
<1>14. FoundInv'
  <2> SUFFICES ASSUME NEW k \in Node, state[k] # "none" PROVE (k \in Reach(Outside \cup Roots))'
    BY DEF FoundInv
  <2> DEFINE S == Outside \cup Roots
             U == Outside' \cup Roots'
  <2>1. Leads(out, S, k)
    BY ReachIs, <1>0 DEF FoundInv
  <2>2. n \in U
    <3>1. CASE frames' = F
      <4>1. Buffered(gc', n)
        <5>1. gc.color[n] # "black" => Buffered(gc, n)
          BY <1>0 DEF ColorInv, Tag, TagIn
        <5>2. gc'.address[n] = gc.address[n] => (Buffered(gc', n) <=> Buffered(gc, n))
          BY DEF Buffered
        <5> QED
          BY <3>1, <5>1, <5>2, <1>4
      <4> QED
        BY <4>1 DEF Roots
    <3>2. CASE \E i \in DOMAIN frames' : frames'[i] = d
      <4>1. PICK i \in DOMAIN frames' : frames'[i] = d
        BY <3>2
      <4>2. Mentions(i, n)'
        BY <4>1, <1>2 DEF Mentions, Calling
      <4> QED
        BY <4>2 DEF Outside
    <3> QED
      BY <3>1, <3>2, <1>5
  <2>3. \A m \in S : m \in U
    <3> SUFFICES ASSUME NEW m \in S, m # n PROVE m \in U
      BY <2>2
    <3>1. CASE m \in Roots
      BY <3>1, <1>4 DEF Roots
    <3>2. CASE m \in Outside
      <4>1. var[m] => var'[m]
        BY <3>2 DEF Outside
      <4>2. \A i \in DOMAIN frames : Mentions(i, m) => i \in DOMAIN frames' /\ Mentions(i, m)'
        BY <1>5, <1>6
      <4> QED
        BY <3>2, <4>1, <4>2 DEF Outside
    <3> QED
      BY <3>1, <3>2
  <2> HIDE DEF S, U
  <2>4. \A m \in S : Leads(out', U, m)
    BY <2>3, LeadsBase
  <2>5. \A m \in Node : \A j \in out[m] : j \in out'[m] \/ Leads(out', U, j)
    BY <2>2, LeadsBase
  <2>6. Leads(out', U, k)
    <3>1. out' \in [Node -> SUBSET Node]
      OBVIOUS
    <3> QED
      BY ONLY <2>1, <2>4, <2>5, <3>1, <1>0, Unfounded
  <2> QED
    BY <2>6 DEF Reach, Closed, Leads, U
<1>15. GarbageInv'
  <2> SUFFICES ASSUME phase \in {"call", "destroy"}, NEW k \in Node, Tag(k)' = "garbage"
               PROVE  /\ ~var'[k] /\ ~Undestructed(k)
                      /\ \A i \in DOMAIN frames' : Mentions(i, k)' =>
                            phase = "destroy" /\ Above(i)' /\ frames'[i].kind \notin {"dtor", "gcdtor"}
                      /\ \A m \in Node : k \in out'[m] => Tag(m)' = "garbage"
    <3>1. \A j \in Node : (Undestructed(j)' <=> Undestructed(j))
      BY DEF Undestructed
    <3>2. OfTag("garbage")' = {j \in Node : Tag(j)' = "garbage"}
      BY DEF OfTag
    <3> QED
      BY <3>1, <3>2 DEF GarbageInv
  <2>1. \A j \in Node : Tag(j)' = "garbage" <=> Tag(j) = "garbage"
    <3> SUFFICES ASSUME NEW j \in Node PROVE Tag(j)' = "garbage" <=> Tag(j) = "garbage"
      OBVIOUS
    <3>1. Tag(j) = "garbage" => Buffered(gc, j)
      BY DEF Tag, TagIn
    <3> QED
      BY <3>1, <1>4
  <2>2. k \in OfTag("garbage")
    BY <2>1 DEF OfTag
  <2>3. /\ ~var[k] /\ ~Undestructed(k)
        /\ \A i \in DOMAIN frames : Mentions(i, k) =>
              phase = "destroy" /\ Above(i) /\ frames[i].kind \notin {"dtor", "gcdtor"}
        /\ \A m \in Node : k \in out[m] => Tag(m) = "garbage"
    BY <2>2, <1>0 DEF GarbageInv
  <2>4. ASSUME NEW i \in DOMAIN frames', Mentions(i, k)'
        PROVE  phase = "destroy" /\ Above(i)' /\ frames'[i].kind \notin {"dtor", "gcdtor"}
    <3>1. CASE i \in DOMAIN frames
      BY <3>1, <2>3, <2>4, <1>5, <1>6
    <3>2. CASE i \notin DOMAIN frames
      <4>1. k = n /\ frames'[i] = d /\ (Above(i)' <=> HasGc(frames))
        BY <3>2, <2>4, <1>5, <1>7
      <4>2. phase = "destroy"
        BY <4>1, <2>1
      <4>3. HasGc(frames)
        BY <4>2, <1>0 DEF StackOK
      <4> QED
        BY <4>1, <4>2, <4>3, <1>2
    <3> QED
      BY <3>1, <3>2
  <2> QED
    BY <2>1, <2>3, <2>4
<1>16. MarkInv' /\ ScanInv' /\ CollectInv'
  BY DEF MarkInv, ScanInv, CollectInv
<1> QED
  BY <1>4, <1>8, <1>9, <1>10, <1>11, <1>12, <1>13, <1>14, <1>15, <1>16 DEF Inv

-----------------------------------------------------------------------------
(* A run without destructors is not interrupted by the program.            *)
LEMMA AllProgram == ASSUME Inv, Program, UNCHANGED <<phase, rerun>> PROVE AllInv'
  BY Calm DEF Inv, AllInv

(* What a variable of the program or a property leads to can be released.  *)
LEMMA Releasable ==
    ASSUME Inv, Program, NEW n \in Visible
    PROVE  /\ phase \in {"idle", "call", "destroy"} /\ NoLast(frames) /\ StackOK(frames, phase) /\ frames \in Seq(Frame)
           /\ n \in Node /\ state[n] # "none" /\ (free_called[n] => state[n] = "null")
           /\ Tag(n) = "garbage" => phase \in {"idle", "destroy"}
           /\ \A i \in DOMAIN frames : \A k \in frames[i].rest : k \in frames[i].rest \/ k = n
  BY VisibleUsable, Calm DEF Inv, Types

(* The program unsets a variable.                                          *)
LEMMA UnsetKeeps == ASSUME Inv, Program, NEW n \in Node, Unset(n) PROVE Inv'
<1>0. var \in [Node -> BOOLEAN] /\ out \in [Node -> SUBSET Node] /\ frames \in Seq(Frame)
  BY DEF Inv, Types
<1>1. /\ var[n] /\ Release(n, frames)
      /\ var' \in [Node -> BOOLEAN] /\ ~var'[n] /\ \A k \in Node : k # n => var'[k] = var[k]
      /\ UNCHANGED <<state, out, dtor_called, free_called, phase, idx, end, todo, black, has_dtors, rerun>>
  BY <1>0 DEF Unset, run
<1>2. n \in Visible
  BY <1>1 DEF Visible, Reach
<1>3. AllInv'
  BY <1>1, AllProgram
<1>4. \A T : T = {} => \A k \in Node : Refs(var, out, T, frames, k) = Refs(var', out', T, frames, k) + IF k = n THEN 1 ELSE 0
  <2> SUFFICES ASSUME NEW T, NEW k \in Node
               PROVE  Refs(var, out, T, frames, k) = Refs(var', out', T, frames, k) + IF k = n THEN 1 ELSE 0
    OBVIOUS
  <2>1. Refs(var, out, T, frames, k) = Refs(var', out, T, frames, k) + IF k = n THEN 1 ELSE 0
    <3>1. \A i \in Node : i # n => var[i] = var'[i]
      BY <1>1
    <3> QED
      BY ONLY <1>0, <1>1, <3>1, k \in Node, n \in Node, RefsVar
  <2> QED
    BY <2>1, <1>1
<1>5. /\ \A k \in Node : (var'[k] => var[k]) /\ (var[k] => var'[k] \/ k = n)
      /\ out' \in [Node -> SUBSET Node]
      /\ \A k \in Node : \A j \in out'[k] : j \in out[k]
      /\ \A k \in Node : \A j \in out[k] : j \in out'[k] \/ j = n
  BY <1>0, <1>1
<1>6. /\ phase \in {"idle", "call", "destroy"} /\ NoLast(frames) /\ StackOK(frames, phase) /\ frames \in Seq(Frame)
      /\ n \in Node /\ state[n] # "none" /\ (free_called[n] => state[n] = "null")
      /\ Tag(n) = "garbage" => phase \in {"idle", "destroy"}
      /\ \A i \in DOMAIN frames : \A k \in frames[i].rest : k \in frames[i].rest \/ k = n
  BY <1>2, Releasable
<1> QED
  BY ONLY Inv, <1>1, <1>3, <1>4, <1>5, <1>6, ReleaseStep

(* The program unsets a property.                                          *)
LEMMA UnsetPropertyKeeps == ASSUME Inv, Program, NEW m \in Visible, NEW n \in Visible, UnsetProperty(m, n) PROVE Inv'
<1>0. /\ var \in [Node -> BOOLEAN] /\ out \in [Node -> SUBSET Node] /\ frames \in Seq(Frame)
      /\ m \in Node /\ n \in Node
  BY VisibleUsable DEF Inv, Types
<1>1. /\ n \in out[m] /\ Release(n, frames)
      /\ out' = [out EXCEPT ![m] = @ \ {n}]
      /\ UNCHANGED <<state, var, dtor_called, free_called, phase, idx, end, todo, black, has_dtors, rerun>>
  BY DEF UnsetProperty, run
<1>2. /\ out' \in [Node -> SUBSET Node] /\ out'[m] = out[m] \ {n} /\ \A k \in Node : k # m => out[k] = out'[k]
  BY <1>0, <1>1
<1>3. AllInv'
  BY <1>1, AllProgram
<1>4. \A T : T = {} => \A k \in Node : Refs(var, out, T, frames, k) = Refs(var', out', T, frames, k) + IF k = n THEN 1 ELSE 0
  <2> SUFFICES ASSUME NEW T, T = {}, NEW k \in Node
               PROVE  Refs(var, out, T, frames, k) = Refs(var', out', T, frames, k) + IF k = n THEN 1 ELSE 0
    OBVIOUS
  <2>1. m \notin T
    OBVIOUS
  <2>2. /\ var \in [Node -> BOOLEAN] /\ out \in [Node -> SUBSET Node] /\ out' \in [Node -> SUBSET Node]
        /\ frames \in Seq(Frame) /\ m \in Node /\ k \in Node
        /\ out'[m] \subseteq out[m] /\ \A i \in Node : i # m => out[i] = out'[i]
    BY <1>0, <1>2
  <2>3. Refs(var, out, T, frames, k) = Refs(var, out', T, frames, k) + IF k \in out[m] /\ k \notin out'[m] THEN 1 ELSE 0
    BY ONLY <2>1, <2>2, RefsEdge
  <2>4. k \in out[m] /\ k \notin out'[m] <=> k = n
    BY <1>1, <1>2
  <2> QED
    BY <2>3, <2>4, <1>1
<1>5. /\ var' \in [Node -> BOOLEAN] /\ \A k \in Node : (var'[k] => var[k]) /\ (var[k] => var'[k] \/ k = n)
      /\ out' \in [Node -> SUBSET Node]
      /\ \A k \in Node : \A j \in out'[k] : j \in out[k]
      /\ \A k \in Node : \A j \in out[k] : j \in out'[k] \/ j = n
  <2>1. \A k \in Node : (\A j \in out'[k] : j \in out[k]) /\ (\A j \in out[k] : j \in out'[k] \/ j = n)
    BY <1>2
  <2> QED
    BY <2>1, <1>0, <1>1, <1>2
<1>6. /\ phase \in {"idle", "call", "destroy"} /\ NoLast(frames) /\ StackOK(frames, phase) /\ frames \in Seq(Frame)
      /\ n \in Node /\ state[n] # "none" /\ (free_called[n] => state[n] = "null")
      /\ Tag(n) = "garbage" => phase \in {"idle", "destroy"}
      /\ \A i \in DOMAIN frames : \A k \in frames[i].rest : k \in frames[i].rest \/ k = n
  BY Releasable
<1>7. /\ Release(n, frames)
      /\ UNCHANGED <<state, dtor_called, free_called, phase, idx, end, todo, black, has_dtors, rerun>>
  BY <1>1
<1> QED
  BY ONLY Inv, <1>3, <1>4, <1>5, <1>6, <1>7, ReleaseStep

(* All that the program does.                                              *)
LEMMA ScriptKeeps == ASSUME Inv, Script PROVE Inv'
<1>1. Program
  BY DEF Script
<1>2. \A n \in Visible : n \in Node
  BY VisibleUsable
<1>3. CASE \E n \in Node : New(n) \/ Unset(n)
  BY <1>1, <1>3, NewKeeps, UnsetKeeps
<1>4. CASE \E n \in Visible : Fetch(n)
  BY <1>1, <1>4, FetchKeeps
<1>5. CASE \E m, n \in Visible : Assign(m, n) \/ UnsetProperty(m, n)
  BY <1>1, <1>5, AssignKeeps, UnsetPropertyKeeps
<1> QED
  BY <1>3, <1>4, <1>5 DEF Script
-----------------------------------------------------------------------------
(* A property of an object that is being destroyed.                        *)
LEMMA GarbageStays ==
    ASSUME Types, Wired(gc), NEW n \in Node, NEW F, Release(n, F)
    PROVE  \A k \in Node : Tag(k) = "garbage" => Tag(k)' = "garbage"
<1> DEFINE q == Delref(gc, n)
           r == PossibleRoot(q, n)
<1>0. gc \in Headers /\ n \in Node /\ Wired(gc)
  BY DEF Types
<1>1. /\ q \in Headers /\ q.address = gc.address /\ q.buf = gc.buf /\ q.unused = gc.unused
  BY <1>0, DelrefIs
<1>2. gc' = q \/ gc' = r
  BY DEF Release
<1> HIDE DEF q
<1>3. Wired(q) /\ \A m : TagIn(q, m) = TagIn(gc, m) /\ (Buffered(q, m) <=> Buffered(gc, m))
  BY <1>0, <1>1, SameBuffer
<1>4. /\ \A m \in Node \ {n} : TagIn(r, m) = TagIn(q, m)
      /\ Buffered(q, n) => r = q
  BY <1>0, <1>1, <1>3, PossibleRootIs
<1> HIDE DEF r
<1> SUFFICES ASSUME NEW k \in Node, TagIn(gc, k) = "garbage" PROVE TagIn(gc', k) = "garbage"
  BY DEF Tag
<1>5. Buffered(gc, k)
  BY DEF TagIn
<1> QED
  BY <1>2, <1>3, <1>4, <1>5

(* When the last reference to an object is gone, nothing refers to it.     *)
LEMMA NoneLeft ==
    ASSUME NEW v \in [Node -> BOOLEAN], NEW o \in [Node -> SUBSET Node], NEW F \in Seq(Frame), NEW n \in Node,
           Refs(v, o, {}, F, n) = 0
    PROVE  ~v[n] /\ (\A m \in Node : n \notin o[m]) /\ \A i \in DOMAIN F : Weight(F[i], n) = 0
<1> DEFINE A == {m \in Node : n \in o[m]} \ {}
<1>1. A \in SUBSET Node /\ (A = {} => \A m \in Node : n \notin o[m])
  OBVIOUS
<1> HIDE DEF A
<1>2. Cardinality(A) \in Nat /\ (Cardinality(A) = 0 => A = {})
  BY <1>1, NodesIs
<1>3. Held(F, n) \in Nat /\ (Held(F, n) = 0 => \A i \in DOMAIN F : Weight(F[i], n) = 0)
  BY HeldZero
<1>4. (IF v[n] THEN 1 ELSE 0) + Cardinality(A) + Held(F, n) = 0
  BY DEF Refs, A
<1>5. ~v[n] /\ Cardinality(A) = 0 /\ Held(F, n) = 0
  BY <1>2, <1>3, <1>4
<1> QED
  BY <1>1, <1>2, <1>3, <1>5

(* zend_object_std_dtor() releases one property.                           *)
LEMMA DestroyPropertyKeeps == ASSUME Inv, NEW n \in Node, DestroyProperty(n) PROVE Inv'
<1> DEFINE L == Len(frames)
           t == frames[L]
           f == [t EXCEPT !.rest = t.rest \ {n}]
           F == [frames EXCEPT ![L] = f]
           d == Call("del", n, {})
<1>0. /\ Types /\ StackRest /\ Wired(gc) /\ HeapInv /\ FrameInv /\ ColorInv /\ CountInv /\ GarbageInv /\ AllInv
      /\ StackOK(frames, phase)
      /\ frames \in Seq(Frame) /\ gc \in Headers /\ phase \in Phases
      /\ var \in [Node -> BOOLEAN] /\ out \in [Node -> SUBSET Node] /\ state \in [Node -> {"none", "live", "null"}]
  BY DEF Inv, Types
<1>1. /\ frames # <<>> /\ t.kind \in {"free", "gcfree"} /\ n \in t.rest /\ Release(n, F)
      /\ UNCHANGED <<state, out, var, dtor_called, free_called, phase, idx, end, todo, black, has_dtors, rerun>>
  BY DEF DestroyProperty, Running, Top, Becomes, heap, run
<1>2. t \in Frame /\ L \in DOMAIN frames /\ t.obj \in Node /\ t.rest \in SUBSET Node
  BY <1>0, <1>1, StackIs, FrameIs
<1>3. /\ t.kind \in {"free", "gcfree"}
      /\ f \in Frame /\ f.kind = t.kind /\ f.obj = t.obj /\ f.rest = t.rest \ {n}
  <2> HIDE DEF t
  <2>1. t.kind # "gc" => t \in [kind : {"del", "dtor", "last", "free", "gcdtor", "gcfree"}, obj : Node, rest : SUBSET Node]
    BY <1>2 DEF Frame
  <2> QED
    BY <2>1, <1>1 DEF Frame
<1> HIDE DEF f, t
<1>4. /\ F \in Seq(Frame) /\ DOMAIN F = DOMAIN frames /\ F[L] = f /\ Len(F) = L
      /\ \A i \in DOMAIN frames : i # L => F[i] = frames[i]
  BY <1>0, <1>1, <1>3, Turned
<1>5. \A T : T = {} => \A k \in Node : Refs(var, out, T, frames, k) = Refs(var, out, T, F, k) + IF k = n THEN 1 ELSE 0
  <2> SUFFICES ASSUME NEW T, NEW k \in Node
               PROVE  Refs(var, out, T, frames, k) = Refs(var, out, T, F, k) + IF k = n THEN 1 ELSE 0
    OBVIOUS
  <2>1. /\ Refs(var, out, T, frames, k) = Refs(var, out, T, Front(frames), k) + Weight(t, k)
        /\ Refs(var, out, T, F, k) = Refs(var, out, T, Front(frames), k) + Weight(f, k)
    BY <1>0, <1>1, <1>3, RefsTop DEF t
  <2>2. Weight(t, k) = Weight(f, k) + IF k = n THEN 1 ELSE 0
    BY <1>1, <1>3 DEF Weight
  <2>3. Weight(f, k) \in Nat /\ Refs(var, out, T, Front(frames), k) \in Nat
    <3>1. Front(frames) \in Seq(Frame)
      BY <1>0, <1>1, Popped
    <3> QED
      BY <3>1, <1>0, RefsNat, WeightIs
  <2> QED
    BY <2>1, <2>2, <2>3
<1> HIDE DEF F
<1>6. \A i \in DOMAIN frames : /\ F[i].kind = frames[i].kind
                               /\ frames[i].kind # "gc" => /\ F[i].obj = frames[i].obj
                                                           /\ \A k \in F[i].rest : k \in frames[i].rest
                                                           /\ \A k \in frames[i].rest : k \in F[i].rest \/ k = n
  <2> TAKE i \in DOMAIN frames
  <2>1. CASE i = L
    <3>1. F[i] = f /\ frames[i] = t
      BY <2>1, <1>4 DEF t
    <3> QED
      BY <3>1, <1>3
  <2>2. CASE i # L
    BY <2>2, <1>4
  <2> QED
    BY <2>1, <2>2
<1>7. phase \in {"idle", "call", "destroy"}
  <2>1. ~Running("gc")
    BY <1>1 DEF Running, Top, t
  <2> QED
    BY <2>1, <1>0 DEF StackRest, Phases
<1>8. NoLast(F)
  <2>1. \A i \in DOMAIN frames : frames[i].kind \in {"del", "last"} => i = L
    BY <1>0 DEF StackOK
  <2> QED
    BY <2>1, <1>1, <1>4, <1>6 DEF NoLast, t
<1>9. StackOK(F, phase)
  <2>1. \A i \in DOMAIN frames : i > 1 => i - 1 \in DOMAIN frames
    BY <1>0, StackIs
  <2> QED
    BY <2>1, <1>0, <1>4, <1>6 DEF StackOK, HasGc
<1>10. Mentions(L, n) /\ n \in t.rest /\ L \in InRest(frames, n)
  BY <1>1, <1>2 DEF Mentions, Calling, InRest, t
<1>11. /\ state[n] # "none" /\ (free_called[n] => state[n] = "null")
       /\ Tag(n) = "garbage" => phase \in {"idle", "destroy"}
  <2>1. state[n] # "none" /\ (free_called[n] => state[n] # "live")
    BY <1>0, <1>2, <1>10 DEF HeapInv
  <2>2. Tag(n) = "garbage" => phase # "call"
    <3>1. Tag(n) = "garbage" => n \in OfTag("garbage")
      BY DEF OfTag
    <3> QED
      BY <3>1, <1>0, <1>2, <1>10 DEF GarbageInv
  <2> QED
    BY <2>1, <2>2, <1>0, <1>7
<1>12. ASSUME phase = "destroy", rerun = "no" PROVE AllInv'
  <2>1. Above(L)
    <3>1. PICK j \in DOMAIN frames : frames[j].kind = "gc"
      BY <1>12, <1>0 DEF StackOK, HasGc
    <3>2. j # L /\ j \in 1..L /\ L \in Nat
      BY <3>1, <1>0, <1>1, StackIs DEF t
    <3> QED
      BY <3>1, <3>2 DEF Above
  <2>2. \A k \in Node : Tag(k) = "garbage" => Tag(k)' = "garbage"
    BY <1>0, <1>1, GarbageStays
  <2>3. d \in Frame /\ d.kind = "del" /\ d.obj = n /\ d.rest = {}
    BY CallIs
  <2> HIDE DEF d
  <2>4. \/ gc.refcount[n] = 1 /\ frames' = Append(F, d)
        \/ frames' = F
    BY <1>1 DEF Release, d
  <2>5. /\ \A i \in DOMAIN frames : i \in DOMAIN frames' /\ frames'[i] = F[i] /\ (Above(i)' <=> Above(i))
        /\ \A i \in DOMAIN frames' : i \in DOMAIN frames \/ (frames'[i] = d /\ gc.refcount[n] = 1 /\ Above(i)')
    <3>0. \A i \in DOMAIN frames : Abv(F, i) <=> Abv(frames, i)
      BY <1>4, <1>6 DEF Abv
    <3>1. HasGc(F)
      BY <1>9, <1>12 DEF StackOK
    <3>2. \A i : (Above(i)' <=> Abv(frames', i)) /\ (Above(i) <=> Abv(frames, i))
      BY DEF Above, Abv
    <3>3. CASE gc.refcount[n] = 1 /\ frames' = Append(F, d)
      <4> DEFINE G == Append(F, d)
      <4>1. /\ \A i \in DOMAIN G : i \in DOMAIN F \/ i = Len(G)
            /\ \A i \in DOMAIN F : i \in DOMAIN G /\ G[i] = F[i]
            /\ G[Len(G)] = d
            /\ \A i \in DOMAIN F : Abv(G, i) <=> Abv(F, i)
            /\ Abv(G, Len(G)) <=> HasGc(F)
        BY <1>4, <2>3, Pushed
      <4>2. frames' = G
        BY <3>3
      <4> HIDE DEF G
      <4> QED
        BY <4>1, <4>2, <3>0, <3>1, <3>2, <3>3, <1>4
    <3>4. CASE frames' = F
      BY <3>0, <3>2, <3>4, <1>4
    <3> QED
      BY <2>4, <3>3, <3>4
  <2>6. \A i \in DOMAIN frames : ~Above(i) => i # L /\ frames'[i] = frames[i]
    BY <2>1, <2>5, <1>4
  <2>7. InUse' = InUse
    <3>1. \A i \in DOMAIN frames' : ~Above(i)' => i \in DOMAIN frames /\ ~Above(i)
      BY <2>5
    <3>2. \A k : \A i \in DOMAIN frames : ~Above(i) => i \in DOMAIN frames' /\ ~Above(i)' /\ (Mentions(i, k)' <=> Mentions(i, k))
      BY <2>5, <2>6 DEF Mentions, Calling
    <3>3. \A k : (\E i \in DOMAIN frames' : Mentions(i, k)' /\ ~Above(i)') <=> \E i \in DOMAIN frames : Mentions(i, k) /\ ~Above(i)
      BY <3>1, <3>2
    <3> QED
      BY <3>3, <1>1 DEF InUse
  <2>8. \A k \in Node : state[k] # "none" => Tag(k)' = "garbage" \/ (k \in Reach(InUse))'
    <3>1. \A k : (k \in Reach(InUse))' <=> k \in Reach(InUse)
      BY <2>7, <1>1 DEF Reach, Closed
    <3> QED
      BY <3>1, <2>2, <1>0, <1>12 DEF AllInv
  <2>9. gc.refcount[n] = 1 => Tag(n) = "garbage"
    <3> SUFFICES ASSUME gc.refcount[n] = 1, Tag(n) # "garbage" PROVE FALSE
      OBVIOUS
    <3>1. n \in Reach(InUse)
      BY <1>0, <1>11, <1>12 DEF AllInv
    <3> DEFINE P == Front(frames)
    <3>2. /\ P \in Seq(Frame) /\ \A i \in DOMAIN frames : i # L => i \in DOMAIN P /\ P[i] = frames[i]
      BY <1>0, <1>1, Popped
    <3>3. Refs(var, out, {}, frames, n) = 1
      BY <1>0, <1>12, Untaken
    <3>4. Refs(var, out, {}, frames, n) = Refs(var, out, {}, P, n) + Weight(t, n)
      BY <1>0, <1>1, RefsTop DEF t
    <3> HIDE DEF P
    <3>5. Weight(t, n) >= 1 /\ Weight(t, n) \in Nat
      BY <1>1, <1>10, WeightIs DEF Weight
    <3>6. Refs(var, out, {}, P, n) = 0
      <4>1. Refs(var, out, {}, P, n) \in Nat
        BY <3>2, <1>0, RefsNat
      <4> QED
        BY <4>1, <3>3, <3>4, <3>5
    <3>7. ~var[n] /\ (\A m \in Node : n \notin out[m]) /\ \A i \in DOMAIN P : Weight(P[i], n) = 0
      <4>1. /\ var \in [Node -> BOOLEAN] /\ out \in [Node -> SUBSET Node] /\ P \in Seq(Frame) /\ n \in Node
            /\ Refs(var, out, {}, P, n) = 0
        BY <3>2, <3>6, <1>0
      <4> QED
        BY ONLY <4>1, NoneLeft
    <3>8. n \notin InUse
      <4> SUFFICES ASSUME NEW i \in DOMAIN frames, Mentions(i, n), ~Above(i) PROVE FALSE
        BY <3>7 DEF InUse
      <4>1. i # L
        BY <2>1
      <4>2. Weight(frames[i], n) = 0 /\ frames[i].kind # "gc"
        BY <4>1, <3>2, <3>7 DEF Mentions, Calling
      <4>3. frames[i].kind \notin {"del", "last"}
        BY <4>1, <1>0 DEF StackOK
      <4>4. frames[i].kind \in {"del", "dtor", "last", "free", "gcdtor", "gcfree", "gc"}
        BY <1>0, StackIs, FrameIs
      <4>5. n \notin frames[i].rest /\ frames[i].obj # n
        BY <4>2, <4>3, <4>4 DEF Weight
      <4> QED
        BY <4>5 DEF Mentions
    <3>9. InUse \subseteq Node \ {n} /\ Closed(Node \ {n})
      BY <3>7, <3>8, <1>0 DEF InUse, Closed
    <3> QED
      BY <3>1, <3>9 DEF Reach
  <2>10. ASSUME NEW i \in DOMAIN frames', Calling(i)', Above(i)'
         PROVE  (Tag(frames[i].obj) = "garbage" /\ frames[i].kind \in {"del", "last", "free", "gcfree"})'
    <3>1. CASE i \in DOMAIN frames
      <4>1. frames'[i] = F[i] /\ Above(i) /\ frames'[i].kind = frames[i].kind /\ Calling(i) /\ frames'[i].obj = frames[i].obj
        BY <2>5, <2>10, <3>1, <1>6 DEF Calling
      <4>2. Tag(frames[i].obj) = "garbage" /\ frames[i].kind \in {"del", "last", "free", "gcfree"}
        BY <3>1, <4>1, <1>0, <1>12 DEF AllInv
      <4>3. frames[i].obj \in Node
        BY <3>1, <4>2, <1>0, StackIs, FrameIs
      <4>4. \A k \in Node : k = frames[i].obj => Tag(k)' = "garbage"
        BY <4>2, <2>2
      <4>5. Tag(frames[i].obj)' = "garbage"
        <5>1. \A k : k = frames[i].obj => k = frames'[i].obj
          BY <4>1
        <5> QED
          BY <5>1, <4>3, <4>4 DEF Tag
      <4> QED
        BY <4>1, <4>2, <4>5
    <3>2. CASE i \notin DOMAIN frames
      <4>1. frames'[i] = d /\ gc.refcount[n] = 1
        BY <2>5, <2>10, <3>2
      <4>2. Tag(n)' = "garbage"
        BY <4>1, <2>2, <2>9
      <4> QED
        BY <4>1, <4>2, <2>3
    <3> QED
      BY <3>1, <3>2
  <2> QED
    BY <2>8, <2>10, <1>1, <1>12 DEF AllInv
<1>13. AllInv'
  BY <1>0, <1>1, <1>7, <1>12 DEF AllInv
<1>14. /\ var' \in [Node -> BOOLEAN] /\ \A k \in Node : (var'[k] => var[k]) /\ (var[k] => var'[k] \/ k = n)
       /\ out' \in [Node -> SUBSET Node]
       /\ \A k \in Node : \A j \in out'[k] : j \in out[k]
       /\ \A k \in Node : \A j \in out[k] : j \in out'[k] \/ j = n
       /\ \A T : T = {} => \A k \in Node : Refs(var, out, T, frames, k) = Refs(var', out', T, F, k) + IF k = n THEN 1 ELSE 0
       /\ UNCHANGED <<state, dtor_called, free_called, phase, idx, end, todo, black, has_dtors, rerun>>
  BY <1>0, <1>1, <1>5
<1>15. Release(n, F)
  BY <1>1
<1> QED
  BY ONLY Inv, n \in Node, <1>4, <1>6, <1>7, <1>8, <1>9, <1>11, <1>13, <1>14, <1>15, ReleaseStep

-----------------------------------------------------------------------------
(* The top of the stack is left, or becomes another call.                  *)
LEMMA TopChanges ==
    ASSUME Inv, frames # <<>>, Top.kind # "gc", NEW f \in Frame,
           frames' = Front(frames) \/ (frames' = Becomes(f) /\ f.kind \in {"dtor", "last", "free"})
    PROVE  /\ frames' \in Seq(Frame) /\ StackOK(frames', phase)
           /\ Len(frames) \in DOMAIN frames /\ Top \in Frame
           /\ \A i \in DOMAIN frames : i # Len(frames) =>
                 /\ i \in DOMAIN frames' /\ frames'[i] = frames[i] /\ frames[i].kind \notin {"del", "last"}
                 /\ Above(i)' <=> Above(i)
                 /\ \A k : Mentions(i, k)' <=> Mentions(i, k)
           /\ \A i \in DOMAIN frames' :
                 i \in DOMAIN frames /\ (i = Len(frames) => frames'[i] = f /\ frames' = Becomes(f) /\ (Above(i)' <=> Above(i)))
           /\ frames' = Becomes(f) => Len(frames) \in DOMAIN frames'
           /\ phase \in {"idle", "call", "destroy"} /\ todo = {} /\ black = {}
           /\ phase # "idle" => Above(Len(frames))
<1> DEFINE L == Len(frames)
           P == Front(frames)
           G == [frames EXCEPT ![L] = f]
<1>0. frames \in Seq(Frame) /\ StackOK(frames, phase) /\ StackRest /\ phase \in Phases
  BY DEF Inv, Types
<1>1. /\ P \in Seq(Frame) /\ Len(P) = L - 1 /\ L \in DOMAIN frames /\ L \in Nat
      /\ frames[L] \in Frame
      /\ DOMAIN P = DOMAIN frames \ {L}
      /\ \A i \in DOMAIN P : P[i] = frames[i]
      /\ \A i \in DOMAIN P : Abv(P, i) <=> Abv(frames, i)
  BY <1>0, Popped
<1>2. NoLast(P) /\ StackOK(P, phase)
  BY <1>0, StackPop DEF Top
<1>3. /\ G = Append(P, f)
      /\ G \in Seq(Frame) /\ DOMAIN G = DOMAIN frames /\ G[L] = f
      /\ \A i \in DOMAIN frames : i # L => G[i] = frames[i]
      /\ \A i \in DOMAIN frames : Abv(G, i) <=> Abv(frames, i)
  BY <1>0, Turned
<1>4. f.kind \in {"dtor", "last", "free"} => StackOK(Append(P, f), phase)
  BY <1>1, <1>2, StackPush
<1>5. frames' = P \/ (frames' = G /\ f.kind \in {"dtor", "last", "free"})
  BY DEF Becomes
<1>6. Becomes(f) = G
  BY DEF Becomes
<1> HIDE DEF P, G
<1>7. frames' \in Seq(Frame) /\ StackOK(frames', phase)
  BY <1>1, <1>2, <1>3, <1>4, <1>5
<1>8. \A i : (Above(i)' <=> Abv(frames', i)) /\ (Above(i) <=> Abv(frames, i))
  BY DEF Above, Abv
<1>9. \A i \in DOMAIN frames : i # L =>
         i \in DOMAIN frames' /\ frames'[i] = frames[i] /\ (Above(i)' <=> Above(i))
  <2>1. \A i \in DOMAIN frames : i # L => i \in DOMAIN P
    BY <1>1
  <2> QED
    BY <2>1, <1>1, <1>3, <1>5, <1>8
<1>10. \A i \in DOMAIN frames : i # L => frames[i].kind \notin {"del", "last"}
  BY <1>0 DEF StackOK
<1>11. \A i \in DOMAIN frames : i # L => \A k : Mentions(i, k)' <=> Mentions(i, k)
  BY <1>9 DEF Mentions, Calling
<1>12. L \notin DOMAIN P
  BY <1>1
<1>13. \A i \in DOMAIN frames' :
          i \in DOMAIN frames /\ (i = L => frames'[i] = f /\ frames' = G /\ (Above(i)' <=> Above(i)))
  BY <1>1, <1>3, <1>5, <1>8, <1>12
<1>14. phase \in {"idle", "call", "destroy"} /\ todo = {} /\ black = {}
  BY <1>0 DEF StackRest, Running, Phases
<1>15. phase # "idle" => Above(L)
  <2> HAVE phase # "idle"
  <2>1. PICK j \in DOMAIN frames : frames[j].kind = "gc"
    BY <1>0 DEF StackOK, HasGc
  <2>2. j # L /\ DOMAIN frames = 1..L /\ L \in Nat
    BY <1>0, <2>1, StackIs DEF Top
  <2> QED
    BY <2>1, <2>2 DEF Above
<1>16. frames' = G => L \in DOMAIN frames'
  BY <1>1, <1>3
<1> QED
  BY <1>1, <1>6, <1>7, <1>9, <1>10, <1>11, <1>13, <1>14, <1>15, <1>16 DEF Top

(* What it held goes, and what the new one holds comes.                    *)
LEMMA TopCount ==
    ASSUME Inv, frames # <<>>, phase \in {"idle", "call", "destroy"}, UNCHANGED <<var, out, phase>>, NEW f \in Frame,
           \/ frames' = Front(frames) /\ \A k \in Node : gc'.refcount[k] = gc.refcount[k] - Weight(Top, k)
           \/ frames' = Becomes(f) /\ \A k \in Node : gc'.refcount[k] = gc.refcount[k] - Weight(Top, k) + Weight(f, k)
    PROVE  CountInv'
<1> SUFFICES ASSUME NEW k \in Node PROVE gc'.refcount[k] = Counted(k)'
  BY DEF CountInv
<1>0. Types /\ CountInv /\ var \in [Node -> BOOLEAN] /\ out \in [Node -> SUBSET Node] /\ frames \in Seq(Frame)
  BY DEF Inv, Types
<1>1. gc.refcount[k] = Refs(var, out, {}, frames, k) /\ gc.refcount[k] \in Nat
  BY <1>0, Untaken
<1>2. Taken' = {}
  BY DEF Taken
<1>3. Counted(k)' = Refs(var, out, {}, frames', k)
  BY <1>2 DEF Counted, Refs, Holders
<1>4. \A T : /\ Refs(var, out, T, frames, k) = Refs(var, out, T, Front(frames), k) + Weight(Top, k)
             /\ Refs(var, out, T, Becomes(f), k) = Refs(var, out, T, Front(frames), k) + Weight(f, k)
             /\ Refs(var, out, T, Front(frames), k) \in Nat
  <2> SUFFICES ASSUME NEW T
               PROVE  /\ Refs(var, out, T, frames, k) = Refs(var, out, T, Front(frames), k) + Weight(Top, k)
                      /\ Refs(var, out, T, Becomes(f), k) = Refs(var, out, T, Front(frames), k) + Weight(f, k)
                      /\ Refs(var, out, T, Front(frames), k) \in Nat
    OBVIOUS
  <2>1. Front(frames) \in Seq(Frame)
    BY <1>0, FrontIs
  <2>2. Refs(var, out, T, Front(frames), k) \in Nat
    BY <2>1, <1>0, RefsNat
  <2>3. /\ Refs(var, out, T, frames, k) = Refs(var, out, T, Front(frames), k) + Weight(frames[Len(frames)], k)
        /\ \A h \in Frame : Refs(var, out, T, [frames EXCEPT ![Len(frames)] = h], k)
                               = Refs(var, out, T, Front(frames), k) + Weight(h, k)
    BY <1>0, RefsTop
  <2> QED
    BY <2>2, <2>3 DEF Top, Becomes
<1>5. Weight(Top, k) \in Nat /\ Weight(f, k) \in Nat
  BY WeightIs
<1> DEFINE R(F) == Refs(var, out, {}, F, k)
<1>6. R(frames) = R(Front(frames)) + Weight(Top, k) /\ R(Becomes(f)) = R(Front(frames)) + Weight(f, k) /\ R(Front(frames)) \in Nat
  BY <1>4
<1>7. gc.refcount[k] = R(frames) /\ Counted(k)' = R(frames')
  BY <1>1, <1>3
<1> HIDE DEF R
<1>8. CASE frames' = Front(frames) /\ gc'.refcount[k] = gc.refcount[k] - Weight(Top, k)
  BY <1>5, <1>6, <1>7, <1>8
<1>9. CASE frames' = Becomes(f) /\ gc'.refcount[k] = gc.refcount[k] - Weight(Top, k) + Weight(f, k)
  BY <1>5, <1>6, <1>7, <1>9
<1> QED
  BY <1>8, <1>9

-----------------------------------------------------------------------------
(* A call on n ends, with n in the buffer, or goes on to the destructor or *)
(* to the release of n.                                                    *)
LEMMA CallStep ==
    ASSUME Inv, frames # <<>>, NEW n \in Node, Top.kind \in {"del", "dtor", "gcdtor", "last", "gcfree"}, Top.obj = n, Top.rest = {},
           UNCHANGED <<state, out, var, free_called, run>>,
           dtor_called' \in [Node -> BOOLEAN], \A k \in Node : dtor_called[k] => dtor_called'[k],
           \A k \in Node : k # n => dtor_called'[k] = dtor_called[k],
           gc' \in Headers, Wired(gc'), Len(gc'.buf) >= Len(gc.buf),
           \A k \in Node : k # n => /\ gc'.address[k] = gc.address[k] /\ Tag(k)' = Tag(k)
                                    /\ gc'.color[k] = gc.color[k]
                                    /\ (Buffered(gc', k) <=> Buffered(gc, k)),
           \/ gc'.address[n] = gc.address[n] /\ Tag(n)' = Tag(n) /\ gc'.color[n] = gc.color[n]
           \/ ~Buffered(gc, n) /\ Buffered(gc', n) /\ Tag(n)' = "root" /\ gc'.color[n] = "purple",
           NEW f \in Frame, f.kind \in {"dtor", "last"}, f.obj = n, f.rest = {},
           frames' = Front(frames) => Buffered(gc', n),
           frames' = Becomes(f) =>
              /\ dtor_called'[n] /\ state[n] = "live" /\ ~free_called[n]
              /\ f.kind = "last" => gc'.refcount[n] = 0 \/ Buffered(gc', n)
              /\ f.kind = "dtor" => Tag(n) # "garbage",
           \/ frames' = Front(frames) /\ \A k \in Node : gc'.refcount[k] = gc.refcount[k] - Weight(Top, k)
           \/ frames' = Becomes(f) /\ \A k \in Node : gc'.refcount[k] = gc.refcount[k] - Weight(Top, k) + Weight(f, k)
    PROVE  Inv'
<1> DEFINE L == Len(frames)
<1>0. /\ Types /\ StackOK(frames, phase) /\ StackRest /\ HeapInv /\ FrameInv /\ ColorInv /\ FoundInv /\ GarbageInv /\ AllInv
      /\ gc \in Headers /\ frames \in Seq(Frame) /\ idx \in Nat /\ end \in Nat /\ Wired(gc)
      /\ var \in [Node -> BOOLEAN] /\ out \in [Node -> SUBSET Node] /\ state \in [Node -> {"none", "live", "null"}]
      /\ frames[L] = Top
  BY DEF Inv, Types, Top
<1>1. UNCHANGED <<phase, idx, end, todo, black, has_dtors, rerun>>
  BY DEF run
<1>2. /\ frames' \in Seq(Frame) /\ StackOK(frames', phase)
      /\ L \in DOMAIN frames /\ Top \in Frame
      /\ \A i \in DOMAIN frames : i # L =>
            /\ i \in DOMAIN frames' /\ frames'[i] = frames[i] /\ frames[i].kind \notin {"del", "last"}
            /\ Above(i)' <=> Above(i)
            /\ \A k : Mentions(i, k)' <=> Mentions(i, k)
      /\ \A i \in DOMAIN frames' :
            i \in DOMAIN frames /\ (i = L => frames'[i] = f /\ frames' = Becomes(f) /\ (Above(i)' <=> Above(i)))
      /\ frames' = Becomes(f) => L \in DOMAIN frames'
      /\ phase \in {"idle", "call", "destroy"} /\ todo = {} /\ black = {}
      /\ phase # "idle" => Above(L)
  BY TopChanges
<1> HIDE DEF L
<1>3. /\ \A k : Mentions(L, k) <=> k = n
      /\ \A i \in DOMAIN frames' : i = L => \A k : Mentions(i, k)' <=> k = n
  <2>1. \A k : Mentions(L, k) <=> k = n
    BY <1>0, <1>2 DEF Mentions, Calling
  <2>2. \A i \in DOMAIN frames' : i = L => \A k : Mentions(i, k)' <=> k = n
    BY <1>2 DEF Mentions, Calling
  <2> QED
    BY <2>1, <2>2
<1>4. \A i \in DOMAIN frames' : \A k : Mentions(i, k)' => Mentions(i, k)
  BY <1>2, <1>3
<1>5. state[n] # "none"
  <2>1. \A k \in Node : state[k] = "none" => ~Mentions(L, k)
    BY <1>0, <1>2 DEF HeapInv
  <2> QED
    BY <2>1, <1>3
<1>6. Types'
  BY <1>0, <1>1, <1>2 DEF Types
<1>7. StackOK(frames, phase)' /\ StackRest'
  <2>1. StackOK(frames, phase)'
    BY <1>1, <1>2
  <2>2. Len(gc.buf) \in Nat /\ Len(gc'.buf) \in Nat
    BY <1>0, Fields
  <2>3. StackRest'
    BY <2>2, <1>0, <1>1, <1>2 DEF StackRest
  <2> QED
    BY <2>1, <2>3
<1>8. HeapInv'
  <2> SUFFICES ASSUME NEW k \in Node
               PROVE  /\ state[k] = "none" =>
                            /\ ~var[k] /\ out[k] = {} /\ ~dtor_called'[k] /\ ~free_called[k]
                            /\ ~Buffered(gc', k) /\ gc'.color[k] = "black"
                            /\ \A m \in Node : k \notin out[m]
                            /\ \A i \in DOMAIN frames' : ~Mentions(i, k)'
                      /\ free_called[k] => out[k] = {} /\ (k \in Destructor => dtor_called'[k])
                      /\ free_called[k] /\ state[k] = "live" =>
                            /\ ~var[k]
                            /\ \A m \in Node : k \notin out[m]
                            /\ InRest(frames', k) = {} /\ Calls(frames', {"dtor", "gcdtor"}, k) = {}
                            /\ Calls(frames', {"free"}, k) # {}
                      /\ state[k] = "null" => phase = "destroy" /\ free_called[k] /\ Tag(k)' = "garbage"
    BY <1>1 DEF HeapInv
  <2>1. /\ state[k] = "none" =>
              /\ ~var[k] /\ out[k] = {} /\ ~dtor_called[k] /\ ~free_called[k]
              /\ ~Buffered(gc, k) /\ gc.color[k] = "black"
              /\ \A m \in Node : k \notin out[m]
              /\ \A i \in DOMAIN frames : ~Mentions(i, k)
        /\ free_called[k] => out[k] = {} /\ (k \in Destructor => dtor_called[k])
        /\ free_called[k] /\ state[k] = "live" =>
              /\ ~var[k]
              /\ \A m \in Node : k \notin out[m]
              /\ InRest(frames, k) = {} /\ Calls(frames, {"dtor", "gcdtor"}, k) = {}
              /\ Calls(frames, {"free"}, k) # {}
        /\ state[k] = "null" => phase = "destroy" /\ free_called[k] /\ Tag(k) = "garbage"
    BY <1>0 DEF HeapInv
  <2>2. state[k] = "none" =>
            /\ ~dtor_called'[k] /\ ~Buffered(gc', k) /\ gc'.color[k] = "black"
            /\ \A i \in DOMAIN frames' : ~Mentions(i, k)'
    <3> HAVE state[k] = "none"
    <3>1. k # n
      BY <1>5
    <3>2. \A i \in DOMAIN frames' : ~Mentions(i, k)'
      BY <2>1, <1>2, <1>4
    <3> QED
      BY <3>1, <3>2, <2>1
  <2>3. free_called[k] /\ state[k] = "live" =>
            /\ InRest(frames', k) = {} /\ Calls(frames', {"dtor", "gcdtor"}, k) = {}
            /\ Calls(frames', {"free"}, k) # {}
    <3> HAVE free_called[k] /\ state[k] = "live"
    <3>1. InRest(frames', k) = {}
      <4>1. InRest(frames', k) \subseteq InRest(frames, k)
        BY <1>2 DEF InRest
      <4> QED
        BY <4>1, <2>1
    <3>2. Calls(frames', {"dtor", "gcdtor"}, k) = {}
      <4>1. \A i \in DOMAIN frames' : i # L => frames'[i] = frames[i]
        BY <1>2
      <4>2. L \in DOMAIN frames' => frames'[L].obj # k
        BY <1>2
      <4>3. Calls(frames', {"dtor", "gcdtor"}, k) \subseteq Calls(frames, {"dtor", "gcdtor"}, k)
        BY <4>1, <4>2, <1>2 DEF Calls
      <4> QED
        BY <4>3, <2>1
    <3>3. Calls(frames', {"free"}, k) # {}
      <4>1. Calls(frames, {"free"}, k) \subseteq Calls(frames', {"free"}, k)
        BY <1>0, <1>2 DEF Calls
      <4> QED
        BY <4>1, <2>1
    <3> QED
      BY <3>1, <3>2, <3>3
  <2>4. state[k] = "null" => Tag(k)' = "garbage"
    <3> HAVE state[k] = "null"
    <3>1. Tag(k) = "garbage"
      BY <2>1
    <3>2. Buffered(gc, k)
      BY <3>1 DEF Tag, TagIn
    <3> QED
      BY <3>1, <3>2
  <2> QED
    BY <2>1, <2>2, <2>3, <2>4
<1>9. FrameInv'
  <2> SUFFICES ASSUME NEW i \in DOMAIN frames'
               PROVE  LET h == frames'[i] IN
                      /\ h.kind = "del" => state[h.obj] = "live" /\ ~free_called[h.obj] /\ gc'.refcount[h.obj] = 0
                      /\ h.kind \in {"dtor", "gcdtor", "last"} =>
                            dtor_called'[h.obj] /\ state[h.obj] = "live" /\ ~free_called[h.obj]
                      /\ h.kind = "last" => gc'.refcount[h.obj] = 0 \/ Buffered(gc', h.obj)
                      /\ h.kind = "free" =>
                            /\ free_called[h.obj] /\ state[h.obj] = "live"
                            /\ \A j \in DOMAIN frames' : frames'[j].kind = "free" /\ frames'[j].obj = h.obj => i = j
                      /\ h.kind = "gcfree" => free_called[h.obj] /\ state[h.obj] = "null"
                      /\ h.kind \in {"del", "dtor", "last", "gcdtor"} => h.rest = {}
    BY DEF FrameInv
  <2>1. CASE i = L
    BY <2>1, <1>2
  <2>2. CASE i # L
    <3>1. frames'[i] = frames[i] /\ i \in DOMAIN frames /\ frames[i].kind \notin {"del", "last"}
      BY <2>2, <1>2
    <3>2. LET h == frames[i] IN
          /\ h.kind \in {"dtor", "gcdtor", "last"} =>
                dtor_called[h.obj] /\ state[h.obj] = "live" /\ ~free_called[h.obj]
          /\ h.kind = "free" =>
                /\ free_called[h.obj] /\ state[h.obj] = "live"
                /\ \A j \in DOMAIN frames : frames[j].kind = "free" /\ frames[j].obj = h.obj => i = j
          /\ h.kind = "gcfree" => free_called[h.obj] /\ state[h.obj] = "null"
          /\ h.kind \in {"del", "dtor", "last", "gcdtor"} => h.rest = {}
      BY <3>1, <1>0 DEF FrameInv
    <3>3. \A j \in DOMAIN frames' : frames'[j].kind = "free" => j \in DOMAIN frames /\ frames'[j] = frames[j]
      BY <1>2
    <3>4. frames[i].kind # "gc" => frames[i].obj \in Node
      BY <3>1, <1>0, StackIs, FrameIs
    <3> QED
      BY <3>1, <3>2, <3>3, <3>4
  <2> QED
    BY <2>1, <2>2
<1>10. ColorInv'
  <2> SUFFICES ASSUME NEW k \in Node
               PROVE  /\ Tag(k)' \in Tags(phase)
                      /\ gc'.color[k] = IF Tag(k)' \in {"root", "dtor"} THEN "purple" ELSE "black"
                      /\ phase # "idle" /\ Tag(k)' \in {"garbage", "dtor"} => gc'.address[k] <= end
                      /\ Tag(k)' = "dtor" => k \in Destructor
                      /\ phase = "call" /\ Tag(k)' = "dtor" => gc'.address[k] >= idx
                      /\ phase = "destroy" /\ Tag(k)' = "garbage" /\ gc'.address[k] < idx => state[k] = "null"
    BY <1>1, <1>2 DEF ColorInv
  <2>1. /\ Tag(k) \in Tags(phase)
        /\ gc.color[k] = IF Tag(k) \in {"root", "dtor"} THEN "purple" ELSE "black"
        /\ phase # "idle" /\ Tag(k) \in {"garbage", "dtor"} => gc.address[k] <= end
        /\ Tag(k) = "dtor" => k \in Destructor
        /\ phase = "call" /\ Tag(k) = "dtor" => gc.address[k] >= idx
        /\ phase = "destroy" /\ Tag(k) = "garbage" /\ gc.address[k] < idx => state[k] = "null"
    BY <1>0, <1>2 DEF ColorInv
  <2>2. CASE Tag(k)' = Tag(k) /\ gc'.color[k] = gc.color[k] /\ gc'.address[k] = gc.address[k]
    BY <2>1, <2>2
  <2>3. CASE Tag(k)' = "root" /\ gc'.color[k] = "purple"
    BY <2>3, <1>2 DEF Tags
  <2> QED
    BY <2>2, <2>3
<1>11. CountInv'
  <2>1. UNCHANGED <<var, out, phase>>
    BY <1>1
  <2> QED
    BY <2>1, <1>2, TopCount
<1>12. FoundInv'
  <2> SUFFICES ASSUME NEW k \in Node, state[k] # "none" PROVE (k \in Reach(Outside \cup Roots))'
    BY DEF FoundInv
  <2> DEFINE S == Outside \cup Roots
             U == Outside' \cup Roots'
  <2>1. Leads(out, S, k)
    BY ReachIs, <1>0 DEF FoundInv
  <2>2. n \in U
    <3>1. CASE frames' = Front(frames)
      BY <3>1 DEF Roots
    <3>2. CASE frames' = Becomes(f)
      <4>1. \E i \in DOMAIN frames' : Mentions(i, n)'
        BY <3>2, <1>2, <1>3
      <4> QED
        BY <4>1 DEF Outside
    <3> QED
      BY <3>1, <3>2
  <2>3. \A m \in S : m \in U
    <3> SUFFICES ASSUME NEW m \in S, m # n PROVE m \in U
      BY <2>2
    <3>1. CASE m \in Roots
      BY <3>1 DEF Roots
    <3>2. CASE m \in Outside
      <4>1. \A i \in DOMAIN frames : Mentions(i, m) => i \in DOMAIN frames' /\ Mentions(i, m)'
        BY <1>2, <1>3
      <4> QED
        BY <3>2, <4>1 DEF Outside
    <3> QED
      BY <3>1, <3>2
  <2> HIDE DEF S, U
  <2>4. \A m \in S : Leads(out, U, m)
    BY <2>3, LeadsBase
  <2>5. Leads(out, U, k)
    BY ONLY <2>1, <2>4, LeadsMore
  <2>6. Leads(out', U, k)
    BY <2>5
  <2> QED
    BY <2>6 DEF Reach, Closed, Leads, U
<1>13. \A j \in Node : Tag(j)' = "garbage" <=> Tag(j) = "garbage"
  <2> SUFFICES ASSUME NEW j \in Node PROVE Tag(j)' = "garbage" <=> Tag(j) = "garbage"
    OBVIOUS
  <2>1. Tag(j) = "garbage" => Buffered(gc, j)
    BY DEF Tag, TagIn
  <2> QED
    BY <2>1
<1>14. GarbageInv'
  <2> SUFFICES ASSUME phase \in {"call", "destroy"}, NEW k \in Node, Tag(k)' = "garbage"
               PROVE  /\ ~var[k] /\ ~Undestructed(k)'
                      /\ \A i \in DOMAIN frames' : Mentions(i, k)' =>
                            phase = "destroy" /\ Above(i)' /\ frames'[i].kind \notin {"dtor", "gcdtor"}
                      /\ \A m \in Node : k \in out[m] => Tag(m)' = "garbage"
    <3>1. OfTag("garbage")' = {j \in Node : Tag(j)' = "garbage"}
      BY DEF OfTag
    <3> QED
      BY <3>1, <1>1, <1>2 DEF GarbageInv
  <2>1. k \in OfTag("garbage") /\ Tag(k) = "garbage"
    BY <1>13 DEF OfTag
  <2>2. /\ ~var[k] /\ ~Undestructed(k)
        /\ \A i \in DOMAIN frames : Mentions(i, k) =>
              phase = "destroy" /\ Above(i) /\ frames[i].kind \notin {"dtor", "gcdtor"}
        /\ \A m \in Node : k \in out[m] => Tag(m) = "garbage"
    BY <2>1, <1>0 DEF GarbageInv
  <2>3. ~Undestructed(k)'
    BY <2>2 DEF Undestructed
  <2>4. ASSUME NEW i \in DOMAIN frames', Mentions(i, k)'
        PROVE  phase = "destroy" /\ Above(i)' /\ frames'[i].kind \notin {"dtor", "gcdtor"}
    <3>1. CASE i # L
      BY <3>1, <2>2, <2>4, <1>2, <1>4
    <3>2. CASE i = L
      <4>1. k = n /\ Mentions(L, k) /\ frames'[i] = f /\ frames' = Becomes(f) /\ (Above(i)' <=> Above(i))
        BY <3>2, <2>4, <1>2, <1>3
      <4> QED
        BY <3>2, <4>1, <2>1, <2>2, <1>2
    <3> QED
      BY <3>1, <3>2
  <2> QED
    BY <2>2, <2>3, <2>4, <1>13
<1>15. AllInv'
  <2> SUFFICES ASSUME phase = "destroy", rerun = "no"
               PROVE  /\ \A k \in Node : state[k] # "none" => Tag(k)' = "garbage" \/ (k \in Reach(InUse))'
                      /\ \A i \in DOMAIN frames' : Calling(i)' /\ Above(i)' =>
                            /\ Tag(frames[i].obj)' = "garbage"
                            /\ frames'[i].kind \in {"del", "last", "free", "gcfree"}
    <3>1. phase \in {"nested", "call"} => rerun # "no"
      BY <1>0 DEF AllInv
    <3> QED
      BY <3>1, <1>1 DEF AllInv
  <2>1. /\ \A k \in Node : state[k] # "none" => Tag(k) = "garbage" \/ k \in Reach(InUse)
        /\ \A i \in DOMAIN frames : Calling(i) /\ Above(i) =>
              Tag(frames[i].obj) = "garbage" /\ frames[i].kind \in {"del", "last", "free", "gcfree"}
    BY <1>0 DEF AllInv
  <2>2. InUse' = InUse
    <3>1. \A k : (\E i \in DOMAIN frames' : Mentions(i, k)' /\ ~Above(i)') <=> \E i \in DOMAIN frames : Mentions(i, k) /\ ~Above(i)
      BY <1>2
    <3> QED
      BY <3>1 DEF InUse
  <2>3. \A k : (k \in Reach(InUse))' <=> k \in Reach(InUse)
    BY <2>2 DEF Reach, Closed
  <2>4. ASSUME NEW i \in DOMAIN frames', Calling(i)', Above(i)'
        PROVE  Tag(frames[i].obj)' = "garbage" /\ frames'[i].kind \in {"del", "last", "free", "gcfree"}
    <3>1. CASE i # L
      <4>1. i \in DOMAIN frames /\ frames'[i] = frames[i] /\ Calling(i) /\ Above(i)
        BY <3>1, <2>4, <1>2 DEF Calling
      <4>2. frames[i].obj \in Node
        BY <4>1, <1>0, StackIs, FrameIs DEF Calling
      <4> QED
        BY <4>1, <4>2, <2>1, <1>13
    <3>2. CASE i = L
      <4>1. frames'[i] = f /\ frames' = Becomes(f) /\ Calling(L) /\ Above(L) /\ L \in DOMAIN frames
        BY <3>2, <1>0, <1>2 DEF Calling
      <4>2. Tag(n) = "garbage"
        BY <4>1, <2>1, <1>0
      <4>3. frames'[i].kind = "last"
        BY <4>1, <4>2
      <4> QED
        BY <3>2, <4>1, <4>2, <4>3, <1>13
    <3> QED
      BY <3>1, <3>2
  <2> QED
    BY <2>1, <2>3, <2>4, <1>13
<1>16. MarkInv' /\ ScanInv' /\ CollectInv'
  BY <1>1, <1>2 DEF MarkInv, ScanInv, CollectInv
<1> QED
  BY <1>6, <1>7, <1>8, <1>9, <1>10, <1>11, <1>12, <1>14, <1>15, <1>16 DEF Inv

-----------------------------------------------------------------------------
(* The object of the call on the top, and what holds of it.                *)
LEMMA TopIs ==
    ASSUME Inv, frames # <<>>, Top.kind # "gc"
    PROVE  /\ Top \in Frame /\ Top.obj \in Node /\ Top.rest \in SUBSET Node
           /\ Top.kind \in {"del", "dtor", "last", "gcdtor"} => Top.rest = {} /\ state[Top.obj] = "live" /\ ~free_called[Top.obj]
           /\ Top.kind = "del" => gc.refcount[Top.obj] = 0
           /\ Top.kind \in {"dtor", "gcdtor", "last"} => dtor_called[Top.obj]
           /\ Top.kind = "last" => gc.refcount[Top.obj] = 0 \/ Buffered(gc, Top.obj)
           /\ Top.kind = "free" => free_called[Top.obj] /\ state[Top.obj] = "live"
           /\ Top.kind = "gcfree" => free_called[Top.obj] /\ state[Top.obj] = "null"
           /\ phase \in {"call", "destroy"} => \A n \in Node : Tag(n) = "garbage" /\ (n = Top.obj \/ n \in Top.rest) =>
                 phase = "destroy" /\ Above(Len(frames)) /\ Top.kind \notin {"dtor", "gcdtor"} /\ ~Undestructed(n)
<1>1. frames \in Seq(Frame) /\ FrameInv /\ GarbageInv
  BY DEF Inv, Types
<1>2. Len(frames) \in DOMAIN frames /\ Top \in Frame /\ frames[Len(frames)] = Top
  BY <1>1, StackIs DEF Top
<1>3. Top.obj \in Node /\ Top.rest \in SUBSET Node
  BY <1>2, FrameIs
<1>4. /\ Top.kind = "del" => state[Top.obj] = "live" /\ ~free_called[Top.obj] /\ gc.refcount[Top.obj] = 0
      /\ Top.kind \in {"dtor", "gcdtor", "last"} =>
            dtor_called[Top.obj] /\ state[Top.obj] = "live" /\ ~free_called[Top.obj]
      /\ Top.kind = "last" => gc.refcount[Top.obj] = 0 \/ Buffered(gc, Top.obj)
      /\ Top.kind = "free" => free_called[Top.obj] /\ state[Top.obj] = "live"
      /\ Top.kind = "gcfree" => free_called[Top.obj] /\ state[Top.obj] = "null"
      /\ Top.kind \in {"del", "dtor", "last", "gcdtor"} => Top.rest = {}
  BY <1>1, <1>2 DEF FrameInv
<1>5. \A n : n = Top.obj \/ n \in Top.rest => Mentions(Len(frames), n)
  BY <1>2 DEF Mentions, Calling
<1>6. ASSUME phase \in {"call", "destroy"}, NEW n \in Node, Tag(n) = "garbage", n = Top.obj \/ n \in Top.rest
      PROVE  phase = "destroy" /\ Above(Len(frames)) /\ Top.kind \notin {"dtor", "gcdtor"} /\ ~Undestructed(n)
  BY <1>1, <1>2, <1>5, <1>6 DEF GarbageInv, OfTag
<1> QED
  BY <1>2, <1>3, <1>4, <1>6

(* zend_objects_store_del() calls the destructor, or goes on without.      *)
LEMMA CallDestructorKeeps == ASSUME Inv, NEW n \in Node, CallDestructor(n) PROVE Inv'
<1> DEFINE d == Call("dtor", n, {})
           l == Call("last", n, {})
           q == Addref(Addref(gc, n), n)
<1>1. /\ frames # <<>> /\ Top.kind = "del" /\ Top.obj = n
      /\ dtor_called' = [dtor_called EXCEPT ![n] = TRUE]
      /\ \/ gc' = q /\ frames' = Becomes(d) /\ Undestructed(n)
         \/ gc' = gc /\ frames' = Becomes(l) /\ ~Undestructed(n)
      /\ UNCHANGED <<state, out, var, free_called, run>>
  BY DEF CallDestructor, Running, Turn, Undestructed
<1>2. gc \in Headers /\ Wired(gc) /\ dtor_called \in [Node -> BOOLEAN] /\ frames \in Seq(Frame) /\ Len(gc.buf) \in Nat
  BY Fields DEF Inv, Types
<1>3. /\ Top.rest = {} /\ state[n] = "live" /\ ~free_called[n] /\ gc.refcount[n] = 0 /\ Top \in Frame
      /\ phase \in {"call", "destroy"} => (Tag(n) = "garbage" => ~Undestructed(n))
  BY <1>1, TopIs
<1>4. /\ d \in Frame /\ d.kind = "dtor" /\ d.obj = n /\ d.rest = {}
      /\ l \in Frame /\ l.kind = "last" /\ l.obj = n /\ l.rest = {}
  BY CallIs
<1> HIDE DEF d, l
<1>5. /\ q \in Headers /\ Wired(q)
      /\ \A k \in Node : q.refcount[k] = IF k = n THEN gc.refcount[k] + 2 ELSE gc.refcount[k]
      /\ q.color = gc.color /\ q.address = gc.address /\ q.buf = gc.buf
      /\ \A k \in Node : TagIn(q, k) = TagIn(gc, k) /\ (Buffered(q, k) <=> Buffered(gc, k))
  <2> DEFINE r == Addref(gc, n)
  <2>1. /\ r \in Headers
        /\ \A k \in Node : r.refcount[k] = IF k = n THEN gc.refcount[k] + 1 ELSE gc.refcount[k]
        /\ r.color = gc.color /\ r.address = gc.address /\ r.buf = gc.buf /\ r.unused = gc.unused
    BY <1>2, AddrefIs
  <2> HIDE DEF r
  <2> DEFINE s == Addref(r, n)
  <2>2. /\ s \in Headers
        /\ \A k \in Node : s.refcount[k] = IF k = n THEN r.refcount[k] + 1 ELSE r.refcount[k]
        /\ s.color = r.color /\ s.address = r.address /\ s.buf = r.buf /\ s.unused = r.unused
    BY <2>1, AddrefIs
  <2>3. q = s
    BY DEF r
  <2> HIDE DEF s, q
  <2>4. /\ Wired(s)
        /\ \A k : TagIn(s, k) = TagIn(gc, k) /\ (Buffered(s, k) <=> Buffered(gc, k))
    BY <1>2, <2>1, <2>2, SameBuffer
  <2>5. gc.refcount \in [Node -> Int]
    BY <1>2, Fields
  <2> QED
    BY <2>1, <2>2, <2>3, <2>4, <2>5
<1> HIDE DEF q
<1>6. Weight(Top, n) = 0 /\ \A k \in Node : Weight(Top, k) = 0
  BY <1>1, <1>3 DEF Weight
<1>7. /\ \A k \in Node : Weight(d, k) = IF k = n THEN 2 ELSE 0
      /\ \A k \in Node : Weight(l, k) = 0
  BY <1>4 DEF Weight
<1>8. /\ dtor_called' \in [Node -> BOOLEAN] /\ dtor_called'[n] /\ \A k \in Node : dtor_called[k] => dtor_called'[k]
      /\ \A k \in Node : k # n => dtor_called'[k] = dtor_called[k]
  BY <1>1, <1>2
<1>9. gc.refcount \in [Node -> Int]
  BY <1>2, Fields
<1>10. \A h : frames' = Becomes(h) => frames' # Front(frames)
  <2>1. ASSUME NEW h PROVE Len(Becomes(h)) = Len(frames) /\ Len(Front(frames)) # Len(frames)
    BY <1>1, <1>2, FrontIs, StackIs DEF Becomes
  <2> QED
    BY <2>1
<1>11. \A k \in Node : Tag(k) = TagIn(gc, k) /\ Tag(k)' = TagIn(gc', k)
  BY DEF Tag
<1>12. CASE gc' = q /\ frames' = Becomes(d) /\ Undestructed(n)
  <2>1. \A k \in Node : gc'.refcount[k] = gc.refcount[k] - Weight(Top, k) + Weight(d, k)
    BY <1>5, <1>6, <1>7, <1>9, <1>12
  <2>2. /\ gc' \in Headers /\ Wired(gc') /\ Len(gc'.buf) >= Len(gc.buf)
        /\ \A k \in Node : /\ gc'.address[k] = gc.address[k] /\ Tag(k)' = Tag(k) /\ gc'.color[k] = gc.color[k]
                           /\ (Buffered(gc', k) <=> Buffered(gc, k))
    BY <1>2, <1>5, <1>11, <1>12
  <2>3. Tag(n) # "garbage"
    <3>1. Tag(n) = "garbage" => phase \in {"call", "destroy"}
      <4>1. phase \in {"idle", "call", "destroy"}
        BY <1>1, <1>4, <1>12, TopChanges
      <4>2. Tag(n) \in Tags(phase)
        BY DEF Inv, ColorInv
      <4> QED
        BY <4>1, <4>2 DEF Tags
    <3> QED
      BY <3>1, <1>3, <1>12
  <2> QED
    BY <1>1, <1>3, <1>4, <1>8, <1>10, <1>12, <2>1, <2>2, <2>3, CallStep
<1>13. CASE gc' = gc /\ frames' = Becomes(l) /\ ~Undestructed(n)
  <2>1. \A k \in Node : gc'.refcount[k] = gc.refcount[k] - Weight(Top, k) + Weight(l, k)
    BY <1>6, <1>7, <1>9, <1>13
  <2>2. /\ gc' \in Headers /\ Wired(gc') /\ Len(gc'.buf) >= Len(gc.buf)
        /\ \A k \in Node : /\ gc'.address[k] = gc.address[k] /\ Tag(k)' = Tag(k) /\ gc'.color[k] = gc.color[k]
                           /\ (Buffered(gc', k) <=> Buffered(gc, k))
    BY <1>2, <1>11, <1>13
  <2>3. gc'.refcount[n] = 0
    BY <1>3, <1>13
  <2> QED
    BY <1>1, <1>3, <1>4, <1>8, <1>10, <1>13, <2>1, <2>2, <2>3, CallStep
<1> QED
  BY <1>1, <1>12, <1>13

(* The destructor returns, and the references that held the object go.     *)
LEMMA EndDestructorKeeps == ASSUME Inv, NEW n \in Node, EndDestructor(n) PROVE Inv'
<1> DEFINE l == Call("last", n, {})
           q == Delref(gc, n)
           r == PossibleRoot(q, n)
           s == Delref(r, n)
<1>1. /\ frames # <<>> /\ Top.kind \in {"dtor", "gcdtor"} /\ Top.obj = n
      /\ gc' = s
      /\ frames' = Becomes(l) \/ frames' = Front(frames)
      /\ UNCHANGED <<state, out, var, free_called, dtor_called, run>>
  BY DEF EndDestructor, Running, Turn, Return, heap
<1>2. /\ gc \in Headers /\ Wired(gc) /\ dtor_called \in [Node -> BOOLEAN] /\ frames \in Seq(Frame) /\ Len(gc.buf) \in Nat
      /\ gc.refcount \in [Node -> Int]
  BY Fields DEF Inv, Types
<1>3. /\ Top.rest = {} /\ state[n] = "live" /\ ~free_called[n] /\ dtor_called[n] /\ Top \in Frame
  BY <1>1, TopIs
<1>4. l \in Frame /\ l.kind = "last" /\ l.obj = n /\ l.rest = {}
  BY CallIs
<1> HIDE DEF l
<1>5. /\ q \in Headers
      /\ \A m \in Node : q.refcount[m] = IF m = n THEN gc.refcount[m] - 1 ELSE gc.refcount[m]
      /\ q.color = gc.color /\ q.address = gc.address /\ q.buf = gc.buf /\ q.unused = gc.unused
  BY <1>2, DelrefIs
<1> HIDE DEF q
<1>6. Wired(q) /\ \A m : TagIn(q, m) = TagIn(gc, m) /\ (Buffered(q, m) <=> Buffered(gc, m))
  BY <1>2, <1>5, SameBuffer
<1>7. /\ r \in Headers /\ Wired(r)
      /\ r.refcount = q.refcount /\ Len(r.buf) >= Len(q.buf)
      /\ \A m \in Node \ {n} : /\ r.address[m] = q.address[m] /\ TagIn(r, m) = TagIn(q, m)
                              /\ r.color[m] = q.color[m]
      /\ IF Buffered(q, n) \/ q.color[n] # "black" THEN r = q
         ELSE Buffered(r, n) /\ TagIn(r, n) = "root" /\ r.color[n] = "purple"
  BY <1>5, <1>6, PossibleRootIs
<1> HIDE DEF r
<1>8. /\ s \in Headers
      /\ \A m \in Node : s.refcount[m] = IF m = n THEN r.refcount[m] - 1 ELSE r.refcount[m]
      /\ s.color = r.color /\ s.address = r.address /\ s.buf = r.buf /\ s.unused = r.unused
  BY <1>7, DelrefIs
<1> HIDE DEF s
<1>9. Wired(s) /\ \A m : TagIn(s, m) = TagIn(r, m) /\ (Buffered(s, m) <=> Buffered(r, m))
  BY <1>7, <1>8, SameBuffer
<1>10. phase \in {"idle", "call", "destroy"}
  BY <1>1, <1>4, TopChanges
<1>11. gc.color[n] # "black" => Buffered(gc, n)
  BY <1>10 DEF Inv, ColorInv, Tag, TagIn
<1>12. \A k \in Node : Tag(k) = TagIn(gc, k) /\ Tag(k)' = TagIn(gc', k)
  BY DEF Tag
<1>13. \A m \in Node \ {n} : /\ s.address[m] = gc.address[m] /\ TagIn(s, m) = TagIn(gc, m)
                             /\ s.color[m] = gc.color[m] /\ (Buffered(s, m) <=> Buffered(gc, m))
  BY <1>5, <1>6, <1>7, <1>8, <1>9 DEF Buffered
<1>14. /\ Buffered(s, n)
       /\ \/ s.address[n] = gc.address[n] /\ TagIn(s, n) = TagIn(gc, n) /\ s.color[n] = gc.color[n]
          \/ ~Buffered(gc, n) /\ TagIn(s, n) = "root" /\ s.color[n] = "purple"
  <2>1. CASE Buffered(gc, n)
    <3>1. r = q
      BY <2>1, <1>6, <1>7
    <3> QED
      BY <2>1, <3>1, <1>5, <1>6, <1>8, <1>9
  <2>2. CASE ~Buffered(gc, n)
    <3>1. Buffered(r, n) /\ TagIn(r, n) = "root" /\ r.color[n] = "purple"
      BY <2>2, <1>5, <1>6, <1>7, <1>11
    <3> QED
      BY <2>2, <3>1, <1>8, <1>9
  <2> QED
    BY <2>1, <2>2
<1>15. \A k \in Node : s.refcount[k] = gc.refcount[k] - Weight(Top, k) /\ Weight(l, k) = 0 /\ Weight(Top, k) \in Nat
  <2> TAKE k \in Node
  <2>1. Weight(Top, k) = IF k = n THEN 2 ELSE 0
    BY <1>1, <1>3 DEF Weight
  <2>2. Weight(l, k) = 0
    BY <1>4 DEF Weight
  <2>3. s.refcount[k] = IF k = n THEN gc.refcount[k] - 2 ELSE gc.refcount[k]
    BY <1>2, <1>5, <1>7, <1>8
  <2> QED
    BY <2>1, <2>2, <2>3, <1>2
<1>16. Len(s.buf) >= Len(gc.buf)
  BY <1>5, <1>7, <1>8
<1>17. /\ gc' \in Headers /\ Wired(gc') /\ Len(gc'.buf) >= Len(gc.buf)
       /\ \A k \in Node : k # n => /\ gc'.address[k] = gc.address[k] /\ Tag(k)' = Tag(k)
                                   /\ gc'.color[k] = gc.color[k]
                                   /\ (Buffered(gc', k) <=> Buffered(gc, k))
       /\ \/ gc'.address[n] = gc.address[n] /\ Tag(n)' = Tag(n) /\ gc'.color[n] = gc.color[n]
          \/ ~Buffered(gc, n) /\ Buffered(gc', n) /\ Tag(n)' = "root" /\ gc'.color[n] = "purple"
       /\ Buffered(gc', n)
  BY <1>1, <1>8, <1>9, <1>12, <1>13, <1>14, <1>16
<1>18. \A k \in Node : /\ gc'.refcount[k] = gc.refcount[k] - Weight(Top, k)
                       /\ gc'.refcount[k] = gc.refcount[k] - Weight(Top, k) + Weight(l, k)
  BY <1>1, <1>2, <1>15
<1>19. /\ dtor_called' \in [Node -> BOOLEAN] /\ dtor_called'[n] /\ \A k \in Node : dtor_called[k] => dtor_called'[k]
       /\ \A k \in Node : k # n => dtor_called'[k] = dtor_called[k]
       /\ UNCHANGED <<state, out, var, free_called, run>>
  BY <1>1, <1>2, <1>3
<1> QED
  BY <1>1, <1>3, <1>4, <1>17, <1>18, <1>19, CallStep

-----------------------------------------------------------------------------
(* A call that ends without an effect on its object but for its count.     *)
LEMMA JustReturns ==
    ASSUME Inv, frames # <<>>, NEW n \in Node, Top.kind \in {"last", "gcfree"}, Top.obj = n, Top.rest = {},
           UNCHANGED <<heap, run>>, frames' = Front(frames),
           gc' = IF Top.kind = "last" THEN gc ELSE Delref(gc, n), Buffered(gc, n)
    PROVE  Inv'
<1> DEFINE l == Call("last", n, {})
           q == Delref(gc, n)
<1>1. l \in Frame /\ l.kind = "last" /\ l.obj = n /\ l.rest = {}
  BY CallIs
<1> HIDE DEF l
<1>2. /\ gc \in Headers /\ Wired(gc) /\ dtor_called \in [Node -> BOOLEAN] /\ frames \in Seq(Frame) /\ Len(gc.buf) \in Nat
      /\ gc.refcount \in [Node -> Int]
  BY Fields DEF Inv, Types
<1>3. /\ q \in Headers
      /\ \A m \in Node : q.refcount[m] = IF m = n THEN gc.refcount[m] - 1 ELSE gc.refcount[m]
      /\ q.color = gc.color /\ q.address = gc.address /\ q.buf = gc.buf /\ q.unused = gc.unused
  BY <1>2, DelrefIs
<1>4. gc' = gc \/ gc' = q
  OBVIOUS
<1>5. gc' = IF Top.kind = "last" THEN gc ELSE q
  OBVIOUS
<1> HIDE DEF q
<1>6. Wired(q) /\ \A m : TagIn(q, m) = TagIn(gc, m) /\ (Buffered(q, m) <=> Buffered(gc, m))
  BY <1>2, <1>3, SameBuffer
<1>7. \A k \in Node : Tag(k) = TagIn(gc, k) /\ Tag(k)' = TagIn(gc', k)
  BY DEF Tag
<1>8. /\ gc' \in Headers /\ Wired(gc') /\ Len(gc'.buf) >= Len(gc.buf)
      /\ \A k \in Node : /\ gc'.address[k] = gc.address[k] /\ Tag(k)' = Tag(k) /\ gc'.color[k] = gc.color[k]
                         /\ (Buffered(gc', k) <=> Buffered(gc, k))
  BY <1>2, <1>3, <1>4, <1>6, <1>7
<1>9. \A k \in Node : gc'.refcount[k] = gc.refcount[k] - Weight(Top, k)
  <2> TAKE k \in Node
  <2>1. Weight(Top, k) = IF Top.kind = "gcfree" /\ k = n THEN 1 ELSE 0
    BY DEF Weight
  <2> QED
    BY <2>1, <1>2, <1>3, <1>5
<1>10. frames' # Becomes(l)
  <2>1. Len(Becomes(l)) = Len(frames) /\ Len(Front(frames)) # Len(frames)
    BY <1>2, FrontIs, StackIs DEF Becomes
  <2> QED
    BY <2>1
<1>11. /\ dtor_called' \in [Node -> BOOLEAN] /\ \A k \in Node : dtor_called'[k] = dtor_called[k]
       /\ UNCHANGED <<state, out, var, free_called, run>>
  BY <1>2 DEF heap
<1> QED
  BY <1>1, <1>8, <1>9, <1>10, <1>11, CallStep

(* Nothing refers to the object any more: its properties are destroyed.    *)
LEMMA FreeBegins ==
    ASSUME Inv, frames # <<>>, NEW n \in Node, Top.kind = "last", Top.obj = n, gc.refcount[n] = 0,
           free_called' = [free_called EXCEPT ![n] = TRUE], gc' = Addref(gc, n), out' = [out EXCEPT ![n] = {}],
           NEW f \in Frame, f.kind = "free", f.obj = n, f.rest = out[n], frames' = Becomes(f),
           UNCHANGED <<state, var, dtor_called, run>>
    PROVE  Inv'
<1> DEFINE L == Len(frames)
<1>0. /\ Types /\ StackOK(frames, phase) /\ StackRest /\ HeapInv /\ FrameInv /\ ColorInv /\ FoundInv /\ GarbageInv /\ AllInv
      /\ CountInv
      /\ gc \in Headers /\ frames \in Seq(Frame) /\ idx \in Nat /\ end \in Nat /\ Wired(gc)
      /\ var \in [Node -> BOOLEAN] /\ out \in [Node -> SUBSET Node] /\ state \in [Node -> {"none", "live", "null"}]
      /\ free_called \in [Node -> BOOLEAN]
      /\ frames[L] = Top
  BY DEF Inv, Types, Top
<1>1. UNCHANGED <<phase, idx, end, todo, black, has_dtors, rerun>>
  BY DEF run
<1>2. /\ frames' \in Seq(Frame) /\ StackOK(frames', phase)
      /\ L \in DOMAIN frames /\ Top \in Frame
      /\ \A i \in DOMAIN frames : i # L =>
            /\ i \in DOMAIN frames' /\ frames'[i] = frames[i] /\ frames[i].kind \notin {"del", "last"}
            /\ Above(i)' <=> Above(i)
            /\ \A k : Mentions(i, k)' <=> Mentions(i, k)
      /\ \A i \in DOMAIN frames' :
            i \in DOMAIN frames /\ (i = L => frames'[i] = f /\ (Above(i)' <=> Above(i)))
      /\ L \in DOMAIN frames'
      /\ phase \in {"idle", "call", "destroy"} /\ todo = {} /\ black = {}
      /\ phase # "idle" => Above(L)
  BY TopChanges
<1> HIDE DEF L
<1>3. /\ Top.rest = {} /\ state[n] = "live" /\ ~free_called[n] /\ dtor_called[n]
      /\ phase \in {"call", "destroy"} => (Tag(n) = "garbage" => phase = "destroy")
  BY TopIs
<1>4. /\ \A k : Mentions(L, k) <=> k = n
      /\ \A i \in DOMAIN frames' : i = L => \A k : Mentions(i, k)' <=> k = n \/ k \in out[n]
  <2>1. \A k : Mentions(L, k) <=> k = n
    BY <1>0, <1>3 DEF Mentions, Calling
  <2>2. \A i \in DOMAIN frames' : i = L => \A k : Mentions(i, k)' <=> k = n \/ k \in out[n]
    BY <1>2 DEF Mentions, Calling
  <2> QED
    BY <2>1, <2>2
<1>5. /\ out' \in [Node -> SUBSET Node] /\ out'[n] = {} /\ \A k \in Node : k # n => out'[k] = out[k]
      /\ free_called' \in [Node -> BOOLEAN] /\ free_called'[n] /\ \A k \in Node : k # n => free_called'[k] = free_called[k]
  BY <1>0
<1>6. /\ ~var[n] /\ (\A m \in Node : n \notin out[m])
      /\ \A i \in DOMAIN frames : Weight(frames[i], n) = 0
  <2>1. Refs(var, out, {}, frames, n) = 0
    BY <1>0, <1>2, Untaken
  <2> QED
    BY ONLY <2>1, <1>0, n \in Node, NoneLeft
<1>7. /\ gc' \in Headers /\ Wired(gc') /\ Len(gc'.buf) = Len(gc.buf) /\ Len(gc.buf) \in Nat
      /\ \A k \in Node : gc'.refcount[k] = IF k = n THEN gc.refcount[k] + 1 ELSE gc.refcount[k]
      /\ \A k \in Node : /\ gc'.address[k] = gc.address[k] /\ Tag(k)' = Tag(k) /\ gc'.color[k] = gc.color[k]
                         /\ (Buffered(gc', k) <=> Buffered(gc, k))
  <2> DEFINE q == Addref(gc, n)
  <2>1. /\ q \in Headers
        /\ \A k \in Node : q.refcount[k] = IF k = n THEN gc.refcount[k] + 1 ELSE gc.refcount[k]
        /\ q.color = gc.color /\ q.address = gc.address /\ q.buf = gc.buf /\ q.unused = gc.unused
    BY <1>0, AddrefIs
  <2>2. gc' = q
    OBVIOUS
  <2> HIDE DEF q
  <2>3. Wired(q) /\ \A m : TagIn(q, m) = TagIn(gc, m) /\ (Buffered(q, m) <=> Buffered(gc, m))
    BY <1>0, <2>1, SameBuffer
  <2> QED
    BY <1>0, <2>1, <2>2, <2>3, Fields DEF Tag
<1>8. Types'
  BY <1>0, <1>1, <1>2, <1>5, <1>7 DEF Types
<1>9. StackOK(frames, phase)' /\ StackRest'
  <2>1. StackOK(frames, phase)'
    BY <1>1, <1>2
  <2>2. StackRest'
    BY <1>0, <1>1, <1>2, <1>7 DEF StackRest
  <2> QED
    BY <2>1, <2>2
<1>10. HeapInv'
  <2> SUFFICES ASSUME NEW k \in Node
               PROVE  /\ state[k] = "none" =>
                            /\ ~var[k] /\ out'[k] = {} /\ ~dtor_called[k] /\ ~free_called'[k]
                            /\ ~Buffered(gc', k) /\ gc'.color[k] = "black"
                            /\ \A m \in Node : k \notin out'[m]
                            /\ \A i \in DOMAIN frames' : ~Mentions(i, k)'
                      /\ free_called'[k] => out'[k] = {} /\ (k \in Destructor => dtor_called[k])
                      /\ free_called'[k] /\ state[k] = "live" =>
                            /\ ~var[k]
                            /\ \A m \in Node : k \notin out'[m]
                            /\ InRest(frames', k) = {} /\ Calls(frames', {"dtor", "gcdtor"}, k) = {}
                            /\ Calls(frames', {"free"}, k) # {}
                      /\ state[k] = "null" => phase = "destroy" /\ free_called'[k] /\ Tag(k)' = "garbage"
    BY <1>1 DEF HeapInv
  <2>1. /\ state[k] = "none" =>
              /\ ~var[k] /\ out[k] = {} /\ ~dtor_called[k] /\ ~free_called[k]
              /\ ~Buffered(gc, k) /\ gc.color[k] = "black"
              /\ \A m \in Node : k \notin out[m]
              /\ \A i \in DOMAIN frames : ~Mentions(i, k)
        /\ free_called[k] => out[k] = {} /\ (k \in Destructor => dtor_called[k])
        /\ free_called[k] /\ state[k] = "live" =>
              /\ ~var[k]
              /\ \A m \in Node : k \notin out[m]
              /\ InRest(frames, k) = {} /\ Calls(frames, {"dtor", "gcdtor"}, k) = {}
              /\ Calls(frames, {"free"}, k) # {}
        /\ state[k] = "null" => phase = "destroy" /\ free_called[k] /\ Tag(k) = "garbage"
    BY <1>0 DEF HeapInv
  <2>2. \A m \in Node : k \in out'[m] => k \in out[m]
    BY <1>5
  <2>3. \A i \in DOMAIN frames' : Mentions(i, k)' => Mentions(i, k) \/ k \in out[n]
    BY <1>2, <1>4
  <2>4. CASE k = n
    <3>1. InRest(frames', n) = {}
      <4> SUFFICES ASSUME NEW i \in DOMAIN frames', frames'[i].kind # "gc", n \in frames'[i].rest PROVE FALSE
        BY DEF InRest
      <4>1. CASE i = L
        BY <4>1, <1>2, <1>6
      <4>2. CASE i # L
        <5>1. frames'[i] = frames[i] /\ Weight(frames[i], n) = 0
          BY <4>2, <1>2, <1>6
        <5>2. frames[i].kind # "gc" /\ n \in frames[i].rest
          BY <5>1
        <5> QED
          BY <5>1, <5>2 DEF Weight
      <4> QED
        BY <4>1, <4>2
    <3>2. Calls(frames', {"dtor", "gcdtor"}, n) = {}
      <4> SUFFICES ASSUME NEW i \in DOMAIN frames', frames'[i].kind \in {"dtor", "gcdtor"}, frames'[i].obj = n PROVE FALSE
        BY DEF Calls
      <4>1. i # L
        BY <1>2
      <4>2. frames'[i] = frames[i] /\ Weight(frames[i], n) = 0
        BY <4>1, <1>2, <1>6
      <4> QED
        BY <4>2 DEF Weight
    <3>3. Calls(frames', {"free"}, n) # {}
      BY <1>2 DEF Calls
    <3> QED
      BY <2>4, <3>1, <3>2, <3>3, <2>1, <2>2, <1>3, <1>5, <1>6
  <2>5. CASE k # n
    <3>1. free_called'[k] = free_called[k] /\ out'[k] = out[k]
      BY <2>5, <1>5
    <3>2. state[k] = "none" => \A i \in DOMAIN frames' : ~Mentions(i, k)'
      BY <2>1, <2>3, <1>2
    <3>3. free_called[k] /\ state[k] = "live" =>
              /\ InRest(frames', k) = {} /\ Calls(frames', {"dtor", "gcdtor"}, k) = {}
              /\ Calls(frames', {"free"}, k) # {}
      <4> HAVE free_called[k] /\ state[k] = "live"
      <4>1. InRest(frames', k) \subseteq InRest(frames, k)
        <5>1. L \in DOMAIN frames' => k \notin frames'[L].rest
          BY <2>1, <1>2
        <5> QED
          BY <5>1, <1>2 DEF InRest
      <4>2. Calls(frames', {"dtor", "gcdtor"}, k) \subseteq Calls(frames, {"dtor", "gcdtor"}, k)
        BY <1>2 DEF Calls
      <4>3. Calls(frames, {"free"}, k) \subseteq Calls(frames', {"free"}, k)
        BY <1>0, <1>2 DEF Calls
      <4> QED
        BY <2>1, <4>1, <4>2, <4>3
    <3> QED
      BY <2>1, <2>2, <3>1, <3>2, <3>3, <1>7
  <2> QED
    BY <2>4, <2>5
<1>11. FrameInv'
  <2> SUFFICES ASSUME NEW i \in DOMAIN frames'
               PROVE  LET h == frames'[i] IN
                      /\ h.kind \notin {"del", "last"}
                      /\ h.kind \in {"dtor", "gcdtor"} =>
                            dtor_called[h.obj] /\ state[h.obj] = "live" /\ ~free_called'[h.obj]
                      /\ h.kind = "free" =>
                            /\ free_called'[h.obj] /\ state[h.obj] = "live"
                            /\ \A j \in DOMAIN frames' : frames'[j].kind = "free" /\ frames'[j].obj = h.obj => i = j
                      /\ h.kind = "gcfree" => free_called'[h.obj] /\ state[h.obj] = "null"
                      /\ h.kind \in {"del", "dtor", "last", "gcdtor"} => h.rest = {}
    BY DEF FrameInv
  <2>1. \A j \in DOMAIN frames' : j # L => j \in DOMAIN frames /\ frames'[j] = frames[j] /\ frames[j].kind \notin {"del", "last"}
    BY <1>2
  <2>2. \A j \in DOMAIN frames : frames[j].kind = "free" => free_called[frames[j].obj]
    BY <1>0 DEF FrameInv
  <2>3. CASE i = L
    <3>1. \A j \in DOMAIN frames' : frames'[j].kind = "free" /\ frames'[j].obj = n => j = L
      BY <2>1, <2>2, <1>3
    <3> QED
      BY <2>3, <3>1, <1>2, <1>3, <1>5
  <2>4. CASE i # L
    <3>1. frames'[i] = frames[i] /\ i \in DOMAIN frames /\ frames[i].kind \notin {"del", "last"}
      BY <2>4, <2>1
    <3>2. LET h == frames[i] IN
          /\ h.kind \in {"dtor", "gcdtor", "last"} =>
                dtor_called[h.obj] /\ state[h.obj] = "live" /\ ~free_called[h.obj]
          /\ h.kind = "free" =>
                /\ free_called[h.obj] /\ state[h.obj] = "live"
                /\ \A j \in DOMAIN frames : frames[j].kind = "free" /\ frames[j].obj = h.obj => i = j
          /\ h.kind = "gcfree" => free_called[h.obj] /\ state[h.obj] = "null"
          /\ h.kind \in {"del", "dtor", "last", "gcdtor"} => h.rest = {}
      BY <3>1, <1>0 DEF FrameInv
    <3>3. frames[i].kind # "gc" => frames[i].obj \in Node
      BY <3>1, <1>0, StackIs, FrameIs
    <3>4. frames[i].kind \in {"dtor", "gcdtor"} => frames[i].obj # n
      BY <3>1, <1>6 DEF Weight
    <3>5. frames[i].kind = "free" =>
             \A j \in DOMAIN frames' : frames'[j].kind = "free" /\ frames'[j].obj = frames[i].obj => i = j
      <4> HAVE frames[i].kind = "free"
      <4>1. frames[i].obj # n
        BY <3>2, <1>3
      <4> QED
        BY <4>1, <2>1, <3>2, <1>2
    <3> QED
      BY <3>1, <3>2, <3>3, <3>4, <3>5, <1>5
  <2> QED
    BY <2>3, <2>4
<1>12. ColorInv'
  <2> SUFFICES ASSUME NEW k \in Node
               PROVE  /\ Tag(k)' \in Tags(phase)
                      /\ gc'.color[k] = IF Tag(k)' \in {"root", "dtor"} THEN "purple" ELSE "black"
                      /\ phase # "idle" /\ Tag(k)' \in {"garbage", "dtor"} => gc'.address[k] <= end
                      /\ Tag(k)' = "dtor" => k \in Destructor
                      /\ phase = "call" /\ Tag(k)' = "dtor" => gc'.address[k] >= idx
                      /\ phase = "destroy" /\ Tag(k)' = "garbage" /\ gc'.address[k] < idx => state[k] = "null"
    BY <1>1, <1>2 DEF ColorInv
  <2>1. /\ Tag(k) \in Tags(phase)
        /\ gc.color[k] = IF Tag(k) \in {"root", "dtor"} THEN "purple" ELSE "black"
        /\ phase # "idle" /\ Tag(k) \in {"garbage", "dtor"} => gc.address[k] <= end
        /\ Tag(k) = "dtor" => k \in Destructor
        /\ phase = "call" /\ Tag(k) = "dtor" => gc.address[k] >= idx
        /\ phase = "destroy" /\ Tag(k) = "garbage" /\ gc.address[k] < idx => state[k] = "null"
    BY <1>0, <1>2 DEF ColorInv
  <2> QED
    BY <2>1, <1>7
<1>13. CountInv'
  <2> SUFFICES ASSUME NEW k \in Node PROVE gc'.refcount[k] = Counted(k)'
    BY DEF CountInv
  <2>1. gc.refcount[k] = Refs(var, out, {}, frames, k) /\ gc.refcount[k] \in Nat
    BY <1>0, <1>2, Untaken
  <2>2. Taken' = {}
    BY <1>1, <1>2 DEF Taken
  <2>3. Counted(k)' = Refs(var, out', {}, frames', k)
    BY <2>2 DEF Counted, Refs, Holders
  <2>4. ASSUME NEW T, n \notin T
        PROVE  Refs(var, out', T, frames', k) = Refs(var, out, T, frames, k) + IF k = n THEN 1 ELSE 0
    <3> DEFINE P == Front(frames)
    <3>1. P \in Seq(Frame) /\ frames' = Append(P, f)
      BY <1>0, FrontIs DEF Becomes
    <3>2. Refs(var, out, T, frames, k) = Refs(var, out, T, P, k) + Weight(frames[Len(frames)], k)
      BY <1>0, RefsTop
    <3> HIDE DEF P
    <3>3. Weight(frames[Len(frames)], k) = 0
      BY <1>0, <1>3 DEF Weight, L
    <3>4. Weight(f, k) = (IF k \in out[n] THEN 1 ELSE 0) + IF k = n THEN 1 ELSE 0
      BY DEF Weight
    <3>5. Refs(var, out', T, Append(P, f), k) = Refs(var, out, T, P, k) + IF k = n THEN 1 ELSE 0
      <4>1. /\ var \in [Node -> BOOLEAN] /\ out \in [Node -> SUBSET Node] /\ P \in Seq(Frame) /\ n \in Node
            /\ out' \in [Node -> SUBSET Node] /\ out'[n] = {} /\ (\A j \in Node : j # n => out'[j] = out[j]) /\ k \in Node
            /\ n \notin T /\ f \in Frame
        BY <3>1, <1>0, <1>5, <2>4
      <4> QED
        BY ONLY <4>1, <3>4, RefsRest
    <3>6. Refs(var, out, T, P, k) \in Nat
      BY <3>1, <1>0, RefsNat
    <3> QED
      BY <3>1, <3>2, <3>3, <3>5, <3>6
  <2>5. Refs(var, out', {}, frames', k) = Refs(var, out, {}, frames, k) + IF k = n THEN 1 ELSE 0
    BY <2>4
  <2> QED
    BY <2>1, <2>3, <2>5, <1>7
<1>14. FoundInv'
  <2> SUFFICES ASSUME NEW k \in Node, state[k] # "none" PROVE (k \in Reach(Outside \cup Roots))'
    BY DEF FoundInv
  <2> DEFINE S == Outside \cup Roots
             U == Outside' \cup Roots'
  <2>1. Leads(out, S, k)
    BY ReachIs, <1>0 DEF FoundInv
  <2>2. \A m \in S : m \in U
    <3> SUFFICES ASSUME NEW m \in S PROVE m \in U
      OBVIOUS
    <3>1. CASE m \in Roots
      BY <3>1, <1>7 DEF Roots
    <3>2. CASE m \in Outside
      <4>1. \A i \in DOMAIN frames : Mentions(i, m) => i \in DOMAIN frames' /\ Mentions(i, m)'
        BY <1>2, <1>4
      <4> QED
        BY <3>2, <4>1 DEF Outside
    <3> QED
      BY <3>1, <3>2
  <2>3. \A j \in out[n] : j \in U
    <3> TAKE j \in out[n]
    <3>1. j \in Node /\ \E i \in DOMAIN frames' : Mentions(i, j)'
      BY <1>0, <1>2, <1>4
    <3> QED
      BY <3>1 DEF Outside
  <2> HIDE DEF S, U
  <2>4. \A m \in S : Leads(out', U, m)
    BY <2>2, LeadsBase
  <2>5. \A m \in Node : \A j \in out[m] : j \in out'[m] \/ Leads(out', U, j)
    BY <2>3, <1>5, LeadsBase
  <2>6. Leads(out', U, k)
    BY ONLY <2>1, <2>4, <2>5, <1>0, <1>5, Unfounded
  <2> QED
    BY <2>6 DEF Reach, Closed, Leads, U
<1>15. ASSUME phase \in {"call", "destroy"}, NEW k \in Node, Tag(k) = "garbage"
       PROVE  /\ ~var[k] /\ ~Undestructed(k)
              /\ \A i \in DOMAIN frames : Mentions(i, k) =>
                    phase = "destroy" /\ Above(i) /\ frames[i].kind \notin {"dtor", "gcdtor"}
              /\ \A m \in Node : k \in out[m] => Tag(m) = "garbage"
  <2>1. k \in OfTag("garbage")
    BY <1>15 DEF OfTag
  <2> QED
    BY <2>1, <1>0, <1>15 DEF GarbageInv
<1>16. GarbageInv'
  <2> SUFFICES ASSUME phase \in {"call", "destroy"}, NEW k \in Node, Tag(k) = "garbage"
               PROVE  /\ ~var[k] /\ ~Undestructed(k)'
                      /\ \A i \in DOMAIN frames' : Mentions(i, k)' =>
                            phase = "destroy" /\ Above(i)' /\ frames'[i].kind \notin {"dtor", "gcdtor"}
                      /\ \A m \in Node : k \in out'[m] => Tag(m)' = "garbage"
    <3>1. OfTag("garbage")' = {j \in Node : Tag(j) = "garbage"}
      BY <1>7 DEF OfTag
    <3> QED
      BY <3>1, <1>1, <1>2 DEF GarbageInv
  <2>1. ~Undestructed(k)'
    BY <1>15 DEF Undestructed
  <2>2. ASSUME NEW i \in DOMAIN frames', Mentions(i, k)'
        PROVE  phase = "destroy" /\ Above(i)' /\ frames'[i].kind \notin {"dtor", "gcdtor"}
    <3>1. CASE i # L
      <4>1. i \in DOMAIN frames /\ frames'[i] = frames[i] /\ (Above(i)' <=> Above(i)) /\ Mentions(i, k)
        BY <3>1, <2>2, <1>2
      <4> QED
        BY <4>1, <1>15
    <3>2. CASE i = L
      <4>1. k = n \/ k \in out[n]
        BY <3>2, <2>2, <1>4
      <4>2. Tag(n) = "garbage"
        BY <4>1, <1>15
      <4>3. phase = "destroy"
        BY <4>2, <1>3
      <4> QED
        BY <3>2, <4>3, <1>2
    <3> QED
      BY <3>1, <3>2
  <2>3. \A m \in Node : k \in out'[m] => Tag(m)' = "garbage"
    BY <1>5, <1>7, <1>15
  <2> QED
    BY <2>1, <2>2, <2>3, <1>15
<1>17. AllInv'
  <2> SUFFICES ASSUME phase = "destroy", rerun = "no"
               PROVE  /\ \A k \in Node : state[k] # "none" => Tag(k)' = "garbage" \/ (k \in Reach(InUse))'
                      /\ \A i \in DOMAIN frames' : Calling(i)' /\ Above(i)' =>
                            /\ Tag(frames[i].obj)' = "garbage"
                            /\ frames'[i].kind \in {"del", "last", "free", "gcfree"}
    <3>1. phase \in {"nested", "call"} => rerun # "no"
      BY <1>0 DEF AllInv
    <3> QED
      BY <3>1, <1>1 DEF AllInv
  <2>1. /\ \A k \in Node : state[k] # "none" => Tag(k) = "garbage" \/ k \in Reach(InUse)
        /\ \A i \in DOMAIN frames : Calling(i) /\ Above(i) =>
              Tag(frames[i].obj) = "garbage" /\ frames[i].kind \in {"del", "last", "free", "gcfree"}
    BY <1>0 DEF AllInv
  <2>2. Above(L) /\ Tag(n) = "garbage"
    BY <2>1, <1>0, <1>2 DEF Calling
  <2>3. InUse' = InUse
    <3>1. \A k : (\E i \in DOMAIN frames' : Mentions(i, k)' /\ ~Above(i)') <=> \E i \in DOMAIN frames : Mentions(i, k) /\ ~Above(i)
      BY <2>2, <1>2
    <3> QED
      BY <3>1 DEF InUse
  <2>4. ASSUME NEW k \in Node, k \in Reach(InUse) PROVE (k \in Reach(InUse))'
    <3> DEFINE S == InUse
               G == OfTag("garbage")
    <3>1. Leads(out, S, k)
      BY <2>4, ReachIs
    <3>2. S \in SUBSET Node
      BY DEF InUse
    <3>3. S \cap G = {}
      BY <1>15 DEF InUse, OfTag
    <3>4. \A m \in Node \ G : out[m] \subseteq out'[m] /\ out[m] \cap G = {}
      <4> TAKE m \in Node \ G
      <4>1. Tag(m) # "garbage" /\ m # n
        BY <2>2 DEF OfTag
      <4> QED
        BY <4>1, <1>0, <1>5, <1>15 DEF OfTag
    <3> HIDE DEF S, G
    <3>5. Leads(out', S, k)
      <4>1. S \subseteq S
        OBVIOUS
      <4> QED
        BY ONLY <4>1, <3>1, <3>2, <3>3, <3>4, <1>0, <1>5, LeadsAround
    <3> QED
      BY <3>5, <2>3 DEF Reach, Closed, Leads, S
  <2>5. ASSUME NEW i \in DOMAIN frames', Calling(i)', Above(i)'
        PROVE  Tag(frames[i].obj)' = "garbage" /\ frames'[i].kind \in {"del", "last", "free", "gcfree"}
    <3>1. CASE i # L
      <4>1. i \in DOMAIN frames /\ frames'[i] = frames[i] /\ Calling(i) /\ Above(i)
        BY <3>1, <2>5, <1>2 DEF Calling
      <4>2. frames[i].obj \in Node
        BY <4>1, <1>0, StackIs, FrameIs DEF Calling
      <4> QED
        BY <4>1, <4>2, <2>1, <1>7
    <3>2. CASE i = L
      BY <3>2, <2>2, <1>2, <1>7
    <3> QED
      BY <3>1, <3>2
  <2> QED
    BY <2>1, <2>4, <2>5, <1>7
<1>18. MarkInv' /\ ScanInv' /\ CollectInv'
  BY <1>1, <1>2 DEF MarkInv, ScanInv, CollectInv
<1> QED
  BY <1>7, <1>8, <1>9, <1>10, <1>11, <1>12, <1>13, <1>14, <1>16, <1>17, <1>18 DEF Inv

(* zend_objects_store_del() frees the object, unless its destructor gave   *)
(* it away.                                                                *)
LEMMA FreeObjectKeeps == ASSUME Inv, NEW n \in Node, FreeObject(n) PROVE Inv'
<1> DEFINE f == Call("free", n, out[n])
<1>1. /\ frames # <<>> /\ Top.kind = "last" /\ Top.obj = n
      /\ UNCHANGED <<state, var, dtor_called, run>>
  BY DEF FreeObject, Running
<1>2. /\ Top.rest = {} /\ ~free_called[n] /\ (gc.refcount[n] = 0 \/ Buffered(gc, n))
  BY <1>1, TopIs
<1>3. out[n] \in SUBSET Node
  BY DEF Inv, Types
<1>4. f \in Frame /\ f.kind = "free" /\ f.obj = n /\ f.rest = out[n]
  BY <1>3, CallIs
<1>5. CASE gc.refcount[n] # 0
  <2>1. frames' = Front(frames) /\ gc' = gc /\ UNCHANGED <<heap, run>>
    BY <1>1, <1>5 DEF FreeObject, Return, heap
  <2> QED
    BY <1>1, <1>2, <1>5, <2>1, JustReturns
<1>6. CASE gc.refcount[n] = 0
  <2>1. /\ free_called' = [free_called EXCEPT ![n] = TRUE] /\ gc' = Addref(gc, n)
        /\ out' = [out EXCEPT ![n] = {}] /\ frames' = Becomes(f)
    BY <1>2, <1>6 DEF FreeObject, Turn
  <2> HIDE DEF f
  <2> QED
    BY <1>1, <1>4, <1>6, <2>1, FreeBegins
<1> QED
  BY <1>5, <1>6

-----------------------------------------------------------------------------
(* The memory of an object goes when its properties are destroyed.         *)
LEMMA FreeEnds ==
    ASSUME Inv, frames # <<>>, NEW n \in Node, Top.kind = "free", Top.obj = n, Top.rest = {},
           Efree(RemoveFromBuffer(gc, n), {n}), frames' = Front(frames), UNCHANGED run
    PROVE  Inv'
<1> DEFINE L == Len(frames)
           l == Call("last", n, {})
<1>0. /\ Types /\ StackOK(frames, phase) /\ StackRest /\ HeapInv /\ FrameInv /\ ColorInv /\ FoundInv /\ GarbageInv /\ AllInv
      /\ CountInv
      /\ gc \in Headers /\ frames \in Seq(Frame) /\ idx \in Nat /\ end \in Nat /\ Wired(gc)
      /\ var \in [Node -> BOOLEAN] /\ out \in [Node -> SUBSET Node] /\ state \in [Node -> {"none", "live", "null"}]
      /\ free_called \in [Node -> BOOLEAN] /\ dtor_called \in [Node -> BOOLEAN]
      /\ frames[L] = Top
  BY DEF Inv, Types, Top
<1>1. UNCHANGED <<phase, idx, end, todo, black, has_dtors, rerun>>
  BY DEF run
<1>2. /\ frames' \in Seq(Frame) /\ StackOK(frames', phase)
      /\ L \in DOMAIN frames /\ Top \in Frame
      /\ \A i \in DOMAIN frames : i # L =>
            /\ i \in DOMAIN frames' /\ frames'[i] = frames[i] /\ frames[i].kind \notin {"del", "last"}
            /\ Above(i)' <=> Above(i)
            /\ \A k : Mentions(i, k)' <=> Mentions(i, k)
      /\ \A i \in DOMAIN frames' : i \in DOMAIN frames /\ i # L
      /\ phase \in {"idle", "call", "destroy"} /\ todo = {} /\ black = {}
      /\ phase # "idle" => Above(L)
  <2>1. l \in Frame
    BY CallIs
  <2> HIDE DEF l
  <2>2. frames' # Becomes(l)
    <3>1. Len(Becomes(l)) = Len(frames) /\ Len(Front(frames)) # Len(frames)
      BY <1>0, <2>1, FrontIs, StackIs DEF Becomes
    <3> QED
      BY <3>1
  <2> QED
    BY <2>1, <2>2, TopChanges
<1> HIDE DEF L
<1>3. state[n] = "live" /\ free_called[n] /\ out[n] = {}
  BY <1>0, TopIs DEF HeapInv
<1>4. /\ ~var[n] /\ \A m \in Node : n \notin out[m]
      /\ InRest(frames, n) = {} /\ Calls(frames, {"dtor", "gcdtor"}, n) = {}
  BY <1>0, <1>3 DEF HeapInv
<1>5. \A i \in DOMAIN frames : i # L => ~Mentions(i, n) /\ Weight(frames[i], n) = 0
  <2> SUFFICES ASSUME NEW i \in DOMAIN frames, i # L PROVE ~Mentions(i, n) /\ Weight(frames[i], n) = 0
    OBVIOUS
  <2>1. frames[i].kind # "gc" => n \notin frames[i].rest
    BY <1>4 DEF InRest
  <2>2. frames[i].kind \in {"dtor", "gcdtor"} => frames[i].obj # n
    BY <1>4 DEF Calls
  <2>3. frames[i].kind \notin {"del", "last"}
    BY <1>2
  <2>4. frames[i].kind = "free" => frames[i].obj # n
    BY <1>0, <1>2 DEF FrameInv
  <2>5. frames[i].kind = "gcfree" => frames[i].obj # n
    BY <1>0, <1>3 DEF FrameInv
  <2>6. frames[i].kind \in {"del", "dtor", "last", "free", "gcdtor", "gcfree", "gc"}
    BY <1>0, StackIs, FrameIs
  <2> QED
    BY <2>1, <2>2, <2>3, <2>4, <2>5, <2>6 DEF Mentions, Calling, Weight
<1>6. \A k : Mentions(L, k) <=> k = n
  BY <1>0, <1>2 DEF Mentions, Calling
<1>7. \A i \in DOMAIN frames' : \A k : Mentions(i, k)' => Mentions(i, k) /\ k # n
  BY <1>2, <1>5
<1>8. /\ state' \in [Node -> {"none", "live", "null"}] /\ state'[n] = "none" /\ \A k \in Node : k # n => state'[k] = state[k]
      /\ dtor_called' \in [Node -> BOOLEAN] /\ ~dtor_called'[n] /\ \A k \in Node : k # n => dtor_called'[k] = dtor_called[k]
      /\ free_called' \in [Node -> BOOLEAN] /\ ~free_called'[n] /\ \A k \in Node : k # n => free_called'[k] = free_called[k]
      /\ out' = out /\ var' = var
  <2>1. out' = out
    <3>1. out' \in [Node -> SUBSET Node] /\ \A k \in Node : out'[k] = out[k]
      BY <1>0, <1>3 DEF Efree
    <3> QED
      BY <3>1, <1>0
  <2> QED
    BY <2>1, <1>0 DEF Efree
<1>9. /\ gc' \in Headers /\ Wired(gc') /\ Len(gc'.buf) = Len(gc.buf) /\ Len(gc.buf) \in Nat
      /\ gc'.refcount[n] = 0 /\ gc'.color[n] = "black" /\ ~Buffered(gc', n) /\ Tag(n)' = "none"
      /\ \A k \in Node : k # n => /\ gc'.refcount[k] = gc.refcount[k]
                                  /\ gc'.address[k] = gc.address[k] /\ Tag(k)' = Tag(k) /\ gc'.color[k] = gc.color[k]
                                  /\ (Buffered(gc', k) <=> Buffered(gc, k))
  <2> DEFINE q == RemoveFromBuffer(gc, n)
             r == Clear(q, {n})
  <2>1. gc' = r
    BY DEF Efree, Clear
  <2>2. /\ q \in Headers /\ Wired(q)
        /\ q.refcount = gc.refcount /\ ~Buffered(q, n)
        /\ \A m \in Node \ {n} : /\ q.address[m] = gc.address[m] /\ TagIn(q, m) = TagIn(gc, m)
                                /\ q.color[m] = gc.color[m]
        /\ Len(q.buf) = Len(gc.buf)
    BY <1>0, RemoveIs
  <2> HIDE DEF q
  <2>3. /\ r \in Headers /\ Wired(r) /\ r.buf = q.buf
        /\ \A m \in {n} : r.refcount[m] = 0 /\ r.color[m] = "black" /\ ~Buffered(r, m) /\ TagIn(r, m) = "none"
        /\ \A m \in Node \ {n} : /\ r.refcount[m] = q.refcount[m] /\ r.color[m] = q.color[m]
                                 /\ r.address[m] = q.address[m] /\ TagIn(r, m) = TagIn(q, m)
                                 /\ (Buffered(r, m) <=> Buffered(q, m))
    <3>1. /\ \A m \in Node \ {n} : Buffered(q, m) => q.address[m] \in Used(q) /\ q.buf[q.address[m]].ref = m
          /\ ToSet(q.unused) = DOMAIN q.buf \ Used(q) /\ IsInjective(q.unused)
      BY <2>2 DEF Wired
    <3>2. \A i \in Used(q) : q.address[q.buf[i].ref] = i /\ q.buf[i].ref \notin {n}
      <4> TAKE i \in Used(q)
      <4>1. q.address[q.buf[i].ref] = i
        BY <2>2 DEF Wired
      <4>2. i # 0
        BY <2>2, Fields
      <4> QED
        BY <4>1, <4>2, <2>2 DEF Buffered
    <3>3. {n} \in SUBSET Node
      OBVIOUS
    <3> QED
      BY <2>2, <3>1, <3>2, <3>3, ClearIs
  <2> HIDE DEF r
  <2>4. \A m \in Node \ {n} : Buffered(r, m) <=> Buffered(gc, m)
    BY <2>2, <2>3 DEF Buffered
  <2>5. Len(gc.buf) \in Nat
    BY <1>0, Fields
  <2> QED
    BY <2>1, <2>2, <2>3, <2>4, <2>5 DEF Tag
<1>10. Types'
  BY <1>0, <1>1, <1>2, <1>8, <1>9 DEF Types
<1>11. StackOK(frames, phase)' /\ StackRest'
  <2>1. StackOK(frames, phase)'
    BY <1>1, <1>2
  <2>2. StackRest'
    BY <1>0, <1>1, <1>2, <1>9 DEF StackRest
  <2> QED
    BY <2>1, <2>2
<1>12. HeapInv'
  <2> SUFFICES ASSUME NEW k \in Node
               PROVE  /\ state'[k] = "none" =>
                            /\ ~var[k] /\ out[k] = {} /\ ~dtor_called'[k] /\ ~free_called'[k]
                            /\ ~Buffered(gc', k) /\ gc'.color[k] = "black"
                            /\ \A m \in Node : k \notin out[m]
                            /\ \A i \in DOMAIN frames' : ~Mentions(i, k)'
                      /\ free_called'[k] => out[k] = {} /\ (k \in Destructor => dtor_called'[k])
                      /\ free_called'[k] /\ state'[k] = "live" =>
                            /\ ~var[k]
                            /\ \A m \in Node : k \notin out[m]
                            /\ InRest(frames', k) = {} /\ Calls(frames', {"dtor", "gcdtor"}, k) = {}
                            /\ Calls(frames', {"free"}, k) # {}
                      /\ state'[k] = "null" => phase = "destroy" /\ free_called'[k] /\ Tag(k)' = "garbage"
    BY <1>1, <1>8 DEF HeapInv
  <2>1. /\ state[k] = "none" =>
              /\ ~var[k] /\ out[k] = {} /\ ~dtor_called[k] /\ ~free_called[k]
              /\ ~Buffered(gc, k) /\ gc.color[k] = "black"
              /\ \A m \in Node : k \notin out[m]
              /\ \A i \in DOMAIN frames : ~Mentions(i, k)
        /\ free_called[k] => out[k] = {} /\ (k \in Destructor => dtor_called[k])
        /\ free_called[k] /\ state[k] = "live" =>
              /\ ~var[k]
              /\ \A m \in Node : k \notin out[m]
              /\ InRest(frames, k) = {} /\ Calls(frames, {"dtor", "gcdtor"}, k) = {}
              /\ Calls(frames, {"free"}, k) # {}
        /\ state[k] = "null" => phase = "destroy" /\ free_called[k] /\ Tag(k) = "garbage"
    BY <1>0 DEF HeapInv
  <2>2. CASE k = n
    <3>1. \A i \in DOMAIN frames' : ~Mentions(i, n)'
      BY <1>7
    <3> QED
      BY <2>2, <3>1, <1>3, <1>4, <1>8, <1>9
  <2>3. CASE k # n
    <3>1. state[k] = "none" => \A i \in DOMAIN frames' : ~Mentions(i, k)'
      BY <2>1, <1>2, <1>7
    <3>2. free_called[k] /\ state[k] = "live" =>
              /\ InRest(frames', k) = {} /\ Calls(frames', {"dtor", "gcdtor"}, k) = {}
              /\ Calls(frames', {"free"}, k) # {}
      <4> HAVE free_called[k] /\ state[k] = "live"
      <4>1. InRest(frames', k) \subseteq InRest(frames, k)
        BY <1>2 DEF InRest
      <4>2. Calls(frames', {"dtor", "gcdtor"}, k) \subseteq Calls(frames, {"dtor", "gcdtor"}, k)
        BY <1>2 DEF Calls
      <4>3. Calls(frames, {"free"}, k) \subseteq Calls(frames', {"free"}, k)
        BY <2>3, <1>0, <1>2 DEF Calls
      <4> QED
        BY <2>1, <4>1, <4>2, <4>3
    <3> QED
      BY <2>1, <2>3, <3>1, <3>2, <1>8, <1>9
  <2> QED
    BY <2>2, <2>3
<1>13. FrameInv'
  <2> SUFFICES ASSUME NEW i \in DOMAIN frames'
               PROVE  LET h == frames'[i] IN
                      /\ h.kind \notin {"del", "last"}
                      /\ h.kind \in {"dtor", "gcdtor"} =>
                            dtor_called'[h.obj] /\ state'[h.obj] = "live" /\ ~free_called'[h.obj]
                      /\ h.kind = "free" =>
                            /\ free_called'[h.obj] /\ state'[h.obj] = "live"
                            /\ \A j \in DOMAIN frames' : frames'[j].kind = "free" /\ frames'[j].obj = h.obj => i = j
                      /\ h.kind = "gcfree" => free_called'[h.obj] /\ state'[h.obj] = "null"
                      /\ h.kind \in {"del", "dtor", "last", "gcdtor"} => h.rest = {}
    BY DEF FrameInv
  <2>1. \A j \in DOMAIN frames' : j \in DOMAIN frames /\ frames'[j] = frames[j] /\ frames[j].kind \notin {"del", "last"} /\ j # L
    BY <1>2
  <2>2. LET h == frames[i] IN
        /\ h.kind \in {"dtor", "gcdtor", "last"} =>
              dtor_called[h.obj] /\ state[h.obj] = "live" /\ ~free_called[h.obj]
        /\ h.kind = "free" =>
              /\ free_called[h.obj] /\ state[h.obj] = "live"
              /\ \A j \in DOMAIN frames : frames[j].kind = "free" /\ frames[j].obj = h.obj => i = j
        /\ h.kind = "gcfree" => free_called[h.obj] /\ state[h.obj] = "null"
        /\ h.kind \in {"del", "dtor", "last", "gcdtor"} => h.rest = {}
    BY <2>1, <1>0 DEF FrameInv
  <2>3. frames[i].kind # "gc" => frames[i].obj \in Node /\ frames[i].obj # n
    <3>1. frames[i].kind # "gc" => frames[i].obj \in Node
      BY <2>1, <1>0, StackIs, FrameIs
    <3>2. ~Mentions(i, n)
      BY <2>1, <1>5
    <3> QED
      BY <3>1, <3>2 DEF Mentions, Calling
  <2> QED
    BY <2>1, <2>2, <2>3, <1>8
<1>14. ColorInv'
  <2> SUFFICES ASSUME NEW k \in Node
               PROVE  /\ Tag(k)' \in Tags(phase)
                      /\ gc'.color[k] = IF Tag(k)' \in {"root", "dtor"} THEN "purple" ELSE "black"
                      /\ phase # "idle" /\ Tag(k)' \in {"garbage", "dtor"} => gc'.address[k] <= end
                      /\ Tag(k)' = "dtor" => k \in Destructor
                      /\ phase = "call" /\ Tag(k)' = "dtor" => gc'.address[k] >= idx
                      /\ phase = "destroy" /\ Tag(k)' = "garbage" /\ gc'.address[k] < idx => state'[k] = "null"
    BY <1>1, <1>2 DEF ColorInv
  <2>1. /\ Tag(k) \in Tags(phase)
        /\ gc.color[k] = IF Tag(k) \in {"root", "dtor"} THEN "purple" ELSE "black"
        /\ phase # "idle" /\ Tag(k) \in {"garbage", "dtor"} => gc.address[k] <= end
        /\ Tag(k) = "dtor" => k \in Destructor
        /\ phase = "call" /\ Tag(k) = "dtor" => gc.address[k] >= idx
        /\ phase = "destroy" /\ Tag(k) = "garbage" /\ gc.address[k] < idx => state[k] = "null"
    BY <1>0, <1>2 DEF ColorInv
  <2>2. CASE k = n
    BY <2>2, <1>2, <1>9 DEF Tags
  <2>3. CASE k # n
    BY <2>1, <2>3, <1>8, <1>9
  <2> QED
    BY <2>2, <2>3
<1>15. CountInv'
  <2> SUFFICES ASSUME NEW k \in Node PROVE gc'.refcount[k] = Counted(k)'
    BY DEF CountInv
  <2>1. Taken' = {}
    BY <1>1, <1>2 DEF Taken
  <2>2. Counted(k)' = Refs(var, out, {}, frames', k)
    BY <2>1, <1>8 DEF Counted, Refs, Holders
  <2>3. CASE k = n
    <3>1. \A i \in DOMAIN frames' : Weight(frames'[i], n) = 0
      BY <1>2, <1>5
    <3>2. \A T : Refs(var, out, T, frames', n) = 0
      <4> TAKE T
      <4>1. /\ var \in [Node -> BOOLEAN] /\ out \in [Node -> SUBSET Node] /\ frames' \in Seq(Frame) /\ n \in Node
            /\ ~var[n] /\ (\A m \in Node : n \in out[m] => m \in T)
        BY <1>0, <1>2, <1>4
      <4> QED
        BY ONLY <3>1, <4>1, RefsZero
    <3> QED
      BY <2>2, <2>3, <3>2, <1>9
  <2>4. CASE k # n
    <3>1. gc.refcount[k] = Refs(var, out, {}, frames, k) /\ gc.refcount[k] \in Nat
      BY <1>0, <1>2, Untaken
    <3>2. \A T : /\ Refs(var, out, T, frames, k) = Refs(var, out, T, frames', k) + Weight(Top, k)
                 /\ Refs(var, out, T, frames', k) \in Nat
      <4> SUFFICES ASSUME NEW T
                   PROVE  /\ Refs(var, out, T, frames, k) = Refs(var, out, T, Front(frames), k) + Weight(frames[Len(frames)], k)
                          /\ Refs(var, out, T, frames', k) \in Nat
        BY DEF Top
      <4>1. Refs(var, out, T, frames', k) \in Nat
        BY <1>0, <1>2, RefsNat
      <4>2. Refs(var, out, T, frames, k) = Refs(var, out, T, Front(frames), k) + Weight(frames[Len(frames)], k)
        BY <1>0, RefsTop
      <4> QED
        BY <4>1, <4>2
    <3>3. Weight(Top, k) = 0
      BY <2>4 DEF Weight
    <3>4. Refs(var, out, {}, frames, k) = Refs(var, out, {}, frames', k) + Weight(Top, k) /\ Refs(var, out, {}, frames', k) \in Nat
      BY <3>2
    <3>5. Refs(var, out, {}, frames, k) = Refs(var, out, {}, frames', k)
      BY <3>3, <3>4
    <3> QED
      BY <2>2, <2>4, <3>1, <3>5, <1>9
  <2> QED
    BY <2>3, <2>4
<1>16. FoundInv'
  <2> SUFFICES ASSUME NEW k \in Node, state'[k] # "none" PROVE (k \in Reach(Outside \cup Roots))'
    BY DEF FoundInv
  <2> DEFINE S == Outside \cup Roots
             U == Outside' \cup Roots'
             Z == {n}
  <2>1. k \notin Z /\ Leads(out, S, k)
    <3>1. k # n /\ state[k] # "none"
      BY <1>8
    <3>2. Leads(out, S, k)
      BY <3>1, ReachIs, <1>0 DEF FoundInv
    <3> QED
      BY <3>1, <3>2
  <2>2. \A m \in S : m \in Z \/ m \in U
    <3> SUFFICES ASSUME NEW m \in S, m # n PROVE m \in U
      OBVIOUS
    <3>1. CASE m \in Roots
      BY <3>1, <1>9 DEF Roots
    <3>2. CASE m \in Outside
      <4>1. \A i \in DOMAIN frames : Mentions(i, m) => i \in DOMAIN frames' /\ Mentions(i, m)'
        BY <1>2, <1>6
      <4> QED
        BY <3>2, <4>1, <1>8 DEF Outside
    <3> QED
      BY <3>1, <3>2
  <2>3. S \in SUBSET Node
    BY DEF Outside, Roots
  <2>4. Z \in SUBSET Node /\ \A z \in Z : out[z] \subseteq Z
    BY <1>3
  <2> HIDE DEF S, U, Z
  <2>5. \A m \in S : m \in Z \/ Leads(out, U, m)
    BY <2>2, LeadsBase
  <2>6. \A m \in Node \ Z : \A j \in out[m] : j \in out[m] \/ j \in Z \/ Leads(out, U, j)
    OBVIOUS
  <2>7. Leads(out, U, k)
    BY ONLY <1>0, <2>1, <2>3, <2>4, <2>5, <2>6, LeadsStep
  <2>8. Leads(out', U, k)
    BY <2>7, <1>8
  <2> QED
    BY <2>8 DEF Reach, Closed, Leads, U
<1>17. GarbageInv'
  <2> SUFFICES ASSUME phase \in {"call", "destroy"}, NEW k \in Node, Tag(k)' = "garbage"
               PROVE  /\ ~var[k] /\ ~Undestructed(k)'
                      /\ \A i \in DOMAIN frames' : Mentions(i, k)' =>
                            phase = "destroy" /\ Above(i)' /\ frames'[i].kind \notin {"dtor", "gcdtor"}
                      /\ \A m \in Node : k \in out[m] => Tag(m)' = "garbage"
    <3>1. OfTag("garbage")' = {j \in Node : Tag(j)' = "garbage"}
      BY DEF OfTag
    <3> QED
      BY <3>1, <1>1, <1>2, <1>8 DEF GarbageInv
  <2>1. k # n /\ k \in OfTag("garbage")
    BY <1>9 DEF OfTag
  <2>2. /\ ~var[k] /\ ~Undestructed(k)
        /\ \A i \in DOMAIN frames : Mentions(i, k) =>
              phase = "destroy" /\ Above(i) /\ frames[i].kind \notin {"dtor", "gcdtor"}
        /\ \A m \in Node : k \in out[m] => Tag(m) = "garbage"
    BY <2>1, <1>0 DEF GarbageInv
  <2>3. ~Undestructed(k)'
    BY <2>1, <2>2, <1>8 DEF Undestructed
  <2>4. \A i \in DOMAIN frames' : Mentions(i, k)' =>
           phase = "destroy" /\ Above(i)' /\ frames'[i].kind \notin {"dtor", "gcdtor"}
    BY <2>2, <1>2
  <2>5. \A m \in Node : k \in out[m] => Tag(m)' = "garbage"
    BY <2>2, <1>3, <1>9
  <2> QED
    BY <2>2, <2>3, <2>4, <2>5
<1>18. AllInv'
  <2> SUFFICES ASSUME phase = "destroy", rerun = "no"
               PROVE  /\ \A k \in Node : state'[k] # "none" => Tag(k)' = "garbage" \/ (k \in Reach(InUse))'
                      /\ \A i \in DOMAIN frames' : Calling(i)' /\ Above(i)' =>
                            /\ Tag(frames[i].obj)' = "garbage"
                            /\ frames'[i].kind \in {"del", "last", "free", "gcfree"}
    <3>1. phase \in {"nested", "call"} => rerun # "no"
      BY <1>0 DEF AllInv
    <3> QED
      BY <3>1, <1>1 DEF AllInv
  <2>1. /\ \A k \in Node : state[k] # "none" => Tag(k) = "garbage" \/ k \in Reach(InUse)
        /\ \A i \in DOMAIN frames : Calling(i) /\ Above(i) =>
              Tag(frames[i].obj) = "garbage" /\ frames[i].kind \in {"del", "last", "free", "gcfree"}
    BY <1>0 DEF AllInv
  <2>2. InUse' = InUse
    <3>1. \A k : (\E i \in DOMAIN frames' : Mentions(i, k)' /\ ~Above(i)') <=> \E i \in DOMAIN frames : Mentions(i, k) /\ ~Above(i)
      BY <1>2
    <3> QED
      BY <3>1, <1>8 DEF InUse
  <2>3. \A k : (k \in Reach(InUse))' <=> k \in Reach(InUse)
    BY <2>2, <1>8 DEF Reach, Closed
  <2>4. ASSUME NEW i \in DOMAIN frames', Calling(i)', Above(i)'
        PROVE  Tag(frames[i].obj)' = "garbage" /\ frames'[i].kind \in {"del", "last", "free", "gcfree"}
    <3>1. i \in DOMAIN frames /\ frames'[i] = frames[i] /\ Calling(i) /\ Above(i) /\ i # L
      BY <2>4, <1>2 DEF Calling
    <3>2. frames[i].obj \in Node /\ frames[i].obj # n
      BY <3>1, <1>0, <1>5, StackIs, FrameIs DEF Calling, Mentions
    <3> QED
      BY <3>1, <3>2, <2>1, <1>9
  <2>5. ASSUME NEW k \in Node, state'[k] # "none" PROVE Tag(k)' = "garbage" \/ (k \in Reach(InUse))'
    <3>1. k # n /\ state[k] # "none"
      BY <2>5, <1>8
    <3> QED
      BY <3>1, <2>1, <2>3, <1>9
  <2> QED
    BY <2>4, <2>5
<1>19. MarkInv' /\ ScanInv' /\ CollectInv'
  BY <1>1, <1>2 DEF MarkInv, ScanInv, CollectInv
<1> QED
  BY <1>9, <1>10, <1>11, <1>12, <1>13, <1>14, <1>15, <1>16, <1>17, <1>18, <1>19 DEF Inv

(* The properties are gone: the memory is given back, by the collector     *)
(* later.                                                                  *)
LEMMA EndFreeKeeps == ASSUME Inv, NEW n \in Node, EndFree(n) PROVE Inv'
<1>1. /\ frames # <<>> /\ Top.kind \in {"free", "gcfree"} /\ Top.obj = n /\ Top.rest = {}
      /\ frames' = Front(frames) /\ UNCHANGED run
      /\ IF Top.kind = "free" THEN Efree(RemoveFromBuffer(gc, n), {n})
         ELSE gc' = Delref(gc, n) /\ UNCHANGED heap
  BY DEF EndFree, Running, Return
<1>2. CASE Top.kind = "free"
  BY <1>1, <1>2, FreeEnds
<1>3. CASE Top.kind = "gcfree"
  <2>1. state[n] = "null"
    BY <1>1, <1>3, TopIs
  <2>2. Buffered(gc, n)
    BY <2>1 DEF Inv, HeapInv, Tag, TagIn
  <2> QED
    BY <1>1, <1>3, <2>2, JustReturns
<1> QED
  BY <1>1, <1>2, <1>3

-----------------------------------------------------------------------------
(* Nothing is allocated at first.                                          *)
LEMMA InitInv == Init => Inv
<1> SUFFICES ASSUME Init PROVE Inv
  OBVIOUS
<1>1. /\ state = [n \in Node |-> "none"]
      /\ out = [n \in Node |-> {}] /\ var = [n \in Node |-> FALSE]
      /\ dtor_called = [n \in Node |-> FALSE] /\ free_called = [n \in Node |-> FALSE]
      /\ gc = [refcount |-> [n \in Node |-> 0], color |-> [n \in Node |-> "black"],
               address |-> [n \in Node |-> 0], buf |-> <<>>, unused |-> <<>>]
      /\ frames = <<>>
      /\ phase = "idle" /\ idx = 1 /\ end = 0 /\ todo = {} /\ black = {}
      /\ has_dtors = FALSE /\ rerun = "no"
  BY DEF Init
<1>2. /\ frames \in Seq(Frame) /\ DOMAIN frames = {}
      /\ gc.buf \in Seq(Entry) /\ gc.unused \in Seq(Nat) /\ DOMAIN gc.buf = {} /\ DOMAIN gc.unused = {}
  BY <1>1, EmptySeq
<1>3. gc \in Headers
  BY <1>1, <1>2 DEF Headers, Colors
<1>4. Types
  BY <1>1, <1>2, <1>3 DEF Types, Phases
<1>5. StackOK(frames, phase) /\ StackRest
  BY <1>1, <1>2 DEF StackOK, StackRest
<1>6. \A n \in Node : ~Buffered(gc, n) /\ Tag(n) = "none" /\ gc.refcount[n] = 0 /\ gc.color[n] = "black"
  BY <1>1 DEF Buffered, Tag, TagIn
<1>7. Wired(gc)
  <2>1. Used(gc) = {}
    BY <1>2 DEF Used
  <2> QED
    BY <2>1, <1>2, <1>3, <1>6, WiredIs
<1>8. HeapInv /\ FrameInv /\ FoundInv
  BY <1>1, <1>2, <1>6 DEF HeapInv, FrameInv, FoundInv
<1>9. ColorInv
  BY <1>1, <1>6 DEF ColorInv, Tags
<1>10. CountInv
  <2> SUFFICES ASSUME NEW n \in Node PROVE Counted(n) = 0
    BY <1>6 DEF CountInv
  <2>1. \A T : Refs(var, out, T, frames, n) = 0
    <3> TAKE T
    <3>1. /\ var \in [Node -> BOOLEAN] /\ out \in [Node -> SUBSET Node] /\ frames \in Seq(Frame) /\ n \in Node
          /\ ~var[n] /\ (\A m \in Node : n \in out[m] => m \in T) /\ \A i \in DOMAIN frames : Weight(frames[i], n) = 0
      BY <1>1, <1>2
    <3> QED
      BY ONLY <3>1, RefsZero
  <2> QED
    BY <2>1, CountedIs
<1>11. MarkInv /\ ScanInv /\ CollectInv /\ GarbageInv /\ AllInv
  BY <1>1 DEF MarkInv, ScanInv, CollectInv, GarbageInv, AllInv
<1> QED
  BY <1>4, <1>5, <1>7, <1>8, <1>9, <1>10, <1>11 DEF Inv

(* Nothing happens.                                                        *)
LEMMA StutterKeeps == ASSUME Inv, UNCHANGED vars PROVE Inv'
<1>1. UNCHANGED <<state, out, var, dtor_called, free_called, gc, frames, phase, idx, end, todo, black, has_dtors, rerun>>
  BY DEF vars, heap, run
<1>2. Types' /\ StackOK(frames, phase)' /\ StackRest' /\ Wired(gc)'
  BY <1>1 DEF Inv, Types, StackRest, Running, Top
<1>3. HeapInv' /\ FrameInv'
  <2>1. HeapInv'
    BY <1>1 DEF Inv, HeapInv, Mentions, Calling, Tag
  <2>2. FrameInv'
    BY <1>1 DEF Inv, FrameInv
  <2> QED
    BY <2>1, <2>2
<1>4. ColorInv'
  BY <1>1 DEF Inv, ColorInv, Tag
<1>5. CountInv'
  BY <1>1 DEF Inv, CountInv, Counted, Holders, Taken, Painted
<1>6. FoundInv'
  BY <1>1 DEF Inv, FoundInv, Reach, Closed, Outside, Roots, Mentions, Calling
<1>7. MarkInv' /\ ScanInv' /\ CollectInv'
  <2>1. MarkInv'
    BY <1>1 DEF Inv, MarkInv, Reach, Closed, Roots, Painted
  <2>2. ScanInv'
    BY <1>1 DEF Inv, ScanInv, Reach, Closed, Outside, Roots, Mentions, Calling, Painted
  <2>3. CollectInv'
    BY <1>1 DEF Inv, CollectInv, Reach, Closed, Outside, Roots, Mentions, Calling, Painted, Dead, Undestructed
  <2> QED
    BY <2>1, <2>2, <2>3
<1>8. GarbageInv'
  BY <1>1 DEF Inv, GarbageInv, OfTag, Tag, Reach, Closed, Mentions, Calling, Above, Undestructed
<1>9. AllInv'
  BY <1>1 DEF Inv, AllInv, Tag, Reach, Closed, InUse, Mentions, Calling, Above
<1> QED
  BY <1>2, <1>3, <1>4, <1>5, <1>6, <1>7, <1>8, <1>9 DEF Inv

-----------------------------------------------------------------------------
(* Every step keeps the invariant.                                         *)
LEMMA NextKeeps == ASSUME Inv, Next PROVE Inv'
<1>1. CASE Script
  BY <1>1, ScriptKeeps
<1>2. CASE Collect
  BY <1>2, CollectKeeps
<1>3. CASE \E n \in Node : EndDestructor(n)
  BY <1>3, EndDestructorKeeps
<1>4. CASE \E n \in Node : CallDestructor(n) \/ FreeObject(n) \/ DestroyProperty(n) \/ EndFree(n)
  BY <1>4, CallDestructorKeeps, FreeObjectKeeps, DestroyPropertyKeeps, EndFreeKeeps
<1>5. CASE \E n \in Node : MarkGrey(n) \/ Scan(n) \/ ScanBlack(n) \/ CollectWhite(n) \/ RemoveNested(n)
  BY <1>5, MarkGreyKeeps, ScanKeeps, ScanBlackKeeps, CollectWhiteKeeps, RemoveNestedKeeps
<1>6. CASE MarkRoot \/ EndMark \/ ScanRoot \/ EndScan \/ CollectRoot \/ EndCollect
  BY <1>6, MarkRootKeeps, EndMarkKeeps, ScanRootKeeps, EndScanKeeps, CollectRootKeeps, EndCollectKeeps
<1>7. CASE NestedRoot \/ EndNested \/ CallNext \/ EndCalls \/ Destroy \/ EndDestroy
  BY <1>7, NestedRootKeeps, EndNestedKeeps, CallNextKeeps, EndCallsKeeps, DestroyKeeps, EndDestroyKeeps
<1> QED
  BY <1>1, <1>2, <1>3, <1>4, <1>5, <1>6, <1>7 DEF Next, Engine

(* The invariant of the collector and of the last release holds at all     *)
(* times: in between of the steps of zend_gc_collect_cycles(),             *)
(* zend_objects_store_del() and of the destructors that they call.         *)
THEOREM InvariantHolds == Spec => []IInv
<1>1. Init => Inv
  BY InitInv
<1>2. Inv /\ [Next]_vars => Inv'
  BY NextKeeps, StutterKeeps
<1>3. Inv => IInv
  BY InvIs
<1> QED
  BY <1>1, <1>2, <1>3, PTL DEF Spec

(* What the program gets at is held by a reference that is counted.        *)
LEMMA Dangling == IInv => NoDangling
<1> SUFFICES ASSUME IInv PROVE NoDangling
  OBVIOUS
<1>1. Inv
  BY InvIs
<1>2. \A n \in Visible : state[n] = "live" /\ ~free_called[n]
  BY <1>1, VisibleUsable
<1>3. \A n \in Node : \A m \in out[n] : state[m] # "none"
  BY <1>1, ChildrenAre
<1>4. ASSUME NEW i \in DOMAIN frames, frames[i].kind \in {"free", "gcfree"}, NEW m \in frames[i].rest
      PROVE  state[m] # "none"
  <2>1. frames[i].rest \in SUBSET Node
    BY <1>1, <1>4, StackIs, FrameIs DEF Inv, Types
  <2>2. m \in Node /\ Mentions(i, m)
    BY <1>4, <2>1 DEF Mentions, Calling
  <2> QED
    BY <1>1, <2>2 DEF Inv, HeapInv
<1> QED
  BY <1>2, <1>3, <1>4 DEF NoDangling

(* No reference leads to memory that was given back, and what the program  *)
(* or a destructor can get at has not been destroyed                       *)
(* (zend_gc.c:1488-1493, 1519).                                            *)
THEOREM NothingDangles == Spec => []NoDangling
  BY InvariantHolds, Dangling, PTL

(* Outside of the traversals nothing is taken from the counts.             *)
LEMMA Exact == IInv => RefcountExact
<1> SUFFICES ASSUME IInv, phase \notin {"mark", "scan", "collect"}, NEW n \in Node
             PROVE  gc.refcount[n] = References(n)
  BY DEF RefcountExact
<1>1. Types /\ CountInv
  BY InvIs DEF Inv
<1>2. Taken = {} /\ gc.refcount[n] = Counted(n)
  BY <1>1, Untaken DEF CountInv
<1>3. Holders(n) \ Taken = Holders(n)
  BY <1>2
<1> QED
  BY <1>2, <1>3 DEF Counted, References

(* Outside of the traversals every count is the number of references       *)
(* (zend_gc.c:692, 814, 1149).                                             *)
THEOREM CountsAreExact == Spec => []RefcountExact
  BY InvariantHolds, Exact, PTL

(* Between runs the buffer holds roots only, and they are purple.          *)
LEMMA Consistent == IInv => BufferConsistent
<1> SUFFICES ASSUME IInv PROVE BufferConsistent
  OBVIOUS
<1>1. TypeOK /\ Wired(gc) /\ ColorInv
  BY DEF IInv
<1>2. ASSUME phase = "idle", NEW n \in Node
      PROVE  gc.color[n] = IF Buffered(gc, n) THEN "purple" ELSE "black"
  <2>1. /\ Tag(n) \in {"none", "root"}
        /\ gc.color[n] = IF Tag(n) \in {"root", "dtor"} THEN "purple" ELSE "black"
    BY <1>1, <1>2 DEF ColorInv, Tags
  <2>2. Tag(n) = "root" <=> Buffered(gc, n)
    <3>1. CASE Buffered(gc, n)
      <4>1. Tag(n) # "none"
        <5>1. gc \in Headers
          BY InvIs DEF Inv, Types
        <5> QED
          BY <1>1, <3>1, <5>1, SlotIs DEF Tag
      <4> QED
        BY <2>1, <3>1, <4>1
    <3>2. CASE ~Buffered(gc, n)
      BY <3>2 DEF Tag, TagIn
    <3> QED
      BY <3>1, <3>2
  <2> QED
    BY <2>1, <2>2
<1> QED
  BY <1>1, <1>2 DEF BufferConsistent, Wired

(* An object and its slot in the buffer of roots always know each other,   *)
(* the unused slots are listed once, and a root between two runs is        *)
(* purple (zend_gc.c:627, 669, 937, 1496).                                 *)
THEOREM BufferIsConsistent == Spec => []BufferConsistent
  BY InvariantHolds, Consistent, PTL

(* Without calls, variables and roots lead to all objects: to the garbage  *)
(* the roots that are garbage themselves.                                  *)
LEMMA Found == IInv => GarbageIsFound
<1> SUFFICES ASSUME IInv, frames = <<>>, NEW k \in Lost
             PROVE  k \in Reach({r \in Lost : Buffered(gc, r)})
  BY DEF GarbageIsFound
<1>1. Inv /\ DOMAIN frames = {} /\ out \in [Node -> SUBSET Node]
  BY InvIs DEF Inv, Types
<1> DEFINE V == {n \in Node : var[n]}
           R == {r \in Lost : Buffered(gc, r)}
<1>2. Outside = V
  BY <1>1 DEF Outside
<1>3. {n \in Node : var[n]} \cup This = V
  BY <1>1 DEF This
<1>4. Visible = Reach(V)
  BY <1>3 DEF Visible
<1>5. k \in Node /\ state[k] = "live" /\ k \notin Reach(V)
  BY <1>4 DEF Lost
<1>6. k \in Reach(V \cup Roots)
  BY <1>1, <1>2, <1>5 DEF Inv, FoundInv
<1>7. \A r \in Roots : r \in Reach(V) \/ r \in R
  <2> TAKE r \in Roots
  <2>1. r \in Node /\ Buffered(gc, r)
    BY DEF Roots
  <2>2. state[r] # "none"
    BY <1>1, <2>1, ChildrenAre
  <2>3. state[r] # "null"
    <3>1. phase # "destroy"
      BY <1>1 DEF Inv, StackOK, HasGc
    <3> QED
      BY <1>1, <2>1, <3>1, ChildrenAre
  <2>4. state[r] = "live"
    BY <1>1, <2>1, <2>2, <2>3 DEF Inv, Types
  <2> QED
    BY <1>4, <2>1, <2>4 DEF Lost
<1> HIDE DEF V, R
<1>8. V \subseteq Node
  BY DEF V
<1>9. SUFFICES ASSUME NEW C \in SUBSET Node, R \subseteq C, Closed(C) PROVE k \in C
  BY <1>5 DEF Reach, R
<1> DEFINE D == C \cup Reach(V)
<1>10. D \in SUBSET Node
  BY DEF Reach
<1>11. V \cup Roots \subseteq D
  <2>1. V \subseteq Reach(V)
    BY <1>8 DEF Reach
  <2> QED
    BY <2>1, <1>7, <1>9
<1>12. Closed(D)
  <2>1. \A m \in Reach(V) : out[m] \subseteq Reach(V)
    BY <1>1 DEF Reach, Closed
  <2> QED
    BY <2>1, <1>9 DEF Closed
<1>13. k \in D
  <2> HIDE DEF D
  <2> QED
    BY <1>6, <1>10, <1>11, <1>12 DEF Reach
<1> QED
  BY <1>5, <1>13

(* From the roots in the buffer the collector gets to all garbage there    *)
(* is, when no call is in progress (zend_gc.c:1298, 1329, 1633).           *)
THEOREM GarbageFoundAlways == Spec => []GarbageIsFound
  BY InvariantHolds, Found, PTL

-----------------------------------------------------------------------------
(* No destructor starts in a step that leaves the stack alone, shortens it *)
(* or puts another call on its top.                                        *)
Starts(n) == Destructing(frames', n) /\ frames' # frames /\ Len(frames') >= Len(frames)

(* No destructor starts in a step that leaves the stack alone, shortens    *)
(* it or puts another call on its top.                                     *)
LEMMA NoStart ==
    ASSUME frames \in Seq(Frame), NEW n,
           \/ frames' = frames
           \/ frames # <<>> /\ frames' = Front(frames)
           \/ frames'[Len(frames')].kind \notin {"dtor", "gcdtor"}
    PROVE  ~Starts(n)
<1>1. CASE frames # <<>> /\ frames' = Front(frames)
  <2>1. Len(frames') = Len(frames) - 1 /\ Len(frames) \in Nat
    BY <1>1, FrontIs, StackIs
  <2> QED
    BY <2>1 DEF Starts
<1>2. CASE frames'[Len(frames')].kind \notin {"dtor", "gcdtor"}
  BY <1>2 DEF Starts, Destructing
<1>3. CASE frames' = frames
  BY <1>3 DEF Starts
<1> QED
  BY <1>1, <1>2, <1>3

(* The call that is on the top after a step.                               *)
LEMMA TopAfter ==
    ASSUME frames \in Seq(Frame), NEW f \in Frame
    PROVE  /\ frames' = Append(frames, f) => frames'[Len(frames')] = f /\ frames' # <<>> /\ frames' # frames /\ Len(frames') >= Len(frames)
           /\ frames # <<>> /\ frames' = Becomes(f) => frames'[Len(frames')] = f /\ frames' # <<>> /\ Len(frames') = Len(frames)
<1>1. CASE frames' = Append(frames, f)
  <2> DEFINE G == Append(frames, f)
  <2>1. G # <<>> /\ Len(G) = Len(frames) + 1 /\ G[Len(G)] = f /\ Len(frames) \in Nat
    BY Pushed
  <2> HIDE DEF G
  <2>2. frames' = G
    BY <1>1 DEF G
  <2>3. frames' # Becomes(f) \/ frames = <<>>
    <3>1. frames # <<>> => Len(Becomes(f)) = Len(frames)
      BY Turned DEF Becomes
    <3> QED
      BY <2>1, <2>2, <3>1
  <2>4. frames' # frames
    BY <2>1, <2>2
  <2> QED
    BY <1>1, <2>1, <2>2, <2>3, <2>4
<1>2. CASE frames # <<>> /\ frames' = Becomes(f)
  <2> DEFINE G == Becomes(f)
  <2>1. G # <<>> /\ Len(G) = Len(frames) /\ G[Len(G)] = f
    BY <1>2, Turned DEF Becomes
  <2> HIDE DEF G
  <2>2. frames' = G
    BY <1>2 DEF G
  <2>3. frames' # Append(frames, f)
    <3>1. Len(Append(frames, f)) = Len(frames) + 1 /\ Len(frames) \in Nat
      BY PushIs
    <3> QED
      BY <2>1, <2>2, <3>1
  <2> QED
    BY <1>2, <2>1, <2>2, <2>3
<1> QED
  BY <1>1, <1>2

(* A release starts none: it calls zend_objects_store_del() at most.       *)
LEMMA ReleaseStarts ==
    ASSUME frames \in Seq(Frame), NEW m \in Node, NEW F \in Seq(Frame), Release(m, F), NEW n,
           F = frames \/ (F # <<>> /\ F[Len(F)].kind \notin {"dtor", "gcdtor"})
    PROVE  ~Starts(n)
<1> DEFINE d == Call("del", m, {})
           G == Append(F, d)
<1>1. d \in Frame /\ d.kind = "del"
  BY CallIs
<1>2. frames' = G \/ frames' = F
  BY DEF Release
<1> HIDE DEF d
<1>3. G[Len(G)] = d
  BY <1>1, Pushed
<1> HIDE DEF G
<1> QED
  BY <1>1, <1>2, <1>3, NoStart

(* The program starts none.                                                *)
LEMMA ScriptStarts ==
    ASSUME Inv, Script, NEW n
    PROVE  ~Starts(n) /\ UNCHANGED <<dtor_called>>
<1>0. frames \in Seq(Frame)
  BY DEF Inv, Types
<1>1. \A m \in Visible : m \in Node
  BY VisibleUsable
<1>2. ASSUME NEW m \in Node, New(m) PROVE ~Starts(n) /\ UNCHANGED <<dtor_called>>
  BY <1>0, <1>2, NoStart DEF New
<1>3. ASSUME NEW m \in Node, Unset(m) PROVE ~Starts(n) /\ UNCHANGED <<dtor_called>>
  BY <1>0, <1>3, ReleaseStarts DEF Unset
<1>4. ASSUME NEW m \in Visible, Fetch(m) PROVE ~Starts(n) /\ UNCHANGED <<dtor_called>>
  BY <1>0, <1>4, NoStart DEF Fetch
<1>5. ASSUME NEW k \in Visible, NEW m \in Visible, Assign(k, m) PROVE ~Starts(n) /\ UNCHANGED <<dtor_called>>
  BY <1>0, <1>5, NoStart DEF Assign
<1>6. ASSUME NEW k \in Visible, NEW m \in Visible, UnsetProperty(k, m) PROVE ~Starts(n) /\ UNCHANGED <<dtor_called>>
  BY <1>0, <1>1, <1>6, ReleaseStarts DEF UnsetProperty
<1> QED
  BY <1>2, <1>3, <1>4, <1>5, <1>6 DEF Script

(* zend_objects_store_del() starts one that was not called before.         *)
LEMMA CallStarts ==
    ASSUME Inv, NEW m \in Node, CallDestructor(m), NEW n \in Destructor
    PROVE  Starts(n) <=> dtor_called'[n] /\ ~dtor_called[n]
<1> DEFINE d == Call("dtor", m, {})
           l == Call("last", m, {})
<1>0. frames \in Seq(Frame) /\ dtor_called \in [Node -> BOOLEAN] /\ n \in Node
  BY ZendGcAssumption DEF Inv, Types
<1>1. /\ frames # <<>> /\ Top.kind = "del"
      /\ dtor_called' = [dtor_called EXCEPT ![m] = TRUE]
      /\ \/ frames' = Becomes(d) /\ m \in Destructor /\ ~dtor_called[m]
         \/ frames' = Becomes(l) /\ (m \notin Destructor \/ dtor_called[m])
  BY DEF CallDestructor, Running, Turn
<1>2. d \in Frame /\ d.kind = "dtor" /\ d.obj = m /\ l \in Frame /\ l.kind = "last"
  BY CallIs
<1> HIDE DEF d, l
<1>3. dtor_called'[m] /\ \A k \in Node : k # m => dtor_called'[k] = dtor_called[k]
  BY <1>0, <1>1
<1>4. CASE frames' = Becomes(d) /\ m \in Destructor /\ ~dtor_called[m]
  <2>1. frames'[Len(frames')] = d /\ frames' # <<>> /\ Len(frames') = Len(frames)
    BY <1>0, <1>1, <1>2, <1>4, TopAfter
  <2>2. frames' # frames
    BY <1>1, <1>2, <2>1 DEF Top
  <2>3. Len(frames) \in Nat
    BY <1>0, StackIs
  <2>4. Starts(n) <=> n = m
    BY <1>2, <2>1, <2>2, <2>3 DEF Starts, Destructing
  <2> QED
    BY <1>0, <1>3, <1>4, <2>4
<1>5. CASE frames' = Becomes(l) /\ (m \notin Destructor \/ dtor_called[m])
  <2>1. frames'[Len(frames')] = l
    BY <1>0, <1>1, <1>2, <1>5, TopAfter
  <2>2. ~Starts(n)
    BY <1>0, <1>2, <2>1, NoStart
  <2> QED
    BY <1>0, <1>3, <1>5, <2>2
<1> QED
  BY <1>1, <1>4, <1>5

-----------------------------------------------------------------------------
(* No other step of a call starts one.                                     *)
LEMMA CallsStart ==
    ASSUME Inv, NEW m \in Node, NEW n \in Destructor,
           EndDestructor(m) \/ FreeObject(m) \/ DestroyProperty(m) \/ EndFree(m)
    PROVE  ~Starts(n) /\ ~(dtor_called'[n] /\ ~dtor_called[n])
<1>0. frames \in Seq(Frame) /\ n \in Node
  BY ZendGcAssumption DEF Inv, Types
<1>1. CASE EndDestructor(m)
  <2> DEFINE l == Call("last", m, {})
  <2>1. frames # <<>> /\ (frames' = Becomes(l) \/ frames' = Front(frames)) /\ UNCHANGED dtor_called
    BY <1>1 DEF EndDestructor, Running, Turn, Return, heap
  <2>2. l \in Frame /\ l.kind = "last"
    BY CallIs
  <2> HIDE DEF l
  <2>3. frames' = Becomes(l) => frames'[Len(frames')] = l
    BY <1>0, <2>1, <2>2, TopAfter
  <2> QED
    BY <1>0, <2>1, <2>2, <2>3, NoStart
<1>2. CASE FreeObject(m)
  <2> DEFINE f == Call("free", m, out[m])
  <2>1. frames # <<>> /\ (frames' = Becomes(f) \/ frames' = Front(frames)) /\ UNCHANGED dtor_called
    BY <1>2 DEF FreeObject, Running, Turn, Return
  <2>2. f \in Frame /\ f.kind = "free"
    <3>1. out[m] \in SUBSET Node
      BY DEF Inv, Types
    <3> QED
      BY <3>1, CallIs
  <2> HIDE DEF f
  <2>3. frames' = Becomes(f) => frames'[Len(frames')] = f
    BY <1>0, <2>1, <2>2, TopAfter
  <2> QED
    BY <1>0, <2>1, <2>2, <2>3, NoStart
<1>3. CASE DestroyProperty(m)
  <2> DEFINE f == [Top EXCEPT !.rest = @ \ {m}]
             F == Becomes(f)
  <2>1. /\ frames # <<>> /\ Top.kind \in {"free", "gcfree"} /\ Release(m, F) /\ UNCHANGED dtor_called
    BY <1>3 DEF DestroyProperty, Running, heap
  <2>2. Top \in Frame
    BY <1>0, <2>1, StackIs DEF Top
  <2>3. f \in Frame /\ f.kind = Top.kind
    BY <2>1, <2>2 DEF Frame
  <2> HIDE DEF f
  <2>4. F \in Seq(Frame) /\ F # <<>> /\ F[Len(F)] = f
    BY <1>0, <2>1, <2>3, Turned DEF Becomes
  <2> HIDE DEF F
  <2>5. F[Len(F)].kind \notin {"dtor", "gcdtor"}
    BY <2>1, <2>3, <2>4
  <2>6. ~Starts(n)
    BY <1>0, <2>1, <2>4, <2>5, ReleaseStarts
  <2> QED
    BY <2>1, <2>6
<1>4. CASE EndFree(m)
  <2>1. /\ frames # <<>> /\ frames' = Front(frames)
        /\ dtor_called' = dtor_called \/ dtor_called' = [k \in Node |-> k \notin {m} /\ dtor_called[k]]
    BY <1>4 DEF EndFree, Running, Return, Efree, heap
  <2>2. dtor_called'[n] => dtor_called[n]
    BY <1>0, <2>1
  <2> QED
    BY <1>0, <2>1, <2>2, NoStart
<1> QED
  BY <1>1, <1>2, <1>3, <1>4

(* Nor do the traversals.                                                  *)
LEMMA TraversalStarts ==
    ASSUME Inv, NEW n \in Destructor,
           \/ Collect \/ MarkRoot \/ EndMark \/ ScanRoot \/ EndScan \/ CollectRoot
           \/ NestedRoot \/ EndNested \/ EndCalls
           \/ \E m \in Node : MarkGrey(m) \/ Scan(m) \/ ScanBlack(m) \/ CollectWhite(m) \/ RemoveNested(m)
    PROVE  ~Starts(n) /\ UNCHANGED dtor_called
<1>0. frames \in Seq(Frame)
  BY DEF Inv, Types
<1>1. CASE Collect
  <2> DEFINE g == [kind |-> "gc"]
  <2>1. (frames' = Append(frames, g) \/ frames' = frames) /\ UNCHANGED dtor_called
    BY <1>1 DEF Collect, Enters, heap
  <2>2. g \in Frame /\ g.kind = "gc"
    BY DEF Frame
  <2> HIDE DEF g
  <2>3. frames' = Append(frames, g) => frames'[Len(frames')] = g
    BY <1>0, <2>2, TopAfter
  <2> QED
    BY <1>0, <2>1, <2>2, <2>3, NoStart
<1>2. CASE MarkRoot \/ EndMark \/ ScanRoot \/ EndScan \/ CollectRoot \/ NestedRoot \/ EndNested \/ EndCalls
  <2>1. frames' = frames /\ dtor_called' = dtor_called
    BY <1>2 DEF MarkRoot, EndMark, ScanRoot, EndScan, CollectRoot, NestedRoot, EndNested, EndCalls, heap
  <2> QED
    BY <1>0, <2>1, NoStart
<1>3. ASSUME NEW m \in Node, MarkGrey(m) \/ Scan(m) \/ ScanBlack(m) \/ CollectWhite(m) \/ RemoveNested(m)
      PROVE  ~Starts(n) /\ UNCHANGED dtor_called
  <2>1. frames' = frames /\ dtor_called' = dtor_called
    BY <1>3 DEF MarkGrey, Scan, ScanBlack, CollectWhite, RemoveNested, heap
  <2> QED
    BY <1>0, <2>1, NoStart
<1> QED
  BY <1>1, <1>2, <1>3

(* Only those that have no destructor to call count as called.             *)
LEMMA EndCollectStarts ==
    ASSUME Inv, EndCollect, NEW n \in Destructor
    PROVE  ~Starts(n) /\ ~(dtor_called'[n] /\ ~dtor_called[n])
<1>0. frames \in Seq(Frame) /\ n \in Node /\ frames # <<>>
  BY ZendGcAssumption DEF Inv, Types, EndCollect, Collector, Running
<1>1. frames' = frames \/ frames' = Front(frames)
  BY DEF EndCollect, Finish, Return
<1>2. ~Starts(n)
  BY <1>0, <1>1, NoStart
<1>3. SetApart \/ dtor_called' = dtor_called
  BY DEF EndCollect
<1>4. CASE SetApart
  <2> DEFINE S == {i \in Garbage : Undestructed(gc.buf[i].ref)}
             plain == {gc.buf[i].ref : i \in Garbage \ S}
  <2>1. dtor_called' = [k \in Node |-> dtor_called[k] \/ k \in plain]
    BY <1>4 DEF SetApart
  <2>2. n \in plain => dtor_called[n]
    BY DEF Undestructed
  <2> HIDE DEF plain
  <2> QED
    BY <1>0, <1>2, <2>1, <2>2
<1> QED
  BY <1>2, <1>3, <1>4

(* The collector starts one that was not called before.                    *)
LEMMA CallNextStarts ==
    ASSUME Inv, CallNext, NEW n \in Destructor
    PROVE  Starts(n) <=> dtor_called'[n] /\ ~dtor_called[n]
<1> DEFINE m == gc.buf[idx].ref
           d == Call("gcdtor", m, {})
<1>0. /\ frames \in Seq(Frame) /\ n \in Node /\ dtor_called \in [Node -> BOOLEAN]
      /\ gc \in Headers /\ idx \in Nat /\ idx >= 1 /\ end \in Nat /\ end <= Len(gc.buf)
  BY ZendGcAssumption DEF Inv, Types, StackRest, CallNext
<1>1. /\ idx <= end
      /\ \/ frames' = frames /\ dtor_called' = dtor_called
         \/ /\ gc.buf[idx].tag = "dtor" /\ ~dtor_called[m]
            /\ dtor_called' = [dtor_called EXCEPT ![m] = TRUE] /\ frames' = Append(frames, d)
  BY DEF CallNext, Enters
<1>2. CASE frames' = frames /\ dtor_called' = dtor_called
  BY <1>0, <1>2, NoStart
<1>3. CASE /\ gc.buf[idx].tag = "dtor" /\ ~dtor_called[m]
           /\ dtor_called' = [dtor_called EXCEPT ![m] = TRUE] /\ frames' = Append(frames, d)
  <2>1. idx \in DOMAIN gc.buf
    BY <1>0, <1>1, Fields
  <2>2. m \in Node
    BY <1>0, <1>3, <2>1, RootIs DEF Inv
  <2>3. d \in Frame /\ d.kind = "gcdtor" /\ d.obj = m
    BY <2>2, CallIs
  <2> HIDE DEF d, m
  <2>4. frames'[Len(frames')] = d /\ frames' # <<>> /\ frames' # frames /\ Len(frames') >= Len(frames)
    BY <1>0, <1>3, <2>3, TopAfter
  <2>5. Starts(n) <=> n = m
    BY <2>3, <2>4 DEF Starts, Destructing
  <2> QED
    BY <1>0, <1>3, <2>2, <2>5
<1> QED
  BY <1>1, <1>2, <1>3

(* None starts while garbage is destroyed.                                 *)
LEMMA DestroyStarts ==
    ASSUME Inv, Destroy \/ EndDestroy, NEW n \in Destructor
    PROVE  ~Starts(n) /\ ~(dtor_called'[n] /\ ~dtor_called[n])
<1>0. frames \in Seq(Frame) /\ n \in Node
  BY ZendGcAssumption DEF Inv, Types
<1>1. CASE Destroy
  <2> DEFINE m == gc.buf[idx].ref
             f == Call("gcfree", m, out[m])
  <2>1. /\ idx <= end
        /\ \/ frames' = frames /\ dtor_called' = dtor_called
           \/ idx \in Garbage /\ frames' = Append(frames, f) /\ dtor_called' = dtor_called
    BY <1>1 DEF Destroy, Enters, heap
  <2>2. CASE frames' = frames /\ dtor_called' = dtor_called
    BY <1>0, <2>2, NoStart
  <2>3. CASE idx \in Garbage /\ frames' = Append(frames, f) /\ dtor_called' = dtor_called
    <3>1. idx \in DOMAIN gc.buf /\ gc.buf[idx].tag # "unused" /\ gc \in Headers /\ Wired(gc) /\ out \in [Node -> SUBSET Node]
      BY <2>3 DEF Garbage, Used, Inv, Types
    <3>2. m \in Node
      BY <3>1, RootIs
    <3>3. f \in Frame /\ f.kind = "gcfree"
      <4>1. out[m] \in SUBSET Node
        BY <3>1, <3>2
      <4> HIDE DEF m
      <4> QED
        BY <3>2, <4>1, CallIs
    <3> HIDE DEF f
    <3>4. frames'[Len(frames')] = f
      BY <1>0, <2>3, <3>3, TopAfter
    <3> QED
      BY <1>0, <2>3, <3>3, <3>4, NoStart
  <2> QED
    BY <2>1, <2>2, <2>3
<1>2. CASE EndDestroy
  <2>1. /\ Collector /\ (frames' = Front(frames) \/ frames' = frames)
        /\ \A k \in Node : dtor_called'[k] => dtor_called[k]
    <3>1. dtor_called' \in [Node -> BOOLEAN] /\ \A k \in OfTag("garbage") : ~dtor_called'[k]
      BY <1>2, EndDestroyIs
    <3>2. \A k \in Node : k \notin OfTag("garbage") => dtor_called'[k] = dtor_called[k]
      BY <1>2, EndDestroyIs
    <3>3. Collector /\ (frames' = Front(frames) \/ frames' = frames)
      BY <1>2, EndDestroyIs
    <3> QED
      BY <3>1, <3>2, <3>3
  <2>2. frames # <<>>
    BY <2>1 DEF Collector, Running
  <2> QED
    BY <1>0, <2>1, <2>2, NoStart
<1> QED
  BY <1>1, <1>2

(* All steps together.                                                     *)
LEMMA NextStarts ==
    ASSUME Inv, [Next]_vars, NEW n \in Destructor
    PROVE  /\ Starts(n) <=> dtor_called'[n] /\ ~dtor_called[n]
           /\ free_called'[n] => dtor_called'[n]
<1>1. free_called'[n] => dtor_called'[n]
  <2>1. HeapInv'
    BY NextKeeps, StutterKeeps DEF Inv
  <2>2. n \in Node
    BY ZendGcAssumption
  <2> QED
    BY <2>1, <2>2 DEF HeapInv
<1>2. CASE UNCHANGED vars
  <2>1. frames' = frames /\ dtor_called' = dtor_called
    BY <1>2 DEF vars, heap
  <2> QED
    BY <1>1, <2>1 DEF Starts
<1>3. CASE Script
  BY <1>1, <1>3, ScriptStarts
<1>4. CASE \E m \in Node : EndDestructor(m) \/ FreeObject(m) \/ DestroyProperty(m) \/ EndFree(m)
  BY <1>1, <1>4, CallsStart
<1>5. CASE \E m \in Node : CallDestructor(m)
  BY <1>1, <1>5, CallStarts
<1>6. CASE EndCollect
  BY <1>1, <1>6, EndCollectStarts
<1>7. CASE CallNext
  BY <1>1, <1>7, CallNextStarts
<1>8. CASE Destroy \/ EndDestroy
  BY <1>1, <1>8, DestroyStarts
<1>9. CASE \/ Collect \/ MarkRoot \/ EndMark \/ ScanRoot \/ EndScan \/ CollectRoot
           \/ NestedRoot \/ EndNested \/ EndCalls
           \/ \E m \in Node : MarkGrey(m) \/ Scan(m) \/ ScanBlack(m) \/ CollectWhite(m) \/ RemoveNested(m)
  BY <1>1, <1>9, TraversalStarts
<1> QED
  BY <1>2, <1>3, <1>4, <1>5, <1>6, <1>7, <1>8, <1>9 DEF Next, Engine

(* A destructor is called once, by the last release or by the collector,   *)
(* and before its object is freed (zend_gc.c:1505, 1547,                   *)
(* zend_objects_API.c:177).                                                *)
THEOREM DestructorsRunOnce == Spec => DestructedOnce
<1>1. Inv /\ [Next]_vars =>
        \A n \in Destructor : /\ Starts(n) <=> dtor_called'[n] /\ ~dtor_called[n]
                              /\ free_called'[n] => dtor_called'[n]
  BY NextStarts
<1>2. Spec => []Inv
  <2>1. IInv => Inv
    BY InvIs
  <2> QED
    BY <2>1, InvariantHolds, PTL
<1> QED
  BY <1>1, <1>2, PTL DEF Spec, DestructedOnce, Starts

-----------------------------------------------------------------------------
(* The collector's is the only call, and it returns.                       *)
LEMMA LastCall ==
    ASSUME Inv, Collector, frames' = Front(frames), frames' = <<>>, UNCHANGED var
    PROVE  LET V == {n \in Node : var[n]} IN
           /\ Outside = V /\ InUse = V
           /\ \A n \in Node : Leads(out', V, n) => n \in Visible'
<1> DEFINE V == {n \in Node : var[n]}
<1>1. frames \in Seq(Frame) /\ frames # <<>> /\ frames[Len(frames)].kind = "gc"
  BY AtGc
<1>2. \A i \in DOMAIN frames : frames[i].kind = "gc"
  <2>1. DOMAIN Front(frames) = DOMAIN frames \ {Len(frames)}
    BY <1>1, Popped
  <2>2. DOMAIN Front(frames) = {}
    OBVIOUS
  <2> QED
    BY <1>1, <2>1, <2>2
<1>3. Outside = V /\ InUse = V
  BY <1>2 DEF Outside, InUse, Mentions, Calling
<1>4. This' = {}
  <2>1. DOMAIN frames' = {}
    OBVIOUS
  <2> QED
    BY <2>1 DEF This
<1>5. {n \in Node : var'[n]} \cup This' = V
  BY <1>4
<1>6. Visible' = {n \in Node : Leads(out', V, n)}
  BY <1>5 DEF Visible, Reach, Closed, Leads
<1> QED
  BY <1>3, <1>6

(* A run ends when nothing was found, and when the garbage is gone.        *)
LEMMA FoundNothing ==
    ASSUME Inv, EndCollect, phase' = "idle", frames' = <<>>
    PROVE  Lost' = {}
<1> DEFINE V == {n \in Node : var[n]}
<1>1. /\ Collector /\ phase = "collect" /\ todo = {} /\ idx > end /\ Used(gc) = {}
      /\ frames' = Front(frames) /\ UNCHANGED <<state, out, var>>
  BY DEF EndCollect, Finish, Return
<1>2. Roots = {}
  <2>1. Wired(gc)
    BY DEF Inv
  <2> QED
    BY <1>1, <2>1 DEF Wired, Roots
<1>3. \A n \in Node : state[n] # "none" => n \in Reach(Outside)
  BY <1>1, <1>2, CollectDone
<1>4. Outside = V /\ \A n \in Node : Leads(out', V, n) => n \in Visible'
  BY <1>1, LastCall
<1> HIDE DEF V
<1>5. \A n \in Node : state[n] # "none" => Leads(out', V, n)
  BY <1>1, <1>3, <1>4, ReachIs
<1> QED
  BY <1>1, <1>4, <1>5 DEF Lost

(* A run without destructors has destroyed whatever was not in use.        *)
LEMMA AllSwept ==
    ASSUME Inv, EndDestroy, phase' = "idle", rerun = "no", frames' = <<>>
    PROVE  Lost' = {}
<1> DEFINE T == OfTag("garbage")
           V == {n \in Node : var[n]}
<1>1. /\ Collector /\ phase = "destroy" /\ frames' = Front(frames) /\ UNCHANGED var
      /\ out' \in [Node -> SUBSET Node]
      /\ \A n \in T : state'[n] = "none"
      /\ \A n \in Node : n \notin T => state'[n] = state[n] /\ out'[n] = out[n]
  BY EndDestroyIs
<1>2. \A n \in Node : state[n] # "none" => Tag(n) = "garbage" \/ n \in Reach(InUse)
  BY <1>1 DEF Inv, AllInv
<1>3. /\ Outside = V /\ InUse = V
      /\ \A n \in Node : Leads(out', V, n) => n \in Visible'
  BY <1>1, LastCall
<1>4. \A n \in T : n \notin V /\ \A m \in Node : n \in out[m] => m \in T
  BY <1>1, <1>3, GarbageAtGc DEF OfTag
<1>5. \A n \in Node : state[n] # "none" => n \in T \/ Leads(out, V, n)
  BY <1>2, <1>3, ReachIs DEF OfTag
<1>6. out \in [Node -> SUBSET Node] /\ V \in SUBSET Node
  BY DEF Inv, Types
<1> HIDE DEF T, V
<1>7. ASSUME NEW n \in Node, state'[n] = "live" PROVE n \in Visible'
  <2>1. n \notin T /\ state[n] # "none"
    BY <1>1, <1>7
  <2>2. Leads(out, V, n)
    BY <2>1, <1>5
  <2>3. V \cap T = {} /\ \A m \in Node \ T : out[m] \subseteq out'[m] /\ out[m] \cap T = {}
    BY <1>1, <1>4
  <2>4. Leads(out', V, n)
    BY <2>2, <2>3, <1>1, <1>6, LeadsAround
  <2> QED
    BY <2>4, <1>3
<1> QED
  BY <1>7 DEF Lost

(* A run ends in these two steps only.                                     *)
LEMMA OnlyEnds ==
    ASSUME Inv, [Next]_vars, phase # "idle", phase' = "idle"
    PROVE  EndCollect \/ EndDestroy
<1>1. Script => UNCHANGED phase
  BY DEF Script, New, Unset, Fetch, Assign, UnsetProperty, run
<1>2. ~Collect
  BY DEF Collect
<1>3. UNCHANGED vars => UNCHANGED phase
  BY DEF vars, run
<1>4. \A n \in Node : CallDestructor(n) \/ FreeObject(n) \/ DestroyProperty(n) \/ EndFree(n) \/ EndDestructor(n)
                        => UNCHANGED phase
  BY DEF CallDestructor, FreeObject, DestroyProperty, EndFree, EndDestructor, run
<1>5. \A n \in Node : MarkGrey(n) \/ Scan(n) \/ ScanBlack(n) \/ CollectWhite(n) \/ RemoveNested(n) => UNCHANGED phase
  BY DEF MarkGrey, Scan, ScanBlack, CollectWhite, RemoveNested
<1>6. MarkRoot \/ ScanRoot \/ CollectRoot \/ NestedRoot \/ CallNext \/ Destroy => UNCHANGED phase
  BY DEF MarkRoot, ScanRoot, CollectRoot, NestedRoot, CallNext, Destroy
<1>7. EndMark \/ EndScan \/ EndNested \/ EndCalls => phase' # "idle"
  BY DEF EndMark, EndScan, EndNested, EndCalls
<1> QED
  BY <1>1, <1>2, <1>3, <1>4, <1>5, <1>6, <1>7 DEF Next, Engine

(* A run of the collector in which no destructor was to be called leaves   *)
(* no garbage (zend_gc.c:973-1327).                                        *)
THEOREM OneRunIsEnough == Spec => CollectsAll
<1>1. Inv /\ [Next]_vars => (phase # "idle" /\ phase' = "idle" /\ rerun = "no" /\ frames' = <<>> => Lost' = {})
  BY OnlyEnds, FoundNothing, AllSwept
<1>2. Spec => []Inv
  <2>1. IInv => Inv
    BY InvIs
  <2> QED
    BY <2>1, InvariantHolds, PTL
<1> QED
  BY <1>1, <1>2, PTL DEF Spec, CollectsAll
=============================================================================
