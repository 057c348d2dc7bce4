-------------------------------- MODULE ZendGc --------------------------------
(***************************************************************************)
(* How the PHP that is built and trained here frees its objects: by        *)
(* reference counts, and by the collector of cycles, with destructors that *)
(* run in between (Zend/zend_gc.c and zend_objects_API.c of php-8.1.3).    *)
(*                                                                         *)
(* Everything is a call on one stack, kept in frames, innermost last: the  *)
(* program runs when the stack is empty or a destructor is on its top.  Of *)
(* the values only objects are modelled, each with at most one reference   *)
(* to each other one, and the buffer of roots never reaches its threshold: *)
(* the collector runs when the program asks for it.                        *)
(***************************************************************************)
EXTENDS Integers, FiniteSets, SequencesExt

CONSTANTS
    Node,         \* the objects there can be
    Destructor,   \* those whose class has a destructor
    MaxRefs       \* bound: references between objects

ASSUME ZendGcAssumption == IsFiniteSet(Node) /\ Destructor \subseteq Node /\ MaxRefs \in Nat

VARIABLES
    state,        \* state[n]: "none" is not allocated, "null" a destroyed one
                  \* (GC_TYPE is IS_NULL) that the collector will free
    out,          \* out[n]: the objects that the properties of n refer to
    var,          \* var[n]: whether a variable of the program refers to n
    dtor_called,  \* dtor_called[n]: IS_OBJ_DESTRUCTOR_CALLED
    free_called,  \* free_called[n]: IS_OBJ_FREE_CALLED
    gc,           \* the counts, the headers of the objects and the buffer
    frames,       \* the calls in progress
    phase,        \* where the collector is
    idx, end,     \* its place in the buffer, and where it stops
    todo, black,  \* the stacks of its traversals, and of gc_scan_black()
    has_dtors,    \* gc_flags & GC_HAS_DESTRUCTORS
    rerun         \* should_rerun_gc ("should") and did_rerun_gc ("did")

heap == <<state, out, var, dtor_called, free_called>>
run == <<phase, idx, end, todo, black, has_dtors, rerun>>
vars == <<heap, gc, frames, run>>

Colors == {"black", "grey", "white", "purple"}
Entry == [ref : Node, tag : {"root", "garbage", "dtor"}] \cup [tag : {"unused"}]
Header == [refcount : [Node -> Nat], color : [Node -> Colors], address : [Node -> Nat],
           buf : Seq(Entry), unused : Seq(Nat)]
Frame == [kind : {"del", "dtor", "last", "free", "gcdtor", "gcfree"}, obj : Node, rest : SUBSET Node]
             \cup [kind : {"gc"}]
Phases == {"idle", "mark", "scan", "collect", "nested", "call", "destroy"}

TypeOK ==
    /\ state \in [Node -> {"none", "live", "null"}]
    /\ out \in [Node -> SUBSET Node] /\ var \in [Node -> BOOLEAN]
    /\ dtor_called \in [Node -> BOOLEAN] /\ free_called \in [Node -> BOOLEAN]
    /\ gc \in Header
    /\ frames \in Seq(Frame)
    /\ phase \in Phases /\ idx \in Nat /\ end \in Nat
    /\ todo \in SUBSET Node /\ black \in SUBSET Node
    /\ has_dtors \in BOOLEAN /\ rerun \in {"no", "should", "did"}

Init ==
    /\ state = [n \in Node |-> "none"]
    /\ out = [n \in Node |-> {}] /\ var = [n \in Node |-> FALSE]
    /\ dtor_called = [n \in Node |-> FALSE] /\ free_called = [n \in Node |-> FALSE]
    /\ gc = [refcount |-> [n \in Node |-> 0], color |-> [n \in Node |-> "black"],
             address |-> [n \in Node |-> 0], buf |-> <<>>, unused |-> <<>>]
    /\ frames = <<>>
    /\ phase = "idle" /\ idx = 1 /\ end = 0 /\ todo = {} /\ black = {}
    /\ has_dtors = FALSE /\ rerun = "no"

-----------------------------------------------------------------------------
(* Headers and buffer: operations on the value g of gc.                    *)
Addref(g, n) == [g EXCEPT !.refcount[n] = @ + 1]
Delref(g, n) == [g EXCEPT !.refcount[n] = @ - 1]
Paint(g, n, c) == [g EXCEPT !.color[n] = c]

(* A slot of the buffer for n: an unused one, or the next one.             *)
Enter(g, n, t, c) ==
    LET i == IF g.unused # <<>> THEN Head(g.unused) ELSE Len(g.buf) + 1
        e == [ref |-> n, tag |-> t]
    IN  [g EXCEPT !.address[n] = i,
                  !.color[n] = c,
                  !.unused = IF @ # <<>> THEN Tail(@) ELSE @,
                  !.buf = IF i > Len(@) THEN Append(@, e) ELSE [@ EXCEPT ![i] = e]]

Buffered(g, n) == g.address[n] # 0

(* gc_check_possible_root() and gc_possible_root().                        *)
PossibleRoot(g, n) ==
    IF Buffered(g, n) \/ g.color[n] # "black" THEN g ELSE Enter(g, n, "root", "purple")

(* gc_remove_from_roots().                                                 *)
Unlink(g, i) == [g EXCEPT !.buf[i] = [tag |-> "unused"], !.unused = <<i>> \o @]

(* GC_REMOVE_FROM_BUFFER().                                                *)
RemoveFromBuffer(g, n) ==
    IF Buffered(g, n)
      THEN Unlink([g EXCEPT !.address[n] = 0, !.color[n] = "black"], g.address[n])
      ELSE g

Used(g) == {i \in DOMAIN g.buf : g.buf[i].tag # "unused"}

(* The slots S become unused.                                              *)
Vacate(g, S) == [g EXCEPT !.buf = [i \in DOMAIN @ |-> IF i \in S THEN [tag |-> "unused"] ELSE @[i]]]

(* gc_compact() moves the last entries to the first unused slots: the next *)
(* one from the end goes to the next one from the beginning.               *)
Count(g) == Cardinality(Used(g))
Free(g) == (1..Count(g)) \ Used(g)
Beyond(g) == Used(g) \ (1..Count(g))
Before(S, i) == Cardinality({k \in S : k < i})
After(S, i) == Cardinality({k \in S : k > i})
Takes(g, i, j) == Before(Free(g), i) = After(Beyond(g), j)
Source(g, i) == IF i \in Used(g) THEN i ELSE CHOOSE j \in Beyond(g) : Takes(g, i, j)
Target(g, j) == IF j \in Beyond(g) THEN CHOOSE i \in Free(g) : Takes(g, i, j) ELSE j

(* A variant: the objects are not told.                                    *)
CompactSlots(g) ==
    [g EXCEPT !.buf = [i \in 1..Count(g) |-> g.buf[Source(g, i)]],
              !.unused = <<>>]

Compact(g) ==
    [g EXCEPT !.buf = [i \in 1..Count(g) |-> g.buf[Source(g, i)]],
              !.unused = <<>>,
              !.address = [n \in Node |-> Target(g, @[n])]]

-----------------------------------------------------------------------------
(* The stack of calls, and what the program can get at.                    *)
Top == frames[Len(frames)]
Running(kind) == frames # <<>> /\ Top.kind = kind
Program == frames = <<>> \/ Running("dtor") \/ Running("gcdtor")
Call(kind, n, rest) == [kind |-> kind, obj |-> n, rest |-> rest]

Closed(S) == \A m \in S : out[m] \subseteq S
Reach(S) == {n \in Node : \A C \in SUBSET Node : S \subseteq C /\ Closed(C) => n \in C}

This == {frames[i].obj : i \in {j \in DOMAIN frames : frames[j].kind \in {"dtor", "gcdtor"}}}
Visible == Reach({n \in Node : var[n]} \cup This)

(* zval_ptr_dtor(): a reference to n goes, with the calls F in progress.   *)
Release(n, F) ==
    IF gc.refcount[n] = 1 /\ state[n] # "null"
      THEN gc' = Delref(gc, n) /\ frames' = Append(F, Call("del", n, {}))
      ELSE gc' = PossibleRoot(Delref(gc, n), n) /\ frames' = F

(* What the program does with the objects it can get at.                   *)
New(n) ==
    /\ state[n] = "none"
    /\ state' = [state EXCEPT ![n] = "live"]
    /\ var' = [var EXCEPT ![n] = TRUE]
    /\ gc' = Addref(gc, n)
    /\ UNCHANGED <<out, dtor_called, free_called, frames, run>>

Assign(m, n) ==
    /\ n \notin out[m]
    /\ Cardinality({e \in Node \X Node : e[2] \in out[e[1]]}) < MaxRefs
    /\ out' = [out EXCEPT ![m] = @ \cup {n}]
    /\ gc' = Addref(gc, n)
    /\ UNCHANGED <<state, var, dtor_called, free_called, frames, run>>

UnsetProperty(m, n) ==
    /\ n \in out[m]
    /\ out' = [out EXCEPT ![m] = @ \ {n}]
    /\ Release(n, frames)
    /\ UNCHANGED <<state, var, dtor_called, free_called, run>>

Fetch(n) ==
    /\ ~var[n]
    /\ var' = [var EXCEPT ![n] = TRUE]
    /\ gc' = Addref(gc, n)
    /\ UNCHANGED <<state, out, dtor_called, free_called, frames, run>>

Unset(n) ==
    /\ var[n]
    /\ var' = [var EXCEPT ![n] = FALSE]
    /\ Release(n, frames)
    /\ UNCHANGED <<state, out, dtor_called, free_called, run>>

-----------------------------------------------------------------------------
(* zend_objects_store_del(), for an object whose count fell to 0.          *)

Becomes(f) == [frames EXCEPT ![Len(frames)] = f]
Turn(f) == frames' = Becomes(f)
Enters(f) == frames' = Append(frames, f)
Return == frames' = Front(frames)

(* A variant: the destructor is called at every last release.              *)
CallDestructorAgain(n) ==
    /\ Running("del") /\ Top.obj = n
    /\ dtor_called' = [dtor_called EXCEPT ![n] = TRUE]
    /\ IF n \in Destructor
         THEN gc' = Addref(Addref(gc, n), n) /\ Turn(Call("dtor", n, {}))
         ELSE UNCHANGED gc /\ Turn(Call("last", n, {}))
    /\ UNCHANGED <<state, out, var, free_called, run>>

(* The destructor is called once, and two references hold the object.      *)
CallDestructor(n) ==
    /\ Running("del") /\ Top.obj = n
    /\ dtor_called' = [dtor_called EXCEPT ![n] = TRUE]
    /\ IF n \in Destructor /\ ~dtor_called[n]
         THEN gc' = Addref(Addref(gc, n), n) /\ Turn(Call("dtor", n, {}))
         ELSE UNCHANGED gc /\ Turn(Call("last", n, {}))
    /\ UNCHANGED <<state, out, var, free_called, run>>

(* The destructor returns, here or in the collector.                       *)
EndDestructor(n) ==
    /\ Running("dtor") \/ Running("gcdtor")
    /\ Top.obj = n
    /\ gc' = Delref(PossibleRoot(Delref(gc, n), n), n)
    /\ IF Running("dtor") THEN Turn(Call("last", n, {})) ELSE Return
    /\ UNCHANGED <<heap, run>>

(* Unless the destructor gave it away, its properties are destroyed.       *)
FreeObject(n) ==
    /\ Running("last") /\ Top.obj = n
    /\ IF gc.refcount[n] # 0
         THEN Return /\ UNCHANGED <<out, free_called, gc>>
         ELSE /\ free_called' = [free_called EXCEPT ![n] = TRUE]
              /\ gc' = IF free_called[n] THEN gc ELSE Addref(gc, n)
              /\ out' = [out EXCEPT ![n] = {}]
              /\ Turn(Call("free", n, out[n]))
    /\ UNCHANGED <<state, var, dtor_called, run>>

(* One of them, in zend_object_std_dtor().                                 *)
DestroyProperty(n) ==
    /\ Running("free") \/ Running("gcfree")
    /\ n \in Top.rest
    /\ Release(n, Becomes([Top EXCEPT !.rest = @ \ {n}]))
    /\ UNCHANGED <<heap, run>>

(* efree() of the objects S, with the headers g.                           *)
Efree(g, S) ==
    /\ state' = [n \in Node |-> IF n \in S THEN "none" ELSE state[n]]
    /\ out' = [n \in Node |-> IF n \in S THEN {} ELSE out[n]]
    /\ dtor_called' = [n \in Node |-> n \notin S /\ dtor_called[n]]
    /\ free_called' = [n \in Node |-> n \notin S /\ free_called[n]]
    /\ gc' = [g EXCEPT !.refcount = [n \in Node |-> IF n \in S THEN 0 ELSE @[n]],
                       !.color = [n \in Node |-> IF n \in S THEN "black" ELSE @[n]],
                       !.address = [n \in Node |-> IF n \in S THEN 0 ELSE @[n]]]
    /\ UNCHANGED var

EndFree(n) ==
    /\ Running("free") \/ Running("gcfree")
    /\ Top.obj = n /\ Top.rest = {}
    /\ IF Running("free") THEN Efree(RemoveFromBuffer(gc, n), {n})
       ELSE gc' = Delref(gc, n) /\ UNCHANGED heap
    /\ Return
    /\ UNCHANGED run

-----------------------------------------------------------------------------
(* zend_gc_collect_cycles().  The traversals visit what they have pushed in*)
(* any order.  Reference counts go down by one for every reference from a  *)
(* visited object, and up again when it turns out to be in use.            *)

Collector == Running("gc")
Children(n) == IF free_called[n] THEN {} ELSE out[n]

AllOf(g, S, by) == [g EXCEPT !.refcount = [n \in Node |-> IF n \in S THEN @[n] + by ELSE @[n]]]
PaintAll(g, S, c) == [g EXCEPT !.color = [n \in Node |-> IF n \in S THEN c ELSE @[n]]]
OfColor(S, Cs) == {n \in S : gc.color[n] \in Cs}

(* The frame of the collector, unless there are no roots; gc_mark_roots()  *)
(* starts with a compaction.                                               *)
Collect ==
    /\ Program /\ phase = "idle"
    /\ gc' = Compact(gc)
    /\ IF Used(gc) = {} THEN UNCHANGED <<frames, run>>
       ELSE /\ Enters([kind |-> "gc"])
            /\ phase' = "mark" /\ idx' = 1 /\ rerun' = "no" /\ has_dtors' = FALSE
            /\ UNCHANGED <<end, todo, black>>
    /\ UNCHANGED heap

(* gc_mark_roots(): the next root.                                         *)
MarkRoot ==
    /\ Collector /\ phase = "mark" /\ todo = {} /\ idx <= Len(gc.buf)
    /\ idx' = idx + 1
    /\ LET e == gc.buf[idx]
       IN  IF e.tag = "root" /\ gc.color[e.ref] = "purple"
             THEN gc' = Paint(gc, e.ref, "grey") /\ todo' = {e.ref}
             ELSE UNCHANGED <<gc, todo>>
    /\ UNCHANGED <<heap, frames, phase, end, black, has_dtors, rerun>>

(* gc_mark_grey()                                                          *)
MarkGrey(n) ==
    /\ Collector /\ phase = "mark" /\ n \in todo
    /\ LET new == OfColor(Children(n), Colors \ {"grey"})
       IN  /\ gc' = PaintAll(AllOf(gc, Children(n), -1), new, "grey")
           /\ todo' = (todo \ {n}) \cup new
    /\ UNCHANGED <<heap, frames, phase, idx, end, black, has_dtors, rerun>>

EndMark ==
    /\ Collector /\ phase = "mark" /\ todo = {} /\ idx > Len(gc.buf)
    /\ phase' = "scan" /\ idx' = 1
    /\ UNCHANGED <<heap, gc, frames, end, todo, black, has_dtors, rerun>>

(* gc_scan_roots(): the next root.                                         *)
ScanRoot ==
    /\ Collector /\ phase = "scan" /\ todo = {} /\ black = {} /\ idx <= Len(gc.buf)
    /\ idx' = idx + 1
    /\ LET e == gc.buf[idx]
       IN  IF e.tag = "root" /\ gc.color[e.ref] = "grey"
             THEN gc' = Paint(gc, e.ref, "white") /\ todo' = {e.ref}
             ELSE UNCHANGED <<gc, todo>>
    /\ UNCHANGED <<heap, frames, phase, end, black, has_dtors, rerun>>

(* gc_scan(): an object that is referred to from outside is in use.        *)
Scan(n) ==
    /\ Collector /\ phase = "scan" /\ n \in todo /\ black = {}
    /\ LET new == OfColor(Children(n), {"grey"})
       IN  IF gc.color[n] # "white"
             THEN todo' = todo \ {n} /\ UNCHANGED <<gc, black>>
             ELSE IF gc.refcount[n] > 0
               THEN gc' = Paint(gc, n, "black") /\ black' = {n} /\ todo' = todo \ {n}
               ELSE gc' = PaintAll(gc, new, "white") /\ todo' = (todo \ {n}) \cup new /\ UNCHANGED black
    /\ UNCHANGED <<heap, frames, phase, idx, end, has_dtors, rerun>>

(* gc_scan_black(): and so is all that it refers to.                       *)
ScanBlack(n) ==
    /\ Collector /\ phase = "scan" /\ n \in black
    /\ LET new == OfColor(Children(n), Colors \ {"black"})
       IN  /\ gc' = PaintAll(AllOf(gc, Children(n), 1), new, "black")
           /\ black' = (black \ {n}) \cup new
    /\ UNCHANGED <<heap, frames, phase, idx, end, todo, has_dtors, rerun>>

(* gc_collect_roots() first takes the roots in use out of the buffer; the  *)
(* list of the unused slots goes with the compaction that follows.         *)
DropBlack(g) ==
    LET S == {i \in Used(g) : g.buf[i].tag = "root" /\ g.color[g.buf[i].ref] = "black"}
    IN  [Vacate(g, S) EXCEPT !.address = [n \in Node |-> IF @[n] \in S THEN 0 ELSE @[n]]]

EndScan ==
    /\ Collector /\ phase = "scan" /\ todo = {} /\ black = {} /\ idx > Len(gc.buf)
    /\ gc' = Compact(DropBlack(gc))
    /\ phase' = "collect" /\ idx' = 1 /\ end' = Len(gc'.buf)
    /\ UNCHANGED <<heap, frames, todo, black, has_dtors, rerun>>

(* The next of those that remain.                                          *)
CollectRoot ==
    /\ Collector /\ phase = "collect" /\ todo = {} /\ idx <= end
    /\ idx' = idx + 1
    /\ LET n == gc.buf[idx].ref
           g == [gc EXCEPT !.buf[idx].tag = "garbage"]
       IN  IF gc.color[n] = "white"
             THEN gc' = Paint(g, n, "black") /\ todo' = {n}
             ELSE gc' = g /\ UNCHANGED todo
    /\ UNCHANGED <<heap, frames, phase, end, black, has_dtors, rerun>>

(* Two variants: the counts are left as they are, and only roots are put   *)
(* into the buffer.                                                        *)
CollectWhiteUncounted(n) ==
    /\ Collector /\ phase = "collect" /\ n \in todo
    /\ LET new == OfColor(Children(n), {"white"})
           g == IF Buffered(gc, n) \/ free_called[n] THEN gc ELSE Enter(gc, n, "garbage", "black")
       IN  /\ gc' = PaintAll(g, new, "black")
           /\ todo' = (todo \ {n}) \cup new
    /\ has_dtors' = (has_dtors \/ (n \in Destructor /\ ~dtor_called[n] /\ ~free_called[n]))
    /\ UNCHANGED <<heap, frames, phase, idx, end, black, rerun>>

CollectWhiteRoots(n) ==
    /\ Collector /\ phase = "collect" /\ n \in todo
    /\ LET new == OfColor(Children(n), {"white"})
       IN  /\ gc' = PaintAll(AllOf(gc, Children(n), 1), new, "black")
           /\ todo' = (todo \ {n}) \cup new
    /\ has_dtors' = (has_dtors \/ (n \in Destructor /\ ~dtor_called[n] /\ ~free_called[n]))
    /\ UNCHANGED <<heap, frames, phase, idx, end, black, rerun>>

(* gc_collect_white(): the garbage it leads to is put into the buffer, and *)
(* the counts are restored.                                                *)
CollectWhite(n) ==
    /\ Collector /\ phase = "collect" /\ n \in todo
    /\ LET new == OfColor(Children(n), {"white"})
           g == IF Buffered(gc, n) \/ free_called[n] THEN gc ELSE Enter(gc, n, "garbage", "black")
       IN  /\ gc' = PaintAll(AllOf(g, Children(n), 1), new, "black")
           /\ todo' = (todo \ {n}) \cup new
    /\ has_dtors' = (has_dtors \/ (n \in Destructor /\ ~dtor_called[n] /\ ~free_called[n]))
    /\ UNCHANGED <<heap, frames, phase, idx, end, black, rerun>>

(* The run is over, and perhaps another one begins.  zend_gc_root_tmpvars()*)
(* (1640), which then puts live temporaries into the buffer, is left out:  *)
(* the program gets there too, by Assign of such an object to a property   *)
(* of its own and UnsetProperty, which makes it a possible root.           *)
Finish == phase' = "idle" /\ idx' = 1 /\ end' = 0 /\ has_dtors' = FALSE /\ rerun' = "no" /\ Return
Garbage == {i \in Used(gc) : gc.buf[i].tag = "garbage"}
Undestructed(n) == n \in Destructor /\ ~dtor_called[n]

(* Objects with a destructor to be called are set apart and painted purple:*)
(* they are roots for the next run.                                        *)
SetApart ==
    LET S == {i \in Garbage : Undestructed(gc.buf[i].ref)}
        plain == {gc.buf[i].ref : i \in Garbage \ S}
    IN  /\ gc' = [gc EXCEPT !.buf = [i \in DOMAIN @ |-> IF i \in S THEN [@[i] EXCEPT !.tag = "dtor"] ELSE @[i]],
                            !.color = [n \in Node |-> IF \E i \in S : gc.buf[i].ref = n
                                                        THEN "purple" ELSE @[n]]]
        /\ dtor_called' = [n \in Node |-> dtor_called[n] \/ n \in plain]

EndCollect ==
    /\ Collector /\ phase = "collect" /\ todo = {} /\ idx > end
    /\ \/ Used(gc) = {} /\ Finish /\ UNCHANGED <<gc, dtor_called>>
       \/ /\ Used(gc) # {} /\ has_dtors
          /\ SetApart
          /\ phase' = "nested" /\ idx' = 1 /\ end' = Len(gc.buf)
          /\ rerun' = IF rerun = "no" THEN "should" ELSE rerun
          /\ UNCHANGED <<frames, has_dtors>>
       \/ /\ Used(gc) # {} /\ ~has_dtors
          /\ phase' = "destroy" /\ idx' = 1 /\ end' = Len(gc.buf)
          /\ UNCHANGED <<gc, dtor_called, frames, has_dtors, rerun>>
    /\ UNCHANGED <<state, out, var, free_called, todo, black>>

(* What they lead to is garbage no longer: the destructor may give it away *)
(* (gc_remove_nested_data_from_buffer()).                                  *)
NestedRoot ==
    /\ Collector /\ phase = "nested" /\ todo = {} /\ idx <= end
    /\ idx' = idx + 1
    /\ todo' = IF gc.buf[idx].tag = "dtor" THEN Children(gc.buf[idx].ref) ELSE {}
    /\ UNCHANGED <<heap, gc, frames, phase, end, black, has_dtors, rerun>>

(* Two variants: nothing is removed, and everything is, roots among it.    *)
RemoveNothing(n) ==
    /\ Collector /\ phase = "nested" /\ n \in todo
    /\ todo' = todo \ {n}
    /\ UNCHANGED <<heap, gc, frames, phase, idx, end, black, has_dtors, rerun>>

RemoveRoots(n) ==
    /\ Collector /\ phase = "nested" /\ n \in todo
    /\ IF Buffered(gc, n)
         THEN gc' = RemoveFromBuffer(gc, n) /\ todo' = (todo \ {n}) \cup Children(n)
         ELSE todo' = todo \ {n} /\ UNCHANGED gc
    /\ UNCHANGED <<heap, frames, phase, idx, end, black, has_dtors, rerun>>

RemoveNested(n) ==
    /\ Collector /\ phase = "nested" /\ n \in todo
    /\ IF Buffered(gc, n) /\ gc.color[n] = "black"
         THEN gc' = RemoveFromBuffer(gc, n) /\ todo' = (todo \ {n}) \cup Children(n)
         ELSE todo' = todo \ {n} /\ UNCHANGED gc
    /\ UNCHANGED <<heap, frames, phase, idx, end, black, has_dtors, rerun>>

EndNested ==
    /\ Collector /\ phase = "nested" /\ todo = {} /\ idx > end
    /\ phase' = "call" /\ idx' = 1
    /\ UNCHANGED <<heap, gc, frames, end, todo, black, has_dtors, rerun>>

(* The destructors run, each with two references to its object.            *)
CallNext ==
    /\ Collector /\ phase = "call" /\ idx <= end
    /\ idx' = idx + 1
    /\ LET e == gc.buf[idx]
           g == [gc EXCEPT !.buf[idx].tag = "root"]
       IN  IF e.tag # "dtor" THEN UNCHANGED <<gc, dtor_called, frames>>
           ELSE IF dtor_called[e.ref] THEN gc' = g /\ UNCHANGED <<dtor_called, frames>>
           ELSE /\ dtor_called' = [dtor_called EXCEPT ![e.ref] = TRUE]
                /\ gc' = Addref(Addref(g, e.ref), e.ref)
                /\ Enters(Call("gcdtor", e.ref, {}))
    /\ UNCHANGED <<state, out, var, free_called, phase, end, todo, black, has_dtors, rerun>>

EndCalls ==
    /\ Collector /\ phase = "call" /\ idx > end
    /\ phase' = "destroy" /\ idx' = 1
    /\ UNCHANGED <<heap, gc, frames, end, todo, black, has_dtors, rerun>>

(* The next object of the garbage is destroyed, with its properties.       *)
Destroy ==
    /\ Collector /\ phase = "destroy" /\ idx <= end
    /\ idx' = idx + 1
    /\ LET n == gc.buf[idx].ref
       IN  IF idx \notin Garbage THEN UNCHANGED <<heap, gc, frames>>
           ELSE /\ state' = [state EXCEPT ![n] = "null"]
                /\ UNCHANGED <<var, dtor_called>>
                /\ IF free_called[n] THEN UNCHANGED <<out, free_called, gc, frames>>
                   ELSE /\ free_called' = [free_called EXCEPT ![n] = TRUE]
                        /\ gc' = Addref(gc, n)
                        /\ out' = [out EXCEPT ![n] = {}]
                        /\ Enters(Call("gcfree", n, out[n]))
    /\ UNCHANGED <<phase, end, todo, black, has_dtors, rerun>>

(* The memory of the garbage is given back; after destructors there is one *)
(* more run.                                                               *)
EndDestroy ==
    /\ Collector /\ phase = "destroy" /\ idx > end
    /\ LET S == Garbage \cap 1..end
       IN  Efree(Compact(Vacate(gc, S)), {gc.buf[i].ref : i \in S})
    /\ IF rerun = "should" /\ Used(gc') # {}
         THEN /\ rerun' = "did" /\ phase' = "mark" /\ idx' = 1 /\ has_dtors' = FALSE
              /\ UNCHANGED <<frames, end>>
         ELSE Finish
    /\ UNCHANGED <<todo, black>>

-----------------------------------------------------------------------------
Script ==
    /\ Program
    /\ LET V == Visible
       IN  \/ \E n \in Node : New(n) \/ Unset(n)
           \/ \E n \in V : Fetch(n)
           \/ \E m, n \in V : Assign(m, n) \/ UnsetProperty(m, n)

(* What goes on by itself.                                                 *)
Engine ==
    \/ \E n \in Node :
          \/ CallDestructor(n) \/ FreeObject(n) \/ DestroyProperty(n) \/ EndFree(n)
          \/ MarkGrey(n) \/ Scan(n) \/ ScanBlack(n) \/ CollectWhite(n) \/ RemoveNested(n)
    \/ MarkRoot \/ EndMark \/ ScanRoot \/ EndScan \/ CollectRoot \/ EndCollect
    \/ NestedRoot \/ EndNested \/ CallNext \/ EndCalls \/ Destroy \/ EndDestroy

Next == Script \/ Collect \/ Engine \/ \E n \in Node : EndDestructor(n)

Spec == Init /\ [][Next]_vars

-----------------------------------------------------------------------------
(* Whatever the program can get at is an object that has not been freed,   *)
(* and no reference leads to memory that was given back, while objects are *)
(* torn down and destructors give them away (zend_gc.c:1488-1493, 1519).   *)
NoDangling ==
    /\ \A n \in Visible : state[n] = "live" /\ ~free_called[n]
    /\ \A n \in Node : \A m \in out[n] : state[m] # "none"
    /\ \A i \in DOMAIN frames :
          frames[i].kind \in {"free", "gcfree"} => \A m \in frames[i].rest : state[m] # "none"

(* The counts that the traversals take apart are put together again by     *)
(* gc_scan_black() and gc_collect_white(): outside of them they are what   *)
(* refers to an object (zend_gc.c:692, 814, 1149).                         *)
Holders(n) == {m \in Node : n \in out[m]}
InRest(F, n) == {i \in DOMAIN F : F[i].kind # "gc" /\ n \in F[i].rest}
Calls(F, kinds, n) == {i \in DOMAIN F : F[i].kind \in kinds /\ F[i].obj = n}
Held(F, n) == Cardinality(InRest(F, n)) + 2 * Cardinality(Calls(F, {"dtor", "gcdtor"}, n))
              + Cardinality(Calls(F, {"free", "gcfree"}, n))
References(n) == (IF var[n] THEN 1 ELSE 0) + Cardinality(Holders(n)) + Held(frames, n)

RefcountExact ==
    phase \notin {"mark", "scan", "collect"} => \A n \in Node : gc.refcount[n] = References(n)

(* An object and its slot in the buffer know each other, every other slot  *)
(* is in the list of the unused ones, once, and what is in the buffer      *)
(* between two runs is purple, or no run would start from it               *)
(* (zend_gc.c:627, 669, 937, 1496); with the types.                        *)
BufferConsistent ==
    /\ TypeOK
    /\ \A n \in Node : Buffered(gc, n) =>
          gc.address[n] \in Used(gc) /\ gc.buf[gc.address[n]].ref = n
    /\ \A i \in Used(gc) : gc.address[gc.buf[i].ref] = i
    /\ ToSet(gc.unused) = DOMAIN gc.buf \ Used(gc) /\ IsInjective(gc.unused)
    /\ phase = "idle" => \A n \in Node : gc.color[n] = IF Buffered(gc, n) THEN "purple" ELSE "black"

(* When no call is in progress, no garbage is lost: from a root that is    *)
(* garbage itself the collector gets to it, whatever a run has taken out   *)
(* of the buffer and destructors have built (zend_gc.c:1298, 1329, 1633).  *)
Lost == {n \in Node : state[n] = "live"} \ Visible

GarbageIsFound ==
    frames = <<>> => LET L == Lost IN L \subseteq Reach({r \in L : Buffered(gc, r)})

(* A run in which no destructor was to be called leaves no garbage         *)
(* (zend_gc.c:973-1327): one run is enough for any tangle of cycles.       *)
CollectsAll ==
    [][phase # "idle" /\ phase' = "idle" /\ rerun = "no" /\ frames' = <<>> => Lost' = {}]_vars

(* An object with a destructor is not freed before it was called, and it is*)
(* called once, by the collector or by the last release, however often the *)
(* object comes back to life (zend_gc.c:1505, 1547, zend_objects_API.c:177)*)
Destructing(fs, n) == fs # <<>> /\ fs[Len(fs)].kind \in {"dtor", "gcdtor"} /\ fs[Len(fs)].obj = n

DestructedOnce ==
    [][\A n \in Destructor :
          LET starts == Destructing(frames', n) /\ frames' # frames /\ Len(frames') >= Len(frames)
          IN  /\ starts <=> dtor_called'[n] /\ ~dtor_called[n]
              /\ free_called'[n] => dtor_called'[n]]_vars
=============================================================================
