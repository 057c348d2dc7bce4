---------------------------- MODULE ZendGcInvariant ----------------------------
(***************************************************************************)
(* The inductive invariant of ZendGc: what holds in between of the steps   *)
(* of the collector, of destructors and of the last release, so that the   *)
(* properties of ZendGc hold at all times.                                 *)
(***************************************************************************)
EXTENDS ZendGc

TagIn(g, n) == IF Buffered(g, n) THEN g.buf[g.address[n]].tag ELSE "none"
Tag(n) == TagIn(gc, n)
OfTag(t) == {n \in Node : Tag(n) = t}
Roots == {n \in Node : Buffered(gc, n)}
Painted(c) == {n \in Node : gc.color[n] = c}

Calling(i) == frames[i].kind # "gc"
Mentions(i, n) == Calling(i) /\ (frames[i].obj = n \/ n \in frames[i].rest)
Above(i) == \E j \in DOMAIN frames : j < i /\ frames[j].kind = "gc"

(* What the program, and calls in progress, get at directly.               *)
Outside == {n \in Node : var[n] \/ \E i \in DOMAIN frames : Mentions(i, n)}

-----------------------------------------------------------------------------
(* The collector is on the stack once while it runs, with the call it makes*)
(* above it, and the buffer does not end before its place in it.           *)
StackInv ==
    /\ \A i \in DOMAIN frames :
          /\ frames[i].kind \in {"del", "last"} => i = Len(frames)
          /\ frames[i].kind = "gcdtor" => phase = "call" /\ i > 1 /\ frames[i - 1].kind = "gc"
          /\ frames[i].kind = "gcfree" => phase = "destroy" /\ i > 1 /\ frames[i - 1].kind = "gc"
          /\ \A j \in DOMAIN frames : frames[i].kind = "gc" /\ frames[j].kind = "gc" => i = j
          /\ frames[i].kind = "gc" => phase # "idle"
    /\ phase # "idle" => \E i \in DOMAIN frames : frames[i].kind = "gc"
    /\ phase \in {"mark", "scan", "collect", "nested"} => Running("gc")
    /\ todo # {} => phase \in {"mark", "scan", "collect", "nested"}
    /\ black # {} => phase = "scan"
    /\ idx >= 1
    /\ phase \in {"collect", "nested", "call", "destroy"} => end <= Len(gc.buf)

Wired(g) ==
    /\ \A n \in Node : Buffered(g, n) => g.address[n] \in Used(g) /\ g.buf[g.address[n]].ref = n
    /\ \A i \in Used(g) : g.address[g.buf[i].ref] = i
    /\ ToSet(g.unused) = DOMAIN g.buf \ Used(g) /\ IsInjective(g.unused)

(* Memory that is given back is not referred to, and an object whose       *)
(* properties are destroyed only by the call that does it, or it is garbage*)
(* that the collector has passed.                                          *)
HeapInv ==
    \A n \in Node :
        /\ state[n] = "none" =>
              /\ ~var[n] /\ out[n] = {} /\ ~dtor_called[n] /\ ~free_called[n]
              /\ ~Buffered(gc, n) /\ gc.color[n] = "black"
              /\ \A m \in Node : n \notin out[m]
              /\ \A i \in DOMAIN frames : ~Mentions(i, n)
        /\ free_called[n] => out[n] = {} /\ (n \in Destructor => dtor_called[n])
        /\ free_called[n] /\ state[n] = "live" =>
              /\ ~var[n]
              /\ \A m \in Node : n \notin out[m]
              /\ InRest(frames, n) = {} /\ Calls(frames, {"dtor", "gcdtor"}, n) = {}
              /\ Calls(frames, {"free"}, n) # {}
        /\ state[n] = "null" => phase = "destroy" /\ free_called[n] /\ Tag(n) = "garbage"

(* The objects of the calls.                                               *)
FrameInv ==
    \A i \in DOMAIN frames :
        LET f == frames[i] IN
        /\ f.kind = "del" => state[f.obj] = "live" /\ ~free_called[f.obj] /\ gc.refcount[f.obj] = 0
        /\ f.kind \in {"dtor", "gcdtor", "last"} =>
              dtor_called[f.obj] /\ state[f.obj] = "live" /\ ~free_called[f.obj]
        /\ f.kind = "last" => gc.refcount[f.obj] = 0 \/ Buffered(gc, f.obj)
        /\ f.kind = "free" =>
              /\ free_called[f.obj] /\ state[f.obj] = "live"
              /\ \A j \in DOMAIN frames : frames[j].kind = "free" /\ frames[j].obj = f.obj => i = j
        /\ f.kind = "gcfree" => free_called[f.obj] /\ state[f.obj] = "null"
        /\ f.kind \in {"del", "dtor", "last", "gcdtor"} => f.rest = {}

(* Colours and tags.                                                       *)
Tags(p) ==
    IF p \in {"idle", "mark", "scan"} THEN {"none", "root"}
    ELSE IF p \in {"collect", "destroy"} THEN {"none", "root", "garbage"}
    ELSE IF p = "nested" THEN {"none", "garbage", "dtor"}
    ELSE {"none", "root", "garbage", "dtor"}

ColorInv ==
    \A n \in Node :
        /\ Tag(n) \in Tags(phase)
        /\ phase \in {"idle", "nested", "call", "destroy"} =>
              gc.color[n] = IF Tag(n) \in {"root", "dtor"} THEN "purple" ELSE "black"
        /\ phase = "mark" =>
              /\ gc.color[n] # "white"
              /\ gc.color[n] = "purple" => Buffered(gc, n) /\ gc.address[n] >= idx
              /\ Buffered(gc, n) => gc.color[n] # "black"
        /\ phase = "scan" => gc.color[n] # "purple"
        /\ phase = "collect" =>
              /\ gc.color[n] \in {"black", "white"}
              /\ Tag(n) = "root" <=> Buffered(gc, n) /\ idx <= gc.address[n] /\ gc.address[n] <= end
              /\ gc.color[n] = "white" /\ Buffered(gc, n) => idx <= gc.address[n] /\ gc.address[n] <= end
        /\ phase \in {"nested", "call", "destroy"} /\ Tag(n) \in {"garbage", "dtor"} => gc.address[n] <= end
        /\ Tag(n) = "dtor" => n \in Destructor
        /\ phase = "call" /\ Tag(n) = "dtor" => gc.address[n] >= idx
        /\ phase = "destroy" /\ Tag(n) = "garbage" /\ gc.address[n] < idx => state[n] = "null"

(* The references that a traversal has taken from the counts.              *)
Taken ==
    CASE phase = "mark" -> Painted("grey") \ todo
      [] phase = "scan" -> Painted("grey") \cup Painted("white") \cup black
      [] phase = "collect" -> Painted("white") \cup todo
      [] OTHER -> {}

Counted(n) == (IF var[n] THEN 1 ELSE 0) + Cardinality(Holders(n) \ Taken) + Held(frames, n)

CountInv == \A n \in Node : gc.refcount[n] = Counted(n)

(* Nothing is lost: calls, variables and the buffer lead to all objects.   *)
FoundInv == \A n \in Node : state[n] # "none" => n \in Reach(Outside \cup Roots)

MarkInv ==
    phase = "mark" =>
        /\ todo \subseteq Painted("grey")
        /\ \A m \in Painted("grey") \ todo : out[m] \subseteq Painted("grey")
        /\ Painted("grey") \subseteq Reach(Roots)

ScanInv ==
    phase = "scan" =>
        /\ Painted("grey") \cup todo \cup black \subseteq Reach(Roots)
        /\ todo \cap Painted("grey") = {} /\ black \subseteq Painted("black")
        /\ \A n \in Reach(Roots) :
              \/ gc.color[n] = "grey" \/ n \in black \/ (n \in todo /\ gc.color[n] # "black")
              \/ out[n] \cap Painted("grey") = {}
        /\ \A n \in Roots : gc.address[n] < idx => gc.color[n] # "grey"
        /\ \A n \in Painted("white") \ todo : gc.refcount[n] = 0
        /\ \A n \in Painted("black") : state[n] # "none" => n \in Reach(Outside)

Dead == Painted("white") \cup todo \cup Roots

CollectInv ==
    phase = "collect" =>
        /\ gc.unused = <<>>
        /\ todo \subseteq Painted("black")
        /\ \A n \in Node \ todo : gc.color[n] = "black" => out[n] \cap Painted("white") = {}
        /\ \A n \in Dead : state[n] # "none" /\ n \notin Outside /\ \A m \in Node : n \in out[m] => m \in Dead
        /\ \A n \in Node \ Dead : state[n] # "none" => n \in Reach(Outside)
        /\ \A n \in Roots \ todo : gc.color[n] = "black" /\ Undestructed(n) => has_dtors

(* What is tagged garbage is referred to by garbage only, or it is about to*)
(* be removed from the buffer, or being destroyed.                         *)
GarbageInv ==
    phase \in {"nested", "call", "destroy"} =>
        /\ \A n \in OfTag("garbage") :
              /\ ~var[n] /\ ~Undestructed(n)
              /\ \A i \in DOMAIN frames : Mentions(i, n) =>
                    phase = "destroy" /\ Above(i) /\ frames[i].kind \notin {"dtor", "gcdtor"}
              /\ \A m \in Node : n \in out[m] =>
                    \/ Tag(m) = "garbage"
                    \/ phase = "nested" /\ (n \in todo \/ (Tag(m) = "dtor" /\ gc.address[m] >= idx))
        /\ phase = "nested" => todo \subseteq Reach(OfTag("dtor"))

(* A run without destructors destroys whatever was not in use.             *)
InUse == {n \in Node : var[n] \/ \E i \in DOMAIN frames : Mentions(i, n) /\ ~Above(i)}

AllInv ==
    /\ phase \in {"nested", "call"} => rerun # "no"
    /\ phase = "destroy" /\ rerun = "no" =>
          /\ \A n \in Node : state[n] # "none" => Tag(n) = "garbage" \/ n \in Reach(InUse)
          /\ \A i \in DOMAIN frames : Calling(i) /\ Above(i) =>
                Tag(frames[i].obj) = "garbage" /\ frames[i].kind \in {"del", "last", "free", "gcfree"}

IInv ==
    /\ TypeOK /\ StackInv /\ Wired(gc) /\ HeapInv /\ FrameInv /\ ColorInv /\ CountInv /\ FoundInv
    /\ MarkInv /\ ScanInv /\ CollectInv /\ GarbageInv /\ AllInv
=============================================================================
