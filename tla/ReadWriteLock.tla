--------------------------- MODULE ReadWriteLock ---------------------------
(***************************************************************************)
(* What SDK\Lock promises to its users: on each tag, either one process    *)
(* holds the lock for itself or any number of processes share it.          *)
(***************************************************************************)
CONSTANTS
    Process,    \* the processes that use the lock
    Tag         \* Tag[p]: the tag process p locks

VARIABLE hold   \* hold[p]: "no", "sh" or "ex"

RWInit == hold = [p \in Process |-> "no"]

(* m is allowed beside what the others hold.                               *)
Allowed(p, m) ==
    \A q \in Process \ {p} :
        Tag[q] = Tag[p] => hold[q] = "no" \/ (m = "sh" /\ hold[q] = "sh")

Acquire(p, m) ==
    /\ hold[p] = "no"
    /\ Allowed(p, m)
    /\ hold' = [hold EXCEPT ![p] = m]

Release(p) ==
    /\ hold[p] # "no"
    /\ hold' = [hold EXCEPT ![p] = "no"]

RWNext ==
    \E p \in Process :
        \/ \E m \in {"sh", "ex"} : Acquire(p, m)
        \/ Release(p)

RWSpec == RWInit /\ [][RWNext]_hold
=============================================================================
