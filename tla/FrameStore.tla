----------------------------- MODULE FrameStore -----------------------------
(***************************************************************************)
(* What page frame allocation promises: two pools of frames, filled once,  *)
(* the kernel's below the user's; an allocation takes a run of contiguous  *)
(* free frames of its pool, and the system stops only for want of one.     *)
(***************************************************************************)
EXTENDS Integers

CONSTANT AllocSizes

VARIABLES
    opened,    \* the pools have been filled
    free,      \* the free frames of each pool
    owned,     \* the blocks that have been handed out
    exhausted  \* an allocation could not be served

vars == <<opened, free, owned, exhausted>>

Space == {"Kernel", "User"}

Init ==
    /\ opened = FALSE
    /\ free = [s \in Space |-> {}]
    /\ owned = {}
    /\ exhausted = FALSE

Open ==
    /\ ~opened
    /\ opened' = TRUE
    /\ \A k \in free'["Kernel"], u \in free'["User"] : k < u
    /\ UNCHANGED <<owned, exhausted>>

Run(f, n) == f..(f + n - 1)

Alloc(s, n) ==
    /\ opened /\ ~exhausted
    /\ \E f \in free[s] :
        /\ Run(f, n) \subseteq free[s]
        /\ free' = [free EXCEPT ![s] = @ \ Run(f, n)]
        /\ owned' = owned \cup {[start |-> f, end |-> f + n]}
    /\ UNCHANGED <<opened, exhausted>>

Fail(s, n) ==
    /\ opened /\ ~exhausted
    /\ \A f \in free[s] : ~(Run(f, n) \subseteq free[s])
    /\ exhausted' = TRUE
    /\ UNCHANGED <<opened, free, owned>>

Next ==
    \/ Open
    \/ \E s \in Space, n \in AllocSizes : Alloc(s, n) \/ Fail(s, n)

Spec == Init /\ [][Next]_vars
=============================================================================
