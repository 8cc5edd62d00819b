----------------------------- MODULE Allocator -----------------------------
(***************************************************************************)
(* What the kernel heap promises its clients (memory/heap.h): each grant   *)
(* is a range of the allocator's memory that overlaps no other grant.      *)
(***************************************************************************)
EXTENDS Integers

VARIABLES
    arena,      \* the bytes the allocator owns
    granted     \* pointer -> number of bytes the client may use there

Range(p, n) == p .. p + n - 1

Sound(g, mem) ==
    \A p \in DOMAIN g :
        /\ Range(p, g[p]) \subseteq mem
        /\ \A q \in DOMAIN g \ {p} : Range(p, g[p]) \cap Range(q, g[q]) = {}

Others(g, p) == [q \in DOMAIN g \ {p} |-> g[q]]

Init == arena = {} /\ granted = <<>>

\* More memory.
Grow == arena \subseteq arena' /\ UNCHANGED granted

\* A new grant, or a grant resized where it is.
Grant ==
    \E p \in DOMAIN granted' :
        /\ Others(granted', p) = Others(granted, p)
        /\ Sound(granted', arena)
        /\ UNCHANGED arena

Release ==
    \E p \in DOMAIN granted :
        /\ granted' = Others(granted, p)
        /\ UNCHANGED arena

Next == Grow \/ Grant \/ Release

Spec == Init /\ [][Next]_<<arena, granted>>
=============================================================================
