------------------------------ MODULE KbdQueue ------------------------------
(***************************************************************************)
(* What the keyboard driver promises its readers: a bounded queue of       *)
(* characters, filled by the interrupt and emptied from the front.         *)
(***************************************************************************)
EXTENDS Sequences, Integers

CONSTANTS Chars, Capacity

VARIABLES
    queue,      \* characters typed and not yet read
    got         \* what a read has returned and its caller not yet used

Init == queue = <<>> /\ got = <<>>

Type ==
    /\ Len(queue) < Capacity
    /\ \E ch \in Chars : queue' = Append(queue, ch)
    /\ UNCHANGED got

Read ==
    \E n \in 1 .. Len(queue) :
        /\ got = <<>>
        /\ got' = SubSeq(queue, 1, n)
        /\ queue' = SubSeq(queue, n + 1, Len(queue))

Use ==
    /\ got # <<>> /\ got' = <<>>
    /\ UNCHANGED queue

Spec == Init /\ [][Type \/ Read \/ Use]_<<queue, got>>
=============================================================================
