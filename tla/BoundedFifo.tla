----------------------------- MODULE BoundedFifo -----------------------------
(***************************************************************************)
(* What the SPSC queue promises its two threads: a first-in first-out      *)
(* queue that holds Room items, into which one thread puts 0, 1, 2, ... in *)
(* single steps and from which the other takes them.                       *)
(***************************************************************************)
EXTENDS Naturals, Sequences

CONSTANTS Room, Items

VARIABLES
    queue,     \* what was pushed and not popped, oldest first
    pushed,    \* how many items were pushed
    received   \* what was popped, in order

Init == queue = <<>> /\ pushed = 0 /\ received = <<>>

Push ==
    /\ pushed < Items
    /\ Len(queue) < Room
    /\ queue' = Append(queue, pushed)
    /\ pushed' = pushed + 1
    /\ UNCHANGED received

Pop ==
    /\ queue # <<>>
    /\ received' = Append(received, Head(queue))
    /\ queue' = Tail(queue)
    /\ UNCHANGED pushed

Next == Push \/ Pop

Spec == Init /\ [][Next]_<<queue, pushed, received>>
=============================================================================
