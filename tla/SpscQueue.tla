------------------------------ MODULE SpscQueue ------------------------------
(***************************************************************************)
(* The lock-free single-producer single-consumer ring buffer of            *)
(* algorithms-data-structures/rust/spsc-queue, and the program around it:  *)
(* one thread pushes 0 .. Items - 1, the other pops as many.               *)
(*                                                                         *)
(* The two indices are atomics.  wStores and rStores are their modification*)
(* orders: every value stored so far, oldest first.  An Acquire load need  *)
(* not return the latest value: it returns one at or after the position    *)
(* the thread has seen before, and what the other thread did up to that    *)
(* store is then visible.  A thread's Relaxed load of its own index always *)
(* returns its last store.                                                 *)
(***************************************************************************)
EXTENDS Integers, Sequences

CONSTANTS
    Capacity,   \* slots of the buffer (100)
    Items,      \* items the program sends (200)
    Uninit      \* MaybeUninit::uninit()

\* With capacity 0 push writes outside the buffer: new must not be given 0.
ASSUME SpscAssumption ==
    /\ Capacity \in Nat \ {0}
    /\ Items \in Nat
    /\ Uninit \notin Int

VARIABLES
    buffer,     \* slot -> item or Uninit
    wStores,    \* values stored into write_idx
    rStores,    \* values stored into read_idx
    pView,      \* position in rStores the producer has seen
    cView,      \* position in wStores the consumer has seen
    ppc,        \* where the producer is in push
    cpc,        \* where the consumer is in pop
    popped,     \* pop's result
    got         \* what the consumer has popped, in order

vars == <<buffer, wStores, rStores, pView, cView, ppc, cpc, popped, got>>

Slots == 0..(Capacity - 1)

Init ==
    /\ buffer = [i \in Slots |-> Uninit]
    /\ wStores = <<0>>
    /\ rStores = <<0>>
    /\ pView = 1
    /\ cView = 1
    /\ ppc = "load"
    /\ cpc = "load"
    /\ popped = Uninit
    /\ got = <<>>

NextIdx(i) == IF i + 1 = Capacity THEN 0 ELSE i + 1

WriteIdx == wStores[Len(wStores)]
ReadIdx == rStores[Len(rStores)]

\* How many pushes and pops are complete.
Pushed == Len(wStores) - 1
PoppedCount == Len(rStores) - 1

-----------------------------------------------------------------------------
(* push                                                                    *)

\* Mutants of Full: never full; the index itself compared, not the next.
FullNever(readIdx) == FALSE
FullAtOnce(readIdx) == WriteIdx = readIdx

Full(readIdx) == NextIdx(WriteIdx) = readIdx

\* The two loads and the test; false makes the program's loop call push again.
PushLoad(j) ==
    /\ ppc = "load"
    /\ Pushed < Items
    /\ j \in pView..Len(rStores)
    /\ pView' = j
    /\ ppc' = IF Full(rStores[j]) THEN "load" ELSE "write"
    /\ UNCHANGED <<buffer, wStores, rStores, cView, cpc, popped, got>>

\* Mutant of PushWrite: the item goes into the slot after.
PushWriteNext ==
    /\ ppc = "write"
    /\ buffer' = [buffer EXCEPT ![NextIdx(WriteIdx)] = Pushed]
    /\ ppc' = "store"
    /\ UNCHANGED <<wStores, rStores, pView, cView, cpc, popped, got>>

PushWrite ==
    /\ ppc = "write"
    /\ buffer' = [buffer EXCEPT ![WriteIdx] = Pushed]
    /\ ppc' = "store"
    /\ UNCHANGED <<wStores, rStores, pView, cView, cpc, popped, got>>

PushStore ==
    /\ ppc = "store"
    /\ wStores' = Append(wStores, NextIdx(WriteIdx))
    /\ ppc' = "load"
    /\ UNCHANGED <<buffer, rStores, pView, cView, cpc, popped, got>>

-----------------------------------------------------------------------------
(* pop                                                                     *)

Empty(writeIdx) == ReadIdx = writeIdx

\* The two loads and the test; None makes the program's loop call pop again.
PopLoad(j) ==
    /\ cpc = "load"
    /\ PoppedCount < Items
    /\ j \in cView..Len(wStores)
    /\ cView' = j
    /\ cpc' = IF Empty(wStores[j]) THEN "load" ELSE "read"
    /\ UNCHANGED <<buffer, wStores, rStores, pView, ppc, popped, got>>

PopRead ==
    /\ cpc = "read"
    /\ popped' = buffer[ReadIdx]
    /\ cpc' = "store"
    /\ UNCHANGED <<buffer, wStores, rStores, pView, cView, ppc, got>>

PopStore ==
    /\ cpc = "store"
    /\ rStores' = Append(rStores, NextIdx(ReadIdx))
    /\ got' = Append(got, popped)
    /\ cpc' = "load"
    /\ UNCHANGED <<buffer, wStores, pView, cView, ppc, popped>>

-----------------------------------------------------------------------------
Producer == (\E j \in 1..Len(rStores) : PushLoad(j)) \/ PushWrite \/ PushStore
Consumer == (\E j \in 1..Len(wStores) : PopLoad(j)) \/ PopRead \/ PopStore

\* thread::scope ends when both threads have.
Finished ==
    /\ Pushed = Items /\ PoppedCount = Items
    /\ UNCHANGED vars

Next == Producer \/ Consumer \/ Finished

Spec == Init /\ [][Next]_vars

\* The threads run, and a load repeated for ever sees the other's last store
\* in the end.
Fairness ==
    /\ WF_vars(PushWrite) /\ WF_vars(PushStore)
    /\ WF_vars(PushLoad(Len(rStores)))
    /\ WF_vars(PopRead) /\ WF_vars(PopStore)
    /\ WF_vars(PopLoad(Len(wStores)))

FairSpec == Spec /\ Fairness

-----------------------------------------------------------------------------
(* Properties                                                              *)

\* The type invariant: the indices stay inside the buffer, so no access is
\* out of bounds.
TypeOK ==
    /\ buffer \in [Slots -> Nat \cup {Uninit}]
    /\ wStores \in Seq(Slots) /\ Len(wStores) >= 1
    /\ rStores \in Seq(Slots) /\ Len(rStores) >= 1
    /\ pView \in 1..Len(rStores)
    /\ cView \in 1..Len(wStores)
    /\ ppc \in {"load", "write", "store"}
    /\ cpc \in {"load", "read", "store"}
    /\ popped \in Nat \cup {Uninit}
    /\ got \in Seq(Nat \cup {Uninit})

\* The consumer gets 0, 1, 2, ...: nothing is lost, repeated, reordered or
\* read before it was written, however stale the indices the threads see.
InOrder == \A k \in DOMAIN got : got[k] = k - 1

\* No data race on a slot.  What the two threads do to the same slot is ordered
\* by an Acquire load that saw the Release store after it: when the producer is
\* about to write a slot, the reads of all earlier items there were published
\* and seen; when the consumer is about to read an item, its write was.
RaceFree ==
    /\ ppc = "write" =>
          \A k \in 1..Pushed : wStores[k] = WriteIdx => k < pView
    /\ cpc = "read" => Len(rStores) < cView

\* The queue as its users see it: the completed pushes not yet popped.
Contents == [k \in 1..(Len(wStores) - Len(rStores)) |-> buffer[wStores[Len(rStores) + k - 1]]]

Fifo == INSTANCE BoundedFifo
            WITH Room <- Capacity - 1, queue <- Contents, pushed <- Pushed, received <- got

\* push and pop are atomic operations on a FIFO queue of Capacity - 1 items,
\* taking effect at their Release store.
ImplementsFifo == Fifo!Spec

\* The program ends: every item arrives and neither thread spins for ever.
AllDelivered == <>(Len(got) = Items)
=============================================================================
