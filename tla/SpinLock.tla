------------------------------ MODULE SpinLock ------------------------------
(***************************************************************************)
(* The spin locks of algorithms-data-structures/rust and the programs that *)
(* count with them: spin-lock (a lock beside the data, lock() and unlock())*)
(* and spin-lock-2 (a lock around the data, released when the guard is     *)
(* dropped).  Threads add to a plain, non-atomic counter.                  *)
(*                                                                         *)
(* swap always sees the last value of the lock, and a swap that reads the  *)
(* false of a Release store sees what was done before it; so the counter   *)
(* is read as it was last written unless two threads are inside at once.   *)
(***************************************************************************)
EXTENDS Integers, FiniteSets

CONSTANTS
    Threads,   \* the spawned threads (2)
    Rounds,    \* increments per thread (5)
    Guarded,   \* spin-lock-2: main takes the lock to print
    NotYet     \* nothing printed

ASSUME SpinAssumption ==
    /\ IsFiniteSet(Threads)
    /\ Rounds \in Nat \ {0}
    /\ Guarded \in BOOLEAN
    /\ NotYet \notin Int

VARIABLES
    lock,      \* the AtomicBool
    counter,   \* the data
    pc,        \* where each thread is in its loop
    tmp,       \* the value a thread has read in *ptr += 1
    left,      \* rounds a thread has left
    mainpc,    \* where main is, from the end of thread::scope on
    printed    \* what main printed

vars == <<lock, counter, pc, tmp, left, mainpc, printed>>

Init ==
    /\ lock = FALSE
    /\ counter = 0
    /\ pc = [t \in Threads |-> "lock"]
    /\ tmp = [t \in Threads |-> 0]
    /\ left = [t \in Threads |-> Rounds]
    /\ mainpc = "join"
    /\ printed = NotYet

\* Mutant of Lock: what swap returns is not looked at.
LockUnchecked(t) ==
    /\ pc[t] = "lock"
    /\ lock' = TRUE
    /\ pc' = [pc EXCEPT ![t] = "read"]
    /\ UNCHANGED <<counter, tmp, left, mainpc, printed>>

\* One turn of the loop in lock(): swap(true), until it returns false.
Lock(t) ==
    /\ pc[t] = "lock"
    /\ lock' = TRUE
    /\ pc' = IF lock THEN pc ELSE [pc EXCEPT ![t] = "read"]
    /\ UNCHANGED <<counter, tmp, left, mainpc, printed>>

\* *ptr += 1 is a read and a write.
Read(t) ==
    /\ pc[t] = "read"
    /\ tmp' = [tmp EXCEPT ![t] = counter]
    /\ pc' = [pc EXCEPT ![t] = "write"]
    /\ UNCHANGED <<lock, counter, left, mainpc, printed>>

\* Mutant of Write: the value read is written back.
WriteBack(t) ==
    /\ pc[t] = "write"
    /\ counter' = tmp[t]
    /\ pc' = [pc EXCEPT ![t] = "unlock"]
    /\ UNCHANGED <<lock, tmp, left, mainpc, printed>>

Write(t) ==
    /\ pc[t] = "write"
    /\ counter' = tmp[t] + 1
    /\ pc' = [pc EXCEPT ![t] = "unlock"]
    /\ UNCHANGED <<lock, tmp, left, mainpc, printed>>

\* Mutant of Unlock: the guard is leaked, the last time round.
UnlockLeaked(t) ==
    /\ pc[t] = "unlock"
    /\ lock' = (left[t] = 1)
    /\ left' = [left EXCEPT ![t] = @ - 1]
    /\ pc' = [pc EXCEPT ![t] = IF left[t] > 1 THEN "lock" ELSE "done"]
    /\ UNCHANGED <<counter, tmp, mainpc, printed>>

\* unlock(), or the guard's drop at the end of the loop's body.
Unlock(t) ==
    /\ pc[t] = "unlock"
    /\ lock' = FALSE
    /\ left' = [left EXCEPT ![t] = @ - 1]
    /\ pc' = [pc EXCEPT ![t] = IF left[t] > 1 THEN "lock" ELSE "done"]
    /\ UNCHANGED <<counter, tmp, mainpc, printed>>

\* thread::scope returns when every thread has; main prints the counter,
\* in spin-lock-2 under the lock, which it drops with the guard.
Join ==
    /\ mainpc = "join"
    /\ \A t \in Threads : pc[t] = "done"
    /\ mainpc' = IF Guarded THEN "lock" ELSE "print"
    /\ UNCHANGED <<lock, counter, pc, tmp, left, printed>>

MainLock ==
    /\ mainpc = "lock"
    /\ lock' = TRUE
    /\ mainpc' = IF lock THEN "lock" ELSE "print"
    /\ UNCHANGED <<counter, pc, tmp, left, printed>>

PrintCounter ==
    /\ mainpc = "print"
    /\ printed' = counter
    /\ lock' = IF Guarded THEN FALSE ELSE lock
    /\ mainpc' = "done"
    /\ UNCHANGED <<counter, pc, tmp, left>>

Exit == mainpc = "done" /\ UNCHANGED vars

ThreadStep(t) == Lock(t) \/ Read(t) \/ Write(t) \/ Unlock(t)

Main == Join \/ MainLock \/ PrintCounter

Next == (\E t \in Threads : ThreadStep(t)) \/ Main \/ Exit

Spec == Init /\ [][Next]_vars

\* Every thread runs.  No thread is promised the lock.
Fairness == WF_vars(Main) /\ \A t \in Threads : WF_vars(ThreadStep(t))

FairSpec == Spec /\ Fairness

-----------------------------------------------------------------------------
(* Properties                                                              *)

\* The type invariant.
TypeOK ==
    /\ lock \in BOOLEAN
    /\ counter \in Nat
    /\ pc \in [Threads -> {"lock", "read", "write", "unlock", "done"}]
    /\ tmp \in [Threads -> Nat]
    /\ left \in [Threads -> 0..Rounds]
    /\ mainpc \in {"join", "lock", "print", "done"}
    /\ printed \in Nat \cup {NotYet}

Inside(t) == pc[t] \in {"read", "write", "unlock"}

\* At most one thread is between lock() and unlock(): the accesses to the
\* counter, which are not atomic, never race.
MutualExclusion == \A t, u \in Threads : Inside(t) /\ Inside(u) => t = u

Counter == INSTANCE AtomicCounter
    WITH value <- counter,
         left  <- [t \in Threads |-> IF pc[t] = "unlock" THEN left[t] - 1 ELSE left[t]]

\* The locked read and write add to the counter in one step: no increment is
\* lost, and main prints the value after all of them.
ImplementsCounter == Counter!Spec

\* The program ends: nobody spins on a lock that is never released.
Terminates == <>(mainpc = "done")
=============================================================================
