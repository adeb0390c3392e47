------------------------- MODULE RustProgramsProofs -------------------------
(***************************************************************************)
(* Proofs about the spin lock's threads, for any number of threads and     *)
(* increments, and about the stopping of the workers, for any number of    *)
(* rounds.                                                                 *)
(***************************************************************************)
EXTENDS SpinLock, TokioWorkers, TLAPS

-----------------------------------------------------------------------------
(* The spin lock                                                           *)

\* A thread inside holds the lock and is alone, and what it has read is still
\* what the counter is.
Holder ==
    /\ \A t \in Threads : Inside(t) => lock
    /\ MutualExclusion
    /\ \A t \in Threads : pc[t] = "write" => tmp[t] = counter

\* A thread is done when it has no rounds left; main goes on when all are,
\* and has printed when it is done.
Progress ==
    /\ \A t \in Threads : pc[t] = "done" <=> left[t] = 0
    /\ mainpc # "join" => \A t \in Threads : pc[t] = "done"
    /\ mainpc # "done" => printed = NotYet

Inv == TypeOK /\ Holder /\ Progress

-----------------------------------------------------------------------------
\* All threads are outside at first.
LEMMA InitInv == Init => Inv
<1> SUFFICES ASSUME Init PROVE Inv
  OBVIOUS
<1>1. Rounds \in Nat /\ Rounds # 0
  BY SpinAssumption
<1>a. left \in [Threads -> 0..Rounds]
  <2>1. Rounds \in 0..Rounds
    BY <1>1
  <2> QED
    BY <2>1 DEF Init
<1>b. pc \in [Threads -> {"lock", "read", "write", "unlock", "done"}]
  BY DEF Init
<1>c. tmp \in [Threads -> Nat] /\ counter \in Nat
  BY DEF Init
<1>2. TypeOK
  BY <1>a, <1>b, <1>c DEF Init, TypeOK
<1>3. Holder
  BY DEF Init, Holder, MutualExclusion, Inside
<1>4. Progress
  BY <1>1 DEF Init, Progress
<1> QED
  BY <1>2, <1>3, <1>4 DEF Inv

\* A swap that returns false finds nobody inside.
LEMMA LockInv == ASSUME Inv, NEW t \in Threads, Lock(t) PROVE Inv'
<1>1. TypeOK'
  BY DEF Inv, TypeOK, Lock
<1>2. Holder'
  BY DEF Inv, TypeOK, Holder, MutualExclusion, Inside, Lock
<1>3. Progress'
  BY DEF Inv, TypeOK, Progress, Lock
<1> QED
  BY <1>1, <1>2, <1>3 DEF Inv

\* The read half of the increment.
LEMMA ReadInv == ASSUME Inv, NEW t \in Threads, Read(t) PROVE Inv'
<1>1. TypeOK'
  BY DEF Inv, TypeOK, Read
<1>2. Holder'
  BY DEF Inv, TypeOK, Holder, MutualExclusion, Inside, Read
<1>3. Progress'
  BY DEF Inv, TypeOK, Progress, Read
<1> QED
  BY <1>1, <1>2, <1>3 DEF Inv

\* The write half: no other thread has read in between.
LEMMA WriteInv == ASSUME Inv, NEW t \in Threads, Write(t) PROVE Inv'
<1>1. TypeOK'
  BY DEF Inv, TypeOK, Write
<1>2. Holder'
  BY DEF Inv, TypeOK, Holder, MutualExclusion, Inside, Write
<1>3. Progress'
  BY DEF Inv, TypeOK, Progress, Write
<1> QED
  BY <1>1, <1>2, <1>3 DEF Inv

\* The release leaves nobody inside.
LEMMA UnlockInv == ASSUME Inv, NEW t \in Threads, Unlock(t) PROVE Inv'
<1>0. Rounds \in Nat
  BY SpinAssumption
<1>a. left[t] # 0
  BY DEF Inv, Progress, Unlock
<1>b. left[t] \in 0..Rounds
  BY DEF Inv, TypeOK
<1>1. left[t] \in 1..Rounds /\ Rounds \in Nat
  BY <1>0, <1>a, <1>b
<1>2. TypeOK'
  <2>1. left' \in [Threads -> 0..Rounds]
    <3>1. left[t] - 1 \in 0..Rounds
      BY <1>1
    <3>2. left \in [Threads -> 0..Rounds] /\ left' = [left EXCEPT ![t] = left[t] - 1]
      BY DEF Inv, TypeOK, Unlock
    <3> QED
      BY <3>1, <3>2
  <2>2. pc' \in [Threads -> {"lock", "read", "write", "unlock", "done"}]
    <3>1. pc' = [pc EXCEPT ![t] = IF left[t] > 1 THEN "lock" ELSE "done"]
      BY DEF Unlock
    <3>2. pc \in [Threads -> {"lock", "read", "write", "unlock", "done"}]
      BY DEF Inv, TypeOK
    <3> QED
      BY <3>1, <3>2
  <2>3. lock' \in BOOLEAN /\ UNCHANGED <<counter, tmp, mainpc, printed>>
    BY DEF Unlock
  <2> QED
    BY <2>1, <2>2, <2>3 DEF Inv, TypeOK
<1>3. Holder'
  BY DEF Inv, TypeOK, Holder, MutualExclusion, Inside, Unlock
<1>4. Progress'
  BY <1>1 DEF Inv, TypeOK, Progress, Unlock
<1> QED
  BY <1>2, <1>3, <1>4 DEF Inv

\* main runs when the threads no longer do.
LEMMA MainInv == ASSUME Inv, Main PROVE Inv'
<1>1. TypeOK'
  BY DEF Inv, TypeOK, Main, Join, MainLock, PrintCounter
<1>2. Holder'
  BY DEF Inv, TypeOK, Holder, MutualExclusion, Inside, Progress, Main, Join, MainLock, PrintCounter
<1>3. Progress'
  BY DEF Inv, TypeOK, Progress, Main, Join, MainLock, PrintCounter
<1> QED
  BY <1>1, <1>2, <1>3 DEF Inv

\* Every step keeps the invariant.
LEMMA NextInv == ASSUME Inv, [Next]_vars PROVE Inv'
<1>1. CASE UNCHANGED vars
  BY <1>1 DEF Inv, TypeOK, Holder, MutualExclusion, Inside, Progress, vars
<1> QED
  BY <1>1, LockInv, ReadInv, WriteInv, UnlockInv, MainInv DEF Next, ThreadStep, Exit

\* The inductive invariant holds for any threads and rounds.
THEOREM Invariance == Spec => []Inv
BY InitInv, NextInv, PTL DEF Spec

\* The program's variables keep their types.
THEOREM TypeCorrect == Spec => []TypeOK
<1>1. Inv => TypeOK
  BY DEF Inv
<1> QED
  BY <1>1, Invariance, PTL

\* At most one thread is between lock and unlock, however many there are.
THEOREM Exclusion == Spec => []MutualExclusion
<1>1. Inv => MutualExclusion
  BY DEF Inv, Holder
<1> QED
  BY <1>1, Invariance, PTL

-----------------------------------------------------------------------------
(* The refinement                                                          *)

AbsLeft == [t \in Threads |-> IF pc[t] = "unlock" THEN left[t] - 1 ELSE left[t]]

\* The write is the increment, printing is the report, the rest is silent.
LEMMA CounterStep ==
    ASSUME Inv, [Next]_vars
    PROVE  [Counter!Next]_<<counter, AbsLeft, printed>>
<1>1. ASSUME NEW t \in Threads, Write(t) PROVE Counter!Increment(t)
  <2>1. tmp[t] = counter /\ counter' = counter + 1 /\ UNCHANGED <<printed, left>>
    BY <1>1 DEF Inv, Holder, Write
  <2>2. /\ pc[t] = "write" /\ pc'[t] = "unlock" /\ \A u \in Threads : u # t => pc'[u] = pc[u]
        /\ left[t] > 0
    BY <1>1, SpinAssumption DEF Inv, TypeOK, Progress, Write
  <2>3. AbsLeft[t] > 0
    BY <2>2 DEF AbsLeft
  <2>4. AbsLeft' = [AbsLeft EXCEPT ![t] = @ - 1]
    BY <2>1, <2>2 DEF AbsLeft
  <2> QED
    BY <2>1, <2>3, <2>4 DEF Counter!Increment, AbsLeft
<1>2. ASSUME NEW t \in Threads, Lock(t) \/ Read(t) \/ Unlock(t)
      PROVE  UNCHANGED <<counter, AbsLeft, printed>>
  <2>1. \A u \in Threads : (IF pc'[u] = "unlock" THEN left'[u] - 1 ELSE left'[u])
                              = (IF pc[u] = "unlock" THEN left[u] - 1 ELSE left[u])
    BY <1>2 DEF Inv, TypeOK, Lock, Read, Unlock
  <2>2. AbsLeft' = AbsLeft
    BY <2>1 DEF AbsLeft
  <2> QED
    BY <1>2, <2>2 DEF Lock, Read, Unlock
<1>3. ASSUME PrintCounter PROVE Counter!Report
  <2>1. \A t \in Threads : pc[t] = "done" /\ left[t] = 0
    BY <1>3 DEF Inv, Progress, PrintCounter
  <2>2. \A t \in Threads : AbsLeft[t] = 0
    BY <2>1 DEF AbsLeft
  <2>3. printed = NotYet /\ printed' = counter /\ UNCHANGED <<counter, pc, left>>
    BY <1>3 DEF Inv, Progress, PrintCounter
  <2> QED
    BY <2>2, <2>3 DEF Counter!Report, AbsLeft
<1>4. ASSUME Join \/ MainLock \/ UNCHANGED vars
      PROVE  UNCHANGED <<counter, AbsLeft, printed>>
  BY <1>4 DEF Join, MainLock, vars, AbsLeft
<1> QED
  BY <1>1, <1>2, <1>3, <1>4 DEF Next, ThreadStep, Main, Exit, Counter!Next

\* Counting under the spin lock implements an atomic counter: no increment is
\* lost, for any number of threads and rounds, with or without the guard.
THEOREM Refinement == Spec => ImplementsCounter
<1>1. Init => Counter!Init
  BY DEF Init, Counter!Init
<1>2. Inv /\ [Next]_vars => [Counter!Next]_<<counter, AbsLeft, printed>>
  BY CounterStep
<1> QED
  BY <1>1, <1>2, Invariance, PTL DEF Spec, ImplementsCounter, Counter!Spec, AbsLeft

-----------------------------------------------------------------------------
(* The workers                                                             *)

\* No task outside of a round, and none that has not been spawned.
Spawned == task # "none" <=> main \in {"stop", "await"}

\* What the flags are between two stores of do_work.
Flags ==
    /\ task \in {"none", "head", "begin", "ended"} => ~is_doing_work /\ (started => work_is_done)
    /\ task \in {"idle", "lastidle"} => work_is_done

\* A TokenWorker's task only ends after the stores of its last branch.
TokenFlags ==
    kind = "token" => /\ task = "ended" => work_is_done
                      /\ task = "none" /\ main # "spawn" => work_is_done

TokioInv == TokioTypeOK /\ Spawned /\ Flags /\ TokenFlags

-----------------------------------------------------------------------------
\* Nothing has been spawned at first.
LEMMA TokioInitInv == TokioInit => TokioInv
<1> SUFFICES ASSUME TokioInit PROVE TokioInv
  OBVIOUS
<1>1. 1 \in 1..Cycles
  BY TokioAssumption
<1>2. kind \in {"atomic", "token"}
  BY TokioAssumption DEF TokioInit
<1>3. TokioTypeOK
  BY <1>1, <1>2 DEF TokioInit, TokioTypeOK
<1> QED
  BY <1>3 DEF TokioInit, TokioInv, Spawned, Flags, TokenFlags

\* Every store of do_work keeps the flags in step with the task's place.
LEMMA TaskInv == ASSUME TokioInv, Task PROVE TokioInv'
<1>1. CASE Head
  BY <1>1 DEF TokioInv, TokioTypeOK, Spawned, Flags, TokenFlags, Head
<1>2. CASE Begin
  BY <1>2 DEF TokioInv, TokioTypeOK, Spawned, Flags, TokenFlags, Begin
<1>3. CASE ClearDone
  BY <1>3 DEF TokioInv, TokioTypeOK, Spawned, Flags, TokenFlags, ClearDone
<1>4. CASE Worked
  BY <1>4 DEF TokioInv, TokioTypeOK, Spawned, Flags, TokenFlags, Worked
<1>5. CASE Cancelled
  BY <1>5 DEF TokioInv, TokioTypeOK, Spawned, Flags, TokenFlags, Cancelled
<1>6. CASE SetDone
  BY <1>6 DEF TokioInv, TokioTypeOK, Spawned, Flags, TokenFlags, SetDone
<1>7. CASE SetIdle
  BY <1>7 DEF TokioInv, TokioTypeOK, Spawned, Flags, TokenFlags, SetIdle
<1> QED
  BY <1>1, <1>2, <1>3, <1>4, <1>5, <1>6, <1>7 DEF Task

\* The program touches a task only when it spawns it and when it has ended.
LEMMA ProgramInv == ASSUME TokioInv, Program PROVE TokioInv'
<1>1. CASE Spawn
  BY <1>1 DEF TokioInv, TokioTypeOK, Spawned, Flags, TokenFlags, Spawn
<1>2. CASE Stop
  BY <1>2 DEF TokioInv, TokioTypeOK, Spawned, Flags, TokenFlags, Stop
<1>3. CASE Await
  BY <1>3 DEF TokioInv, TokioTypeOK, Spawned, Flags, TokenFlags, Await
<1>4. CASE Continue
  <2>1. round' \in 1..Cycles
    <3>1. Cycles \in Nat /\ round \in 1..Cycles
      BY TokioAssumption DEF TokioInv, TokioTypeOK
    <3>2. round' = round \/ (round < Cycles /\ round' = round + 1)
      BY <1>4 DEF Continue
    <3> QED
      BY <3>1, <3>2
  <2>2. TokioTypeOK'
    BY <1>4, <2>1 DEF TokioInv, TokioTypeOK, Continue
  <2> QED
    BY <1>4, <2>2 DEF TokioInv, Spawned, Flags, TokenFlags, Continue
<1> QED
  BY <1>1, <1>2, <1>3, <1>4 DEF Program

\* Every step keeps the invariant.
LEMMA TokioNextInv == ASSUME TokioInv, [TokioNext]_tokioVars PROVE TokioInv'
<1>1. CASE UNCHANGED tokioVars
  BY <1>1 DEF TokioInv, TokioTypeOK, Spawned, Flags, TokenFlags, tokioVars
<1> QED
  BY <1>1, TaskInv, ProgramInv DEF TokioNext, TokioExit

\* The inductive invariant holds for any number of rounds.
THEOREM TokioInvariance == TokioSpec => []TokioInv
BY TokioInitInv, TokioNextInv, PTL DEF TokioSpec

\* The worker's and the program's variables keep their types.
THEOREM TokioTypeCorrect == TokioSpec => []TokioTypeOK
<1>1. TokioInv => TokioTypeOK
  BY DEF TokioInv
<1> QED
  BY <1>1, TokioInvariance, PTL

\* An awaited worker is idle and has finished what it began.
THEOREM StopIsGraceful == TokioSpec => []GracefulStop
<1>1. TokioInv => GracefulStop
  BY DEF TokioInv, TokioTypeOK, Spawned, Flags, GracefulStop, Joined
<1> QED
  BY <1>1, TokioInvariance, PTL

\* The assert after the token worker holds, whenever its task is first polled.
THEOREM TokenAssertHolds == TokioSpec => []TokenWorkIsDone
<1>1. TokioInv => TokenWorkIsDone
  BY DEF TokioInv, TokioTypeOK, Spawned, TokenFlags, TokenWorkIsDone, AssertWorkIsDone, Joined
<1> QED
  BY <1>1, TokioInvariance, PTL
=============================================================================
