---------------------------- MODULE TokioWorkers ----------------------------
(***************************************************************************)
(* The two ways of stopping a worker task in                               *)
(* experiments/rust-tokio-shutdowns: AtomicWorker looks at a flag before   *)
(* each piece of work, TokenWorker selects between the end of the work and *)
(* a cancellation.  The program that starts and stops the worker is        *)
(* main.rs (one round, then an assert) or benches/workers.rs (many rounds  *)
(* with the same worker, whose stop signal is never taken back).           *)
(*                                                                         *)
(* The task and the program run on different runtime threads, and the      *)
(* 50 ms main sleeps after spawn orders nothing: the task's first poll may *)
(* come later.  Each atomic is shared by name only, so loads and stores    *)
(* interleave; JoinHandle's await orders what the task did before it.      *)
(***************************************************************************)
EXTENDS Naturals

CONSTANTS
    Kinds,    \* the workers under test: "atomic", "token"
    Cycles    \* rounds: how often the worker is spawned and stopped (bench: many)

ASSUME TokioAssumption ==
    /\ Kinds \subseteq {"atomic", "token"}
    /\ Cycles \in Nat \ {0}

VARIABLES
    kind,            \* AtomicWorker or TokenWorker
    stop_signal,     \* the flag, or the state all clones of the token share
    is_doing_work,
    work_is_done,
    started,         \* some task has begun a piece of work (history)
    task,            \* where the spawned task is; "none" when there is none
    main,            \* where the program is
    round            \* rounds begun

tokioVars == <<kind, stop_signal, is_doing_work, work_is_done, started, task, main, round>>

TokioInit ==
    /\ kind \in Kinds
    /\ stop_signal = FALSE
    /\ is_doing_work = FALSE
    /\ work_is_done = FALSE
    /\ started = FALSE
    /\ task = "none"
    /\ main = "spawn"
    /\ round = 1

-----------------------------------------------------------------------------
(* The task: do_work                                                       *)

\* The head of the loop.  AtomicWorker loads the flag.
Head ==
    /\ task = "head"
    /\ task' = IF kind = "atomic" /\ stop_signal THEN "ended" ELSE "begin"
    /\ UNCHANGED <<kind, stop_signal, is_doing_work, work_is_done, started, main, round>>

Begin ==
    /\ task = "begin"
    /\ is_doing_work' = TRUE
    /\ started' = TRUE
    /\ task' = "clear"
    /\ UNCHANGED <<kind, stop_signal, work_is_done, main, round>>

ClearDone ==
    /\ task = "clear"
    /\ work_is_done' = FALSE
    /\ task' = "work"
    /\ UNCHANGED <<kind, stop_signal, is_doing_work, started, main, round>>

\* The sleep ends: sleep(..).await, or the first branch of select!.
Worked ==
    /\ task = "work"
    /\ task' = "finish"
    /\ UNCHANGED <<kind, stop_signal, is_doing_work, work_is_done, started, main, round>>

\* Mutant of Cancelled: break without tidying up.
CancelledAtOnce ==
    /\ task = "work"
    /\ kind = "token"
    /\ stop_signal
    /\ task' = "ended"
    /\ UNCHANGED <<kind, stop_signal, is_doing_work, work_is_done, started, main, round>>

\* The second branch of select!, ready once the token is cancelled.
Cancelled ==
    /\ task = "work"
    /\ kind = "token"
    /\ stop_signal
    /\ task' = "last"
    /\ UNCHANGED <<kind, stop_signal, is_doing_work, work_is_done, started, main, round>>

\* Both branches end with the same two stores; the second one then breaks.
SetDone ==
    /\ task \in {"finish", "last"}
    /\ work_is_done' = TRUE
    /\ task' = IF task = "finish" THEN "idle" ELSE "lastidle"
    /\ UNCHANGED <<kind, stop_signal, is_doing_work, started, main, round>>

\* Mutant of SetIdle: the flag is not reset.
SetIdleForgotten ==
    /\ task \in {"idle", "lastidle"}
    /\ is_doing_work' = is_doing_work
    /\ task' = IF task = "idle" THEN "head" ELSE "ended"
    /\ UNCHANGED <<kind, stop_signal, work_is_done, started, main, round>>

SetIdle ==
    /\ task \in {"idle", "lastidle"}
    /\ is_doing_work' = FALSE
    /\ task' = IF task = "idle" THEN "head" ELSE "ended"
    /\ UNCHANGED <<kind, stop_signal, work_is_done, started, main, round>>

Task == Head \/ Begin \/ ClearDone \/ Worked \/ Cancelled \/ SetDone \/ SetIdle

-----------------------------------------------------------------------------
(* The program                                                             *)

Spawn ==
    /\ main = "spawn"
    /\ task' = "head"
    /\ main' = "stop"
    /\ UNCHANGED <<kind, stop_signal, is_doing_work, work_is_done, started, round>>

\* Mutant of Stop: the clone of the worker has a token of its own.
StopClone ==
    /\ main = "stop"
    /\ stop_signal' = (kind = "atomic")
    /\ main' = "await"
    /\ UNCHANGED <<kind, is_doing_work, work_is_done, started, task, round>>

\* stop_signal.store(true), or cancel() on a clone of the worker.
Stop ==
    /\ main = "stop"
    /\ stop_signal' = TRUE
    /\ main' = "await"
    /\ UNCHANGED <<kind, is_doing_work, work_is_done, started, task, round>>

\* handle.await
Await ==
    /\ main = "await"
    /\ task = "ended"
    /\ task' = "none"
    /\ main' = "joined"
    /\ UNCHANGED <<kind, stop_signal, is_doing_work, work_is_done, started, round>>

\* The assert, and the next round of the bench.
Continue ==
    /\ main = "joined"
    /\ IF round < Cycles
       THEN main' = "spawn" /\ round' = round + 1
       ELSE main' = "exit" /\ round' = round
    /\ UNCHANGED <<kind, stop_signal, is_doing_work, work_is_done, started, task>>

Program == Spawn \/ Stop \/ Await \/ Continue

TokioExit == main = "exit" /\ UNCHANGED tokioVars

TokioNext == Task \/ Program \/ TokioExit

TokioSpec == TokioInit /\ [][TokioNext]_tokioVars

\* The runtime polls every task that is ready.  select! picks at random among
\* the branches that are ready, so a cancelled token is noticed in the end
\* though the sleep may win many times.
TokioFairness == WF_tokioVars(Task) /\ WF_tokioVars(Program) /\ SF_tokioVars(Cancelled)

TokioFairSpec == TokioSpec /\ TokioFairness

-----------------------------------------------------------------------------
(* Properties                                                              *)

\* The type invariant.
TokioTypeOK ==
    /\ kind \in {"atomic", "token"}
    /\ stop_signal \in BOOLEAN
    /\ is_doing_work \in BOOLEAN
    /\ work_is_done \in BOOLEAN
    /\ started \in BOOLEAN
    /\ task \in {"none", "head", "begin", "clear", "work", "finish", "idle",
                 "last", "lastidle", "ended"}
    /\ main \in {"spawn", "stop", "await", "joined", "exit"}
    /\ round \in 1..Cycles

Joined == main \in {"joined", "exit"}

\* A worker that has been stopped and awaited is not in the middle of its
\* work: it is idle, and what it began is marked as done.
GracefulStop == Joined => ~is_doing_work /\ (started => work_is_done)

\* What main.rs asserts after it has awaited the worker.
AssertWorkIsDone == Joined => work_is_done

\* The same for TokenWorker, which begins its work before it looks at the
\* token: the assert holds however late the task is first polled.
TokenWorkIsDone == kind = "token" => AssertWorkIsDone

\* A stopped worker ends: the program is never left waiting for the task.
ProgramEnds == <>(main = "exit")
=============================================================================
