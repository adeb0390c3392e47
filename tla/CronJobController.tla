--------------------------- MODULE CronJobController ---------------------------
(***************************************************************************)
(* The CronJob reconciler (kubebuilder-tutorial/internal/controller) and   *)
(* what it runs against: the API server's objects, the informer caches it  *)
(* reads them through, the work queue that calls it, the clock, the Job    *)
(* controller and the users.                                               *)
(*                                                                         *)
(* There is one CronJob.  Its Jobs are named after their scheduled times   *)
(* ("<name>-<unix time>"), so a Job is identified by that time.  Time is   *)
(* counted in ticks.  A call to the API server is a step of its own;       *)
(* everything may happen between two of them.  Reads go to the caches,     *)
(* writes to the server.                                                   *)
(***************************************************************************)
EXTENDS CronJobWebhook, FiniteSets, Sequences, SequencesExt

CONSTANTS
    Garbled,        \* an annotation time.Parse rejects
    Submitted,      \* the CronJobs users submit
    CreationTimes,  \* creation timestamps the API server may give the CronJob
    MaxStarts,      \* missed starts the code counts before it gives up (100)
    StrictStarts,   \* start times are distinct and ordered like the scheduled times
    UserActions,    \* what the users do: a set of "edit", "delete", "deleteJob", "annotate"
    Resyncs,        \* the informers' resync period falls into the time modelled
    MaxTime,        \* bound: the clock stops here
    MaxEdits,       \* bound: user edits and deletions
    MaxFaults       \* bound: failed API calls and restarts of the manager

ASSUME ControllerAssumption ==
    /\ Garbled \notin Int /\ Garbled # Nil
    /\ Submitted \subseteq CronJobs
    /\ CreationTimes \subseteq Nat
    /\ MaxStarts \in Nat
    /\ StrictStarts \in BOOLEAN /\ Resyncs \in BOOLEAN
    /\ UserActions \subseteq {"edit", "delete", "deleteJob", "annotate"}
    /\ \A s \in DOMAIN FireTimes :      \* a schedule that fires at all never stops
          FireTimes[s] # {} => \E f \in FireTimes[s] : f > MaxTime
    /\ MaxTime \in Nat /\ MaxEdits \in Nat /\ MaxFaults \in Nat

VARIABLES
    now,         \* the clock
    creation,    \* CreationTimestamp of the CronJob
    cron,        \* the CronJob on the server
    cronCache,   \* the CronJob in the informer cache
    cacheFresh,  \* the cached CronJob has the server's resourceVersion
    jobs,        \* the Jobs on the server
    jobCache,    \* the Jobs in the informer cache
    queued,      \* the CronJob's key is in the work queue
    timer,       \* when the queue adds the key by itself, or Nil
    pc,          \* where Reconcile is
    loc,         \* Reconcile's local variables
    outcome,     \* history: how the last Reconcile returned
    runs,        \* history: how often the Job of a time was created (to 2)
    edits,       \* user actions so far
    faults       \* faults so far

clusterVars == <<creation, cron, jobs>>
cacheVars   == <<cronCache, cacheFresh, jobCache>>
queueVars   == <<queued, timer>>
localVars   == <<pc, loc>>
auxVars     == <<outcome, runs, edits, faults>>
vars == <<now, clusterVars, cacheVars, queueVars, localVars, auxVars>>

-----------------------------------------------------------------------------
(* Jobs                                                                    *)

JobTimes == UNION {FireTimes[s] : s \in DOMAIN FireTimes}

\* state    what isJobFinished finds in the Job's conditions; "none": no Job
\* start    Status.StartTime
\* sched    the scheduled-at annotation; Nil when the Job has none
\* owned    the Job has the CronJob as its controller reference
Jobs == [state : {"none", "active", "complete", "failed"},
         start : NatOrNil,
         sched : NatOrNil \cup {Garbled},
         owned : BOOLEAN]

NoJob == [state |-> "none", start |-> Nil, sched |-> Nil, owned |-> FALSE]

Exists(js, t) == js[t].state # "none"

\* The index on jobOwnerKey: what r.List returns.
Listed(js) == {t \in JobTimes : Exists(js, t) /\ js[t].owned}

InState(js, state) == {t \in Listed(js) : js[t].state = state}

\* getScheduledTimeForJob over the list: the times that are there and parse.
ScheduledTimes(js) ==
    {js[t].sched : t \in {u \in Listed(js) : js[u].sched \notin {Nil, Garbled}}}

\* mostRecentTime
MostRecentTime(js) ==
    IF ScheduledTimes(js) = {} THEN Nil ELSE Max(ScheduledTimes(js))

\* Mutant of StartsBefore: the order is the other way round.
StartsBeforeReversed(js, t, u) ==
    IF js[t].start = Nil
    THEN js[u].start # Nil
    ELSE js[u].start # Nil /\ js[t].start > js[u].start

\* The comparison of the two sorts: no start time first, then by start time.
StartsBefore(js, t, u) ==
    IF js[t].start = Nil
    THEN js[u].start # Nil
    ELSE js[u].start # Nil /\ js[t].start < js[u].start

\* The results sort.Slice may give for the set S: ties come in any order.
Sorted(js, S) ==
    {q \in SetToSeqs(S) : \A i, j \in DOMAIN q : i < j => ~ StartsBefore(js, q[j], q[i])}

\* Mutant of OldJobs: one Job too many.
OldJobsOneMore(js, S, limit) ==
    {IF limit = Nil \/ Len(q) < limit THEN <<>> ELSE SubSeq(q, 1, Len(q) - limit + 1) :
       q \in Sorted(js, S)}

\* What a clean-up loop deletes of the finished Jobs in S, in that order.
OldJobs(js, S, limit) ==
    {IF limit = Nil \/ Len(q) <= limit THEN <<>> ELSE SubSeq(q, 1, Len(q) - limit) :
       q \in Sorted(js, S)}

-----------------------------------------------------------------------------
(* getNextSchedule                                                         *)

\* sched.Next: the first fire after t; the zero time if there is none.
NextFire(schedule, t) ==
    LET later == {f \in FireTimes[schedule] : f > t}
    IN  IF later = {} THEN Nil ELSE Min(later)

\* Mutant of EarliestTime: no start at the creation timestamp.
EarliestTimeZero(c, last, created, t) ==
    LET known == IF last # Nil THEN last ELSE 0
    IN  IF c.deadline # Nil /\ t - c.deadline > known THEN t - c.deadline ELSE known

EarliestTime(c, last, created, t) ==
    LET known == IF last # Nil THEN last ELSE created
    IN  IF c.deadline # Nil /\ t - c.deadline > known THEN t - c.deadline ELSE known

MissedFires(c, last, created, t) ==
    {f \in FireTimes[c.schedule] : EarliestTime(c, last, created, t) < f /\ f <= t}

\* Mutant of TooManyMissed: >= for >.
TooManyMissedOffByOne(c, last, created, t) ==
    /\ EarliestTime(c, last, created, t) <= t
    /\ \/ FireTimes[c.schedule] = {}
       \/ Cardinality(MissedFires(c, last, created, t)) >= MaxStarts

\* A schedule that never fires makes sched.Next return the zero time for
\* ever, which the loop counts as a missed start until it gives up.
TooManyMissed(c, last, created, t) ==
    /\ EarliestTime(c, last, created, t) <= t
    /\ \/ FireTimes[c.schedule] = {}
       \/ Cardinality(MissedFires(c, last, created, t)) > MaxStarts

LastMissed(c, last, created, t) ==
    LET missed == MissedFires(c, last, created, t)
    IN  IF missed = {} THEN Nil ELSE Max(missed)

-----------------------------------------------------------------------------
(* Reconcile's local variables; Nil between two calls.                     *)

Locals ==
    [obj     : CronJobs,            \* cronJob.Spec
     fresh   : BOOLEAN,             \* cronJob has the server's resourceVersion
     last    : NatOrNil,            \* cronJob.Status.LastScheduleTime
     active  : SUBSET JobTimes,     \* activeJobs
     old     : Seq(JobTimes),       \* finished Jobs still to be deleted
     missed  : NatOrNil,            \* missedRun
     next    : NatOrNil,            \* nextRun
     requeue : Int \cup {Nil}]      \* scheduledResult.RequeueAfter

JobNameLength(c) == c.nameLen + 11   \* "-" and ten digits of Unix time

-----------------------------------------------------------------------------
(* How Reconcile returns (controller-runtime).  An error puts the key back *)
(* with a back-off, a positive RequeueAfter arms the queue's timer, which  *)
(* keeps the earlier of two instants; any other result does neither.       *)

ArmTimer(t) == timer' = IF timer = Nil \/ t < timer THEN t ELSE timer

Return(how) ==
    /\ pc' = "idle"
    /\ loc' = Nil
    /\ outcome' = how

ReturnError == Return("error") /\ ArmTimer(now)

ReturnScheduled(how, requeue) ==
    /\ Return(how)
    /\ IF requeue # Nil /\ requeue > 0 THEN ArmTimer(now + requeue) ELSE UNCHANGED timer

\* An API call fails for a reason of its own.
Fault == faults < MaxFaults /\ faults' = faults + 1

-----------------------------------------------------------------------------
(* Reconcile                                                               *)

\* Lines 1 and 2 of the code: the CronJob and its Jobs are read from the
\* caches, the status and the Jobs to clean up are computed from the list.
Load ==
    /\ pc = "idle" /\ queued
    /\ queued' = FALSE
    /\ UNCHANGED <<now, clusterVars, cacheVars, runs, edits>>
    /\ \/ /\ cronCache.phase # "live"            \* client.IgnoreNotFound
          /\ Return("gone")
          /\ UNCHANGED <<timer, faults>>
       \/ /\ cronCache.phase = "live"            \* Get or List failed
          /\ Fault
          /\ ReturnError
       \/ /\ cronCache.phase = "live"
          /\ \E oldFailed \in OldJobs(jobCache, InState(jobCache, "failed"), cronCache.obj.failed),
                oldComplete \in OldJobs(jobCache, InState(jobCache, "complete"), cronCache.obj.success) :
                loc' = [obj     |-> cronCache.obj,
                        fresh   |-> cacheFresh,
                        last    |-> MostRecentTime(jobCache),
                        active  |-> InState(jobCache, "active"),
                        old     |-> oldFailed \o oldComplete,
                        missed  |-> Nil, next |-> Nil, requeue |-> Nil]
          /\ pc' = "status"
          /\ UNCHANGED <<timer, outcome, faults>>

StatusIs(c, last, active) == c.last = last /\ c.active = active

\* r.Status().Update: refused when the copy is stale or the CronJob is gone.
UpdateStatus ==
    /\ pc = "status"
    /\ UNCHANGED <<now, creation, cronCache, jobs, jobCache, queued, runs, edits>>
    /\ \/ /\ loc.fresh /\ cron.phase = "live"
          /\ cron' = [cron EXCEPT !.last = loc.last, !.active = loc.active]
          /\ cacheFresh' = (cacheFresh /\ StatusIs(cron, loc.last, loc.active))
          /\ pc' = "cleanup"
          /\ UNCHANGED <<loc, timer, outcome, faults>>
       \/ /\ ~ (loc.fresh /\ cron.phase = "live")
          /\ ReturnError
          /\ UNCHANGED <<cron, cacheFresh, faults>>
       \/ /\ Fault
          /\ ReturnError
          /\ UNCHANGED <<cron, cacheFresh>>

\* r.Delete in the two clean-up loops, failed Jobs before successful ones.
\* A failed call is logged and the loop goes on.
CleanUp ==
    /\ pc = "cleanup"
    /\ loc.old # <<>>
    /\ loc' = [loc EXCEPT !.old = Tail(@)]
    /\ \/ jobs' = [jobs EXCEPT ![Head(loc.old)] = NoJob] /\ UNCHANGED faults
       \/ Fault /\ UNCHANGED jobs
    /\ UNCHANGED <<now, creation, cron, cacheVars, queueVars, pc, outcome, runs, edits>>

\* The suspend check, and getNextSchedule with its own reading of the clock.
GetNextSchedule ==
    /\ pc = "cleanup"
    /\ loc.old = <<>>
    /\ UNCHANGED <<now, clusterVars, cacheVars, queueVars, runs, edits, faults>>
    /\ \/ /\ loc.obj.suspend = TRUE
          /\ Return("suspended")
       \/ /\ loc.obj.suspend # TRUE
          /\ ~ ParseStandard(loc.obj.schedule)
          /\ Return("unparseable")
       \/ /\ loc.obj.suspend # TRUE
          /\ ParseStandard(loc.obj.schedule)
          /\ TooManyMissed(loc.obj, loc.last, creation, now)
          /\ Return("too many missed")
       \/ /\ loc.obj.suspend # TRUE
          /\ ParseStandard(loc.obj.schedule)
          /\ ~ TooManyMissed(loc.obj, loc.last, creation, now)
          /\ loc' = [loc EXCEPT !.missed = LastMissed(loc.obj, loc.last, creation, now),
                                !.next = NextFire(loc.obj.schedule, now)]
          /\ pc' = "requeue"
          /\ UNCHANGED outcome

\* nextRun.Sub(r.Now()), with a later reading of the clock.  The zero time
\* gives a negative duration.
RequeueAfter == IF loc.next = Nil THEN -1 ELSE loc.next - now

\* Mutant of ComputeRequeue: no check that there is a missed run.
ComputeRequeueUnchecked ==
    /\ pc = "requeue"
    /\ loc' = [loc EXCEPT !.requeue = RequeueAfter]
    /\ pc' = "late"
    /\ UNCHANGED <<now, clusterVars, cacheVars, queueVars, auxVars>>

ComputeRequeue ==
    /\ pc = "requeue"
    /\ UNCHANGED <<now, clusterVars, cacheVars, queued, runs, edits, faults>>
    /\ \/ /\ loc.missed = Nil
          /\ ReturnScheduled("sleeping", RequeueAfter)
       \/ /\ loc.missed # Nil
          /\ loc' = [loc EXCEPT !.requeue = RequeueAfter]
          /\ pc' = "late"
          /\ UNCHANGED <<timer, outcome>>

TooLate == loc.obj.deadline # Nil /\ loc.missed + loc.obj.deadline < now

CheckDeadline ==
    /\ pc = "late"
    /\ UNCHANGED <<now, clusterVars, cacheVars, queued, runs, edits, faults>>
    /\ \/ /\ TooLate
          /\ ReturnScheduled("late", loc.requeue)
       \/ /\ ~ TooLate
          /\ pc' = "create"
          /\ UNCHANGED <<loc, timer, outcome>>

\* The policy is only looked at here: under Replace every Job listed as
\* active is deleted first.  A Job that is gone already is no error.
Replacing == loc.obj.policy = "Replace" /\ loc.active # {}

\* Mutant of DeleteActive: a failed deletion is logged and skipped.
DeleteActiveBestEffort(t) ==
    /\ pc = "create"
    /\ Replacing
    /\ t \in loc.active
    /\ loc' = [loc EXCEPT !.active = @ \ {t}]
    /\ \/ jobs' = [jobs EXCEPT ![t] = NoJob] /\ UNCHANGED faults
       \/ Fault /\ UNCHANGED jobs
    /\ UNCHANGED <<now, creation, cron, cacheVars, queueVars, pc, outcome, runs, edits>>

DeleteActive(t) ==
    /\ pc = "create"
    /\ Replacing
    /\ t \in loc.active
    /\ \/ /\ jobs' = [jobs EXCEPT ![t] = NoJob]
          /\ loc' = [loc EXCEPT !.active = @ \ {t}]
          /\ UNCHANGED <<pc, timer, outcome, faults>>
       \/ /\ Fault
          /\ ReturnError
          /\ UNCHANGED jobs
    /\ UNCHANGED <<now, creation, cron, cacheVars, queued, runs, edits>>

\* Mutants of ConstructJob: the annotation is the current time; no
\* controller reference is set.
ConstructJobStampedNow(t) == [state |-> "active", start |-> Nil, sched |-> now, owned |-> TRUE]
ConstructJobOrphan(t) == [state |-> "active", start |-> Nil, sched |-> t, owned |-> FALSE]

\* constructJobForCronJob.  SetControllerReference cannot fail: the types are
\* registered and the Job is in the CronJob's namespace.
ConstructJob(t) == [state |-> "active", start |-> Nil, sched |-> t, owned |-> TRUE]

\* The API server refuses a name that is taken or, as a label value, too long.
Creatable(t) == ~ Exists(jobs, t) /\ JobNameLength(loc.obj) <= DNS1035LabelMaxLength

CreateJob ==
    /\ pc = "create"
    /\ ~ Replacing
    /\ \/ /\ Creatable(loc.missed)
          /\ jobs' = [jobs EXCEPT ![loc.missed] = ConstructJob(loc.missed)]
          /\ runs' = [runs EXCEPT ![loc.missed] = IF @ < 2 THEN @ + 1 ELSE @]
          /\ ReturnScheduled("created", loc.requeue)
          /\ UNCHANGED faults
       \/ /\ ~ Creatable(loc.missed)
          /\ ReturnError
          /\ UNCHANGED <<jobs, runs, faults>>
       \/ /\ Fault
          /\ ReturnError
          /\ UNCHANGED <<jobs, runs>>
    /\ UNCHANGED <<now, creation, cron, cacheVars, queued, edits>>

ReconcileStep ==
    \/ Load \/ UpdateStatus \/ CleanUp \/ GetNextSchedule
    \/ ComputeRequeue \/ CheckDeadline
    \/ \E t \in JobTimes : DeleteActive(t)
    \/ CreateJob

-----------------------------------------------------------------------------
(* The manager: watches, work queue, restarts (SetupWithManager and        *)
(* controller-runtime)                                                     *)

\* For(&CronJob{}): a change of the CronJob reaches the cache.
SyncCron ==
    /\ ~ cacheFresh
    /\ cronCache' = cron
    /\ cacheFresh' = TRUE
    /\ queued' = TRUE
    /\ UNCHANGED <<now, clusterVars, jobCache, timer, localVars, auxVars>>

\* Mutant of SyncJob: Owns(&Job{}) is forgotten, Jobs wake nobody.
SyncJobSilently(t) ==
    /\ jobCache[t] # jobs[t]
    /\ jobCache' = [jobCache EXCEPT ![t] = jobs[t]]
    /\ UNCHANGED <<now, clusterVars, cronCache, cacheFresh, queueVars, localVars, auxVars>>

\* Owns(&Job{}): a change of a Job reaches the cache and wakes its owner.
SyncJob(t) ==
    /\ jobCache[t] # jobs[t]
    /\ jobCache' = [jobCache EXCEPT ![t] = jobs[t]]
    /\ queued' = (queued \/ jobs[t].owned \/ jobCache[t].owned)
    /\ UNCHANGED <<now, clusterVars, cronCache, cacheFresh, timer, localVars, auxVars>>

FireTimer ==
    /\ timer # Nil /\ timer <= now
    /\ timer' = Nil
    /\ queued' = TRUE
    /\ UNCHANGED <<now, clusterVars, cacheVars, localVars, auxVars>>

\* The informers' periodic resync adds every cached CronJob again.
Resync ==
    /\ Resyncs
    /\ cronCache.phase = "live" /\ ~ queued
    /\ queued' = TRUE
    /\ UNCHANGED <<now, clusterVars, cacheVars, timer, localVars, auxVars>>

\* The manager stops and starts again: whatever Reconcile was doing is lost,
\* the caches are filled from the server and every object is queued.
Restart ==
    /\ Fault
    /\ pc' = "idle" /\ loc' = Nil /\ timer' = Nil
    /\ cronCache' = cron /\ cacheFresh' = TRUE /\ jobCache' = jobs
    /\ queued' = (cron.phase = "live" \/ Listed(jobs) # {})
    /\ UNCHANGED <<now, clusterVars, outcome, runs, edits>>

-----------------------------------------------------------------------------
(* The rest of the cluster                                                 *)

Tick ==
    /\ now < MaxTime
    /\ now' = now + 1
    /\ UNCHANGED <<clusterVars, cacheVars, queueVars, localVars, auxVars>>

\* The Job controller.  Start times are only ever compared: when they are
\* strict, a Job's scheduled time stands for its start time.
StartJob(t) ==
    /\ jobs[t].state = "active" /\ jobs[t].start = Nil
    /\ StrictStarts => \A u \in JobTimes : u < t /\ Exists(jobs, u) => jobs[u].start # Nil
    /\ jobs' = [jobs EXCEPT ![t].start = IF StrictStarts THEN t ELSE now]
    /\ UNCHANGED <<now, creation, cron, cacheVars, queueVars, localVars, auxVars>>

FinishJob(t, state) ==
    /\ jobs[t].state = "active" /\ jobs[t].start # Nil
    /\ jobs' = [jobs EXCEPT ![t].state = state]
    /\ UNCHANGED <<now, creation, cron, cacheVars, queueVars, localVars, auxVars>>

\* The garbage collector deletes the Jobs of a deleted CronJob.
CollectJob(t) ==
    /\ cron.phase = "deleted"
    /\ Exists(jobs, t) /\ jobs[t].owned
    /\ jobs' = [jobs EXCEPT ![t] = NoJob]
    /\ UNCHANGED <<now, creation, cron, cacheVars, queueVars, localVars, auxVars>>

-----------------------------------------------------------------------------
(* Users                                                                   *)

Edit(action) ==
    /\ action \in UserActions
    /\ edits < MaxEdits
    /\ edits' = edits + 1
    /\ UNCHANGED <<now, creation, cronCache, jobCache, queueVars, pc, outcome, runs, faults>>

\* A write gives the CronJob a new resourceVersion: the copies are stale.
NewVersion ==
    /\ cacheFresh' = FALSE
    /\ loc' = IF pc = "idle" THEN loc ELSE [loc EXCEPT !.fresh = FALSE]

EditCronJob(c) ==
    /\ Edit("edit")
    /\ cron.phase = "live"
    /\ c # cron.obj /\ c.nameLen = cron.obj.nameLen
    /\ cron' = [cron EXCEPT !.obj = c]
    /\ NewVersion
    /\ UNCHANGED jobs

DeleteCronJob ==
    /\ Edit("delete")
    /\ cron.phase = "live"
    /\ cron' = [cron EXCEPT !.phase = "deleted"]
    /\ NewVersion
    /\ UNCHANGED jobs

DeleteJob(t) ==
    /\ Edit("deleteJob")
    /\ Exists(jobs, t)
    /\ jobs' = [jobs EXCEPT ![t] = NoJob]
    /\ UNCHANGED <<cron, cacheFresh, loc>>

AnnotateJob(t, a) ==
    /\ Edit("annotate")
    /\ Exists(jobs, t) /\ jobs[t].sched # a
    /\ jobs' = [jobs EXCEPT ![t].sched = a]
    /\ UNCHANGED <<cron, cacheFresh, loc>>

-----------------------------------------------------------------------------
(* The specification                                                       *)

\* The CronJob has been created; the manager has not seen it yet.
Init ==
    /\ now = 0
    /\ creation \in CreationTimes
    /\ cron \in [phase : {"live"}, obj : Admitted(Submitted), last : {Nil}, active : {{}}]
    /\ cronCache = [cron EXCEPT !.phase = "none"]
    /\ cacheFresh = FALSE
    /\ jobs = [t \in JobTimes |-> NoJob]
    /\ jobCache = [t \in JobTimes |-> NoJob]
    /\ queued = FALSE
    /\ timer = Nil
    /\ pc = "idle"
    /\ loc = Nil
    /\ outcome = "none"
    /\ runs = [t \in JobTimes |-> 0]
    /\ edits = 0
    /\ faults = 0

ManagerStep ==
    \/ SyncCron
    \/ \E t \in JobTimes : SyncJob(t)
    \/ FireTimer \/ Resync \/ Restart

ClusterStep ==
    \/ Tick
    \/ \E t \in JobTimes :
          \/ StartJob(t)
          \/ \E state \in {"complete", "failed"} : FinishJob(t, state)
          \/ CollectJob(t)

UserStep ==
    \/ \E c \in Admitted(Submitted) : EditCronJob(c)
    \/ DeleteCronJob
    \/ \E t \in JobTimes :
          \/ DeleteJob(t)
          \/ \E a \in {Nil, Garbled} : AnnotateJob(t, a)

Next == ReconcileStep \/ ManagerStep \/ ClusterStep \/ UserStep

Spec == Init /\ [][Next]_vars

\* controller-runtime's worker runs Reconcile while the queue is not empty,
\* the watches deliver, timers fire, informers resync; time passes, and the
\* Job controller and the garbage collector do their work.  Users, faults
\* and the end of a Job are up to no one.
Fairness ==
    /\ WF_vars(ReconcileStep)
    /\ WF_vars(SyncCron) /\ WF_vars(FireTimer) /\ WF_vars(Resync)
    /\ WF_vars(Tick)
    /\ \A t \in JobTimes :
          WF_vars(SyncJob(t)) /\ WF_vars(StartJob(t)) /\ WF_vars(CollectJob(t))

FairSpec == Spec /\ Fairness

-----------------------------------------------------------------------------
(* Properties                                                              *)

Outcomes == {"none", "gone", "error", "suspended", "unparseable", "too many missed",
             "sleeping", "late", "created"}

CronStates == [phase : {"none", "live", "deleted"}, obj : CronJobs,
               last : NatOrNil, active : SUBSET JobTimes]

\* The type invariant: every variable stays in its set, and Reconcile has
\* local variables exactly while it runs (a run is in hand, missedRun is
\* set, from the deadline check on).
TypeOK ==
    /\ now \in Nat
    /\ creation \in Nat
    /\ cron \in CronStates /\ cronCache \in CronStates
    /\ cacheFresh \in BOOLEAN
    /\ jobs \in [JobTimes -> Jobs] /\ jobCache \in [JobTimes -> Jobs]
    /\ queued \in BOOLEAN
    /\ timer \in NatOrNil
    /\ pc \in {"idle", "status", "cleanup", "requeue", "late", "create"}
    /\ IF pc = "idle" THEN loc = Nil ELSE loc \in Locals
    /\ pc \in {"late", "create"} => loc.missed \in JobTimes
    /\ outcome \in Outcomes
    /\ runs \in [JobTimes -> 0..2]
    /\ edits \in Nat /\ faults \in Nat

\* Reconcile only ever starts Jobs for times of a schedule that came after
\* the CronJob's creation and are due: whatever it reads from lagging caches,
\* no Job is early and none makes up for a time before the CronJob existed.
JobsOnSchedule ==
    \A t \in JobTimes : Exists(jobs, t) => creation < t /\ t <= now

\* The status subresource never claims what did not happen: the last schedule
\* time is one whose Job was created, and so is every active Job listed.
StatusTruthful ==
    /\ cron.last # Nil => cron.last \in JobTimes /\ runs[cron.last] > 0
    /\ \A t \in cron.active : runs[t] > 0

\* A scheduled time is run at most once, though the list of Jobs Reconcile
\* decides from may be stale, a call may fail and the manager may restart
\* between any two of them.
NoDoubleRun == \A t \in JobTimes : runs[t] <= 1

\* With the webhook on, no CronJob gets as far as the reconciler that it
\* cannot run: the schedule parses and the Jobs' names are not too long.
AdmittedCanRun ==
    WebhooksEnabled => /\ outcome # "unparseable"
                       /\ JobNameLength(cron.obj) <= DNS1035LabelMaxLength

Finished(js, t) == js[t].state \in {"complete", "failed"}

\* A clean-up deletion, decided from a list that may be stale by then, only
\* removes a finished Job, and as many Jobs with the same result and a later
\* scheduled time remain as the history limit says.
CleanUpKeepsHistory ==
    [][\A t \in JobTimes :
          (pc = "cleanup" /\ pc' = "cleanup" /\ Exists(jobs, t) /\ ~ Exists(jobs', t)) =>
             /\ Finished(jobs, t)
             /\ LET limit == IF jobs[t].state = "failed" THEN loc.obj.failed ELSE loc.obj.success
                IN  Cardinality({u \in InState(jobs, jobs[t].state) : u > t}) >= limit]_vars

\* Under Replace, when a Job is created all those the same call of Reconcile
\* published as active are gone: a failed deletion stops the call.
ReplaceExclusive ==
    [][\A t \in JobTimes :
          (pc = "create" /\ loc.obj.policy = "Replace" /\ ~ Exists(jobs, t) /\ Exists(jobs', t)) =>
             \A u \in cron.active \ {t} : ~ Exists(jobs', u)]_vars

Due(t) ==
    /\ ParseStandard(cron.obj.schedule)
    /\ t \in FireTimes[cron.obj.schedule] /\ creation < t /\ t <= now

\* The CronJob is there, not suspended, and its schedule parses and fires.
\* A deadline for starting may give up a due time and is left out.
Runnable ==
    /\ cron.phase = "live" /\ cron.obj.suspend # TRUE /\ cron.obj.deadline = Nil
    /\ ParseStandard(cron.obj.schedule) /\ FireTimes[cron.obj.schedule] # {}

Started(t) == \E u \in JobTimes : u >= t /\ runs[u] > 0

\* More times have come since the last one the Jobs tell of, or since the
\* CronJob's creation, than the code is ready to count.
OverTheLimit ==
    LET last  == MostRecentTime(jobs)
        since == IF last = Nil THEN creation ELSE last
    IN  Cardinality({f \in FireTimes[cron.obj.schedule] : since < f /\ f <= now}) > MaxStarts

\* If from some time on the CronJob can be run, every due time is run or a
\* later one is, with one exception: more than MaxStarts times have been
\* missed, and stay missed, because the code then stops without a requeue.
\* Up to the limit no fault, restart, suspension, edit to a schedule that is
\* wrong or never fires, or lost wake-up loses a time for good.
DueRunStarts ==
    <>[]Runnable =>
       \A t \in JobTimes : Due(t) ~> (Started(t) \/ [](Runnable => OverTheLimit))

\* The status ends up equal to what the server's Jobs say: the last write
\* is never one computed from a stale list.
StatusConverges ==
    <>[](cron.phase = "live" => StatusIs(cron, MostRecentTime(jobs), InState(jobs, "active")))

\* Deleting the CronJob ends its Jobs for good, although a Reconcile under way
\* may still create one.
DeletedCronLeavesNoJobs ==
    cron.phase = "deleted" ~> [](\A t \in JobTimes : ~ Exists(jobs, t))
=============================================================================
