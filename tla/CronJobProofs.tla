---------------------------- MODULE CronJobProofs ----------------------------
(***************************************************************************)
(* Proofs about the CronJob controller, for any schedules, CronJobs, users *)
(* and number of faults.                                                   *)
(***************************************************************************)
EXTENDS CronJobController, FiniteSetTheorems, WellFoundedInduction, TLAPS

-----------------------------------------------------------------------------
(* Sets of instants                                                        *)

\* A nonempty set of instants has a first one: what sched.Next looks for.
LEMMA LeastInstant ==
    ASSUME NEW S \in SUBSET Nat, S # {}
    PROVE  \E x \in S : \A y \in S : x <= y
<1>1. PICK x \in S : \A y \in S : ~ (<<y, x>> \in OpToRel(<, Nat))
  BY NatLessThanWellFounded, WFMin, Zenon
<1>2. \A y \in S : ~ (y < x)
  <2>1. SUFFICES ASSUME NEW y \in S, y < x PROVE FALSE
    OBVIOUS
  <2>2. <<y, x>> \in Nat \X Nat
    OBVIOUS
  <2> QED
    BY <1>1, <2>1, <2>2, Zenon DEF OpToRel
<1> QED
  BY <1>2

\* It is the one Min chooses.
LEMMA MinOfInstants ==
    ASSUME NEW S \in SUBSET Nat, S # {}
    PROVE  Min(S) \in S
BY LeastInstant DEF Min

\* A nonempty set of instants up to b has a last one: mostRecentTime and
\* lastMissed are such a last one.
LEMMA MaxOfInstants ==
    ASSUME NEW S \in SUBSET Nat, S # {}, NEW b \in Nat, \A x \in S : x <= b
    PROVE  Max(S) \in S /\ \A x \in S : x <= Max(S)
<1> DEFINE T == {b - x : x \in S}
<1>1. T \in SUBSET Nat
  <2>1. \A x \in S : b - x \in Nat
    OBVIOUS
  <2> QED
    BY <2>1
<1>2. T # {}
  OBVIOUS
<1> HIDE DEF T
<1>3. PICK m \in T : \A y \in T : m <= y
  BY <1>1, <1>2, LeastInstant
<1>4. PICK x \in S : m = b - x
  BY DEF T
<1>5. \A y \in S : x >= y
  <2>1. SUFFICES ASSUME NEW y \in S PROVE x >= y
    OBVIOUS
  <2>2. b - y \in T
    BY DEF T
  <2> QED
    BY <1>3, <1>4, <2>2
<1>6. Max(S) \in S /\ \A y \in S : Max(S) >= y
  BY <1>5 DEF Max
<1> QED
  BY <1>6

\* Every instant of a schedule is an instant.
LEMMA FireTimesAreInstants ==
    /\ JobTimes \subseteq Nat
    /\ \A s \in DOMAIN FireTimes : FireTimes[s] \subseteq JobTimes
BY WebhookAssumption DEF JobTimes

\* nil and the zero time are no instants.
LEMMA NilIsNoInstant == Nil \notin Int
BY WebhookAssumption, Zenon

-----------------------------------------------------------------------------
(* Admission                                                               *)

\* Defaulting yields a CronJob.
LEMMA ApplyDefaultsType ==
    ASSUME NEW c \in CronJobs
    PROVE  ApplyDefaults(c) \in CronJobs
BY DEF CronJobs, ApplyDefaults, OrDefault, NatOrNil, Policies, DefaultConcurrencyPolicy,
       DefaultSuspend, DefaultSuccessfulJobsHistoryLimit, DefaultFailedJobsHistoryLimit

\* What the API server stores is a CronJob, webhook or not.
LEMMA AdmittedType == Admitted(Submitted) \subseteq CronJobs
BY ApplyDefaultsType, ControllerAssumption DEF Admitted

\* With the webhook on, what the API server stores can be run.
LEMMA AdmittedIsValid ==
    ASSUME WebhooksEnabled, NEW c \in Admitted(Submitted)
    PROVE  ParseStandard(c.schedule) /\ JobNameLength(c) <= DNS1035LabelMaxLength
<1>1. PICK d \in Submitted : ValidateCronJob(ApplyDefaults(d)) /\ c = ApplyDefaults(d)
  BY DEF Admitted
<1>2. c \in CronJobs
  BY AdmittedType
<1> QED
  BY <1>1, <1>2 DEF ValidateCronJob, ValidateCronJobName, ValidateCronJobSpec, JobNameLength,
                    DNS1035LabelMaxLength, CronJobs

-----------------------------------------------------------------------------
(* The inductive invariant                                                 *)

\* A time whose Job was started, after the creation and not early.
Ran(t) == t \in JobTimes /\ creation < t /\ t <= now /\ runs[t] > 0

\* The Jobs on the server and in the cache are started ones, and what their
\* annotations say, if anything, is their scheduled time.
JobsOK(js) ==
    \A t \in JobTimes : Exists(js, t) => Ran(t) /\ js[t].sched \in {t, Nil, Garbled}

\* What Reconcile holds was true of some list, and its missedRun is due.
LocOK ==
    pc # "idle" =>
       /\ loc.last # Nil => Ran(loc.last)
       /\ \A t \in loc.active : runs[t] > 0
       /\ loc.missed # Nil => loc.missed \in JobTimes /\ creation < loc.missed /\ loc.missed <= now

\* JobsOnSchedule and StatusTruthful are not inductive: a Reconcile in
\* mid-flight acts on copies, so the copies must be as good as the originals.
Inv ==
    /\ TypeOK
    /\ JobsOK(jobs)
    /\ JobsOK(jobCache)
    /\ LocOK
    /\ StatusTruthful

-----------------------------------------------------------------------------
(* What Load computes                                                      *)

\* The Jobs of a good list are finitely many.
LEMMA ListIsFinite ==
    ASSUME TypeOK, NEW js \in [JobTimes -> Jobs], JobsOK(js), NEW state
    PROVE  IsFiniteSet(InState(js, state))
<1>1. InState(js, state) \in SUBSET Nat
  BY FireTimesAreInstants DEF InState, Listed
<1>2. \A t \in InState(js, state) : t <= now
  BY DEF InState, Listed, JobsOK, Ran
<1>3. now \in Nat
  BY DEF TypeOK
<1> QED
  BY <1>1, <1>2, <1>3, FS_BoundedSetOfNaturals

\* mostRecentTime is nil or a time that was run.
LEMMA MostRecentTimeRan ==
    ASSUME TypeOK, NEW js \in [JobTimes -> Jobs], JobsOK(js)
    PROVE  MostRecentTime(js) = Nil \/ Ran(MostRecentTime(js))
<1>1. \A x \in ScheduledTimes(js) : Ran(x)
  BY DEF ScheduledTimes, Listed, JobsOK
<1>2. ScheduledTimes(js) \in SUBSET Nat
  BY <1>1, FireTimesAreInstants DEF Ran
<1>3. \A x \in ScheduledTimes(js) : x <= now
  BY <1>1 DEF Ran
<1>4. CASE ScheduledTimes(js) = {}
  BY <1>4 DEF MostRecentTime
<1>5. CASE ScheduledTimes(js) # {}
  <2>1. now \in Nat
    BY DEF TypeOK
  <2>2. Max(ScheduledTimes(js)) \in ScheduledTimes(js)
    BY <1>2, <1>3, <1>5, <2>1, MaxOfInstants
  <2> QED
    BY <1>1, <1>5, <2>2 DEF MostRecentTime
<1> QED
  BY <1>4, <1>5

\* The Jobs to clean up are a sequence of Jobs.
LEMMA OldJobsType ==
    ASSUME NEW js, NEW S \in SUBSET JobTimes, IsFiniteSet(S), NEW limit \in NatOrNil,
           NEW q \in OldJobs(js, S, limit)
    PROVE  q \in Seq(JobTimes)
<1>1. Cardinality(S) \in Nat
  BY FS_CardinalityType
<1>2. PICK r \in Sorted(js, S) :
         q = IF limit = Nil \/ Len(r) <= limit THEN <<>> ELSE SubSeq(r, 1, Len(r) - limit)
  BY DEF OldJobs
<1>3. r \in [1..Cardinality(S) -> S]
  BY DEF Sorted, SetToSeqs
<1>4. r \in Seq(JobTimes)
  BY <1>1, <1>3
<1>5. CASE limit = Nil \/ Len(r) <= limit
  BY <1>2, <1>5
<1>6. CASE ~ (limit = Nil \/ Len(r) <= limit)
  <2>1. limit \in Nat /\ Len(r) > limit /\ Len(r) \in Nat
    BY <1>4, <1>6 DEF NatOrNil
  <2> QED
    BY <1>2, <1>4, <1>6, <2>1
<1> QED
  BY <1>5, <1>6

-----------------------------------------------------------------------------
(* What getNextSchedule computes                                           *)

\* next is an instant, if there is one.
LEMMA NextFireType ==
    ASSUME NEW schedule \in DOMAIN FireTimes, NEW t \in Nat
    PROVE  NextFire(schedule, t) \in NatOrNil
<1> DEFINE later == {f \in FireTimes[schedule] : f > t}
<1>1. later \in SUBSET Nat
  BY FireTimesAreInstants
<1>2. later # {} => Min(later) \in later
  BY <1>1, MinOfInstants
<1> QED
  BY <1>1, <1>2 DEF NextFire, NatOrNil

\* The search for missed starts never begins before the creation.
LEMMA EarliestAfterCreation ==
    ASSUME NEW c \in CronJobs, NEW last \in NatOrNil, NEW created \in Nat, NEW t \in Nat,
           last # Nil => created < last
    PROVE  /\ EarliestTime(c, last, created, t) \in Int
           /\ created <= EarliestTime(c, last, created, t)
BY DEF EarliestTime, CronJobs, NatOrNil

\* lastMissed is zero or a due time of the schedule after the creation.
LEMMA LastMissedDue ==
    ASSUME NEW c \in CronJobs, ParseStandard(c.schedule),
           NEW last \in NatOrNil, NEW created \in Nat, NEW t \in Nat,
           last # Nil => created < last
    PROVE  \/ LastMissed(c, last, created, t) = Nil
           \/ /\ LastMissed(c, last, created, t) \in JobTimes
              /\ created < LastMissed(c, last, created, t)
              /\ LastMissed(c, last, created, t) <= t
<1> DEFINE missed == MissedFires(c, last, created, t)
<1>1. missed \subseteq JobTimes /\ missed \in SUBSET Nat
  BY FireTimesAreInstants DEF MissedFires, ParseStandard
<1>2. \A f \in missed : EarliestTime(c, last, created, t) < f /\ f <= t
  BY DEF MissedFires
<1>3. \A f \in missed : created < f
  BY <1>1, <1>2, EarliestAfterCreation
<1>4. CASE missed = {}
  BY <1>4 DEF LastMissed
<1>5. CASE missed # {}
  <2>1. Max(missed) \in missed
    BY <1>1, <1>2, <1>5, MaxOfInstants
  <2> QED
    BY <1>1, <1>2, <1>3, <1>5, <2>1 DEF LastMissed
<1> QED
  BY <1>4, <1>5

-----------------------------------------------------------------------------
(* The steps of Reconcile                                                  *)

\* The manager starts with no Jobs and an empty cache.
LEMMA InitInv == Init => Inv
<1> SUFFICES ASSUME Init PROVE Inv
  OBVIOUS
<1>1. cron.obj \in CronJobs
  BY AdmittedType DEF Init
<1>2. now \in Nat /\ creation \in Nat
  BY ControllerAssumption DEF Init
<1>3. cron \in CronStates /\ cronCache \in CronStates
  BY <1>1 DEF Init, CronStates, NatOrNil
<1>4. jobs \in [JobTimes -> Jobs] /\ jobCache \in [JobTimes -> Jobs]
  BY DEF Init, Jobs, NoJob, NatOrNil
<1>5. runs \in [JobTimes -> 0..2] /\ outcome \in Outcomes /\ timer \in NatOrNil
  BY DEF Init, Outcomes, NatOrNil
<1>6. cacheFresh \in BOOLEAN /\ queued \in BOOLEAN /\ edits \in Nat /\ faults \in Nat
  BY DEF Init
<1>7. pc = "idle" /\ loc = Nil
  BY DEF Init
<1>8. TypeOK
  BY <1>2, <1>3, <1>4, <1>5, <1>6, <1>7 DEF TypeOK
<1> QED
  BY <1>8 DEF Init, Inv, JobsOK, Exists, NoJob, LocOK, StatusTruthful

\* The queue's timer, however Reconcile returns.
LEMMA ArmTimerType ==
    ASSUME timer \in NatOrNil, NEW t \in Nat, ArmTimer(t)
    PROVE  timer' \in NatOrNil
BY DEF ArmTimer, NatOrNil

\* A result with RequeueAfter leaves the timer at an instant or unset.
LEMMA ReturnScheduledType ==
    ASSUME TypeOK, NEW how, NEW requeue \in Int \cup {Nil}, ReturnScheduled(how, requeue)
    PROVE  timer' \in NatOrNil
<1>1. timer \in NatOrNil /\ now \in Nat
  BY DEF TypeOK
<1>2. CASE requeue # Nil /\ requeue > 0
  <2>1. ArmTimer(now + requeue) /\ now + requeue \in Nat
    BY <1>1, <1>2 DEF ReturnScheduled
  <2> QED
    BY <1>1, <2>1, ArmTimerType
<1>3. CASE ~ (requeue # Nil /\ requeue > 0)
  BY <1>1, <1>3 DEF ReturnScheduled
<1> QED
  BY <1>2, <1>3

\* A call that returns without a write leaves everything as it was.
LEMMA ReturnInv ==
    ASSUME Inv, pc' = "idle", loc' = Nil, outcome' \in Outcomes, timer' \in NatOrNil,
           queued' \in BOOLEAN, faults' \in Nat,
           UNCHANGED <<now, clusterVars, cacheVars, runs, edits>>
    PROVE  Inv'
<1>1. TypeOK'
  BY DEF Inv, TypeOK, clusterVars, cacheVars
<1> QED
  BY <1>1 DEF Inv, JobsOK, Ran, LocOK, StatusTruthful, Exists, clusterVars, cacheVars

\* The same for a call that returns an error and is retried.
LEMMA ReturnErrorInv ==
    ASSUME Inv, ReturnError, queued' \in BOOLEAN, UNCHANGED faults \/ Fault,
           UNCHANGED <<now, clusterVars, cacheVars, runs, edits>>
    PROVE  Inv'
<1>1. timer' \in NatOrNil
  BY ArmTimerType DEF Inv, TypeOK, ReturnError
<1>2. pc' = "idle" /\ loc' = Nil /\ outcome' \in Outcomes
  BY DEF ReturnError, Return, Outcomes
<1>3. faults' \in Nat
  BY DEF Inv, TypeOK, Fault
<1> QED
  BY <1>1, <1>2, <1>3, ReturnInv

\* Deleting a Job, whoever does it, takes nothing from what the rest say.
LEMMA DeletedJobOK ==
    ASSUME Inv, NEW t \in JobTimes, jobs' = [jobs EXCEPT ![t] = NoJob],
           UNCHANGED <<now, creation, runs>>
    PROVE  jobs' \in [JobTimes -> Jobs] /\ JobsOK(jobs)'
<1>1. NoJob \in Jobs
  BY DEF NoJob, Jobs, NatOrNil
<1>2. jobs \in [JobTimes -> Jobs]
  BY DEF Inv, TypeOK
<1>3. ~ Exists(jobs', t)
  BY <1>2 DEF Exists, NoJob
<1>4. \A u \in JobTimes : u # t => jobs'[u] = jobs[u]
  BY <1>2
<1> QED
  BY <1>1, <1>2, <1>3, <1>4 DEF Inv, JobsOK, Exists, Ran

\* Reading the caches: everything Reconcile computes from the list was run.
LEMMA LoadInv ==
    ASSUME Inv, Load
    PROVE  Inv'
<1>1. CASE cronCache.phase # "live" /\ Return("gone") /\ UNCHANGED <<timer, faults>>
  <2>1. timer' \in NatOrNil /\ faults' \in Nat
    BY <1>1 DEF Inv, TypeOK
  <2> QED
    BY <1>1, <2>1, ReturnInv DEF Load, Return, Outcomes
<1>2. CASE Fault /\ ReturnError
  BY <1>2, ReturnErrorInv DEF Load
<1>3. CASE pc' # "idle"
  <2>1. /\ cronCache.phase = "live" /\ pc' = "status" /\ queued' = FALSE
        /\ UNCHANGED <<now, clusterVars, cacheVars, runs, edits, timer, outcome, faults>>
    BY <1>3 DEF Load, Return, ReturnError
  <2>2. PICK oldFailed \in OldJobs(jobCache, InState(jobCache, "failed"), cronCache.obj.failed),
             oldComplete \in OldJobs(jobCache, InState(jobCache, "complete"), cronCache.obj.success) :
                loc' = [obj     |-> cronCache.obj,
                        fresh   |-> cacheFresh,
                        last    |-> MostRecentTime(jobCache),
                        active  |-> InState(jobCache, "active"),
                        old     |-> oldFailed \o oldComplete,
                        missed  |-> Nil, next |-> Nil, requeue |-> Nil]
    BY <1>3 DEF Load, Return, ReturnError
  <2>3. jobCache \in [JobTimes -> Jobs] /\ cronCache.obj \in CronJobs
    BY DEF Inv, TypeOK, CronStates
  <2>4. cronCache.obj.failed \in NatOrNil /\ cronCache.obj.success \in NatOrNil
    BY <2>3 DEF CronJobs
  <2>5. \A state : InState(jobCache, state) \in SUBSET JobTimes
    BY DEF InState, Listed
  <2>6. oldFailed \in Seq(JobTimes) /\ oldComplete \in Seq(JobTimes)
    BY <2>3, <2>4, <2>5, ListIsFinite, OldJobsType DEF Inv
  <2>7. MostRecentTime(jobCache) = Nil \/ Ran(MostRecentTime(jobCache))
    BY <2>3, MostRecentTimeRan DEF Inv
  <2>8. MostRecentTime(jobCache) \in NatOrNil
    BY <2>7, FireTimesAreInstants DEF Ran, NatOrNil
  <2>9. loc' \in Locals
    BY <2>2, <2>3, <2>5, <2>6, <2>8 DEF Inv, TypeOK, Locals, NatOrNil
  <2>10. TypeOK'
    BY <2>1, <2>9 DEF Inv, TypeOK, clusterVars, cacheVars
  <2>11. \A t \in InState(jobCache, "active") : runs[t] > 0
    BY DEF Inv, JobsOK, InState, Listed, Ran
  <2>12. LocOK'
    BY <2>1, <2>2, <2>7, <2>11 DEF LocOK, Ran, clusterVars
  <2> QED
    BY <2>1, <2>10, <2>12 DEF Inv, JobsOK, Ran, StatusTruthful, Exists, clusterVars, cacheVars
<1> QED
  BY <1>1, <1>2, <1>3 DEF Load

\* r.Status().Update publishes what the list said.
LEMMA UpdateStatusInv ==
    ASSUME Inv, UpdateStatus
    PROVE  Inv'
<1>1. CASE ReturnError /\ UNCHANGED <<cron, cacheFresh>> /\ (UNCHANGED faults \/ Fault)
  <2>1. queued' \in BOOLEAN
    BY DEF Inv, TypeOK, UpdateStatus
  <2> QED
    BY <1>1, <2>1, ReturnErrorInv DEF UpdateStatus, clusterVars, cacheVars
<1>2. CASE /\ cron' = [cron EXCEPT !.last = loc.last, !.active = loc.active]
           /\ cacheFresh' = (cacheFresh /\ StatusIs(cron, loc.last, loc.active))
           /\ pc' = "cleanup"
           /\ UNCHANGED <<loc, timer, outcome, faults>>
  <2>1. loc \in Locals /\ loc.last \in NatOrNil /\ loc.active \in SUBSET JobTimes
    BY DEF Inv, TypeOK, UpdateStatus, Locals
  <2>2. cron' \in CronStates
    BY <1>2, <2>1 DEF Inv, TypeOK, CronStates
  <2>3. cacheFresh' \in BOOLEAN
    BY <1>2
  <2>4. TypeOK'
    BY <1>2, <2>1, <2>2, <2>3 DEF Inv, TypeOK, UpdateStatus
  <2>5. cron'.last = loc.last /\ cron'.active = loc.active
    BY <1>2 DEF Inv, TypeOK, CronStates
  <2>6. StatusTruthful'
    BY <2>5 DEF Inv, LocOK, Ran, UpdateStatus, StatusTruthful
  <2> QED
    BY <1>2, <2>4, <2>6 DEF Inv, JobsOK, Ran, LocOK, Exists, UpdateStatus
<1> QED
  BY <1>1, <1>2 DEF UpdateStatus

\* A deletion of the clean-up loops.
LEMMA CleanUpInv ==
    ASSUME Inv, CleanUp
    PROVE  Inv'
<1>1. loc \in Locals /\ loc.old \in Seq(JobTimes) /\ loc.old # <<>>
  BY DEF Inv, TypeOK, CleanUp, Locals
<1>2. Head(loc.old) \in JobTimes /\ Tail(loc.old) \in Seq(JobTimes)
  BY <1>1
<1>3. loc' \in Locals /\ \A f \in {"last", "active", "missed"} : loc'[f] = loc[f]
  BY <1>1, <1>2 DEF CleanUp, Locals
<1>4. jobs' \in [JobTimes -> Jobs] /\ JobsOK(jobs)'
  <2>1. CASE jobs' = [jobs EXCEPT ![Head(loc.old)] = NoJob]
    BY <1>2, <2>1, DeletedJobOK DEF CleanUp
  <2>2. CASE UNCHANGED jobs
    BY <2>2 DEF Inv, TypeOK, JobsOK, Ran, Exists, CleanUp
  <2> QED
    BY <2>1, <2>2 DEF CleanUp
<1>5. faults' \in Nat
  BY DEF Inv, TypeOK, CleanUp, Fault
<1>6. TypeOK'
  BY <1>3, <1>4, <1>5 DEF Inv, TypeOK, CleanUp, cacheVars, queueVars
<1>7. LocOK'
  BY <1>3 DEF Inv, LocOK, Ran, CleanUp
<1> QED
  BY <1>4, <1>6, <1>7 DEF Inv, JobsOK, Ran, StatusTruthful, Exists, CleanUp, cacheVars

\* missedRun is due when getNextSchedule returns it.
LEMMA GetNextScheduleInv ==
    ASSUME Inv, GetNextSchedule
    PROVE  Inv'
<1>1. loc \in Locals /\ loc.obj \in CronJobs /\ loc.last \in NatOrNil
  BY DEF Inv, TypeOK, GetNextSchedule, Locals
<1>2. CASE pc' = "idle"
  <2>1. loc' = Nil /\ outcome' \in Outcomes
    BY <1>2 DEF GetNextSchedule, Return, Outcomes
  <2>2. timer' \in NatOrNil /\ queued' \in BOOLEAN /\ faults' \in Nat
    BY DEF Inv, TypeOK, GetNextSchedule, queueVars
  <2> QED
    BY <1>2, <2>1, <2>2, ReturnInv DEF GetNextSchedule
<1>3. CASE pc' # "idle"
  <2>1. /\ ParseStandard(loc.obj.schedule) /\ pc' = "requeue"
        /\ loc' = [loc EXCEPT !.missed = LastMissed(loc.obj, loc.last, creation, now),
                              !.next = NextFire(loc.obj.schedule, now)]
        /\ UNCHANGED <<now, clusterVars, cacheVars, queueVars, runs, edits, faults, outcome>>
    BY <1>3 DEF GetNextSchedule, Return
  <2>2. loc.last # Nil => creation < loc.last
    BY DEF Inv, LocOK, Ran, GetNextSchedule
  <2>3. \/ LastMissed(loc.obj, loc.last, creation, now) = Nil
        \/ /\ LastMissed(loc.obj, loc.last, creation, now) \in JobTimes
           /\ creation < LastMissed(loc.obj, loc.last, creation, now)
           /\ LastMissed(loc.obj, loc.last, creation, now) <= now
    BY <1>1, <2>1, <2>2, LastMissedDue DEF Inv, TypeOK
  <2>4. NextFire(loc.obj.schedule, now) \in NatOrNil
    BY <2>1, NextFireType DEF Inv, TypeOK, ParseStandard
  <2>5. loc' \in Locals
    BY <1>1, <2>1, <2>3, <2>4, FireTimesAreInstants DEF Locals, NatOrNil
  <2>6. TypeOK'
    BY <2>1, <2>5 DEF Inv, TypeOK, clusterVars, cacheVars, queueVars
  <2>7. LocOK'
    BY <1>1, <2>1, <2>3 DEF Inv, LocOK, Ran, GetNextSchedule, Locals, clusterVars
  <2> QED
    BY <2>1, <2>6, <2>7 DEF Inv, JobsOK, Ran, StatusTruthful, Exists, clusterVars, cacheVars
<1> QED
  BY <1>2, <1>3

\* Past the IsZero check there is a missed run in hand.
LEMMA ComputeRequeueInv ==
    ASSUME Inv, ComputeRequeue
    PROVE  Inv'
<1>1. loc \in Locals /\ loc.next \in NatOrNil /\ now \in Nat
  BY DEF Inv, TypeOK, ComputeRequeue, Locals
<1>2. RequeueAfter \in Int
  BY <1>1 DEF RequeueAfter, NatOrNil
<1>3. CASE ReturnScheduled("sleeping", RequeueAfter)
  <2>1. timer' \in NatOrNil
    BY <1>2, <1>3, ReturnScheduledType DEF Inv
  <2>2. queued' \in BOOLEAN /\ faults' \in Nat
    BY DEF Inv, TypeOK, ComputeRequeue
  <2> QED
    BY <1>3, <2>1, <2>2, ReturnInv DEF ComputeRequeue, ReturnScheduled, Return, Outcomes
<1>4. CASE /\ loc.missed # Nil
           /\ loc' = [loc EXCEPT !.requeue = RequeueAfter]
           /\ pc' = "late"
           /\ UNCHANGED <<timer, outcome>>
  <2>1. loc' \in Locals /\ \A f \in {"last", "active", "missed"} : loc'[f] = loc[f]
    BY <1>1, <1>2, <1>4 DEF Locals
  <2>2. loc'.missed \in JobTimes
    BY <1>4, <2>1 DEF Inv, LocOK, ComputeRequeue
  <2>3. TypeOK'
    BY <1>4, <2>1, <2>2 DEF Inv, TypeOK, ComputeRequeue, clusterVars, cacheVars
  <2>4. LocOK'
    BY <1>4, <2>1 DEF Inv, LocOK, Ran, ComputeRequeue, clusterVars
  <2> QED
    BY <2>3, <2>4 DEF Inv, JobsOK, Ran, StatusTruthful, Exists, ComputeRequeue, clusterVars, cacheVars
<1> QED
  BY <1>3, <1>4 DEF ComputeRequeue

\* The deadline check changes nothing but the control point.
LEMMA CheckDeadlineInv ==
    ASSUME Inv, CheckDeadline
    PROVE  Inv'
<1>1. loc \in Locals /\ loc.requeue \in Int \cup {Nil}
  BY DEF Inv, TypeOK, CheckDeadline, Locals
<1>2. CASE ReturnScheduled("late", loc.requeue)
  <2>1. timer' \in NatOrNil
    BY <1>1, <1>2, ReturnScheduledType DEF Inv
  <2>2. queued' \in BOOLEAN /\ faults' \in Nat
    BY DEF Inv, TypeOK, CheckDeadline
  <2> QED
    BY <1>2, <2>1, <2>2, ReturnInv DEF CheckDeadline, ReturnScheduled, Return, Outcomes
<1>3. CASE pc' = "create" /\ UNCHANGED <<loc, timer, outcome>>
  <2>1. TypeOK'
    BY <1>1, <1>3 DEF Inv, TypeOK, CheckDeadline, clusterVars, cacheVars
  <2> QED
    BY <1>3, <2>1 DEF Inv, JobsOK, LocOK, Ran, StatusTruthful, Exists, CheckDeadline,
                      clusterVars, cacheVars
<1> QED
  BY <1>2, <1>3 DEF CheckDeadline

\* A deletion under Replace.
LEMMA DeleteActiveInv ==
    ASSUME Inv, NEW t \in JobTimes, DeleteActive(t)
    PROVE  Inv'
<1>1. loc \in Locals /\ loc.active \in SUBSET JobTimes
  BY DEF Inv, TypeOK, DeleteActive, Locals
<1>2. CASE Fault /\ ReturnError /\ UNCHANGED jobs
  <2>1. queued' \in BOOLEAN
    BY DEF Inv, TypeOK, DeleteActive
  <2> QED
    BY <1>2, <2>1, ReturnErrorInv DEF DeleteActive, clusterVars, cacheVars
<1>3. CASE /\ jobs' = [jobs EXCEPT ![t] = NoJob]
           /\ loc' = [loc EXCEPT !.active = @ \ {t}]
           /\ UNCHANGED <<pc, timer, outcome, faults>>
  <2>1. /\ loc' \in Locals /\ loc'.active = loc.active \ {t}
        /\ loc'.last = loc.last /\ loc'.missed = loc.missed
    BY <1>1, <1>3 DEF Locals
  <2>2. jobs' \in [JobTimes -> Jobs] /\ JobsOK(jobs)'
    BY <1>3, DeletedJobOK DEF DeleteActive
  <2>3. TypeOK'
    BY <1>3, <2>1, <2>2 DEF Inv, TypeOK, DeleteActive, cacheVars
  <2>4. LocOK'
    BY <1>3, <2>1 DEF Inv, LocOK, Ran, DeleteActive
  <2> QED
    BY <2>2, <2>3, <2>4 DEF Inv, JobsOK, Ran, StatusTruthful, Exists, DeleteActive, cacheVars
<1> QED
  BY <1>2, <1>3 DEF DeleteActive

\* The new Job is on schedule because missedRun was due when it was computed
\* and the clock does not go back.
LEMMA CreateJobInv ==
    ASSUME Inv, CreateJob
    PROVE  Inv'
<1>1. loc \in Locals /\ loc.requeue \in Int \cup {Nil} /\ loc.missed \in JobTimes
  BY DEF Inv, TypeOK, CreateJob, Locals
<1>2. queued' \in BOOLEAN
  BY DEF Inv, TypeOK, CreateJob
<1>3. CASE ReturnError /\ UNCHANGED <<jobs, runs>> /\ (UNCHANGED faults \/ Fault)
  BY <1>2, <1>3, ReturnErrorInv DEF CreateJob, clusterVars, cacheVars
<1>4. CASE /\ jobs' = [jobs EXCEPT ![loc.missed] = ConstructJob(loc.missed)]
           /\ runs' = [runs EXCEPT ![loc.missed] = IF @ < 2 THEN @ + 1 ELSE @]
           /\ ReturnScheduled("created", loc.requeue)
           /\ UNCHANGED faults
  <2>1. timer' \in NatOrNil
    BY <1>1, <1>4, ReturnScheduledType DEF Inv
  <2>2. pc' = "idle" /\ loc' = Nil /\ outcome' \in Outcomes
    BY <1>4 DEF ReturnScheduled, Return, Outcomes
  <2>3. /\ jobs \in [JobTimes -> Jobs] /\ runs \in [JobTimes -> 0..2]
        /\ loc.missed \in Nat /\ creation < loc.missed /\ loc.missed <= now
    <3>1. loc.missed \in Nat
      BY <1>1, FireTimesAreInstants
    <3>2. loc.missed # Nil
      BY <3>1, NilIsNoInstant
    <3> QED
      BY <3>1, <3>2 DEF Inv, TypeOK, LocOK, CreateJob
  <2>4. ConstructJob(loc.missed) \in Jobs
    BY <2>3 DEF ConstructJob, Jobs, NatOrNil
  <2>5. jobs' \in [JobTimes -> Jobs] /\ runs' \in [JobTimes -> 0..2]
    <3>1. jobs' \in [JobTimes -> Jobs]
      BY <1>4, <2>3, <2>4
    <3>2. \A n \in 0..2 : (IF n < 2 THEN n + 1 ELSE n) \in 0..2
      OBVIOUS
    <3>3. runs' \in [JobTimes -> 0..2]
      BY <1>1, <1>4, <2>3, <3>2
    <3> QED
      BY <3>1, <3>3
  <2>6. \A t \in JobTimes : runs[t] > 0 => runs'[t] > 0
    <3>1. SUFFICES ASSUME NEW t \in JobTimes, runs[t] > 0 PROVE runs'[t] > 0
      OBVIOUS
    <3>2. runs[t] \in 0..2 /\ runs'[t] = IF t = loc.missed /\ runs[t] < 2 THEN runs[t] + 1 ELSE runs[t]
      BY <1>1, <1>4, <2>3
    <3> QED
      BY <3>1, <3>2
  <2>7. runs'[loc.missed] > 0 /\ jobs'[loc.missed].sched = loc.missed
    <3>1. runs[loc.missed] \in 0..2
      BY <1>1, <2>3
    <3>2. runs'[loc.missed] > 0
      BY <1>1, <1>4, <2>3, <3>1
    <3>3. jobs'[loc.missed] = ConstructJob(loc.missed)
      BY <1>1, <1>4, <2>3
    <3> QED
      BY <3>2, <3>3 DEF ConstructJob
  <2>8. \A t \in JobTimes : t # loc.missed => jobs'[t] = jobs[t]
    BY <1>1, <1>4, <2>3
  <2>9. TypeOK'
    BY <1>2, <1>4, <2>1, <2>2, <2>5 DEF Inv, TypeOK, CreateJob, cacheVars
  <2>10. JobsOK(jobs)' /\ JobsOK(jobCache)'
    BY <2>3, <2>6, <2>7, <2>8 DEF Inv, JobsOK, Ran, Exists, CreateJob, cacheVars
  <2>11. StatusTruthful'
    BY <2>6 DEF Inv, TypeOK, CronStates, StatusTruthful, CreateJob
  <2> QED
    BY <2>2, <2>9, <2>10, <2>11 DEF Inv, LocOK
<1> QED
  BY <1>3, <1>4 DEF CreateJob

\* Every step of Reconcile keeps the invariant.
LEMMA ReconcileStepInv ==
    ASSUME Inv, ReconcileStep
    PROVE  Inv'
BY LoadInv, UpdateStatusInv, CleanUpInv, GetNextScheduleInv, ComputeRequeueInv, CheckDeadlineInv,
   DeleteActiveInv, CreateJobInv DEF ReconcileStep

-----------------------------------------------------------------------------
(* The other steps                                                         *)

\* A watch event of the CronJob.
LEMMA SyncCronInv == ASSUME Inv, SyncCron PROVE Inv'
<1>1. TypeOK'
  BY DEF Inv, TypeOK, SyncCron, clusterVars, localVars, auxVars
<1> QED
  BY <1>1 DEF Inv, JobsOK, LocOK, Ran, StatusTruthful, Exists, SyncCron, clusterVars, localVars, auxVars

\* A watch event of a Job: the cache is as good as the server.
LEMMA SyncJobInv == ASSUME Inv, NEW t \in JobTimes, SyncJob(t) PROVE Inv'
<1>1. jobs \in [JobTimes -> Jobs] /\ jobCache \in [JobTimes -> Jobs]
  BY DEF Inv, TypeOK
<1>2. jobCache' = [jobCache EXCEPT ![t] = jobs[t]]
  BY DEF SyncJob
<1>3. jobCache' \in [JobTimes -> Jobs]
  BY <1>1, <1>2
<1>4. queued' \in BOOLEAN
  BY DEF SyncJob
<1>5. TypeOK'
  BY <1>3, <1>4 DEF Inv, TypeOK, SyncJob, clusterVars, localVars, auxVars
<1>6. jobCache'[t] = jobs[t] /\ \A u \in JobTimes : u # t => jobCache'[u] = jobCache[u]
  BY <1>1, <1>2
<1>7. JobsOK(jobCache)'
  BY <1>6 DEF Inv, JobsOK, Ran, Exists, SyncJob, clusterVars, auxVars
<1> QED
  BY <1>5, <1>7 DEF Inv, JobsOK, LocOK, Ran, StatusTruthful, Exists, SyncJob, clusterVars, localVars, auxVars

\* Timers and resyncs only touch the queue.
LEMMA WakeInv == ASSUME Inv, FireTimer \/ Resync PROVE Inv'
<1>1. TypeOK'
  BY DEF Inv, TypeOK, NatOrNil, FireTimer, Resync, clusterVars, cacheVars, localVars, auxVars
<1> QED
  BY <1>1 DEF Inv, JobsOK, LocOK, Ran, StatusTruthful, Exists, FireTimer, Resync,
              clusterVars, cacheVars, localVars, auxVars

\* A restart forgets the copies.
LEMMA RestartInv == ASSUME Inv, Restart PROVE Inv'
<1>1. queued' \in BOOLEAN /\ timer' \in NatOrNil /\ faults' \in Nat
  BY DEF Inv, TypeOK, Restart, Fault, NatOrNil
<1>2. TypeOK'
  BY <1>1 DEF Inv, TypeOK, Restart, clusterVars
<1> QED
  BY <1>2 DEF Inv, JobsOK, LocOK, Ran, StatusTruthful, Exists, Restart, clusterVars

\* What was due stays due.
LEMMA TickInv == ASSUME Inv, Tick PROVE Inv'
<1>1. now \in Nat /\ now' = now + 1
  BY DEF Inv, TypeOK, Tick
<1>2. TypeOK'
  BY <1>1 DEF Inv, TypeOK, Tick, clusterVars, cacheVars, queueVars, localVars, auxVars
<1>3. \A t : Ran(t) => Ran(t)'
  BY <1>1, FireTimesAreInstants DEF Ran, Tick, clusterVars, auxVars
<1>4. LocOK'
  <2>1. UNCHANGED <<pc, loc, creation, runs>>
    BY DEF Tick, clusterVars, localVars, auxVars
  <2>2. \A t \in JobTimes : t <= now => t <= now'
    BY <1>1, FireTimesAreInstants
  <2> QED
    BY <2>1, <2>2 DEF Inv, LocOK, Ran
<1>5. JobsOK(jobs)' /\ JobsOK(jobCache)'
  BY <1>3 DEF Inv, JobsOK, Exists, Tick, clusterVars, cacheVars
<1> QED
  BY <1>2, <1>4, <1>5 DEF Inv, StatusTruthful, Tick, clusterVars, auxVars

\* The Job controller and users change a Job that exists, and leave its
\* annotation or take it away.
LEMMA ChangedJobInv ==
    ASSUME Inv, NEW t \in JobTimes, Exists(jobs, t), jobs' \in [JobTimes -> Jobs],
           \A u \in JobTimes : u # t => jobs'[u] = jobs[u],
           jobs'[t].sched \in {jobs[t].sched, Nil, Garbled}, edits' \in Nat,
           UNCHANGED <<now, creation, cron, cacheVars, queueVars, localVars, outcome, runs, faults>>
    PROVE  Inv'
<1>1. TypeOK'
  BY DEF Inv, TypeOK, cacheVars, queueVars, localVars
<1>2. JobsOK(jobs)'
  BY DEF Inv, JobsOK, Ran, Exists
<1> QED
  BY <1>1, <1>2 DEF Inv, JobsOK, LocOK, Ran, StatusTruthful, Exists, cacheVars, queueVars, localVars

\* The Job controller starts a Job.
LEMMA StartJobInv == ASSUME Inv, NEW t \in JobTimes, StartJob(t) PROVE Inv'
<1>1. jobs \in [JobTimes -> Jobs] /\ now \in Nat /\ t \in Nat /\ edits \in Nat
  BY FireTimesAreInstants DEF Inv, TypeOK
<1>2. PICK s \in Nat : jobs' = [jobs EXCEPT ![t].start = s]
  BY <1>1 DEF StartJob
<1>3. jobs'[t] = [jobs[t] EXCEPT !.start = s]
  BY <1>1, <1>2
<1>4. jobs'[t] \in Jobs /\ jobs'[t].sched = jobs[t].sched
  BY <1>1, <1>3 DEF Jobs, NatOrNil
<1>5. jobs' \in [JobTimes -> Jobs] /\ \A u \in JobTimes : u # t => jobs'[u] = jobs[u]
  BY <1>1, <1>2, <1>4
<1>6. Exists(jobs, t)
  BY DEF StartJob, Exists
<1> QED
  BY <1>1, <1>4, <1>5, <1>6, ChangedJobInv DEF StartJob, auxVars

\* A Job ends.
LEMMA FinishJobInv ==
    ASSUME Inv, NEW t \in JobTimes, NEW state \in {"complete", "failed"}, FinishJob(t, state)
    PROVE  Inv'
<1>1. jobs \in [JobTimes -> Jobs] /\ edits \in Nat
  BY DEF Inv, TypeOK
<1>2. jobs'[t] = [jobs[t] EXCEPT !.state = state]
  BY <1>1 DEF FinishJob
<1>3. jobs'[t] \in Jobs /\ jobs'[t].sched = jobs[t].sched
  BY <1>1, <1>2 DEF Jobs
<1>4. jobs' \in [JobTimes -> Jobs] /\ \A u \in JobTimes : u # t => jobs'[u] = jobs[u]
  BY <1>1, <1>3 DEF FinishJob
<1>5. Exists(jobs, t)
  BY DEF FinishJob, Exists
<1> QED
  BY <1>1, <1>3, <1>4, <1>5, ChangedJobInv DEF FinishJob, auxVars

\* The garbage collector or a user deletes a Job.
LEMMA RemoveJobInv == ASSUME Inv, NEW t \in JobTimes, CollectJob(t) \/ DeleteJob(t) PROVE Inv'
<1>1. /\ jobs' = [jobs EXCEPT ![t] = NoJob]
      /\ UNCHANGED <<now, creation, cron, cacheVars, queueVars, localVars, outcome, runs, faults>>
  BY DEF CollectJob, DeleteJob, Edit, auxVars, cacheVars, localVars
<1>2. jobs' \in [JobTimes -> Jobs] /\ JobsOK(jobs)'
  BY <1>1, DeletedJobOK
<1>3. edits' \in Nat
  BY DEF Inv, TypeOK, CollectJob, DeleteJob, Edit, auxVars
<1>4. TypeOK'
  BY <1>1, <1>2, <1>3 DEF Inv, TypeOK, cacheVars, queueVars, localVars
<1> QED
  BY <1>1, <1>2, <1>4 DEF Inv, JobsOK, LocOK, Ran, StatusTruthful, Exists, cacheVars, queueVars, localVars

\* A user spoils the scheduled-at annotation.
LEMMA AnnotateJobInv ==
    ASSUME Inv, NEW t \in JobTimes, NEW a \in {Nil, Garbled}, AnnotateJob(t, a)
    PROVE  Inv'
<1>1. jobs \in [JobTimes -> Jobs] /\ edits' \in Nat
  BY DEF Inv, TypeOK, AnnotateJob, Edit
<1>2. jobs'[t] = [jobs[t] EXCEPT !.sched = a]
  BY <1>1 DEF AnnotateJob
<1>3. jobs'[t] \in Jobs /\ jobs'[t].sched = a
  BY <1>1, <1>2 DEF Jobs, NatOrNil
<1>4. jobs' \in [JobTimes -> Jobs] /\ \A u \in JobTimes : u # t => jobs'[u] = jobs[u]
  BY <1>1, <1>3 DEF AnnotateJob
<1>5. Exists(jobs, t)
  BY DEF AnnotateJob
<1> QED
  BY <1>1, <1>3, <1>4, <1>5, ChangedJobInv DEF AnnotateJob, Edit, cacheVars, localVars

\* A user's write to the CronJob makes the copies stale, nothing else.
LEMMA NewVersionInv ==
    ASSUME Inv, cron' \in CronStates, cron'.last = cron.last, cron'.active = cron.active,
           NewVersion, edits' \in Nat,
           UNCHANGED <<now, creation, cronCache, jobs, jobCache, queueVars, pc, outcome, runs, faults>>
    PROVE  Inv'
<1>1. CASE pc = "idle"
  <2>1. TypeOK'
    BY <1>1 DEF Inv, TypeOK, NewVersion, queueVars
  <2> QED
    BY <1>1, <2>1 DEF Inv, JobsOK, LocOK, Ran, StatusTruthful, Exists
<1>2. CASE pc # "idle"
  <2>1. loc \in Locals /\ loc' = [loc EXCEPT !.fresh = FALSE]
    BY <1>2 DEF Inv, TypeOK, NewVersion
  <2>2. loc' \in Locals /\ \A f \in {"last", "active", "missed"} : loc'[f] = loc[f]
    BY <2>1 DEF Locals
  <2>3. TypeOK'
    BY <1>2, <2>2 DEF Inv, TypeOK, NewVersion, queueVars
  <2>4. LocOK'
    BY <1>2, <2>2 DEF Inv, LocOK, Ran
  <2> QED
    BY <2>3, <2>4 DEF Inv, JobsOK, Ran, StatusTruthful, Exists
<1> QED
  BY <1>1, <1>2

\* A user edits the CronJob, through the webhook.
LEMMA EditCronJobInv == ASSUME Inv, NEW c \in Admitted(Submitted), EditCronJob(c) PROVE Inv'
<1>1. cron \in CronStates /\ c \in CronJobs /\ edits' \in Nat
  BY AdmittedType DEF Inv, TypeOK, EditCronJob, Edit
<1>2. cron' = [cron EXCEPT !.obj = c]
  BY DEF EditCronJob
<1>3. cron' \in CronStates /\ cron'.last = cron.last /\ cron'.active = cron.active
  BY <1>1, <1>2 DEF CronStates
<1> QED
  BY <1>1, <1>3, NewVersionInv DEF EditCronJob, Edit

\* A user deletes the CronJob.
LEMMA DeleteCronJobInv == ASSUME Inv, DeleteCronJob PROVE Inv'
<1>1. cron \in CronStates /\ edits' \in Nat
  BY DEF Inv, TypeOK, DeleteCronJob, Edit
<1>2. cron' = [cron EXCEPT !.phase = "deleted"]
  BY DEF DeleteCronJob
<1>3. cron' \in CronStates /\ cron'.last = cron.last /\ cron'.active = cron.active
  BY <1>1, <1>2 DEF CronStates
<1> QED
  BY <1>1, <1>3, NewVersionInv DEF DeleteCronJob, Edit

\* Nothing happens.
LEMMA StutterInv == ASSUME Inv, UNCHANGED vars PROVE Inv'
<1>1. TypeOK'
  BY DEF Inv, TypeOK, vars, clusterVars, cacheVars, queueVars, localVars, auxVars
<1> QED
  BY <1>1 DEF Inv, JobsOK, LocOK, Ran, StatusTruthful, Exists, vars, clusterVars, cacheVars,
              queueVars, localVars, auxVars

\* Every step keeps the invariant.
LEMMA NextInv == ASSUME Inv, [Next]_vars PROVE Inv'
<1>1. CASE ReconcileStep
  BY <1>1, ReconcileStepInv
<1>2. CASE ManagerStep
  BY <1>2, SyncCronInv, SyncJobInv, WakeInv, RestartInv DEF ManagerStep
<1>3. CASE ClusterStep
  BY <1>3, TickInv, StartJobInv, FinishJobInv, RemoveJobInv DEF ClusterStep
<1>4. CASE UserStep
  BY <1>4, EditCronJobInv, DeleteCronJobInv, RemoveJobInv, AnnotateJobInv DEF UserStep
<1>5. CASE UNCHANGED vars
  BY <1>5, StutterInv
<1> QED
  BY <1>1, <1>2, <1>3, <1>4, <1>5 DEF Next

-----------------------------------------------------------------------------
(* The theorems                                                            *)

\* The inductive invariant holds in every behaviour of the controller, whatever
\* the schedules, the CronJobs submitted, the users, the faults and the restarts.
THEOREM Invariance == Spec => []Inv
BY InitInv, NextInv, PTL DEF Spec

\* The controller's variables keep their types; in particular Reconcile never
\* reaches the deadline check or r.Create without a missed run in hand.
THEOREM TypeCorrect == Spec => []TypeOK
<1>1. Inv => TypeOK
  BY DEF Inv
<1> QED
  BY <1>1, Invariance, PTL

\* No Job is ever created early or for a time before the CronJob's creation,
\* for every instance: Reconcile may act on stale lists and a moving clock.
THEOREM JobsAreOnSchedule == Spec => []JobsOnSchedule
<1>1. Inv => JobsOnSchedule
  BY DEF Inv, JobsOK, Ran, JobsOnSchedule
<1> QED
  BY <1>1, Invariance, PTL

\* The status never claims a run that did not happen: LastScheduleTime and
\* Active only name times whose Job was created, for every instance.
THEOREM StatusIsTruthful == Spec => []StatusTruthful
<1>1. Inv => StatusTruthful
  BY DEF Inv
<1> QED
  BY <1>1, Invariance, PTL
-----------------------------------------------------------------------------
(* What the steps leave alone                                              *)

\* Reconcile has returned, or it goes on with the same local variable f.
Kept(f) == pc' = "idle" \/ (pc # "idle" /\ loc'[f] = loc[f])

\* Once read, the CronJob and the last time stay; every other local variable
\* is set by the steps that are named after it.
LEMMA LocalsKept ==
    ASSUME Inv, [Next]_vars, ~ Load
    PROVE  /\ Kept("obj") /\ Kept("last")
           /\ (\A t \in JobTimes : ~ DeleteActive(t)) => Kept("active")
           /\ ~ CleanUp => Kept("old")
           /\ ~ GetNextSchedule => Kept("missed")
           /\ ~ UpdateStatus => pc # "status" \/ pc' \in {"idle", "status"}
<1>1. pc # "idle" => loc \in Locals
  BY DEF Inv, TypeOK
<1> DEFINE All == Kept("obj") /\ Kept("last") /\ Kept("active") /\ Kept("old") /\ Kept("missed")
<1>2. CASE UpdateStatus
  <2>1. All
    BY <1>2 DEF UpdateStatus, Kept, ReturnError, Return
  <2> QED
    BY <1>2, <2>1
<1>3. CASE CleanUp
  <2>1. loc \in Locals /\ pc = "cleanup" /\ pc' = "cleanup" /\ loc' = [loc EXCEPT !.old = Tail(@)]
    BY <1>1, <1>3 DEF CleanUp
  <2>2. \A f \in {"obj", "last", "active", "missed"} : loc'[f] = loc[f]
    BY <2>1 DEF Locals
  <2> QED
    BY <1>3, <2>1, <2>2 DEF Kept
<1>4. CASE GetNextSchedule
  <2>1. CASE pc' = "idle"
    BY <2>1, <1>4 DEF Kept
  <2>2. CASE pc' # "idle"
    <3>1. /\ loc \in Locals /\ pc = "cleanup"
          /\ loc' = [loc EXCEPT !.missed = LastMissed(loc.obj, loc.last, creation, now),
                                !.next = NextFire(loc.obj.schedule, now)]
      BY <1>1, <1>4, <2>2 DEF GetNextSchedule, Return
    <3>2. \A f \in {"obj", "last", "active", "old"} : loc'[f] = loc[f]
      BY <3>1 DEF Locals
    <3> QED
      BY <1>4, <3>1, <3>2 DEF Kept
  <2> QED
    BY <2>1, <2>2
<1>5. CASE ComputeRequeue
  <2>1. CASE pc' = "idle"
    BY <2>1, <1>5 DEF Kept
  <2>2. CASE pc' # "idle"
    <3>1. loc \in Locals /\ pc = "requeue" /\ loc' = [loc EXCEPT !.requeue = RequeueAfter]
      BY <1>1, <1>5, <2>2 DEF ComputeRequeue, ReturnScheduled, Return
    <3>2. \A f \in {"obj", "last", "active", "old", "missed"} : loc'[f] = loc[f]
      BY <3>1 DEF Locals
    <3> QED
      BY <1>5, <3>1, <3>2 DEF Kept
  <2> QED
    BY <2>1, <2>2
<1>6. CASE CheckDeadline
  BY <1>6 DEF CheckDeadline, Kept, ReturnScheduled, Return
<1>7. ASSUME NEW t \in JobTimes, DeleteActive(t)
      PROVE  Kept("obj") /\ Kept("last") /\ Kept("old") /\ Kept("missed") /\ pc # "status"
  <2>1. CASE pc' = "idle"
    BY <1>7, <2>1 DEF Kept, DeleteActive
  <2>2. CASE pc' # "idle"
    <3>1. loc \in Locals /\ pc = "create" /\ loc' = [loc EXCEPT !.active = @ \ {t}]
      BY <1>1, <1>7, <2>2 DEF DeleteActive, ReturnError, Return
    <3>2. \A f \in {"obj", "last", "old", "missed"} : loc'[f] = loc[f]
      BY <3>1 DEF Locals
    <3> QED
      BY <3>1, <3>2 DEF Kept
  <2> QED
    BY <2>1, <2>2
<1>8. CASE CreateJob
  BY <1>8 DEF CreateJob, Kept, ReturnScheduled, ReturnError, Return
<1>9. CASE ManagerStep
  BY <1>9 DEF ManagerStep, SyncCron, SyncJob, FireTimer, Resync, Restart, Kept, localVars
<1>10. CASE ClusterStep
  BY <1>10 DEF ClusterStep, Tick, StartJob, FinishJob, CollectJob, Kept, localVars
<1>11. CASE UserStep
  <2>1. pc' = pc /\ (loc' = loc \/ NewVersion)
    BY <1>11 DEF UserStep, EditCronJob, DeleteCronJob, DeleteJob, AnnotateJob, Edit
  <2>2. pc # "idle" => \A f \in {"obj", "last", "active", "old", "missed"} : loc'[f] = loc[f]
    <3>1. pc # "idle" => loc' = loc \/ loc' = [loc EXCEPT !.fresh = FALSE]
      BY <2>1 DEF NewVersion
    <3> QED
      BY <1>1, <3>1 DEF Locals
  <2> QED
    BY <2>1, <2>2 DEF Kept
<1>12. CASE UNCHANGED vars
  BY <1>12 DEF vars, localVars, Kept
<1> QED
  BY <1>2, <1>3, <1>4, <1>5, <1>6, <1>7, <1>8, <1>9, <1>10, <1>11, <1>12 DEF Next, ReconcileStep

\* Only r.Create makes a Job.
LEMMA OnlyCreateMakesJobs ==
    ASSUME Inv, [Next]_vars, ~ CreateJob, NEW u \in JobTimes, Exists(jobs', u)
    PROVE  Exists(jobs, u)
<1>1. jobs \in [JobTimes -> Jobs]
  BY DEF Inv, TypeOK
<1>2. ASSUME NEW t, jobs' = [jobs EXCEPT ![t] = NoJob]
      PROVE  Exists(jobs, u)
  BY <1>1, <1>2 DEF Exists, NoJob
<1>3. CASE UNCHANGED jobs
  BY <1>3
<1>4. CASE ReconcileStep
  BY <1>2, <1>3, <1>4 DEF ReconcileStep, Load, UpdateStatus, CleanUp, GetNextSchedule, ComputeRequeue,
                          CheckDeadline, DeleteActive, clusterVars
<1>5. CASE ManagerStep
  BY <1>3, <1>5 DEF ManagerStep, SyncCron, SyncJob, FireTimer, Resync, Restart, clusterVars
<1>6. CASE ClusterStep
  <2>1. ASSUME NEW t \in JobTimes, StartJob(t) PROVE Exists(jobs, u)
    BY <1>1, <2>1 DEF StartJob, Exists
  <2>2. ASSUME NEW t \in JobTimes, NEW state \in {"complete", "failed"}, FinishJob(t, state)
        PROVE  Exists(jobs, u)
    BY <1>1, <2>2 DEF FinishJob, Exists
  <2>3. ASSUME NEW t \in JobTimes, CollectJob(t) PROVE Exists(jobs, u)
    BY <1>2, <2>3 DEF CollectJob
  <2>4. CASE Tick
    BY <1>3, <2>4 DEF Tick, clusterVars
  <2> QED
    BY <1>6, <2>1, <2>2, <2>3, <2>4 DEF ClusterStep
<1>7. CASE UserStep
  <2>1. ASSUME NEW t \in JobTimes, NEW a \in {Nil, Garbled}, AnnotateJob(t, a) PROVE Exists(jobs, u)
    BY <1>1, <2>1 DEF AnnotateJob, Exists
  <2>2. ASSUME NEW t \in JobTimes, DeleteJob(t) PROVE Exists(jobs, u)
    BY <1>2, <2>2 DEF DeleteJob
  <2> QED
    BY <1>3, <1>7, <2>1, <2>2 DEF UserStep, EditCronJob, DeleteCronJob
<1> QED
  BY <1>3, <1>4, <1>5, <1>6, <1>7 DEF Next, vars, clusterVars

-----------------------------------------------------------------------------
(* Admission                                                               *)

\* AdmittedCanRun is not inductive: the objects in the cache and in the hand
\* of Reconcile must have passed the webhook too.
AdmittedInv ==
    /\ cron.obj \in Admitted(Submitted)
    /\ cronCache.obj \in Admitted(Submitted)
    /\ pc # "idle" => loc.obj \in Admitted(Submitted)
    /\ WebhooksEnabled => outcome # "unparseable"

LEMMA AdmittedInit == Init => AdmittedInv
<1> SUFFICES ASSUME Init PROVE AdmittedInv
  OBVIOUS
<1>1. cron.obj \in Admitted(Submitted) /\ cronCache.obj = cron.obj
  BY DEF Init
<1> QED
  BY <1>1 DEF Init, AdmittedInv

LEMMA AdmittedStep ==
    ASSUME Inv, AdmittedInv, [Next]_vars
    PROVE  AdmittedInv'
<1>1. cron \in CronStates
  BY DEF Inv, TypeOK
<1>2. cron'.obj \in Admitted(Submitted)
  <2>1. ASSUME NEW c \in Admitted(Submitted), EditCronJob(c) PROVE cron'.obj \in Admitted(Submitted)
    BY <1>1, <2>1 DEF EditCronJob, CronStates
  <2>2. CASE UpdateStatus
    BY <1>1, <2>2 DEF UpdateStatus, CronStates, AdmittedInv
  <2>3. CASE DeleteCronJob
    BY <1>1, <2>3 DEF DeleteCronJob, CronStates, AdmittedInv
  <2>4. CASE cron' = cron
    BY <2>4 DEF AdmittedInv
  <2>5. ReconcileStep => UpdateStatus \/ cron' = cron
    BY DEF ReconcileStep, Load, CleanUp, GetNextSchedule, ComputeRequeue, CheckDeadline,
           DeleteActive, CreateJob, clusterVars
  <2>6. ManagerStep \/ ClusterStep \/ UNCHANGED vars => cron' = cron
    BY DEF ManagerStep, SyncCron, SyncJob, FireTimer, Resync, Restart,
           ClusterStep, Tick, StartJob, FinishJob, CollectJob, vars, clusterVars
  <2>7. CASE UserStep
    <3>1. \/ \E c \in Admitted(Submitted) : EditCronJob(c)
          \/ DeleteCronJob
          \/ cron' = cron
      BY <2>7 DEF UserStep, DeleteJob, AnnotateJob
    <3> QED
      BY <2>1, <2>3, <2>4, <3>1
  <2> QED
    BY <2>2, <2>4, <2>5, <2>6, <2>7 DEF Next
<1>3. cronCache'.obj \in Admitted(Submitted)
  <2>1. cronCache' = cronCache \/ cronCache' = cron
    BY DEF Next, ReconcileStep, Load, UpdateStatus, CleanUp, GetNextSchedule, ComputeRequeue,
           CheckDeadline, DeleteActive, CreateJob, ManagerStep, SyncCron, SyncJob, FireTimer,
           Resync, Restart, ClusterStep, Tick, StartJob, FinishJob, CollectJob, UserStep,
           EditCronJob, DeleteCronJob, DeleteJob, AnnotateJob, Edit, vars, cacheVars
  <2> QED
    BY <2>1 DEF AdmittedInv
<1>4. pc' # "idle" => loc'.obj \in Admitted(Submitted)
  <2>1. CASE Load
    <3>1. pc' # "idle" => loc'.obj = cronCache.obj
      BY <2>1 DEF Load, Return, ReturnError
    <3> QED
      BY <3>1 DEF AdmittedInv
  <2>2. CASE ~ Load
    BY <2>2, LocalsKept DEF Kept, AdmittedInv
  <2> QED
    BY <2>1, <2>2
<1>5. WebhooksEnabled => outcome' # "unparseable"
  <2>1. CASE GetNextSchedule
    <3>1. pc # "idle"
      BY <2>1 DEF GetNextSchedule
    <3>2. WebhooksEnabled => ParseStandard(loc.obj.schedule)
      BY <3>1, AdmittedIsValid DEF AdmittedInv
    <3> QED
      BY <2>1, <3>2 DEF GetNextSchedule, Return, AdmittedInv
  <2>2. ReconcileStep /\ ~ GetNextSchedule => outcome' = outcome \/ outcome' # "unparseable"
    BY DEF ReconcileStep, Load, UpdateStatus, CleanUp, ComputeRequeue, CheckDeadline,
           DeleteActive, CreateJob, ReturnScheduled, ReturnError, Return
  <2>3. ManagerStep \/ ClusterStep \/ UserStep \/ UNCHANGED vars => outcome' = outcome
    BY DEF ManagerStep, SyncCron, SyncJob, FireTimer, Resync, Restart, ClusterStep, Tick,
           StartJob, FinishJob, CollectJob, UserStep, EditCronJob, DeleteCronJob, DeleteJob,
           AnnotateJob, Edit, vars, auxVars
  <2> QED
    BY <2>1, <2>2, <2>3 DEF Next, AdmittedInv
<1> QED
  BY <1>2, <1>3, <1>4, <1>5 DEF AdmittedInv

\* With the webhook on, no schedule that does not parse and no name that is
\* too long ever gets to Reconcile, whatever the users submit and edit.
THEOREM AdmittedCronJobsCanRun == Spec => []AdmittedCanRun
<1>1. Inv /\ AdmittedInv /\ [Next]_vars => AdmittedInv'
  BY AdmittedStep
<1>2. AdmittedInv => AdmittedCanRun
  BY AdmittedIsValid DEF AdmittedInv, AdmittedCanRun
<1> QED
  BY <1>1, <1>2, AdmittedInit, Invariance, PTL DEF Spec

-----------------------------------------------------------------------------
(* Replace                                                                 *)

\* After the status update, a Job that was published as active and that
\* Reconcile no longer has on its list is gone.
ReplacedGone ==
    pc \notin {"idle", "status"} => \A u \in cron.active \ loc.active : ~ Exists(jobs, u)

LEMMA ReplacedGoneStep ==
    ASSUME Inv, ReplacedGone, [Next]_vars
    PROVE  ReplacedGone'
<1>1. cron \in CronStates /\ cron.active \subseteq JobTimes
  BY DEF Inv, TypeOK, CronStates
<1>2. CASE UpdateStatus
  <2>1. pc' # "idle" => /\ cron' = [cron EXCEPT !.last = loc.last, !.active = loc.active]
                        /\ loc' = loc
    BY <1>2 DEF UpdateStatus, ReturnError, Return
  <2>2. pc' # "idle" => cron'.active = loc'.active
    BY <1>1, <2>1 DEF CronStates
  <2> QED
    BY <2>2 DEF ReplacedGone
<1>3. cron'.active = cron.active \/ UpdateStatus
  <2>1. ReconcileStep => UpdateStatus \/ cron' = cron
    BY DEF ReconcileStep, Load, CleanUp, GetNextSchedule, ComputeRequeue, CheckDeadline,
           DeleteActive, CreateJob, clusterVars
  <2>2. ManagerStep \/ ClusterStep \/ UNCHANGED vars => cron' = cron
    BY DEF ManagerStep, SyncCron, SyncJob, FireTimer, Resync, Restart,
           ClusterStep, Tick, StartJob, FinishJob, CollectJob, vars, clusterVars
  <2>3. UserStep => cron'.active = cron.active
    BY <1>1 DEF UserStep, EditCronJob, DeleteCronJob, DeleteJob, AnnotateJob, CronStates
  <2> QED
    BY <2>1, <2>2, <2>3 DEF Next
<1>4. CASE Load
  BY <1>4 DEF Load, ReplacedGone, Return, ReturnError
<1>5. ASSUME NEW t \in JobTimes, DeleteActive(t), ~ UpdateStatus PROVE ReplacedGone'
  <2>1. CASE pc' = "idle"
    BY <2>1 DEF ReplacedGone
  <2>2. CASE pc' # "idle"
    <3>1. /\ jobs' = [jobs EXCEPT ![t] = NoJob]
          /\ loc' = [loc EXCEPT !.active = @ \ {t}] /\ pc = "create" /\ loc \in Locals
          /\ jobs \in [JobTimes -> Jobs]
      BY <1>5, <2>2 DEF DeleteActive, ReturnError, Return, Inv, TypeOK
    <3>2. loc'.active = loc.active \ {t}
      BY <3>1 DEF Locals
    <3>3. \A u \in JobTimes : Exists(jobs', u) => Exists(jobs, u) /\ u # t
      BY <3>1 DEF Exists, NoJob
    <3> QED
      BY <1>1, <1>3, <1>5, <3>1, <3>2, <3>3 DEF ReplacedGone
  <2> QED
    BY <2>1, <2>2
<1>6. CASE CreateJob
  BY <1>6 DEF CreateJob, ReplacedGone, ReturnScheduled, ReturnError, Return
<1>7. CASE ~ UpdateStatus /\ ~ Load /\ ~ CreateJob /\ \A t \in JobTimes : ~ DeleteActive(t)
  <2>1. Kept("active") /\ (pc # "status" \/ pc' \in {"idle", "status"})
    BY <1>7, LocalsKept
  <2>2. \A u \in JobTimes : Exists(jobs', u) => Exists(jobs, u)
    BY <1>7, OnlyCreateMakesJobs
  <2> QED
    BY <1>1, <1>3, <1>7, <2>1, <2>2 DEF ReplacedGone, Kept
<1> QED
  BY <1>2, <1>4, <1>5, <1>6, <1>7

\* Under Replace a Job is only created when all that the same call published
\* as active are gone, whatever happens between the calls to the API server.
THEOREM ReplaceIsExclusive == Spec => ReplaceExclusive
<1> DEFINE A == \A t \in JobTimes :
                   (pc = "create" /\ loc.obj.policy = "Replace" /\ ~ Exists(jobs, t) /\ Exists(jobs', t)) =>
                      \A u \in cron.active \ {t} : ~ Exists(jobs', u)
<1>1. Init => ReplacedGone
  BY DEF Init, ReplacedGone
<1>2. Inv /\ ReplacedGone /\ [Next]_vars => ReplacedGone'
  BY ReplacedGoneStep
<1>3. ASSUME Inv, ReplacedGone, [Next]_vars PROVE A
  <2> SUFFICES ASSUME NEW t \in JobTimes, pc = "create", loc.obj.policy = "Replace",
                      ~ Exists(jobs, t), Exists(jobs', t),
                      NEW u \in cron.active \ {t}
               PROVE  ~ Exists(jobs', u)
    OBVIOUS
  <2>1. CreateJob
    BY <1>3, OnlyCreateMakesJobs
  <2>2. loc.active = {}
    BY <2>1 DEF CreateJob, Replacing
  <2>3. u \in JobTimes /\ ~ Exists(jobs, u)
    BY <1>3, <2>2 DEF ReplacedGone, Inv, TypeOK, CronStates
  <2>4. jobs' = [jobs EXCEPT ![loc.missed] = ConstructJob(loc.missed)]
    BY <2>1 DEF CreateJob
  <2>5. jobs \in [JobTimes -> Jobs]
    BY <1>3 DEF Inv, TypeOK
  <2>6. t = loc.missed
    BY <2>4, <2>5 DEF Exists
  <2> QED
    BY <2>3, <2>4, <2>5, <2>6 DEF Exists
<1>4. Inv /\ ReplacedGone /\ [Next]_vars => [A]_vars
  BY <1>3
<1> QED
  BY <1>1, <1>2, <1>4, Invariance, PTL DEF Spec, ReplaceExclusive
-----------------------------------------------------------------------------
(* What is kept of the finished Jobs                                       *)

\* As many later Jobs as the limit says are in S.
HasLater(S, x, limit) ==
    /\ x \in S
    /\ limit \in Nat
    /\ limit <= Cardinality({u \in S : u > x})

\* The clean-up loops look for the oldest: if Jobs started in the order of
\* their times, as many later ones as the limit says stay on the list.
LEMMA OldJobsHaveLater ==
    ASSUME NEW js, NEW S \in SUBSET JobTimes, IsFiniteSet(S), \A t \in S : js[t].start = t,
           NEW limit \in NatOrNil, NEW q \in OldJobs(js, S, limit), NEW i \in DOMAIN q
    PROVE  HasLater(S, q[i], limit)
<1> DEFINE n == Cardinality(S)
           T == {u \in S : u > q[i]}
<1>1. n \in Nat
  BY FS_CardinalityType
<1>2. PICK r \in Sorted(js, S) :
         q = IF limit = Nil \/ Len(r) <= limit THEN <<>> ELSE SubSeq(r, 1, Len(r) - limit)
  BY DEF OldJobs
<1>3. /\ r \in [1..n -> S]
      /\ \A j, k \in 1..n : j # k => r[j] # r[k]
      /\ \A j, k \in 1..n : j < k => ~ StartsBefore(js, r[k], r[j])
  BY DEF Sorted, SetToSeqs
<1>4. r \in Seq(S) /\ Len(r) = n
  BY <1>1, <1>3
<1> HIDE DEF n
<1>5. limit \in Nat /\ limit < n /\ q = SubSeq(r, 1, n - limit)
  BY <1>1, <1>2, <1>4 DEF NatOrNil
<1>6. i \in 1..(n - limit) /\ q[i] = r[i]
  BY <1>1, <1>4, <1>5
<1>7. ASSUME NEW k \in 1..n, i < k PROVE r[k] \in S /\ r[k] > r[i]
  <2>1. i \in 1..n
    BY <1>1, <1>5, <1>6
  <2>2. r[k] \in S /\ r[i] \in S /\ r[k] # r[i]
    BY <1>3, <1>7, <2>1, <1>1
  <2>3. r[k] \in Nat /\ r[i] \in Nat
    BY <2>2, FireTimesAreInstants
  <2>4. r[i] # Nil /\ r[k] # Nil
    BY <2>3, NilIsNoInstant
  <2>5. js[r[k]].start = r[k] /\ js[r[i]].start = r[i]
    BY <2>2
  <2>6. ~ (r[k] < r[i])
    BY <1>3, <1>7, <2>1, <2>4, <2>5 DEF StartsBefore
  <2> QED
    BY <2>2, <2>3, <2>6
<1> DEFINE f == [j \in 1..limit |-> r[n - limit + j]]
<1>8. f \in Injection(1..limit, T)
  <2>1. \A j \in 1..limit : n - limit + j \in 1..n /\ i < n - limit + j
    BY <1>1, <1>5, <1>6
  <2>2. \A j \in 1..limit : f[j] = r[n - limit + j] /\ f[j] \in T
    BY <1>6, <1>7, <2>1
  <2>3. \A j, k \in 1..limit : f[j] = f[k] => j = k
    <3>1. SUFFICES ASSUME NEW j \in 1..limit, NEW k \in 1..limit, j # k PROVE f[j] # f[k]
      OBVIOUS
    <3>2. n - limit + j # n - limit + k
      BY <1>1, <1>5, <3>1
    <3> QED
      BY <1>3, <2>1, <2>2, <3>2
  <2>4. f \in [1..limit -> T]
    BY <2>2
  <2> QED
    BY <2>3, <2>4 DEF Injection, IsInjective
<1>9. IsFiniteSet(T)
  BY FS_Subset
<1>10. Cardinality(1..limit) <= Cardinality(T)
  <2> HIDE DEF f, T
  <2> QED
    BY <1>8, <1>9, FS_Injection
<1>11. Cardinality(1..limit) = limit
  BY <1>5, FS_Interval
<1>12. q[i] \in S
  BY <1>1, <1>3, <1>5, <1>6
<1> QED
  BY <1>5, <1>10, <1>11, <1>12 DEF HasLater

\* mostRecentTime is not before any Job of the list that says its time.
LEMMA MostRecentTimeIsLast ==
    ASSUME TypeOK, NEW js \in [JobTimes -> Jobs], JobsOK(js),
           NEW v \in Listed(js), js[v].sched = v
    PROVE  MostRecentTime(js) # Nil /\ v <= MostRecentTime(js)
<1>1. \A x \in ScheduledTimes(js) : Ran(x)
  BY DEF ScheduledTimes, Listed, JobsOK
<1>2. ScheduledTimes(js) \in SUBSET Nat
  BY <1>1, FireTimesAreInstants DEF Ran
<1>3. \A x \in ScheduledTimes(js) : x <= now
  BY <1>1 DEF Ran
<1>4. v \in Nat
  BY FireTimesAreInstants DEF Listed
<1>5. v \notin {Nil, Garbled}
  BY <1>4, WebhookAssumption, ControllerAssumption
<1>6. v \in ScheduledTimes(js)
  BY <1>5 DEF ScheduledTimes
<1>7. now \in Nat
  BY DEF TypeOK
<1>8. Max(ScheduledTimes(js)) \in Nat /\ v <= Max(ScheduledTimes(js))
  BY <1>2, <1>3, <1>6, <1>7, MaxOfInstants
<1>9. MostRecentTime(js) = Max(ScheduledTimes(js))
  BY <1>6 DEF MostRecentTime
<1> QED
  BY <1>8, <1>9, NilIsNoInstant

\* lastMissed comes after the last time.
LEMMA LastMissedAfterLast ==
    ASSUME NEW c \in CronJobs, ParseStandard(c.schedule),
           NEW last \in Nat, NEW created \in Nat, NEW t \in Nat,
           LastMissed(c, last, created, t) # Nil
    PROVE  last < LastMissed(c, last, created, t)
<1> DEFINE missed == MissedFires(c, last, created, t)
<1>1. missed \in SUBSET Nat
  BY FireTimesAreInstants DEF MissedFires, ParseStandard
<1>2. \A f \in missed : EarliestTime(c, last, created, t) < f /\ f <= t
  BY DEF MissedFires
<1>3. missed # {} /\ LastMissed(c, last, created, t) = Max(missed)
  BY DEF LastMissed
<1>4. Max(missed) \in missed
  BY <1>1, <1>2, <1>3, MaxOfInstants
<1>5. EarliestTime(c, last, created, t) \in Int /\ last <= EarliestTime(c, last, created, t)
  BY NilIsNoInstant DEF EarliestTime, CronJobs, NatOrNil
<1> QED
  BY <1>1, <1>2, <1>3, <1>4, <1>5

-----------------------------------------------------------------------------
(* At most one run                                                         *)

\* A time can be run twice when its Job goes away and nothing is left to tell
\* that it was run.  That does not happen if users only edit the CronJob, no
\* history limit is 0, and start times order the Jobs as their times do...
Calm ==
    /\ StrictStarts
    /\ UserActions \subseteq {"edit"}
    /\ \A c \in Admitted(Submitted) : c.success # 0 /\ c.failed # 0

\* ... and the policy is not Replace, whose call may fail after the deletions.
Undisturbed == Calm /\ \A c \in Admitted(Submitted) : c.policy # "Replace"

\* A Job as the reconciler and the Job controller leave it.
StrictJobs(js) ==
    \A t \in JobTimes : Exists(js, t) =>
       /\ js[t].owned
       /\ js[t].sched = t
       /\ js[t].start \in {Nil, t}
       /\ Finished(js, t) => js[t].start = t

\* The Job of t was run and is gone.
Deleted(t) == runs[t] > 0 /\ ~ Exists(jobs, t)

\* There is a later Job, and the cache knows.
FollowedIn(js, cached, t) == \E u \in JobTimes : u > t /\ Exists(js, u) /\ Exists(cached, u)
Followed(t) == FollowedIn(jobs, jobCache, t)

\* Reconcile knows of a later run.
PassedIn(last, t) == last # Nil /\ t < last
Passed(t) == PassedIn(loc.last, t)

\* NoDoubleRun is not inductive: what is gone must be followed by a Job that
\* the cache, however stale, and the list in the hand of Reconcile have seen.
OnceInv ==
    /\ cron.phase = "live"
    /\ StrictJobs(jobs)
    /\ StrictJobs(jobCache)
    /\ \A t \in JobTimes : Deleted(t) => Followed(t)
    /\ pc # "idle" =>
          /\ \A i \in DOMAIN loc.old : Followed(loc.old[i]) /\ Passed(loc.old[i])
          /\ \A t \in JobTimes : Deleted(t) => Passed(t)
          /\ loc.missed # Nil /\ loc.last # Nil => loc.last < loc.missed
    /\ NoDoubleRun

LEMMA OnceInit == Init => OnceInv
BY DEF Init, OnceInv, StrictJobs, Exists, NoJob, Deleted, NoDoubleRun

\* What Load puts on the list to delete has later Jobs in the cache.
LEMMA LoadedOld ==
    ASSUME Inv, StrictJobs(jobCache), Load, pc' # "idle", NEW i \in DOMAIN loc'.old
    PROVE  \E state \in {"failed", "complete"} :
              HasLater(InState(jobCache, state), loc'.old[i],
                       IF state = "failed" THEN cronCache.obj.failed ELSE cronCache.obj.success)
<1>1. PICK a \in OldJobs(jobCache, InState(jobCache, "failed"), cronCache.obj.failed),
           b \in OldJobs(jobCache, InState(jobCache, "complete"), cronCache.obj.success) :
              loc'.old = a \o b
  BY DEF Load, Return, ReturnError
<1>2. jobCache \in [JobTimes -> Jobs] /\ cronCache.obj \in CronJobs
  BY DEF Inv, TypeOK, CronStates
<1>3. cronCache.obj.failed \in NatOrNil /\ cronCache.obj.success \in NatOrNil
  BY <1>2 DEF CronJobs
<1>4. \A state : InState(jobCache, state) \in SUBSET JobTimes /\ IsFiniteSet(InState(jobCache, state))
  BY <1>2, ListIsFinite DEF Inv, InState, Listed
<1>5. \A state \in {"failed", "complete"} : \A t \in InState(jobCache, state) : jobCache[t].start = t
  BY DEF InState, Listed, StrictJobs, Finished
<1>6. a \in Seq(JobTimes) /\ b \in Seq(JobTimes)
  BY <1>3, <1>4, OldJobsType
<1>7. CASE i \in DOMAIN a
  <2>1. loc'.old[i] = a[i]
    BY <1>1, <1>6, <1>7
  <2>2. HasLater(InState(jobCache, "failed"), a[i], cronCache.obj.failed)
    BY <1>3, <1>4, <1>5, <1>7, OldJobsHaveLater
  <2> QED
    BY <2>1, <2>2
<1>8. CASE i \notin DOMAIN a
  <2>1. i - Len(a) \in DOMAIN b /\ loc'.old[i] = b[i - Len(a)]
    BY <1>1, <1>6, <1>8
  <2> DEFINE k == i - Len(a)
  <2> HIDE DEF k
  <2>2. k \in DOMAIN b /\ loc'.old[i] = b[k]
    BY <2>1 DEF k
  <2>3. HasLater(InState(jobCache, "complete"), b[k], cronCache.obj.success)
    BY <1>3, <1>4, <1>5, <2>2, OldJobsHaveLater
  <2> QED
    BY <2>2, <2>3
<1> QED
  BY <1>7, <1>8

\* Which steps change what Jobs there are: a clean-up deletion, one for
\* Replace, a creation.
Deletes(x) == CleanUp /\ x = loc.old[1] /\ jobs' = [jobs EXCEPT ![x] = NoJob]

Replaces(x) == DeleteActive(x) /\ jobs' = [jobs EXCEPT ![x] = NoJob]

Creates(m) ==
    /\ CreateJob
    /\ m = loc.missed /\ m \in JobTimes
    /\ ~ Exists(jobs, m)
    /\ jobs' = [jobs EXCEPT ![m] = ConstructJob(m)]
    /\ runs' = [runs EXCEPT ![m] = IF @ < 2 THEN @ + 1 ELSE @]

\* The steps users could take are not taken.
LEMMA NotTaken ==
    ASSUME Calm, cron.phase = "live"
    PROVE  /\ ~ DeleteCronJob
           /\ \A t \in JobTimes : ~ CollectJob(t) /\ ~ DeleteJob(t)
           /\ \A t \in JobTimes, a \in {Nil, Garbled} : ~ AnnotateJob(t, a)
<1>1. \A t \in JobTimes : ~ CollectJob(t)
  BY DEF CollectJob
<1>2. UserActions \subseteq {"edit"}
  BY DEF Calm
<1>3. ~ Edit("delete") /\ ~ Edit("deleteJob") /\ ~ Edit("annotate")
  BY <1>2 DEF Edit
<1> QED
  BY <1>1, <1>3 DEF DeleteCronJob, DeleteJob, AnnotateJob

\* The Jobs on the server.
LEMMA CalmSteps ==
    ASSUME Calm, Inv, cron.phase = "live", [Next]_vars
    PROVE  \/ \E x \in JobTimes : (Deletes(x) \/ Replaces(x)) /\ UNCHANGED <<jobCache, runs>>
           \/ \E m \in JobTimes : Creates(m) /\ UNCHANGED jobCache
           \/ \E t \in JobTimes : StartJob(t) /\ UNCHANGED <<jobCache, runs>>
           \/ \E t \in JobTimes, state \in {"complete", "failed"} :
                 FinishJob(t, state) /\ UNCHANGED <<jobCache, runs>>
           \/ UNCHANGED <<jobs, runs>>
<1>1. CASE CleanUp
  <2>1. loc.old \in Seq(JobTimes) /\ loc.old # <<>>
    BY <1>1 DEF CleanUp, Inv, TypeOK, Locals
  <2>2. Head(loc.old) \in JobTimes /\ Head(loc.old) = loc.old[1]
    BY <2>1
  <2> QED
    BY <1>1, <2>2 DEF CleanUp, Deletes, cacheVars
<1>2. CASE CreateJob
  <2>1. loc.missed \in JobTimes
    BY <1>2 DEF CreateJob, Inv, TypeOK
  <2> QED
    BY <1>2, <2>1 DEF CreateJob, Creates, Creatable, cacheVars
<1>3. Load \/ UpdateStatus \/ GetNextSchedule \/ ComputeRequeue \/ CheckDeadline => UNCHANGED <<jobs, runs>>
  BY DEF Load, UpdateStatus, GetNextSchedule, ComputeRequeue, CheckDeadline, clusterVars
<1>4. CASE ReconcileStep
  <2>1. ASSUME NEW t \in JobTimes, DeleteActive(t)
        PROVE  (Replaces(t) /\ UNCHANGED <<jobCache, runs>>) \/ UNCHANGED <<jobs, runs>>
    BY <2>1 DEF DeleteActive, Replaces, cacheVars
  <2> QED
    BY <1>1, <1>2, <1>3, <1>4, <2>1 DEF ReconcileStep
<1>5. CASE ManagerStep
  BY <1>5 DEF ManagerStep, SyncCron, SyncJob, FireTimer, Resync, Restart, clusterVars, auxVars
<1>6. CASE ClusterStep
  <2>1. CASE Tick
    BY <2>1 DEF Tick, clusterVars, auxVars
  <2>2. CASE \E t \in JobTimes : StartJob(t) \/ \E state \in {"complete", "failed"} : FinishJob(t, state)
    BY <2>2 DEF StartJob, FinishJob, cacheVars, auxVars
  <2> QED
    BY <1>6, <2>1, <2>2, NotTaken DEF ClusterStep
<1>7. CASE UserStep
  <2>1. PICK c \in Admitted(Submitted) : EditCronJob(c)
    BY <1>7, NotTaken DEF UserStep
  <2> QED
    BY <2>1 DEF EditCronJob, Edit
<1> QED
  BY <1>4, <1>5, <1>6, <1>7 DEF Next, vars, clusterVars, auxVars

\* The Jobs in the cache follow the server.
LEMMA CacheSteps ==
    ASSUME [Next]_vars
    PROVE  \/ UNCHANGED jobCache
           \/ UNCHANGED <<jobs, runs>> /\ \E t \in JobTimes : jobCache' = [jobCache EXCEPT ![t] = jobs[t]]
           \/ UNCHANGED <<jobs, runs>> /\ jobCache' = jobs /\ pc' = "idle"
<1>1. ReconcileStep \/ ClusterStep \/ UserStep \/ UNCHANGED vars => UNCHANGED jobCache
  BY DEF ReconcileStep, Load, UpdateStatus, CleanUp, GetNextSchedule, ComputeRequeue,
         CheckDeadline, DeleteActive, CreateJob, ClusterStep, Tick, StartJob, FinishJob,
         CollectJob, UserStep, EditCronJob, DeleteCronJob, DeleteJob, AnnotateJob, Edit, vars, cacheVars
<1>2. CASE ManagerStep
  BY <1>2 DEF ManagerStep, SyncCron, SyncJob, FireTimer, Resync, Restart, clusterVars, cacheVars, auxVars
<1> QED
  BY <1>1, <1>2 DEF Next

\* What a step does to the existence of Jobs.
LEMMA CalmEffects ==
    ASSUME Calm, Inv, cron.phase = "live", [Next]_vars
    PROVE  \/ \E x \in JobTimes :
                 /\ (Deletes(x) \/ Replaces(x)) /\ UNCHANGED <<jobCache, runs>>
                 /\ ~ Exists(jobs', x)
                 /\ \A u \in JobTimes \ {x} : jobs'[u] = jobs[u]
           \/ \E m \in JobTimes :
                 /\ Creates(m) /\ UNCHANGED jobCache
                 /\ Exists(jobs', m)
                 /\ \A u \in JobTimes \ {m} : jobs'[u] = jobs[u] /\ runs'[u] = runs[u]
           \/ /\ UNCHANGED runs
              /\ \A u \in JobTimes : Exists(jobs', u) <=> Exists(jobs, u)
              /\ ~ CreateJob \/ UNCHANGED jobs
<1>1. jobs \in [JobTimes -> Jobs] /\ runs \in [JobTimes -> 0..2]
  BY DEF Inv, TypeOK
<1>2. ASSUME NEW x \in JobTimes, Deletes(x) \/ Replaces(x)
      PROVE  ~ Exists(jobs', x) /\ \A u \in JobTimes \ {x} : jobs'[u] = jobs[u]
  BY <1>1, <1>2 DEF Deletes, Replaces, Exists, NoJob
<1>3. ASSUME NEW m \in JobTimes, Creates(m)
      PROVE  Exists(jobs', m) /\ \A u \in JobTimes \ {m} : jobs'[u] = jobs[u] /\ runs'[u] = runs[u]
  BY <1>1, <1>3 DEF Creates, Exists, ConstructJob
<1>4. ASSUME NEW t \in JobTimes, StartJob(t)
      PROVE  (\A u \in JobTimes : Exists(jobs', u) <=> Exists(jobs, u)) /\ ~ CreateJob
  <2>1. \A u \in JobTimes : jobs'[u].state = jobs[u].state
    BY <1>1, <1>4 DEF StartJob, Jobs
  <2>2. pc' = pc
    BY <1>4 DEF StartJob, localVars
  <2> QED
    BY <2>1, <2>2 DEF Exists, CreateJob, ReturnScheduled, ReturnError, Return
<1>5. ASSUME NEW t \in JobTimes, NEW state \in {"complete", "failed"}, FinishJob(t, state)
      PROVE  (\A u \in JobTimes : Exists(jobs', u) <=> Exists(jobs, u)) /\ ~ CreateJob
  <2>1. jobs[t].state = "active" /\ jobs'[t].state = state /\ \A u \in JobTimes \ {t} : jobs'[u] = jobs[u]
    BY <1>1, <1>5 DEF FinishJob, Jobs
  <2>2. pc' = pc
    BY <1>5 DEF FinishJob, localVars
  <2> QED
    BY <2>1, <2>2 DEF Exists, CreateJob, ReturnScheduled, ReturnError, Return
<1>6. CASE \E x \in JobTimes : (Deletes(x) \/ Replaces(x)) /\ UNCHANGED <<jobCache, runs>>
  BY <1>2, <1>6
<1>7. CASE \E m \in JobTimes : Creates(m) /\ UNCHANGED jobCache
  BY <1>3, <1>7
<1>8. CASE \E t \in JobTimes : StartJob(t) /\ UNCHANGED <<jobCache, runs>>
  BY <1>4, <1>8
<1>9. CASE \E t \in JobTimes, state \in {"complete", "failed"} :
              FinishJob(t, state) /\ UNCHANGED <<jobCache, runs>>
  BY <1>5, <1>9
<1>10. CASE UNCHANGED <<jobs, runs>>
  BY <1>10
<1> QED
  BY <1>6, <1>7, <1>8, <1>9, <1>10, CalmSteps

\* Without Replace there is no deletion for it.
LEMMA NoReplaces ==
    ASSUME Undisturbed, AdmittedInv, NEW t \in JobTimes
    PROVE  ~ DeleteActive(t)
BY DEF Undisturbed, AdmittedInv, DeleteActive, Replacing

LEMMA JobSteps ==
    ASSUME Undisturbed, Inv, AdmittedInv, OnceInv, [Next]_vars
    PROVE  \/ \E x \in JobTimes : Deletes(x) /\ UNCHANGED <<jobCache, runs>>
           \/ \E m \in JobTimes : Creates(m) /\ UNCHANGED jobCache
           \/ \E t \in JobTimes : StartJob(t) /\ UNCHANGED <<jobCache, runs>>
           \/ \E t \in JobTimes, state \in {"complete", "failed"} :
                 FinishJob(t, state) /\ UNCHANGED <<jobCache, runs>>
           \/ UNCHANGED <<jobs, runs>>
<1>1. \A x \in JobTimes : ~ Replaces(x)
  BY NoReplaces DEF Replaces
<1>2. Calm /\ cron.phase = "live"
  BY DEF Undisturbed, OnceInv
<1> QED
  BY <1>1, <1>2, CalmSteps

LEMMA JobEffects ==
    ASSUME Undisturbed, Inv, AdmittedInv, OnceInv, [Next]_vars
    PROVE  \/ \E x \in JobTimes :
                 /\ Deletes(x) /\ UNCHANGED <<jobCache, runs>>
                 /\ ~ Exists(jobs', x)
                 /\ \A u \in JobTimes \ {x} : jobs'[u] = jobs[u]
           \/ \E m \in JobTimes :
                 /\ Creates(m) /\ UNCHANGED jobCache
                 /\ Exists(jobs', m)
                 /\ \A u \in JobTimes \ {m} : jobs'[u] = jobs[u] /\ runs'[u] = runs[u]
           \/ /\ UNCHANGED runs
              /\ \A u \in JobTimes : Exists(jobs', u) <=> Exists(jobs, u)
              /\ ~ CreateJob \/ UNCHANGED jobs
<1>1. \A x \in JobTimes : ~ Replaces(x)
  BY NoReplaces DEF Replaces
<1>2. Calm /\ cron.phase = "live"
  BY DEF Undisturbed, OnceInv
<1> QED
  BY <1>1, <1>2, CalmEffects

\* What is followed stays followed: the follower may go, but is then followed.
LEMMA FollowedStays ==
    ASSUME Undisturbed, Inv, AdmittedInv, OnceInv, [Next]_vars, NEW t \in JobTimes, Followed(t)
    PROVE  Followed(t)'
<1>1. JobTimes \subseteq Nat
  BY FireTimesAreInstants
<1>2. jobCache \in [JobTimes -> Jobs]
  BY DEF Inv, TypeOK
<1>3. \A u \in JobTimes : Exists(jobs, u) /\ Exists(jobCache, u) => Exists(jobCache', u)
  BY <1>2, CacheSteps DEF Exists
<1>4. CASE \E x \in JobTimes : /\ Deletes(x) /\ UNCHANGED <<jobCache, runs>>
                               /\ ~ Exists(jobs', x)
                               /\ \A u \in JobTimes \ {x} : jobs'[u] = jobs[u]
  <2>1. PICK x \in JobTimes : /\ Deletes(x) /\ UNCHANGED jobCache
                              /\ \A u \in JobTimes \ {x} : jobs'[u] = jobs[u]
    BY <1>4
  <2>2. Followed(x)
    <3>1. pc = "cleanup" /\ loc.old # <<>> /\ x = loc.old[1] /\ loc \in Locals
      BY <2>1 DEF Deletes, CleanUp, Inv, TypeOK
    <3>2. 1 \in DOMAIN loc.old
      BY <3>1 DEF Locals
    <3> QED
      BY <3>1, <3>2 DEF OnceInv
  <2>3. PICK w \in JobTimes : w > x /\ Exists(jobs, w) /\ Exists(jobCache, w)
    BY <2>2 DEF Followed, FollowedIn
  <2>4. PICK u \in JobTimes : u > t /\ Exists(jobs, u) /\ Exists(jobCache, u)
    BY DEF Followed, FollowedIn
  <2>5. PICK v \in JobTimes : v > t /\ v # x /\ Exists(jobs, v) /\ Exists(jobCache, v)
    <3>1. CASE u = x
      <4>1. w > t /\ w # x
        BY <1>1, <2>3, <2>4, <3>1
      <4> QED
        BY <2>3, <4>1
    <3>2. CASE u # x
      BY <2>4, <3>2
    <3> QED
      BY <3>1, <3>2
  <2>6. Exists(jobs', v) /\ Exists(jobCache', v)
    BY <2>1, <2>5 DEF Exists
  <2> QED
    BY <2>5, <2>6 DEF Followed, FollowedIn
<1>5. CASE \A u \in JobTimes : Exists(jobs, u) => Exists(jobs', u)
  BY <1>3, <1>5 DEF Followed, FollowedIn
<1>6. CASE \E m \in JobTimes : /\ Creates(m) /\ UNCHANGED jobCache
                               /\ Exists(jobs', m)
                               /\ \A u \in JobTimes \ {m} : jobs'[u] = jobs[u] /\ runs'[u] = runs[u]
  <2>1. \A u \in JobTimes : Exists(jobs, u) => Exists(jobs', u)
    BY <1>6 DEF Exists
  <2> QED
    BY <1>5, <2>1
<1> QED
  BY <1>4, <1>5, <1>6, JobEffects

\* A Job is created for a time that was not run: a Job of it that is gone
\* would have been passed.
LEMMA CreatedFirst ==
    ASSUME Inv, OnceInv, NEW m \in JobTimes, Creates(m)
    PROVE  runs[m] = 0
<1>1. pc = "create" /\ m = loc.missed /\ ~ Exists(jobs, m)
  BY DEF Creates, CreateJob
<1>2. SUFFICES ASSUME runs[m] # 0 PROVE FALSE
  OBVIOUS
<1>3. runs[m] \in 0..2
  BY DEF Inv, TypeOK
<1>4. Deleted(m)
  BY <1>1, <1>2, <1>3 DEF Deleted
<1>5. loc.last # Nil /\ m < loc.last
  BY <1>1, <1>4 DEF OnceInv, Passed, PassedIn
<1>6. m \in Nat
  BY FireTimesAreInstants
<1>7. m # Nil
  BY <1>6, NilIsNoInstant
<1>8. loc.last < m
  BY <1>1, <1>5, <1>7 DEF OnceInv
<1>9. loc.last \in Nat
  BY <1>1, <1>5, FireTimesAreInstants DEF Inv, LocOK, Ran
<1> QED
  BY <1>5, <1>6, <1>8, <1>9

LEMMA StrictJobsStep ==
    ASSUME Calm, Inv, cron.phase = "live", StrictJobs(jobs), StrictJobs(jobCache), [Next]_vars
    PROVE  StrictJobs(jobs)' /\ StrictJobs(jobCache)'
<1>1. jobs \in [JobTimes -> Jobs] /\ jobCache \in [JobTimes -> Jobs]
  BY DEF Inv, TypeOK
<1>2. StrictJobs(jobs) /\ StrictJobs(jobCache)
  OBVIOUS
<1>3. StrictJobs(jobs)'
  <2>1. CASE \E x \in JobTimes : Deletes(x) \/ Replaces(x)
    <3>1. PICK x \in JobTimes : jobs' = [jobs EXCEPT ![x] = NoJob]
      BY <2>1 DEF Deletes, Replaces
    <3>2. ~ Exists(jobs', x) /\ \A u \in JobTimes \ {x} : jobs'[u] = jobs[u]
      BY <1>1, <3>1 DEF Exists, NoJob
    <3> QED
      BY <1>2, <3>2 DEF StrictJobs, Exists, Finished
  <2>2. CASE \E m \in JobTimes : Creates(m)
    <3>1. PICK m \in JobTimes : jobs' = [jobs EXCEPT ![m] = ConstructJob(m)]
      BY <2>2 DEF Creates
    <3>2. jobs'[m] = ConstructJob(m) /\ \A u \in JobTimes \ {m} : jobs'[u] = jobs[u]
      BY <1>1, <3>1
    <3>3. /\ jobs'[m].owned /\ jobs'[m].sched = m /\ jobs'[m].start \in {Nil, m}
          /\ ~ Finished(jobs', m)
      BY <3>2 DEF ConstructJob, Finished
    <3> QED
      BY <1>2, <3>2, <3>3 DEF StrictJobs, Exists, Finished
  <2>3. ASSUME NEW t \in JobTimes, StartJob(t) PROVE StrictJobs(jobs)'
    <3>1. jobs' = [jobs EXCEPT ![t].start = t] /\ jobs[t].state = "active"
      BY <2>3 DEF StartJob, Calm
    <3>2. jobs'[t] = [jobs[t] EXCEPT !.start = t] /\ \A u \in JobTimes \ {t} : jobs'[u] = jobs[u]
      BY <1>1, <3>1
    <3>3. jobs[t].owned /\ jobs[t].sched = t
      BY <1>2, <3>1 DEF StrictJobs, Exists
    <3>4. jobs'[t].owned /\ jobs'[t].sched = t /\ jobs'[t].start = t
      BY <1>1, <3>2, <3>3 DEF Jobs
    <3>5. ASSUME NEW u \in JobTimes, Exists(jobs', u)
          PROVE  /\ jobs'[u].owned /\ jobs'[u].sched = u /\ jobs'[u].start \in {Nil, u}
                 /\ Finished(jobs', u) => jobs'[u].start = u
      <4>1. CASE u = t
        BY <3>4, <4>1
      <4>2. CASE u # t
        BY <1>2, <3>2, <3>5, <4>2 DEF StrictJobs, Exists, Finished
      <4> QED
        BY <4>1, <4>2
    <3> QED
      BY <3>5 DEF StrictJobs
  <2>4. ASSUME NEW t \in JobTimes, NEW state \in {"complete", "failed"}, FinishJob(t, state)
        PROVE  StrictJobs(jobs)'
    <3>1. /\ jobs' = [jobs EXCEPT ![t].state = state]
          /\ jobs[t].state = "active" /\ jobs[t].start # Nil
      BY <2>4 DEF FinishJob
    <3>2. jobs'[t] = [jobs[t] EXCEPT !.state = state] /\ \A u \in JobTimes \ {t} : jobs'[u] = jobs[u]
      BY <1>1, <3>1
    <3>3. /\ jobs'[t].owned = jobs[t].owned /\ jobs'[t].sched = jobs[t].sched
          /\ jobs'[t].start = jobs[t].start
      BY <1>1, <3>2 DEF Jobs
    <3>4. Exists(jobs, t)
      BY <3>1 DEF Exists
    <3> QED
      BY <1>2, <3>1, <3>2, <3>3, <3>4 DEF StrictJobs, Exists, Finished
  <2>5. CASE UNCHANGED jobs
    BY <1>2, <2>5 DEF StrictJobs, Exists, Finished
  <2> QED
    BY <2>1, <2>2, <2>3, <2>4, <2>5, CalmSteps
<1>4. StrictJobs(jobCache)'
  <2>1. CASE UNCHANGED jobCache
    BY <1>2, <2>1 DEF StrictJobs, Exists, Finished
  <2>2. CASE \E t \in JobTimes : jobCache' = [jobCache EXCEPT ![t] = jobs[t]]
    <3>1. \A u \in JobTimes : jobCache'[u] \in {jobCache[u], jobs[u]}
      BY <1>1, <2>2
    <3> QED
      BY <1>2, <3>1 DEF StrictJobs, Exists, Finished
  <2>3. CASE jobCache' = jobs
    BY <1>2, <2>3 DEF StrictJobs, Exists, Finished
  <2> QED
    BY <2>1, <2>2, <2>3, CacheSteps
<1> QED
  BY <1>3, <1>4

LEMMA StaysLive ==
    ASSUME Calm, Inv, cron.phase = "live", [Next]_vars
    PROVE  cron'.phase = "live"
<1>1. cron \in CronStates
  BY DEF Inv, TypeOK
<1>2. ~ DeleteCronJob
  BY NotTaken
<1>3. ReconcileStep => cron' = cron \/ cron' = [cron EXCEPT !.last = loc.last, !.active = loc.active]
  BY DEF ReconcileStep, Load, UpdateStatus, CleanUp, GetNextSchedule, ComputeRequeue,
         CheckDeadline, DeleteActive, CreateJob, clusterVars
<1>4. ManagerStep \/ ClusterStep \/ UNCHANGED vars => cron' = cron
  BY DEF ManagerStep, SyncCron, SyncJob, FireTimer, Resync, Restart,
         ClusterStep, Tick, StartJob, FinishJob, CollectJob, vars, clusterVars
<1>5. UserStep => cron' = cron \/ \E c \in Admitted(Submitted) : cron' = [cron EXCEPT !.obj = c]
  BY <1>2 DEF UserStep, EditCronJob, DeleteJob, AnnotateJob
<1> QED
  BY <1>1, <1>3, <1>4, <1>5 DEF Next, CronStates

\* A time that was not gone before goes by a deletion.
LEMMA DeletedBefore ==
    ASSUME Undisturbed, Inv, AdmittedInv, OnceInv, [Next]_vars, NEW t \in JobTimes, Deleted(t)'
    PROVE  Deleted(t) \/ Deletes(t)
<1>1. CASE \E x \in JobTimes : /\ Deletes(x) /\ UNCHANGED <<jobCache, runs>>
                               /\ ~ Exists(jobs', x)
                               /\ \A u \in JobTimes \ {x} : jobs'[u] = jobs[u]
  BY <1>1 DEF Deleted, Exists
<1>2. CASE \E m \in JobTimes : /\ Creates(m) /\ UNCHANGED jobCache
                               /\ Exists(jobs', m)
                               /\ \A u \in JobTimes \ {m} : jobs'[u] = jobs[u] /\ runs'[u] = runs[u]
  BY <1>2 DEF Deleted, Exists
<1>3. CASE UNCHANGED runs /\ \A u \in JobTimes : Exists(jobs', u) <=> Exists(jobs, u)
  BY <1>3 DEF Deleted
<1> QED
  BY <1>1, <1>2, <1>3, JobEffects

\* What the list in the hand of Reconcile has to say, when it is read.
LEMMA OnceLoad ==
    ASSUME Undisturbed, Inv, AdmittedInv, OnceInv, Load, pc' # "idle"
    PROVE  /\ \A i \in DOMAIN loc'.old :
                 /\ FollowedIn(jobs', jobCache', loc'.old[i])
                 /\ PassedIn(loc'.last, loc'.old[i])
           /\ \A t \in JobTimes : Deleted(t)' => Passed(t)'
           /\ loc'.missed = Nil
<1>1. /\ loc'.last = MostRecentTime(jobCache) /\ loc'.missed = Nil
      /\ UNCHANGED <<jobs, jobCache, runs>>
  BY DEF Load, Return, ReturnError, clusterVars, cacheVars
<1>2. jobCache \in [JobTimes -> Jobs] /\ JobsOK(jobCache) /\ TypeOK
  BY DEF Inv, TypeOK
<1>3. StrictJobs(jobCache)
  BY DEF OnceInv
<1>4. JobTimes \subseteq Nat
  BY FireTimesAreInstants
<1>5. ASSUME NEW v \in JobTimes, Exists(jobCache, v)
      PROVE  MostRecentTime(jobCache) # Nil /\ v <= MostRecentTime(jobCache)
  <2>1. v \in Listed(jobCache) /\ jobCache[v].sched = v
    BY <1>3, <1>5 DEF StrictJobs, Listed
  <2> QED
    BY <1>2, <2>1, MostRecentTimeIsLast
<1>6. MostRecentTime(jobCache) # Nil => MostRecentTime(jobCache) \in Nat
  BY <1>2, <1>4, MostRecentTimeRan DEF Ran
<1>7. ASSUME NEW t \in JobTimes, NEW v \in JobTimes, t < v, Exists(jobCache, v)
      PROVE  Passed(t)'
  <2>1. MostRecentTime(jobCache) # Nil /\ v <= MostRecentTime(jobCache)
    BY <1>5, <1>7
  <2>2. t < MostRecentTime(jobCache)
    BY <1>4, <1>6, <1>7, <2>1
  <2> QED
    BY <1>1, <2>1, <2>2 DEF Passed, PassedIn
<1>8. ASSUME NEW t \in JobTimes, Deleted(t)' PROVE Passed(t)'
  <2>1. Deleted(t)
    BY <1>1, <1>8 DEF Deleted, Exists
  <2>2. PICK u \in JobTimes : u > t /\ Exists(jobCache, u)
    BY <2>1 DEF OnceInv, Followed, FollowedIn
  <2>3. t < u
    BY <1>4, <2>2
  <2> QED
    BY <1>7, <2>2, <2>3
<1>9. ASSUME NEW i \in DOMAIN loc'.old
      PROVE  FollowedIn(jobs', jobCache', loc'.old[i]) /\ PassedIn(loc'.last, loc'.old[i])
  <2> DEFINE x == loc'.old[i]
  <2>1. PICK state \in {"failed", "complete"} :
           HasLater(InState(jobCache, state), x,
                    IF state = "failed" THEN cronCache.obj.failed ELSE cronCache.obj.success)
    BY <1>3, LoadedOld
  <2> DEFINE limit == IF state = "failed" THEN cronCache.obj.failed ELSE cronCache.obj.success
             S == InState(jobCache, state)
             T == {u \in S : u > x}
  <2>2. x \in S /\ limit \in Nat /\ limit <= Cardinality(T)
    BY <2>1 DEF HasLater
  <2>3. limit # 0
    BY DEF Undisturbed, Calm, AdmittedInv
  <2>4. S \subseteq JobTimes /\ \A u \in S : Exists(jobCache, u)
    BY DEF InState, Listed
  <2> HIDE DEF x, limit, S
  <2>5. T # {}
    <3>1. SUFFICES ASSUME T = {} PROVE FALSE
      OBVIOUS
    <3>2. Cardinality(T) = 0
      BY <3>1, FS_EmptySet
    <3> QED
      BY <2>2, <2>3, <3>2
  <2>6. PICK v \in JobTimes : v > x /\ Exists(jobCache, v)
    BY <2>4, <2>5
  <2>7. x \in JobTimes /\ x < v
    BY <1>4, <2>2, <2>4, <2>6
  <2>8. Followed(x)
    <3>1. CASE Exists(jobs, v)
      BY <2>6, <3>1 DEF Followed, FollowedIn
    <3>2. CASE ~ Exists(jobs, v)
      <4>1. runs[v] > 0
        BY <1>2, <2>6 DEF JobsOK, Ran
      <4>2. Followed(v)
        BY <3>2, <4>1 DEF OnceInv, Deleted
      <4>3. PICK u \in JobTimes : u > v /\ Exists(jobs, u) /\ Exists(jobCache, u)
        BY <4>2 DEF Followed, FollowedIn
      <4>4. u > x
        BY <1>4, <2>7, <4>3
      <4> QED
        BY <4>3, <4>4 DEF Followed, FollowedIn
    <3> QED
      BY <3>1, <3>2
  <2>9. FollowedIn(jobs', jobCache', x)
    BY <1>1, <2>8 DEF Followed
  <2>10. PassedIn(loc'.last, x)
    BY <1>7, <2>6, <2>7 DEF Passed
  <2> QED
    BY <2>9, <2>10 DEF x
<1> QED
  BY <1>1, <1>8, <1>9

\* Between two readings the list only gets shorter.
LEMMA OldOnlyShrinks ==
    ASSUME Inv, [Next]_vars, ~ Load, pc' # "idle", NEW i \in DOMAIN loc'.old
    PROVE  pc # "idle" /\ \E j \in DOMAIN loc.old : loc'.old[i] = loc.old[j]
<1>1. pc # "idle" /\ loc \in Locals
  BY LocalsKept DEF Kept, Inv, TypeOK
<1>2. loc.old \in Seq(JobTimes)
  BY <1>1 DEF Locals
<1>3. CASE CleanUp
  <2>1. loc'.old = Tail(loc.old) /\ loc.old # <<>>
    BY <1>1, <1>3 DEF CleanUp, Locals
  <2>2. i + 1 \in DOMAIN loc.old /\ loc'.old[i] = loc.old[i + 1]
    BY <1>2, <2>1
  <2> QED
    BY <1>1, <2>2
<1>4. CASE ~ CleanUp
  BY <1>1, <1>4, LocalsKept DEF Kept
<1> QED
  BY <1>3, <1>4

LEMMA OnceStep ==
    ASSUME Undisturbed, Inv, AdmittedInv, OnceInv, [Next]_vars
    PROVE  OnceInv'
<1>1. cron'.phase = "live"
  BY StaysLive DEF Undisturbed, OnceInv
<1>2. StrictJobs(jobs)' /\ StrictJobs(jobCache)'
  BY StrictJobsStep DEF Undisturbed, OnceInv
<1>3. ASSUME NEW x \in JobTimes, Deletes(x)
      PROVE  pc # "idle" /\ Followed(x) /\ Passed(x)
  <2>1. pc = "cleanup" /\ loc.old # <<>> /\ x = loc.old[1] /\ loc \in Locals
    BY <1>3 DEF Deletes, CleanUp, Inv, TypeOK
  <2>2. 1 \in DOMAIN loc.old
    BY <2>1 DEF Locals
  <2> QED
    BY <2>1, <2>2 DEF OnceInv
<1>4. ASSUME NEW t \in JobTimes, Deleted(t)' PROVE Followed(t)'
  <2>1. Followed(t)
    BY <1>3, <1>4, DeletedBefore DEF OnceInv
  <2> QED
    BY <2>1, FollowedStays
<1>5. ASSUME pc' # "idle"
      PROVE  /\ \A i \in DOMAIN loc'.old :
                 /\ FollowedIn(jobs', jobCache', loc'.old[i])
                 /\ PassedIn(loc'.last, loc'.old[i])
             /\ \A t \in JobTimes : Deleted(t)' => Passed(t)'
             /\ loc'.missed # Nil /\ loc'.last # Nil => loc'.last < loc'.missed
  <2>1. CASE Load
    BY <1>5, <2>1, OnceLoad
  <2>2. CASE ~ Load
    <3>1. pc # "idle" /\ loc'.last = loc.last /\ loc \in Locals
      BY <1>5, <2>2, LocalsKept DEF Kept, Inv, TypeOK
    <3>2. \A t : Passed(t) => Passed(t)'
      BY <3>1 DEF Passed, PassedIn
    <3>3. ASSUME NEW t \in JobTimes, Deleted(t)' PROVE Passed(t)'
      BY <1>3, <3>1, <3>2, <3>3, DeletedBefore DEF OnceInv
    <3>4. loc.old \in Seq(JobTimes)
      BY <3>1 DEF Locals
    <3>5. ASSUME NEW i \in DOMAIN loc'.old PROVE \E j \in DOMAIN loc.old : loc'.old[i] = loc.old[j]
      BY <1>5, <2>2, <3>5, OldOnlyShrinks
    <3>6. ASSUME NEW i \in DOMAIN loc'.old
          PROVE  FollowedIn(jobs', jobCache', loc'.old[i]) /\ PassedIn(loc'.last, loc'.old[i])
      <4>1. PICK j \in DOMAIN loc.old : loc'.old[i] = loc.old[j]
        BY <3>5
      <4>2. loc.old[j] \in JobTimes /\ Followed(loc.old[j]) /\ Passed(loc.old[j])
        BY <3>1, <3>4 DEF OnceInv
      <4> DEFINE x == loc.old[j]
      <4> HIDE DEF x
      <4>3. x \in JobTimes /\ Followed(x) /\ Passed(x) /\ x = loc'.old[i]
        BY <4>1, <4>2 DEF x
      <4>4. \E u \in JobTimes : u > x /\ Exists(jobs', u) /\ Exists(jobCache', u)
        <5>1. PICK y \in JobTimes : y = x
          BY <4>3
        <5>2. Followed(y)'
          BY <4>3, <5>1, FollowedStays
        <5> QED
          BY <5>1, <5>2 DEF Followed, FollowedIn
      <4>5. loc'.last # Nil /\ x < loc'.last
        BY <3>1, <4>3 DEF Passed, PassedIn
      <4> QED
        BY <4>3, <4>4, <4>5 DEF Followed, FollowedIn, Passed, PassedIn
    <3>7. loc'.missed # Nil /\ loc'.last # Nil => loc'.last < loc'.missed
      <4>1. CASE GetNextSchedule
        <5>1. /\ ParseStandard(loc.obj.schedule)
              /\ loc' = [loc EXCEPT !.missed = LastMissed(loc.obj, loc.last, creation, now),
                                    !.next = NextFire(loc.obj.schedule, now)]
          BY <1>5, <4>1 DEF GetNextSchedule, Return
        <5>2. loc'.missed = LastMissed(loc.obj, loc.last, creation, now)
          BY <3>1, <5>1 DEF Locals
        <5>3. loc.obj \in CronJobs /\ loc.last \in NatOrNil /\ creation \in Nat /\ now \in Nat
          BY <3>1 DEF Locals, Inv, TypeOK
        <5> QED
          BY <3>1, <5>1, <5>2, <5>3, LastMissedAfterLast DEF NatOrNil
      <4>2. CASE ~ GetNextSchedule
        BY <1>5, <2>2, <3>1, <4>2, LocalsKept DEF Kept, OnceInv
      <4> QED
        BY <4>1, <4>2
    <3> QED
      BY <3>3, <3>6, <3>7
  <2> QED
    BY <2>1, <2>2
<1>6. NoDoubleRun'
  <2>1. \A t \in JobTimes : runs[t] <= 1
    BY DEF OnceInv, NoDoubleRun
  <2>2. CASE UNCHANGED runs
    BY <2>1, <2>2 DEF NoDoubleRun
  <2>3. ASSUME NEW m \in JobTimes, Creates(m),
               \A u \in JobTimes \ {m} : jobs'[u] = jobs[u] /\ runs'[u] = runs[u]
        PROVE  NoDoubleRun'
    <3>1. runs[m] = 0
      BY <2>3, CreatedFirst
    <3>2. runs'[m] = 1
      BY <2>3, <3>1 DEF Creates, Inv, TypeOK
    <3> QED
      BY <2>1, <2>3, <3>2 DEF NoDoubleRun
  <2> QED
    BY <2>2, <2>3, JobEffects
<1> QED
  BY <1>1, <1>2, <1>4, <1>5, <1>6 DEF OnceInv, Followed, Passed

\* Under those conditions a scheduled time is run at most once, for any
\* schedules and deadlines, however many API calls fail, whenever the manager
\* restarts and however far the caches lag behind.
THEOREM RunsAtMostOnce ==
    ASSUME Undisturbed
    PROVE  Spec => []NoDoubleRun
<1>1. Inv /\ AdmittedInv /\ [Next]_vars => AdmittedInv'
  BY AdmittedStep
<1>2. Inv /\ AdmittedInv /\ OnceInv /\ [Next]_vars => OnceInv'
  BY OnceStep
<1>3. OnceInv => NoDoubleRun
  BY DEF OnceInv
<1> QED
  BY <1>1, <1>2, <1>3, AdmittedInit, OnceInit, Invariance, PTL DEF Spec

-----------------------------------------------------------------------------
(* At most one run, with one schedule                                      *)

\* Edits leave the schedule alone.  Then the policy does not matter: what is
\* missed is always the latest time that is due, and that never goes back.
OneSchedule == \A c, d \in Admitted(Submitted) : c.schedule = d.schedule

Fires ==
    {f \in JobTimes : \E c \in Admitted(Submitted) :
                         ParseStandard(c.schedule) /\ f \in FireTimes[c.schedule]}

\* At time n a later time than t is due.
SupersededAt(n, t) == \E f \in Fires : t < f /\ f <= n
Superseded(t) == SupersededAt(now, t)

\* What is gone was superseded, and so is what clean-up or Replace is about to
\* delete; the run in hand comes after it.
LatestInv ==
    /\ cron.phase = "live"
    /\ StrictJobs(jobs)
    /\ StrictJobs(jobCache)
    /\ \A t \in JobTimes : runs[t] > 0 => t \in Fires
    /\ \A t \in JobTimes : Deleted(t) => Superseded(t)
    /\ pc # "idle" =>
          /\ \A i \in DOMAIN loc.old : Superseded(loc.old[i])
          /\ \A t \in loc.active : loc.last # Nil /\ t <= loc.last
          /\ pc \in {"status", "cleanup"} => loc.missed = Nil
          /\ loc.missed # Nil =>
                /\ loc.missed \in Fires
                /\ loc.last # Nil => loc.last < loc.missed
                /\ \A t \in JobTimes : Deleted(t) => t < loc.missed
    /\ NoDoubleRun

LEMMA LatestInit == Init => LatestInv
BY DEF Init, LatestInv, StrictJobs, Exists, NoJob, Deleted, NoDoubleRun

\* lastMissed is the latest fire that is due.
LEMMA LastMissedLatest ==
    ASSUME NEW c \in CronJobs, ParseStandard(c.schedule),
           NEW last \in NatOrNil, NEW created \in Nat, NEW t \in Nat,
           LastMissed(c, last, created, t) # Nil
    PROVE  /\ LastMissed(c, last, created, t) \in FireTimes[c.schedule]
           /\ \A f \in FireTimes[c.schedule] : f <= t => f <= LastMissed(c, last, created, t)
<1> DEFINE missed == MissedFires(c, last, created, t)
           earliest == EarliestTime(c, last, created, t)
<1>1. missed \in SUBSET Nat /\ FireTimes[c.schedule] \subseteq Nat /\ missed \subseteq FireTimes[c.schedule]
  BY FireTimesAreInstants, WebhookAssumption DEF MissedFires, ParseStandard
<1>2. \A f \in missed : earliest < f /\ f <= t
  BY DEF MissedFires
<1>3. missed # {} /\ LastMissed(c, last, created, t) = Max(missed)
  BY DEF LastMissed
<1>4. Max(missed) \in missed /\ \A f \in missed : f <= Max(missed)
  BY <1>1, <1>2, <1>3, MaxOfInstants
<1>5. earliest \in Int
  BY NilIsNoInstant DEF EarliestTime, CronJobs, NatOrNil
<1>6. ASSUME NEW f \in FireTimes[c.schedule], f <= t PROVE f <= Max(missed)
  <2>1. CASE earliest < f
    <3>1. f \in missed
      BY <1>6, <2>1 DEF MissedFires
    <3> QED
      BY <1>4, <3>1
  <2>2. CASE ~ (earliest < f)
    <3>1. f \in Nat /\ Max(missed) \in Nat /\ earliest < Max(missed)
      BY <1>1, <1>2, <1>4
    <3> HIDE DEF missed, earliest
    <3> QED
      BY <1>5, <2>2, <3>1
  <2> QED
    BY <2>1, <2>2
<1> QED
  BY <1>1, <1>3, <1>4, <1>6

\* What Reconcile reads from the cache: old Jobs are superseded by the later
\* ones on the list, active ones are not after the last.
LEMMA LatestLoad ==
    ASSUME Calm, Inv, AdmittedInv, LatestInv, Load, pc' # "idle"
    PROVE  /\ \A i \in DOMAIN loc'.old : SupersededAt(now', loc'.old[i])
           /\ \A t \in loc'.active : loc'.last # Nil /\ t <= loc'.last
           /\ loc'.missed = Nil
<1>1. /\ now' = now /\ loc'.last = MostRecentTime(jobCache)
      /\ loc'.active = InState(jobCache, "active") /\ loc'.missed = Nil
  BY DEF Load, Return, ReturnError
<1>2. jobCache \in [JobTimes -> Jobs] /\ JobsOK(jobCache) /\ TypeOK
  BY DEF Inv, TypeOK
<1>3. StrictJobs(jobCache)
  BY DEF LatestInv
<1>4. JobTimes \subseteq Nat
  BY FireTimesAreInstants
<1>5. ASSUME NEW t \in loc'.active PROVE loc'.last # Nil /\ t <= loc'.last
  <2>1. t \in Listed(jobCache) /\ jobCache[t].sched = t
    BY <1>1, <1>3 DEF InState, Listed, StrictJobs
  <2> QED
    BY <1>1, <1>2, <2>1, MostRecentTimeIsLast
<1>6. ASSUME NEW i \in DOMAIN loc'.old PROVE SupersededAt(now', loc'.old[i])
  <2> DEFINE x == loc'.old[i]
  <2>1. PICK state \in {"failed", "complete"} :
           HasLater(InState(jobCache, state), x,
                    IF state = "failed" THEN cronCache.obj.failed ELSE cronCache.obj.success)
    BY <1>3, LoadedOld
  <2> DEFINE limit == IF state = "failed" THEN cronCache.obj.failed ELSE cronCache.obj.success
             S == InState(jobCache, state)
             T == {u \in S : u > x}
  <2>2. x \in S /\ limit \in Nat /\ limit <= Cardinality(T)
    BY <2>1 DEF HasLater
  <2>3. limit # 0
    BY DEF Calm, AdmittedInv
  <2>4. S \subseteq JobTimes /\ \A u \in S : Exists(jobCache, u)
    BY DEF InState, Listed
  <2> HIDE DEF x, limit, S
  <2>5. T # {}
    <3>1. SUFFICES ASSUME T = {} PROVE FALSE
      OBVIOUS
    <3>2. Cardinality(T) = 0
      BY <3>1, FS_EmptySet
    <3> QED
      BY <2>2, <2>3, <3>2
  <2>6. PICK v \in JobTimes : v > x /\ Exists(jobCache, v)
    BY <2>4, <2>5
  <2>7. v \in Fires /\ v <= now
    BY <1>2, <2>6 DEF JobsOK, Ran, LatestInv
  <2>8. x \in Nat /\ v \in Nat
    BY <1>4, <2>2, <2>4
  <2>9. x < v
    BY <2>6, <2>8
  <2>10. SupersededAt(now, x)
    BY <2>7, <2>9 DEF SupersededAt
  <2> QED
    BY <1>1, <2>10 DEF x
<1> QED
  BY <1>1, <1>5, <1>6

\* What is deleted, and when.
LEMMA LatestRemoved ==
    ASSUME Inv, LatestInv, NEW x \in JobTimes, Deletes(x) \/ Replaces(x)
    PROVE  Superseded(x) /\ (loc.missed # Nil => x < loc.missed)
<1>1. CASE Deletes(x)
  <2>1. pc = "cleanup" /\ loc.old # <<>> /\ x = loc.old[1] /\ loc \in Locals
    BY <1>1 DEF Deletes, CleanUp, Inv, TypeOK
  <2>2. 1 \in DOMAIN loc.old
    BY <2>1 DEF Locals
  <2> QED
    BY <2>1, <2>2 DEF LatestInv
<1>2. CASE Replaces(x)
  <2>1. pc = "create" /\ x \in loc.active
    BY <1>2 DEF Replaces, DeleteActive
  <2>2. loc.missed \in JobTimes
    BY <2>1 DEF Inv, TypeOK
  <2>3. loc.missed \in Nat /\ loc.missed # Nil /\ x \in Nat
    <3>1. JobTimes \subseteq Nat /\ Nil \notin Nat
      BY FireTimesAreInstants, NilIsNoInstant
    <3> QED
      BY <2>2, <3>1
  <2>4. loc.last # Nil /\ x <= loc.last /\ loc.last < loc.missed /\ loc.missed \in Fires
    BY <2>1, <2>3 DEF LatestInv
  <2>5. loc.last \in Nat /\ loc.missed <= now
    BY <2>1, <2>3, <2>4, FireTimesAreInstants DEF Inv, LocOK, Ran
  <2>6. x < loc.missed
    BY <2>3, <2>4, <2>5
  <2> QED
    BY <2>4, <2>5, <2>6 DEF Superseded, SupersededAt
<1> QED
  BY <1>1, <1>2

LEMMA LatestCreated ==
    ASSUME Inv, LatestInv, NEW m \in JobTimes, Creates(m)
    PROVE  runs[m] = 0 /\ m \in Fires
<1>1. pc = "create" /\ m = loc.missed /\ ~ Exists(jobs, m)
  BY DEF Creates, CreateJob
<1>2. m \in Nat /\ m # Nil
  BY FireTimesAreInstants, NilIsNoInstant
<1>3. m \in Fires /\ (Deleted(m) => m < m)
  BY <1>1, <1>2 DEF LatestInv
<1>4. runs[m] \in 0..2
  BY DEF Inv, TypeOK
<1> QED
  BY <1>1, <1>2, <1>3, <1>4 DEF Deleted

LEMMA LatestStep ==
    ASSUME Calm, OneSchedule, Inv, AdmittedInv, LatestInv, [Next]_vars
    PROVE  LatestInv'
<1>1. cron.phase = "live" /\ StrictJobs(jobs) /\ StrictJobs(jobCache)
  BY DEF LatestInv
<1>2. cron'.phase = "live" /\ StrictJobs(jobs)' /\ StrictJobs(jobCache)'
  BY <1>1, StaysLive, StrictJobsStep
<1>3. \A t : Superseded(t) => SupersededAt(now', t)
  <2>1. now \in Nat /\ (now' = now \/ now' = now + 1)
    BY DEF Inv, TypeOK, Next, ReconcileStep, Load, UpdateStatus, CleanUp, GetNextSchedule,
           ComputeRequeue, CheckDeadline, DeleteActive, CreateJob, ManagerStep, SyncCron, SyncJob,
           FireTimer, Resync, Restart, ClusterStep, Tick, StartJob, FinishJob, CollectJob, UserStep,
           EditCronJob, DeleteCronJob, DeleteJob, AnnotateJob, Edit, vars
  <2>2. Fires \subseteq Nat
    BY FireTimesAreInstants DEF Fires
  <2> QED
    BY <2>1, <2>2 DEF Superseded, SupersededAt
<1>4. runs \in [JobTimes -> 0..2]
  BY DEF Inv, TypeOK
<1>5. ASSUME NEW m \in JobTimes, Creates(m) PROVE runs[m] = 0 /\ runs'[m] = 1 /\ m \in Fires
  <2>1. runs[m] = 0 /\ m \in Fires
    BY <1>5, LatestCreated
  <2>2. runs'[m] = 1
    BY <1>4, <1>5, <2>1 DEF Creates
  <2> QED
    BY <2>1, <2>2
<1>6. ASSUME NEW t \in JobTimes, Deleted(t)' PROVE Deleted(t) \/ Deletes(t) \/ Replaces(t)
  BY <1>1, <1>6, CalmEffects DEF Deleted, Exists
<1>7. ASSUME NEW t \in JobTimes, runs'[t] > 0 PROVE t \in Fires
  <2>1. runs'[t] = runs[t] \/ Creates(t)
    BY <1>1, CalmEffects
  <2> QED
    BY <1>5, <1>7, <2>1 DEF LatestInv
<1>8. ASSUME NEW t \in JobTimes, Deleted(t)' PROVE SupersededAt(now', t)
  BY <1>3, <1>6, <1>8, LatestRemoved DEF LatestInv
<1>9. ASSUME pc' # "idle"
      PROVE  /\ \A i \in DOMAIN loc'.old : SupersededAt(now', loc'.old[i])
             /\ \A t \in loc'.active : loc'.last # Nil /\ t <= loc'.last
             /\ pc' \in {"status", "cleanup"} => loc'.missed = Nil
             /\ loc'.missed # Nil =>
                   /\ loc'.missed \in Fires
                   /\ loc'.last # Nil => loc'.last < loc'.missed
                   /\ \A t \in JobTimes : Deleted(t)' => t < loc'.missed
  <2>1. CASE Load
    BY <1>9, <2>1, LatestLoad
  <2>2. CASE ~ Load
    <3>1. pc # "idle" /\ loc'.last = loc.last /\ loc \in Locals
      BY <1>9, <2>2, LocalsKept DEF Kept, Inv, TypeOK
    <3>2. ASSUME NEW i \in DOMAIN loc'.old PROVE SupersededAt(now', loc'.old[i])
      <4>1. PICK j \in DOMAIN loc.old : loc'.old[i] = loc.old[j]
        BY <1>9, <2>2, OldOnlyShrinks
      <4> QED
        BY <1>3, <3>1, <4>1 DEF LatestInv
    <3>3. loc'.active \subseteq loc.active
      <4>1. ASSUME NEW t \in JobTimes, DeleteActive(t) PROVE loc'.active \subseteq loc.active
        BY <1>9, <3>1, <4>1 DEF DeleteActive, ReturnError, Return, Locals
      <4> QED
        BY <1>9, <2>2, <4>1, LocalsKept DEF Kept
    <3>4. CASE GetNextSchedule
      <4>1. /\ ParseStandard(loc.obj.schedule) /\ pc' = "requeue"
            /\ loc' = [loc EXCEPT !.missed = LastMissed(loc.obj, loc.last, creation, now),
                                  !.next = NextFire(loc.obj.schedule, now)]
            /\ UNCHANGED <<jobs, runs>>
        BY <1>9, <3>4 DEF GetNextSchedule, Return, clusterVars
      <4>2. loc'.missed = LastMissed(loc.obj, loc.last, creation, now)
        BY <3>1, <4>1 DEF Locals
      <4>3. loc.obj \in CronJobs /\ loc.last \in NatOrNil /\ creation \in Nat /\ now \in Nat
        BY <3>1 DEF Locals, Inv, TypeOK
      <4>4. loc.obj \in Admitted(Submitted)
        BY <3>1 DEF AdmittedInv
      <4>5. Fires = FireTimes[loc.obj.schedule]
        BY <4>1, <4>4 DEF Fires, OneSchedule, JobTimes, ParseStandard
      <4>6. ASSUME loc'.missed # Nil
            PROVE  /\ loc'.missed \in Fires
                   /\ loc'.last # Nil => loc'.last < loc'.missed
                   /\ \A t \in JobTimes : Deleted(t)' => t < loc'.missed
        <5>1. loc'.missed \in Fires /\ \A f \in Fires : f <= now => f <= loc'.missed
          BY <4>1, <4>2, <4>3, <4>5, <4>6, LastMissedLatest
        <5>2. loc'.last # Nil => loc'.last < loc'.missed
          BY <3>1, <4>1, <4>2, <4>3, <4>6, LastMissedAfterLast DEF NatOrNil
        <5>3. ASSUME NEW t \in JobTimes, Deleted(t)' PROVE t < loc'.missed
          <6>1. Superseded(t)
            BY <4>1, <5>3 DEF Deleted, Exists, LatestInv
          <6>2. PICK f \in Fires : t < f /\ f <= now
            BY <6>1 DEF Superseded, SupersededAt
          <6>3. Fires \subseteq Nat /\ JobTimes \subseteq Nat
            BY FireTimesAreInstants DEF Fires
          <6>4. f <= loc'.missed
            BY <5>1, <6>2
          <6>5. t \in Nat /\ f \in Nat /\ loc'.missed \in Nat
            BY <5>1, <6>3
          <6> QED
            BY <6>2, <6>4, <6>5
        <5> QED
          BY <5>1, <5>2, <5>3
      <4> QED
        BY <3>1, <3>2, <3>3, <4>1, <4>6 DEF LatestInv
    <3>5. CASE ~ GetNextSchedule
      <4>1. loc'.missed = loc.missed
        BY <1>9, <2>2, <3>5, LocalsKept DEF Kept
      <4>2. pc' \in {"status", "cleanup"} => pc \in {"status", "cleanup"}
        BY <2>2, <3>5 DEF Next, ReconcileStep, UpdateStatus, CleanUp,
           ComputeRequeue, CheckDeadline, DeleteActive, CreateJob, ReturnScheduled, ReturnError, Return,
           ManagerStep, SyncCron, SyncJob, FireTimer, Resync, Restart, ClusterStep, Tick, StartJob,
           FinishJob, CollectJob, UserStep, EditCronJob, DeleteCronJob, DeleteJob, AnnotateJob, Edit,
           vars, localVars
      <4>3. ASSUME loc.missed # Nil, NEW t \in JobTimes, Deleted(t)' PROVE t < loc.missed
        BY <1>6, <3>1, <4>3, LatestRemoved DEF LatestInv
      <4> QED
        BY <3>1, <3>2, <3>3, <4>1, <4>2, <4>3 DEF LatestInv
    <3> QED
      BY <3>4, <3>5
  <2> QED
    BY <2>1, <2>2
<1>10. NoDoubleRun'
  <2>1. \A t \in JobTimes : runs'[t] = runs[t] \/ Creates(t)
    BY <1>1, CalmEffects
  <2> QED
    BY <1>5, <2>1 DEF LatestInv, NoDoubleRun
<1> QED
  BY <1>2, <1>7, <1>8, <1>9, <1>10 DEF LatestInv, Superseded

\* With one schedule a time is run at most once under Replace too, though its
\* Job may have been deleted for a creation that failed.
THEOREM RunsAtMostOnceOnOneSchedule ==
    ASSUME Calm, OneSchedule
    PROVE  Spec => []NoDoubleRun
<1>1. Inv /\ AdmittedInv /\ [Next]_vars => AdmittedInv'
  BY AdmittedStep
<1>2. Inv /\ AdmittedInv /\ LatestInv /\ [Next]_vars => LatestInv'
  BY LatestStep
<1>3. LatestInv => NoDoubleRun
  BY DEF LatestInv
<1> QED
  BY <1>1, <1>2, <1>3, Invariance, AdmittedInit, LatestInit, PTL DEF Spec

-----------------------------------------------------------------------------
(* The history that clean-up leaves                                        *)

\* Edits do not change the history limits: a Job may be gone because of the
\* limit it was deleted under, and a higher one would miss it.
SameLimits ==
    \A c, d \in Admitted(Submitted) : c.success = d.success /\ c.failed = d.failed

LimitOf(c, state) == IF state = "failed" THEN c.failed ELSE c.success

\* The later Jobs with a result, which the cache has too.
LaterIn(js, cached, state, t) ==
    {u \in JobTimes : u > t /\ js[u].state = state /\ cached[u].state = state}

EnoughLater(js, cached, limit, state, t) ==
    /\ limit \in Nat
    /\ limit <= Cardinality(LaterIn(js, cached, state, t))

\* The Job of t is gone, or finished and not among the last ones.
MayGo(js, cached, c, t) ==
    Exists(js, t) =>
       /\ Finished(js, t)
       /\ EnoughLater(js, cached, LimitOf(c, js[t].state), js[t].state, t)

\* A Job finished in the cache is as the cache has it, or it is gone and was
\* not among the last ones.
Recorded(js, cached, c, t) ==
    Finished(cached, t) =>
       IF Exists(js, t)
       THEN js[t].state = cached[t].state
       ELSE EnoughLater(js, cached, LimitOf(c, cached[t].state), cached[t].state, t)

\* A clean-up list is as old as the cache it was read from, and the cache may
\* count Jobs that are gone: each of those left enough later ones behind.
HistoryInv ==
    /\ \A t \in JobTimes : Recorded(jobs, jobCache, cron.obj, t)
    /\ pc # "idle" => \A i \in DOMAIN loc.old : MayGo(jobs, jobCache, cron.obj, loc.old[i])

LEMMA HistoryInit == Init => HistoryInv
<1> SUFFICES ASSUME Init PROVE HistoryInv
  OBVIOUS
<1>1. \A t \in JobTimes : ~ Finished(jobCache, t)
  BY DEF Init, Finished, NoJob
<1> QED
  BY <1>1 DEF Init, HistoryInv, Recorded

\* The Jobs of js are finitely many.
Bounded(js) == \E n \in Nat : \A u \in JobTimes : Exists(js, u) => u <= n

\* More later Jobs are enough too.
LEMMA EnoughMore ==
    ASSUME NEW js, NEW cached, NEW js2, NEW cached2, NEW limit, NEW t, NEW t2,
           NEW state \in {"failed", "complete"},
           Bounded(js2),
           EnoughLater(js, cached, limit, state, t),
           LaterIn(js, cached, state, t) \subseteq LaterIn(js2, cached2, state, t2)
    PROVE  EnoughLater(js2, cached2, limit, state, t2)
<1> DEFINE A == LaterIn(js, cached, state, t)
           B == LaterIn(js2, cached2, state, t2)
<1>1. PICK n \in Nat : B \in SUBSET Nat /\ \A u \in B : u <= n
  BY FireTimesAreInstants DEF LaterIn, Exists, Bounded
<1>2. limit \in Nat /\ limit <= Cardinality(A) /\ A \subseteq B
  BY DEF EnoughLater
<1> HIDE DEF A, B
<1>3. IsFiniteSet(B)
  BY <1>1, FS_BoundedSetOfNaturals
<1>4. IsFiniteSet(A) /\ Cardinality(A) <= Cardinality(B)
  BY <1>2, <1>3, FS_Subset
<1>5. Cardinality(A) \in Nat /\ Cardinality(B) \in Nat
  BY <1>3, <1>4, FS_CardinalityType
<1>6. limit <= Cardinality(B)
  BY <1>2, <1>4, <1>5
<1> QED
  BY <1>2, <1>6 DEF EnoughLater, B

LEMMA LimitsAgree ==
    ASSUME SameLimits, NEW c \in Admitted(Submitted), NEW d \in Admitted(Submitted), NEW state
    PROVE  LimitOf(c, state) = LimitOf(d, state)
BY DEF SameLimits, LimitOf

\* A result is final, and a Job only goes by a clean-up.
LEMMA ResultsAreFinal ==
    ASSUME Undisturbed, Inv, AdmittedInv, OnceInv, [Next]_vars, NEW u \in JobTimes
    PROVE  /\ Finished(jobs, u) /\ Exists(jobs', u) => jobs'[u].state = jobs[u].state
           /\ Exists(jobs, u) /\ ~ Exists(jobs', u) => Deletes(u)
           /\ ~ Exists(jobs, u) /\ Exists(jobs', u) => Creates(u)
<1>1. jobs \in [JobTimes -> Jobs]
  BY DEF Inv, TypeOK
<1>2. Exists(jobs, u) /\ ~ Exists(jobs', u) => Deletes(u)
  BY JobEffects DEF Exists
<1>3. ~ Exists(jobs, u) /\ Exists(jobs', u) => Creates(u)
  BY JobEffects DEF Exists
<1>4. ASSUME Finished(jobs, u), Exists(jobs', u) PROVE jobs'[u].state = jobs[u].state
  <2>1. CASE \E x \in JobTimes : Deletes(x)
    <3>1. PICK x \in JobTimes : jobs' = [jobs EXCEPT ![x] = NoJob]
      BY <2>1 DEF Deletes
    <3>2. u # x
      BY <1>1, <1>4, <3>1 DEF Exists, NoJob
    <3> QED
      BY <1>1, <3>1, <3>2
  <2>2. CASE \E m \in JobTimes : Creates(m)
    <3>1. PICK m \in JobTimes : ~ Exists(jobs, m) /\ jobs' = [jobs EXCEPT ![m] = ConstructJob(m)]
      BY <2>2 DEF Creates
    <3>2. u # m
      BY <1>4, <3>1 DEF Exists, Finished
    <3> QED
      BY <1>1, <3>1, <3>2
  <2>3. CASE \E t \in JobTimes : StartJob(t)
    <3>1. PICK t \in JobTimes : jobs' = [jobs EXCEPT ![t].start = IF StrictStarts THEN t ELSE now]
      BY <2>3 DEF StartJob
    <3> QED
      BY <1>1, <3>1 DEF Jobs
  <2>4. CASE \E t \in JobTimes, state \in {"complete", "failed"} : FinishJob(t, state)
    <3>1. PICK t \in JobTimes, state \in {"complete", "failed"} :
             jobs[t].state = "active" /\ jobs' = [jobs EXCEPT ![t].state = state]
      BY <2>4 DEF FinishJob
    <3>2. u # t
      BY <1>4, <3>1 DEF Finished
    <3> QED
      BY <1>1, <3>1, <3>2
  <2> QED
    BY <2>1, <2>2, <2>3, <2>4, JobSteps
<1> QED
  BY <1>2, <1>3, <1>4

\* Enough later Jobs stay enough: one that goes leaves enough behind itself.
LEMMA EnoughStays ==
    ASSUME Undisturbed, Inv, AdmittedInv, OnceInv, HistoryInv, [Next]_vars,
           NEW state \in {"failed", "complete"}, NEW t \in JobTimes,
           EnoughLater(jobs, jobCache, LimitOf(cron.obj, state), state, t)
    PROVE  EnoughLater(jobs', jobCache', LimitOf(cron.obj, state), state, t)
<1>1. JobTimes \subseteq Nat
  BY FireTimesAreInstants
<1>2. Bounded(jobs')
  <2>1. Inv'
    BY NextInv
  <2>2. now' \in Nat /\ \A u \in JobTimes : Exists(jobs', u) => u <= now'
    BY <2>1 DEF Inv, TypeOK, JobsOK, Ran
  <2> QED
    BY <2>2 DEF Bounded
<1>3. jobCache \in [JobTimes -> Jobs]
  BY DEF Inv, TypeOK
<1>4. \A u \in JobTimes : jobs[u].state = state /\ jobCache[u].state = state => jobCache'[u].state = state
  BY <1>3, CacheSteps
<1>5. \A u \in JobTimes : jobs[u].state = state /\ Exists(jobs', u) => jobs'[u].state = state
  BY ResultsAreFinal DEF Finished
<1>6. CASE \A u \in LaterIn(jobs, jobCache, state, t) : Exists(jobs', u)
  <2>1. LaterIn(jobs, jobCache, state, t) \subseteq LaterIn(jobs', jobCache', state, t)
    BY <1>4, <1>5, <1>6 DEF LaterIn
  <2> QED
    BY <1>2, <2>1, EnoughMore
<1>7. ASSUME NEW x \in LaterIn(jobs, jobCache, state, t), ~ Exists(jobs', x)
      PROVE  EnoughLater(jobs', jobCache', LimitOf(cron.obj, state), state, t)
  <2>1. x \in JobTimes /\ x > t /\ jobs[x].state = state /\ Exists(jobs, x)
    BY <1>7 DEF LaterIn, Exists
  <2>2. Deletes(x)
    BY <1>7, <2>1, ResultsAreFinal
  <2>3. pc = "cleanup" /\ loc.old # <<>> /\ x = loc.old[1] /\ loc \in Locals
    BY <2>2 DEF Deletes, CleanUp, Inv, TypeOK
  <2>4. 1 \in DOMAIN loc.old
    BY <2>3 DEF Locals
  <2>5. MayGo(jobs, jobCache, cron.obj, x)
    BY <2>3, <2>4 DEF HistoryInv
  <2>6. EnoughLater(jobs, jobCache, LimitOf(cron.obj, state), state, x)
    BY <2>1, <2>5 DEF MayGo
  <2>7. \A u \in JobTimes \ {x} : jobs'[u] = jobs[u]
    BY <2>2 DEF Deletes, Inv, TypeOK
  <2>8. \A u \in LaterIn(jobs, jobCache, state, x) : u > t /\ u # x
    BY <1>1, <2>1 DEF LaterIn
  <2>9. LaterIn(jobs, jobCache, state, x) \subseteq LaterIn(jobs', jobCache', state, t)
    BY <1>4, <2>7, <2>8 DEF LaterIn
  <2> QED
    BY <1>2, <2>6, <2>9, EnoughMore
<1> QED
  BY <1>6, <1>7

\* A Job on the list to delete that may go, may go after the step.
LEMMA MayGoStays ==
    ASSUME Undisturbed, SameLimits, Inv, AdmittedInv, OnceInv, HistoryInv, [Next]_vars,
           NEW x \in JobTimes, MayGo(jobs, jobCache, cron.obj, x),
           Exists(jobs', x) => Exists(jobs, x)
    PROVE  MayGo(jobs', jobCache', cron'.obj, x)
<1>1. SUFFICES ASSUME Exists(jobs', x) PROVE MayGo(jobs', jobCache', cron'.obj, x)
  BY DEF MayGo
<1>2. /\ Finished(jobs, x)
      /\ EnoughLater(jobs, jobCache, LimitOf(cron.obj, jobs[x].state), jobs[x].state, x)
  BY <1>1 DEF MayGo
<1>3. jobs'[x].state = jobs[x].state
  BY <1>1, <1>2, ResultsAreFinal
<1> DEFINE state == jobs[x].state
<1> HIDE DEF state
<1>4. state \in {"failed", "complete"}
  BY <1>2 DEF Finished, state
<1>5. PICK s \in {"failed", "complete"} : s = state
  BY <1>4
<1>6. EnoughLater(jobs', jobCache', LimitOf(cron.obj, s), s, x)
  <2>1. EnoughLater(jobs, jobCache, LimitOf(cron.obj, s), s, x)
    BY <1>2, <1>5 DEF state
  <2> QED
    BY <2>1, EnoughStays
<1>7. LimitOf(cron'.obj, s) = LimitOf(cron.obj, s)
  <2>1. cron.obj \in Admitted(Submitted) /\ cron'.obj \in Admitted(Submitted)
    BY AdmittedStep DEF AdmittedInv
  <2> QED
    BY <2>1, LimitsAgree
<1>8. jobs'[x].state = s
  BY <1>3, <1>5 DEF state
<1> QED
  BY <1>6, <1>7, <1>8 DEF MayGo, Finished

\* What Load puts on the list may go.
LEMMA HistoryLoad ==
    ASSUME Undisturbed, SameLimits, Inv, AdmittedInv, OnceInv, HistoryInv, Load, pc' # "idle",
           NEW i \in DOMAIN loc'.old
    PROVE  MayGo(jobs', jobCache', cron'.obj, loc'.old[i])
<1>1. UNCHANGED <<jobs, jobCache, cron>>
  BY DEF Load, clusterVars, cacheVars
<1> DEFINE x == loc'.old[i]
<1>2. PICK state \in {"failed", "complete"} :
         HasLater(InState(jobCache, state), x,
                  IF state = "failed" THEN cronCache.obj.failed ELSE cronCache.obj.success)
  BY LoadedOld DEF OnceInv
<1> HIDE DEF x
<1> DEFINE limit == LimitOf(cron.obj, state)
           T == {u \in InState(jobCache, state) : u > x}
<1>3. LimitOf(cronCache.obj, state) = limit
  BY LimitsAgree DEF AdmittedInv
<1>4. x \in InState(jobCache, state) /\ limit \in Nat /\ limit <= Cardinality(T)
  BY <1>2, <1>3 DEF HasLater, LimitOf
<1>5. \A u \in InState(jobCache, state) : u \in JobTimes /\ jobCache[u].state = state
  BY DEF InState, Listed
<1>6. x \in JobTimes /\ Finished(jobCache, x) /\ jobCache[x].state = state
  BY <1>4, <1>5 DEF Finished
<1>7. JobTimes \subseteq Nat
  BY FireTimesAreInstants
<1>8. Bounded(jobs)
  BY DEF Bounded, Inv, TypeOK, JobsOK, Ran
<1> HIDE DEF limit
<1>9. EnoughLater(jobs, jobCache, limit, state, x)
  <2>1. CASE \A u \in T : Exists(jobs, u)
    <3>1. \A u \in T : jobs[u].state = state
      <4>1. \A u \in T : Recorded(jobs, jobCache, cron.obj, u) /\ Finished(jobCache, u)
        BY <1>5 DEF HistoryInv, Finished
      <4> QED
        BY <1>5, <2>1, <4>1 DEF Recorded
    <3>2. T \subseteq LaterIn(jobs, jobCache, state, x)
      BY <1>5, <3>1 DEF LaterIn
    <3>3. LaterIn(jobs, jobCache, state, x) \subseteq T
      <4>1. \A u \in JobTimes : jobCache[u].state = state => u \in InState(jobCache, state)
        BY DEF InState, Listed, OnceInv, StrictJobs, Exists
      <4> QED
        BY <4>1 DEF LaterIn
    <3>4. T = LaterIn(jobs, jobCache, state, x)
      BY <3>2, <3>3
    <3> QED
      BY <1>4, <3>4 DEF EnoughLater
  <2>2. ASSUME NEW v \in T, ~ Exists(jobs, v)
        PROVE  EnoughLater(jobs, jobCache, limit, state, x)
    <3>1. v \in JobTimes /\ v > x /\ jobCache[v].state = state
      BY <1>5
    <3>2. EnoughLater(jobs, jobCache, limit, state, v)
      <4>1. Recorded(jobs, jobCache, cron.obj, v) /\ Finished(jobCache, v)
        BY <3>1 DEF HistoryInv, Finished
      <4> QED
        BY <2>2, <3>1, <4>1 DEF Recorded, limit
    <3>3. LaterIn(jobs, jobCache, state, v) \subseteq LaterIn(jobs, jobCache, state, x)
      <4>1. \A u \in JobTimes : u > v => u > x
        BY <1>6, <1>7, <3>1
      <4> QED
        BY <4>1 DEF LaterIn
    <3> QED
      BY <1>8, <3>2, <3>3, EnoughMore
  <2> QED
    BY <2>1, <2>2
<1>10. MayGo(jobs, jobCache, cron.obj, x)
  <2>1. SUFFICES ASSUME Exists(jobs, x) PROVE MayGo(jobs, jobCache, cron.obj, x)
    BY DEF MayGo
  <2>2. Recorded(jobs, jobCache, cron.obj, x)
    BY <1>6 DEF HistoryInv
  <2>3. jobs[x].state = state
    BY <1>6, <2>1, <2>2 DEF Recorded
  <2> QED
    BY <1>9, <2>3 DEF MayGo, Finished, limit
<1> QED
  BY <1>1, <1>10 DEF x

LEMMA HistoryStep ==
    ASSUME Undisturbed, SameLimits, Inv, AdmittedInv, OnceInv, HistoryInv, [Next]_vars
    PROVE  HistoryInv'
<1>1. jobs \in [JobTimes -> Jobs] /\ jobCache \in [JobTimes -> Jobs] /\ JobsOK(jobCache)
  BY DEF Inv, TypeOK
<1>2. cron.obj \in Admitted(Submitted) /\ cron'.obj \in Admitted(Submitted)
  BY AdmittedStep DEF AdmittedInv
<1>3. ASSUME NEW t \in JobTimes PROVE Recorded(jobs', jobCache', cron'.obj, t)
  <2>1. SUFFICES ASSUME Finished(jobCache', t) PROVE Recorded(jobs', jobCache', cron'.obj, t)
    BY DEF Recorded
  <2>2. CASE jobCache'[t] # jobCache[t]
    <3>1. jobs' = jobs /\ jobCache'[t] = jobs[t]
      BY <1>1, <2>2, CacheSteps
    <3>2. Exists(jobs', t)
      BY <2>1, <3>1 DEF Exists, Finished
    <3> QED
      BY <3>1, <3>2 DEF Recorded
  <2>3. CASE jobCache'[t] = jobCache[t]
    <3>1. Finished(jobCache, t) /\ Recorded(jobs, jobCache, cron.obj, t)
      BY <2>1, <2>3 DEF Finished, HistoryInv
    <3>2. CASE Exists(jobs', t)
      <4>1. Exists(jobs, t)
        <5>1. SUFFICES ASSUME ~ Exists(jobs, t) PROVE FALSE
          OBVIOUS
        <5>2. Creates(t)
          BY <3>2, <5>1, ResultsAreFinal
        <5>3. runs[t] = 0
          BY <5>2, CreatedFirst
        <5>4. runs[t] > 0
          BY <1>1, <3>1 DEF JobsOK, Ran, Exists, Finished
        <5> QED
          BY <5>3, <5>4
      <4>2. jobs[t].state = jobCache[t].state
        BY <3>1, <4>1 DEF Recorded
      <4>3. jobs'[t].state = jobs[t].state
        BY <3>1, <3>2, <4>2, ResultsAreFinal DEF Finished
      <4> QED
        BY <2>3, <3>2, <4>2, <4>3 DEF Recorded
    <3>3. CASE ~ Exists(jobs', t)
      <4>1. PICK s \in {"failed", "complete"} : s = jobCache[t].state
        BY <3>1 DEF Finished
      <4>2. EnoughLater(jobs, jobCache, LimitOf(cron.obj, s), s, t)
        <5>1. CASE ~ Exists(jobs, t)
          BY <3>1, <4>1, <5>1 DEF Recorded
        <5>2. CASE Exists(jobs, t)
          <6>1. Deletes(t)
            BY <3>3, <5>2, ResultsAreFinal
          <6>2. pc = "cleanup" /\ loc.old # <<>> /\ t = loc.old[1] /\ loc \in Locals
            BY <6>1 DEF Deletes, CleanUp, Inv, TypeOK
          <6>3. 1 \in DOMAIN loc.old
            BY <6>2 DEF Locals
          <6>4. MayGo(jobs, jobCache, cron.obj, t)
            BY <6>2, <6>3 DEF HistoryInv
          <6>5. jobs[t].state = s
            BY <3>1, <4>1, <5>2 DEF Recorded
          <6> QED
            BY <5>2, <6>4, <6>5 DEF MayGo
        <5> QED
          BY <5>1, <5>2
      <4>3. EnoughLater(jobs', jobCache', LimitOf(cron.obj, s), s, t)
        BY <4>2, EnoughStays
      <4>4. LimitOf(cron'.obj, s) = LimitOf(cron.obj, s)
        BY <1>2, LimitsAgree
      <4> QED
        BY <2>3, <3>3, <4>1, <4>3, <4>4 DEF Recorded
    <3> QED
      BY <3>2, <3>3
  <2> QED
    BY <2>2, <2>3
<1>4. ASSUME pc' # "idle", NEW i \in DOMAIN loc'.old
      PROVE  MayGo(jobs', jobCache', cron'.obj, loc'.old[i])
  <2>1. CASE Load
    BY <1>4, <2>1, HistoryLoad
  <2>2. CASE ~ Load
    <3>1. PICK j \in DOMAIN loc.old : pc # "idle" /\ loc'.old[i] = loc.old[j]
      BY <1>4, <2>2, OldOnlyShrinks
    <3>2. loc.old \in Seq(JobTimes)
      BY <3>1 DEF Inv, TypeOK, Locals
    <3>3. loc.old[j] \in JobTimes /\ MayGo(jobs, jobCache, cron.obj, loc.old[j])
      BY <3>1, <3>2 DEF HistoryInv
    <3>4. PICK x \in JobTimes : x = loc.old[j]
      BY <3>3
    <3>5. ~ CreateJob
      BY <1>4 DEF CreateJob, ReturnScheduled, ReturnError, Return
    <3>6. Exists(jobs', x) => Exists(jobs, x)
      BY <3>5, ResultsAreFinal DEF Creates
    <3>7. MayGo(jobs', jobCache', cron'.obj, x)
      BY <3>3, <3>4, <3>6, MayGoStays
    <3> QED
      BY <3>1, <3>4, <3>7
  <2> QED
    BY <2>1, <2>2
<1> QED
  BY <1>3, <1>4 DEF HistoryInv

\* With history limits that stay as they are, clean-up keeps what they say:
\* however stale the list it deletes from and whatever happened meanwhile, it
\* deletes finished Jobs only, and as many later ones with the same result
\* stay.
THEOREM CleanUpKeepsLatest ==
    ASSUME Undisturbed, SameLimits
    PROVE  Spec => CleanUpKeepsHistory
<1> DEFINE A == \A t \in JobTimes :
          (pc = "cleanup" /\ pc' = "cleanup" /\ Exists(jobs, t) /\ ~ Exists(jobs', t)) =>
             /\ Finished(jobs, t)
             /\ LET limit == IF jobs[t].state = "failed" THEN loc.obj.failed ELSE loc.obj.success
                IN  Cardinality({u \in InState(jobs, jobs[t].state) : u > t}) >= limit
<1>1. Inv /\ AdmittedInv /\ [Next]_vars => AdmittedInv'
  BY AdmittedStep
<1>2. Inv /\ AdmittedInv /\ OnceInv /\ [Next]_vars => OnceInv'
  BY OnceStep
<1>3. Inv /\ AdmittedInv /\ OnceInv /\ HistoryInv /\ [Next]_vars => HistoryInv'
  BY HistoryStep
<1>4. ASSUME Inv, AdmittedInv, OnceInv, HistoryInv, [Next]_vars PROVE A
  <2>1. SUFFICES ASSUME NEW t \in JobTimes, pc = "cleanup", Exists(jobs, t), ~ Exists(jobs', t)
                 PROVE  /\ Finished(jobs, t)
                        /\ LET limit == IF jobs[t].state = "failed"
                                        THEN loc.obj.failed ELSE loc.obj.success
                           IN  Cardinality({u \in InState(jobs, jobs[t].state) : u > t}) >= limit
    BY DEF A
  <2>2. Deletes(t)
    BY <1>4, <2>1, ResultsAreFinal
  <2>3. loc.old # <<>> /\ t = loc.old[1] /\ loc \in Locals
    BY <1>4, <2>2 DEF Deletes, CleanUp, Inv, TypeOK
  <2>4. 1 \in DOMAIN loc.old
    BY <2>3 DEF Locals
  <2>5. MayGo(jobs, jobCache, cron.obj, t)
    BY <1>4, <2>1, <2>3, <2>4 DEF HistoryInv
  <2> DEFINE state == jobs[t].state
             limit == LimitOf(loc.obj, state)
             A1 == LaterIn(jobs, jobCache, state, t)
             B1 == {u \in InState(jobs, state) : u > t}
  <2>6. /\ Finished(jobs, t)
        /\ EnoughLater(jobs, jobCache, LimitOf(cron.obj, state), state, t)
    BY <2>1, <2>5 DEF MayGo
  <2>7. LimitOf(cron.obj, state) = limit
    BY <1>4, <2>1, LimitsAgree DEF AdmittedInv
  <2>8. limit \in Nat /\ limit <= Cardinality(A1)
    BY <2>6, <2>7 DEF EnoughLater
  <2>9. A1 \subseteq B1
    <3>1. \A u \in JobTimes : jobs[u].state = state => u \in InState(jobs, state)
      BY <1>4, <2>1 DEF InState, Listed, OnceInv, StrictJobs, Exists
    <3> QED
      BY <3>1 DEF LaterIn
  <2>10. IsFiniteSet(B1)
    <3>1. IsFiniteSet(InState(jobs, state))
      BY <1>4, ListIsFinite DEF Inv, TypeOK
    <3> QED
      BY <3>1, FS_Subset
  <2> HIDE DEF A1, B1, limit
  <2>11. IsFiniteSet(A1) /\ Cardinality(A1) <= Cardinality(B1)
    BY <2>9, <2>10, FS_Subset
  <2>12. Cardinality(A1) \in Nat /\ Cardinality(B1) \in Nat
    BY <2>10, <2>11, FS_CardinalityType
  <2>13. Cardinality(B1) >= limit
    BY <2>8, <2>11, <2>12
  <2> QED
    BY <2>6, <2>13 DEF B1, limit, LimitOf
<1>5. Inv /\ AdmittedInv /\ OnceInv /\ HistoryInv /\ [Next]_vars => [A]_vars
  BY <1>4
<1> QED
  BY <1>1, <1>2, <1>3, <1>5, Invariance, AdmittedInit, OnceInit, HistoryInit, PTL
     DEF Spec, CleanUpKeepsHistory
=============================================================================
