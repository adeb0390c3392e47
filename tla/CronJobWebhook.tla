---------------------------- MODULE CronJobWebhook ----------------------------
(***************************************************************************)
(* The admission webhook of the CronJob API (kubebuilder-tutorial): the    *)
(* defaulter and the validator every CronJob passes through before the API *)
(* server stores it, and the parts of the API type the two look at.        *)
(*                                                                         *)
(* A CronJob is a record.  A Go nil pointer is Nil; the empty policy is "".*)
(* A schedule is a name; FireTimes gives the instants at which a parseable *)
(* schedule fires, so a name outside DOMAIN FireTimes is one that          *)
(* cron.ParseStandard rejects and an empty set of instants is one that     *)
(* parses and never fires.  Of the object's name only the length matters.  *)
(***************************************************************************)
EXTENDS Integers

CONSTANTS
    Nil,             \* a Go nil pointer, and the zero time.Time
    FireTimes,       \* parseable schedule -> set of instants it fires at
    BadSchedules,    \* schedules cron.ParseStandard rejects
    WebhooksEnabled  \* the manager runs with ENABLE_WEBHOOKS # "false"

ASSUME WebhookAssumption ==
    /\ Nil \notin Int
    /\ \A s \in DOMAIN FireTimes : FireTimes[s] \subseteq Nat
    /\ BadSchedules \cap DOMAIN FireTimes = {}
    /\ WebhooksEnabled \in BOOLEAN

Schedules == DOMAIN FireTimes \cup BadSchedules

Policies == {"", "Allow", "Forbid", "Replace"}

NatOrNil == Nat \cup {Nil}

\* The fields of CronJobSpec that steer the program, and the name's length.
\* The CRD's Minimum=0 markers keep the limits and the deadline non-negative.
CronJobs ==
    [nameLen  : Nat,
     schedule : Schedules,
     policy   : Policies,
     suspend  : BOOLEAN \cup {Nil},
     success  : NatOrNil,
     failed   : NatOrNil,
     deadline : NatOrNil]

-----------------------------------------------------------------------------
(* Defaulting                                                              *)

DefaultConcurrencyPolicy == "Allow"
DefaultSuspend == FALSE
DefaultSuccessfulJobsHistoryLimit == 3
DefaultFailedJobsHistoryLimit == 1

OrDefault(value, absent, default) == IF value = absent THEN default ELSE value

ApplyDefaults(c) ==
    [c EXCEPT !.policy  = OrDefault(@, "", DefaultConcurrencyPolicy),
              !.suspend = OrDefault(@, Nil, DefaultSuspend),
              !.success = OrDefault(@, Nil, DefaultSuccessfulJobsHistoryLimit),
              !.failed  = OrDefault(@, Nil, DefaultFailedJobsHistoryLimit)]

-----------------------------------------------------------------------------
(* Validation                                                              *)

\* k8s.io/apimachinery: the longest DNS-1035 label.
DNS1035LabelMaxLength == 63

\* robfig/cron: does cron.ParseStandard accept the schedule?
ParseStandard(schedule) == schedule \in DOMAIN FireTimes

\* Mutant of ValidateCronJobName: the hyphen is forgotten.
ValidateCronJobNameOffByOne(c) == c.nameLen <= DNS1035LabelMaxLength - 10

ValidateCronJobName(c) == c.nameLen <= DNS1035LabelMaxLength - 11

ValidateCronJobSpec(c) == ParseStandard(c.schedule)

ValidateCronJob(c) == ValidateCronJobName(c) /\ ValidateCronJobSpec(c)

-----------------------------------------------------------------------------
(* What the API server stores of the CronJobs users submit: all of them as *)
(* they are when the webhook is off; the valid ones, defaulted, when it is *)
(* on.                                                                     *)

Admitted(submitted) ==
    IF WebhooksEnabled
    THEN {ApplyDefaults(c) : c \in {d \in submitted : ValidateCronJob(ApplyDefaults(d))}}
    ELSE submitted
=============================================================================
