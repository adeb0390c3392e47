------------------------------ MODULE MCCronJob ------------------------------
(***************************************************************************)
(* Instances of the CronJob controller for TLC.                            *)
(***************************************************************************)
EXTENDS CronJobController

CONSTANTS every1, every2, never, bad

\* Two schedules, one that parses and never fires, one that does not parse.
\* Each has a time after the clock's last.
MCFireTimes ==
    [s \in {every1, every2, never} |->
        CASE s = every1 -> 1..(MaxTime + 1)
          [] s = every2 -> {t \in 1..(MaxTime + 2) : t % 2 = 0}
          [] OTHER -> {}]

\* Only the first.
MCEvery1 == [s \in {every1} |-> 1..(MaxTime + 1)]

Plain == [nameLen |-> 52, schedule |-> every1, policy |-> "", suspend |-> Nil,
          success |-> Nil, failed |-> Nil, deadline |-> Nil]

With(policy, limit) ==
    [Plain EXCEPT !.policy = policy, !.success = limit, !.failed = limit]

\* Short histories, one Job of a kind.
MCAllow == {With("Allow", 1)}

\* Replaced and not; suspended and resumed; and with schedules that fire at
\* every time, at every other one, or never, or do not parse.  An edit does not
\* change the name, so the first is another CronJob than the rest.
MCStoppable ==
    {[With("Replace", 1) EXCEPT !.nameLen = 51],
     [With("Replace", 1) EXCEPT !.schedule = every2],
     [With("Allow", 1) EXCEPT !.suspend = TRUE],
     [With("Allow", 1) EXCEPT !.schedule = never],
     [With("Allow", 1) EXCEPT !.schedule = bad]}

\* What users may submit, valid and not, with two policies.
MCAll ==
    {Plain, With("Replace", 1),
     [Plain EXCEPT !.nameLen = 53], [Plain EXCEPT !.schedule = bad],
     [Plain EXCEPT !.schedule = never],
     [Plain EXCEPT !.schedule = every2, !.deadline = 1]}
=============================================================================
