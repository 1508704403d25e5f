------------------------------- MODULE MCCron -------------------------------
(* Instances of Cron. *)
EXTENDS Cron

In1 == [kind |-> "in", minutes |-> 1]
Every1 == [kind |-> "every", minutes |-> 1]
Every2 == [kind |-> "every", minutes |-> 2]

SchedulesAll == {In1, Every1, Every2}
SchedulesLate == {In1, Every2}
SchedulesEvery == {Every1}
=============================================================================
