-------------------------- MODULE MCCronScheduler --------------------------
(* Instances of CronScheduler for TLC. *)
EXTENDS CronScheduler

\* An expression with two occurrences stands for the recurring kinds: "every" moves on
\* as it does after the first, and after the second there is none left.
MCSchedules == {[kind |-> "at", at |-> 1], [kind |-> "cron", times |-> {1, 2}]}
=============================================================================
