------------------------------ MODULE MCCron ------------------------------
(***************************************************************************)
(* Instance of Cron for TLC.                                               *)
(***************************************************************************)
EXTENDS Cron

\* Every minute, an interval that does not divide the hour, and an unsupported
\* form.
AllSchedules == {[form |-> "every", interval |-> 0],
                 [form |-> "step", interval |-> 7], [form |-> "other", interval |-> 0]}
===========================================================================
