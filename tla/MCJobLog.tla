------------------------------ MODULE MCJobLog ------------------------------
(* JobLog with one job, two workers and a retry by hand: a late update of the *)
(* first run meets the next run, a stall and a crash.                         *)
EXTENDS JobLog, TLC
=============================================================================
