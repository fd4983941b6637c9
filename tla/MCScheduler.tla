------------------------------ MODULE MCScheduler ------------------------------
(* Small instances of Scheduler.                                           *)
EXTENDS Scheduler

CONSTANTS p1, once, daily
===============================================================================
