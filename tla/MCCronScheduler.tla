-------------------------- MODULE MCCronScheduler --------------------------
(***************************************************************************)
(* A small instance of CronScheduler: a schedule assigned to this device   *)
(* and a local one, over a few minutes.  They meet in the refresher and in *)
(* the file; Small leaves out the states in which both are enabled, and    *)
(* lets edits, crashes and the shutdown share one budget.                  *)
(***************************************************************************)
EXTENDS CronScheduler, TLC

Small ==
  /\ \A j, k \in Job : plan[j] # Never /\ plan[k] # Never => j = k
  /\ edits + crashes + (IF disposal = "no" THEN 0 ELSE 1) <= 2
  /\ Len(saves) <= 2

=============================================================================
