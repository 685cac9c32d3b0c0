-------------------------- MODULE MCOmniCondition --------------------------
(***************************************************************************)
(* Condition variables for TLC: three threads, so that one times out while *)
(* another signals a third, and one condition, which is waited on again and*)
(* again.  That a thread's semaphore is clean when it goes to another      *)
(* condition is SemaphoreInStep, proved for any number of conditions.      *)
(***************************************************************************)
EXTENDS OmniCondition
=============================================================================
