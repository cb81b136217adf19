---------------------------- MODULE MCSemaphore ----------------------------
(* Instances of Semaphore: the constants take their values in the .cfg. *)
EXTENDS Semaphore
=============================================================================
