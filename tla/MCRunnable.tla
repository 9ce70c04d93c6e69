------------------------------ MODULE MCRunnable ------------------------------
(* Instances of Runnable for TLC. *)
EXTENDS Runnable

AllCalls  == {"start", "stop", "joinable"}
================================================================================
