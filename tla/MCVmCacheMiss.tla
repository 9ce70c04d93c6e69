----------------------------- MODULE MCVmCacheMiss -----------------------------
(* Instances of VmCacheMiss for TLC. *)
EXTENDS VmCacheMiss

StartStop == {"start", "stop"}
OpsAll    == {"get", "clear_param", "churn", "fail", "throw"}
================================================================================
