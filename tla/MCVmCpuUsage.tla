----------------------------- MODULE MCVmCpuUsage -----------------------------
(* Instances of VmCpuUsage for TLC. *)
EXTENDS VmCpuUsage

StartStop == {"start", "stop"}
OpsAll    == {"get", "churn", "throw", "vanish"}
OnlyProc  == {"proc"}
================================================================================
