----------------------------- MODULE MCHostSamplers -----------------------------
(* Instances of HostSamplers for TLC. *)
EXTENDS HostSamplers

AllKinds  == {"mem", "cpu", "total"}
StartStop == {"start", "stop"}
================================================================================
