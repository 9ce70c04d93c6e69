-------------------------------- MODULE MCCpuMig --------------------------------
(* Instances of CpuMig for TLC: three CPUs, one of them offline. *)
EXTENDS CpuMig

TwoTids == 1..2
MCCpus  == {"c0", "c1", "off"}
MCOnline == {"c0", "c1"}
MCNoMask == {"none"}
================================================================================
