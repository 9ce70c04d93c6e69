-------------------------------- MODULE MCVmSet --------------------------------
(* Instances of VmSet for TLC. *)
EXTENDS VmSet, TLC

AllOps     == {"set_param", "clear_param", "init_vms"}
ClearAll   == Opts

\* The addresses of callback objects are interchangeable.
Addresses == Permutations(Ptrs)
================================================================================
