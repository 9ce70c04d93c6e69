------------------------------- MODULE MCVmBase -------------------------------
(* Instances of VmBase for TLC: a VM of the default command and one of another. *)
EXTENDS VmBase

CONSTANTS v1, v2, qemu, other

MCVMs   == {v1, v2}
MCCmds  == {qemu, other}
MCCmdOf == [v \in MCVMs |-> IF v = v2 THEN other ELSE qemu]

StartStop == {"start", "stop"}

OpsAll    == {"get", "volatile", "set_cmd", "set_callback", "clear_param", "boot", "exit"}
Reentrant == {"getter"}
================================================================================
