------------------------------- MODULE MCVmLocks -------------------------------
(* Instances of VmLocks for TLC. *)
EXTENDS VmLocks

CallDown   == [base |-> {}, cpu |-> {}, miss |-> {"cpu"}]
OneAloneOrAll == {{"cpu"}, {"miss"}, Modules}
================================================================================
