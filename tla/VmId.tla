--------------------------------- MODULE VmId ---------------------------------
(****************************************************************************)
(* VmId, the key of every per-VM table of the library                       *)
(* (src/src/sysinfo/vm/dynamic/vm_base.cpp:398-410): the VM's process id    *)
(* and the start time that refresh_most() computes from ps.  That time is   *)
(* "now minus etime", so two refreshes may disagree by a second about the   *)
(* same process; the comparisons forgive a difference of two.               *)
(****************************************************************************)
EXTENDS Integers

VmIds == [start : Int, pid : Int]

\* abs(difftime(lv.start_timestamp, rv.start_timestamp)) <= 2
Near(l, r) == l.start - r.start \in -2..2

\* Fault: the jitter of the start time is not forgiven.
VmIdEqExact(l, r) == l = r

\* operator==
VmIdEq(l, r) == Near(l, r) /\ l.pid = r.pid

\* Fault: near start times are not ordered by pid but by time.
VmIdLessByTime(l, r) == IF l.start = r.start THEN l.pid < r.pid ELSE l.start - r.start > 1

\* operator<: by pid when the start times are near, else the later start first.
VmIdLess(l, r) == IF Near(l, r) THEN l.pid < r.pid ELSE l.start - r.start > 2

\* What std::set and std::map ask of operator< on the keys S they hold.
Equivalent(l, r) == ~VmIdLess(l, r) /\ ~VmIdLess(r, l)

StrictWeakOrder(S) ==
    /\ \A a \in S : ~VmIdLess(a, a)
    /\ \A a, b, c \in S : VmIdLess(a, b) /\ VmIdLess(b, c) => VmIdLess(a, c)
    /\ \A a, b, c \in S : Equivalent(a, b) /\ Equivalent(b, c) => Equivalent(a, c)

\* The start times in S fall into groups: all near inside a group, none near across.
Clustered(S) == \A a, b, c \in S : Near(a, b) /\ Near(b, c) => Near(a, c)
================================================================================
