------------------------------- MODULE VmIdTable -------------------------------
(****************************************************************************)
(* The ids of VM processes over time: refresh_most() rebuilds the keys of   *)
(* every VmId-keyed table from ps, each start time computed anew; the       *)
(* program keeps ids of earlier refreshes inside its VM objects and looks   *)
(* them up in the tables of later ones (vm_base.cpp:76-111, 212-250).       *)
(*                                                                          *)
(* The operating system is external: processes start and end, and a pid may *)
(* be used again, though not within Margin seconds.  refresh_most() reads   *)
(* the clock in whole seconds, and before ps reads it again: a start time   *)
(* may come out up to Early seconds too early and up to Late too late.      *)
(****************************************************************************)
EXTENDS VmId, FiniteSets

CONSTANTS Pids, MaxTime, Margin, Early, Late

ASSUME VmIdTableAssumption == /\ Pids \subseteq Nat /\ MaxTime \in Nat
                              /\ Early \in Nat /\ Late \in Nat /\ Early + Late <= 2
                              /\ Margin \in Nat /\ Margin >= 5

VARIABLES clock,   \* seconds, up to MaxTime
          ran,     \* every VM process so far, with its true start time
          up,      \* those that are running
          keyed,   \* vm_ids_: the key observed for each VM of the last refresh
          handed   \* ids in the program's VM objects, each with its process

tvars == <<clock, ran, up, keyed, handed>>

TInit == /\ clock = 0
         /\ ran = {}
         /\ up = {}
         /\ keyed = {}
         /\ handed = {}

Tick == /\ clock < MaxTime
        /\ clock' = clock + 1
        /\ UNCHANGED <<ran, up, keyed, handed>>

Appears(pid) == LET p == [start |-> clock, pid |-> pid] IN
                /\ \A q \in ran : q.pid = pid => q \notin up /\ clock - q.start >= Margin
                /\ ran' = ran \cup {p}
                /\ up' = up \cup {p}
                /\ UNCHANGED <<clock, keyed, handed>>

Disappears(p) == /\ p \in up
                 /\ up' = up \ {p}
                 /\ UNCHANGED <<clock, ran, keyed, handed>>

\* cur_time - etime: the true start but for an error of each process's own.
Observed(p, error) == [start |-> p.start + error, pid |-> p.pid]

Errors == -Early..Late

Refresh == \E error \in [up -> Errors] :
              /\ keyed' = {[id |-> Observed(p, error[p]), proc |-> p] : p \in up}
              /\ UNCHANGED <<clock, ran, up, handed>>

\* get_vm_ids(): the program replaces its VM objects by what the tables hold.
GetVmIds == /\ handed' = keyed
            /\ UNCHANGED <<clock, ran, up, keyed>>

TNext == \/ Tick \/ Refresh \/ GetVmIds
         \/ \E pid \in Pids : Appears(pid)
         \/ \E p \in up : Disappears(p)

TSpec == TInit /\ [][TNext]_tvars

-------------------------------------------------------------------------------
Keys == {k.id : k \in keyed \cup handed}

\* What the order of the keys takes: the VMs that they stand for have started so close to
\* one another that no error parts them, or Margin seconds apart.
Together(p, q) == p.start - q.start \in -(2 - Early - Late)..(2 - Early - Late)

Apart(p, q) == \/ p.start - q.start >= Margin
               \/ q.start - p.start >= Margin

Spaced == \A k, l \in keyed \cup handed : Together(k.proc, l.proc) \/ Apart(k.proc, l.proc)

\* Of VMs so spaced, the keys the tables hold and are searched with form the order that
\* std::map requires, whatever mix of refreshes they come from (vm_base.cpp:404-410).
KeysOrdered == Spaced => StrictWeakOrder(Keys)

\* Two ids compare equal exactly when they stand for the same process: an id kept
\* from an earlier refresh finds its VM, and never another (vm_base.cpp:398-410).
IdsTellVmsApart == \A k, l \in keyed \cup handed : VmIdEq(k.id, l.id) <=> k.proc = l.proc
-------------------------------------------------------------------------------
(* The inductive invariant: a pid is used again only Margin seconds later,  *)
(* and every id was observed of a process, with one of the errors.          *)

TypesOK == /\ clock \in Nat
           /\ ran \subseteq [start : 0..clock, pid : Pids]
           /\ up \subseteq ran
           /\ \A k \in keyed \cup handed : k.proc \in ran /\ \E error \in Errors : k.id = Observed(k.proc, error)

IdInv == /\ TypesOK
         /\ \A p, q \in ran : p.pid = q.pid /\ p # q => Apart(p, q)
================================================================================
