--------------------------------- MODULE CpuMig ---------------------------------
(****************************************************************************)
(* The class CpuMig (src/src/exec/cpu_mig.cpp), which Exec::exec_mig() and  *)
(* VM::set_vcpu_mig() forward to: requests to move threads are collected,   *)
(* and moved together.  One mutex guards both calls; the threads of the     *)
(* machine come and go while exec_cpu_mig() works through its table, and    *)
(* their ids are used again.                                                *)
(****************************************************************************)
EXTENDS Naturals

CONSTANTS Clients,  \* the program's threads
          Nobody,
          Tids,     \* thread ids, in the order of std::map
          Cpus, Online,
          NoMask    \* no entry in cpu_migs_: any set that is not one of CPUs

ASSUME CpuMigAssumption == /\ Nobody \notin Clients
                           /\ Tids \subseteq Nat
                           /\ Online \subseteq Cpus
                           /\ Online # {}
                           /\ NoMask \notin SUBSET Cpus

VARIABLES cpu_migs_,
          holder,   \* the client in exec_cpu_mig(), which holds data_mutex_, or Nobody
          left,     \* the entries that its loop has not reached
          mask,     \* the mask that it fills
          affinity, \* affinity[t]: the CPUs t may run on, empty if there is no such thread
          asked,    \* asked[t]: what was asked last for the thread that has id t now
          refused   \* refused[t]: what the kernel refused last, since that request, or NoMask

vars == <<cpu_migs_, holder, left, mask, affinity, asked, refused>>

Pending == {t \in Tids : cpu_migs_[t] # NoMask}

Init == /\ cpu_migs_ = [t \in Tids |-> NoMask]
        /\ holder = Nobody
        /\ left = {}
        /\ mask = {}
        /\ affinity \in [Tids -> {{}, Online}]
        /\ asked = [t \in Tids |-> NoMask]
        /\ refused = [t \in Tids |-> NoMask]

\* set_cpu_mig(): for any id, of a thread or not.
SetCpuMig(t, cpus) == /\ holder = Nobody
                      /\ cpu_migs_' = [cpu_migs_ EXCEPT ![t] = cpus]
                      /\ asked' = [asked EXCEPT ![t] = IF affinity[t] = {} THEN NoMask ELSE cpus]
                      /\ refused' = [refused EXCEPT ![t] = NoMask]
                      /\ UNCHANGED <<holder, left, mask, affinity>>

-------------------------------------------------------------------------------
\* exec_cpu_mig()

\* Fault: the requests are forgotten when there is no memory for the mask.
ExecFailsForgets == /\ holder = Nobody
                    /\ cpu_migs_' = [t \in Tids |-> NoMask]
                    /\ UNCHANGED <<holder, left, mask, affinity, asked, refused>>

\* CPU_ALLOC() gives nothing: the exception leaves everything as it was.
ExecFails == holder = Nobody /\ UNCHANGED vars

ExecBegins(c) == /\ holder = Nobody
                 /\ holder' = c
                 /\ left' = Pending
                 /\ UNCHANGED <<cpu_migs_, mask, affinity, asked, refused>>

\* Fault: the mask is not zeroed between the entries.
FilledMaskAdds(t) == mask \cup cpu_migs_[t]

\* CPU_ZERO_S() and CPU_SET()
FilledMask(t) == cpu_migs_[t]

\* sched_setaffinity(): the thread is moved to those of the CPUs that are online, ...
Moves(t, cpus) == /\ affinity[t] # {}
                  /\ cpus \cap Online # {}
                  /\ affinity' = [affinity EXCEPT ![t] = cpus \cap Online]
                  /\ UNCHANGED refused

\* ... or the kernel refuses: the thread is gone, none of the CPUs is online or in the
\* thread's cpuset, or the program may not move it.  The code only logs that.
Refuses(t, cpus) == /\ refused' = [refused EXCEPT ![t] = cpus]
                    /\ UNCHANGED affinity

SchedSetaffinity(t, cpus) == Moves(t, cpus) \/ Refuses(t, cpus)

ExecMoves(t) == /\ holder # Nobody
                /\ t \in left
                /\ \A u \in left : t <= u
                /\ mask' = FilledMask(t)
                /\ SchedSetaffinity(t, FilledMask(t))
                /\ left' = left \ {t}
                /\ UNCHANGED <<cpu_migs_, holder, asked>>

ExecEnds == /\ holder # Nobody
            /\ left = {}
            /\ cpu_migs_' = [t \in Tids |-> NoMask]
            /\ mask' = {}
            /\ holder' = Nobody
            /\ UNCHANGED <<left, affinity, asked, refused>>

-------------------------------------------------------------------------------
\* The threads of the machine: one ends, or a new one gets an id that is free.
Thread(t) == /\ affinity' = [affinity EXCEPT ![t] = IF @ = {} THEN Online ELSE {}]
             /\ asked' = [asked EXCEPT ![t] = NoMask]
             /\ refused' = [refused EXCEPT ![t] = NoMask]
             /\ UNCHANGED <<cpu_migs_, holder, left, mask>>

Next == \/ \E c \in Clients : ExecBegins(c)
        \/ ExecFails
        \/ ExecEnds
        \/ \E t \in Tids : \/ \E cpus \in SUBSET Cpus : SetCpuMig(t, cpus)
                           \/ ExecMoves(t)
                           \/ Thread(t)

Spec == Init /\ [][Next]_vars

-------------------------------------------------------------------------------
TypeOK == /\ cpu_migs_ \in [Tids -> (SUBSET Cpus) \cup {NoMask}]
          /\ holder \in Clients \cup {Nobody}
          /\ left \subseteq Pending
          /\ mask \subseteq Cpus
          /\ affinity \in [Tids -> SUBSET Online]
          /\ asked \in [Tids -> (SUBSET Cpus) \cup {NoMask}]
          /\ refused \in [Tids -> (SUBSET Cpus) \cup {NoMask}]

\* What is still to be done for t: its entry, unless the loop is past it.
Wanted == [t \in Tids |-> IF holder # Nobody /\ t \notin left THEN NoMask ELSE cpu_migs_[t]]

\* The thread runs where it was asked to, or the kernel refused that very request.
Met(t) == affinity[t] = asked[t] \cap Online \/ refused[t] = asked[t]

\* The inductive invariant: the last request for a living thread is either still to be
\* worked off, as it was made, or met.
MigInv == /\ TypeOK
          /\ holder = Nobody => left = {}
          /\ \A t \in Tids : asked[t] # NoMask =>
                /\ affinity[t] # {}
                /\ Wanted[t] = asked[t] \/ (Wanted[t] = NoMask /\ Met(t))

\* No request is lost: once nothing is to be done for a thread, it runs where it was last
\* asked to, or the kernel was asked for exactly that and refused; requests that are made
\* again, made while exec_cpu_mig() waits for the mutex or fails, and entries of threads
\* that are gone do not disturb it (cpu_mig.cpp:21-50).
RequestsMet == \A t \in Tids : asked[t] # NoMask /\ Wanted[t] = NoMask => Met(t)

\* CpuMig implements the abstract migration.
Aff == INSTANCE Affinity WITH wanted <- Wanted

ImplementsAffinity == Aff!ASpec
================================================================================
