-------------------------------- MODULE VmBase --------------------------------
(****************************************************************************)
(* The class VmBase (src/src/sysinfo/vm/dynamic/vm_base.cpp): the list of   *)
(* the running VMs and their threads, refreshed either by the module's own  *)
(* worker thread (Runnable) or, when that is not joinable, by every getter  *)
(* before it reads.                                                         *)
(*                                                                          *)
(* A refresh looks at the machine twice: ps gives the VMs whose process is  *)
(* vm_cmd_, then each VM's cgroup directory gives its vCPU threads; a VM    *)
(* that exits in between makes the second look throw.  data_mutex_ is held  *)
(* from the first look to the last callback.  Getters poll has_data_        *)
(* without the mutex and then read under it.                                *)
(*                                                                          *)
(* A VM stands for its VmId together with its name, uuid, sizes and         *)
(* threads.  vm_ids_ is also the key set of name_, uuid_, v*_num_ and       *)
(* total_mem_size_ (refresh_most fills them together); vcpu_ids_ is also    *)
(* the key set of stable_vmthread_ids_.                                     *)
(****************************************************************************)
EXTENDS Runnable

CONSTANTS VMs,         \* the VMs that may run on the host
          Cmds,        \* process names a VM may have
          CmdOf,       \* CmdOf[v]: the process name of VM v
          DefaultCmd,  \* VmBase::DEFAULT_VM_CMD
          Ops,         \* what the program and the machine do besides Calls
          Callbacks,   \* kinds of callback the program registers
          MaxChanges   \* bound on the number of parameter changes

ASSUME VmBaseAssumption ==
    /\ CmdOf \in [VMs -> Cmds]
    /\ DefaultCmd \in Cmds
    /\ Ops \subseteq {"get", "volatile", "set_cmd", "set_callback", "clear_param", "boot", "exit"}
    /\ Callbacks \subseteq {"plain", "getter"}
    /\ MaxChanges \in Nat
    /\ Callers \cap Threads = {}

VARIABLES alive,       \* the VMs that are running on the machine
          vm_cmd_, callback_, has_data_, vm_ids_, stable_vmthread_id_to_vm_id_, vcpu_ids_,
          failed,      \* the last refresh threw, and its half-filled tables are still there
          at,          \* at[p]: where caller or worker p is in a getter or in refresh()
          changes,     \* parameter changes made so far
          overtaken,   \* the getters whose data was taken away between poll and lock
          kept         \* clear_param() has changed the command under the data

data    == <<vm_ids_, stable_vmthread_id_to_vm_id_, vcpu_ids_>>
history == <<overtaken, kept>>
vbase   == <<alive, vm_cmd_, callback_, has_data_, data, failed, at, changes, history>>
vars  == <<rvars, vbase>>

Procs == Callers \cup Threads

\* "g_joinable": asking joinable(); "r_most": waiting for data_mutex_ to refresh; "r_vcpu": holding it
\* between the two looks; "stuck": holding it inside a callback that waits for it;
\* "g_wait": polling has_data_; "g_read": waiting for the shared lock.
AtLabels == {"idle", "g_joinable", "r_most", "r_vcpu", "stuck", "g_wait", "g_read"}

\* No exclusive holder of data_mutex_.
Unlocked == \A p \in Procs : at[p] \notin {"r_vcpu", "stuck"}

Move(p, l) == at' = [at EXCEPT ![p] = l]

Init == /\ RInit
        /\ alive \in SUBSET VMs
        /\ vm_cmd_ = DefaultCmd
        /\ callback_ = "none"
        /\ has_data_ = FALSE
        /\ vm_ids_ = {}
        /\ stable_vmthread_id_to_vm_id_ = {}
        /\ vcpu_ids_ = {}
        /\ at = [p \in Procs |-> "idle"]
        /\ failed = FALSE
        /\ changes = 0
        /\ overtaken = {}
        /\ kept = FALSE

-------------------------------------------------------------------------------
\* The machine

Boot(v) == /\ "boot" \in Ops /\ ~crashed
           /\ v \notin alive
           /\ alive' = alive \cup {v}
           /\ UNCHANGED <<rvars, vm_cmd_, callback_, has_data_, data, failed, at, changes, history>>

Exit(v) == /\ "exit" \in Ops /\ ~crashed
           /\ v \in alive
           /\ alive' = alive \ {v}
           /\ UNCHANGED <<rvars, vm_cmd_, callback_, has_data_, data, failed, at, changes, history>>

-------------------------------------------------------------------------------
\* Parameters: each setter holds data_mutex_ for all it does, so it is one step.

MayChange(c, op) == /\ op \in Ops /\ ~crashed
                    /\ pc[c] = "idle" /\ at[c] = "idle"
                    /\ changes < MaxChanges
                    /\ changes' = changes + 1
                    /\ Unlocked
                    /\ UNCHANGED <<rvars, alive, at>>

ClearData == /\ has_data_' = FALSE
             /\ failed' = FALSE
             /\ vm_ids_' = {}
             /\ stable_vmthread_id_to_vm_id_' = {}
             /\ vcpu_ids_' = {}
             /\ overtaken' = overtaken \cup {c \in Callers : at[c] = "g_read"}
             /\ kept' = FALSE

\* Fault: set_vm_cmd() keeps the data of the old command.
SetVmCmdKeepsData(c, cmd) == /\ MayChange(c, "set_cmd")
                             /\ vm_cmd_' = cmd
                             /\ UNCHANGED <<callback_, has_data_, data, failed, history>>

SetVmCmd(c, cmd) == /\ MayChange(c, "set_cmd")
                    /\ ClearData
                    /\ vm_cmd_' = cmd
                    /\ UNCHANGED callback_

SetCallback(c, f) == /\ MayChange(c, "set_callback")
                     /\ callback_' = f
                     /\ UNCHANGED <<vm_cmd_, has_data_, data, failed, history>>

ClearParam(c) == /\ MayChange(c, "clear_param")
                 /\ vm_cmd_' = DefaultCmd
                 /\ callback_' = "none"
                 /\ kept' = (kept \/ vm_cmd_ # DefaultCmd)
                 /\ UNCHANGED <<has_data_, data, failed, overtaken>>

-------------------------------------------------------------------------------
\* refresh(), by a getter or by the worker thread

\* refresh_most(): take the mutex, forget the old list, ask ps for the new one.
RefreshMost(p) == /\ Unlocked
                  /\ vm_ids_' = {v \in alive : CmdOf[v] = vm_cmd_}
                  /\ stable_vmthread_id_to_vm_id_' = {}
                  /\ Move(p, "r_vcpu")
                  /\ kept' = FALSE
                  /\ UNCHANGED <<alive, vm_cmd_, callback_, has_data_, vcpu_ids_, failed, changes, overtaken>>

\* Fault: the vCPU maps are added to, not rebuilt.
FillVcpusAdds(read) == /\ vcpu_ids_' = vcpu_ids_ \cup read
                       /\ stable_vmthread_id_to_vm_id_' = stable_vmthread_id_to_vm_id_ \cup read
                       /\ UNCHANGED <<alive, vm_cmd_, callback_, vm_ids_, changes, history>>

\* refresh_vcpu_stable_vmthread(): the maps are rebuilt VM by VM, for "read".
FillVcpus(read) == /\ vcpu_ids_' = read
                   /\ stable_vmthread_id_to_vm_id_' = read
                   /\ UNCHANGED <<alive, vm_cmd_, callback_, vm_ids_, changes, history>>

\* Every cgroup directory is there; the callback runs once per VM, under the
\* mutex, and one that calls a getter waits for the mutex its own thread holds.
CallbackBlocks == callback_ = "getter" /\ vm_ids_ # {}

\* Fault: a refresh does not raise has_data_.
RefreshVcpuSilent(p, next) == /\ at[p] = "r_vcpu"
                              /\ vm_ids_ \subseteq alive
                              /\ ~CallbackBlocks
                              /\ FillVcpus(vm_ids_)
                              /\ failed' = FALSE
                              /\ Move(p, next)
                              /\ UNCHANGED has_data_

RefreshVcpu(p, next) == /\ at[p] = "r_vcpu"
                        /\ vm_ids_ \subseteq alive
                        /\ ~CallbackBlocks
                        /\ FillVcpus(vm_ids_)
                        /\ has_data_' = TRUE
                        /\ failed' = FALSE
                        /\ Move(p, next)

RefreshBlocks(p) == /\ ~crashed
                    /\ at[p] = "r_vcpu"
                    /\ vm_ids_ \subseteq alive
                    /\ CallbackBlocks
                    /\ FillVcpus(vm_ids_)
                    /\ Move(p, "stuck")
                    /\ UNCHANGED <<rvars, has_data_, failed>>

\* A directory is gone: the VMs that come before it have been read, and the
\* exception leaves through the unlock of data_mutex_.
RefreshThrows(p) == /\ at[p] = "r_vcpu"
                    /\ \E gone \in vm_ids_ \ alive :
                         \E read \in SUBSET ((vm_ids_ \cap alive) \ {gone}) : FillVcpus(read)
                    /\ failed' = TRUE
                    /\ Move(p, "idle")
                    /\ UNCHANGED has_data_

-------------------------------------------------------------------------------
\* Getters: get_vm_ids(), get_data_by_vm_id(), stable_vmthread_id_to_vm_id()

\* refresh_volatile_vmthread(v) lists /proc/<pid>/task first, and throws with nothing done
\* when v has exited; then it asks the getter for the stable threads to subtract.
Scanned == alive # {}

Begin(c) == /\ ~crashed
            /\ pc[c] = "idle" /\ at[c] = "idle"
            /\ "get" \in Ops \/ ("volatile" \in Ops /\ Scanned)
            /\ Move(c, "g_joinable")
            /\ UNCHANGED <<rvars, alive, vm_cmd_, callback_, has_data_, data, failed, changes, history>>

GetterMoves(c, from, to) == /\ ~crashed
                            /\ at[c] = from
                            /\ Move(c, to)
                            /\ overtaken' = overtaken \ {c}
                            /\ UNCHANGED <<rvars, alive, vm_cmd_, callback_, has_data_, data, failed, changes, kept>>

\* Fault: a getter neither refreshes nor waits for has_data_.
GetterHurries(c) == GetterMoves(c, "g_joinable", "g_read")

GetterJoinable(c) ==
    GetterMoves(c, "g_joinable", IF thread_ # NoThread /\ Unjoined(thread_) THEN "g_wait" ELSE "r_most")

GetterRefresh(c) == \/ /\ ~crashed
                       /\ at[c] = "r_most"
                       /\ RefreshMost(c)
                       /\ UNCHANGED rvars
                    \/ ~crashed /\ RefreshVcpu(c, "g_wait") /\ UNCHANGED rvars
                    \/ ~crashed /\ RefreshThrows(c) /\ UNCHANGED rvars
                    \/ RefreshBlocks(c)

GetterPoll(c) == has_data_ /\ GetterMoves(c, "g_wait", "g_read")

\* The shared lock: the getter copies what it was asked for and returns.
GetterRead(c) == Unlocked /\ GetterMoves(c, "g_read", "idle")

\* The steps of a getter that wait for the mutex at most.
GetterStep(c) == GetterJoinable(c) \/ GetterRefresh(c) \/ GetterRead(c)

-------------------------------------------------------------------------------
\* run(): the worker's refresh round and its final clear()

RoundBegins(t) == /\ ~crashed
                  /\ wk[t] = "round" /\ at[t] = "idle"
                  /\ RefreshMost(t)
                  /\ UNCHANGED rvars

RoundEnds(t) == RunRound(t) /\ RefreshVcpu(t, "idle")

\* Nothing in run() catches the exception: std::terminate.
RoundThrows(t) == /\ ~crashed
                  /\ t \in Threads /\ RefreshThrows(t)
                  /\ crashed' = TRUE
                  /\ UNCHANGED <<stop_, thread_, wk, pc, target>>

WorkerClears(t) == /\ RunClear(t)
                   /\ Unlocked
                   /\ ClearData
                   /\ UNCHANGED <<alive, vm_cmd_, callback_, at, changes>>

WorkerTests(t) == RunTest(t) /\ UNCHANGED vbase

WorkerStep(t) == \/ WorkerTests(t) \/ RoundBegins(t) \/ RoundEnds(t)
                 \/ RefreshBlocks(t) \/ RoundThrows(t) \/ WorkerClears(t)

-------------------------------------------------------------------------------
\* start() and stop(), by a caller that is not inside a getter

CallBegins(c) == /\ at[c] = "idle"
                 /\ \E op \in {"start", "stop"} : Call(c, op)
                 /\ UNCHANGED vbase

CallStep(c) == (StartStep(c) \/ StopStep(c)) /\ UNCHANGED vbase

Next == \/ \E v \in VMs : Boot(v) \/ Exit(v)
        \/ \E c \in Callers : \/ \E cmd \in Cmds : SetVmCmd(c, cmd)
                              \/ \E f \in Callbacks : SetCallback(c, f)
                              \/ ClearParam(c)
                              \/ Begin(c)
                              \/ GetterStep(c)
                              \/ GetterPoll(c)
                              \/ CallBegins(c)
                              \/ CallStep(c)
        \/ \E t \in Threads : WorkerStep(t)

Spec == Init /\ [][Next]_vars

\* Threads that can move do, and a thread that waits for data_mutex_ gets it if it is
\* free again and again: whoever holds it lets go after one refresh, and the worker
\* sleeps interval_ms_ in between.  A getter that polls may miss has_data_ each time it
\* is up, unless it stays up.
Fairness == /\ \A c \in Callers : SF_vars(GetterStep(c) \/ CallStep(c)) /\ WF_vars(GetterPoll(c))
            /\ \A t \in Threads : SF_vars(WorkerStep(t))

FairSpec == Spec /\ Fairness

-------------------------------------------------------------------------------
TypeOK == /\ RTypeOK
          /\ alive \subseteq VMs
          /\ vm_cmd_ \in Cmds
          /\ callback_ \in Callbacks \cup {"none"}
          /\ has_data_ \in BOOLEAN
          /\ vm_ids_ \subseteq VMs
          /\ stable_vmthread_id_to_vm_id_ \subseteq VMs
          /\ vcpu_ids_ \subseteq VMs
          /\ failed \in BOOLEAN
          /\ at \in [Procs -> AtLabels]
          /\ changes \in 0..MaxChanges
          /\ overtaken \subseteq Callers
          /\ kept \in BOOLEAN

\* What readers may see under the lock is one whole snapshot: the VM list, the
\* vCPU table and the thread index speak of the same VMs: a complete refresh,
\* set_vm_cmd() and clear() each leave all of them in step (vm_base.cpp:39-55,
\* 173-210, 371-386).  Only a refresh that threw leaves them apart.
DataWhole == Unlocked /\ ~failed => /\ vcpu_ids_ = vm_ids_
                                   /\ stable_vmthread_id_to_vm_id_ = vm_ids_

\* The VMs served are VMs of the command that is set now: set_vm_cmd() takes the
\* old command's VMs away with it (vm_base.cpp:41-54).  Only clear_param() does not
\* (vm_base.cpp:68-74).
DataOfCmd == Unlocked /\ ~kept => \A v \in vm_ids_ : CmdOf[v] = vm_cmd_

\* What a getter reads is what refreshes produced, and it reads the empty tables of
\* clear() or set_vm_cmd() only if these came between its poll of has_data_ and its
\* lock (vm_base.cpp:80-83, 104-110).
ReadsSnapshot ==
    [][\A c \in Callers : at[c] = "g_read" /\ at'[c] = "idle" => has_data_ \/ c \in overtaken]_vars

\* The inductive invariant of the data: the tables agree when nobody fills them, the list is
\* of the command in force, and a getter past its poll has data or was overtaken.
DataInv == /\ at \in [Procs -> AtLabels]
           /\ DataWhole
           /\ ~kept => \A v \in vm_ids_ : CmdOf[v] = vm_cmd_
           /\ \A c \in Callers : at[c] = "g_read" => has_data_ \/ c \in overtaken

\* A thread waits in its callback for the mutex that it holds.
Stuck == \E p \in Procs : at[p] = "stuck"

\* A getter that waits for data while the worker runs is served, unless the worker is told
\* to stop or ends with the process: the next round raises has_data_ again after any
\* set_vm_cmd().  Only a callback that calls a getter can block it (vm_base.cpp:80-83,
\* 180-194, 388-395).
GetterServed == \A c \in Callers : (at[c] = "g_wait" /\ ActiveThreads # {})
                                       ~> (at[c] = "idle" \/ stop_ \/ crashed \/ Stuck)

\* stop() returns although the worker may be in the middle of a refresh, and may have to
\* wait for getters that refresh too, unless a callback has called a getter
\* (runnable.cpp:53-56, vm_base.cpp:388-395).
StopEnds == \A c \in Callers : (pc[c] = "stop_join") ~> (pc[c] = "idle" \/ crashed \/ Stuck)
================================================================================
