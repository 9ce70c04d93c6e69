------------------------------ MODULE VmCpuUsage ------------------------------
(****************************************************************************)
(* VmCpuUsage and CpuUsage (src/src/sysinfo/vm/dynamic/): the CPU usage of  *)
(* the VMs' processes and threads.  A usage is the CPU time a thread gained *)
(* between two refreshes over the time the host gained between them, so a   *)
(* getter without a worker refreshes twice and one with a worker waits for  *)
(* the second refresh.                                                      *)
(*                                                                          *)
(* VmCpuUsage::refresh() notes, under data_mutex_, which processes to watch *)
(* and which to drop; CpuUsage::refresh() takes the mutex again, samples    *)
(* the host, acts on the notes and samples the threads.  A sample is named  *)
(* by the round of refreshes it was taken in, counted from the last         *)
(* clear(); 0 is the zero that marks "no sample" in the code.  A process    *)
(* has one thread here.                                                     *)
(****************************************************************************)
EXTENDS Runnable

CONSTANTS Pids,     \* processes of VMs
          Ops,      \* what the program and the machine do besides Calls
          Failures, \* which reads of CpuUsage::refresh() may fail: "stat", "proc"
          MaxRounds \* bound on the number of rounds

ASSUME VmCpuUsageAssumption ==
    /\ Ops \subseteq {"get", "churn", "throw", "vanish"}
    /\ Failures \subseteq {"stat", "proc"}
    /\ MaxRounds \in Nat
    /\ Callers \cap Threads = {}

VARIABLES listed,        \* the processes that VmBase lists
          alive,         \* the processes that are in /proc
          last_pids_, to_start_watching_, to_stop_watching_,
          round,         \* the round of the host's last sample (total_cpu_time_new)
          broken,        \* the rounds that an exception ended
          process,       \* process[p]: the round of p's usage, 0 before; Absent: no entry
          thread,        \* thread[p]: valid_, and the rounds of proctime_old_ and _new_
          has_data_cnt_,
          lost,          \* data_mutex_ was locked by someone who is gone
          at             \* at[q]: where caller or worker q is: "r1" and "r2" are a
                         \* getter's two refreshes, and the worker has one per round

notes  == <<to_start_watching_, to_stop_watching_>>
tables == <<round, broken, process, thread>>
vcpu   == <<listed, alive, last_pids_, notes, tables, has_data_cnt_, lost, at>>
vars   == <<rvars, vcpu>>

Procs  == Callers \cup Threads
Absent == MaxRounds + 1

NoSample == [valid |-> FALSE, old |-> 0, new |-> 0]
Watched  == {p \in Pids : process[p] # Absent}

Move(q, from, to) == at[q] = from /\ at' = [at EXCEPT ![q] = to]

Init == /\ RInit
        /\ listed \in SUBSET Pids
        /\ alive = listed
        /\ last_pids_ = {}
        /\ to_start_watching_ = {}
        /\ to_stop_watching_ = {}
        /\ round = 0
        /\ broken = {}
        /\ process = [p \in Pids |-> Absent]
        /\ thread = [p \in Pids |-> NoSample]
        /\ has_data_cnt_ = 0
        /\ lost = FALSE
        /\ at = [q \in Procs |-> "idle"]

-------------------------------------------------------------------------------
\* Processes start and end; VmBase notices sooner or later.

Toggle(S, p) == IF p \in S THEN S \ {p} ELSE S \cup {p}

Churn == /\ "churn" \in Ops /\ ~crashed
         /\ \E p \in Pids : \/ listed' = Toggle(listed, p) /\ UNCHANGED alive
                            \/ alive' = Toggle(alive, p) /\ UNCHANGED listed
         /\ UNCHANGED <<rvars, last_pids_, notes, tables, has_data_cnt_, lost, at>>

-------------------------------------------------------------------------------
\* VmCpuUsage::refresh(), between lock.lock() and lock.unlock()

RefreshList(q, from, to) ==
    /\ Move(q, from, to)
    /\ ~lost
    /\ to_start_watching_' = to_start_watching_ \cup (listed \ last_pids_)
    /\ to_stop_watching_' = to_stop_watching_ \cup (last_pids_ \ listed)
    /\ last_pids_' = listed
    /\ UNCHANGED <<listed, alive, tables, has_data_cnt_, lost>>

\* VmBase throws instead, and nobody unlocks the mutex.
RefreshListThrows(q, from) ==
    /\ "throw" \in Ops
    /\ Move(q, from, "idle")
    /\ ~lost
    /\ lost' = TRUE
    /\ UNCHANGED <<listed, alive, last_pids_, notes, tables, has_data_cnt_>>

-------------------------------------------------------------------------------
\* CpuUsage::refresh(), under its unique_lock

\* refresh_system(): the host's counters move to the next round.
NextRound == /\ round < MaxRounds
             /\ round' = round + 1

\* refresh_watching(): first all the inserts, then all the erasures.
Rewatched == [p \in Pids |-> IF p \in to_stop_watching_ THEN Absent
                             ELSE IF p \in to_start_watching_ /\ process[p] = Absent THEN 0
                             ELSE process[p]]

\* ThreadCpuUsageData::update().  A thread that has not used any CPU time yet
\* ("idle") leaves zeros, as if it had not been sampled.
Update(s, idle) == IF idle THEN [valid |-> TRUE, old |-> 0, new |-> 0]
                   ELSE [valid |-> TRUE, new |-> round + 1,
                         old |-> IF s.new = 0 THEN round + 1 ELSE s.new]

\* Fault: the samples of a thread that was not found are kept.
GoneKept(s) == [s EXCEPT !.valid = FALSE]

\* Fault: valid_ is not reset before the threads are sampled.
GoneValid(s) == s

\* ThreadCpuUsageData::clear_data(), for a thread that was not found
Gone(s) == NoSample

CountRefresh == has_data_cnt_' = IF has_data_cnt_ < 2 THEN has_data_cnt_ + 1 ELSE has_data_cnt_

\* refresh_thread(): the watched processes that are in /proc are sampled; the
\* entries of all other threads are cleared, and remain.
RefreshCpu(q, from, to) ==
    /\ Move(q, from, to)
    /\ ~lost
    /\ NextRound
    /\ LET found == {p \in alive : Rewatched[p] # Absent} IN
       \E idle \in SUBSET {p \in found : thread[p].new = 0} :
          /\ process' = [p \in Pids |-> IF p \in found THEN round + 1 ELSE Rewatched[p]]
          /\ thread' = [p \in Pids |-> IF p \in found THEN Update(thread[p], p \in idle)
                                       ELSE Gone(thread[p])]
    /\ to_start_watching_' = {}
    /\ to_stop_watching_' = {}
    /\ CountRefresh
    /\ UNCHANGED <<listed, alive, last_pids_, broken, lost>>

\* /proc/stat cannot be opened, or the processes cannot after it was read; here the
\* mutex is unlocked on the way out.
RefreshCpuThrows(q, from) ==
    /\ Move(q, from, "idle")
    /\ ~lost
    /\ \E what \in Failures :
         \/ what = "stat" /\ UNCHANGED <<notes, tables>>
         \/ /\ what = "proc"
            /\ NextRound
            /\ broken' = broken \cup {round + 1}
            /\ process' = Rewatched
            /\ to_start_watching_' = {}
            /\ to_stop_watching_' = {}
            /\ UNCHANGED thread
    /\ UNCHANGED <<listed, alive, last_pids_, has_data_cnt_, lost>>

\* A process ends between readproc() and readtask(): no tasks, and the process's
\* usage is divided by their number unless this is the first round.
DividesByZero(q) == /\ "vanish" \in Ops /\ ~crashed
                    /\ at[q] \in {"r1_cpu", "r2_cpu"}
                    /\ ~lost
                    /\ round > 0
                    /\ \E p \in alive : Rewatched[p] # Absent
                    /\ crashed' = TRUE
                    /\ UNCHANGED <<stop_, thread_, wk, pc, target, vcpu>>

-------------------------------------------------------------------------------
\* The getters: get_cpu_usage(), get_running_on_hpthread(), get_sys_cpu_usage()

GetterMoves(c, from, to) == /\ ~crashed
                            /\ Move(c, from, to)
                            /\ UNCHANGED <<rvars, listed, alive, last_pids_, notes, tables,
                                           has_data_cnt_, lost>>

Begin(c) == "get" \in Ops /\ pc[c] = "idle" /\ GetterMoves(c, "idle", "g_joinable")

\* refresh_twice()
GetterJoinable(c) ==
    GetterMoves(c, "g_joinable", IF thread_ # NoThread /\ Unjoined(thread_) THEN "g_wait" ELSE "r1_list")

GetterRefresh(c) == /\ ~crashed
                    /\ \/ RefreshList(c, "r1_list", "r1_cpu")
                       \/ RefreshCpu(c, "r1_cpu", "r2_list")
                       \/ RefreshList(c, "r2_list", "r2_cpu")
                       \/ RefreshCpu(c, "r2_cpu", "g_wait")
                    /\ UNCHANGED rvars

GetterThrows(c) == /\ ~crashed
                   /\ \/ \E l \in {"r1_list", "r2_list"} : RefreshListThrows(c, l)
                      \/ \E l \in {"r1_cpu", "r2_cpu"} : RefreshCpuThrows(c, l)
                   /\ UNCHANGED rvars

\* Fault: one refresh is enough.
HasDataEarly == has_data_cnt_ >= 1

HasData == has_data_cnt_ >= 2

GetterPoll(c) == HasData /\ GetterMoves(c, "g_wait", "g_read")
GetterRead(c) == ~lost /\ GetterMoves(c, "g_read", "idle")

-------------------------------------------------------------------------------
\* run()

RoundBegins(t) == /\ ~crashed
                  /\ wk[t] = "round"
                  /\ Move(t, "idle", "r1_list")
                  /\ UNCHANGED <<rvars, listed, alive, last_pids_, notes, tables, has_data_cnt_, lost>>

RoundLists(t) == ~crashed /\ RefreshList(t, "r1_list", "r1_cpu") /\ UNCHANGED rvars
RoundEnds(t)  == RunRound(t) /\ RefreshCpu(t, "r1_cpu", "idle")

\* Nothing in run() catches the exception: std::terminate.
RoundThrows(t) == /\ ~crashed
                  /\ RefreshListThrows(t, "r1_list") \/ RefreshCpuThrows(t, "r1_cpu")
                  /\ crashed' = TRUE
                  /\ UNCHANGED <<stop_, thread_, wk, pc, target>>

\* Fault: clear() empties the tables but not the notes and the list of last pids.
ClearTables == /\ process' = [p \in Pids |-> Absent]
               /\ thread' = [p \in Pids |-> NoSample]
               /\ round' = 0
               /\ broken' = {}
               /\ has_data_cnt_' = 0
               /\ UNCHANGED <<last_pids_, notes>>

\* CpuUsage::clear() and VmCpuUsage::clear()
ClearAll == /\ process' = [p \in Pids |-> Absent]
            /\ thread' = [p \in Pids |-> NoSample]
            /\ to_start_watching_' = {}
            /\ to_stop_watching_' = {}
            /\ round' = 0
            /\ broken' = {}
            /\ has_data_cnt_' = 0
            /\ last_pids_' = {}

WorkerClears(t) == /\ RunClear(t)
                   /\ ~lost
                   /\ ClearAll
                   /\ UNCHANGED <<listed, alive, lost, at>>

WorkerStep(t) == \/ RunTest(t) /\ UNCHANGED vcpu
                 \/ RoundBegins(t) \/ RoundLists(t) \/ RoundEnds(t)
                 \/ RoundThrows(t) \/ WorkerClears(t)

CallBegins(c) == /\ at[c] = "idle"
                 /\ \E op \in {"start", "stop"} : Call(c, op)
                 /\ UNCHANGED vcpu

CallStep(c) == (StartStep(c) \/ StopStep(c)) /\ UNCHANGED vcpu

Next == \/ Churn
        \/ \E c \in Callers : \/ Begin(c) \/ GetterJoinable(c) \/ GetterRefresh(c)
                              \/ GetterThrows(c) \/ GetterPoll(c) \/ GetterRead(c)
                              \/ CallBegins(c) \/ CallStep(c)
        \/ \E t \in Threads : WorkerStep(t)
        \/ \E q \in Procs : DividesByZero(q)

Spec == Init /\ [][Next]_vars

-------------------------------------------------------------------------------
\* A usage divides like by like: the two samples of a thread that is shown as valid
\* are of the last round and the one before, as the host's are, or are one and the
\* same; a process is never reused across rounds in which it was not seen.  Only a
\* round that an exception ended can lie between (cpu_usage.cpp:269-287, 314-339).
SameWindow == \A p \in Pids : thread[p].valid /\ thread[p].new # 0 =>
                 /\ \A r \in (thread[p].new + 1)..round : r \in broken
                 /\ \A r \in (thread[p].old + 1)..(thread[p].new - 1) : r \in broken

\* The threads that a getter may show are those of processes that are watched, and
\* their process's usage is of this very round, unless the last round was ended by an
\* exception: valid_ does not outlive the process's entry (cpu_usage.cpp:222-297).
ShownAreWatched ==
    round \notin broken => \A p \in Pids : thread[p].valid => process[p] = round

\* Once the notes are acted upon, the processes that are watched are those that were
\* listed last (vm_cpu_usage.cpp:96-118, cpu_usage.cpp:222-241).
WatchAgrees == (Watched \cup to_start_watching_) \ to_stop_watching_ = last_pids_

\* A getter reads usages that two refreshes since the last clear() stand behind
\* (cpu_usage.cpp:53-60, 126-129).
ReadsTwoRounds ==
    [][\A c \in Callers : at[c] = "g_read" /\ at'[c] = "idle"
                             => Cardinality((1..round) \ broken) >= 2]_vars

-------------------------------------------------------------------------------
\* The inductive invariants.  For any callers and threads: what the tables hold, and how
\* the counter of the refreshes relates to the rounds.
Refreshing == {"r1_list", "r1_cpu", "r2_list", "r2_cpu"}
AtLabels   == Refreshing \cup {"idle", "g_joinable", "g_wait", "g_read"}

TableInv == /\ at \in [Procs -> AtLabels]
            /\ {listed, alive, last_pids_, to_start_watching_, to_stop_watching_} \subseteq SUBSET Pids
            /\ round \in 0..MaxRounds
            /\ broken \subseteq 1..round
            /\ process \in [Pids -> 0..Absent]
            /\ thread \in [Pids -> [valid : BOOLEAN, old : Nat, new : Nat]]
            /\ \A p \in Pids : thread[p].new # 0 => thread[p].valid
            /\ SameWindow
            /\ ShownAreWatched

CountInv == /\ has_data_cnt_ \in 0..2
            /\ has_data_cnt_ <= Cardinality((1..round) \ broken)

\* With one program thread, nobody refreshes at the same time as somebody else, and nobody
\* clears what the program is about to read.
TurnInv == /\ RInv
           /\ \A c \in Callers : /\ at[c] # "idle" => pc[c] = "idle"
                                 /\ at[c] \in Refreshing => Stopped
           /\ \A t \in Threads : /\ at[t] \in Refreshing \cup {"idle"}
                                 /\ at[t] \in Refreshing => wk[t] = "round"

ReadInv == \A c \in Callers : at[c] = "g_read" => HasData

\* The notes between the two halves of a refresh, and otherwise.
Noted   == /\ to_start_watching_ = last_pids_ \ Watched
           /\ to_stop_watching_ = Watched \ last_pids_

Settled == /\ to_start_watching_ = {} /\ to_stop_watching_ = {}
           /\ Watched = last_pids_

BetweenHalves == \E q \in Procs : at[q] \in {"r1_cpu", "r2_cpu"}

NoteInv == IF BetweenHalves THEN Noted ELSE Settled
================================================================================
