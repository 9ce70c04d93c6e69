------------------------------ MODULE VmCacheMiss ------------------------------
(****************************************************************************)
(* VmCacheMiss and CacheMiss (src/src/sysinfo/vm/dynamic/): the cache       *)
(* misses of the threads of the VMs, sampled by a worker (Runnable) or,     *)
(* when it is not joinable, by every getter.                                *)
(*                                                                          *)
(* A refresh lists the threads under data_mutex_ and leaves notes of which  *)
(* to watch and which to drop; start_sample() takes the mutex again, acts   *)
(* on the notes and reads the perf counters; after the sampling interval    *)
(* stop_sample() takes it a third time, reads again and, through the        *)
(* callback cal_vm_miss_rate(), adds each thread to the sums of its VM.     *)
(*                                                                          *)
(* A thread stands for its tid and the VM it belongs to; sums[t] says how   *)
(* often t's sample is in the sums of its VM.  The notes are sets: all the  *)
(* watching comes before all the dropping, and repetitions change nothing.  *)
(****************************************************************************)
EXTENDS Runnable

CONSTANTS Tids,     \* threads of VMs
          Volatile, \* those that are volatile threads (not listed in a cgroup)
          Ops       \* what the program and the machine do besides Calls

ASSUME VmCacheMissAssumption ==
    /\ Volatile \subseteq Tids
    /\ Ops \subseteq {"get", "clear_param", "churn", "fail", "throw"}
    /\ Callers \cap Threads = {}

Events == 1..4  \* cache_misses, cpu_cycles, instructions, cache_references

VARIABLES listed,              \* the threads that VmBase's getters return
          last_tids_, to_start_watching_, to_stop_watching_,
          cache_miss_data_,    \* the threads that have an entry
          fds,                 \* fds[t]: the perf events that are open for t
          missed,              \* threads whose events could not be opened or read
          sums,                \* vm_cache_miss_data_, by thread
          volatile_,           \* the keys of volatile_vmthread_id_to_vm_id_
          has_data_,
          hooked,              \* CacheMiss's callback is cal_vm_miss_rate()
          lost,                \* data_mutex_ was locked by someone who is gone
          at                   \* at[p]: where caller or worker p is

notes  == <<to_start_watching_, to_stop_watching_>>
perf   == <<cache_miss_data_, fds, missed>>
lists  == <<last_tids_, volatile_>>
vmiss  == <<listed, lists, notes, perf, sums, has_data_, hooked, lost, at>>
vars   == <<rvars, vmiss>>

Procs == Callers \cup Threads

Refreshing == {"r_list", "r_start", "r_stop", "r_flag"}

Move(p, from, to) == at[p] = from /\ at' = [at EXCEPT ![p] = to]

Init == /\ RInit
        /\ listed \in SUBSET Tids
        /\ last_tids_ = {}
        /\ to_start_watching_ = {}
        /\ to_stop_watching_ = {}
        /\ cache_miss_data_ = {}
        /\ fds = [t \in Tids |-> {}]
        /\ missed = {}
        /\ sums = [t \in Tids |-> 0]
        /\ volatile_ = {}
        /\ has_data_ = FALSE
        /\ hooked = TRUE
        /\ lost = FALSE
        /\ at = [p \in Procs |-> "idle"]

-------------------------------------------------------------------------------
\* VMs and their threads come and go, as VmBase sees them.

Churn == /\ "churn" \in Ops /\ ~crashed
         /\ \E t \in Tids : listed' = IF t \in listed THEN listed \ {t} ELSE listed \cup {t}
         /\ UNCHANGED <<rvars, lists, notes, perf, sums, has_data_, hooked, lost, at>>

-------------------------------------------------------------------------------
\* refresh()

\* Fault: threads that are no longer listed are not noted.
ToStopForgotten == {}

ToStart == listed \ last_tids_
ToStop  == last_tids_ \ listed

\* Fault: the sums of the last refresh are added to.
RefreshListAdds(p) == /\ Move(p, "r_list", "r_start")
                      /\ ~lost
                      /\ volatile_' = volatile_ \cup (listed \cap Volatile)
                      /\ to_start_watching_' = to_start_watching_ \cup ToStart
                      /\ to_stop_watching_' = to_stop_watching_ \cup ToStop
                      /\ last_tids_' = listed
                      /\ UNCHANGED <<listed, perf, sums, has_data_, hooked, lost>>

\* Between lock.lock() and lock.unlock(): list the threads and note the differences.
RefreshList(p) == /\ Move(p, "r_list", "r_start")
                  /\ ~lost
                  /\ sums' = [t \in Tids |-> 0]
                  /\ volatile_' = volatile_ \cup (listed \cap Volatile)
                  /\ to_start_watching_' = to_start_watching_ \cup ToStart
                  /\ to_stop_watching_' = to_stop_watching_ \cup ToStop
                  /\ last_tids_' = listed
                  /\ UNCHANGED <<listed, perf, has_data_, hooked, lost>>

\* A getter of VmBase throws instead, and nobody unlocks the mutex.
RefreshListThrows(p) == /\ "throw" \in Ops
                        /\ Move(p, "r_list", "idle")
                        /\ ~lost
                        /\ sums' = [t \in Tids |-> 0]
                        /\ lost' = TRUE
                        /\ UNCHANGED <<listed, lists, notes, perf, has_data_, hooked>>

\* Fault: an event that is open is not closed when the next one fails.
LeftOpenAll(n) == 1..n

\* CacheMissData::open_fd(): what stays open when the first n events could be opened.
LeftOpen(n) == IF n = 4 THEN Events ELSE {}

\* The threads that may fail in a step.
MayFail(S) == IF "fail" \in Ops THEN SUBSET S ELSE {{}}

\* first_read() and second_read(): the threads of S whose events may prove unreadable.
ReadFails(S) == MayFail(S)

\* start_sample(): open, then close, then the first read of what is watched.
StartSample(p) ==
    /\ Move(p, "r_start", "r_stop")
    /\ ~lost
    /\ LET new == to_start_watching_ \ cache_miss_data_ IN
       \E refused \in MayFail(new), n \in 0..3 :
       LET open == cache_miss_data_ \cup (new \ refused) IN
          /\ cache_miss_data_' = open \ to_stop_watching_
          /\ fds' = [t \in Tids |-> IF t \in open \cap to_stop_watching_ THEN {}
                                    ELSE IF t \in new
                                    THEN fds[t] \cup LeftOpen(IF t \in refused THEN n ELSE 4)
                                    ELSE fds[t]]
          /\ to_start_watching_' = {}
          /\ \E unread \in ReadFails(cache_miss_data_') :
               /\ to_stop_watching_' = unread
               /\ missed' = (missed \ new) \cup refused \cup unread
    /\ UNCHANGED <<listed, lists, sums, has_data_, hooked, lost>>

\* cal_vm_miss_rate() knows the VM of t: VmBase does, or it was volatile once.
VmKnown(t) == t \in (listed \ Volatile) \cup volatile_

\* stop_sample(): the second read and the callback for every entry.
StopSample(p) ==
    /\ Move(p, "r_stop", "r_flag")
    /\ ~lost
    /\ \E unread \in ReadFails(cache_miss_data_) :
         /\ to_stop_watching_' = to_stop_watching_ \cup unread
         /\ missed' = missed \cup unread
    /\ sums' = [t \in Tids |-> IF hooked /\ t \in cache_miss_data_ /\ VmKnown(t)
                               THEN sums[t] + 1 ELSE sums[t]]
    /\ UNCHANGED <<listed, lists, to_start_watching_, cache_miss_data_, fds, has_data_, hooked, lost>>

\* VmBase throws inside the callback; here the mutex is unlocked on the way out.
StopSampleThrows(p) ==
    /\ "throw" \in Ops /\ hooked /\ cache_miss_data_ # {}
    /\ Move(p, "r_stop", "idle")
    /\ ~lost
    /\ \E done \in SUBSET {t \in cache_miss_data_ : VmKnown(t)} :
         sums' = [t \in Tids |-> IF t \in done THEN sums[t] + 1 ELSE sums[t]]
    /\ UNCHANGED <<listed, lists, notes, perf, has_data_, hooked, lost>>

RaiseFlag(p, next) == /\ Move(p, "r_flag", next)
                      /\ has_data_' = TRUE
                      /\ UNCHANGED <<listed, lists, notes, perf, sums, hooked, lost>>

RefreshStep(p)   == RefreshList(p) \/ StartSample(p) \/ StopSample(p)
RefreshThrows(p) == RefreshListThrows(p) \/ StopSampleThrows(p)

-------------------------------------------------------------------------------
\* get_cache_miss(), of a VM or of a thread

GetterMoves(c, from, to) == /\ ~crashed
                            /\ Move(c, from, to)
                            /\ UNCHANGED <<rvars, listed, lists, notes, perf, sums, has_data_,
                                           hooked, lost>>

Begin(c) == "get" \in Ops /\ pc[c] = "idle" /\ GetterMoves(c, "idle", "g_joinable")

GetterJoinable(c) ==
    GetterMoves(c, "g_joinable", IF thread_ # NoThread /\ Unjoined(thread_) THEN "g_wait" ELSE "r_list")

GetterRefresh(c) == /\ ~crashed
                    /\ RefreshStep(c) \/ RefreshThrows(c) \/ RaiseFlag(c, "g_wait")
                    /\ UNCHANGED rvars

GetterPoll(c) == has_data_ /\ GetterMoves(c, "g_wait", "g_read")
GetterRead(c) == ~lost /\ GetterMoves(c, "g_read", "idle")

\* clear_param(): CacheMiss's own clear_param() takes the callback away, then it is
\* set again.
Unhook(c) == /\ "clear_param" \in Ops /\ ~crashed
             /\ pc[c] = "idle"
             /\ Move(c, "idle", "hook")
             /\ ~lost
             /\ hooked' = FALSE
             /\ UNCHANGED <<rvars, listed, lists, notes, perf, sums, has_data_, lost>>

Hook(c) == /\ ~crashed
           /\ Move(c, "hook", "idle")
           /\ ~lost
           /\ hooked' = TRUE
           /\ UNCHANGED <<rvars, listed, lists, notes, perf, sums, has_data_, lost>>

-------------------------------------------------------------------------------
\* run()

RoundBegins(t) == /\ ~crashed
                  /\ wk[t] = "round"
                  /\ Move(t, "idle", "r_list")
                  /\ UNCHANGED <<rvars, listed, lists, notes, perf, sums, has_data_, hooked, lost>>

RoundGoes(t)   == ~crashed /\ RefreshStep(t) /\ UNCHANGED rvars
RoundEnds(t)   == RunRound(t) /\ RaiseFlag(t, "idle")

\* Nothing in run() catches the exception: std::terminate.
RoundThrows(t) == /\ ~crashed
                  /\ RefreshThrows(t)
                  /\ crashed' = TRUE
                  /\ UNCHANGED <<stop_, thread_, wk, pc, target>>

\* CacheMiss::clear()
ClearSamples == /\ fds' = [t \in Tids |-> IF t \in cache_miss_data_ THEN {} ELSE fds[t]]
                /\ cache_miss_data_' = {}
                /\ to_start_watching_' = {}
                /\ to_stop_watching_' = {}
                /\ has_data_' = FALSE

\* VmCacheMiss::clear()
WorkerClears(t) == /\ RunClear(t)
                   /\ ~lost
                   /\ ClearSamples
                   /\ last_tids_' = {}
                   /\ volatile_' = {}
                   /\ sums' = [u \in Tids |-> 0]
                   /\ UNCHANGED <<listed, missed, hooked, lost, at>>

WorkerStep(t) == \/ RunTest(t) /\ UNCHANGED vmiss
                 \/ RoundBegins(t) \/ RoundGoes(t) \/ RoundEnds(t)
                 \/ RoundThrows(t) \/ WorkerClears(t)

CallBegins(c) == /\ at[c] = "idle"
                 /\ \E op \in {"start", "stop"} : Call(c, op)
                 /\ UNCHANGED vmiss

CallStep(c) == (StartStep(c) \/ StopStep(c)) /\ UNCHANGED vmiss

Next == \/ Churn
        \/ \E c \in Callers : \/ Begin(c) \/ GetterJoinable(c) \/ GetterRefresh(c)
                              \/ GetterPoll(c) \/ GetterRead(c)
                              \/ Unhook(c) \/ Hook(c)
                              \/ CallBegins(c) \/ CallStep(c)
        \/ \E t \in Threads : WorkerStep(t)

Spec == Init /\ [][Next]_vars

-------------------------------------------------------------------------------
\* Perf events are open for exactly the threads that have an entry, all four of each,
\* whatever could not be opened or read: none leaks (cache_miss.cpp:94-159, 235-258).
NoFdLeak == \A t \in Tids : fds[t] = IF t \in cache_miss_data_ THEN Events ELSE {}

\* A sample is added to the sums of its VM once (vm_cache_miss.cpp:87-122).
CountedOnce == \A t \in Tids : sums[t] <= 1

\* Where the lists and the notes lead: once the notes are acted upon, the threads
\* that are sampled are those that were listed last, but for those whose events
\* failed (vm_cache_miss.cpp:125-149, cache_miss.cpp:94-130).
WatchAgrees == LET watched == (cache_miss_data_ \cup to_start_watching_) \ to_stop_watching_ IN
               watched \subseteq last_tids_ /\ last_tids_ \ watched \subseteq missed

-------------------------------------------------------------------------------
\* The inductive invariants.  For any callers and threads: what the variables hold, and
\* that the events are those of the entries.
AtLabels == Refreshing \cup {"idle", "g_joinable", "g_wait", "g_read", "hook"}

FdInv == /\ {listed, last_tids_, to_start_watching_, to_stop_watching_,
             cache_miss_data_, missed, volatile_} \subseteq SUBSET Tids
         /\ fds \in [Tids -> SUBSET Events]
         /\ sums \in [Tids -> Nat]
         /\ at \in [Procs -> AtLabels]
         /\ NoFdLeak

\* With one program thread, nobody refreshes at the same time as somebody else: the worker
\* does in its rounds, the program while there is no worker.
TurnInv == /\ RInv
           /\ \A c \in Callers : /\ at[c] # "idle" => pc[c] = "idle"
                                 /\ at[c] \in Refreshing => Stopped
           /\ \A t \in Threads : /\ at[t] \in Refreshing \cup {"idle"}
                                 /\ at[t] \in Refreshing => wk[t] = "round"

\* The notes while they are acted upon, and otherwise.
Noted   == /\ to_start_watching_ \subseteq last_tids_ \ (cache_miss_data_ \cup to_stop_watching_)
           /\ cache_miss_data_ \ last_tids_ \subseteq to_stop_watching_
           /\ to_stop_watching_ \cap last_tids_ \subseteq missed
           /\ last_tids_ \ (cache_miss_data_ \cup to_start_watching_) \subseteq missed

Settled == /\ to_start_watching_ = {}
           /\ to_stop_watching_ \subseteq cache_miss_data_ \cap missed
           /\ cache_miss_data_ \subseteq last_tids_
           /\ last_tids_ \ cache_miss_data_ \subseteq missed

SomeoneAt(S) == \E p \in Procs : at[p] \in S

NoteInv == IF SomeoneAt({"r_start"}) THEN Noted ELSE Settled

SumInv == /\ CountedOnce
          /\ SomeoneAt({"r_start", "r_stop"}) => \A t \in Tids : sums[t] = 0
================================================================================
