------------------------------ MODULE HostSamplers ------------------------------
(****************************************************************************)
(* The samplers of the host: hsUsedMemSize and hsCpuUsage                   *)
(* (src/src/sysinfo/host/dymatic/), which are Runnables, and totalMemSize   *)
(* (src/src/sysinfo/host/static/total_mem_size.cpp), which is none.  All    *)
(* have a flag that a getter looks at without a lock: when it is up the     *)
(* getter reads what is there, when it is down it collects first.  They     *)
(* differ in what raises the flag and in what is done under the lock.       *)
(*                                                                          *)
(* What the machine shows is the number of its changes so far, and a        *)
(* collection is named by what its (first) reading saw.  Reading a whole    *)
(* collection or publishing one is one step, for the lock is held.          *)
(****************************************************************************)
EXTENDS Runnable

CONSTANTS Kinds,   \* the classes looked at
          MaxNow,  \* bound on the changes of the machine
          MaxFds   \* the descriptors that the process may have open

ASSUME HostSamplersAssumption == /\ Kinds \subseteq {"mem", "cpu", "total"}
                                 /\ MaxNow \in Nat \ {0}
                                 /\ MaxFds \in Nat
                                 /\ Callers \cap Threads = {}

VARIABLES kind,   \* the class that the object is of
          now,    \* what the machine shows
          flag,   \* thread_run of hsUsedMemSize, init of the others
          shown,  \* the collection published last, 0 before the first
          got,    \* got[p]: what the first reading of p's collection saw
          at,     \* at[p]: where caller or worker p is
          since,  \* since[c]: what the machine showed when c's getter was called
          ran,    \* a worker of hsUsedMemSize has sampled
          fds,    \* descriptors of /proc/stat open
          endless \* the process may have as many of them as it likes

history == <<since, ran>>
sampler == <<kind, now, flag, shown, got, at, history, fds, endless>>
vars    == <<rvars, sampler>>

Procs == Callers \cup Threads

\* "g_check": to look at the flag; "c_sample", "c_first", "c_second", "c_publish": in a
\* collection; "g_trust", "g_read", "g_failed": to read because the flag is up, after
\* collecting, after failing to; "w_flag": to raise the flag; "w_loop", "w_done": between
\* and behind the worker's collections.
AtLabels == {"idle", "g_check", "c_sample", "c_first", "c_second", "c_publish",
             "g_trust", "g_read", "g_failed", "w_flag", "w_loop", "w_done"}

Init == /\ RInit
        /\ kind \in Kinds
        /\ now = 1
        /\ flag = FALSE
        /\ shown = 0
        /\ got = [p \in Procs |-> 0]
        /\ at = [p \in Procs |-> "idle"]
        /\ since = [c \in Callers |-> 0]
        /\ ran = FALSE
        /\ fds = 0
        /\ endless \in BOOLEAN

Tick == /\ now < MaxNow
        /\ now' = now + 1
        /\ UNCHANGED <<rvars, kind, flag, shown, got, at, history, fds, endless>>

Move(p, l) == at' = [at EXCEPT ![p] = l]

-------------------------------------------------------------------------------
\* Collections

\* How a collection begins: hsUsedMemSize takes the lock for all of it.
Collect(p) == Move(p, IF kind = "mem" THEN "c_sample" ELSE "c_first")

Done(p, ok) == /\ Move(p, IF p \in Threads THEN "w_done" ELSE IF ok THEN "g_read" ELSE "g_failed")
               /\ got' = [got EXCEPT ![p] = 0]

\* Fault: the collection itself raises the flag, as those of the other classes do.
MemSampleRaises(p) == /\ shown' = now
                      /\ flag' = TRUE
                      /\ UNCHANGED <<kind, now, since, fds, endless>>

\* get_numa_free_space_info()
MemSample(p) == /\ shown' = now
                /\ UNCHANGED <<kind, now, flag, since, fds, endless>>

CollectMem(p) == /\ at[p] = "c_sample"
                 /\ MemSample(p)
                 /\ Done(p, TRUE)
                 /\ UNCHANGED <<rvars, ran, endless>>

\* get_phy_cpu() opens /proc/stat and never closes it; without a descriptor it reads from
\* a null FILE.
CountsFds == kind = "cpu" /\ ~endless

Opened == IF CountsFds THEN fds + 1 ELSE fds

CanOpen == CountsFds => fds < MaxFds

CollectFirst(p) == /\ at[p] = "c_first"
                   /\ CanOpen
                   /\ got' = [got EXCEPT ![p] = now]
                   /\ fds' = Opened
                   /\ Move(p, IF kind = "cpu" THEN "c_second" ELSE "c_publish")
                   /\ UNCHANGED <<rvars, kind, now, flag, shown, history, endless>>

\* The second reading finds other CPUs than the first, if they have changed in between.
CollectSecond(p) == /\ at[p] = "c_second"
                    /\ CanOpen
                    /\ fds' = Opened
                    /\ \/ Move(p, "c_publish") /\ UNCHANGED got
                       \/ now # got[p] /\ Done(p, FALSE)
                    /\ UNCHANGED <<rvars, kind, now, flag, shown, history, endless>>

CollectCrashes(p) == /\ at[p] \in {"c_first", "c_second"}
                     /\ ~CanOpen
                     /\ crashed' = TRUE
                     /\ UNCHANGED <<stop_, thread_, wk, pc, target, sampler>>

CollectPublishes(p) == /\ at[p] = "c_publish"
                       /\ shown' = got[p]
                       /\ flag' = TRUE
                       /\ Done(p, TRUE)
                       /\ UNCHANGED <<rvars, kind, now, history, fds, endless>>

CollectStep(p) == /\ ~crashed
                  /\ \/ CollectMem(p) \/ CollectFirst(p) \/ CollectSecond(p)
                     \/ CollectCrashes(p) \/ CollectPublishes(p)

-------------------------------------------------------------------------------
\* Getters: get_used_mem_size(), get_cpu_usage(), get_total_mem_size()

Begin(c) == /\ ~crashed
            /\ pc[c] = "idle" /\ at[c] = "idle"
            /\ since' = [since EXCEPT ![c] = now]
            /\ Move(c, "g_check")
            /\ UNCHANGED <<rvars, kind, now, flag, shown, got, ran, fds, endless>>

\* The pause before the test, when a worker should be about to raise the flag, may be
\* too short or too long for it.
GetterChecks(c) == /\ ~crashed
                   /\ at[c] = "g_check"
                   /\ IF flag THEN Move(c, "g_trust") ELSE Collect(c)
                   /\ UNCHANGED <<rvars, kind, now, flag, shown, got, history, fds, endless>>

GetterReads(c) == /\ ~crashed
                  /\ at[c] \in {"g_trust", "g_read", "g_failed"}
                  /\ Move(c, "idle")
                  /\ since' = [since EXCEPT ![c] = 0]
                  /\ UNCHANGED <<rvars, kind, now, flag, shown, got, ran, fds, endless>>

GetterStep(c) == GetterChecks(c) \/ CollectStep(c) \/ GetterReads(c)

-------------------------------------------------------------------------------
\* run(), on the worker

\* Fault: the flag goes up before the first sample.
WorkerFirstLate(t) == /\ ~crashed
                      /\ wk[t] = "test" /\ at[t] = "idle" /\ kind = "mem"
                      /\ Move(t, "w_flag")
                      /\ UNCHANGED <<rvars, kind, now, flag, shown, got, history, fds, endless>>

\* hsUsedMemSize samples before its loop, and then raises the flag for good.
WorkerFirst(t) == /\ ~crashed
                  /\ wk[t] = "test" /\ at[t] = "idle" /\ kind = "mem"
                  /\ MemSample(t)
                  /\ Move(t, "w_flag")
                  /\ ran' = TRUE
                  /\ UNCHANGED <<rvars, got, endless>>

WorkerFlags(t) == /\ ~crashed
                  /\ at[t] = "w_flag"
                  /\ flag' = TRUE
                  /\ Move(t, "w_loop")
                  /\ UNCHANGED <<rvars, kind, now, shown, got, history, fds, endless>>

WorkerTests(t) == /\ kind = "cpu" \/ at[t] = "w_loop"
                  /\ RunTest(t)
                  /\ UNCHANGED sampler

\* Fault: a round collects nothing once there is something.
RoundKeeps(t) == /\ ~crashed
                 /\ wk[t] = "round" /\ at[t] \in {"idle", "w_loop"}
                 /\ IF flag THEN Move(t, "w_done") ELSE Collect(t)
                 /\ UNCHANGED <<rvars, kind, now, flag, shown, got, history, fds, endless>>

RoundBegins(t) == /\ ~crashed
                  /\ wk[t] = "round" /\ at[t] \in {"idle", "w_loop"}
                  /\ Collect(t)
                  /\ UNCHANGED <<rvars, kind, now, flag, shown, got, history, fds, endless>>

RoundEnds(t) == /\ at[t] = "w_done"
                /\ RunRound(t)
                /\ Move(t, "w_loop")
                /\ UNCHANGED <<kind, now, flag, shown, got, history, fds, endless>>

\* run() ends without clear(): flag and values stay.
WorkerEnds(t) == /\ RunClear(t)
                 /\ Move(t, "idle")
                 /\ UNCHANGED <<kind, now, flag, shown, got, history, fds, endless>>

WorkerStep(t) == \/ WorkerFirst(t) \/ WorkerFlags(t) \/ WorkerTests(t) \/ RoundBegins(t)
                 \/ CollectStep(t) \/ RoundEnds(t) \/ WorkerEnds(t)

-------------------------------------------------------------------------------
\* start() and stop(), by a caller that is not inside a getter

CallBegins(c) == /\ kind # "total"
                 /\ at[c] = "idle"
                 /\ \E op \in {"start", "stop"} : Call(c, op)
                 /\ UNCHANGED sampler

CallStep(c) == (StartStep(c) \/ StopStep(c)) /\ UNCHANGED sampler

Next == \/ Tick
        \/ \E c \in Callers : Begin(c) \/ GetterStep(c) \/ CallBegins(c) \/ CallStep(c)
        \/ \E t \in Threads : WorkerStep(t)

Spec == Init /\ [][Next]_vars

Fairness == /\ \A c \in Callers : WF_vars(GetterStep(c)) /\ WF_vars(CallStep(c))
            /\ \A t \in Threads : WF_vars(WorkerStep(t))

FairSpec == Spec /\ Fairness

-------------------------------------------------------------------------------
\* The inductive invariant: the flag, and what a getter has done, stand for a collection.
SampleInv == /\ kind \in {"mem", "cpu", "total"}
             /\ now \in Nat \ {0}
             /\ shown \in Nat
             /\ got \in [Procs -> Nat]
             /\ at \in [Procs -> AtLabels]
             /\ flag => shown # 0
             /\ \A p \in Procs : /\ at[p] \in {"g_trust", "g_read", "w_flag"} => shown # 0
                                 /\ at[p] \in {"c_second", "c_publish"} => got[p] # 0
                                 /\ at[p] \in {"c_second", "g_failed"} => kind = "cpu"

\* And for hsUsedMemSize: what is shown never goes back, and the flag is the worker's.
FreshInv == /\ since \in [Callers -> Nat]
            /\ kind = "mem" =>
                 /\ shown <= now
                 /\ flag => ran
                 /\ \A p \in Procs : /\ at[p] = "w_flag" => ran
                                     /\ at[p] \notin {"c_first", "c_second", "c_publish"}
                 /\ \A c \in Callers : /\ since[c] <= now
                                       /\ at[c] = "g_read" => shown >= since[c]
                                       /\ at[c] = "g_trust" => ran

\* No getter returns what the constructor left, or nothing at all, unless it is of
\* hsCpuUsage and its own collection has failed (hs_used_mem_size.cpp:49-89,
\* hs_cpu_usage.cpp:178-207, total_mem_size.cpp:38-57).
ReadsSample ==
    [][\A c \in Callers : at[c] # "idle" /\ at'[c] = "idle"
          => shown # 0 \/ (kind = "cpu" /\ at[c] = "g_failed")]_vars

\* As long as no worker has run, and whenever it collects itself, a getter of
\* hsUsedMemSize returns nothing older than its call, whoever else collects meanwhile
\* (hs_used_mem_size.cpp:66-89).
MemFresh ==
    [][\A c \in Callers : kind = "mem" /\ at[c] \in {"g_trust", "g_read"} /\ at'[c] = "idle"
          => shown >= since[c] \/ (at[c] = "g_trust" /\ ran)]_vars

\* What the machine shows while a worker runs is shown in the end, or something later is,
\* and from then on nothing older is, the late collections of getters and failed ones
\* notwithstanding, unless the worker is told to stop; for hsCpuUsage as long as the
\* process has descriptors (hs_used_mem_size.cpp:54-58, hs_cpu_usage.cpp:164-171).
UpToDate == \A n \in 1..MaxNow :
               (now = n /\ ActiveThreads # {} /\ (kind = "cpu" => endless))
                  ~> ([](shown >= n) \/ stop_)
================================================================================
