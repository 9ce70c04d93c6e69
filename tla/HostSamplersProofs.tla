--------------------------- MODULE HostSamplersProofs ---------------------------
(****************************************************************************)
(* Theorems about HostSamplers, for any callers, threads and classes.       *)
(****************************************************************************)
EXTENDS HostSamplers, TLAPS

LEMMA InitInv == Init => SampleInv
BY HostSamplersAssumption DEF Init, SampleInv, AtLabels, Procs

LEMMA TickInv == ASSUME SampleInv, Tick PROVE SampleInv'
BY DEF Tick, SampleInv

\* A collection publishes what it has read, and a getter that has published it may read.
LEMMA CollectInv == ASSUME SampleInv, NEW p \in Procs, CollectStep(p) PROVE SampleInv'
<1>1. CASE CollectMem(p)
  BY <1>1 DEF CollectMem, MemSample, Done, Move, SampleInv, AtLabels
<1>2. CASE CollectFirst(p)
  BY <1>2 DEF CollectFirst, Move, SampleInv, AtLabels
<1>3. CASE CollectSecond(p)
  BY <1>3 DEF CollectSecond, Done, Move, SampleInv, AtLabels
<1>4. CASE CollectCrashes(p)
  BY <1>4 DEF CollectCrashes, sampler, SampleInv
<1>5. CASE CollectPublishes(p)
  BY <1>5 DEF CollectPublishes, Done, Move, SampleInv, AtLabels
<1> QED
  BY <1>1, <1>2, <1>3, <1>4, <1>5 DEF CollectStep

LEMMA GetterInv == ASSUME SampleInv, NEW c \in Callers, Begin(c) \/ GetterStep(c) PROVE SampleInv'
<1>0. c \in Procs
  BY DEF Procs
<1>1. CASE Begin(c)
  BY <1>0, <1>1 DEF Begin, Move, SampleInv, AtLabels
<1>2. CASE GetterChecks(c)
  BY <1>0, <1>2 DEF GetterChecks, Collect, Move, SampleInv, AtLabels
<1>3. CASE GetterReads(c)
  BY <1>0, <1>3 DEF GetterReads, Move, SampleInv, AtLabels
<1> QED
  BY <1>0, <1>1, <1>2, <1>3, CollectInv DEF GetterStep

\* The flag of hsUsedMemSize goes up behind its first sample.
LEMMA WorkerInv == ASSUME SampleInv, NEW t \in Threads, WorkerStep(t) PROVE SampleInv'
<1>0. t \in Procs
  BY DEF Procs
<1>1. CASE WorkerFirst(t)
  BY <1>0, <1>1 DEF WorkerFirst, MemSample, Move, SampleInv, AtLabels
<1>2. CASE WorkerFlags(t)
  BY <1>0, <1>2 DEF WorkerFlags, Move, SampleInv, AtLabels
<1>3. CASE WorkerTests(t)
  BY <1>3 DEF WorkerTests, sampler, SampleInv
<1>4. CASE RoundBegins(t)
  BY <1>0, <1>4 DEF RoundBegins, Collect, Move, SampleInv, AtLabels
<1>5. CASE RoundEnds(t)
  BY <1>0, <1>5 DEF RoundEnds, Move, SampleInv, AtLabels
<1>6. CASE WorkerEnds(t)
  BY <1>0, <1>6 DEF WorkerEnds, Move, SampleInv, AtLabels
<1> QED
  BY <1>0, <1>1, <1>2, <1>3, <1>4, <1>5, <1>6, CollectInv DEF WorkerStep

LEMMA StepInv == SampleInv /\ [Next]_vars => SampleInv'
<1> SUFFICES ASSUME SampleInv, [Next]_vars PROVE SampleInv'
  OBVIOUS
<1>1. CASE UNCHANGED vars
  BY <1>1 DEF vars, sampler, SampleInv
<1>2. ASSUME NEW c \in Callers, CallBegins(c) \/ CallStep(c) PROVE SampleInv'
  BY <1>2 DEF CallBegins, CallStep, sampler, SampleInv
<1> QED
  BY <1>1, <1>2, TickInv, GetterInv, WorkerInv DEF Next

\* The flag, and what a getter or worker has done, stand for a collection that was made
\* (hs_used_mem_size.cpp:49-74, hs_cpu_usage.cpp:156-187, total_mem_size.cpp:26-43).
THEOREM Invariance == Spec => []SampleInv
<1> QED
  BY InitInv, StepInv, PTL DEF Spec

\* A getter is at the end of its call only where it reads.
LEMMA ReadsAtEnd == ASSUME SampleInv, [Next]_vars, NEW c \in Callers, at[c] # "idle", at'[c] = "idle"
                    PROVE  at[c] \in {"g_trust", "g_read", "g_failed"}
<1>0. c \in Procs /\ c \notin Threads
  BY HostSamplersAssumption DEF Procs
<1>1. CASE Tick \/ UNCHANGED vars
  BY <1>1 DEF Tick, vars, sampler
<1>2. ASSUME NEW p \in Procs, CollectStep(p) PROVE FALSE
  <2>1. CollectCrashes(p) => at' = at
    BY DEF CollectCrashes, sampler
  <2>2. at' = at \/ \E l \in AtLabels \ {"idle"} : at' = [at EXCEPT ![p] = l]
    BY <1>2, <2>1 DEF CollectStep, CollectMem, CollectFirst, CollectSecond, CollectPublishes, Done, Move, AtLabels
  <2> QED
    BY <1>0, <2>2 DEF SampleInv
<1>3. ASSUME NEW d \in Callers, Begin(d) \/ GetterChecks(d) PROVE FALSE
  <2>1. at' = at \/ \E l \in AtLabels \ {"idle"} : at' = [at EXCEPT ![d] = l]
    BY <1>3 DEF Begin, GetterChecks, Collect, Move, AtLabels
  <2> QED
    BY <1>0, <2>1 DEF SampleInv, Procs
<1>4. ASSUME NEW d \in Callers, GetterReads(d) PROVE at[c] \in {"g_trust", "g_read", "g_failed"}
  BY <1>0, <1>4 DEF GetterReads, Move, SampleInv, Procs
<1>5. ASSUME NEW d \in Callers, CallBegins(d) \/ CallStep(d) PROVE FALSE
  BY <1>5 DEF CallBegins, CallStep, sampler
<1>6. ASSUME NEW t \in Threads, WorkerStep(t), ~CollectStep(t) PROVE FALSE
  <2>1. WorkerTests(t) => at' = at
    BY DEF WorkerTests, sampler
  <2>2. at' = at \/ \E l \in AtLabels : at' = [at EXCEPT ![t] = l]
    BY <1>6, <2>1 DEF WorkerStep, WorkerFirst, WorkerFlags, RoundBegins, RoundEnds, WorkerEnds, Collect, Move, AtLabels
  <2> QED
    BY <1>0, <2>2 DEF SampleInv, Procs
<1>7. ASSUME NEW d \in Callers, GetterStep(d) PROVE at[c] \in {"g_trust", "g_read", "g_failed"}
  BY <1>2, <1>3, <1>4, <1>7 DEF GetterStep, Procs
<1>8. ASSUME NEW t \in Threads, WorkerStep(t) PROVE FALSE
  BY <1>2, <1>6, <1>8 DEF Procs
<1> QED
  BY <1>1, <1>3, <1>5, <1>7, <1>8 DEF Next

\* No getter of any of the three classes returns what the constructor left, unless its own
\* collection has failed (hs_used_mem_size.cpp:66-89, hs_cpu_usage.cpp:178-207,
\* total_mem_size.cpp:38-57).
THEOREM GettersReadSamples == Spec => ReadsSample
<1>1. SampleInv /\ [Next]_vars => [\A c \in Callers : at[c] # "idle" /\ at'[c] = "idle"
                                      => shown # 0 \/ (kind = "cpu" /\ at[c] = "g_failed")]_vars
  <2> SUFFICES ASSUME SampleInv, [Next]_vars, NEW c \in Callers, at[c] # "idle", at'[c] = "idle"
               PROVE  shown # 0 \/ (kind = "cpu" /\ at[c] = "g_failed")
    OBVIOUS
  <2>1. at[c] \in {"g_trust", "g_read", "g_failed"} /\ c \in Procs
    BY ReadsAtEnd DEF Procs
  <2> QED
    BY <2>1 DEF SampleInv
<1> QED
  BY <1>1, Invariance, PTL DEF Spec, ReadsSample
-------------------------------------------------------------------------------
\* hsUsedMemSize: a collection never goes back, and only its worker raises the flag.

\* A step that leaves what is shown, the flag and since[] alone and takes p nowhere that
\* stands for a sample.
LEMMA FreshElsewhere ==
  ASSUME SampleInv, FreshInv, NEW p \in Procs, NEW l, at' = [at EXCEPT ![p] = l],
         kind = "mem" => l \notin {"w_flag", "g_read", "g_trust", "c_first", "c_second", "c_publish"},
         UNCHANGED <<kind, now, flag, shown, history>>
  PROVE  FreshInv'
  BY HostSamplersAssumption DEF SampleInv, FreshInv, history, Procs

LEMMA CollectFresh == ASSUME SampleInv, FreshInv, NEW p \in Procs, CollectStep(p) PROVE FreshInv'
<1>1. CASE CollectMem(p)
  <2>1. /\ at' = [at EXCEPT ![p] = IF p \in Threads THEN "w_done" ELSE "g_read"]
        /\ shown' = now /\ UNCHANGED <<kind, now, flag, since, ran>>
    BY <1>1 DEF CollectMem, MemSample, Done, Move
  <2>2. kind = "mem" => \A c \in Callers : since[c] <= now /\ since[c] \in Nat
    BY DEF FreshInv
  <2> QED
    BY <2>1, <2>2, HostSamplersAssumption DEF SampleInv, FreshInv, Procs
<1>2. CASE CollectFirst(p) \/ CollectSecond(p) \/ CollectPublishes(p)
  <2>1. kind # "mem" /\ UNCHANGED <<kind, since>>
    BY <1>2 DEF CollectFirst, CollectSecond, CollectPublishes, FreshInv, history
  <2> QED
    BY <2>1 DEF FreshInv
<1>3. CASE CollectCrashes(p)
  BY <1>3 DEF CollectCrashes, sampler, history, FreshInv
<1> QED
  BY <1>1, <1>2, <1>3 DEF CollectStep

LEMMA GetterFresh == ASSUME SampleInv, FreshInv, NEW c \in Callers, Begin(c) \/ GetterStep(c)
                     PROVE  FreshInv'
<1>0. c \in Procs
  BY DEF Procs
<1>1. CASE Begin(c)
  <2>1. /\ at' = [at EXCEPT ![c] = "g_check"] /\ since' = [since EXCEPT ![c] = now]
        /\ UNCHANGED <<kind, now, flag, shown, ran>>
    BY <1>1 DEF Begin, Move
  <2> QED
    BY <1>0, <2>1 DEF SampleInv, FreshInv, Procs
<1>2. CASE GetterChecks(c)
  <2>1. UNCHANGED <<kind, now, flag, shown, history>>
    BY <1>2 DEF GetterChecks
  <2>2. CASE flag
    <3>1. at' = [at EXCEPT ![c] = "g_trust"]
      BY <1>2, <2>2 DEF GetterChecks, Move
    <3> QED
      BY <1>0, <2>1, <2>2, <3>1 DEF SampleInv, FreshInv, Procs, history
  <2>3. CASE ~flag
    <3>1. PICK l : /\ at' = [at EXCEPT ![c] = l]
                   /\ l = IF kind = "mem" THEN "c_sample" ELSE "c_first"
      BY <1>2, <2>3 DEF GetterChecks, Collect, Move
    <3> QED
      BY <1>0, <2>1, <3>1, FreshElsewhere
  <2> QED
    BY <2>2, <2>3
<1>3. CASE GetterReads(c)
  <2>1. /\ at' = [at EXCEPT ![c] = "idle"] /\ since' = [since EXCEPT ![c] = 0]
        /\ UNCHANGED <<kind, now, flag, shown, ran>>
    BY <1>3 DEF GetterReads, Move
  <2> QED
    BY <1>0, <2>1 DEF SampleInv, FreshInv, Procs
<1> QED
  BY <1>0, <1>1, <1>2, <1>3, CollectFresh DEF GetterStep

LEMMA WorkerFresh == ASSUME SampleInv, FreshInv, NEW t \in Threads, WorkerStep(t)
                     PROVE  FreshInv'
<1>0. t \in Procs /\ t \notin Callers
  BY HostSamplersAssumption DEF Procs
<1>1. CASE WorkerFirst(t)
  <2>1. /\ at' = [at EXCEPT ![t] = "w_flag"] /\ shown' = now /\ ran' = TRUE
        /\ UNCHANGED <<kind, now, flag, since>> /\ kind = "mem"
    BY <1>1 DEF WorkerFirst, MemSample, Move
  <2> QED
    BY <1>0, <2>1 DEF SampleInv, FreshInv, Procs
<1>2. CASE WorkerFlags(t)
  <2>1. /\ at' = [at EXCEPT ![t] = "w_loop"] /\ at[t] = "w_flag"
        /\ UNCHANGED <<kind, now, shown, since, ran>>
    BY <1>2 DEF WorkerFlags, Move, history
  <2> QED
    BY <1>0, <2>1 DEF SampleInv, FreshInv, Procs
<1>3. CASE WorkerTests(t)
  BY <1>3 DEF WorkerTests, sampler, history, FreshInv
<1>4. CASE RoundBegins(t)
  <2>1. PICK l : /\ at' = [at EXCEPT ![t] = l]
                 /\ l = IF kind = "mem" THEN "c_sample" ELSE "c_first"
    BY <1>4 DEF RoundBegins, Collect, Move
  <2> QED
    BY <1>0, <1>4, <2>1, FreshElsewhere DEF RoundBegins
<1>5. CASE RoundEnds(t)
  BY <1>0, <1>5, FreshElsewhere DEF RoundEnds, Move
<1>6. CASE WorkerEnds(t)
  BY <1>0, <1>6, FreshElsewhere DEF WorkerEnds, Move
<1> QED
  BY <1>0, <1>1, <1>2, <1>3, <1>4, <1>5, <1>6, CollectFresh DEF WorkerStep

LEMMA StepFresh == SampleInv /\ FreshInv /\ [Next]_vars => FreshInv'
<1> SUFFICES ASSUME SampleInv, FreshInv, [Next]_vars PROVE FreshInv'
  OBVIOUS
<1>1. CASE UNCHANGED vars
  BY <1>1 DEF vars, sampler, history, FreshInv
<1>2. CASE Tick
  <2>1. now' = now + 1 /\ UNCHANGED <<kind, flag, shown, at, since, ran>>
    BY <1>2 DEF Tick, history
  <2> QED
    BY <2>1 DEF SampleInv, FreshInv
<1>3. ASSUME NEW c \in Callers, CallBegins(c) \/ CallStep(c) PROVE FreshInv'
  BY <1>3 DEF CallBegins, CallStep, sampler, history, FreshInv
<1> QED
  BY <1>1, <1>2, <1>3, GetterFresh, WorkerFresh DEF Next

\* A getter of hsUsedMemSize that has collected, or that is called before any worker has
\* run, returns nothing older than its call, whatever other getters and the worker
\* publish meanwhile (hs_used_mem_size.cpp:66-89).
THEOREM MemNeverOlder == Spec => MemFresh
<1>1. Init => FreshInv
  BY HostSamplersAssumption DEF Init, FreshInv, Procs
<1>2. FreshInv /\ [Next]_vars =>
        [\A c \in Callers : kind = "mem" /\ at[c] \in {"g_trust", "g_read"} /\ at'[c] = "idle"
            => shown >= since[c] \/ (at[c] = "g_trust" /\ ran)]_vars
  BY DEF FreshInv
<1> QED
  BY <1>1, <1>2, StepFresh, Invariance, PTL DEF Spec, MemFresh
================================================================================
