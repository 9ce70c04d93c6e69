--------------------------- MODULE VmCacheMissProofs ---------------------------
(****************************************************************************)
(* Theorems about VmCacheMiss: for any callers and threads, that no perf    *)
(* event leaks; with one program thread and the worker, that the notes lead *)
(* to the threads that are listed and that each sample is counted once.     *)
(****************************************************************************)
EXTENDS VmCacheMiss, RunnableProofs

LEMMA SomeMayFail == ASSUME NEW S, NEW R \in MayFail(S) PROVE R \subseteq S
  BY DEF MayFail

\* start_sample() without its local definitions.
LEMMA SampleStarts ==
  ASSUME NEW p, StartSample(p)
  PROVE  \E refused \in SUBSET (to_start_watching_ \ cache_miss_data_), n \in 0..3 :
           LET new == to_start_watching_ \ cache_miss_data_
               open == cache_miss_data_ \cup (new \ refused) IN
           /\ cache_miss_data_' = open \ to_stop_watching_
           /\ fds' = [t \in Tids |-> IF t \in open \cap to_stop_watching_ THEN {}
                                     ELSE IF t \in new
                                     THEN fds[t] \cup LeftOpen(IF t \in refused THEN n ELSE 4)
                                     ELSE fds[t]]
           /\ to_start_watching_' = {}
           /\ to_stop_watching_' \subseteq cache_miss_data_'
           /\ missed' = (missed \ new) \cup refused \cup to_stop_watching_'
<1> DEFINE new == to_start_watching_ \ cache_miss_data_
<1>1. PICK refused \in MayFail(new), n \in 0..3 :
        LET open == cache_miss_data_ \cup (new \ refused) IN
        /\ cache_miss_data_' = open \ to_stop_watching_
        /\ fds' = [t \in Tids |-> IF t \in open \cap to_stop_watching_ THEN {}
                                  ELSE IF t \in new
                                  THEN fds[t] \cup LeftOpen(IF t \in refused THEN n ELSE 4)
                                  ELSE fds[t]]
        /\ to_start_watching_' = {}
        /\ \E unread \in ReadFails(cache_miss_data_') :
             /\ to_stop_watching_' = unread
             /\ missed' = (missed \ new) \cup refused \cup unread
  BY Zenon DEF StartSample
<1>2. refused \subseteq new
  BY <1>1, SomeMayFail
<1>3. PICK unread \in ReadFails(cache_miss_data_') :
        /\ to_stop_watching_' = unread
        /\ missed' = (missed \ new) \cup refused \cup unread
  BY <1>1
<1>4. to_stop_watching_' \subseteq cache_miss_data_'
  BY <1>3, SomeMayFail DEF ReadFails
<1> QED
  BY <1>1, <1>2, <1>3, <1>4

\* stop_sample() notes unreadable entries only.
LEMMA SampleStops ==
  ASSUME NEW p, StopSample(p)
  PROVE  \E unread \in SUBSET cache_miss_data_ :
           /\ to_stop_watching_' = to_stop_watching_ \cup unread
           /\ missed' = missed \cup unread
<1>1. PICK unread \in ReadFails(cache_miss_data_) :
        /\ to_stop_watching_' = to_stop_watching_ \cup unread
        /\ missed' = missed \cup unread
  BY DEF StopSample
<1> QED
  BY <1>1, SomeMayFail DEF ReadFails

-------------------------------------------------------------------------------
\* What is open, for any callers and threads.

LEMMA MovesTyped == ASSUME at \in [Procs -> AtLabels], NEW p \in Procs, NEW from, NEW to \in AtLabels,
                           Move(p, from, to)
                    PROVE  at' \in [Procs -> AtLabels]
  BY DEF Move

LEMMA CacheInitFd == Init => FdInv
  BY VmCacheMissAssumption DEF Init, FdInv, NoFdLeak, AtLabels

LEMMA RefreshFd == ASSUME FdInv, NEW p \in Procs, RefreshStep(p) \/ RefreshThrows(p) PROVE FdInv'
<1>0. {"idle", "r_start", "r_stop", "r_flag"} \subseteq AtLabels /\ at \in [Procs -> AtLabels]
  BY DEF AtLabels, Refreshing, FdInv
<1>1. CASE RefreshList(p)
  <2>1. at' \in [Procs -> AtLabels]
    BY <1>0, <1>1, MovesTyped DEF RefreshList
  <2>2. sums' \in [Tids -> Nat]
    BY <1>1 DEF RefreshList
  <2>3. /\ {last_tids_', to_start_watching_', to_stop_watching_', volatile_'} \subseteq SUBSET Tids
        /\ UNCHANGED <<listed, cache_miss_data_, missed, fds>>
    BY <1>1 DEF RefreshList, FdInv, ToStart, ToStop, perf
  <2> QED
    BY <2>1, <2>2, <2>3 DEF FdInv, NoFdLeak
<1>2. CASE StartSample(p)
  <2>1. at' \in [Procs -> AtLabels] /\ UNCHANGED <<listed, last_tids_, volatile_, sums>>
    BY <1>0, <1>2, MovesTyped DEF StartSample, lists
  <2> DEFINE new == to_start_watching_ \ cache_miss_data_
  <2>2. PICK refused \in SUBSET new, n \in 0..3 :
           LET open == cache_miss_data_ \cup (new \ refused) IN
           /\ cache_miss_data_' = open \ to_stop_watching_
           /\ fds' = [t \in Tids |-> IF t \in open \cap to_stop_watching_ THEN {}
                                     ELSE IF t \in new
                                     THEN fds[t] \cup LeftOpen(IF t \in refused THEN n ELSE 4)
                                     ELSE fds[t]]
           /\ to_start_watching_' = {}
           /\ to_stop_watching_' \subseteq cache_miss_data_'
           /\ missed' = (missed \ new) \cup refused \cup to_stop_watching_'
    BY <1>2, SampleStarts
  <2>3. {cache_miss_data_', to_start_watching_', to_stop_watching_', missed'} \subseteq SUBSET Tids
    BY <2>2 DEF FdInv
  <2>4. LeftOpen(n) = {} /\ LeftOpen(4) = Events
    BY <2>2 DEF LeftOpen
  <2>5. \A t \in Tids : fds[t] = IF t \in cache_miss_data_ THEN Events ELSE {}
    BY DEF FdInv, NoFdLeak
  <2>6. \A t \in Tids : fds'[t] = IF t \in cache_miss_data_' THEN Events ELSE {}
    BY <2>2, <2>4, <2>5
  <2>7. fds' \in [Tids -> SUBSET Events]
    BY <2>2, <2>6
  <2> QED
    BY <2>1, <2>3, <2>6, <2>7 DEF FdInv, NoFdLeak
<1>3. CASE StopSample(p)
  <2>1. at' \in [Procs -> AtLabels]
    BY <1>0, <1>3, MovesTyped DEF StopSample
  <2>2. sums' \in [Tids -> Nat]
    BY <1>3 DEF StopSample, FdInv
  <2>3. /\ {to_stop_watching_', missed'} \subseteq SUBSET Tids
        /\ UNCHANGED <<listed, last_tids_, volatile_, to_start_watching_, cache_miss_data_, fds>>
    BY <1>3, SampleStops DEF StopSample, FdInv, lists
  <2> QED
    BY <2>1, <2>2, <2>3 DEF FdInv, NoFdLeak
<1>4. CASE RefreshListThrows(p)
  <2>1. at' \in [Procs -> AtLabels]
    BY <1>0, <1>4, MovesTyped DEF RefreshListThrows
  <2> QED
    BY <1>4, <2>1 DEF RefreshListThrows, FdInv, NoFdLeak, lists, notes, perf
<1>5. CASE StopSampleThrows(p)
  <2>1. at' \in [Procs -> AtLabels]
    BY <1>0, <1>5, MovesTyped DEF StopSampleThrows
  <2>2. sums' \in [Tids -> Nat]
    BY <1>5 DEF StopSampleThrows, FdInv
  <2> QED
    BY <1>5, <2>1, <2>2 DEF StopSampleThrows, FdInv, NoFdLeak, lists, notes, perf
<1> QED
  BY <1>1, <1>2, <1>3, <1>4, <1>5 DEF RefreshStep, RefreshThrows

LEMMA FlagFd == ASSUME FdInv, NEW p \in Procs, NEW to \in AtLabels, RaiseFlag(p, to) PROVE FdInv'
<1>1. at' \in [Procs -> AtLabels]
  BY MovesTyped DEF RaiseFlag, FdInv
<1> QED
  BY <1>1 DEF RaiseFlag, FdInv, NoFdLeak, lists, notes, perf

\* A step that only moves.
LEMMA MoveFd == ASSUME FdInv, NEW p \in Procs, NEW from, NEW to \in AtLabels, Move(p, from, to),
                       UNCHANGED <<listed, lists, notes, perf, sums>>
                PROVE  FdInv'
<1>1. at' \in [Procs -> AtLabels]
  BY MovesTyped DEF FdInv
<1> QED
  BY <1>1 DEF FdInv, NoFdLeak, lists, notes, perf

LEMMA ClearFd == ASSUME FdInv, NEW t \in Threads, WorkerClears(t) PROVE FdInv'
<1>1. /\ fds' = [u \in Tids |-> IF u \in cache_miss_data_ THEN {} ELSE fds[u]]
      /\ cache_miss_data_' = {} /\ to_start_watching_' = {} /\ to_stop_watching_' = {}
      /\ last_tids_' = {} /\ volatile_' = {} /\ sums' = [u \in Tids |-> 0]
      /\ UNCHANGED <<listed, missed, at>>
  BY DEF WorkerClears, ClearSamples
<1>2. \A u \in Tids : fds'[u] = {}
  BY <1>1 DEF FdInv, NoFdLeak
<1> QED
  BY <1>1, <1>2 DEF FdInv, NoFdLeak

LEMMA StepFd == ASSUME FdInv, [Next]_vars PROVE FdInv'
<1>0. /\ \A c \in Callers : c \in Procs
      /\ \A t \in Threads : t \in Procs
      /\ {"idle", "g_joinable", "g_wait", "g_read", "hook", "r_list"} \subseteq AtLabels
  BY DEF Procs, AtLabels, Refreshing
<1>1. CASE UNCHANGED vmiss
  BY <1>1 DEF vmiss, FdInv, NoFdLeak, lists, notes, perf
<1>2. CASE Churn
  <2>1. listed' \subseteq Tids
    BY <1>2 DEF Churn, FdInv
  <2> QED
    BY <1>2, <2>1 DEF Churn, FdInv, NoFdLeak, lists, notes, perf
<1>3. ASSUME NEW c \in Callers, NEW from, NEW to \in AtLabels, GetterMoves(c, from, to) PROVE FdInv'
  BY <1>0, <1>3, MoveFd DEF GetterMoves
<1>4. ASSUME NEW c \in Callers, Begin(c) \/ GetterJoinable(c) \/ GetterPoll(c) \/ GetterRead(c)
      PROVE  FdInv'
  <2>1. CASE Begin(c)
    BY <1>0, <1>3, <2>1 DEF Begin
  <2>2. CASE GetterJoinable(c)
    BY <1>0, <1>3, <2>2 DEF GetterJoinable
  <2>3. CASE GetterPoll(c) \/ GetterRead(c)
    BY <1>0, <1>3, <2>3 DEF GetterPoll, GetterRead
  <2> QED
    BY <1>4, <2>1, <2>2, <2>3
<1>5. ASSUME NEW c \in Callers, GetterRefresh(c) PROVE FdInv'
  BY <1>0, <1>5, RefreshFd, FlagFd DEF GetterRefresh
<1>6. ASSUME NEW c \in Callers, Unhook(c) \/ Hook(c) PROVE FdInv'
  <2>1. CASE Unhook(c)
    BY <1>0, <2>1, MoveFd DEF Unhook
  <2>2. CASE Hook(c)
    BY <1>0, <2>2, MoveFd DEF Hook
  <2> QED
    BY <1>6, <2>1, <2>2
<1>7. ASSUME NEW t \in Threads, WorkerStep(t) PROVE FdInv'
  <2>1. CASE RunTest(t) /\ UNCHANGED vmiss
    BY <1>1, <2>1
  <2>2. CASE RoundBegins(t)
    BY <1>0, <2>2, MoveFd DEF RoundBegins
  <2>3. CASE RoundGoes(t) \/ RoundThrows(t)
    BY <1>0, <2>3, RefreshFd DEF RoundGoes, RoundThrows
  <2>4. CASE RoundEnds(t)
    BY <1>0, <2>4, FlagFd DEF RoundEnds
  <2>5. CASE WorkerClears(t)
    BY <2>5, ClearFd
  <2> QED
    BY <1>7, <2>1, <2>2, <2>3, <2>4, <2>5 DEF WorkerStep
<1> QED
  BY <1>1, <1>2, <1>4, <1>5, <1>6, <1>7 DEF Next, vars, CallBegins, CallStep

\* Whatever the program's threads and the workers do at the same time, and whatever cannot
\* be opened or read, all four events are open for every thread that has an entry and none
\* for any other (cache_miss.cpp:94-159, 235-258).
THEOREM EventsAreOfEntries == Spec => []NoFdLeak
<1>1. FdInv => NoFdLeak
  BY DEF FdInv
<1> QED
  BY CacheInitFd, StepFd, <1>1, PTL DEF Spec

-------------------------------------------------------------------------------
\* Who refreshes, with one program thread.
OneThread == \A c, d \in Callers : c = d

LEMMA CacheInitTurn == Init => TurnInv
<1>1. Init => RInv
  BY InitInv DEF Init
<1> QED
  BY <1>1 DEF Init, TurnInv, Procs, Refreshing

\* Nobody is in a call of start() or stop() while the program is in a getter.
LEMMA IsStopped == ASSUME TurnInv, OneThread, NEW c \in Callers, pc[c] = "idle"
                   PROVE  Stopped \/ Running
<1>1. \A d \in Callers : ~InTurn(d)
  BY DEF OneThread, InTurn, StartPcs, StopPcs
<1> QED
  BY <1>1 DEF TurnInv, RInv

\* A worker that moves is not a stopped one, so that no caller refreshes.
LEMMA WorkerAlone == ASSUME TurnInv, NEW t \in Threads, wk[t] \in Active
                     PROVE  /\ \A c \in Callers : at[c] \notin Refreshing
                            /\ \A u \in Threads : at[u] \in Refreshing => u = t
<1>1. ~Stopped
  BY DEF Stopped, Active
<1>2. AtMostOneWorker
  BY WorkersOfInv DEF TurnInv
<1> QED
  BY <1>1, <1>2 DEF TurnInv, AtMostOneWorker, ActiveThreads, Active

LEMMA SoleRefresher == ASSUME TurnInv, OneThread, NEW p \in Procs, NEW q \in Procs,
                              at[p] \in Refreshing, at[q] \in Refreshing
                       PROVE  p = q
<1>1. ASSUME NEW t \in Threads, at[t] \in Refreshing PROVE wk[t] \in Active
  BY <1>1 DEF TurnInv, Active
<1>2. CASE p \in Threads
  BY <1>1, <1>2, WorkerAlone DEF Procs
<1>3. CASE q \in Threads
  BY <1>1, <1>3, WorkerAlone DEF Procs
<1> QED
  BY <1>2, <1>3 DEF Procs, OneThread

\* A caller that goes where it may.
LEMMA CallerMovesTurn == ASSUME TurnInv, FdInv, NEW c \in Callers, NEW from, NEW to, Move(c, from, to),
                                UNCHANGED rvars, pc[c] = "idle", to \in Refreshing => Stopped
                         PROVE  TurnInv'
<1>1. RInv' /\ UNCHANGED <<stop_, thread_, wk, pc>> /\ (Stopped' <=> Stopped)
  BY DEF TurnInv, rvars, RInv, RTypeOK, OneInTurn, InTurn, CallInv, Stopped, Running, Stopping, Only
<1>2. at' = [at EXCEPT ![c] = to] /\ c \notin Threads /\ at \in [Procs -> AtLabels]
  BY VmCacheMissAssumption DEF Move, FdInv
<1> QED
  BY <1>1, <1>2 DEF TurnInv, Procs

\* What the worker does to its own place and to where it is in run().
LEMMA WorkerMovesTurn == ASSUME TurnInv, FdInv, RInv', NEW t \in Threads, wk[t] \in Active, pc' = pc,
                                \A u \in Threads \ {t} : wk'[u] = wk[u],
                                NEW to \in Refreshing \cup {"idle"}, at' = [at EXCEPT ![t] = to],
                                to \in Refreshing => wk'[t] = "round"
                         PROVE  TurnInv'
<1>1. at \in [Procs -> AtLabels] /\ t \in Procs /\ \A c \in Callers : c # t
  BY VmCacheMissAssumption DEF FdInv, Procs
<1>2. \A c \in Callers : at'[c] = at[c] /\ at'[c] \notin Refreshing
  BY <1>1, WorkerAlone DEF Procs
<1>3. \A u \in Threads \ {t} : at'[u] = at[u]
  BY <1>1 DEF Procs
<1>4. at'[t] = to
  BY <1>1
<1> QED
  BY <1>2, <1>3, <1>4 DEF TurnInv

LEMMA StepTurn == ASSUME TurnInv, FdInv, OneThread, Serialised = TRUE, [Next]_vars
                  PROVE  TurnInv'
<1>0. RInv /\ at \in [Procs -> AtLabels]
  BY DEF TurnInv, FdInv
<1>1. CASE UNCHANGED <<rvars, at>>
  BY <1>1, <1>0 DEF rvars, TurnInv, RInv, RTypeOK, OneInTurn, InTurn, CallInv, Stopped, Running, Stopping, Only
<1>2. ASSUME NEW c \in Callers, CallBegins(c) \/ CallStep(c) PROVE TurnInv'
  <2>1. at' = at /\ (\/ \E op \in {"start", "stop"} : Call(c, op)
                     \/ StartStep(c) \/ StopStep(c))
    BY <1>2 DEF CallBegins, CallStep, vmiss
  <2>2. RInv'
    BY <1>0, <2>1, NextInv DEF RNext
  <2>3. at[c] = "idle"
    <3>1. CASE CallBegins(c)
      BY <3>1 DEF CallBegins
    <3>2. CASE CallStep(c)
      <4>1. pc[c] # "idle"
        BY <3>2 DEF CallStep, StartStep, StopStep, StartCheck, StartReset, StartFlag, StartSpawn,
           StartPublish, StopCheck, StopFlag, StopJoinable, StopJoin
      <4> QED
        BY <4>1 DEF TurnInv
    <3> QED
      BY <1>2, <3>1, <3>2
  <2>4. \A d \in Callers : at'[d] = "idle"
    BY <2>1, <2>3 DEF OneThread
  <2>5. \A t \in Threads : wk[t] = "round" => wk'[t] = "round"
    BY <1>0, <2>1, CallKeepsRounds
  <2> QED
    BY <2>1, <2>2, <2>4, <2>5 DEF TurnInv, Refreshing
<1>3. ASSUME NEW c \in Callers, Begin(c) \/ GetterJoinable(c) \/ GetterPoll(c) \/ GetterRead(c)
      PROVE  TurnInv'
  <2>1. /\ UNCHANGED rvars /\ pc[c] = "idle"
        /\ \E from, to : Move(c, from, to) /\ (to \in Refreshing => GetterJoinable(c) /\ to = "r_list")
    <3>1. CASE Begin(c)
      BY <3>1 DEF Begin, GetterMoves, Refreshing
    <3>2. CASE GetterJoinable(c)
      <4>1. /\ UNCHANGED rvars
            /\ Move(c, "g_joinable", IF thread_ # NoThread /\ Unjoined(thread_) THEN "g_wait" ELSE "r_list")
        BY <3>2 DEF GetterJoinable, GetterMoves
      <4>2. pc[c] = "idle"
        BY <4>1 DEF TurnInv, Move
      <4>3. (IF thread_ # NoThread /\ Unjoined(thread_) THEN "g_wait" ELSE "r_list") \in {"g_wait", "r_list"}
        OBVIOUS
      <4> QED
        BY <3>2, <4>1, <4>2, <4>3 DEF Refreshing
    <3>3. CASE GetterPoll(c) \/ GetterRead(c)
      BY <3>3 DEF GetterPoll, GetterRead, GetterMoves, Move, Refreshing, TurnInv
    <3> QED
      BY <1>3, <3>1, <3>2, <3>3
  <2>2. PICK from, to : Move(c, from, to) /\ (to \in Refreshing => GetterJoinable(c) /\ to = "r_list")
    BY <2>1
  <2>3. to \in Refreshing => Stopped
    <3> SUFFICES ASSUME GetterJoinable(c), to = "r_list" PROVE Stopped
      BY <2>2
    <3>1. ~(thread_ # NoThread /\ Unjoined(thread_))
      <4>1. at'[c] = IF thread_ # NoThread /\ Unjoined(thread_) THEN "g_wait" ELSE "r_list"
        BY <1>0 DEF GetterJoinable, GetterMoves, Move, Procs
      <4>2. at'[c] = "r_list"
        BY <1>0, <2>2 DEF Move, Procs
      <4> QED
        BY <4>1, <4>2
    <3>2. ~Running
      BY <3>1, RunnableAssumption DEF Running, Only, Unjoined, Active
    <3> QED
      BY <2>1, <3>2, IsStopped
  <2> QED
    BY <2>1, <2>2, <2>3, CallerMovesTurn
<1>4. ASSUME NEW c \in Callers, GetterRefresh(c) PROVE TurnInv'
  <2>1. at[c] \in Refreshing /\ UNCHANGED rvars /\ \E from, to : Move(c, from, to)
    BY <1>4 DEF GetterRefresh, RefreshStep, RefreshThrows, RefreshList, StartSample, StopSample,
       RefreshListThrows, StopSampleThrows, RaiseFlag, Move, Refreshing
  <2>2. pc[c] = "idle" /\ Stopped
    BY <2>1 DEF TurnInv, Refreshing
  <2> QED
    BY <2>1, <2>2, CallerMovesTurn
<1>5. ASSUME NEW c \in Callers, Unhook(c) \/ Hook(c) PROVE TurnInv'
  <2>1. UNCHANGED rvars /\ \E from, to : Move(c, from, to) /\ to \notin Refreshing
    BY <1>5 DEF Unhook, Hook, Refreshing
  <2>2. pc[c] = "idle"
    BY <1>5 DEF Unhook, Hook, Move, TurnInv
  <2> QED
    BY <2>1, <2>2, CallerMovesTurn
<1>6. ASSUME NEW t \in Threads, WorkerStep(t) PROVE TurnInv'
  <2>1. CASE RunTest(t) /\ UNCHANGED vmiss
    <3>1. RInv' /\ wk[t] = "test" /\ pc' = pc /\ \A u \in Threads \ {t} : wk'[u] = wk[u]
      <4>1. RInv'
        BY <1>0, <2>1, NextInv DEF RNext, Worker
      <4> QED
        BY <1>0, <2>1, <4>1 DEF RunTest, WorkerGoto, RInv, RTypeOK
    <3>2. at[t] = "idle" /\ at' = [at EXCEPT ![t] = "idle"]
      BY <1>0, <2>1, <3>1 DEF TurnInv, vmiss
    <3> QED
      BY <3>1, <3>2, WorkerMovesTurn DEF Active, Refreshing
  <2>2. CASE RoundBegins(t)
    <3>1. wk[t] = "round" /\ UNCHANGED rvars /\ at' = [at EXCEPT ![t] = "r_list"]
      BY <2>2 DEF RoundBegins, Move
    <3>2. RInv'
      BY <1>0, <3>1, CrashKeeps DEF rvars, RInv, RTypeOK
    <3> QED
      BY <3>1, <3>2, WorkerMovesTurn DEF Active, Refreshing, rvars
  <2>3. CASE RoundGoes(t) \/ RoundThrows(t)
    <3>1. /\ at[t] \in Refreshing
          /\ UNCHANGED <<stop_, thread_, wk, pc, target>> /\ crashed' \in BOOLEAN
          /\ \E to \in Refreshing \cup {"idle"} : at' = [at EXCEPT ![t] = to]
      BY <1>0, <2>3 DEF RoundGoes, RoundThrows, RefreshStep, RefreshThrows, RefreshList, StartSample,
         StopSample, RefreshListThrows, StopSampleThrows, Move, Refreshing, rvars, RInv, RTypeOK
    <3>2. RInv' /\ wk[t] = "round"
      BY <1>0, <3>1, CrashKeeps DEF TurnInv
    <3> QED
      BY <3>1, <3>2, WorkerMovesTurn DEF Active
  <2>4. CASE RoundEnds(t)
    <3>1. RInv' /\ wk[t] = "round" /\ pc' = pc /\ \A u \in Threads \ {t} : wk'[u] = wk[u]
      <4>1. RInv'
        BY <1>0, <2>4, NextInv DEF RNext, Worker, RoundEnds
      <4> QED
        BY <1>0, <2>4, <4>1 DEF RoundEnds, RunRound, WorkerGoto, RInv, RTypeOK
    <3>2. at' = [at EXCEPT ![t] = "idle"]
      BY <2>4 DEF RoundEnds, RaiseFlag, Move
    <3> QED
      BY <3>1, <3>2, WorkerMovesTurn DEF Active, Refreshing
  <2>5. CASE WorkerClears(t)
    <3>1. RInv' /\ wk[t] = "clear" /\ pc' = pc /\ \A u \in Threads \ {t} : wk'[u] = wk[u]
      <4>1. RInv'
        BY <1>0, <2>5, NextInv DEF RNext, Worker, WorkerClears
      <4> QED
        BY <1>0, <2>5, <4>1 DEF WorkerClears, RunClear, WorkerGoto, RInv, RTypeOK
    <3>2. at[t] = "idle" /\ at' = [at EXCEPT ![t] = "idle"]
      BY <1>0, <2>5, <3>1 DEF TurnInv, WorkerClears, Procs
    <3> QED
      BY <3>1, <3>2, WorkerMovesTurn DEF Active, Refreshing
  <2> QED
    BY <1>6, <2>1, <2>2, <2>3, <2>4, <2>5 DEF WorkerStep
<1>7. CASE Churn \/ UNCHANGED vars
  BY <1>1, <1>7 DEF Churn, vars, vmiss
<1> QED
  BY <1>2, <1>3, <1>4, <1>5, <1>6, <1>7 DEF Next

-------------------------------------------------------------------------------
\* What the notes and the sums say, with one program thread.

LEMMA CacheInitNotes == Init => NoteInv /\ SumInv
  BY DEF Init, NoteInv, Settled, SomeoneAt, SumInv, CountedOnce

\* A refresher that goes from one place to another is the only one.
LEMMA SoleMoves == ASSUME TurnInv, FdInv, OneThread, NEW p \in Procs, NEW from \in Refreshing, NEW to,
                          Move(p, from, to), NEW S \in SUBSET Refreshing
                   PROVE  /\ SomeoneAt(S) <=> from \in S
                          /\ SomeoneAt(S)' <=> to \in S
<1>1. \A q \in Procs \ {p} : at[q] \notin Refreshing
  BY SoleRefresher DEF Move
<1>2. at'[p] = to /\ \A q \in Procs \ {p} : at'[q] = at[q]
  BY DEF Move, FdInv
<1> QED
  BY <1>1, <1>2 DEF SomeoneAt, Move

LEMMA ListNotes == ASSUME FdInv, Settled, NEW p, RefreshList(p) PROVE Noted'
<1>1. /\ to_start_watching_' = to_start_watching_ \cup (listed \ last_tids_)
      /\ to_stop_watching_' = to_stop_watching_ \cup (last_tids_ \ listed)
      /\ last_tids_' = listed
      /\ UNCHANGED <<cache_miss_data_, missed>>
  BY DEF RefreshList, ToStart, ToStop, perf
<1>2. /\ to_start_watching_ = {}
      /\ to_stop_watching_ \subseteq cache_miss_data_ /\ to_stop_watching_ \subseteq missed
      /\ cache_miss_data_ \subseteq last_tids_
      /\ last_tids_ \ cache_miss_data_ \subseteq missed
  BY DEF Settled
<1> QED
  BY <1>1, <1>2 DEF Noted

LEMMA StartNotes == ASSUME FdInv, Noted, NEW p, StartSample(p) PROVE Settled'
<1> DEFINE new == to_start_watching_ \ cache_miss_data_
<1>1. PICK refused \in SUBSET new :
        /\ cache_miss_data_' = (cache_miss_data_ \cup (new \ refused)) \ to_stop_watching_
        /\ to_start_watching_' = {}
        /\ to_stop_watching_' \subseteq cache_miss_data_'
        /\ missed' = (missed \ new) \cup refused \cup to_stop_watching_'
        /\ last_tids_' = last_tids_
  BY SampleStarts DEF StartSample, lists
<1>2. new = to_start_watching_ /\ new \cap to_stop_watching_ = {} /\ new \subseteq last_tids_
  BY DEF Noted
<1>3. cache_miss_data_' \subseteq last_tids_'
  BY <1>1, <1>2 DEF Noted
<1>4. last_tids_' \ cache_miss_data_' \subseteq missed'
  BY <1>1, <1>2 DEF Noted
<1> QED
  BY <1>1, <1>3, <1>4 DEF Settled

LEMMA StopNotes == ASSUME Settled, NEW p, StopSample(p) PROVE Settled'
<1>1. PICK unread \in SUBSET cache_miss_data_ :
        /\ to_stop_watching_' = to_stop_watching_ \cup unread
        /\ missed' = missed \cup unread
  BY SampleStops
<1>2. UNCHANGED <<last_tids_, to_start_watching_, cache_miss_data_>>
  BY DEF StopSample, lists
<1> QED
  BY <1>1, <1>2 DEF Settled

LEMMA RefreshNotes == ASSUME TurnInv, FdInv, OneThread, NoteInv, NEW p \in Procs,
                             RefreshStep(p) \/ RefreshThrows(p)
                      PROVE  NoteInv'
<1>1. CASE RefreshList(p)
  <2>1. ~SomeoneAt({"r_start"}) /\ SomeoneAt({"r_start"})'
    BY <1>1, SoleMoves DEF RefreshList, Refreshing
  <2> QED
    BY <1>1, <2>1, ListNotes DEF NoteInv
<1>2. CASE StartSample(p)
  <2>1. SomeoneAt({"r_start"}) /\ ~SomeoneAt({"r_start"})'
    BY <1>2, SoleMoves DEF StartSample, Refreshing
  <2> QED
    BY <1>2, <2>1, StartNotes DEF NoteInv
<1>3. CASE StopSample(p)
  <2>1. ~SomeoneAt({"r_start"}) /\ ~SomeoneAt({"r_start"})'
    BY <1>3, SoleMoves DEF StopSample, Refreshing
  <2> QED
    BY <1>3, <2>1, StopNotes DEF NoteInv
<1>4. CASE RefreshThrows(p)
  <2>1. ~SomeoneAt({"r_start"}) /\ ~SomeoneAt({"r_start"})'
    BY <1>4, SoleMoves DEF RefreshThrows, RefreshListThrows, StopSampleThrows, Refreshing
  <2> QED
    BY <1>4, <2>1 DEF NoteInv, Settled, RefreshThrows, RefreshListThrows, StopSampleThrows,
       lists, notes, perf
<1> QED
  BY <1>1, <1>2, <1>3, <1>4 DEF RefreshStep

LEMMA RefreshSums == ASSUME TurnInv, FdInv, OneThread, SumInv, NEW p \in Procs,
                            RefreshStep(p) \/ RefreshThrows(p)
                     PROVE  SumInv'
<1> DEFINE S == {"r_start", "r_stop"}
<1>1. CASE RefreshList(p) \/ RefreshListThrows(p)
  <2>1. \A t \in Tids : sums'[t] = 0
    BY <1>1 DEF RefreshList, RefreshListThrows
  <2> QED
    BY <2>1 DEF SumInv, CountedOnce
<1>2. CASE StartSample(p)
  <2>1. SomeoneAt(S)
    BY <1>2, SoleMoves DEF StartSample, Refreshing
  <2>2. \A t \in Tids : sums'[t] = 0
    BY <1>2, <2>1 DEF StartSample, SumInv
  <2> QED
    BY <2>2 DEF SumInv, CountedOnce
<1>3. CASE StopSample(p) \/ StopSampleThrows(p)
  <2>1. SomeoneAt(S) /\ ~SomeoneAt(S)'
    BY <1>3, SoleMoves DEF StopSample, StopSampleThrows, Refreshing
  <2>2. \A t \in Tids : sums[t] = 0
    BY <2>1 DEF SumInv
  <2>3. \A t \in Tids : sums'[t] <= 1
    BY <1>3, <2>2 DEF StopSample, StopSampleThrows
  <2> QED
    BY <2>1, <2>3 DEF SumInv, CountedOnce
<1> QED
  BY <1>1, <1>2, <1>3 DEF RefreshStep, RefreshThrows

\* A step that leaves notes, entries and sums alone and is not about the refreshing.
LEMMA QuietNotes == ASSUME FdInv, NoteInv, SumInv, NEW p \in Procs, NEW from, NEW to,
                           Move(p, from, to), {from, to} \cap {"r_start", "r_stop"} = {},
                           UNCHANGED <<last_tids_, notes, perf, sums>>
                    PROVE  NoteInv' /\ SumInv'
<1>1. at'[p] = to /\ at[p] = from /\ \A q \in Procs \ {p} : at'[q] = at[q]
  BY DEF Move, FdInv
<1>2. /\ SomeoneAt({"r_start"})' <=> SomeoneAt({"r_start"})
      /\ SomeoneAt({"r_start", "r_stop"})' <=> SomeoneAt({"r_start", "r_stop"})
  BY <1>1 DEF SomeoneAt
<1> QED
  BY <1>2 DEF NoteInv, Noted, Settled, SumInv, CountedOnce, notes, perf

LEMMA StepNotes == ASSUME TurnInv, FdInv, OneThread, NoteInv, SumInv, [Next]_vars
                   PROVE  NoteInv' /\ SumInv'
<1>0. /\ \A c \in Callers : c \in Procs
      /\ \A t \in Threads : t \in Procs
  BY DEF Procs
<1>1. CASE UNCHANGED <<last_tids_, notes, perf, sums, at>>
  BY <1>1 DEF NoteInv, Noted, Settled, SumInv, CountedOnce, SomeoneAt, notes, perf
<1>2. CASE Churn \/ UNCHANGED vars \/ \E c \in Callers : CallBegins(c) \/ CallStep(c)
  BY <1>1, <1>2 DEF Churn, vars, vmiss, CallBegins, CallStep, lists
<1>3. ASSUME NEW c \in Callers, Begin(c) \/ GetterJoinable(c) \/ GetterPoll(c) \/ GetterRead(c)
      PROVE  NoteInv' /\ SumInv'
  <2>1. \E from, to : /\ GetterMoves(c, from, to)
                      /\ {from, to} \cap {"r_start", "r_stop"} = {}
    <3>1. CASE Begin(c)
      BY <3>1 DEF Begin
    <3>2. CASE GetterJoinable(c)
      <4>1. (IF thread_ # NoThread /\ Unjoined(thread_) THEN "g_wait" ELSE "r_list") \in {"g_wait", "r_list"}
        OBVIOUS
      <4> QED
        BY <3>2, <4>1 DEF GetterJoinable
    <3>3. CASE GetterPoll(c) \/ GetterRead(c)
      BY <3>3 DEF GetterPoll, GetterRead
    <3> QED
      BY <1>3, <3>1, <3>2, <3>3
  <2> QED
    BY <1>0, <2>1, QuietNotes DEF GetterMoves, lists
<1>4. ASSUME NEW c \in Callers, GetterRefresh(c) PROVE NoteInv' /\ SumInv'
  BY <1>0, <1>4, RefreshNotes, RefreshSums, QuietNotes DEF GetterRefresh, RaiseFlag, lists
<1>5. ASSUME NEW c \in Callers, Unhook(c) \/ Hook(c) PROVE NoteInv' /\ SumInv'
  BY <1>0, <1>5, QuietNotes DEF Unhook, Hook, lists
<1>6. ASSUME NEW t \in Threads, WorkerStep(t) PROVE NoteInv' /\ SumInv'
  <2>1. CASE RunTest(t) /\ UNCHANGED vmiss
    BY <1>1, <2>1 DEF vmiss, lists
  <2>2. CASE RoundBegins(t)
    BY <1>0, <2>2, QuietNotes DEF RoundBegins, lists
  <2>3. CASE RoundGoes(t) \/ RoundThrows(t)
    BY <1>0, <2>3, RefreshNotes, RefreshSums DEF RoundGoes, RoundThrows
  <2>4. CASE RoundEnds(t)
    BY <1>0, <2>4, QuietNotes DEF RoundEnds, RaiseFlag, lists
  <2>5. CASE WorkerClears(t)
    <3>1. wk[t] = "clear" /\ at' = at
      BY <2>5 DEF WorkerClears, RunClear, WorkerGoto
    <3>2. \A p \in Procs : at[p] \notin Refreshing
      BY <3>1, WorkerAlone DEF Active, TurnInv, Procs
    <3>3. ~SomeoneAt({"r_start"})' /\ ~SomeoneAt({"r_start", "r_stop"})'
      BY <3>1, <3>2 DEF SomeoneAt, Refreshing
    <3>4. /\ cache_miss_data_' = {} /\ to_start_watching_' = {} /\ to_stop_watching_' = {}
          /\ last_tids_' = {} /\ \A u \in Tids : sums'[u] = 0
      BY <2>5 DEF WorkerClears, ClearSamples
    <3> QED
      BY <3>3, <3>4 DEF NoteInv, Settled, SumInv, CountedOnce
  <2> QED
    BY <1>6, <2>1, <2>2, <2>3, <2>4, <2>5 DEF WorkerStep
<1> QED
  BY <1>2, <1>3, <1>4, <1>5, <1>6 DEF Next

\* With one program thread and the worker, nobody refreshes while somebody else does, and
\* the notes and sums are those of the refresh under way (vm_cache_miss.cpp:22-66, 125-149,
\* runnable.cpp:29-58).
THEOREM CacheInvariance ==
  ASSUME Serialised = TRUE, OneThread
  PROVE  Spec => [](FdInv /\ TurnInv /\ NoteInv /\ SumInv)
<1>1. Init => FdInv /\ TurnInv /\ NoteInv /\ SumInv
  BY CacheInitFd, CacheInitTurn, CacheInitNotes
<1>2. FdInv /\ TurnInv /\ NoteInv /\ SumInv /\ [Next]_vars => (FdInv /\ TurnInv /\ NoteInv /\ SumInv)'
  BY StepFd, StepTurn, StepNotes
<1> QED
  BY <1>1, <1>2, PTL DEF Spec

\* The threads that are sampled once the notes are acted upon are those listed last, but
\* for those whose events failed (vm_cache_miss.cpp:125-149, cache_miss.cpp:94-130).
THEOREM NotesLeadToListed == ASSUME Serialised = TRUE, OneThread PROVE Spec => []WatchAgrees
<1>1. NoteInv => WatchAgrees
  BY DEF NoteInv, Noted, Settled, WatchAgrees
<1> QED
  BY CacheInvariance, <1>1, PTL

\* No sample is in the sums of its VM twice, refreshes that are broken off by exceptions
\* included (vm_cache_miss.cpp:87-149).
THEOREM SamplesCountOnce == ASSUME Serialised = TRUE, OneThread PROVE Spec => []CountedOnce
<1>1. SumInv => CountedOnce
  BY DEF SumInv
<1> QED
  BY CacheInvariance, <1>1, PTL
================================================================================
