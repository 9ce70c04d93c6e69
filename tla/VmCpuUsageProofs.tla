---------------------------- MODULE VmCpuUsageProofs ----------------------------
(****************************************************************************)
(* Theorems about VmCpuUsage: for any callers and threads, that a usage     *)
(* divides like by like and belongs to a watched process; with one program  *)
(* thread and the worker, that a getter reads two rounds and that the notes *)
(* lead to the processes that are listed.                                   *)
(****************************************************************************)
EXTENDS VmCpuUsage, RunnableProofs, FiniteSetTheorems

\* The tables of the samples: what is shown is of the last round and of the one before.
Tables == /\ round \in 0..MaxRounds
          /\ broken \subseteq 1..round
          /\ process \in [Pids -> 0..Absent]
          /\ thread \in [Pids -> [valid : BOOLEAN, old : Nat, new : Nat]]
          /\ \A p \in Pids : thread[p].new # 0 => thread[p].valid
          /\ SameWindow
          /\ ShownAreWatched

Sets == {listed, alive, last_pids_, to_start_watching_, to_stop_watching_} \subseteq SUBSET Pids

LEMMA TableParts == TableInv <=> at \in [Procs -> AtLabels] /\ Sets /\ Tables
  BY DEF TableInv, Tables, Sets

LEMMA TableJoin == ASSUME at' \in [Procs -> AtLabels], Sets', Tables' PROVE TableInv'
  BY DEF TableInv, Tables, Sets

LEMMA UsageMoves == ASSUME at \in [Procs -> AtLabels], NEW q \in Procs, NEW from, NEW to \in AtLabels,
                           Move(q, from, to)
                    PROVE  at' \in [Procs -> AtLabels]
  BY DEF Move

LEMMA UsageInit == Init => TableInv /\ CountInv
<1>1. Init => at \in [Procs -> AtLabels] /\ Sets
  BY DEF Init, Sets, AtLabels
<1>2. Init => Tables
  BY VmCpuUsageAssumption DEF Init, Tables, Absent, NoSample, SameWindow, ShownAreWatched
<1>3. Init => CountInv
  <2> SUFFICES ASSUME Init PROVE CountInv
    OBVIOUS
  <2>1. (1..round) \ broken = {}
    BY DEF Init
  <2> QED
    BY <2>1, FS_EmptySet DEF Init, CountInv
<1> QED
  BY <1>1, <1>2, <1>3, TableParts

\* A thread's samples after a refresh that found it.
LEMMA Updated ==
  ASSUME Tables, NEW p \in Pids, NEW idle \in BOOLEAN, idle => thread[p].new = 0
  PROVE  LET s == Update(thread[p], idle) IN
         /\ s \in [valid : BOOLEAN, old : Nat, new : Nat]
         /\ s.valid
         /\ s.new # 0 => /\ s.new = round + 1
                         /\ \A r \in (s.old + 1)..round : r \in broken
<1>1. /\ round \in Nat /\ thread[p].new \in Nat /\ thread[p] \in [valid : BOOLEAN, old : Nat, new : Nat]
      /\ thread[p].new # 0 => \A r \in (thread[p].new + 1)..round : r \in broken
  BY VmCpuUsageAssumption DEF Tables, SameWindow
<1>2. CASE idle
  <2>1. Update(thread[p], idle) = [valid |-> TRUE, old |-> 0, new |-> 0]
    BY <1>2 DEF Update
  <2> QED
    BY <2>1
<1>3. CASE ~idle
  <2>1. Update(thread[p], idle) = [valid |-> TRUE, new |-> round + 1,
                                   old |-> IF thread[p].new = 0 THEN round + 1 ELSE thread[p].new]
    BY <1>3 DEF Update
  <2> DEFINE s == Update(thread[p], idle)
  <2>2. /\ s.valid = TRUE /\ s.new = round + 1
        /\ s.old = IF thread[p].new = 0 THEN round + 1 ELSE thread[p].new
        /\ s \in [valid : BOOLEAN, old : Nat, new : Nat]
    BY <2>1, <1>1
  <2>3. \A r \in (s.old + 1)..round : r \in broken
    BY <2>2, <1>1
  <2> QED
    BY <2>2, <2>3
<1> QED
  BY <1>2, <1>3

LEMMA RefreshTables == ASSUME Tables, NEW q, NEW from, NEW to, RefreshCpu(q, from, to)
                       PROVE  Tables'
<1> DEFINE found == {p \in alive : Rewatched[p] # Absent}
<1>1. PICK idle \in SUBSET {p \in found : thread[p].new = 0} :
        /\ process' = [p \in Pids |-> IF p \in found THEN round + 1 ELSE Rewatched[p]]
        /\ thread' = [p \in Pids |-> IF p \in found THEN Update(thread[p], p \in idle)
                                     ELSE Gone(thread[p])]
  BY DEF RefreshCpu
<1>2. round < MaxRounds /\ round' = round + 1 /\ broken' = broken
  BY DEF RefreshCpu, NextRound
<1>3. /\ round \in Nat /\ MaxRounds \in Nat /\ round' \in 0..MaxRounds /\ broken' \subseteq 1..round'
      /\ round' \notin broken'
  BY <1>2, VmCpuUsageAssumption DEF Tables
<1>4. Rewatched \in [Pids -> 0..Absent]
  BY VmCpuUsageAssumption DEF Rewatched, Tables, Absent
<1>5. process' \in [Pids -> 0..Absent]
  BY <1>1, <1>2, <1>3, <1>4 DEF Absent
<1>6. ASSUME NEW p \in Pids
      PROVE  /\ thread'[p] \in [valid : BOOLEAN, old : Nat, new : Nat]
             /\ thread'[p].new # 0 =>
                  /\ thread'[p].valid
                  /\ thread'[p].new = round'
                  /\ \A r \in (thread'[p].old + 1)..round : r \in broken
             /\ thread'[p].valid => process'[p] = round'
  <2>1. CASE p \in found
    <3>1. thread'[p] = Update(thread[p], p \in idle) /\ process'[p] = round'
      BY <1>1, <1>2, <2>1
    <3>2. p \in idle => thread[p].new = 0
      BY <1>1
    <3>3. \E b \in BOOLEAN : thread'[p] = Update(thread[p], b) /\ (b => thread[p].new = 0)
      <4>1. CASE p \in idle
        <5>1. thread'[p] = Update(thread[p], TRUE)
          BY <3>1, <4>1 DEF Update
        <5> QED
          BY <5>1, <3>2, <4>1
      <4>2. CASE p \notin idle
        <5>1. thread'[p] = Update(thread[p], FALSE)
          BY <3>1, <4>2 DEF Update
        <5> QED
          BY <5>1
      <4> QED
        BY <4>1, <4>2
    <3> QED
      BY <3>1, <3>3, <1>2, Updated
  <2>2. CASE p \notin found
    <3>1. thread'[p] = [valid |-> FALSE, old |-> 0, new |-> 0]
      BY <1>1, <2>2 DEF Gone, NoSample
    <3> QED
      BY <3>1
  <2> QED
    BY <2>1, <2>2
<1>7. thread' \in [Pids -> [valid : BOOLEAN, old : Nat, new : Nat]]
  BY <1>1, <1>6
<1>8. SameWindow'
  <2>1. ASSUME NEW p \in Pids, thread'[p].new # 0
        PROVE  /\ \A r \in (thread'[p].new + 1)..round' : r \in broken'
               /\ \A r \in (thread'[p].old + 1)..(thread'[p].new - 1) : r \in broken'
    BY <2>1, <1>2, <1>3, <1>6
  <2> QED
    BY <2>1 DEF SameWindow
<1>9. ShownAreWatched'
  BY <1>6 DEF ShownAreWatched
<1> QED
  BY <1>3, <1>5, <1>6, <1>7, <1>8, <1>9 DEF Tables

LEMMA ThrowTables == ASSUME Tables, NEW q, NEW from, RefreshCpuThrows(q, from)
                     PROVE  Tables'
<1>1. CASE UNCHANGED tables
  BY <1>1 DEF tables, Tables, SameWindow, ShownAreWatched, Absent
<1>2. CASE /\ round < MaxRounds /\ round' = round + 1 /\ broken' = broken \cup {round + 1}
           /\ process' = Rewatched /\ thread' = thread
  <2>1. /\ round \in Nat /\ MaxRounds \in Nat /\ round' \in 0..MaxRounds
        /\ broken' \subseteq 1..round' /\ round' \in broken'
    BY <1>2, VmCpuUsageAssumption DEF Tables
  <2>2. process' \in [Pids -> 0..Absent]
    BY <1>2, VmCpuUsageAssumption DEF Rewatched, Tables, Absent
  <2>3. SameWindow'
    <3>1. ASSUME NEW p \in Pids, thread[p].valid, thread[p].new # 0, NEW r \in (thread[p].new + 1)..round'
          PROVE  r \in broken'
      <4>1. r \in Int /\ thread[p].new \in Nat
        BY <3>1, <2>1 DEF Tables
      <4>2. CASE r = round + 1
        BY <4>2, <1>2
      <4>3. CASE r # round + 1
        <5>1. r \in (thread[p].new + 1)..round
          BY <4>1, <4>3, <3>1, <1>2, <2>1
        <5> QED
          BY <5>1, <3>1, <1>2 DEF Tables, SameWindow
      <4> QED
        BY <4>2, <4>3
    <3>2. ASSUME NEW p \in Pids, thread[p].valid, thread[p].new # 0
          PROVE  \A r \in (thread[p].old + 1)..(thread[p].new - 1) : r \in broken'
      BY <3>2, <1>2 DEF Tables, SameWindow
    <3> QED
      BY <3>1, <3>2, <1>2 DEF SameWindow
  <2> QED
    BY <1>2, <2>1, <2>2, <2>3 DEF Tables, ShownAreWatched
<1> QED
  BY <1>1, <1>2 DEF RefreshCpuThrows, NextRound

LEMMA ClearTables0 == ASSUME Tables, ClearAll PROVE Tables'
  BY VmCpuUsageAssumption DEF ClearAll, Tables, NoSample, Absent, SameWindow, ShownAreWatched

LEMMA SameTables == ASSUME Tables, UNCHANGED tables PROVE Tables'
  BY DEF tables, Tables, SameWindow, ShownAreWatched, Absent

-------------------------------------------------------------------------------
\* The counter of the refreshes.

LEMMA OneMoreRound == ASSUME NEW n \in Nat, NEW B \in SUBSET (1..n)
                      PROVE  Cardinality((1..n + 1) \ B) = Cardinality((1..n) \ B) + 1
<1> DEFINE S == (1..n) \ B
<1>1. (1..n + 1) \ B = S \cup {n + 1} /\ n + 1 \notin S
  OBVIOUS
<1>2. IsFiniteSet(S)
  <2>1. IsFiniteSet(1..n)
    BY FS_Interval
  <2>2. S \in SUBSET (1..n)
    OBVIOUS
  <2> QED
    BY <2>1, <2>2, FS_Subset
<1> HIDE DEF S
<1>3. Cardinality(S \cup {n + 1}) = Cardinality(S) + 1
  BY <1>1, <1>2, FS_AddElement
<1> QED
  BY <1>1, <1>3 DEF S

LEMMA RoundsAreNat == ASSUME NEW n \in Nat, NEW B
                      PROVE  Cardinality((1..n) \ B) \in Nat
<1> DEFINE S == (1..n) \ B
<1>1. IsFiniteSet(S)
  <2>1. IsFiniteSet(1..n)
    BY FS_Interval
  <2>2. S \in SUBSET (1..n)
    OBVIOUS
  <2> QED
    BY <2>1, <2>2, FS_Subset
<1> HIDE DEF S
<1>2. Cardinality(S) \in Nat
  BY <1>1, FS_CardinalityType
<1> QED
  BY <1>2 DEF S

LEMMA RefreshCounts == ASSUME Tables, CountInv, NEW q, NEW from, NEW to, RefreshCpu(q, from, to)
                       PROVE  CountInv'
<1> DEFINE n == Cardinality((1..round) \ broken)
<1>1. round \in Nat /\ round' = round + 1 /\ broken' = broken /\ broken \in SUBSET (1..round)
  BY VmCpuUsageAssumption DEF RefreshCpu, NextRound, Tables
<1>2. Cardinality((1..round') \ broken') = n + 1 /\ n \in Nat
  BY <1>1, OneMoreRound, RoundsAreNat
<1>3. has_data_cnt_' = IF has_data_cnt_ < 2 THEN has_data_cnt_ + 1 ELSE has_data_cnt_
  BY DEF RefreshCpu, CountRefresh
<1> HIDE DEF n
<1>4. has_data_cnt_ \in 0..2 /\ has_data_cnt_ <= n
  BY DEF CountInv, n
<1>5. has_data_cnt_' \in 0..2 /\ has_data_cnt_' <= n + 1
  BY <1>2, <1>3, <1>4
<1> QED
  BY <1>2, <1>5 DEF CountInv

LEMMA ThrowCounts == ASSUME Tables, CountInv, NEW q, NEW from, RefreshCpuThrows(q, from)
                     PROVE  CountInv'
<1>1. has_data_cnt_' = has_data_cnt_
  BY DEF RefreshCpuThrows
<1>2. CASE UNCHANGED tables
  BY <1>1, <1>2 DEF tables, CountInv
<1>3. CASE round' = round + 1 /\ broken' = broken \cup {round + 1}
  <2>1. (1..round') \ broken' = (1..round) \ broken
    BY <1>3, VmCpuUsageAssumption DEF Tables
  <2> QED
    BY <1>1, <2>1 DEF CountInv
<1> QED
  BY <1>2, <1>3 DEF RefreshCpuThrows, NextRound

LEMMA ClearCounts == ASSUME ClearAll PROVE CountInv'
<1>1. ((1..round) \ broken)' = {} /\ has_data_cnt_' = 0
  BY DEF ClearAll
<1> QED
  BY <1>1, FS_EmptySet DEF CountInv

\* The inductive step for any callers and threads.
LEMMA StepTable == ASSUME TableInv, CountInv, [Next]_vars PROVE TableInv' /\ CountInv'
<1>0. /\ at \in [Procs -> AtLabels] /\ Sets /\ Tables
      /\ \A c \in Callers : c \in Procs
      /\ \A t \in Threads : t \in Procs
      /\ {"idle", "g_joinable", "g_wait", "g_read", "r1_list", "r1_cpu", "r2_list", "r2_cpu"} \subseteq AtLabels
  BY TableParts DEF Procs, AtLabels, Refreshing
<1>1. ASSUME NEW q \in Procs, NEW from, NEW to \in AtLabels, Move(q, from, to),
             UNCHANGED <<listed, alive, last_pids_, notes, tables, has_data_cnt_>>
      PROVE  TableInv' /\ CountInv'
  <2>1. at' \in [Procs -> AtLabels]
    BY <1>0, <1>1, UsageMoves
  <2> QED
    BY <1>0, <1>1, <2>1, SameTables, TableJoin DEF Sets, notes, tables, CountInv
<1>2. CASE UNCHANGED vcpu
  BY <1>0, <1>2, SameTables, TableJoin DEF vcpu, Sets, notes, tables, CountInv
<1>3. CASE Churn
  <2>1. Sets'
    BY <1>0, <1>3 DEF Churn, Sets, Toggle, notes
  <2> QED
    BY <1>0, <1>3, <2>1, SameTables, TableJoin DEF Churn, tables, CountInv
<1>4. ASSUME NEW q \in Procs, NEW from, NEW to \in AtLabels, RefreshList(q, from, to)
      PROVE  TableInv' /\ CountInv'
  <2>1. at' \in [Procs -> AtLabels]
    BY <1>0, <1>4, UsageMoves DEF RefreshList
  <2>2. Sets'
    BY <1>0, <1>4 DEF RefreshList, Sets
  <2> QED
    BY <1>0, <1>4, <2>1, <2>2, SameTables, TableJoin DEF RefreshList, tables, CountInv
<1>5. ASSUME NEW q \in Procs, NEW from, NEW to \in AtLabels, RefreshCpu(q, from, to)
      PROVE  TableInv' /\ CountInv'
  <2>1. at' \in [Procs -> AtLabels]
    BY <1>0, <1>5, UsageMoves DEF RefreshCpu
  <2>2. Sets'
    BY <1>0, <1>5 DEF RefreshCpu, Sets
  <2> QED
    BY <1>0, <1>5, <2>1, <2>2, RefreshTables, RefreshCounts, TableJoin
<1>6. ASSUME NEW q \in Procs, NEW from, RefreshListThrows(q, from) PROVE TableInv' /\ CountInv'
  BY <1>0, <1>1, <1>6 DEF RefreshListThrows
<1>7. ASSUME NEW q \in Procs, NEW from, RefreshCpuThrows(q, from) PROVE TableInv' /\ CountInv'
  <2>1. at' \in [Procs -> AtLabels]
    BY <1>0, <1>7, UsageMoves DEF RefreshCpuThrows
  <2>2. Sets'
    BY <1>0, <1>7 DEF RefreshCpuThrows, Sets, notes
  <2> QED
    BY <1>0, <1>7, <2>1, <2>2, ThrowTables, ThrowCounts, TableJoin
<1>8. ASSUME NEW c \in Callers, Begin(c) \/ GetterJoinable(c) \/ GetterPoll(c) \/ GetterRead(c)
      PROVE  TableInv' /\ CountInv'
  <2>1. \E from, to : GetterMoves(c, from, to) /\ to \in AtLabels
    <3>1. CASE GetterJoinable(c)
      <4>1. (IF thread_ # NoThread /\ Unjoined(thread_) THEN "g_wait" ELSE "r1_list") \in AtLabels
        BY <1>0
      <4> QED
        BY <3>1, <4>1 DEF GetterJoinable
    <3>2. CASE Begin(c) \/ GetterPoll(c) \/ GetterRead(c)
      BY <1>0, <3>2 DEF Begin, GetterPoll, GetterRead
    <3> QED
      BY <1>8, <3>1, <3>2
  <2> QED
    BY <1>0, <1>1, <2>1 DEF GetterMoves
<1>9. ASSUME NEW c \in Callers, GetterRefresh(c) \/ GetterThrows(c) PROVE TableInv' /\ CountInv'
  BY <1>0, <1>4, <1>5, <1>6, <1>7, <1>9 DEF GetterRefresh, GetterThrows
<1>10. ASSUME NEW t \in Threads, WorkerStep(t) PROVE TableInv' /\ CountInv'
  <2>1. CASE RunTest(t) /\ UNCHANGED vcpu
    BY <1>2, <2>1
  <2>2. CASE RoundBegins(t)
    BY <1>0, <1>1, <2>2 DEF RoundBegins
  <2>3. CASE RoundLists(t) \/ RoundEnds(t) \/ RoundThrows(t)
    BY <1>0, <1>4, <1>5, <1>6, <1>7, <2>3 DEF RoundLists, RoundEnds, RoundThrows
  <2>4. CASE WorkerClears(t)
    <3>1. ClearAll /\ UNCHANGED <<listed, alive, at>>
      BY <2>4 DEF WorkerClears
    <3>2. Sets'
      BY <1>0, <3>1 DEF ClearAll, Sets
    <3>3. Tables' /\ CountInv'
      BY <1>0, <3>1, ClearTables0, ClearCounts
    <3> QED
      BY <1>0, <3>1, <3>2, <3>3, TableJoin
  <2> QED
    BY <1>10, <2>1, <2>2, <2>3, <2>4 DEF WorkerStep
<1> QED
  BY <1>2, <1>3, <1>8, <1>9, <1>10 DEF Next, vars, CallBegins, CallStep, DividesByZero

\* What the tables say holds whatever the program's threads and the workers do at the same
\* time, since a refresh of the tables is done under data_mutex_ (cpu_usage.cpp:36-60).
THEOREM TableInvariance == Spec => [](TableInv /\ CountInv)
<1>1. TableInv /\ CountInv /\ [Next]_vars => (TableInv /\ CountInv)'
  BY StepTable
<1> QED
  BY UsageInit, <1>1, PTL DEF Spec

\* A usage divides like by like, for any callers, threads and processes and lists that
\* change, but for rounds that an exception ended: behind one of these the windows of
\* thread and host may differ by it (cpu_usage.cpp:269-287, 314-339).
THEOREM UsagesDivideAlike == Spec => []SameWindow
<1>1. TableInv => SameWindow
  BY DEF TableInv
<1> QED
  BY TableInvariance, <1>1, PTL

\* A thread is shown only with a usage of its process in this very round, for any callers,
\* threads and processes, unless an exception ended the round (cpu_usage.cpp:222-297).
THEOREM ValidAreWatched == Spec => []ShownAreWatched
<1>1. TableInv => ShownAreWatched
  BY DEF TableInv
<1> QED
  BY TableInvariance, <1>1, PTL

-------------------------------------------------------------------------------
\* Who refreshes, with one program thread.
OneThread == \A c, d \in Callers : c = d

LEMMA UsageInitTurn == Init => TurnInv /\ ReadInv
<1>1. Init => RInv
  BY InitInv DEF Init
<1> QED
  BY <1>1 DEF Init, TurnInv, ReadInv, Procs, Refreshing

\* Nobody is in a call of start() or stop() while the program is in a getter.
LEMMA IsStopped == ASSUME TurnInv, OneThread, NEW c \in Callers, pc[c] = "idle"
                   PROVE  Stopped \/ Running
<1>1. \A d \in Callers : ~InTurn(d)
  BY DEF OneThread, InTurn, StartPcs, StopPcs
<1> QED
  BY <1>1 DEF TurnInv, RInv

\* A worker that moves is not a stopped one, so that no caller refreshes.
LEMMA WorkerAlone == ASSUME TurnInv, NEW t \in Threads, wk[t] \in Active
                     PROVE  /\ \A c \in Callers : at[c] \notin Refreshing
                            /\ \A u \in Threads : at[u] \in Refreshing => u = t
<1>1. ~Stopped
  BY DEF Stopped, Active
<1>2. AtMostOneWorker
  BY WorkersOfInv DEF TurnInv
<1> QED
  BY <1>1, <1>2 DEF TurnInv, AtMostOneWorker, ActiveThreads, Active

LEMMA SoleRefresher == ASSUME TurnInv, OneThread, NEW p \in Procs, NEW q \in Procs,
                              at[p] \in Refreshing, at[q] \in Refreshing
                       PROVE  p = q
<1>1. ASSUME NEW t \in Threads, at[t] \in Refreshing PROVE wk[t] \in Active
  BY <1>1 DEF TurnInv, Active
<1>2. CASE p \in Threads
  BY <1>1, <1>2, WorkerAlone DEF Procs
<1>3. CASE q \in Threads
  BY <1>1, <1>3, WorkerAlone DEF Procs
<1> QED
  BY <1>2, <1>3 DEF Procs, OneThread

\* A caller that goes where it may.
LEMMA CallerMovesTurn == ASSUME TurnInv, TableInv, NEW c \in Callers, NEW from, NEW to, Move(c, from, to),
                                UNCHANGED rvars, pc[c] = "idle", to \in Refreshing => Stopped
                         PROVE  TurnInv'
<1>1. RInv' /\ UNCHANGED <<stop_, thread_, wk, pc>> /\ (Stopped' <=> Stopped)
  BY DEF TurnInv, rvars, RInv, RTypeOK, OneInTurn, InTurn, CallInv, Stopped, Running, Stopping, Only
<1>2. at' = [at EXCEPT ![c] = to] /\ c \notin Threads /\ at \in [Procs -> AtLabels]
  BY VmCpuUsageAssumption DEF Move, TableInv
<1> QED
  BY <1>1, <1>2 DEF TurnInv, Procs

\* What the worker does to its own place and to where it is in run().
LEMMA WorkerMovesTurn == ASSUME TurnInv, TableInv, RInv', NEW t \in Threads, wk[t] \in Active, pc' = pc,
                                \A u \in Threads \ {t} : wk'[u] = wk[u],
                                NEW to \in Refreshing \cup {"idle"}, at' = [at EXCEPT ![t] = to],
                                to \in Refreshing => wk'[t] = "round"
                         PROVE  TurnInv'
<1>1. at \in [Procs -> AtLabels] /\ t \in Procs /\ \A c \in Callers : c # t
  BY VmCpuUsageAssumption DEF TableInv, Procs
<1>2. \A c \in Callers : at'[c] = at[c] /\ at'[c] \notin Refreshing
  BY <1>1, WorkerAlone DEF Procs
<1>3. \A u \in Threads \ {t} : at'[u] = at[u]
  BY <1>1 DEF Procs
<1>4. at'[t] = to
  BY <1>1
<1> QED
  BY <1>2, <1>3, <1>4 DEF TurnInv

LEMMA StepTurn == ASSUME TurnInv, TableInv, OneThread, Serialised = TRUE, [Next]_vars
                  PROVE  TurnInv'
<1>0. RInv /\ at \in [Procs -> AtLabels]
  BY DEF TurnInv, TableInv
<1>1. CASE UNCHANGED <<stop_, thread_, wk, pc, target, at>> /\ crashed' \in BOOLEAN
  <2>1. RInv'
    BY <1>0, <1>1, CrashKeeps
  <2> QED
    BY <1>1, <2>1 DEF TurnInv, Stopped
<1>2. ASSUME NEW c \in Callers, CallBegins(c) \/ CallStep(c) PROVE TurnInv'
  <2>1. at' = at /\ (\/ \E op \in {"start", "stop"} : Call(c, op)
                     \/ StartStep(c) \/ StopStep(c))
    BY <1>2 DEF CallBegins, CallStep, vcpu
  <2>2. RInv'
    BY <1>0, <2>1, NextInv DEF RNext
  <2>3. at[c] = "idle"
    <3>1. CASE CallBegins(c)
      BY <3>1 DEF CallBegins
    <3>2. CASE CallStep(c)
      <4>1. pc[c] # "idle"
        BY <3>2 DEF CallStep, StartStep, StopStep, StartCheck, StartReset, StartFlag, StartSpawn,
           StartPublish, StopCheck, StopFlag, StopJoinable, StopJoin
      <4> QED
        BY <4>1 DEF TurnInv
    <3> QED
      BY <1>2, <3>1, <3>2
  <2>4. \A d \in Callers : at'[d] = "idle"
    BY <2>1, <2>3 DEF OneThread
  <2>5. \A t \in Threads : wk[t] = "round" => wk'[t] = "round"
    BY <1>0, <2>1, CallKeepsRounds
  <2> QED
    BY <2>1, <2>2, <2>4, <2>5 DEF TurnInv, Refreshing
<1>3. ASSUME NEW c \in Callers, GetterJoinable(c) PROVE TurnInv'
  <2> DEFINE joins == thread_ # NoThread /\ Unjoined(thread_)
             to == IF joins THEN "g_wait" ELSE "r1_list"
  <2>1. UNCHANGED rvars /\ Move(c, "g_joinable", to)
    BY <1>3 DEF GetterJoinable, GetterMoves
  <2>2. pc[c] = "idle"
    BY <2>1 DEF TurnInv, Move
  <2>3. to \in Refreshing => Stopped
    <3>1. CASE joins
      BY <3>1 DEF Refreshing
    <3>2. CASE ~joins
      <4>1. ~Running
        BY <3>2, RunnableAssumption DEF Running, Only, Unjoined, Active
      <4> QED
        BY <2>2, <4>1, IsStopped
    <3> QED
      BY <3>1, <3>2
  <2> QED
    BY <2>1, <2>2, <2>3, CallerMovesTurn
<1>4. ASSUME NEW c \in Callers, Begin(c) \/ GetterPoll(c) \/ GetterRead(c) PROVE TurnInv'
  <2>1. UNCHANGED rvars /\ \E from, to : Move(c, from, to) /\ to \notin Refreshing
    BY <1>4 DEF Begin, GetterPoll, GetterRead, GetterMoves, Refreshing
  <2>2. pc[c] = "idle"
    BY <1>4 DEF Begin, GetterPoll, GetterRead, GetterMoves, Move, TurnInv
  <2> QED
    BY <2>1, <2>2, CallerMovesTurn
<1>5. ASSUME NEW c \in Callers, GetterRefresh(c) \/ GetterThrows(c) PROVE TurnInv'
  <2>1. at[c] \in Refreshing /\ UNCHANGED rvars /\ \E from, to : Move(c, from, to)
    BY <1>5 DEF GetterRefresh, GetterThrows, RefreshList, RefreshCpu, RefreshListThrows,
       RefreshCpuThrows, Move, Refreshing
  <2>2. pc[c] = "idle" /\ Stopped
    BY <2>1 DEF TurnInv, Refreshing
  <2> QED
    BY <2>1, <2>2, CallerMovesTurn
<1>6. ASSUME NEW t \in Threads, WorkerStep(t) PROVE TurnInv'
  <2>1. CASE RunTest(t) /\ UNCHANGED vcpu
    <3>1. RInv' /\ wk[t] = "test" /\ pc' = pc /\ \A u \in Threads \ {t} : wk'[u] = wk[u]
      <4>1. RInv'
        BY <1>0, <2>1, NextInv DEF RNext, Worker
      <4> QED
        BY <1>0, <2>1, <4>1 DEF RunTest, WorkerGoto, RInv, RTypeOK
    <3>2. at[t] = "idle" /\ at' = [at EXCEPT ![t] = "idle"]
      BY <1>0, <2>1, <3>1 DEF TurnInv, vcpu
    <3> QED
      BY <3>1, <3>2, WorkerMovesTurn DEF Active, Refreshing
  <2>2. CASE RoundBegins(t)
    <3>1. wk[t] = "round" /\ UNCHANGED rvars /\ at' = [at EXCEPT ![t] = "r1_list"]
      BY <2>2 DEF RoundBegins, Move
    <3>2. RInv'
      BY <1>0, <3>1, CrashKeeps DEF rvars, RInv, RTypeOK
    <3> QED
      BY <3>1, <3>2, WorkerMovesTurn DEF Active, Refreshing, rvars
  <2>3. CASE RoundLists(t) \/ RoundThrows(t)
    <3>1. /\ at[t] \in Refreshing
          /\ UNCHANGED <<stop_, thread_, wk, pc, target>> /\ crashed' \in BOOLEAN
          /\ \E to \in Refreshing \cup {"idle"} : at' = [at EXCEPT ![t] = to]
      BY <1>0, <2>3 DEF RoundLists, RoundThrows, RefreshList, RefreshListThrows, RefreshCpuThrows,
         Move, Refreshing, rvars, RInv, RTypeOK
    <3>2. RInv' /\ wk[t] = "round"
      BY <1>0, <3>1, CrashKeeps DEF TurnInv
    <3> QED
      BY <3>1, <3>2, WorkerMovesTurn DEF Active
  <2>4. CASE RoundEnds(t)
    <3>1. RInv' /\ wk[t] = "round" /\ pc' = pc /\ \A u \in Threads \ {t} : wk'[u] = wk[u]
      <4>1. RInv'
        BY <1>0, <2>4, NextInv DEF RNext, Worker, RoundEnds
      <4> QED
        BY <1>0, <2>4, <4>1 DEF RoundEnds, RunRound, WorkerGoto, RInv, RTypeOK
    <3>2. at' = [at EXCEPT ![t] = "idle"]
      BY <2>4 DEF RoundEnds, RefreshCpu, Move
    <3> QED
      BY <3>1, <3>2, WorkerMovesTurn DEF Active, Refreshing
  <2>5. CASE WorkerClears(t)
    <3>1. RInv' /\ wk[t] = "clear" /\ pc' = pc /\ \A u \in Threads \ {t} : wk'[u] = wk[u]
      <4>1. RInv'
        BY <1>0, <2>5, NextInv DEF RNext, Worker, WorkerClears
      <4> QED
        BY <1>0, <2>5, <4>1 DEF WorkerClears, RunClear, WorkerGoto, RInv, RTypeOK
    <3>2. at[t] = "idle" /\ at' = [at EXCEPT ![t] = "idle"]
      BY <1>0, <2>5, <3>1 DEF TurnInv, WorkerClears, Procs
    <3> QED
      BY <3>1, <3>2, WorkerMovesTurn DEF Active, Refreshing
  <2> QED
    BY <1>6, <2>1, <2>2, <2>3, <2>4, <2>5 DEF WorkerStep
<1>7. CASE Churn \/ UNCHANGED vars \/ \E q \in Procs : DividesByZero(q)
  <2>1. UNCHANGED <<stop_, thread_, wk, pc, target, at>> /\ crashed' \in BOOLEAN
    BY <1>0, <1>7 DEF Churn, DividesByZero, vars, rvars, vcpu, RInv, RTypeOK
  <2> QED
    BY <2>1, <1>1
<1> QED
  BY <1>2, <1>3, <1>4, <1>5, <1>6, <1>7 DEF Next

-------------------------------------------------------------------------------
\* What a getter that waits finds.

\* Only clear() takes the data away, and only a getter that has found it reads.
LEMMA DataStays == ASSUME CountInv, [Next]_vars, \A c \in Callers : ~GetterPoll(c),
                          \A t \in Threads : ~WorkerClears(t)
                   PROVE  /\ HasData => HasData'
                          /\ \/ at' = at
                             \/ \E q, to : at' = [at EXCEPT ![q] = to] /\ to # "g_read"
<1>1. CASE UNCHANGED <<at, has_data_cnt_>>
  BY <1>1 DEF HasData
<1>2. ASSUME NEW q, NEW from, NEW to, RefreshCpu(q, from, to)
      PROVE  (HasData => HasData') /\ at' = [at EXCEPT ![q] = to]
  BY <1>2 DEF RefreshCpu, CountRefresh, HasData, CountInv, Move
<1>3. ASSUME NEW q, NEW from, NEW to, RefreshList(q, from, to)
      PROVE  (HasData => HasData') /\ at' = [at EXCEPT ![q] = to]
  BY <1>3 DEF RefreshList, HasData, Move
<1>4. ASSUME NEW q, NEW from, RefreshListThrows(q, from) \/ RefreshCpuThrows(q, from)
      PROVE  (HasData => HasData') /\ at' = [at EXCEPT ![q] = "idle"]
  BY <1>4 DEF RefreshListThrows, RefreshCpuThrows, HasData, Move
<1>5. CASE \E c \in Callers : GetterRefresh(c) \/ GetterThrows(c)
  BY <1>2, <1>3, <1>4, <1>5 DEF GetterRefresh, GetterThrows
<1>6. CASE \E c \in Callers : Begin(c) \/ GetterJoinable(c) \/ GetterRead(c)
  <2>1. PICK c \in Callers : Begin(c) \/ GetterJoinable(c) \/ GetterRead(c)
    BY <1>6
  <2>2. has_data_cnt_' = has_data_cnt_ /\ \E to : at' = [at EXCEPT ![c] = to] /\ to # "g_read"
    <3>1. CASE GetterJoinable(c)
      <4>1. (IF thread_ # NoThread /\ Unjoined(thread_) THEN "g_wait" ELSE "r1_list") # "g_read"
        OBVIOUS
      <4> QED
        BY <3>1, <4>1 DEF GetterJoinable, GetterMoves, Move
    <3>2. CASE Begin(c) \/ GetterRead(c)
      BY <3>2 DEF Begin, GetterRead, GetterMoves, Move
    <3> QED
      BY <2>1, <3>1, <3>2
  <2> QED
    BY <2>2 DEF HasData
<1>7. CASE \E t \in Threads : WorkerStep(t)
  <2>1. PICK t \in Threads : \/ RunTest(t) /\ UNCHANGED vcpu
                             \/ RoundBegins(t) \/ RoundLists(t) \/ RoundEnds(t) \/ RoundThrows(t)
    BY <1>7 DEF WorkerStep
  <2>2. CASE RoundBegins(t)
    <3>1. at' = [at EXCEPT ![t] = "r1_list"]
      BY <2>2 DEF RoundBegins, Move
    <3>2. "r1_list" # "g_read"
      OBVIOUS
    <3>3. \E to : at' = [at EXCEPT ![t] = to] /\ to # "g_read"
      BY <3>1, <3>2
    <3>4. HasData' = HasData
      BY <2>2 DEF RoundBegins, HasData
    <3> QED
      BY <3>3, <3>4
  <2>3. CASE RunTest(t) /\ UNCHANGED vcpu
    BY <2>3, <1>1 DEF vcpu
  <2>4. CASE RoundLists(t)
    BY <2>4, <1>3 DEF RoundLists
  <2>5. CASE RoundEnds(t)
    BY <2>5, <1>2 DEF RoundEnds
  <2>6. CASE RoundThrows(t)
    BY <2>6, <1>4 DEF RoundThrows
  <2> QED
    BY <2>1, <2>2, <2>3, <2>4, <2>5, <2>6
<1>8. CASE \/ Churn \/ UNCHANGED vars \/ \E q \in Procs : DividesByZero(q)
           \/ \E c \in Callers : CallBegins(c) \/ CallStep(c)
  BY <1>1, <1>8 DEF Churn, vars, vcpu, DividesByZero, CallBegins, CallStep
<1> QED
  BY <1>5, <1>6, <1>7, <1>8 DEF Next

LEMMA StepRead == ASSUME TurnInv, TableInv, CountInv, ReadInv, OneThread, [Next]_vars
                  PROVE  ReadInv'
<1> SUFFICES ASSUME NEW c \in Callers, at'[c] = "g_read" PROVE HasData'
  BY DEF ReadInv
<1>0. at \in [Procs -> AtLabels] /\ c \in Procs
  BY DEF TableInv, Procs
<1>1. CASE \E d \in Callers : GetterPoll(d)
  BY <1>1 DEF GetterPoll, GetterMoves, HasData
<1>2. CASE \E t \in Threads : WorkerClears(t)
  <2>1. PICK t \in Threads : wk[t] = "clear" /\ at' = at
    BY <1>2 DEF WorkerClears, RunClear, WorkerGoto
  <2>2. pc[c] = "idle"
    BY <2>1 DEF TurnInv
  <2>3. ~Stopped /\ ~Running
    BY <2>1 DEF Stopped, Running, Only
  <2> QED
    BY <2>2, <2>3, IsStopped
<1>3. CASE ~(\E d \in Callers : GetterPoll(d)) /\ ~(\E t \in Threads : WorkerClears(t))
  <2>1. at[c] = "g_read" /\ (HasData => HasData')
    BY <1>0, <1>3, DataStays
  <2> QED
    BY <2>1 DEF ReadInv
<1> QED
  BY <1>1, <1>2, <1>3

\* With one program thread and the worker, a getter returns usages that two rounds since
\* the last clear() stand behind, not counting those that exceptions ended: it waits for
\* has_data_cnt_, and nobody clears meanwhile (cpu_usage.cpp:53-60, 126-129,
\* runnable.cpp:39-58).
THEOREM GettersReadTwoRounds == ASSUME Serialised = TRUE, OneThread PROVE Spec => ReadsTwoRounds
<1> DEFINE Inv == TableInv /\ CountInv /\ TurnInv /\ ReadInv
<1>1. Init => Inv
  BY UsageInit, UsageInitTurn
<1>2. Inv /\ [Next]_vars => Inv'
  BY StepTable, StepTurn, StepRead
<1>3. Inv /\ [Next]_vars =>
        [\A c \in Callers : at[c] = "g_read" /\ at'[c] = "idle"
                              => Cardinality((1..round) \ broken) >= 2]_vars
  <2> SUFFICES ASSUME Inv, NEW c \in Callers, at[c] = "g_read"
               PROVE  Cardinality((1..round) \ broken) >= 2
    OBVIOUS
  <2>1. has_data_cnt_ >= 2 /\ has_data_cnt_ \in 0..2 /\ has_data_cnt_ <= Cardinality((1..round) \ broken)
    BY DEF ReadInv, HasData, CountInv
  <2>2. round \in Nat
    BY VmCpuUsageAssumption DEF TableInv
  <2>3. Cardinality((1..round) \ broken) \in Nat
    BY <2>2, RoundsAreNat
  <2> QED
    BY <2>1, <2>3
<1> HIDE DEF Inv
<1> QED
  BY <1>1, <1>2, <1>3, PTL DEF Spec, ReadsTwoRounds

-------------------------------------------------------------------------------
\* What the notes say, with one program thread and a /proc/stat that can be opened.

LEMMA UsageInitNotes == Init => NoteInv
  BY VmCpuUsageAssumption DEF Init, NoteInv, Settled, BetweenHalves, Watched, Absent

\* The processes that are watched once the notes have been acted upon.
LEMMA Acted == ASSUME TableInv, Noted
               PROVE  {p \in Pids : Rewatched[p] # Absent} = last_pids_
<1>1. /\ last_pids_ \subseteq Pids /\ Absent # 0
      /\ \A p \in Pids : Rewatched[p] = IF p \in to_stop_watching_ THEN Absent
                                        ELSE IF p \in to_start_watching_ /\ process[p] = Absent THEN 0
                                        ELSE process[p]
  BY VmCpuUsageAssumption DEF TableInv, Rewatched, Absent
<1> QED
  BY <1>1 DEF Noted, Watched

\* A refresher that goes from one place to another is the only one.
LEMMA SoleMoves == ASSUME TurnInv, TableInv, OneThread, NEW q \in Procs, NEW from \in Refreshing, NEW to,
                          Move(q, from, to)
                   PROVE  /\ BetweenHalves <=> from \in {"r1_cpu", "r2_cpu"}
                          /\ BetweenHalves' <=> to \in {"r1_cpu", "r2_cpu"}
<1>1. \A p \in Procs \ {q} : at[p] \notin Refreshing
  BY SoleRefresher DEF Move
<1>2. at'[q] = to /\ \A p \in Procs \ {q} : at'[p] = at[p]
  BY DEF Move, TableInv
<1> QED
  BY <1>1, <1>2 DEF BetweenHalves, Move, Refreshing

LEMMA ListNotes == ASSUME TurnInv, TableInv, OneThread, NoteInv, NEW q \in Procs,
                          NEW from \in {"r1_list", "r2_list"}, NEW to \in {"r1_cpu", "r2_cpu"},
                          RefreshList(q, from, to)
                   PROVE  NoteInv'
<1>1. ~BetweenHalves /\ BetweenHalves'
  BY SoleMoves DEF RefreshList, Refreshing
<1>2. Settled
  BY <1>1 DEF NoteInv
<1>3. Watched' = Watched
  BY DEF RefreshList, tables, Watched
<1>4. Noted'
  BY <1>2, <1>3 DEF RefreshList, Settled, Noted
<1> QED
  BY <1>1, <1>4 DEF NoteInv

LEMMA CpuNotes == ASSUME TurnInv, TableInv, OneThread, NoteInv, NEW q \in Procs,
                         NEW from \in {"r1_cpu", "r2_cpu"}, NEW to, to \notin {"r1_cpu", "r2_cpu"},
                         RefreshCpu(q, from, to) \/ (RefreshCpuThrows(q, from) /\ to = "idle"),
                         "stat" \notin Failures
                  PROVE  NoteInv'
<1>1. BetweenHalves /\ ~BetweenHalves'
  BY SoleMoves DEF RefreshCpu, RefreshCpuThrows, Refreshing
<1>2. Noted
  BY <1>1 DEF NoteInv
<1>3. /\ to_start_watching_' = {} /\ to_stop_watching_' = {} /\ last_pids_' = last_pids_
      /\ \A p \in Pids : process'[p] # Absent <=> Rewatched[p] # Absent
  <2>1. CASE RefreshCpu(q, from, to)
    <3>1. /\ to_start_watching_' = {} /\ to_stop_watching_' = {} /\ last_pids_' = last_pids_
          /\ round < MaxRounds
          /\ process' = [p \in Pids |-> IF p \in {u \in alive : Rewatched[u] # Absent}
                                        THEN round + 1 ELSE Rewatched[p]]
      BY <2>1 DEF RefreshCpu, NextRound
    <3>2. round + 1 # Absent
      BY <3>1, VmCpuUsageAssumption DEF TableInv, Absent
    <3> QED
      BY <3>1, <3>2
  <2>2. CASE RefreshCpuThrows(q, from)
    <3>1. /\ to_start_watching_' = {} /\ to_stop_watching_' = {} /\ last_pids_' = last_pids_
          /\ process' = Rewatched
      BY <2>2, VmCpuUsageAssumption DEF RefreshCpuThrows
    <3> QED
      BY <3>1
  <2> QED
    BY <2>1, <2>2
<1>4. Watched' = {p \in Pids : Rewatched[p] # Absent}
  BY <1>3 DEF Watched, Absent
<1>5. Settled'
  BY <1>2, <1>3, <1>4, Acted DEF Settled
<1> QED
  BY <1>1, <1>5 DEF NoteInv

\* A step that leaves notes and tables alone and is not about the halves.
LEMMA QuietNotes == ASSUME TableInv, NoteInv, NEW q \in Procs, NEW from, NEW to, Move(q, from, to),
                           {from, to} \cap {"r1_cpu", "r2_cpu"} = {},
                           UNCHANGED <<last_pids_, notes, process>>
                    PROVE  NoteInv'
<1>1. at'[q] = to /\ at[q] = from /\ \A p \in Procs \ {q} : at'[p] = at[p]
  BY DEF Move, TableInv
<1>2. BetweenHalves' <=> BetweenHalves
  BY <1>1 DEF BetweenHalves
<1> QED
  BY <1>2 DEF NoteInv, Noted, Settled, Watched, Absent, notes

LEMMA StepNotes == ASSUME TurnInv, TableInv, OneThread, NoteInv, "stat" \notin Failures, [Next]_vars
                   PROVE  NoteInv'
<1>0. /\ \A c \in Callers : c \in Procs
      /\ \A t \in Threads : t \in Procs
  BY DEF Procs
<1>1. CASE UNCHANGED vcpu
  BY <1>1 DEF vcpu, tables, notes, NoteInv, BetweenHalves, Noted, Settled, Watched, Absent
<1>2. CASE \/ Churn \/ UNCHANGED vars \/ \E q \in Procs : DividesByZero(q)
           \/ \E c \in Callers : CallBegins(c) \/ CallStep(c)
  BY <1>1, <1>2 DEF Churn, vars, DividesByZero, CallBegins, CallStep, tables, notes, NoteInv,
     BetweenHalves, Noted, Settled, Watched, Absent
<1>3. ASSUME NEW q \in Procs, NEW from \in {"r1_list", "r2_list"}, RefreshListThrows(q, from)
      PROVE  NoteInv'
  BY <1>3, QuietNotes DEF RefreshListThrows, tables
<1>4. ASSUME NEW c \in Callers, Begin(c) \/ GetterJoinable(c) \/ GetterPoll(c) \/ GetterRead(c)
      PROVE  NoteInv'
  <2>1. \E from, to : /\ GetterMoves(c, from, to)
                      /\ {from, to} \cap {"r1_cpu", "r2_cpu"} = {}
    <3>1. CASE GetterJoinable(c)
      <4>1. (IF thread_ # NoThread /\ Unjoined(thread_) THEN "g_wait" ELSE "r1_list") \in {"g_wait", "r1_list"}
        OBVIOUS
      <4> QED
        BY <3>1, <4>1 DEF GetterJoinable
    <3>2. CASE Begin(c) \/ GetterPoll(c) \/ GetterRead(c)
      BY <3>2 DEF Begin, GetterPoll, GetterRead
    <3> QED
      BY <1>4, <3>1, <3>2
  <2> QED
    BY <1>0, <2>1, QuietNotes DEF GetterMoves, tables
<1>5. ASSUME NEW c \in Callers, GetterRefresh(c) \/ GetterThrows(c) PROVE NoteInv'
  BY <1>0, <1>3, <1>5, ListNotes, CpuNotes DEF GetterRefresh, GetterThrows
<1>6. ASSUME NEW t \in Threads, WorkerStep(t) PROVE NoteInv'
  <2>1. CASE RunTest(t) /\ UNCHANGED vcpu
    BY <1>1, <2>1
  <2>2. CASE RoundBegins(t)
    BY <1>0, <2>2, QuietNotes DEF RoundBegins, tables
  <2>3. CASE RoundLists(t) \/ RoundEnds(t) \/ RoundThrows(t)
    BY <1>0, <1>3, <2>3, ListNotes, CpuNotes DEF RoundLists, RoundEnds, RoundThrows
  <2>4. CASE WorkerClears(t)
    <3>1. wk[t] = "clear" /\ at' = at
      BY <2>4 DEF WorkerClears, RunClear, WorkerGoto
    <3>2. \A p \in Procs : at[p] \notin Refreshing
      BY <3>1, WorkerAlone DEF Active, TurnInv, Procs
    <3>3. ~BetweenHalves'
      BY <3>1, <3>2 DEF BetweenHalves, Refreshing
    <3>4. Settled'
      BY <2>4 DEF WorkerClears, ClearAll, Settled, Watched, Absent
    <3> QED
      BY <3>3, <3>4 DEF NoteInv
  <2> QED
    BY <1>6, <2>1, <2>2, <2>3, <2>4 DEF WorkerStep
<1> QED
  BY <1>2, <1>4, <1>5, <1>6 DEF Next

\* With one program thread and the worker, the processes that are watched once the notes are
\* acted upon are those that VmBase listed last, exceptions of VmBase and of a round
\* included; a refresh that cannot open /proc/stat would leave its notes to the next one
\* (vm_cpu_usage.cpp:96-118, cpu_usage.cpp:222-241).
THEOREM UsageNotesLeadToListed ==
  ASSUME Serialised = TRUE, OneThread, "stat" \notin Failures
  PROVE  Spec => []WatchAgrees
<1> DEFINE Inv == TableInv /\ CountInv /\ TurnInv /\ NoteInv
<1>1. Init => Inv
  BY UsageInit, UsageInitTurn, UsageInitNotes
<1>2. Inv /\ [Next]_vars => Inv'
  BY StepTable, StepTurn, StepNotes
<1>3. Inv => WatchAgrees
  BY DEF NoteInv, Noted, Settled, WatchAgrees
<1> HIDE DEF Inv
<1> QED
  BY <1>1, <1>2, <1>3, PTL DEF Spec
================================================================================
