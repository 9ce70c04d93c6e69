------------------------------ MODULE VmBaseProofs ------------------------------
(****************************************************************************)
(* Theorems about the tables of VmBase, for any program threads, VMs,       *)
(* commands and callbacks, and with callers that need not take turns; and   *)
(* about their keys: the comparisons of VmId for all integers, and the ids  *)
(* of any mix of refreshes (VmIdTable).                                     *)
(****************************************************************************)
EXTENDS VmBase, VmIdTable, TLAPS

LEMMA InitInv == Init => DataInv
BY VmBaseAssumption DEF Init, DataInv, DataWhole, AtLabels, Procs

\* Steps that leave the tables, the command and has_data_ as they are.
LEMMA SameInv == ASSUME DataInv, UNCHANGED <<vm_cmd_, has_data_, data, failed, at, history>>
                 PROVE  DataInv'
BY DEF DataInv, DataWhole, Unlocked, data, history

\* Parameters: set_vm_cmd() empties the tables, clear_param() notes that it does not.
LEMMA ParamInv == ASSUME DataInv, NEW c \in Callers,
                         (\E cmd \in Cmds : SetVmCmd(c, cmd)) \/ (\E f \in Callbacks : SetCallback(c, f))
                            \/ ClearParam(c)
                  PROVE  DataInv'
<1>1. ASSUME NEW cmd \in Cmds, SetVmCmd(c, cmd) PROVE DataInv'
  BY <1>1 DEF SetVmCmd, MayChange, ClearData, DataInv, DataWhole, Unlocked
<1>2. ASSUME NEW f \in Callbacks, SetCallback(c, f) PROVE DataInv'
  BY <1>2, SameInv DEF SetCallback, MayChange
<1>3. CASE ClearParam(c)
  BY <1>3 DEF ClearParam, MayChange, DataInv, DataWhole, Unlocked, data
<1> QED
  BY <1>1, <1>2, <1>3

\* The first half of a refresh leaves the tables apart, and the mutex taken.
LEMMA MostInv == ASSUME DataInv, NEW p \in Procs, RefreshMost(p) PROVE DataInv'
<1>1. at' = [at EXCEPT ![p] = "r_vcpu"] /\ at'[p] = "r_vcpu"
  BY DEF RefreshMost, Move, DataInv
<1>2. DataWhole' /\ at' \in [Procs -> AtLabels]
  BY <1>1 DEF DataWhole, Unlocked, DataInv, AtLabels
<1>3. \A c \in Callers : at'[c] = "g_read" => has_data_' \/ c \in overtaken'
  BY <1>1 DEF RefreshMost, DataInv, Procs
<1> QED
  BY <1>2, <1>3 DEF RefreshMost, DataInv

\* The second half puts them in step, says that it has failed, or keeps the mutex.
LEMMA VcpuInv == ASSUME DataInv, NEW p \in Procs, NEW l \in {"idle", "g_wait"},
                        RefreshVcpu(p, l) \/ RefreshThrows(p) \/ RefreshBlocks(p)
                 PROVE  DataInv'
<1>1. \E k \in {"idle", "g_wait", "stuck"} : at' = [at EXCEPT ![p] = k]
  BY DEF RefreshVcpu, RefreshThrows, RefreshBlocks, Move
<1>2. at' \in [Procs -> AtLabels]
  BY <1>1 DEF DataInv, AtLabels
<1>3. /\ UNCHANGED <<vm_cmd_, vm_ids_, overtaken, kept>>
      /\ has_data_ => has_data_'
  BY DEF RefreshVcpu, RefreshThrows, RefreshBlocks, FillVcpus, history
<1>4. DataWhole'
  <2>1. CASE RefreshVcpu(p, l)
    BY <2>1 DEF RefreshVcpu, FillVcpus, DataWhole
  <2>2. CASE RefreshThrows(p)
    BY <2>2 DEF RefreshThrows, DataWhole
  <2>3. CASE RefreshBlocks(p)
    BY <2>3 DEF RefreshBlocks, Move, DataWhole, Unlocked, DataInv
  <2> QED
    BY <2>1, <2>2, <2>3
<1>5. \A c \in Callers : at'[c] = "g_read" => has_data_' \/ c \in overtaken'
  BY <1>1, <1>3 DEF DataInv, Procs
<1> QED
  BY <1>2, <1>3, <1>4, <1>5 DEF DataInv

\* A getter that moves on leaves the tables alone; it is past the poll only with data.
LEMMA MovesInv == ASSUME DataInv, NEW c \in Callers, NEW from \in AtLabels \ {"r_vcpu", "stuck"},
                         NEW to \in AtLabels, GetterMoves(c, from, to), to = "g_read" => has_data_
                  PROVE  DataInv'
<1>1. /\ at' = [at EXCEPT ![c] = to] /\ at[c] = from /\ c \in Procs
      /\ overtaken' = overtaken \ {c}
      /\ UNCHANGED <<vm_cmd_, has_data_, vm_ids_, vcpu_ids_, stable_vmthread_id_to_vm_id_, failed, kept>>
  BY DEF GetterMoves, Move, data, Procs
<1>2. at' \in [Procs -> AtLabels]
  BY <1>1 DEF DataInv
<1>3. Unlocked' => Unlocked
  BY <1>1 DEF Unlocked, DataInv
<1>4. \A d \in Callers : at'[d] = "g_read" => has_data_' \/ d \in overtaken'
  BY <1>1 DEF DataInv, Procs
<1> QED
  BY <1>1, <1>2, <1>3, <1>4 DEF DataInv, DataWhole

LEMMA GetterInv == ASSUME DataInv, NEW c \in Callers, Begin(c) \/ GetterStep(c) \/ GetterPoll(c)
                   PROVE  DataInv'
<1>0. c \in Procs
  BY DEF Procs
<1>1. CASE Begin(c)
  <2>1. /\ at' = [at EXCEPT ![c] = "g_joinable"] /\ at[c] = "idle"
        /\ UNCHANGED <<vm_cmd_, has_data_, vm_ids_, vcpu_ids_, stable_vmthread_id_to_vm_id_,
                       failed, overtaken, kept>>
    BY <1>1 DEF Begin, Move, data, history
  <2>2. at' \in [Procs -> AtLabels] /\ (Unlocked' => Unlocked)
    BY <1>0, <2>1 DEF DataInv, AtLabels, Unlocked
  <2>3. \A d \in Callers : at'[d] = "g_read" => has_data_' \/ d \in overtaken'
    BY <1>0, <2>1 DEF DataInv, Procs
  <2> QED
    BY <2>1, <2>2, <2>3 DEF DataInv, DataWhole
<1>2. CASE GetterJoinable(c)
  BY <1>2, MovesInv DEF GetterJoinable, AtLabels
<1>3. CASE GetterRefresh(c)
  BY <1>0, <1>3, MostInv, VcpuInv DEF GetterRefresh
<1>4. CASE GetterPoll(c)
  BY <1>4, MovesInv DEF GetterPoll, AtLabels
<1>5. CASE GetterRead(c)
  BY <1>5, MovesInv DEF GetterRead, AtLabels
<1> QED
  BY <1>1, <1>2, <1>3, <1>4, <1>5 DEF GetterStep

LEMMA WorkerInv == ASSUME DataInv, NEW t \in Threads, WorkerStep(t) PROVE DataInv'
<1>0. t \in Procs
  BY DEF Procs
<1>1. CASE WorkerTests(t)
  BY <1>1, SameInv DEF WorkerTests, vbase
<1>2. CASE RoundBegins(t)
  BY <1>0, <1>2, MostInv DEF RoundBegins
<1>3. CASE RoundEnds(t) \/ RefreshBlocks(t) \/ RoundThrows(t)
  BY <1>0, <1>3, VcpuInv DEF RoundEnds, RoundThrows
<1>4. CASE WorkerClears(t)
  BY <1>4 DEF WorkerClears, ClearData, DataInv, DataWhole, Unlocked
<1> QED
  BY <1>1, <1>2, <1>3, <1>4 DEF WorkerStep

LEMMA StepInv == DataInv /\ [Next]_vars => DataInv'
<1> SUFFICES ASSUME DataInv, [Next]_vars PROVE DataInv'
  OBVIOUS
<1>1. CASE UNCHANGED vars
  BY <1>1, SameInv DEF vars, vbase
<1>2. ASSUME NEW v \in VMs, Boot(v) \/ Exit(v) PROVE DataInv'
  BY <1>2, SameInv DEF Boot, Exit
<1>3. ASSUME NEW c \in Callers, CallBegins(c) \/ CallStep(c) PROVE DataInv'
  BY <1>3, SameInv DEF CallBegins, CallStep, vbase
<1> QED
  BY <1>1, <1>2, <1>3, ParamInv, GetterInv, WorkerInv DEF Next

\* The inductive invariant of the tables holds in every state (vm_base.cpp:39-111, 173-210,
\* 321-396).
THEOREM Invariance == Spec => []DataInv
<1> QED
  BY InitInv, StepInv, PTL DEF Spec

\* Readers see one whole snapshot unless a refresh threw (vm_base.cpp:173-210, 321-347).
THEOREM TablesAgree == Spec => []DataWhole
<1>1. DataInv => DataWhole
  BY DEF DataInv
<1> QED
  BY <1>1, Invariance, PTL

\* The VMs listed are of the command in force unless clear_param() has just changed it
\* (vm_base.cpp:39-55, 68-74).
THEOREM ListIsOfCommand == Spec => []DataOfCmd
<1>1. DataInv => DataOfCmd
  BY DEF DataInv, DataOfCmd
<1> QED
  BY <1>1, Invariance, PTL

\* A getter reads without data only if it was overtaken between its poll and its lock
\* (vm_base.cpp:76-111).
THEOREM GettersRead == Spec => ReadsSnapshot
<1>1. DataInv => [\A c \in Callers : at[c] = "g_read" /\ at'[c] = "idle"
                       => has_data_ \/ c \in overtaken]_vars
  BY DEF DataInv
<1> QED
  BY <1>1, Invariance, PTL DEF ReadsSnapshot
-------------------------------------------------------------------------------
\* Types, those of Runnable with them.

LEMMA CallType == ASSUME RTypeOK, NEW c \in Callers,
                         (\E op \in {"start", "stop"} : Call(c, op)) \/ StartStep(c) \/ StopStep(c)
                  PROVE  RTypeOK'
<1>1. ASSUME NEW op \in {"start", "stop"}, Call(c, op) PROVE RTypeOK'
  BY <1>1 DEF Call, Goto, RTypeOK, Labels, StartPcs, StopPcs
<1>2. CASE StartCheck(c) \/ StartReset(c) \/ StartFlag(c)
  BY <1>2 DEF StartCheck, StartReset, StartFlag, Reset, Goto, RTypeOK, Labels, StartPcs, StopPcs, WorkerLabels
<1>3. CASE StartSpawn(c)
  BY <1>3 DEF StartSpawn, Goto, RTypeOK, Labels, StartPcs, StopPcs, WorkerLabels
<1>4. CASE StartPublish(c)
  BY <1>4 DEF StartPublish, Reset, Goto, RTypeOK, Labels, StartPcs, StopPcs, WorkerLabels
<1>5. CASE StopCheck(c) \/ StopFlag(c) \/ StopJoinable(c)
  BY <1>5 DEF StopCheck, StopFlag, StopJoinable, Goto, RTypeOK, Labels, StartPcs, StopPcs
<1>6. CASE StopJoin(c)
  <2>1. crashed' \in BOOLEAN
    BY <1>6 DEF StopJoin
  <2> QED
    BY <1>6, <2>1 DEF StopJoin, Goto, RTypeOK, Labels, StartPcs, StopPcs, WorkerLabels
<1> QED
  BY <1>1, <1>2, <1>3, <1>4, <1>5, <1>6 DEF StartStep, StopStep

LEMMA RunType == ASSUME RTypeOK, NEW t \in Threads, RunTest(t) \/ RunRound(t) \/ RunClear(t)
                 PROVE  RTypeOK'
BY DEF RunTest, RunRound, RunClear, WorkerGoto, RTypeOK, WorkerLabels

\* The parts that a refresh, a getter and a parameter change may move.
TablesType == /\ alive \subseteq VMs
              /\ vm_cmd_ \in Cmds
              /\ callback_ \in Callbacks \cup {"none"}
              /\ has_data_ \in BOOLEAN
              /\ vm_ids_ \subseteq VMs
              /\ stable_vmthread_id_to_vm_id_ \subseteq VMs
              /\ vcpu_ids_ \subseteq VMs
              /\ failed \in BOOLEAN
              /\ at \in [Procs -> AtLabels]
              /\ changes \in 0..MaxChanges
              /\ overtaken \subseteq Callers
              /\ kept \in BOOLEAN

LEMMA RefreshType == ASSUME TablesType, NEW p \in Procs, NEW l \in {"idle", "g_wait"},
                            RefreshMost(p) \/ RefreshVcpu(p, l) \/ RefreshThrows(p) \/ RefreshBlocks(p)
                     PROVE  TablesType'
<1>1. CASE RefreshMost(p)
  BY <1>1 DEF RefreshMost, Move, TablesType, AtLabels
<1>2. CASE RefreshVcpu(p, l)
  BY <1>2 DEF RefreshVcpu, FillVcpus, Move, TablesType, AtLabels, history
<1>3. CASE RefreshThrows(p)
  BY <1>3 DEF RefreshThrows, FillVcpus, Move, TablesType, AtLabels, history
<1>4. CASE RefreshBlocks(p)
  BY <1>4 DEF RefreshBlocks, FillVcpus, Move, TablesType, AtLabels, history
<1> QED
  BY <1>1, <1>2, <1>3, <1>4

LEMMA ParamType == ASSUME TablesType, NEW c \in Callers,
                          (\E cmd \in Cmds : SetVmCmd(c, cmd)) \/ (\E f \in Callbacks : SetCallback(c, f))
                             \/ ClearParam(c)
                   PROVE  TablesType'
<1>1. changes' \in 0..MaxChanges
  BY VmBaseAssumption DEF SetVmCmd, SetCallback, ClearParam, MayChange, TablesType
<1>2. UNCHANGED <<alive, at>>
  BY DEF SetVmCmd, SetCallback, ClearParam, MayChange
<1>3. ASSUME NEW cmd \in Cmds, SetVmCmd(c, cmd) PROVE TablesType'
  BY <1>1, <1>2, <1>3 DEF SetVmCmd, ClearData, TablesType
<1>4. ASSUME NEW f \in Callbacks, SetCallback(c, f) PROVE TablesType'
  BY <1>1, <1>2, <1>4 DEF SetCallback, TablesType, data, history
<1>5. CASE ClearParam(c)
  BY <1>1, <1>2, <1>5, VmBaseAssumption DEF ClearParam, TablesType, data
<1> QED
  BY <1>3, <1>4, <1>5

LEMMA GetterType == ASSUME TablesType, NEW c \in Callers, Begin(c) \/ GetterStep(c) \/ GetterPoll(c)
                    PROVE  TablesType'
<1>0. c \in Procs
  BY DEF Procs
<1>1. ASSUME NEW from, NEW to \in AtLabels, GetterMoves(c, from, to) PROVE TablesType'
  BY <1>0, <1>1 DEF GetterMoves, Move, TablesType, data
<1>2. CASE Begin(c)
  BY <1>0, <1>2 DEF Begin, Move, TablesType, AtLabels, data, history
<1>3. CASE GetterRefresh(c)
  BY <1>0, <1>3, RefreshType DEF GetterRefresh
<1>4. CASE GetterJoinable(c) \/ GetterRead(c) \/ GetterPoll(c)
  BY <1>1, <1>4 DEF GetterJoinable, GetterRead, GetterPoll, AtLabels
<1> QED
  BY <1>2, <1>3, <1>4 DEF GetterStep

LEMMA WorkerType == ASSUME TypeOK, NEW t \in Threads, WorkerStep(t) PROVE RTypeOK' /\ TablesType'
<1>0. t \in Procs /\ RTypeOK /\ TablesType
  BY DEF Procs, TypeOK, TablesType
<1>1. CASE WorkerTests(t)
  BY <1>0, <1>1, RunType DEF WorkerTests, vbase, TablesType, data, history
<1>2. CASE RoundBegins(t)
  BY <1>0, <1>2, RefreshType DEF RoundBegins, rvars, RTypeOK
<1>3. CASE RoundEnds(t)
  BY <1>0, <1>3, RunType, RefreshType DEF RoundEnds
<1>4. CASE RefreshBlocks(t)
  <2>1. UNCHANGED rvars
    BY <1>4 DEF RefreshBlocks
  <2> QED
    BY <1>0, <1>4, <2>1, RefreshType DEF rvars, RTypeOK
<1>5. CASE RoundThrows(t)
  BY <1>0, <1>5, RefreshType DEF RoundThrows, RTypeOK
<1>6. CASE WorkerClears(t)
  BY <1>0, <1>6, RunType DEF WorkerClears, ClearData, TablesType
<1> QED
  BY <1>1, <1>2, <1>3, <1>4, <1>5, <1>6 DEF WorkerStep

LEMMA StepType == TypeOK /\ [Next]_vars => TypeOK'
<1> SUFFICES ASSUME TypeOK, [Next]_vars PROVE RTypeOK' /\ TablesType'
  BY DEF TypeOK, TablesType
<1>0. RTypeOK /\ TablesType
  BY DEF TypeOK, TablesType
<1>1. CASE UNCHANGED vars
  BY <1>0, <1>1 DEF vars, rvars, vbase, data, history, RTypeOK, TablesType
<1>2. ASSUME NEW v \in VMs, Boot(v) \/ Exit(v) PROVE RTypeOK' /\ TablesType'
  BY <1>0, <1>2 DEF Boot, Exit, rvars, data, history, RTypeOK, TablesType
<1>3. ASSUME NEW c \in Callers, CallBegins(c) \/ CallStep(c) PROVE RTypeOK' /\ TablesType'
  <2>1. UNCHANGED vbase
    BY <1>3 DEF CallBegins, CallStep
  <2>2. TablesType'
    BY <1>0, <2>1 DEF vbase, data, history, TablesType
  <2> QED
    BY <1>0, <1>3, <2>2, CallType DEF CallBegins, CallStep
<1>4. ASSUME NEW c \in Callers, (\E cmd \in Cmds : SetVmCmd(c, cmd)) \/ (\E f \in Callbacks : SetCallback(c, f))
                                  \/ ClearParam(c)
      PROVE  RTypeOK' /\ TablesType'
  <2>1. UNCHANGED rvars
    BY <1>4 DEF SetVmCmd, SetCallback, ClearParam, MayChange
  <2> QED
    BY <1>0, <1>4, <2>1, ParamType DEF rvars, RTypeOK
<1>5. ASSUME NEW c \in Callers, Begin(c) \/ GetterStep(c) \/ GetterPoll(c) PROVE RTypeOK' /\ TablesType'
  <2>1. UNCHANGED rvars
    BY <1>5 DEF Begin, GetterStep, GetterPoll, GetterJoinable, GetterRefresh, GetterRead, GetterMoves,
                RefreshBlocks
  <2> QED
    BY <1>0, <1>5, <2>1, GetterType DEF rvars, RTypeOK
<1> QED
  BY <1>1, <1>2, <1>3, <1>4, <1>5, WorkerType DEF Next

LEMMA InitType == Init => TypeOK
<1> SUFFICES ASSUME Init PROVE RTypeOK /\ TablesType
  BY DEF TypeOK, TablesType
<1>1. RTypeOK
  BY DEF Init, RInit, RTypeOK, WorkerLabels, Labels
<1>2. changes \in 0..MaxChanges
  BY VmBaseAssumption DEF Init
<1>3. at \in [Procs -> AtLabels]
  BY DEF Init, AtLabels
<1> QED
  BY <1>1, <1>2, <1>3, VmBaseAssumption DEF Init, TablesType

\* Every variable of VmBase, and of the Runnable that it is, stays in its type.
THEOREM TypeCorrect == Spec => []TypeOK
<1> QED
  BY InitType, StepType, PTL DEF Spec
-------------------------------------------------------------------------------
(* The keys of the tables.                                                  *)

\* On any two keys operator== says what operator< says when it holds neither way.
LEMMA EqIsEquivalent ==
  ASSUME NEW a \in VmIds, NEW b \in VmIds
  PROVE  VmIdEq(a, b) <=> Equivalent(a, b)
  BY DEF VmIds, VmIdEq, Equivalent, VmIdLess, Near

\* Near is symmetric, and reflexive.
LEMMA NearSym ==
  ASSUME NEW a \in VmIds, NEW b \in VmIds
  PROVE  Near(a, a) /\ (Near(a, b) <=> Near(b, a))
  BY DEF VmIds, Near

\* operator< never holds both ways.
LEMMA LessAsymmetric ==
  ASSUME NEW a \in VmIds, NEW b \in VmIds, VmIdLess(a, b)
  PROVE  ~VmIdLess(b, a)
  BY DEF VmIds, VmIdLess, Near

\* On keys whose start times fall into groups, operator< is the strict weak order
\* that std::set<VmId> and std::map<VmId, ...> require; without that premise it
\* is not: the keys (0,1), (2,2), (4,3) are each less than the next, cyclically.
THEOREM OrderedWhenClustered ==
  ASSUME NEW S \in SUBSET VmIds, Clustered(S)
  PROVE  StrictWeakOrder(S)
<1>1. ASSUME NEW a \in S PROVE ~VmIdLess(a, a)
  BY LessAsymmetric
<1>2. ASSUME NEW a \in S, NEW b \in S, NEW c \in S, VmIdLess(a, b), VmIdLess(b, c)
      PROVE  VmIdLess(a, c)
  <2>1. /\ Near(a, b) /\ Near(b, c) => Near(a, c)
        /\ Near(b, a) /\ Near(a, c) => Near(b, c)
        /\ Near(a, c) /\ Near(c, b) => Near(a, b)
    BY DEF Clustered
  <2>2. /\ Near(a, b) <=> Near(b, a)
        /\ Near(b, c) <=> Near(c, b)
    BY NearSym
  <2>3. CASE Near(a, b) /\ Near(b, c)
    BY <1>2, <2>1, <2>3 DEF VmIds, VmIdLess
  <2>4. CASE Near(a, b) /\ ~Near(b, c)
    BY <1>2, <2>1, <2>2, <2>4 DEF VmIds, VmIdLess, Near
  <2>5. CASE ~Near(a, b) /\ Near(b, c)
    BY <1>2, <2>1, <2>2, <2>5 DEF VmIds, VmIdLess, Near
  <2>6. CASE ~Near(a, b) /\ ~Near(b, c)
    BY <1>2, <2>6 DEF VmIds, VmIdLess, Near
  <2> QED BY <2>3, <2>4, <2>5, <2>6
<1>3. ASSUME NEW a \in S, NEW b \in S, NEW c \in S, Equivalent(a, b), Equivalent(b, c)
      PROVE  Equivalent(a, c)
  <2>1. VmIdEq(a, b) /\ VmIdEq(b, c)
    BY <1>3, EqIsEquivalent
  <2>2. Near(a, c) /\ a.pid = c.pid
    BY <2>1 DEF VmIdEq, Clustered
  <2> QED BY <2>2, EqIsEquivalent DEF VmIdEq
<1> QED BY <1>1, <1>2, <1>3 DEF StrictWeakOrder

\* On keys whose start times fall into groups, operator== is an equivalence, and the one
\* that operator< induces: a std::map finds the entries that compare equal, and no entry
\* equals two that differ (vm_base.cpp:398-410).
THEOREM EqIsEquivalence ==
  ASSUME NEW S \in SUBSET VmIds, Clustered(S)
  PROVE  /\ \A a \in S : VmIdEq(a, a)
         /\ \A a, b \in S : VmIdEq(a, b) => VmIdEq(b, a)
         /\ \A a, b, c \in S : VmIdEq(a, b) /\ VmIdEq(b, c) => VmIdEq(a, c)
         /\ \A a, b \in S : VmIdEq(a, b) <=> Equivalent(a, b)
<1>1. ASSUME NEW a \in S, NEW b \in S
      PROVE  VmIdEq(a, a) /\ (VmIdEq(a, b) => VmIdEq(b, a))
  BY NearSym DEF VmIdEq
<1>2. ASSUME NEW a \in S, NEW b \in S, NEW c \in S, VmIdEq(a, b), VmIdEq(b, c)
      PROVE  VmIdEq(a, c)
  BY <1>2 DEF VmIdEq, Clustered
<1> QED
  BY <1>1, <1>2, EqIsEquivalent
-------------------------------------------------------------------------------
(* The ids of successive refreshes.                                        *)

LEMMA IdInitInv == TInit => IdInv
  BY VmIdTableAssumption DEF TInit, IdInv, TypesOK

\* A process appears with a pid of its own, or a margin later.
LEMMA AppearsInv == ASSUME IdInv, NEW pid \in Pids, Appears(pid) PROVE IdInv'
<1> DEFINE n == [start |-> clock, pid |-> pid]
<1>1. /\ ran' = ran \cup {n} /\ up' = up \cup {n}
      /\ UNCHANGED <<clock, keyed, handed>>
      /\ \A q \in ran : q.pid = pid => clock - q.start >= Margin
  BY DEF Appears
<1>2. /\ clock \in Nat /\ n \in [start : 0..clock, pid : Pids]
      /\ \A p \in ran : p \in [start : 0..clock, pid : Pids]
  BY VmIdTableAssumption DEF IdInv, TypesOK
<1>3. TypesOK'
  BY <1>1, <1>2 DEF IdInv, TypesOK, Observed, Errors
<1>4. \A q \in ran : n.pid = q.pid => Apart(n, q) /\ Apart(q, n)
  BY <1>1 DEF Apart
<1> HIDE DEF n
<1>5. \A p, q \in ran' : p.pid = q.pid /\ p # q => Apart(p, q)
  BY <1>1, <1>4 DEF IdInv
<1> QED
  BY <1>3, <1>5 DEF IdInv, Apart

\* Every other step leaves the processes so far alone; a refresh observes running ones.
LEMMA IdStepInv == IdInv /\ [TNext]_tvars => IdInv'
<1> SUFFICES ASSUME IdInv, [TNext]_tvars PROVE IdInv'
  OBVIOUS
<1>a. TypesOK
  BY DEF IdInv
<1>1. ASSUME TypesOK', UNCHANGED ran PROVE IdInv'
  BY <1>1 DEF IdInv, Apart
<1>2. CASE Tick
  <2>1. clock \in Nat /\ clock' = clock + 1 /\ UNCHANGED <<ran, up, keyed, handed>>
    BY <1>2, <1>a DEF Tick, TypesOK
  <2>2. \A p \in ran : p \in [start : 0..clock', pid : Pids]
    BY <2>1, <1>a DEF TypesOK
  <2> QED
    BY <2>1, <2>2, <1>1, <1>a DEF TypesOK, Observed, Errors
<1>3. CASE Refresh
  <2>1. PICK error \in [up -> Errors] :
             keyed' = {[id |-> Observed(p, error[p]), proc |-> p] : p \in up}
    BY <1>3 DEF Refresh
  <2>2. \A k \in keyed' : k.proc \in up /\ k.id = Observed(k.proc, error[k.proc])
    BY <2>1
  <2>3. \A k \in keyed' : k.proc \in ran /\ \E e \in Errors : k.id = Observed(k.proc, e)
    BY <2>2, <1>a DEF TypesOK
  <2> QED
    BY <2>3, <1>1, <1>3, <1>a DEF Refresh, TypesOK, Observed, Errors
<1>4. CASE GetVmIds
  BY <1>1, <1>4, <1>a DEF GetVmIds, TypesOK, Observed, Errors
<1>5. ASSUME NEW p \in up, Disappears(p) PROVE IdInv'
  BY <1>1, <1>5, <1>a DEF Disappears, TypesOK, Observed, Errors
<1>6. CASE UNCHANGED tvars
  BY <1>1, <1>6, <1>a DEF tvars, TypesOK, Observed, Errors
<1> QED
  BY <1>2, <1>3, <1>4, <1>5, <1>6, AppearsInv DEF TNext

\* A pid is used again only Margin seconds later, and every id in the tables or in the
\* program's objects was observed of a process, up to Early seconds early and up to Late
\* seconds late (vm_base.cpp:76-111, 212-250).
THEOREM IdInvariance == TSpec => []IdInv
<1> QED
  BY IdInitInv, IdStepInv, PTL DEF TSpec

\* Two ids differ as their processes do, but for their errors.
LEMMA IdsOfProcs ==
  ASSUME IdInv, NEW k \in keyed \cup handed, NEW l \in keyed \cup handed
  PROVE  /\ k.id \in VmIds /\ k.id.pid = k.proc.pid /\ l.id.pid = l.proc.pid
         /\ k.proc \in ran /\ l.proc \in ran
         /\ k.proc.start \in Nat /\ l.proc.start \in Nat
         /\ \E d \in -(Early + Late)..(Early + Late) :
                k.id.start - l.id.start = (k.proc.start - l.proc.start) + d
<1>1. /\ clock \in Nat /\ ran \subseteq [start : 0..clock, pid : Pids] /\ Pids \subseteq Nat
      /\ Early \in Nat /\ Late \in Nat /\ k.proc \in ran /\ l.proc \in ran
  BY VmIdTableAssumption DEF IdInv, TypesOK
<1>2. /\ k.proc.start \in Nat /\ k.proc.pid \in Nat
      /\ l.proc.start \in Nat /\ l.proc.pid \in Nat
  <2>1. /\ k.proc.start \in 0..clock /\ k.proc.pid \in Pids
        /\ l.proc.start \in 0..clock /\ l.proc.pid \in Pids
    BY <1>1
  <2>2. \A i \in 0..clock : i \in Nat
    BY <1>1
  <2> QED
    BY <1>1, <2>1, <2>2
<1>3. PICK e \in Errors : k.id = Observed(k.proc, e)
  BY DEF IdInv, TypesOK
<1>4. PICK f \in Errors : l.id = Observed(l.proc, f)
  BY DEF IdInv, TypesOK
<1>5. /\ k.id = [start |-> k.proc.start + e, pid |-> k.proc.pid]
      /\ l.id = [start |-> l.proc.start + f, pid |-> l.proc.pid]
  BY <1>3, <1>4 DEF Observed
<1>6. e \in Int /\ f \in Int /\ e - f \in -(Early + Late)..(Early + Late)
  BY <1>1 DEF Errors
<1>7. k.id.start - l.id.start = (k.proc.start - l.proc.start) + (e - f)
  BY <1>2, <1>5, <1>6
<1> QED
  BY <1>1, <1>2, <1>5, <1>6, <1>7 DEF VmIds

\* An id kept from one refresh and the key of another are equal when they are of the same
\* process, and ids are near when no error parts their processes.
LEMMA NearAsProcs ==
  ASSUME IdInv, NEW k \in keyed \cup handed, NEW l \in keyed \cup handed
  PROVE  /\ Together(k.proc, l.proc) => Near(k.id, l.id)
         /\ k.proc = l.proc => Near(k.id, l.id)
         /\ Apart(k.proc, l.proc) => ~Near(k.id, l.id)
<1>1. PICK d \in -(Early + Late)..(Early + Late) :
           k.id.start - l.id.start = (k.proc.start - l.proc.start) + d
  BY IdsOfProcs
<1>2. k.proc.start \in Nat /\ l.proc.start \in Nat
  BY IdsOfProcs
<1> QED
  BY <1>1, <1>2, VmIdTableAssumption DEF Near, Together, Apart

\* When the VMs in the tables and in the program's objects have started so close to one
\* another that no error parts them, or Margin seconds apart, every key table and every
\* search in it, with ids of any mix of refreshes, obeys the order that std::map requires
\* (vm_base.cpp:404-410).
THEOREM KeysAreOrdered == TSpec => []KeysOrdered
<1>1. IdInv => KeysOrdered
  <2> SUFFICES ASSUME IdInv, Spaced PROVE StrictWeakOrder(Keys)
    BY DEF KeysOrdered
  <2>1. Keys \in SUBSET VmIds
    BY IdsOfProcs DEF Keys
  <2>2. ASSUME NEW a \in Keys, NEW b \in Keys, NEW c \in Keys, Near(a, b), Near(b, c)
        PROVE  Near(a, c)
    <3>1. PICK k \in keyed \cup handed : a = k.id
      BY DEF Keys
    <3>2. PICK l \in keyed \cup handed : b = l.id
      BY DEF Keys
    <3>3. PICK m \in keyed \cup handed : c = m.id
      BY DEF Keys
    <3>4. Together(k.proc, l.proc) /\ Together(l.proc, m.proc)
      BY <2>2, <3>1, <3>2, <3>3, NearAsProcs DEF Spaced
    <3>5. k.proc.start \in Nat /\ l.proc.start \in Nat /\ m.proc.start \in Nat
      BY IdsOfProcs
    <3>6. ~Apart(k.proc, m.proc)
      BY <3>4, <3>5, VmIdTableAssumption DEF Apart, Together
    <3>7. Together(k.proc, m.proc)
      BY <3>6 DEF Spaced
    <3> QED
      BY <3>1, <3>3, <3>7, NearAsProcs
  <2>3. Clustered(Keys)
    BY <2>2 DEF Clustered
  <2> QED
    BY <2>1, <2>3, OrderedWhenClustered
<1> QED
  BY <1>1, IdInvariance, PTL

\* An id that the program has kept finds its VM in the tables of any later refresh, and
\* never another VM, one with a pid used again included; close starts do not matter to
\* operator== (vm_base.cpp:398-402).
THEOREM IdsAreOfTheirVm == TSpec => []IdsTellVmsApart
<1>1. IdInv => IdsTellVmsApart
  <2> SUFFICES ASSUME IdInv, NEW k \in keyed \cup handed, NEW l \in keyed \cup handed
               PROVE  VmIdEq(k.id, l.id) <=> k.proc = l.proc
    BY DEF IdsTellVmsApart
  <2>1. /\ k.id.pid = k.proc.pid /\ l.id.pid = l.proc.pid
        /\ k.proc \in ran /\ l.proc \in ran
    BY IdsOfProcs
  <2>2. k.proc.pid = l.proc.pid /\ k.proc # l.proc => Apart(k.proc, l.proc)
    BY <2>1 DEF IdInv
  <2> QED
    BY <2>1, <2>2, NearAsProcs DEF VmIdEq
<1> QED
  BY <1>1, IdInvariance, PTL
================================================================================
