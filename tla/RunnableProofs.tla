---------------------------- MODULE RunnableProofs ----------------------------
(****************************************************************************)
(* Proofs about Runnable for any set of callers and threads: when callers   *)
(* take turns in start() and stop(), RInv is an inductive invariant; from   *)
(* it follow the safety properties that TLC checks on a small instance.     *)
(****************************************************************************)
EXTENDS Runnable, TLAPS

\* The object starts stopped, with no thread and nobody inside a call.
LEMMA InitInv == RInit => RInv
  BY RunnableAssumption
     DEF RInit, RInv, RTypeOK, OneInTurn, CallInv, InTurn, Stopped, Labels,
         WorkerLabels, StartPcs, StopPcs

\* The frame of a caller's step: when c has the turn and goes to l, RInv holds
\* afterwards if c's own part of it does.
LEMMA CallerFrame ==
  ASSUME RTypeOK, OneInTurn, NEW c \in Callers, InTurn(c), NEW l, Goto(c, l),
         RTypeOK', CallInv(c)', ~InTurn(c)' => (Stopped \/ Running)'
  PROVE  RInv'
<1>1. \A d \in Callers \ {c} : ~InTurn(d)'
  BY DEF RTypeOK, Goto, OneInTurn, InTurn
<1>2. \A d \in Callers : CallInv(d)'
  BY <1>1 DEF CallInv, InTurn, StartPcs, StopPcs
<1>3. OneInTurn'
  BY <1>1 DEF OneInTurn
<1> QED BY <1>1, <1>2, <1>3 DEF RInv

\* The frame of a worker's step, which moves only that worker: RInv holds
\* afterwards if every caller's part and the part between calls do.
LEMMA WorkerFrame ==
  ASSUME RInv, NEW t \in Threads, Worker(t)
  PROVE  RInv'
<1>a. /\ RTypeOK /\ OneInTurn /\ \A c \in Callers : CallInv(c)
      /\ (\A c \in Callers : ~InTurn(c)) => Stopped \/ Running
  BY DEF RInv
<1>b. /\ UNCHANGED <<stop_, thread_, pc, target>>
      /\ wk[t] \in Active
      /\ wk' = [wk EXCEPT ![t] = wk'[t]]
      /\ wk'[t] \in Active \cup {"done"}
      /\ ~stop_ /\ wk[t] \in {"test", "round"} => wk'[t] \in {"test", "round"}
  BY <1>a DEF Worker, RunTest, RunRound, RunClear, WorkerGoto, Active, RTypeOK
<1>1. RTypeOK'
  BY <1>a, <1>b DEF RTypeOK, WorkerLabels, Active, Worker, RunTest, RunRound, RunClear, WorkerGoto
<1>2. OneInTurn'
  BY <1>a, <1>b DEF OneInTurn, InTurn
<1>3. ~Stopped
  BY <1>b DEF Stopped, Active
<1>4. ASSUME NEW u, Only(u, Active \cup {"done"})
      PROVE  Only(u, Active \cup {"done"})'
  BY <1>4, <1>a, <1>b DEF Only, Active, RTypeOK
<1>5. ASSUME NEW u, Only(u, {"test", "round"}), ~stop_
      PROVE  Only(u, {"test", "round"})'
  BY <1>5, <1>a, <1>b DEF Only, Active, RTypeOK
<1>6. Running => Running'
  BY <1>5, <1>b DEF Running, Only
<1>7. Stopping => Stopping'
  BY <1>4, <1>b DEF Stopping, Only
<1>8. ASSUME NEW c \in Callers PROVE CallInv(c)'
  <2>1. CallInv(c)
    BY <1>a
  <2>2. ~(pc[c] = "start_spawn")
    BY <2>1, <1>b DEF CallInv, Active
  <2>3. pc[c] = "start_publish" => Only(target[c], {"test", "round"})'
    BY <2>1, <1>5, <1>b DEF CallInv, Only
  <2> QED BY <2>1, <2>2, <2>3, <1>3, <1>6, <1>7, <1>b DEF CallInv
<1>9. (\A c \in Callers : ~InTurn(c))' => (Stopped \/ Running)'
  BY <1>a, <1>b, <1>3, <1>6 DEF InTurn
<1> QED BY <1>1, <1>2, <1>8, <1>9 DEF RInv

-------------------------------------------------------------------------------
\* Every step of the callers and of the worker preserves RInv.
LEMMA NextInv == ASSUME Serialised = TRUE, RInv, [RNext]_rvars PROVE RInv'
<1> USE RunnableAssumption DEF Goto, StartPcs, StopPcs
<1>a. /\ RTypeOK /\ OneInTurn /\ \A c \in Callers : CallInv(c)
      /\ (\A c \in Callers : ~InTurn(c)) => Stopped \/ Running
  BY DEF RInv
<1>1. ASSUME NEW c \in Callers, NEW op \in {"start", "stop"}, Call(c, op) PROVE RInv'
  <2>1. \A d \in Callers : ~InTurn(d)
    BY <1>1 DEF Call
  <2>2. (Stopped \/ Running)'
    BY <2>1, <1>a, <1>1 DEF Call, Stopped, Running, Only
  <2>3. RTypeOK'
    BY <1>1, <1>a DEF Call, RTypeOK, Labels
  <2>4. /\ pc'[c] \in {"start_check", "stop_check"}
        /\ \A d \in Callers \ {c} : ~InTurn(d)'
    BY <1>1, <1>a, <2>1 DEF Call, RTypeOK, InTurn
  <2>5. \A d \in Callers : CallInv(d)'
    BY <2>4, <2>2 DEF CallInv, InTurn
  <2> QED BY <2>2, <2>3, <2>4, <2>5 DEF RInv, OneInTurn
<1>2. ASSUME NEW c \in Callers, StartStep(c) \/ StopStep(c) PROVE RInv'
  <2>1. InTurn(c) /\ CallInv(c)
    BY <1>2, <1>a DEF StartStep, StopStep, StartCheck, StartReset, StartFlag, StartSpawn,
          StartPublish, StopCheck, StopFlag, StopJoinable, StopJoin, InTurn
  <2>2. CASE StartCheck(c)
    <3>1. pc'[c] = (IF stop_ THEN "start_reset" ELSE "idle") /\ RTypeOK'
      BY <2>2, <1>a DEF StartCheck, RTypeOK, Labels
    <3>2. (Stopped \/ Running)' /\ (stop_ => Stopped')
      BY <2>1, <2>2 DEF StartCheck, CallInv, Stopped, Running, Only
    <3>3. CallInv(c)'
      BY <3>1, <3>2, <2>2 DEF CallInv, StartCheck
    <3> QED BY <3>1, <3>2, <3>3, <2>1, <2>2, <1>a, CallerFrame DEF StartCheck
  <2>3. CASE StartReset(c)
    <3>1. pc'[c] = "start_flag" /\ RTypeOK'
      BY <2>3, <1>a DEF StartReset, Reset, RTypeOK, Labels, WorkerLabels, Unjoined, Active
    <3>2. Stopped' /\ thread_' = NoThread
      BY <2>1, <2>3, <1>a DEF StartReset, Reset, CallInv, Stopped, Unjoined, Active, RTypeOK
    <3>3. CallInv(c)'
      BY <3>1, <3>2 DEF CallInv
    <3> QED BY <3>1, <3>2, <3>3, <2>1, <2>3, <1>a, CallerFrame DEF StartReset
  <2>4. CASE StartFlag(c)
    <3>1. pc'[c] = "start_spawn" /\ RTypeOK'
      BY <2>4, <1>a DEF StartFlag, RTypeOK, Labels
    <3>2. ~stop_' /\ thread_' = NoThread /\ \A t \in Threads : wk'[t] = "none"
      BY <2>1, <2>4 DEF StartFlag, CallInv, Stopped
    <3>3. CallInv(c)' /\ InTurn(c)'
      BY <3>1, <3>2 DEF CallInv, InTurn
    <3> QED BY <3>1, <3>3, <2>1, <2>4, <1>a, CallerFrame DEF StartFlag
  <2>5. CASE StartSpawn(c)
    <3>1. PICK t \in Threads : /\ wk' = [wk EXCEPT ![t] = "test"]
                               /\ target' = [target EXCEPT ![c] = t]
      BY <2>5 DEF StartSpawn
    <3>2. pc'[c] = "start_publish" /\ RTypeOK'
      BY <2>5, <3>1, <1>a DEF StartSpawn, RTypeOK, Labels, WorkerLabels
    <3>3. ~stop_' /\ thread_' = NoThread /\ Only(target[c], {"test", "round"})'
      BY <2>1, <2>5, <3>1, <1>a DEF StartSpawn, CallInv, Only, RTypeOK
    <3>4. CallInv(c)' /\ InTurn(c)'
      BY <3>2, <3>3 DEF CallInv, InTurn
    <3> QED BY <3>2, <3>4, <2>1, <2>5, <1>a, CallerFrame DEF StartSpawn
  <2>6. CASE StartPublish(c)
    <3>1. ~stop_ /\ thread_ = NoThread /\ Only(target[c], {"test", "round"})
      BY <2>1, <2>6 DEF StartPublish, CallInv
    <3>2. pc'[c] = "idle" /\ RTypeOK'
      BY <2>6, <1>a, <3>1 DEF StartPublish, Reset, RTypeOK, Labels
    <3>3. Running'
      BY <2>6, <3>1 DEF StartPublish, Reset, Running, Only
    <3>4. CallInv(c)'
      BY <3>2 DEF CallInv
    <3> QED BY <3>2, <3>3, <3>4, <2>1, <2>6, <1>a, CallerFrame DEF StartPublish
  <2>7. CASE StopCheck(c)
    <3>1. pc'[c] = (IF stop_ THEN "idle" ELSE "stop_flag") /\ RTypeOK'
      BY <2>7, <1>a DEF StopCheck, RTypeOK, Labels
    <3>2. (Stopped \/ Running)' /\ (~stop_ => Running')
      BY <2>1, <2>7 DEF StopCheck, CallInv, Stopped, Running, Only
    <3>3. CallInv(c)'
      BY <3>1, <3>2, <2>7 DEF CallInv, StopCheck
    <3> QED BY <3>1, <3>2, <3>3, <2>1, <2>7, <1>a, CallerFrame DEF StopCheck
  <2>8. CASE StopFlag(c)
    <3>1. pc'[c] = "stop_joinable" /\ RTypeOK'
      BY <2>8, <1>a DEF StopFlag, RTypeOK, Labels
    <3>2. Stopping'
      BY <2>1, <2>8 DEF StopFlag, CallInv, Running, Stopping, Only, Active
    <3>3. CallInv(c)' /\ InTurn(c)'
      BY <3>1, <3>2 DEF CallInv, InTurn
    <3> QED BY <3>1, <3>3, <2>1, <2>8, <1>a, CallerFrame DEF StopFlag
  <2>9. CASE StopJoinable(c)
    <3>1. Stopping /\ Stopping'
      BY <2>1, <2>9 DEF StopJoinable, CallInv, Stopping, Only
    <3>2. /\ pc'[c] = "stop_join" /\ RTypeOK'
          /\ target'[c] = thread_'
      BY <3>1, <2>9, <1>a
         DEF StopJoinable, RTypeOK, Labels, Stopping, Only, Unjoined, Active
    <3>3. CallInv(c)' /\ InTurn(c)'
      BY <3>1, <3>2 DEF CallInv, InTurn
    <3> QED BY <3>2, <3>3, <2>1, <2>9, <1>a, CallerFrame DEF StopJoinable
  <2>10. CASE StopJoin(c)
    <3>1. Stopping /\ target[c] = thread_ /\ Unjoined(thread_)
      BY <2>1, <2>10 DEF StopJoin, CallInv, Stopping, Only, Unjoined
    <3>2. pc'[c] = "idle" /\ RTypeOK'
      BY <2>10, <1>a, <3>1 DEF StopJoin, RTypeOK, Labels, WorkerLabels
    <3>3. Stopped'
      BY <2>10, <3>1, <1>a DEF StopJoin, Stopped, Stopping, Only, RTypeOK
    <3>4. CallInv(c)'
      BY <3>2 DEF CallInv
    <3> QED BY <3>2, <3>3, <3>4, <2>1, <2>10, <1>a, CallerFrame DEF StopJoin
  <2> QED BY <1>2, <2>2, <2>3, <2>4, <2>5, <2>6, <2>7, <2>8, <2>9, <2>10
             DEF StartStep, StopStep
<1>3. ASSUME NEW c \in Callers, JoinableCheck(c) \/ JoinableDeref(c) PROVE RInv'
  <2>1. /\ pc[c] \in {"idle", "joinable_deref"} /\ pc'[c] \in {"idle", "joinable_deref"}
        /\ \A d \in Callers \ {c} : pc'[d] = pc[d]
        /\ UNCHANGED <<stop_, thread_, wk, target>>
        /\ RTypeOK'
    BY <1>3, <1>a DEF JoinableCheck, JoinableDeref, RTypeOK, Labels
  <2>2. \A d \in Callers : InTurn(d)' <=> InTurn(d)
    BY <2>1 DEF InTurn
  <2>3. (Stopped \/ Running)' <=> (Stopped \/ Running)
    BY <2>1 DEF Stopped, Running, Only
  <2>4. ASSUME NEW d \in Callers PROVE CallInv(d)'
    <3>1. CASE d = c
      BY <2>1, <3>1 DEF CallInv
    <3>2. CASE d # c
      BY <2>1, <3>2, <1>a DEF CallInv, Stopped, Running, Stopping, Only
    <3> QED BY <3>1, <3>2
  <2> QED BY <2>1, <2>2, <2>3, <2>4, <1>a DEF RInv, OneInTurn
<1>4. ASSUME NEW t \in Threads, Worker(t) PROVE RInv'
  BY <1>4, WorkerFrame
<1>5. CASE UNCHANGED rvars
  BY <1>5 DEF rvars, RInv, RTypeOK, OneInTurn, InTurn, CallInv, Stopped, Running, Stopping, Only
<1> QED BY <1>1, <1>2, <1>3, <1>4, <1>5 DEF RNext

\* For the classes built on Runnable: how their workers may end the process, and what the
\* calls of others leave alone.
LEMMA CrashKeeps == ASSUME RInv, UNCHANGED <<stop_, thread_, wk, pc, target>>, crashed' \in BOOLEAN
                    PROVE  RInv'
  BY DEF RInv, RTypeOK, OneInTurn, InTurn, CallInv, Stopped, Running, Stopping, Only

LEMMA CallKeepsRounds == ASSUME RInv, NEW c \in Callers, NEW t \in Threads, wk[t] = "round",
                                \/ \E op \in {"start", "stop"} : Call(c, op)
                                \/ StartStep(c) \/ StopStep(c)
                         PROVE  wk'[t] = "round"
<1>1. wk \in [Threads -> WorkerLabels]
  BY DEF RInv, RTypeOK
<1>2. CASE StartReset(c) \/ StartPublish(c)
  BY <1>1, <1>2 DEF StartReset, StartPublish, Reset, Unjoined, Active
<1>3. CASE StartSpawn(c)
  BY <1>1, <1>3 DEF StartSpawn
<1>4. CASE StopJoin(c)
  BY <1>1, <1>4 DEF StopJoin, Active
<1> QED
  BY <1>2, <1>3, <1>4 DEF Call, StartStep, StopStep, StartCheck, StartFlag, StopCheck, StopFlag, StopJoinable

\* With callers that take turns, RInv holds in every reachable state.
THEOREM Invariance == ASSUME Serialised = TRUE PROVE RSpec => []RInv
<1>1. RInit => RInv
  BY InitInv
<1>2. RInv /\ [RNext]_rvars => RInv'
  BY NextInv
<1> QED BY <1>1, <1>2, PTL DEF RSpec

\* Every variable of Runnable keeps its type.
THEOREM TypeCorrect == ASSUME Serialised = TRUE PROVE RSpec => []RTypeOK
<1>1. RInv => RTypeOK
  BY DEF RInv
<1> QED BY <1>1, Invariance, PTL

-------------------------------------------------------------------------------
\* What RInv says of the workers: at most one of them is active, and outside
\* start() and stop() the flag tells whether one is.
LEMMA WorkersOfInv == RInv => AtMostOneWorker /\ FlagTellsWorker
<1> SUFFICES ASSUME RInv PROVE AtMostOneWorker /\ FlagTellsWorker
  OBVIOUS
<1>1. Stopped => ActiveThreads = {}
  BY DEF Stopped, ActiveThreads, Active
<1>2. Running => ~stop_ /\ ActiveThreads = {thread_}
  BY DEF Running, Only, ActiveThreads, Active
<1>3. FlagTellsWorker
  BY <1>1, <1>2 DEF RInv, FlagTellsWorker, Stopped
<1>4. CASE \A c \in Callers : ~InTurn(c)
  BY <1>4, <1>1, <1>2, <1>3 DEF RInv, AtMostOneWorker
<1>5. CASE \E c \in Callers : InTurn(c)
  <2>1. PICK c \in Callers : InTurn(c)
    BY <1>5
  <2>2. CallInv(c)
    BY DEF RInv
  <2>3. \A t, u \in Threads : wk[t] \in Active /\ wk[u] \in Active => t = u
    <3>1. CASE pc[c] \in {"start_reset", "start_flag"}
      BY <3>1, <2>2 DEF CallInv, Stopped, Active
    <3>2. CASE pc[c] = "start_spawn"
      BY <3>2, <2>2 DEF CallInv, Active
    <3>3. CASE pc[c] \in {"start_check", "stop_check"}
      BY <3>3, <2>2 DEF CallInv, Stopped, Running, Only, Active
    <3>4. CASE pc[c] = "start_publish"
      BY <3>4, <2>2 DEF CallInv, Only, Active
    <3>5. CASE pc[c] \in {"stop_flag", "stop_joinable", "stop_join"}
      BY <3>5, <2>2 DEF CallInv, Running, Stopping, Only, Active
    <3> QED BY <2>1, <3>1, <3>2, <3>3, <3>4, <3>5 DEF InTurn, StartPcs, StopPcs
  <2> QED BY <2>3, <1>3 DEF AtMostOneWorker, ActiveThreads
<1> QED BY <1>3, <1>4, <1>5

\* Two worker threads are never inside run() of one object (runnable.cpp:34-46).
THEOREM SingleWorker == ASSUME Serialised = TRUE PROVE RSpec => []AtMostOneWorker
  BY Invariance, WorkersOfInv, PTL

\* Between calls stop_ tells whether a worker is alive (runnable.cpp:36, 50).
THEOREM FlagIsTruthful == ASSUME Serialised = TRUE PROVE RSpec => []FlagTellsWorker
  BY Invariance, WorkersOfInv, PTL

\* stop() returns only when no worker is active any more (runnable.h:19-20).
THEOREM StopIsDone == ASSUME Serialised = TRUE PROVE RSpec => StopStops
<1>1. ASSUME RInv, RNext, NEW c \in Callers, pc[c] \in StopPcs, pc'[c] = "idle"
      PROVE  ActiveThreads' = {}
  <2>1. CallInv(c) /\ RTypeOK
    BY <1>1 DEF RInv
  <2>2. (StopCheck(c) /\ stop_) \/ StopJoinable(c) \/ StopJoin(c)
    BY <1>1, <2>1 DEF RNext, Call, StartStep, StopStep, StartCheck, StartReset, StartFlag,
          StartSpawn, StartPublish, StopCheck, StopFlag, StopJoinable, StopJoin, JoinableCheck,
          JoinableDeref, Worker, RunTest, RunRound, RunClear, WorkerGoto, Goto, RTypeOK,
          StartPcs, StopPcs
  <2>3. CASE StopCheck(c) /\ stop_
    BY <2>1, <2>3 DEF StopCheck, CallInv, Stopped, Running, ActiveThreads, Active
  <2>4. CASE StopJoinable(c)
    BY <1>1, <2>1, <2>4, RunnableAssumption
       DEF StopJoinable, CallInv, Stopping, Only, Unjoined, Goto, RTypeOK
  <2>5. CASE StopJoin(c)
    BY <2>1, <2>5 DEF StopJoin, CallInv, Stopping, Only, ActiveThreads, Active, RTypeOK
  <2> QED BY <2>2, <2>3, <2>4, <2>5
<1>2. RInv /\ [RNext]_rvars
      => [\A c \in Callers : pc[c] \in StopPcs /\ pc'[c] = "idle" /\ ~crashed'
                                => ActiveThreads' = {}]_rvars
  BY <1>1
<1> QED BY <1>2, Invariance, PTL DEF RSpec, StopStops

\* A step of start() or stop() by callers that take turns does not end the process;
\* the only step that can is the second read of thread_ in joinable().
LEMMA StepSafe ==
  ASSUME RInv, ~crashed, RNext, crashed'
  PROVE  \E c \in Callers : JoinableDeref(c)
<1>a. RTypeOK /\ \A c \in Callers : CallInv(c)
  BY DEF RInv
<1>1. ASSUME NEW c \in Callers, StartReset(c) PROVE ~crashed'
  BY <1>1, <1>a DEF StartReset, Reset, CallInv, Stopped, Unjoined, Active, RTypeOK
<1>2. ASSUME NEW c \in Callers, StartPublish(c) PROVE ~crashed'
  BY <1>2, <1>a DEF StartPublish, Reset, CallInv
<1>3. ASSUME NEW c \in Callers, StopJoin(c) PROVE ~crashed'
  BY <1>3, <1>a DEF StopJoin, CallInv, Stopping, Only, Unjoined
<1> QED BY <1>1, <1>2, <1>3
           DEF RNext, Call, StartStep, StopStep, StartCheck, StartFlag, StartSpawn, StopCheck,
               StopFlag, StopJoinable, JoinableCheck, Worker, RunTest, RunRound, RunClear,
               WorkerGoto

\* start() and stop() never end the process: if it ends, joinable() did it.
THEOREM OnlyJoinableFaults == ASSUME Serialised = TRUE PROVE RSpec => OnlyJoinableCrashes
<1>1. ASSUME RInv, RNext, crashed', ~crashed
      PROVE  \E c \in Callers : pc[c] = "joinable_deref" /\ pc'[c] = "idle"
  BY <1>1, StepSafe DEF JoinableDeref, Goto, RInv, RTypeOK
<1>2. RInv /\ [RNext]_rvars
      => [crashed' => \/ crashed
                      \/ \E c \in Callers : pc[c] = "joinable_deref" /\ pc'[c] = "idle"]_rvars
  BY <1>1
<1> QED BY <1>2, Invariance, PTL DEF RSpec, OnlyJoinableCrashes

\* Without joinable() calls nothing ends the process.
THEOREM Safe == ASSUME Serialised = TRUE, "joinable" \notin Calls PROVE RSpec => []NoCrash
<1> DEFINE J == NoCrash /\ \A c \in Callers : pc[c] # "joinable_deref"
<1>1. RInit => J
  BY DEF RInit, NoCrash
<1>2. ASSUME RInv, J, [RNext]_rvars PROVE J'
  <2>a. RTypeOK
    BY <1>2 DEF RInv
  <2>1. \A c \in Callers : pc'[c] # "joinable_deref"
    BY <1>2, <2>a DEF RNext, Call, StartStep, StopStep, StartCheck, StartReset, StartFlag,
          StartSpawn, StartPublish, StopCheck, StopFlag, StopJoinable, StopJoin, JoinableCheck,
          JoinableDeref, Worker, RunTest, RunRound, RunClear, WorkerGoto, Goto, RTypeOK, rvars
  <2>2. RNext /\ crashed' => FALSE
    BY <1>2, StepSafe DEF JoinableDeref, NoCrash
  <2>3. crashed' \in BOOLEAN
    BY <1>2, NextInv DEF RInv, RTypeOK
  <2> QED BY <1>2, <2>1, <2>2, <2>3 DEF NoCrash, rvars
<1> QED BY <1>1, <1>2, Invariance, PTL DEF RSpec

-------------------------------------------------------------------------------
\* What RInv says of the workers at the points where the abstract service moves.
LEMMA WorkersAt ==
  ASSUME RInv, NEW c \in Callers
  PROVE  /\ pc[c] = "start_check" => (stop_ <=> ActiveThreads = {})
         /\ pc[c] = "stop_check" => (stop_ <=> ActiveThreads = {})
         /\ pc[c] = "start_spawn" => ActiveThreads = {}
         /\ pc[c] = "start_publish" => ActiveThreads # {}
         /\ pc[c] = "stop_joinable" => thread_ # NoThread /\ Unjoined(thread_)
  BY RunnableAssumption
     DEF RInv, RTypeOK, CallInv, Stopped, Running, Stopping, Only, ActiveThreads, Active, Unjoined

\* A serialised Runnable implements the abstract service: every step of the code
\* is a step of the service or changes nothing it can see.
THEOREM Refinement == ASSUME Serialised = TRUE PROVE RSpec => ImplementsService
<1> USE DEF Svc!svars
<1>1. RInit => Svc!SInit
  BY RunnableAssumption DEF RInit, Svc!SInit, ActiveThreads, Active, StartPcs, StopPcs
<1>2. ASSUME RInv, RInv', [RNext]_rvars PROVE [Svc!SNext]_(Svc!svars)
  <2> DEFINE call(l) == IF l \in StartPcs THEN "start"
                        ELSE IF l \in StopPcs THEN "stop" ELSE "none"
             pend == [c \in Callers |-> call(pc[c])]
  <2>a. RTypeOK /\ RTypeOK' /\ \A c \in Callers : CallInv(c)
    BY <1>2 DEF RInv
  <2>1. ASSUME NEW c \in Callers, NEW op \in {"start", "stop"}, Call(c, op)
        PROVE  Svc!SNext
    <3>1. pend[c] = "none" /\ pend' = [pend EXCEPT ![c] = op]
      BY <2>1, <2>a DEF Call, Goto, RTypeOK, StartPcs, StopPcs
    <3>2. ActiveThreads' = ActiveThreads
      BY <2>1 DEF Call, ActiveThreads
    <3> QED BY <3>1, <3>2 DEF Svc!SNext, Svc!SCall
  <2>2. ASSUME NEW c \in Callers, NEW l, Goto(c, l), call(l) = call(pc[c])
        PROVE  pend' = pend
    BY <2>2, <2>a DEF Goto, RTypeOK
  <2>3. ASSUME NEW c \in Callers, StartStep(c) PROVE Svc!SNext \/ UNCHANGED Svc!svars
    <3>1. CASE StartCheck(c) /\ stop_
      <4>1. ActiveThreads' = ActiveThreads
        BY <3>1 DEF StartCheck, ActiveThreads
      <4> QED BY <3>1, <4>1, <2>2 DEF StartCheck, StartPcs
    <3>2. CASE StartCheck(c) /\ ~stop_
      <4>1. ActiveThreads # {} /\ ActiveThreads' = ActiveThreads
        BY <1>2, <3>2, WorkersAt DEF StartCheck, ActiveThreads
      <4>2. pend[c] = "start" /\ pend' = [pend EXCEPT ![c] = "none"]
        BY <3>2, <2>a DEF StartCheck, Goto, RTypeOK, StartPcs, StopPcs
      <4> QED BY <4>1, <4>2 DEF Svc!SNext, Svc!SStartReturns
    <3>3. CASE StartReset(c)
      <4>1. ActiveThreads' = ActiveThreads
        BY <3>3, <2>a DEF StartReset, Reset, CallInv, Stopped, Unjoined, ActiveThreads, Active, RTypeOK
      <4> QED BY <3>3, <4>1, <2>2 DEF StartReset, StartPcs
    <3>4. CASE StartFlag(c)
      <4>1. ActiveThreads' = ActiveThreads
        BY <3>4 DEF StartFlag, ActiveThreads
      <4> QED BY <3>4, <4>1, <2>2 DEF StartFlag, StartPcs
    <3>5. CASE StartSpawn(c)
      <4>1. PICK t \in Threads : wk' = [wk EXCEPT ![t] = "test"]
        BY <3>5 DEF StartSpawn
      <4>2. ActiveThreads = {} /\ ActiveThreads' = {t}
        BY <3>5, <4>1, <2>a, <1>2, WorkersAt DEF StartSpawn, ActiveThreads, Active, RTypeOK
      <4>3. pend[c] = "start" /\ pend' = pend
        BY <3>5, <2>2 DEF StartSpawn, StartPcs
      <4> QED BY <4>2, <4>3 DEF Svc!SNext, Svc!SLaunch
    <3>6. CASE StartPublish(c)
      <4>1. ActiveThreads # {} /\ ActiveThreads' = ActiveThreads
        BY <3>6, <2>a, <1>2, WorkersAt DEF StartPublish, Reset, CallInv, ActiveThreads
      <4>2. pend[c] = "start" /\ pend' = [pend EXCEPT ![c] = "none"]
        BY <3>6, <2>a DEF StartPublish, Goto, RTypeOK, StartPcs, StopPcs
      <4> QED BY <4>1, <4>2 DEF Svc!SNext, Svc!SStartReturns
    <3> QED BY <2>3, <3>1, <3>2, <3>3, <3>4, <3>5, <3>6 DEF StartStep
  <2>4. ASSUME NEW c \in Callers, StopStep(c) PROVE Svc!SNext \/ UNCHANGED Svc!svars
    <3>1. ActiveThreads' = ActiveThreads
      BY <2>4, <2>a DEF StopStep, StopCheck, StopFlag, StopJoinable, StopJoin, ActiveThreads,
                        Unjoined, Active, RTypeOK
    <3>2. CASE pc'[c] # "idle"
      <4>1. pend' = pend
        BY <3>2, <2>4, <2>2, <2>a DEF StopStep, StopCheck, StopFlag, StopJoinable, StopJoin,
                                 Goto, RTypeOK, StartPcs, StopPcs
      <4> QED BY <3>1, <4>1
    <3>3. CASE pc'[c] = "idle"
      <4>1. pend[c] = "stop" /\ pend' = [pend EXCEPT ![c] = "none"]
        BY <3>3, <2>4, <2>a DEF StopStep, StopCheck, StopFlag, StopJoinable, StopJoin,
                               Goto, RTypeOK, StartPcs, StopPcs
      <4>2. ActiveThreads = {}
        <5>1. CASE StopCheck(c)
          BY <5>1, <3>3, <2>a, <1>2, WorkersAt DEF StopCheck, Goto, RTypeOK
        <5>2. CASE StopJoin(c)
          BY <5>2, <2>a DEF StopJoin, CallInv, Stopping, Only, ActiveThreads, Active
        <5>3. ~StopFlag(c) /\ ~StopJoinable(c)
          BY <3>3, <2>a, <1>2, WorkersAt DEF StopFlag, StopJoinable, Goto, RTypeOK
        <5> QED BY <2>4, <5>1, <5>2, <5>3 DEF StopStep
      <4> QED BY <4>1, <4>2, <3>1 DEF Svc!SNext, Svc!SStopReturns
    <3> QED BY <3>2, <3>3
  <2>5. ASSUME NEW c \in Callers, JoinableCheck(c) \/ JoinableDeref(c)
        PROVE  UNCHANGED Svc!svars
    <3>1. ActiveThreads' = ActiveThreads
      BY <2>5 DEF JoinableCheck, JoinableDeref, ActiveThreads
    <3> QED BY <2>5, <2>2, <3>1 DEF JoinableCheck, JoinableDeref, StartPcs, StopPcs
  <2>6. ASSUME NEW t \in Threads, Worker(t) PROVE Svc!SNext \/ UNCHANGED Svc!svars
    <3>1. pend' = pend
      BY <2>6 DEF Worker, RunTest, RunRound, RunClear, WorkerGoto
    <3>2. CASE RunTest(t) \/ RunRound(t)
      <4>1. ActiveThreads' = ActiveThreads
        BY <3>2, <2>a DEF RunTest, RunRound, WorkerGoto, ActiveThreads, Active, RTypeOK
      <4> QED BY <3>1, <4>1
    <3>3. CASE RunClear(t)
      <4>1. ActiveThreads = {t}
        BY <3>3, <1>2, WorkersOfInv DEF RunClear, WorkerGoto, ActiveThreads, Active, AtMostOneWorker
      <4>2. ActiveThreads' = {}
        BY <3>3, <4>1, <2>a DEF RunClear, WorkerGoto, ActiveThreads, Active, RTypeOK
      <4>3. PICK c \in Callers : pc[c] \in StopPcs
        BY <3>3, <1>2, <2>a DEF RInv, RunClear, WorkerGoto, Stopped, Running, Only, CallInv,
                                InTurn, StartPcs, StopPcs
      <4>4. pend[c] = "stop"
        BY <4>3 DEF StartPcs, StopPcs
      <4> QED BY <3>1, <4>1, <4>2, <4>4 DEF Svc!SNext, Svc!SFinish
    <3> QED BY <2>6, <3>2, <3>3 DEF Worker
  <2>7. CASE UNCHANGED rvars
    BY <2>7 DEF rvars, ActiveThreads
  <2> QED BY <1>2, <2>1, <2>3, <2>4, <2>5, <2>6, <2>7 DEF RNext
<1> QED BY <1>1, <1>2, Invariance, PTL DEF RSpec, ImplementsService, Svc!SSpec
================================================================================
