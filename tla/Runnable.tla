------------------------------- MODULE Runnable -------------------------------
(****************************************************************************)
(* The class Runnable (src/src/utils/runnable.cpp): the base of every       *)
(* sampler of the library.  start() and stop() are called by the program's  *)
(* threads; the worker thread executes run(), whose shape is the same in    *)
(* every subclass:  while (!stop_) { refresh(); sleep } clear();            *)
(*                                                                          *)
(* stop_ is atomic, thread_ is a plain unique_ptr and nothing in the class  *)
(* is locked, so every access to either is a step of its own.  The std      *)
(* calls that end the process (destroying or re-joining a thread wrongly,   *)
(* a null dereference) set "crashed", after which nothing moves.            *)
(****************************************************************************)
EXTENDS Naturals, FiniteSets

CONSTANTS Callers,     \* threads that use the object
          Threads,     \* identities of std::thread objects; freed ones are reused
          NoThread,    \* thread_ == nullptr
          Calls,       \* which member functions the callers use
          Serialised   \* TRUE: callers take turns in start() and stop(), as VmSet
                       \* does with init_vms_mutex_ and the tests with one thread

ASSUME RunnableAssumption == /\ NoThread \notin Threads
                             /\ Serialised \in BOOLEAN
                             /\ Calls \subseteq {"start", "stop", "joinable"}

VARIABLES stop_, thread_,  \* the members of the class
          wk,              \* wk[t]: where std::thread t is in run()
          pc,              \* pc[c]: where caller c is
          target,          \* target[c]: thread c has created, or is joining
          crashed          \* std::terminate or undefined behaviour happened

rvars == <<stop_, thread_, wk, pc, target, crashed>>

StartPcs == {"start_check", "start_reset", "start_flag", "start_spawn", "start_publish"}
StopPcs  == {"stop_check", "stop_flag", "stop_joinable", "stop_join"}
Labels   == {"idle", "joinable_deref"} \cup StartPcs \cup StopPcs

\* Where run() is: before the test of stop_, in one refresh, in the final
\* clear(), returned, and returned and joined.  "none": no such thread.
WorkerLabels == {"none", "test", "round", "clear", "done", "joined"}
Active       == {"test", "round", "clear"}

ActiveThreads == {t \in Threads : wk[t] \in Active}

\* std::thread::joinable(): the thread was started and has not been joined.
Unjoined(t) == wk[t] \in Active \cup {"done"}

RInit == /\ stop_ = TRUE
         /\ thread_ = NoThread
         /\ wk = [t \in Threads |-> "none"]
         /\ pc = [c \in Callers |-> "idle"]
         /\ target = [c \in Callers |-> NoThread]
         /\ crashed = FALSE

Goto(c, l) == pc' = [pc EXCEPT ![c] = l]

InTurn(c) == pc[c] \in StartPcs \cup StopPcs

\* A caller enters start() or stop(); serialised callers wait for each other.
Call(c, op) == /\ ~crashed
               /\ op \in Calls
               /\ pc[c] = "idle"
               /\ Serialised => \A d \in Callers : ~InTurn(d)
               /\ Goto(c, IF op = "start" THEN "start_check" ELSE "stop_check")
               /\ UNCHANGED <<stop_, thread_, wk, target, crashed>>

-------------------------------------------------------------------------------
\* start()

StartCheck(c) == /\ ~crashed
                 /\ pc[c] = "start_check"
                 /\ Goto(c, IF stop_ THEN "start_reset" ELSE "idle")
                 /\ UNCHANGED <<stop_, thread_, wk, target, crashed>>

\* Give thread_ another value.  The unique_ptr deletes the std::thread it held,
\* and deleting one that was not joined is std::terminate.
Reset(t) == /\ thread_' = t
            /\ crashed' = (thread_ # NoThread /\ Unjoined(thread_))
            /\ wk' = IF thread_ # NoThread /\ ~Unjoined(thread_)
                       THEN [wk EXCEPT ![thread_] = "none"] ELSE wk

StartReset(c) == /\ ~crashed
                 /\ pc[c] = "start_reset"
                 /\ Reset(NoThread)
                 /\ Goto(c, "start_flag")
                 /\ UNCHANGED <<stop_, target>>

StartFlag(c) == /\ ~crashed
                /\ pc[c] = "start_flag"
                /\ stop_' = FALSE
                /\ Goto(c, "start_spawn")
                /\ UNCHANGED <<thread_, wk, target, crashed>>

\* new thread(&Runnable::run, this): run() may begin before thread_ is assigned.
StartSpawn(c) == /\ ~crashed
                 /\ pc[c] = "start_spawn"
                 /\ \E t \in Threads : /\ wk[t] = "none"
                                       /\ wk' = [wk EXCEPT ![t] = "test"]
                                       /\ target' = [target EXCEPT ![c] = t]
                 /\ Goto(c, "start_publish")
                 /\ UNCHANGED <<stop_, thread_, crashed>>

StartPublish(c) == /\ ~crashed
                   /\ pc[c] = "start_publish"
                   /\ Reset(target[c])
                   /\ target' = [target EXCEPT ![c] = NoThread]
                   /\ Goto(c, "idle")
                   /\ UNCHANGED stop_

-------------------------------------------------------------------------------
\* stop()

StopCheck(c) == /\ ~crashed
                /\ pc[c] = "stop_check"
                /\ Goto(c, IF stop_ THEN "idle" ELSE "stop_flag")
                /\ UNCHANGED <<stop_, thread_, wk, target, crashed>>

\* Fault: stop() forgets stop_ = true.
StopFlagForgotten(c) == /\ ~crashed
                        /\ pc[c] = "stop_flag"
                        /\ Goto(c, "stop_joinable")
                        /\ UNCHANGED <<stop_, thread_, wk, target, crashed>>

StopFlag(c) == /\ ~crashed
               /\ pc[c] = "stop_flag"
               /\ stop_' = TRUE
               /\ Goto(c, "stop_joinable")
               /\ UNCHANGED <<thread_, wk, target, crashed>>

\* Fault: stop() raises the flag and returns without joining.
StopWithoutJoin(c) == /\ ~crashed
                      /\ pc[c] = "stop_joinable"
                      /\ Goto(c, "idle")
                      /\ UNCHANGED <<stop_, thread_, wk, target, crashed>>

\* Fault: stop() detaches the thread instead of joining it.
StopDetaches(c) == /\ ~crashed
                   /\ pc[c] = "stop_joinable"
                   /\ thread_' = NoThread
                   /\ Goto(c, "idle")
                   /\ UNCHANGED <<stop_, wk, target, crashed>>

StopJoinable(c) == /\ ~crashed
                   /\ pc[c] = "stop_joinable"
                   /\ IF thread_ # NoThread /\ Unjoined(thread_)
                        THEN Goto(c, "stop_join") /\ target' = [target EXCEPT ![c] = thread_]
                        ELSE Goto(c, "idle") /\ UNCHANGED target
                   /\ UNCHANGED <<stop_, thread_, wk, crashed>>

\* Fault: stop() does not wait until run() has returned.
StopGivesUp(c) == /\ ~crashed
                  /\ pc[c] = "stop_join"
                  /\ Goto(c, "idle")
                  /\ UNCHANGED <<stop_, thread_, wk, target, crashed>>

\* join() blocks until run() has returned; joining a std::thread that another
\* caller joined (or freed) meanwhile throws out of stop().
StopJoin(c) == /\ ~crashed
               /\ pc[c] = "stop_join"
               /\ wk[target[c]] \notin Active
               /\ crashed' = ~Unjoined(target[c])
               /\ wk' = IF Unjoined(target[c]) THEN [wk EXCEPT ![target[c]] = "joined"] ELSE wk
               /\ target' = [target EXCEPT ![c] = NoThread]
               /\ Goto(c, "idle")
               /\ UNCHANGED <<stop_, thread_>>

-------------------------------------------------------------------------------
\* joinable(): "thread_ != nullptr && thread_->joinable()" reads thread_ twice.
\* Getters call it without any lock.

JoinableCheck(c) == /\ ~crashed
                    /\ "joinable" \in Calls
                    /\ pc[c] = "idle"
                    /\ thread_ # NoThread
                    /\ Goto(c, "joinable_deref")
                    /\ UNCHANGED <<stop_, thread_, wk, target, crashed>>

JoinableDeref(c) == /\ ~crashed
                    /\ pc[c] = "joinable_deref"
                    /\ crashed' = (thread_ = NoThread)
                    /\ Goto(c, "idle")
                    /\ UNCHANGED <<stop_, thread_, wk, target>>

-------------------------------------------------------------------------------
\* run(), on the worker thread

WorkerGoto(t, from, to) == /\ ~crashed
                           /\ wk[t] = from
                           /\ wk' = [wk EXCEPT ![t] = to]
                           /\ UNCHANGED <<stop_, thread_, pc, target, crashed>>

\* Fault: run() is a do-while that ends after one round; or it never looks at stop_.
RunOnce(t)    == WorkerGoto(t, "test", "clear")
RunForever(t) == WorkerGoto(t, "test", "round")

RunTest(t)  == WorkerGoto(t, "test", IF stop_ THEN "clear" ELSE "round")
RunRound(t) == WorkerGoto(t, "round", "test")
RunClear(t) == WorkerGoto(t, "clear", "done")

-------------------------------------------------------------------------------
StartStep(c) == \/ StartCheck(c) \/ StartReset(c) \/ StartFlag(c)
                \/ StartSpawn(c) \/ StartPublish(c)
StopStep(c)  == StopCheck(c) \/ StopFlag(c) \/ StopJoinable(c) \/ StopJoin(c)
Worker(t)    == RunTest(t) \/ RunRound(t) \/ RunClear(t)

RNext == \/ \E c \in Callers : \/ \E op \in {"start", "stop"} : Call(c, op)
                               \/ StartStep(c)
                               \/ StopStep(c)
                               \/ JoinableCheck(c)
                               \/ JoinableDeref(c)
         \/ \E t \in Threads : Worker(t)

RSpec == RInit /\ [][RNext]_rvars

\* The scheduler runs every thread that can move: a caller inside a call goes on,
\* and so does the worker (a refresh round ends; its sleep is finite).
RFairness == /\ \A c \in Callers : WF_rvars(StartStep(c) \/ StopStep(c))
             /\ \A t \in Threads : WF_rvars(Worker(t))

RFairSpec == RSpec /\ RFairness

-------------------------------------------------------------------------------
RTypeOK == /\ stop_ \in BOOLEAN
           /\ thread_ \in Threads \cup {NoThread}
           /\ wk \in [Threads -> WorkerLabels]
           /\ pc \in [Callers -> Labels]
           /\ target \in [Callers -> Threads \cup {NoThread}]
           /\ crashed \in BOOLEAN

\* No call of start(), stop() or joinable() ends the process: no running thread
\* is destroyed, none is joined twice, thread_ is never dereferenced when null
\* (runnable.cpp:31, 41, 45, 56).
NoCrash == ~crashed

\* start() and stop() themselves never end the process, whatever joinable() calls
\* surround them: only the dereference inside joinable() can (runnable.cpp:31).
OnlyJoinableCrashes ==
    [][crashed' => \/ crashed
                   \/ \E c \in Callers : pc[c] = "joinable_deref" /\ pc'[c] = "idle"]_rvars

\* Two threads never execute run() of one object: the subclasses' run() assumes
\* it is the only writer of to_start_/to_stop_, perf fds and old/new counters.
AtMostOneWorker == \A t, u \in ActiveThreads : t = u

\* stop_ tells the truth between calls: when no caller is inside start() or
\* stop(), the flag is down exactly when a worker is alive.
FlagTellsWorker ==
    (~crashed /\ \A c \in Callers : ~InTurn(c)) => (stop_ <=> ActiveThreads = {})

\* runnable.h:19-20, "MUST stop the thread when called": when stop() returns, by
\* whichever return, no worker executes run() any more.
StopStops ==
    [][\A c \in Callers : pc[c] \in StopPcs /\ pc'[c] = "idle" /\ ~crashed'
                             => ActiveThreads' = {}]_rvars

\* A caller that enters stop() gets out of it again: the worker notices the flag
\* and ends, and nobody lowers the flag meanwhile (unless the process has ended).
StopReturns == \A c \in Callers : (pc[c] \in StopPcs) ~> (pc[c] = "idle" \/ crashed)

\* The abstract service: its calls are the calls here, its workers the threads
\* that execute run().
Svc == INSTANCE Service WITH
          pending <- [c \in Callers |-> IF pc[c] \in StartPcs THEN "start"
                                        ELSE IF pc[c] \in StopPcs THEN "stop" ELSE "none"],
          live <- ActiveThreads

\* Runnable implements the abstract service.
ImplementsService == Svc!SSpec
-------------------------------------------------------------------------------
(* The inductive invariant of serialised callers: what a caller inside      *)
(* start() or stop() knows at each step, and what holds between calls.      *)

Stopped == stop_ /\ \A t \in Threads : wk[t] = IF t = thread_ THEN "joined" ELSE "none"

\* Thread t is the only one that exists, and it is in one of the places S.
Only(t, S) == /\ t \in Threads
              /\ wk[t] \in S
              /\ \A u \in Threads \ {t} : wk[u] = "none"

Running  == ~stop_ /\ Only(thread_, {"test", "round"})
Stopping == stop_ /\ Only(thread_, Active \cup {"done"})

CallInv(c) ==
    /\ pc[c] \in {"start_check", "stop_check"} => Stopped \/ Running
    /\ pc[c] = "start_reset" => Stopped
    /\ pc[c] = "start_flag" => Stopped /\ thread_ = NoThread
    /\ pc[c] = "start_spawn" =>
          ~stop_ /\ thread_ = NoThread /\ \A t \in Threads : wk[t] = "none"
    /\ pc[c] = "start_publish" =>
          ~stop_ /\ thread_ = NoThread /\ Only(target[c], {"test", "round"})
    /\ pc[c] = "stop_flag" => Running
    /\ pc[c] \in {"stop_joinable", "stop_join"} => Stopping
    /\ pc[c] = "stop_join" => target[c] = thread_

OneInTurn == \A c, d \in Callers : InTurn(c) /\ InTurn(d) => c = d

\* With callers that take turns, the object is stopped or running between calls,
\* and inside a call it is where that call has brought it (runnable.cpp:34-58).
RInv == /\ RTypeOK
        /\ OneInTurn
        /\ \A c \in Callers : CallInv(c)
        /\ (\A c \in Callers : ~InTurn(c)) => Stopped \/ Running
================================================================================
