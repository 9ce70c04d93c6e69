-------------------------------- MODULE VmLocks --------------------------------
(****************************************************************************)
(* The three VM modules together: VmBase, VmCpuUsage and VmCacheMiss        *)
(* (src/src/sysinfo/vm/dynamic/) with their workers, the threads of the     *)
(* program that call init_vms() and the getters of VM, and the end of the   *)
(* program.  The modules above VmBase call its getters with their own mutex *)
(* held, and every module calls the program's callback with its mutex held. *)
(*                                                                          *)
(* What a thread does is the sequence of steps it has left; a step is what  *)
(* it does and to whose mutex, flag or worker.  The tables are left to the  *)
(* modules VmBase, VmCpuUsage and VmCacheMiss; here is who waits for whom.  *)
(****************************************************************************)
EXTENDS Naturals, Sequences

CONSTANTS Callers,      \* threads of the program
          Nobody,
          CallbackGets, \* CallbackGets[m]: the modules whose getters m's callback calls
          Uses,         \* the sets of modules whose options a program may register
          Throws,       \* TRUE: files that a refresh reads may be gone
          CallsOnLost   \* TRUE: the program calls on when a mutex has been lost

Modules == {"base", "cpu", "miss"}
Mutexes == Modules \cup {"init"}   \* data_mutex_ of each module, and init_vms_mutex_

\* Modules from the bottom up: a module calls only the modules below it.
Rank == [base |-> 1, cpu |-> 2, miss |-> 3, init |-> 4]

ASSUME VmLocksAssumption ==
    /\ Uses \subseteq SUBSET Modules
    /\ Throws \in BOOLEAN
    /\ CallsOnLost \in BOOLEAN
    /\ Nobody \notin Callers \cup Modules
    /\ Callers \cap Modules = {}
    /\ CallbackGets \in [Modules -> SUBSET Modules]
    /\ \A m \in Modules : \A k \in CallbackGets[m] : Rank[k] < Rank[m]

VARIABLES uses,    \* the modules whose options are registered
          owner,   \* owner[m]: the thread that holds mutex m exclusively, or Nobody
          byHand,  \* the held mutexes that no unique_lock looks after
          lost,    \* those of them whose holder's call an exception has ended
          todo,    \* todo[p]: the steps that thread p has left in its call or loop
          data,    \* data[m]: the refreshes that has_data_ (has_data_cnt_) counts
          wk,      \* wk[m]: m's worker
          exiting, \* exit() destroys the singletons
          crashed  \* an exception left a worker's run(): the process has ended

lvars == <<uses, owner, byHand, lost, todo, data, wk, exiting, crashed>>

Procs == Callers \cup Modules   \* a worker is named by its module

\* has_data() of VmCpuUsage asks for two refreshes, the flags of the others for one.
Needed == [base |-> 1, cpu |-> 2, miss |-> 1]

\* Runnable::joinable()
Joinable(m) == wk[m] \in {"runs", "told", "done"}

-------------------------------------------------------------------------------
\* What the calls and loops consist of.

\* get_vm_ids() and the others: refresh unless a worker does, wait for data, read.  Where a
\* thread does nothing that others could see while it has a mutex, it takes it and lets it
\* go in one step ("pass").
Getter(m) == << <<"ask", m>>, <<"poll", m>>, <<"pass", m>> >>

\* Fault: VmBase locks its mutex by hand too.
RefreshBaseByHand == << <<"hand", "base">>, <<"raise", "base">>, <<"unlock", "base">> >>

\* No module is below VmBase: its callback may call no getter, and is left out.
RefreshBase == << <<"lock", "base">>, <<"raise", "base">>, <<"unlock", "base">> >>

RefreshCpu == << <<"hand", "cpu">> >> \o Getter("base") \o
              << <<"unlock", "cpu">>, <<"lock", "cpu">>, <<"callback", "cpu">>,
                 <<"raise", "cpu">>, <<"unlock", "cpu">> >>

\* Fault: the unlock before the sampling is forgotten.
RefreshMissKeeps ==
    << <<"hand", "miss">> >> \o Getter("base") \o
    << <<"pass", "miss">>, <<"lock", "miss">>, <<"sums", "miss">>,
       <<"unlock", "miss">>, <<"raise", "miss">> >>

\* The listing (one call stands for its calls of VmBase's getters), the first sample, and
\* the second with the sums.
RefreshMiss ==
    << <<"hand", "miss">> >> \o Getter("base") \o
    << <<"unlock", "miss">>, <<"pass", "miss">>,
       <<"lock", "miss">>, <<"sums", "miss">>, <<"unlock", "miss">>, <<"raise", "miss">> >>

Refresh == [base |-> RefreshBase, cpu |-> RefreshCpu, miss |-> RefreshMiss]

\* What a getter does when no worker is joinable; refresh_twice() of VmCpuUsage.
OwnRefresh(m) == IF m = "cpu" THEN Refresh[m] \o Refresh[m] ELSE Refresh[m]

\* run(): one round, or the final clear().
Round(m)  == Refresh[m] \o << <<"test", m>> >>
Ending(m) == << <<"clear", m>>, <<"done", m>> >>

\* set_param_by_option(): what the parameters given for a module's option may be.  A
\* command empties VmBase's tables (set_vm_cmd()) and a callback is assigned under the
\* mutex, but for VmCpuUsage's; the intervals are assigned without one.
Settings == [base |-> { <<>>, << <<"clear", "base">> >>, << <<"pass", "base">> >>,
                        << <<"clear", "base">>, <<"pass", "base">> >> },
             cpu  |-> { <<>> },
             miss |-> { <<>>, << <<"pass", "miss">> >> }]

\* An option in init_vms(): if it is registered its parameters, and then the worker.
Option(m) == IF m \in uses THEN {set \o << <<"start", m>> >> : set \in Settings[m]} ELSE {<<>>}

InitVms == << <<"lock", "init">>, <<"option", "base">>, <<"option", "cpu">>, <<"option", "miss">> >>
           \o Getter("base") \o << <<"unlock", "init">> >>

\* VmSet::set_param() of one option; of several, one after another.
SetParams == UNION {Settings[m] : m \in Modules}

\* clear_param() of the modules, each behind the option before it.
ClearParams == { << <<"pass", "base">>, <<"pass", "cpu">>, <<"pass", "miss">> >>,
                 << <<"pass", "cpu">>, <<"pass", "miss">> >>,
                 << <<"pass", "miss">> >> }

\* Fault: the singletons end in the order in which they were made.
ShutdownInOrder == <<"base", "cpu", "miss">>

\* ~VmCacheMiss(), ~VmCpuUsage(), ~VmBase(): the reverse of the order in which VmSet's
\* constructor has them made.
Shutdown == <<"miss", "cpu", "base">>

StopAndJoin(m) == << <<"stop", m>>, <<"join", m>> >>

Exit == StopAndJoin(Shutdown[1]) \o StopAndJoin(Shutdown[2]) \o StopAndJoin(Shutdown[3])

-------------------------------------------------------------------------------
LocksInit == /\ uses \in Uses
             /\ owner = [m \in Mutexes |-> Nobody]
             /\ byHand = {}
             /\ lost = {}
             /\ todo = [p \in Procs |-> <<>>]
             /\ data = [m \in Modules |-> 0]
             /\ wk = [m \in Modules |-> "none"]
             /\ exiting = FALSE
             /\ crashed = FALSE

At(p, do, m) == /\ ~crashed
                /\ todo[p] # <<>>
                /\ Head(todo[p]) = <<do, m>>

\* The step is done; "more" is what it leads to first.
Goes(p, more) == todo' = [todo EXCEPT ![p] = more \o Tail(@)]

Lock(p, m) == /\ At(p, "lock", m) \/ At(p, "hand", m)
              /\ owner[m] = Nobody
              /\ owner' = [owner EXCEPT ![m] = p]
              /\ byHand' = IF At(p, "hand", m) THEN byHand \cup {m} ELSE byHand
              /\ Goes(p, <<>>)
              /\ UNCHANGED <<uses, lost, data, wk, exiting, crashed>>

Unlock(p, m) == /\ At(p, "unlock", m)
                /\ owner' = [owner EXCEPT ![m] = Nobody]
                /\ byHand' = byHand \ {m}
                /\ Goes(p, <<>>)
                /\ UNCHANGED <<uses, lost, data, wk, exiting, crashed>>

\* Steps that only lead to others: the question whether m is joinable, a callback for
\* each VM or thread, if there is any, and what the program does in it.
Leads(p, m) == /\ \/ At(p, "ask", m) /\ Goes(p, IF Joinable(m) THEN <<>> ELSE OwnRefresh(m))
                  \/ At(p, "poll", m) /\ data[m] >= Needed[m] /\ Goes(p, <<>>)
                  \/ At(p, "pass", m) /\ owner[m] = Nobody /\ Goes(p, <<>>)
                  \/ At(p, "sums", m) /\ Goes(p, Getter("base") \o << <<"callback", m>> >>)
                  \/ (At(p, "sums", m) \/ At(p, "callback", m)) /\ Goes(p, <<>>)
                  \/ At(p, "callback", m) /\ \E k \in CallbackGets[m] : Goes(p, Getter(k))
                  \/ At(p, "option", m) /\ \E steps \in Option(m) : Goes(p, steps)
                  \/ At(p, "test", m) /\ Goes(p, IF wk[m] = "told" THEN Ending(m) ELSE Round(m))
               /\ UNCHANGED <<uses, owner, byHand, lost, data, wk, exiting, crashed>>

\* has_data_ goes up behind a refresh and down in clear() and set_vm_cmd().
Flag(p, m) == /\ \/ At(p, "raise", m) /\ data' = [data EXCEPT ![m] = IF @ < Needed[m] THEN @ + 1 ELSE @]
                 \/ At(p, "clear", m) /\ owner[m] = Nobody /\ data' = [data EXCEPT ![m] = 0]
              /\ Goes(p, <<>>)
              /\ UNCHANGED <<uses, owner, byHand, lost, wk, exiting, crashed>>

\* A file of a VM is gone: in a refresh of VmBase, in the threads' times of VmCpuUsage, or in
\* the listing of the volatile threads of VmCacheMiss.
Fails(p) == /\ Throws
            /\ \/ At(p, "raise", "base")
               \/ At(p, "callback", "cpu")
               \/ At(p, "unlock", "miss") /\ "miss" \in byHand

\* The exception unlocks what a unique_lock or lock_guard holds and ends the program's call.
Throw(c) == /\ Fails(c)
            /\ owner' = [m \in Mutexes |-> IF owner[m] = c /\ m \notin byHand THEN Nobody ELSE owner[m]]
            /\ lost' = lost \cup {m \in byHand : owner[m] = c}
            /\ todo' = [todo EXCEPT ![c] = <<>>]
            /\ UNCHANGED <<uses, byHand, data, wk, exiting, crashed>>

\* Nothing in run() catches it: std::terminate, and nothing of the process is left.
Terminate(m) == /\ Fails(m)
                /\ crashed' = TRUE
                /\ owner' = [n \in Mutexes |-> Nobody]
                /\ byHand' = {} /\ lost' = {}
                /\ todo' = [p \in Procs |-> <<>>]
                /\ data' = [n \in Modules |-> 0]
                /\ wk' = [n \in Modules |-> "none"]
                /\ exiting' = FALSE
                /\ UNCHANGED uses

\* start() of a module that is not joinable; stop() and join().
Start(p, m) == /\ At(p, "start", m)
               /\ LET starts == ~Joinable(m) IN
                  /\ wk' = IF starts THEN [wk EXCEPT ![m] = "runs"] ELSE wk
                  /\ todo' = [q \in Procs |-> IF q = p THEN Tail(todo[p])
                                              ELSE IF q = m /\ starts THEN << <<"test", m>> >>
                                              ELSE todo[q]]
               /\ UNCHANGED <<uses, owner, byHand, lost, data, exiting, crashed>>

Control(p, m) == /\ \/ At(p, "stop", m) /\ wk' = [wk EXCEPT ![m] = IF @ = "runs" THEN "told" ELSE @]
                    \/ At(p, "join", m) /\ wk[m] = "none" /\ UNCHANGED wk
                    \/ At(p, "join", m) /\ wk[m] = "done" /\ wk' = [wk EXCEPT ![m] = "joined"]
                    \/ At(p, "done", m) /\ wk' = [wk EXCEPT ![m] = "done"]
                 /\ Goes(p, <<>>)
                 /\ UNCHANGED <<uses, owner, byHand, lost, data, exiting, crashed>>

\* The program calls a getter, init_vms(), set_param() or clear_param(), or returns from main().
Call(c) == /\ ~crashed /\ ~exiting
           /\ lost = {} \/ CallsOnLost
           /\ todo[c] = <<>>
           /\ \E steps \in {Getter(m) : m \in Modules} \cup {InitVms} \cup SetParams \cup ClearParams :
                todo' = [todo EXCEPT ![c] = steps]
           /\ UNCHANGED <<uses, owner, byHand, lost, data, wk, exiting, crashed>>

CallExit(c) == /\ ~crashed /\ ~exiting
               /\ \A d \in Callers : todo[d] = <<>>
               /\ exiting' = TRUE
               /\ todo' = [todo EXCEPT ![c] = Exit]
               /\ UNCHANGED <<uses, owner, byHand, lost, data, wk, crashed>>

\* Whose mutex, flag or worker the next step is about.
Ahead(p) == IF todo[p] = <<>> THEN {} ELSE {Head(todo[p])[2]}

ThreadStep(p) == \/ \E m \in Mutexes \cap Ahead(p) : Lock(p, m) \/ Unlock(p, m)
                 \/ \E m \in Modules \cap Ahead(p) : Leads(p, m) \/ Flag(p, m) \/ Start(p, m) \/ Control(p, m)

LocksNext == \/ \E c \in Callers : Call(c) \/ CallExit(c) \/ Throw(c)
             \/ \E m \in Modules : Terminate(m)
             \/ \E p \in Procs : ThreadStep(p)

LocksSpec == LocksInit /\ [][LocksNext]_lvars

\* Threads that can move do, and whoever waits for a mutex gets it if it is free again
\* and again: the workers sleep between rounds with nothing locked.
Fairness == \A p \in Procs : SF_lvars(ThreadStep(p))

FairSpec == LocksSpec /\ Fairness

-------------------------------------------------------------------------------
Holds(p) == {m \in Mutexes \ lost : owner[m] = p}

\* Whoever waits for a module, for its mutex or for its data, holds only mutexes of the
\* modules above it, so that no ring of threads waits for one another, callbacks that
\* call down included (vm_base.cpp:173-205, vm_cpu_usage.cpp:93-119,
\* vm_cache_miss.cpp:87-151).
LocksInOrder ==
    \A p \in Procs, m \in Mutexes :
        (\E do \in {"lock", "hand", "pass", "poll", "clear"} : At(p, do, m))
            => \A n \in Holds(p) : Rank[m] < Rank[n]

\* p waits for one of S: for a mutex that it has and has not lost, or for the data or the
\* end of a worker.
WaitsIn(p, S) ==
    \/ \E m \in Mutexes \ lost :
          /\ \E do \in {"lock", "hand", "pass", "clear"} : At(p, do, m)
          /\ owner[m] \in S
    \/ \E m \in Modules \cap S : At(p, "poll", m) \/ At(p, "join", m)

\* So no threads wait for one another in a ring.
NoRing == \A S \in SUBSET Procs : (\A p \in S : WaitsIn(p, S)) => S = {}

\* An exception, however deep in the calls of one module by another, loses no mutex but
\* the two that refresh() locks by hand (vm_cpu_usage.cpp:95-96, vm_cache_miss.cpp:120-121).
LostByHandOnly == lost \subseteq {"cpu", "miss"}

\* Somebody polls VmBase for data, its tables are empty, and it has no worker to fill them:
\* set_vm_cmd() has emptied them between the refresh and the poll.
Overtaken == data["base"] = 0 /\ wk["base"] = "none" /\ \E p \in Procs : At(p, "poll", "base")

\* Every call comes back, exit() with its joins of all the workers too, unless the process
\* has ended, or an exception has lost a mutex, or a thread stays overtaken by set_vm_cmd()
\* because VmBase's worker is never started (runnable.cpp:48-58, vm.cpp:7-13, 221-252).
CallsEnd == <>[]Overtaken \/ \A c \in Callers : (todo[c] # <<>>) ~> (todo[c] = <<>> \/ lost # {})

-------------------------------------------------------------------------------
\* The inductive invariant: what a thread has left to do is in order from every step of
\* it on, and what it holds it will unlock.

Kinds == {"lock", "hand", "unlock", "pass", "ask", "poll", "sums", "callback",
          "raise", "clear", "test", "done", "option", "start", "stop", "join"}
Steps == Kinds \X Mutexes

\* The mutexes held when step i of s is next, if K are held behind its end: those that are
\* unlocked before they are locked.
Held(s, i, K) ==
    {n \in Mutexes :
        \/ \E j \in i..Len(s) : /\ s[j] = <<"unlock", n>>
                               /\ \A k \in i..j - 1 : s[k] \notin {<<"lock", n>>, <<"hand", n>>}
        \/ n \in K /\ \A k \in i..Len(s) : s[k] \notin {<<"lock", n>>, <<"hand", n>>}}

\* Step e may be done with the mutexes H held.
Fits(e, H) ==
    /\ e[1] \in {"lock", "hand", "pass", "poll", "clear", "ask", "option"} => \A n \in H : Rank[e[2]] < Rank[n]
    /\ e[1] \in {"sums", "callback"} => \A n \in H : Rank[e[2]] <= Rank[n]
    /\ e[1] \in {"test", "done", "join"} => H = {}
    /\ e[1] = "sums" => e[2] = "miss"
    /\ e[1] = "hand" => e[2] \in {"cpu", "miss"}

Orderly(s, K) == \A i \in 1..Len(s) : /\ Fits(s[i], Held(s, i, K))
                                      /\ s[i][1] \in {"lock", "hand"} => s[i][2] \in Held(s, i + 1, K)

\* Only p's own loop tests and ends, and behind that nothing is left.
EndsAs(s, p) == \A i \in 1..Len(s) : s[i][1] \in {"test", "done"} => i = Len(s) /\ s[i][2] = p

ThreadInv(p) == /\ todo[p] \in Seq(Steps)
                /\ Orderly(todo[p], {})
                /\ EndsAs(todo[p], p)
                /\ Holds(p) \subseteq Held(todo[p], 1, {})

LockInv == /\ todo \in [Procs -> Seq(Steps)]
           /\ owner \in [Mutexes -> Procs \cup {Nobody}]
           /\ wk \in [Modules -> {"none", "runs", "told", "done", "joined"}]
           /\ byHand \subseteq {"cpu", "miss"} /\ LostByHandOnly
           /\ \A p \in Procs : ThreadInv(p)
           /\ \A m \in Modules : wk[m] \notin {"runs", "told"} => todo[m] = <<>>

\* A worker waits only for what is not above its module, nor for its own data.
OwnSteps(m) ==
    {e \in Steps : /\ e[1] \notin {"option", "start", "stop", "join"}
                   /\ Rank[e[2]] <= Rank[m]
                   /\ e[1] \in {"ask", "poll"} => Rank[e[2]] < Rank[m]}

WorkerInv == \A m \in Modules : todo[m] \in Seq(OwnSteps(m))
================================================================================
