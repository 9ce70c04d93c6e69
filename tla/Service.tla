-------------------------------- MODULE Service --------------------------------
(****************************************************************************)
(* What a restartable background service promises to the threads that      *)
(* start and stop it.  This is the abstract specification of the class      *)
(* Runnable: src/include/utils/runnable.h promises a "Java-like interface   *)
(* for std::thread" whose stop() "MUST stop the thread when called".        *)
(*                                                                          *)
(*   - a worker is only ever launched when none is alive;                   *)
(*   - a worker ends only because some caller is stopping the service;      *)
(*   - start() returns only with a worker alive, stop() only with none.     *)
(****************************************************************************)
CONSTANTS Callers,  \* the threads that call start() and stop()
          Threads   \* the worker threads

VARIABLES pending,  \* the call each caller is inside: "none", "start", "stop"
          live      \* the worker threads that are executing run()

svars == <<pending, live>>

SInit == /\ pending = [c \in Callers |-> "none"]
         /\ live = {}

SCall(c, op) == /\ pending[c] = "none"
                /\ pending' = [pending EXCEPT ![c] = op]
                /\ UNCHANGED live

SLaunch(c, t) == /\ pending[c] = "start"
                 /\ live = {}
                 /\ live' = {t}
                 /\ UNCHANGED pending

SStartReturns(c) == /\ pending[c] = "start"
                    /\ live # {}
                    /\ pending' = [pending EXCEPT ![c] = "none"]
                    /\ UNCHANGED live

SFinish(t) == /\ \E c \in Callers : pending[c] = "stop"
              /\ live = {t}
              /\ live' = {}
              /\ UNCHANGED pending

SStopReturns(c) == /\ pending[c] = "stop"
                   /\ live = {}
                   /\ pending' = [pending EXCEPT ![c] = "none"]
                   /\ UNCHANGED live

SNext == \/ \E c \in Callers : \/ \E op \in {"start", "stop"} : SCall(c, op)
                               \/ \E t \in Threads : SLaunch(c, t)
                               \/ SStartReturns(c)
                               \/ SStopReturns(c)
         \/ \E t \in Threads : SFinish(t)

SSpec == SInit /\ [][SNext]_svars
================================================================================
