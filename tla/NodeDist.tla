------------------------------- MODULE NodeDist -------------------------------
(****************************************************************************)
(* The cached node distances of the host: NodeTestDist and NodeSysDist      *)
(* (src/src/sysinfo/host/static/), with the parameter calls of Host         *)
(* (src/src/framework/host.cpp) that configure the former.                  *)
(*                                                                          *)
(* NodeTestDist runs a benchmark per pair of nodes with the parameters      *)
(* param_ and keeps the matrix; it is used again while last_param_ equals   *)
(* param_.  A matrix is named by what the properties tell apart: the        *)
(* parameters it was measured with, which measurement it is, and whether a  *)
(* failing popen() cut it short.  get looks under the shared lock, lets it  *)
(* go, and measures under the exclusive one.                                *)
(****************************************************************************)
EXTENDS Naturals

CONSTANTS Callers,       \* threads of the program
          Params,        \* benchmark parameters
          DefaultBench,  \* MicroParam()
          Off,           \* the option is not enabled
          MaxTakes       \* bound on the number of measurements

ASSUME NodeDistAssumption == /\ DefaultBench \in Params
                             /\ Off \notin Params
                             /\ MaxTakes \in Nat \ {0}

VARIABLES param_, last_param_, has_data_, matrix,
          registered,          \* the parameters in FuncOption for the option, or Off
          sys_has_data_, sys,  \* NodeSysDist: "unread", "read" or "empty"
          takes,               \* measurements so far
          at, want,            \* at[c]: where caller c is; want[c]: what it sets
          since,               \* measurement returned since the last change, or 0
          changed,             \* parameter calls since the last measurement, 2 for more
          overlap              \* a parameter call has begun inside another one

dist    == <<param_, last_param_, has_data_, matrix>>
history == <<since, changed, overlap>>
dvars   == <<dist, registered, sys_has_data_, sys, takes, at, want, history>>

NoMatrix == [of |-> Off, take |-> 0, whole |-> FALSE]

\* After Host::Host(): the option's parameters are set and measured if enabled.
DistInit == /\ registered \in Params \cup {Off}
            /\ LET on == registered # Off IN
               /\ param_ = IF on THEN registered ELSE DefaultBench
               /\ last_param_ = param_
               /\ has_data_ = on
               /\ takes = IF on THEN 1 ELSE 0
               /\ matrix = IF on THEN [of |-> registered, take |-> 1, whole |-> TRUE] ELSE NoMatrix
            /\ sys_has_data_ = FALSE
            /\ sys = "unread"
            /\ at = [c \in Callers |-> "idle"]
            /\ want = [c \in Callers |-> DefaultBench]
            /\ since = 0
            /\ changed = 0
            /\ overlap = FALSE

Changed == changed' = IF changed = 0 THEN 1 ELSE 2

\* The callers inside set_param() and clear_param() of Host, which take no lock.
Within == {c \in Callers : at[c] \in {"set_register", "clear_param"}}

Overlaps == overlap' = (Within # {})

Move(c, from, to) == at[c] = from /\ at' = [at EXCEPT ![c] = to]

-------------------------------------------------------------------------------
\* Host::set_param() and clear_param(): the module first, then the registry.

SetParam(c) == /\ Move(c, "idle", "set_register")
               /\ \E p \in Params : /\ param_' = p
                                    /\ want' = [want EXCEPT ![c] = p]
               /\ last_param_' = param_
               /\ since' = 0
               /\ Changed
               /\ Overlaps
               /\ UNCHANGED <<has_data_, matrix, registered, sys_has_data_, sys, takes>>

SetRegister(c) == /\ Move(c, "set_register", "idle")
                  /\ registered' = want[c]
                  /\ UNCHANGED <<dist, sys_has_data_, sys, takes, want, history>>

\* Fault: clear_param() of Host leaves the registry alone.
ClearRegisterSkipped(c) == /\ Move(c, "idle", "clear_param")
                           /\ Overlaps
                           /\ UNCHANGED <<dist, registered, sys_has_data_, sys, takes, want, since, changed>>

\* clear_param() registers the default values, if enabled, and then clears the module.
ClearRegister(c) == /\ Move(c, "idle", "clear_param")
                    /\ registered' = IF registered = Off THEN Off ELSE DefaultBench
                    /\ Overlaps
                    /\ UNCHANGED <<dist, sys_has_data_, sys, takes, want, since, changed>>

ClearParam(c) == /\ Move(c, "clear_param", "idle")
                 /\ param_' = DefaultBench
                 /\ since' = 0
                 /\ Changed
                 /\ UNCHANGED <<last_param_, has_data_, matrix, registered, sys_has_data_, sys,
                                takes, want, overlap>>

\* NodeTestDist::clear() and NodeSysDist::clear(), "to allow user to clear the data".
Clear(c) == /\ at[c] = "idle"
            /\ matrix' = NoMatrix
            /\ has_data_' = FALSE
            /\ sys' = "unread"
            /\ sys_has_data_' = FALSE
            /\ since' = 0
            /\ UNCHANGED <<param_, last_param_, registered, takes, at, want, changed, overlap>>

-------------------------------------------------------------------------------
\* get_node_test_dist()

\* Fault: a matrix is used again whatever it was measured with.
CachedWhatever == has_data_

Cached == has_data_ /\ last_param_ = param_

\* What is returned is noted for later calls, unless somebody is about to measure anew.
Returned == since' = IF \E d \in Callers : at'[d] = "measure" THEN 0 ELSE matrix'.take

\* Under the shared lock: return the matrix, or let the lock go.
GetCached(c) == /\ Cached
                /\ Move(c, "idle", "returned")
                /\ UNCHANGED <<dist, registered, sys_has_data_, sys, takes, want, changed, overlap>>
                /\ Returned

GetMisses(c) == /\ ~Cached
                /\ Move(c, "idle", "measure")
                /\ UNCHANGED <<dist, registered, sys_has_data_, sys, takes, want, history>>

\* Fault: a measurement does not become the one of the parameters in force.
MeasureNotNoted(c) == /\ Move(c, "measure", "returned")
                      /\ takes < MaxTakes
                      /\ takes' = takes + 1
                      /\ changed' = 0
                      /\ has_data_' = TRUE
                      /\ \E whole \in BOOLEAN :
                           matrix' = [of |-> param_, take |-> takes + 1, whole |-> whole]
                      /\ UNCHANGED <<param_, last_param_, registered, sys_has_data_, sys, want, overlap>>
                      /\ Returned

\* Under the exclusive lock, without looking again; popen() may fail on the way, and
\* get_node_num() may throw before anything is measured: then nothing is returned, and
\* the empty matrix counts.
GetMeasures(c) == /\ Move(c, "measure", "returned")
                  /\ takes < MaxTakes
                  /\ takes' = takes + 1
                  /\ changed' = 0
                  /\ has_data_' = TRUE
                  /\ last_param_' = param_
                  /\ \E whole \in BOOLEAN :
                       matrix' = [of |-> param_, take |-> takes + 1, whole |-> whole]
                  /\ UNCHANGED <<param_, registered, sys_has_data_, sys, want, overlap>>
                  /\ Returned \/ (~matrix'.whole /\ since' = 0)

GetReturns(c) == /\ Move(c, "returned", "idle")
                 /\ UNCHANGED <<dist, registered, sys_has_data_, sys, takes, want, history>>

\* get_node_sys_dist(): the same shape without parameters.  Reading the table is
\* repeatable, so its look and its reading are one step; a failed popen() is cached.
GetSysDist(c) == /\ at[c] = "idle"
                 /\ ~sys_has_data_
                 /\ sys_has_data_' = TRUE
                 /\ sys' \in {"read", "empty"}
                 /\ UNCHANGED <<dist, registered, takes, at, want, history>>

DistNext == \E c \in Callers : \/ SetParam(c) \/ SetRegister(c)
                               \/ ClearRegister(c) \/ ClearParam(c) \/ Clear(c)
                               \/ GetCached(c) \/ GetMisses(c) \/ GetMeasures(c) \/ GetReturns(c)
                               \/ GetSysDist(c)

DistSpec == DistInit /\ [][DistNext]_dvars

-------------------------------------------------------------------------------
\* The matrix that a getter would take from the cache was measured with the
\* parameters in force, as long as they were changed at most once since: each
\* set_param() moves last_param_ on, so that two of them with the same parameters, or
\* one and clear_param(), make a matrix of older ones count (node_test_dist.cpp:20-38).
CacheOfParam == Cached /\ changed < 2 => matrix.of = param_

\* While nobody changes the parameters or clears the data, every call returns the same
\* measurement; a caller that has let the shared lock go and is about to measure is
\* exempt, and what is returned until it has (node_test_dist.cpp:33-44).
StableWhileUnchanged == [][since # 0 /\ since' # 0 => since' = since]_dvars

\* Between parameter calls the registry and the module agree, unless the option was never
\* registered, or the last of these calls were made one inside another, for Host takes no
\* lock (host.cpp:30-63).
RegistryAgrees == Within = {} /\ ~overlap => registered \in {param_, Off}

-------------------------------------------------------------------------------
\* The inductive invariants.  Whatever the program's threads do, a matrix that counts was
\* measured with last_param_ as long as the parameters were changed at most once since.
MatrixInv == /\ param_ \in Params /\ last_param_ \in Params
             /\ has_data_ \in BOOLEAN
             /\ takes \in 0..MaxTakes
             /\ changed \in 0..2
             /\ has_data_ /\ changed < 2 => matrix.of = last_param_
             /\ has_data_ /\ changed = 0 => last_param_ = param_

\* The registry lags behind only within a call, and what was returned last is what would
\* be returned again.
CallerInv == /\ at \in [Callers -> {"idle", "set_register", "clear_param", "measure", "returned"}]
             /\ want \in [Callers -> Params]
             /\ ~overlap => /\ \A c, d \in Within : c = d
                            /\ \A c \in Callers :
                                 /\ at[c] = "set_register" => want[c] = param_
                                 /\ at[c] = "clear_param" => registered \in {DefaultBench, Off}
             /\ RegistryAgrees
             /\ since # 0 => /\ since = matrix.take
                             /\ Cached
                             /\ \A c \in Callers : at[c] # "measure"
================================================================================
