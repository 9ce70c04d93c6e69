-------------------------------- MODULE Affinity --------------------------------
(****************************************************************************)
(* What the migration of threads promises: the abstract specification of    *)
(* the class CpuMig.  A request for a thread stays until the thread is      *)
(* moved or is replaced by a later request for it, and is given up only     *)
(* when the machine refuses that very request.                              *)
(*                                                                          *)
(* A thread id whose affinity is empty belongs to no thread.                *)
(****************************************************************************)
CONSTANTS Tids,    \* thread ids
          Cpus,
          Online,  \* the CPUs that are online
          NoMask   \* no request

VARIABLES wanted,  \* wanted[t]: the CPUs that t is to be moved to, or NoMask
          affinity,\* affinity[t]: the CPUs that t may run on
          refused  \* refused[t]: the request for t that the machine refused, or NoMask

avars == <<wanted, affinity, refused>>

AInit == /\ wanted = [t \in Tids |-> NoMask]
         /\ affinity \in [Tids -> {{}, Online}]
         /\ refused = [t \in Tids |-> NoMask]

ARequest(t, cpus) == /\ wanted' = [wanted EXCEPT ![t] = cpus]
                     /\ refused' = [refused EXCEPT ![t] = NoMask]
                     /\ UNCHANGED affinity

AMove(t) == /\ wanted[t] # NoMask
            /\ affinity[t] # {} /\ wanted[t] \cap Online # {}
            /\ affinity' = [affinity EXCEPT ![t] = wanted[t] \cap Online]
            /\ wanted' = [wanted EXCEPT ![t] = NoMask]
            /\ UNCHANGED refused

AGiveUp(t) == /\ wanted[t] # NoMask
              /\ refused' = [refused EXCEPT ![t] = wanted[t]]
              /\ wanted' = [wanted EXCEPT ![t] = NoMask]
              /\ UNCHANGED affinity

AThread(t) == /\ affinity' = [affinity EXCEPT ![t] = IF @ = {} THEN Online ELSE {}]
              /\ refused' = [refused EXCEPT ![t] = NoMask]
              /\ UNCHANGED wanted

ANext == \E t \in Tids : \/ \E cpus \in SUBSET Cpus : ARequest(t, cpus)
                         \/ AMove(t) \/ AGiveUp(t) \/ AThread(t)

ASpec == AInit /\ [][ANext]_avars
================================================================================
