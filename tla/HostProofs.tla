------------------------------- MODULE HostProofs -------------------------------
(****************************************************************************)
(* Theorems about parts of the host: CpuMig, for any program threads,       *)
(* thread ids and CPUs; NodeDist, for any benchmark parameters and any      *)
(* number of measurements; OptionParamVal, for any number of objects and    *)
(* any contents.                                                            *)
(****************************************************************************)
EXTENDS CpuMig, NodeDist, OptionParamVal, TLAPS

-------------------------------------------------------------------------------
\* CpuMig: the inductive invariant holds at the start ...
LEMMA InitInv == Init => MigInv
BY CpuMigAssumption DEF Init, MigInv, TypeOK, Pending, Wanted

\* ... and every step keeps it: a request, ...
LEMMA SetInv == ASSUME MigInv, NEW t \in Tids, NEW cpus \in SUBSET Cpus, SetCpuMig(t, cpus)
                PROVE  MigInv'
BY CpuMigAssumption DEF SetCpuMig, MigInv, TypeOK, Pending, Wanted, Met

\* ... the beginning of exec_cpu_mig(), ...
LEMMA BeginInv == ASSUME MigInv, NEW c \in Clients, ExecBegins(c) PROVE MigInv'
BY CpuMigAssumption DEF ExecBegins, MigInv, TypeOK, Pending, Wanted, Met

\* ... one round of its loop, ...
LEMMA MoveInv == ASSUME MigInv, NEW t \in Tids, ExecMoves(t) PROVE MigInv'
<1>1. /\ holder # Nobody /\ t \in left /\ left' = left \ {t}
      /\ UNCHANGED <<cpu_migs_, holder, asked>>
      /\ SchedSetaffinity(t, cpu_migs_[t])
  BY DEF ExecMoves, FilledMask
<1>2. cpu_migs_[t] \in SUBSET Cpus /\ Wanted[t] = cpu_migs_[t] /\ Wanted'[t] = NoMask
  BY <1>1 DEF MigInv, TypeOK, Pending, Wanted
<1>3. /\ affinity' \in [Tids -> SUBSET Online]
      /\ \A u \in Tids \ {t} : affinity'[u] = affinity[u]
      /\ affinity[t] # {} => affinity'[t] # {}
      /\ refused' \in [Tids -> (SUBSET Cpus) \cup {NoMask}]
      /\ \A u \in Tids \ {t} : refused'[u] = refused[u]
  BY <1>1, <1>2 DEF SchedSetaffinity, Moves, Refuses, MigInv, TypeOK
<1>4. TypeOK'
  BY <1>1, <1>2, <1>3 DEF ExecMoves, FilledMask, MigInv, TypeOK, Pending
<1>5. ASSUME NEW u \in Tids, asked'[u] # NoMask
      PROVE  affinity'[u] # {} /\ (Wanted'[u] = asked'[u] \/ (Wanted'[u] = NoMask /\ Met(u)'))
  <2>1. CASE u # t
    BY <1>1, <1>3, <1>5, <2>1 DEF MigInv, TypeOK, Wanted, Met
  <2>2. CASE u = t
    <3>1. asked[t] = cpu_migs_[t] /\ asked'[t] = asked[t] /\ affinity[t] # {}
      BY <1>1, <1>2, <1>5, <2>2, CpuMigAssumption DEF MigInv
    <3>2. Met(t)'
      BY <1>1, <1>2, <3>1, CpuMigAssumption
      DEF SchedSetaffinity, Moves, Refuses, MigInv, TypeOK, Met
    <3> QED
      BY <1>2, <1>3, <2>2, <3>1, <3>2
  <2> QED
    BY <2>1, <2>2
<1> QED
  BY <1>1, <1>4, <1>5 DEF MigInv

\* ... its end, ...
LEMMA EndInv == ASSUME MigInv, ExecEnds PROVE MigInv'
BY CpuMigAssumption DEF ExecEnds, MigInv, TypeOK, Pending, Wanted, Met

\* ... and the coming and going of a thread.
LEMMA ThreadInv == ASSUME MigInv, NEW t \in Tids, Thread(t) PROVE MigInv'
BY CpuMigAssumption DEF Thread, MigInv, TypeOK, Pending, Wanted, Met

LEMMA StepInv == MigInv /\ [Next]_vars => MigInv'
<1> SUFFICES ASSUME MigInv, [Next]_vars PROVE MigInv'
  OBVIOUS
<1>1. CASE UNCHANGED vars
  BY <1>1 DEF vars, MigInv, TypeOK, Pending, Wanted, Met
<1>2. CASE ExecFails
  BY <1>1, <1>2 DEF ExecFails
<1>3. CASE Next /\ ~ExecFails
  BY <1>3, SetInv, BeginInv, MoveInv, EndInv, ThreadInv DEF Next
<1> QED
  BY <1>1, <1>2, <1>3

\* The inductive invariant MigInv holds in every state of CpuMig (cpu_mig.cpp:21-50).
THEOREM Invariance == Spec => []MigInv
<1> QED
  BY InitInv, StepInv, PTL DEF Spec

\* No request is lost: RequestsMet holds for any program threads, thread ids and CPUs
\* (cpu_mig.cpp:21-50).
THEOREM NoRequestLost == Spec => []RequestsMet
<1>1. MigInv => RequestsMet
  BY DEF MigInv, RequestsMet, TypeOK, Wanted
<1> QED
  BY <1>1, Invariance, PTL

\* A round of the loop is a move or a giving up of the abstract migration.
LEMMA MoveRefines == ASSUME MigInv, NEW t \in Tids, ExecMoves(t)
                     PROVE  Aff!AMove(t) \/ Aff!AGiveUp(t)
<1>1. /\ holder # Nobody /\ t \in left /\ left' = left \ {t}
      /\ UNCHANGED <<cpu_migs_, holder>>
      /\ SchedSetaffinity(t, cpu_migs_[t])
  BY DEF ExecMoves, FilledMask
<1>2. Wanted[t] = cpu_migs_[t] /\ Wanted[t] # NoMask
  BY <1>1 DEF MigInv, TypeOK, Pending, Wanted
<1>3. Wanted' = [Wanted EXCEPT ![t] = NoMask]
  BY <1>1 DEF Wanted
<1>4. CASE Moves(t, cpu_migs_[t])
  BY <1>2, <1>3, <1>4 DEF Moves, Aff!AMove
<1>5. CASE Refuses(t, cpu_migs_[t])
  BY <1>2, <1>3, <1>5 DEF Refuses, Aff!AGiveUp
<1> QED
  BY <1>1, <1>4, <1>5 DEF SchedSetaffinity

LEMMA StepRefines == MigInv /\ [Next]_vars => [Aff!ANext]_(Aff!avars)
<1> SUFFICES ASSUME MigInv, [Next]_vars PROVE Aff!ANext \/ UNCHANGED Aff!avars
  OBVIOUS
<1>1. CASE UNCHANGED vars
  BY <1>1 DEF vars, Aff!avars, Wanted
<1>2. CASE ExecFails
  BY <1>1, <1>2 DEF ExecFails
<1>3. ASSUME NEW c \in Clients, ExecBegins(c) PROVE UNCHANGED Aff!avars
  BY <1>3, CpuMigAssumption DEF ExecBegins, Aff!avars, Wanted, Pending, MigInv, TypeOK
<1>4. CASE ExecEnds
  BY <1>4, CpuMigAssumption DEF ExecEnds, Aff!avars, Wanted
<1>5. ASSUME NEW t \in Tids, NEW cpus \in SUBSET Cpus, SetCpuMig(t, cpus) PROVE Aff!ARequest(t, cpus)
  BY <1>5 DEF SetCpuMig, Aff!ARequest, Wanted, MigInv, TypeOK
<1>6. ASSUME NEW t \in Tids, Thread(t) PROVE Aff!AThread(t)
  BY <1>6 DEF Thread, Aff!AThread, Wanted
<1> QED
  BY <1>1, <1>2, <1>3, <1>4, <1>5, <1>6, MoveRefines DEF Next, Aff!ANext

\* CpuMig implements the abstract migration: every step is a request, a move, a giving up
\* of a request that the kernel refused, a change on the machine, or a stutter
\* (cpu_mig.cpp:21-50 against Affinity).
THEOREM Refinement == Spec => ImplementsAffinity
<1>1. Init => Aff!AInit
  BY DEF Init, Aff!AInit, Wanted
<1> QED
  BY <1>1, StepRefines, Invariance, PTL DEF Spec, ImplementsAffinity, Aff!ASpec

-------------------------------------------------------------------------------
\* NodeDist: what a matrix that counts was measured with.

LEMMA DistInitMatrix == DistInit => MatrixInv
<1> SUFFICES ASSUME DistInit PROVE MatrixInv
  OBVIOUS
<1>1. CASE registered = Off
  <2>1. has_data_ = FALSE
    BY <1>1 DEF DistInit
  <2>2. param_ = DefaultBench /\ last_param_ = DefaultBench /\ takes = 0 /\ changed = 0
    BY <1>1 DEF DistInit
  <2>3. has_data_ \in BOOLEAN /\ ~has_data_
    BY <2>1
  <2>4. DefaultBench \in Params /\ takes \in 0..MaxTakes /\ changed \in 0..2
    BY <2>2, NodeDistAssumption
  <2> QED
    BY <2>2, <2>3, <2>4 DEF MatrixInv
<1>2. CASE registered # Off
  BY <1>2, NodeDistAssumption DEF DistInit, MatrixInv
<1> QED
  BY <1>1, <1>2

\* A parameter call: of the two values, the matrix is of the one that last_param_ has.
LEMMA ParamMatrix == ASSUME MatrixInv, NEW c \in Callers, SetParam(c) \/ ClearParam(c)
                     PROVE  MatrixInv'
BY NodeDistAssumption DEF MatrixInv, SetParam, ClearParam, Changed

LEMMA MeasureMatrix == ASSUME MatrixInv, NEW c \in Callers, GetMeasures(c) PROVE MatrixInv'
<1>1. PICK whole \in BOOLEAN : matrix' = [of |-> param_, take |-> takes + 1, whole |-> whole]
  BY DEF GetMeasures
<1> QED
  BY <1>1, NodeDistAssumption DEF MatrixInv, GetMeasures

LEMMA StepMatrix == MatrixInv /\ [DistNext]_dvars => MatrixInv'
<1> SUFFICES ASSUME MatrixInv, [DistNext]_dvars PROVE MatrixInv'
  OBVIOUS
<1>1. CASE UNCHANGED dvars
  BY <1>1 DEF dvars, dist, history, MatrixInv
<1>2. ASSUME NEW c \in Callers, SetRegister(c) \/ ClearRegister(c) \/ GetReturns(c)
                                \/ GetCached(c) \/ GetMisses(c) \/ GetSysDist(c)
      PROVE  MatrixInv'
  BY <1>2 DEF SetRegister, ClearRegister, GetReturns, GetCached, GetMisses, GetSysDist,
              dist, history, MatrixInv
<1>3. ASSUME NEW c \in Callers, Clear(c) PROVE MatrixInv'
  BY <1>3 DEF Clear, MatrixInv
<1> QED
  BY <1>1, <1>2, <1>3, ParamMatrix, MeasureMatrix DEF DistNext

\* For any threads of the program: a matrix that would be taken from the cache was
\* measured with the parameters in force, unless two parameter calls or more came in
\* between (node_test_dist.cpp:20-44).
THEOREM MatrixOfParam == DistSpec => []CacheOfParam
<1>1. MatrixInv => CacheOfParam
  BY DEF MatrixInv, CacheOfParam, Cached
<1> QED
  BY <1>1, DistInitMatrix, StepMatrix, PTL DEF DistSpec

-------------------------------------------------------------------------------
\* NodeDist: the registry, and what is returned, for any threads of the program.

LEMMA DistInitCaller == DistInit => CallerInv
BY NodeDistAssumption DEF DistInit, CallerInv, RegistryAgrees, Within

\* A parameter call that begins alone makes registry and module agree at its end,
\* whatever calls inside one another have left.
LEMMA ParamCaller == ASSUME CallerInv, NEW c \in Callers,
                            SetParam(c) \/ SetRegister(c) \/ ClearRegister(c) \/ ClearParam(c)
                     PROVE  CallerInv'
<1>1. CASE SetParam(c)
  BY <1>1 DEF SetParam, Overlaps, Move, CallerInv, RegistryAgrees, Within
<1>2. CASE SetRegister(c)
  BY <1>2 DEF SetRegister, Move, CallerInv, RegistryAgrees, Within, Cached, dist, history
<1>3. CASE ClearRegister(c)
  BY <1>3 DEF ClearRegister, Overlaps, Move, CallerInv, RegistryAgrees, Within, Cached, dist
<1>4. CASE ClearParam(c)
  BY <1>4 DEF ClearParam, Move, CallerInv, RegistryAgrees, Within
<1> QED
  BY <1>1, <1>2, <1>3, <1>4

\* What is noted to have been returned stays what would be returned, for nobody is about
\* to measure when it is noted, and nobody decides to as long as it counts.
LEMMA GetCaller == ASSUME CallerInv, NEW c \in Callers,
                          GetCached(c) \/ GetMisses(c) \/ GetMeasures(c) \/ GetReturns(c)
                   PROVE  CallerInv'
<1>1. CASE GetCached(c)
  BY <1>1 DEF GetCached, Move, Returned, CallerInv, RegistryAgrees, Within, Cached, dist
<1>2. CASE GetMisses(c)
  BY <1>2 DEF GetMisses, Move, CallerInv, RegistryAgrees, Within, Cached, dist, history
<1>3. CASE GetMeasures(c)
  BY <1>3 DEF GetMeasures, Move, Returned, CallerInv, RegistryAgrees, Within, Cached
<1>4. CASE GetReturns(c)
  BY <1>4 DEF GetReturns, Move, CallerInv, RegistryAgrees, Within, Cached, dist, history
<1> QED
  BY <1>1, <1>2, <1>3, <1>4

LEMMA StepCaller == CallerInv /\ [DistNext]_dvars => CallerInv'
<1> SUFFICES ASSUME CallerInv, [DistNext]_dvars PROVE CallerInv'
  OBVIOUS
<1>1. CASE UNCHANGED dvars
  BY <1>1 DEF dvars, dist, history, CallerInv, RegistryAgrees, Within, Cached
<1>2. ASSUME NEW c \in Callers, Clear(c) \/ GetSysDist(c) PROVE CallerInv'
  BY <1>2 DEF Clear, GetSysDist, dist, history, CallerInv, RegistryAgrees, Within, Cached
<1> QED
  BY <1>1, <1>2, ParamCaller, GetCaller DEF DistNext

\* For any threads of the program, the registry has the parameters of the module between
\* calls, if the option was ever registered and the last parameter calls were not made one
\* inside another (host.cpp:30-63).
THEOREM RegistryFollows == DistSpec => []RegistryAgrees
<1>1. CallerInv => RegistryAgrees
  BY DEF CallerInv
<1> QED
  BY <1>1, DistInitCaller, StepCaller, PTL DEF DistSpec

\* For any threads of the program, results change only after a change of the parameters, a
\* clear(), or by a caller that looked before they came (node_test_dist.cpp:33-44).
THEOREM ResultsAreStable == DistSpec => StableWhileUnchanged
<1>1. CallerInv /\ [DistNext]_dvars => [since # 0 /\ since' # 0 => since' = since]_dvars
  <2> SUFFICES ASSUME CallerInv, NEW c \in Callers, since # 0, since' # 0,
                      \/ SetParam(c) \/ SetRegister(c)
                      \/ ClearRegister(c) \/ ClearParam(c) \/ Clear(c)
                      \/ GetCached(c) \/ GetMisses(c) \/ GetMeasures(c) \/ GetReturns(c)
                      \/ GetSysDist(c)
               PROVE  since' = since
    BY DEF DistNext
  <2>1. CASE SetParam(c) \/ ClearParam(c) \/ Clear(c)
    BY <2>1 DEF SetParam, ClearParam, Clear
  <2>2. CASE GetMeasures(c)
    BY <2>2 DEF GetMeasures, Move, CallerInv
  <2>3. CASE GetCached(c)
    BY <2>3 DEF GetCached, Returned, dist, CallerInv
  <2>4. CASE SetRegister(c) \/ ClearRegister(c) \/ GetMisses(c) \/ GetReturns(c) \/ GetSysDist(c)
    BY <2>4 DEF SetRegister, ClearRegister, GetMisses, GetReturns, GetSysDist, history
  <2> QED
    BY <2>1, <2>2, <2>3, <2>4
<1> QED
  BY <1>1, DistInitCaller, StepCaller, PTL DEF DistSpec, StableWhileUnchanged

-------------------------------------------------------------------------------
\* OptionParamVal: the tag tells whether a string lives in the union, and Host's
\* conversions lose nothing.

\* An object whose string is where the tag says.
Sound(u) == u \in Objects /\ (u.string = "alive" <=> u.type = "STR")

\* What the members of a sound object and of one without an object in it have.
LEMMA SoundFields ==
  ASSUME NEW u, Sound(u)
  PROVE  /\ u.type \in Types /\ u.val \in Contents
         /\ u.string = IF u.type = "STR" THEN "alive" ELSE "none"
         /\ u # NoObject
  BY OptionParamValAssumption DEF Sound, Objects

\* Each of the operators below gives an object by its three fields.
LEMMA SoundRecord ==
  ASSUME NEW t \in Types, NEW v \in Contents
  PROVE  Sound([type |-> t, val |-> v, string |-> IF t = "STR" THEN "alive" ELSE "none"])
  BY DEF Sound, Objects

\* The constructors make a sound object that holds what they were given.
LEMMA ConstructedSound ==
  ASSUME NEW t \in Types, NEW v \in Contents
  PROVE  Sound(Constructed(t, v))
<1>1. Constructed(t, v) = [type |-> t, val |-> v, string |-> IF t = "STR" THEN "alive" ELSE "none"]
  BY DEF Constructed, BeginString, SetPlain, Raw, Object
<1> QED BY <1>1, SoundRecord

\* A copy is the object that was copied.
LEMMA CopiedSame ==
  ASSUME NEW o, Sound(o)
  PROVE  /\ Sound(Copied(o))
         /\ Copied(o).type = o.type
         /\ Copied(o).val = o.val
<1>1. Copied(o) = [type |-> o.type, val |-> o.val,
                   string |-> IF o.type = "STR" THEN "alive" ELSE "none"]
  BY SoundFields DEF Copied, CopyUnion, BeginString, SetPlain, Raw, Object
<1> QED BY <1>1, SoundFields, SoundRecord

\* Assignment of an object leaves a sound object that is equal to the other one.
LEMMA AssignedSame ==
  ASSUME NEW u, NEW o, Sound(u), Sound(o)
  PROVE  /\ Sound(Assigned(u, o))
         /\ Assigned(u, o).type = o.type
         /\ Assigned(u, o).val = o.val
<1>1. Assigned(u, o) = [type |-> o.type, val |-> o.val,
                        string |-> IF o.type = "STR" THEN "alive" ELSE "none"]
  <2>1. CASE u.type = "STR" /\ o.type = "STR"
    BY <2>1, SoundFields DEF Assigned, SetString, SetType, Object
  <2>2. CASE u.type = "STR" /\ o.type # "STR"
    BY <2>2, SoundFields DEF Assigned, EndString, CopyUnion, SetPlain, SetType, Object
  <2>3. CASE u.type # "STR"
    BY <2>3, SoundFields DEF Assigned, CopyUnion, BeginString, SetPlain, SetType, Object
  <2> QED BY <2>1, <2>2, <2>3
<1> QED BY <1>1, SoundFields, SoundRecord

\* Assignment of a plain value or of a string leaves a sound object that holds it.
LEMMA AssignedValueHolds ==
  ASSUME NEW u, Sound(u), NEW t \in Types, NEW v \in Contents
  PROVE  /\ Sound(AssignedValue(u, t, v))
         /\ Get(AssignedValue(u, t, v), t) = v
<1>1. AssignedValue(u, t, v) = [type |-> t, val |-> v,
                                string |-> IF t = "STR" THEN "alive" ELSE "none"]
  <2>1. CASE t = "STR"
    BY <2>1, SoundFields DEF AssignedValue, AssignedString, SetString, BeginString, SetType, Object
  <2>2. CASE t # "STR"
    BY <2>2, SoundFields DEF AssignedValue, AssignedPlain, EndString, SetPlain, SetType, Object
  <2> QED BY <2>1, <2>2
<1> QED BY <1>1, SoundRecord DEF Get

-------------------------------------------------------------------------------
\* Every place is empty or holds a sound object.
AllSound == slot \in [Slots -> {u \in Objects : Sound(u)} \cup {NoObject}]

\* The type invariant and the property of the tags, in one.
LEMMA AllSoundSays == AllSound <=> OTypeOK /\ TagTellsString
  BY OptionParamValAssumption DEF AllSound, OTypeOK, TagTellsString, Sound

\* A step of one place keeps the others as they are.
LEMMA PutSound ==
  ASSUME AllSound, NEW s \in Slots, NEW u, Sound(u) \/ u = NoObject, Put(s, u)
  PROVE  AllSound'
  BY DEF AllSound, Put, Sound

LEMMA StepSound == AllSound /\ [ONext]_slot => AllSound'
<1> SUFFICES ASSUME AllSound, [ONext]_slot PROVE AllSound'
  OBVIOUS
<1>1. \A s \in Slots : slot[s] # NoObject => Sound(slot[s])
  BY DEF AllSound
<1>2. CASE UNCHANGED slot
  BY <1>2 DEF AllSound, Sound
<1>3. ASSUME NEW s \in Slots, Construct(s) PROVE AllSound'
  BY <1>3, ConstructedSound, PutSound DEF Construct
<1>4. ASSUME NEW s \in Slots, AssignValue(s) PROVE AllSound'
  BY <1>1, <1>4, AssignedValueHolds, PutSound DEF AssignValue
<1>5. ASSUME NEW s \in Slots, AssignThrows(s) PROVE AllSound'
  <2>1. PICK v \in Contents : Put(s, Object(slot[s].type, v, slot[s].string))
    BY <1>5 DEF AssignThrows
  <2>2. Sound(Object(slot[s].type, v, slot[s].string))
    BY <1>1, <1>5 DEF AssignThrows, Sound, Objects, Object
  <2> QED BY <2>1, <2>2, PutSound
<1>6. ASSUME NEW s \in Slots, Destroy(s) PROVE AllSound'
  <2>1. Sound(slot[s])
    BY <1>1, <1>6 DEF Destroy
  <2>2. (IF slot[s].type = "STR" THEN EndString(slot[s]) ELSE slot[s]).string = "none"
    BY <2>1, SoundFields DEF EndString, Object
  <2>3. Put(s, NoObject)
    BY <1>6, <2>2 DEF Destroy
  <2> QED BY <2>3, PutSound
<1>7. ASSUME NEW s \in Slots, NEW o \in Slots, Copy(s, o) PROVE AllSound'
  BY <1>1, <1>7, CopiedSame, PutSound DEF Copy
<1>8. ASSUME NEW s \in Slots, NEW o \in Slots, Assign(s, o) PROVE AllSound'
  BY <1>1, <1>8, AssignedSame, PutSound DEF Assign
<1> QED BY <1>2, <1>3, <1>4, <1>5, <1>6, <1>7, <1>8 DEF ONext

LEMMA SpecSound == OSpec => []AllSound
<1>1. OInit => AllSound
  BY DEF OInit, AllSound
<1> QED BY <1>1, StepSound, PTL DEF OSpec

\* No string is used or ended dead, or buried alive (func_option.cpp:68-182).
THEOREM NoBadString == OSpec => []OTypeOK
<1>1. AllSound => OTypeOK
  BY AllSoundSays
<1> QED BY <1>1, SpecSound, PTL

\* A string lives in the union exactly if the tag says so (func_option.cpp:68-182).
THEOREM TagIsTruthful == OSpec => []TagTellsString
<1>1. AllSound => TagTellsString
  BY AllSoundSays
<1> QED BY <1>1, SpecSound, PTL

\* The registry gives back the parameters that the benchmark was given (host.cpp:182-217).
THEOREM RegistryGivesBack == OSpec => []ReadBack
<1>1. AllSound => ReadBack
  <2> SUFFICES ASSUME AllSound,
                      NEW param \in [Fields -> {slot[s] : s \in Slots} \cup {NoObject}]
               PROVE  LET micro == option_param_to_micro_param(param) IN
                      option_param_to_micro_param(micro_param_to_option_param(micro)) = micro
    BY DEF ReadBack
  <2> DEFINE micro == option_param_to_micro_param(param)
             back  == micro_param_to_option_param(micro)
  <2>1. micro \in [Fields -> Contents]
    BY OptionParamValAssumption
       DEF AllSound, Objects, Get, option_param_to_micro_param
  <2>2. Sound(Default)
    BY OptionParamValAssumption, ConstructedSound DEF Default, Types
  <2>3. ASSUME NEW f \in Fields
        PROVE  back[f] # NoObject /\ Get(back[f], TypeOf[f]) = micro[f]
    <3>1. TypeOf[f] \in Types
      BY DEF TypeOf, Fields, Types
    <3>2. back[f] = AssignedValue(Default, TypeOf[f], micro[f])
      BY DEF micro_param_to_option_param
    <3>3. micro[f] \in Contents
      BY <2>1
    <3> HIDE DEF micro, back
    <3> QED BY <2>2, <3>1, <3>2, <3>3, AssignedValueHolds, SoundFields
  <2>4. option_param_to_micro_param(back) = [f \in Fields |-> micro[f]]
    BY <2>3 DEF option_param_to_micro_param
  <2> QED BY <2>1, <2>4
<1> QED BY <1>1, SpecSound, PTL
================================================================================
