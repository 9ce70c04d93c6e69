------------------------------- MODULE VmSetProofs -------------------------------
(****************************************************************************)
(* Proofs about the VM modules as VmSet has them made, configured, started  *)
(* and stopped.  VmSet: for any clients and addresses, with one call at a   *)
(* time, the registry owns the callback objects, and the modules work with  *)
(* what is registered.  VmLocks: for any threads and callbacks, whoever     *)
(* waits for a module holds only mutexes of the modules above it.           *)
(****************************************************************************)
EXTENDS VmSet, VmLocks, SequenceTheorems, TLAPS

-------------------------------------------------------------------------------
\* VmSet: options, parameters and callback objects.

LEMMA OptsAre == /\ Opts = {"base", "cpu", "miss"}
                 /\ \A i \in 1..3 : Options[i] \in Opts
<1>1. Options[1] = "base" /\ Options[2] = "cpu" /\ Options[3] = "miss"
  BY DEF Options
<1>2. \A i \in 1..3 : i = 1 \/ i = 2 \/ i = 3
  OBVIOUS
<1> QED
  BY <1>1, <1>2 DEF Opts

LEMMA StageIs == \A o \in Opts : StageOf(o) \in 1..3 /\ Options[StageOf(o)] = o
  BY DEF StageOf, Opts

LEMMA NextOption == \A o \in Opts, i \in 1..3 : Options[i] = o <=> StageOf(o) = i
<1>1. \A i, j \in 1..3 : Options[i] = Options[j] => i = j
  <2>1. Options[1] = "base" /\ Options[2] = "cpu" /\ Options[3] = "miss"
    BY DEF Options
  <2> QED
    BY <2>1
<1> QED
  BY <1>1, StageIs

\* The parameters of an enabled option are the ones that are registered.
LEMMA ParamOfIs == ASSUME NEW o \in Opts, NEW p, options_[o] = {p}
                   PROVE  Enabled(o) /\ ParamOf(o) = p
  BY DEF Enabled, ParamOf

\* An option is not enabled, or registered with one record of parameters.
LEMMA Shape == ASSUME TypeOK, NEW o \in Opts
               PROVE  options_[o] = {} \/ \E p \in Params : options_[o] = {p}
  BY DEF TypeOK

LEMMA InitSetInv == Init => SetInv
<1> SUFFICES ASSUME Init PROVE SetInv
  OBVIOUS
<1>1. PICK chosen \in SUBSET Opts, cbs \in [Opts -> Ptrs \cup {"absent"}] :
        /\ \A o, u \in chosen : o # u /\ cbs[o] # "absent" => cbs[o] # cbs[u]
        /\ \A o \in Opts \ chosen : cbs[o] = "absent"
        /\ options_ = [o \in Opts |-> IF o \in chosen THEN {[cb |-> cbs[o], tune |-> "custom"]}
                                      ELSE {}]
        /\ heap = {cbs[o] : o \in chosen} \ {"absent"}
  BY DEF Init
<1>2. "absent" \notin Ptrs /\ "null" \notin Ptrs
  BY VmSetAssumption
<1>3. \A o \in Opts : \A p \in options_[o] : o \in chosen /\ p = [cb |-> cbs[o], tune |-> "custom"]
  BY <1>1
<1>4. TypeOK
  <2>1. \A o \in Opts : [cb |-> cbs[o], tune |-> "custom"] \in Params
    BY <1>1 DEF Params, CbVals
  <2>2. options_ \in [Opts -> {{}} \cup {{p} : p \in Params}]
    BY <1>1, <2>1
  <2>3. Idle \in Calls
    BY OptsAre DEF Idle, Calls, DefaultParams, Params, CbVals
  <2>4. heap \subseteq Ptrs
    BY <1>1
  <2> QED
    BY <2>2, <2>3, <2>4 DEF TypeOK, Init
<1>5. OneCall /\ fault = "none" /\ \A c \in Clients : CallInv(call[c]) /\ call[c].op = "idle"
  BY DEF Init, OneCall, CallInv, Idle
<1>6. Distinct
  BY <1>1, <1>2, <1>3 DEF Distinct
<1>7. Alive
  BY <1>1, <1>2, <1>3, <1>5 DEF Alive, Init, Freed
<1>8. Owned
  <2> SUFFICES ASSUME NEW a \in heap PROVE \E o \in Opts : \E p \in options_[o] : p.cb = a
    BY DEF Owned
  <2>1. PICK o \in chosen : cbs[o] = a
    BY <1>1
  <2>2. [cb |-> cbs[o], tune |-> "custom"] \in options_[o]
    BY <1>1, <2>1
  <2> QED
    BY <2>1, <2>2
<1> QED
  BY <1>4, <1>5, <1>6, <1>7, <1>8 DEF SetInv
-------------------------------------------------------------------------------
\* What the invariant says while every client but c is idle.
AliveBut(c) == \A o \in Opts : \A p \in options_[o] :
                  p.cb \in Ptrs => p.cb \notin forgotten /\ (p.cb \in heap <=> ~Freed(call[c], o))

OwnedBut(c) == \A a \in heap \ forgotten : \/ \E o \in Opts : \E p \in options_[o] : p.cb = a
                                         \/ (call[c].op = "set_param" /\ call[c].params.cb = a)

OnlyCall(c) == \A d \in Clients \ {c} : call[d].op = "idle"

InvBut(c) == /\ TypeOK
             /\ OnlyCall(c)
             /\ fault \in {"none", "null_deref"}
             /\ CallInv(call[c])
             /\ Distinct
             /\ AliveBut(c)
             /\ OwnedBut(c)

LEMMA Split == ASSUME SetInv, NEW c \in Clients, OnlyCall(c)
               PROVE  InvBut(c)
<1>1. \A o : (\E d \in Clients : Freed(call[d], o)) <=> Freed(call[c], o)
  BY DEF OnlyCall, Freed
<1>2. AliveBut(c)
  BY <1>1 DEF SetInv, Alive, AliveBut
<1>3. OwnedBut(c)
  BY DEF SetInv, Owned, OwnedBut, OnlyCall
<1> QED
  BY <1>2, <1>3 DEF SetInv, InvBut

LEMMA Join == ASSUME NEW c \in Clients, InvBut(c)'
              PROVE  SetInv'
<1>1. \A o : (\E d \in Clients : Freed(call[d], o)') <=> Freed(call[c], o)'
  BY DEF InvBut, OnlyCall, Freed
<1>2. Alive'
  BY <1>1 DEF InvBut, Alive, AliveBut
<1>3. Owned'
  BY DEF InvBut, Owned, OwnedBut
<1>4. OneCall'
  BY DEF InvBut, OneCall, OnlyCall
<1>5. \A d \in Clients : CallInv(call[d])'
  <2>1. \A d \in Clients \ {c} : CallInv(call[d])'
    BY DEF InvBut, OnlyCall, CallInv
  <2> QED
    BY <2>1 DEF InvBut
<1> QED
  BY <1>2, <1>3, <1>4, <1>5 DEF InvBut, SetInv

LEMMA Moved == ASSUME TypeOK, NEW c \in Clients, OnlyCall(c), NEW r \in Calls, Advance(c, r)
               PROVE  call' \in [Clients -> Calls] /\ call'[c] = r /\ OnlyCall(c)'
  BY DEF TypeOK, Advance, OnlyCall

LEMMA Others == ASSUME SetInv, NEW c \in Clients, call[c].op # "idle"
                PROVE  OnlyCall(c)
  BY DEF SetInv, OneCall, OnlyCall

-------------------------------------------------------------------------------
\* set_param(): a new object arrives, the old one is freed and then replaced.

LEMMA SetParamCallStep == ASSUME NEW c \in Clients, InvBut(c), call[c].op = "idle", SetParamCall(c)
                          PROVE  InvBut(c)'
<1>a. "absent" \notin Ptrs /\ TypeOK /\ heap \subseteq Ptrs /\ forgotten \subseteq heap
  BY VmSetAssumption DEF InvBut, TypeOK
<1>1. PICK o \in Opts, tune \in {"absent", "custom"}, cb \in (Ptrs \ heap) \cup {"absent"} :
        /\ heap' = heap \cup ({cb} \ {"absent"})
        /\ Advance(c, [op |-> "set_param", opt |-> o, stage |-> 1,
                       step |-> "delete", params |-> [cb |-> cb, tune |-> tune]])
  BY DEF SetParamCall
<1> DEFINE r == [op |-> "set_param", opt |-> o, stage |-> 1,
                 step |-> "delete", params |-> [cb |-> cb, tune |-> tune]]
<1>2. r \in Calls
  BY DEF Calls, Params, CbVals
<1>3. call' \in [Clients -> Calls] /\ call'[c] = r /\ OnlyCall(c)'
  BY <1>1, <1>2, Moved DEF InvBut
<1>4. UNCHANGED <<options_, module, running, initing, fault, forgotten, swept>>
  BY DEF SetParamCall, history
<1>5. TypeOK'
  BY <1>a, <1>1, <1>3, <1>4 DEF TypeOK
<1>6. \A u \in Opts : \A p \in options_[u] : p.cb \in Ptrs => p.cb \notin forgotten /\ p.cb \in heap
  BY DEF InvBut, AliveBut, Freed
<1>7. CallInv(call[c])'
  BY <1>a, <1>1, <1>3, <1>4, <1>6 DEF CallInv
<1>8. AliveBut(c)'
  BY <1>1, <1>3, <1>4, <1>6 DEF AliveBut, Freed
<1>9. OwnedBut(c)'
  BY <1>1, <1>3, <1>4 DEF InvBut, OwnedBut
<1> QED
  BY <1>3, <1>4, <1>5, <1>7, <1>8, <1>9 DEF InvBut, Distinct

\* A step inside a call of set_param() or clear_param() keeps its option and parameters.
LEMMA Stepped == ASSUME NEW c \in Clients, InvBut(c), NEW step, Step(c, step),
                        step \in {"delete", "apply", "enable", "module", "start"}
                 PROVE  /\ call' \in [Clients -> Calls]
                        /\ OnlyCall(c)'
                        /\ call'[c] = [call[c] EXCEPT !.step = step]
                        /\ call'[c].op = call[c].op /\ call'[c].opt = call[c].opt
                        /\ call'[c].stage = call[c].stage /\ call'[c].params = call[c].params
                        /\ call'[c].step = step
<1>1. call[c] \in Calls /\ TypeOK
  BY DEF InvBut, TypeOK
<1>2. [call[c] EXCEPT !.step = step] \in Calls
  BY <1>1 DEF Calls
<1>3. call' \in [Clients -> Calls] /\ call'[c] = [call[c] EXCEPT !.step = step] /\ OnlyCall(c)'
  BY <1>1, <1>2, Moved DEF Step, InvBut
<1> QED
  BY <1>1, <1>3 DEF Calls

\* What delete_callback() does to an option whose object is alive: no fault, the object
\* goes, and no other option's does.
LEMMA Deleted == ASSUME NEW c \in Clients, InvBut(c), NEW o \in Opts, Delete(o), ~Freed(call[c], o),
                        \A u \in Opts : ~Freed(call[c], u)
                 PROVE  /\ fault' = fault
                        /\ heap' \subseteq heap
                        /\ forgotten \subseteq heap'
                        /\ \A p \in options_[o] : p.cb \in Ptrs => p.cb \notin heap'
                        /\ \A u \in Opts \ {o} : \A p \in options_[u] :
                             p.cb \in Ptrs => p.cb \in heap'
                        /\ \A a \in heap \ heap' : \E p \in options_[o] : p.cb = a
<1>a. TypeOK /\ "absent" \notin Ptrs /\ heap \subseteq Ptrs /\ forgotten \subseteq heap
  BY VmSetAssumption DEF InvBut, TypeOK
<1>b. \A u \in Opts : \A p \in options_[u] : p.cb \in Ptrs => p.cb \notin forgotten /\ p.cb \in heap
  BY DEF InvBut, AliveBut
<1>1. CASE options_[o] = {}
  BY <1>1, <1>a, <1>b DEF Delete, Enabled
<1>2. CASE \E p \in Params : options_[o] = {p}
  <2>1. PICK p \in Params : options_[o] = {p}
    BY <1>2
  <2>2. heap' = heap \ {p.cb} /\ fault' = IF p.cb \in Ptrs \ heap THEN "double_free" ELSE fault
    BY <2>1, ParamOfIs DEF Delete
  <2>3. \A u \in Opts \ {o} : \A q \in options_[u] : q.cb \in Ptrs => q.cb # p.cb
    BY <2>1 DEF InvBut, Distinct
  <2> QED
    BY <2>1, <2>2, <2>3, <1>a, <1>b
<1> QED
  BY <1>1, <1>2, <1>a, Shape

LEMMA SetParamDeleteStep == ASSUME NEW c \in Clients, InvBut(c), SetParamDelete(c)
                            PROVE  InvBut(c)'
<1>a. /\ TypeOK /\ call[c] \in Calls /\ call[c].opt \in Opts
      /\ call[c].op = "set_param" /\ call[c].step = "delete"
  BY DEF InvBut, TypeOK, Calls, SetParamDelete, Ready
<1>1. UNCHANGED <<options_, module, running, initing, forgotten, swept>>
  BY DEF SetParamDelete, history
<1>2. /\ call' \in [Clients -> Calls] /\ OnlyCall(c)'
      /\ call'[c].op = "set_param" /\ call'[c].opt = call[c].opt
      /\ call'[c].params = call[c].params /\ call'[c].step = "apply"
  BY <1>a, Stepped DEF SetParamDelete
<1> DEFINE o == call[c].opt
<1>3. /\ fault' = fault /\ heap' \subseteq heap /\ forgotten \subseteq heap'
      /\ \A p \in options_[o] : p.cb \in Ptrs => p.cb \notin heap'
      /\ \A u \in Opts \ {o} : \A p \in options_[u] : p.cb \in Ptrs => p.cb \in heap'
      /\ \A a \in heap \ heap' : \E p \in options_[o] : p.cb = a
  <2>1. \A u \in Opts : ~Freed(call[c], u)
    BY <1>a DEF Freed
  <2> QED
    BY <1>a, <2>1, Deleted DEF SetParamDelete
<1>4. TypeOK'
  BY <1>a, <1>1, <1>2, <1>3 DEF TypeOK
<1>5. \A u : Freed(call[c], u)' <=> u = o
  BY <1>2 DEF Freed
<1>6. CallInv(call[c])'
  <2>1. /\ call[c].params.cb \in heap \cup {"absent"} /\ call[c].params.cb \notin forgotten
        /\ \A u \in Opts : \A p \in options_[u] : p.cb = call[c].params.cb => p.cb \notin Ptrs
    BY <1>a DEF InvBut, CallInv
  <2>2. call[c].params.cb \in heap' \cup {"absent"}
    BY <2>1, <1>a, <1>3 DEF TypeOK
  <2> QED
    BY <2>1, <2>2, <1>1, <1>2 DEF CallInv
<1>7. AliveBut(c)'
  <2>1. \A u \in Opts : \A p \in options_[u] : p.cb \in Ptrs => p.cb \notin forgotten
    BY DEF InvBut, AliveBut
  <2> QED
    BY <2>1, <1>a, <1>1, <1>3, <1>5 DEF AliveBut
<1>8. OwnedBut(c)'
  BY <1>a, <1>1, <1>2, <1>3 DEF InvBut, OwnedBut
<1> QED
  BY <1>1, <1>2, <1>3, <1>4, <1>6, <1>7, <1>8 DEF InvBut, Distinct

\* What set_param_by_option() does with parameters whose object is alive or absent, or null.
LEMMA Applied == ASSUME TypeOK, NEW o \in Opts, NEW p \in Params, Apply(o, p),
                        fault \in {"none", "null_deref"}, p.cb \in Ptrs => p.cb \in heap
                 PROVE  /\ fault' \in {"none", "null_deref"}
                        /\ module' \in [Opts -> [cb : CbVals \cup {"none"}, tune : {"default", "custom"}]]
                        /\ swept' \subseteq Opts
<1>1. fault' \in {"none", "null_deref"} /\ swept' \subseteq Opts
  BY DEF Apply, TypeOK
<1>2. p.cb \in CbVals /\ p.tune \in {"absent", "default", "custom"}
  BY DEF Params
<1>3. module[o].cb \in CbVals \cup {"none"} /\ module[o].tune \in {"default", "custom"}
  BY DEF TypeOK
<1> DEFINE r == [cb |-> IF p.cb = "absent" THEN module[o].cb ELSE p.cb,
                 tune |-> IF p.tune = "absent" THEN module[o].tune ELSE p.tune]
<1>4. r \in [cb : CbVals \cup {"none"}, tune : {"default", "custom"}]
  BY <1>2, <1>3
<1>5. module' = [module EXCEPT ![o] = r]
  BY DEF Apply
<1> HIDE DEF r
<1> QED
  BY <1>1, <1>4, <1>5 DEF TypeOK

LEMMA SetParamApplyStep == ASSUME NEW c \in Clients, InvBut(c), SetParamApply(c)
                           PROVE  InvBut(c)'
<1>a. /\ TypeOK /\ call[c] \in Calls /\ call[c].opt \in Opts /\ call[c].params \in Params
      /\ call[c].op = "set_param" /\ call[c].step = "apply"
  BY DEF InvBut, TypeOK, Calls, SetParamApply, Ready
<1>1. UNCHANGED <<options_, heap, running, initing, forgotten>>
  BY DEF SetParamApply
<1>2. /\ call' \in [Clients -> Calls] /\ OnlyCall(c)'
      /\ call'[c].op = "set_param" /\ call'[c].opt = call[c].opt
      /\ call'[c].params = call[c].params /\ call'[c].step = "enable"
  BY <1>a, Stepped DEF SetParamApply
<1>3. call[c].params.cb \in heap \cup {"absent"}
  BY <1>a DEF InvBut, CallInv
<1>4. /\ fault' \in {"none", "null_deref"} /\ swept' \subseteq Opts
      /\ module' \in [Opts -> [cb : CbVals \cup {"none"}, tune : {"default", "custom"}]]
  <2>1. call[c].params.cb \in Ptrs => call[c].params.cb \in heap
    BY <1>3, VmSetAssumption
  <2> QED
    BY <1>a, <2>1, Applied DEF SetParamApply, InvBut
<1>5. TypeOK'
  BY <1>a, <1>1, <1>2, <1>4 DEF TypeOK
<1>6. \A u : Freed(call[c], u)' <=> Freed(call[c], u)
  BY <1>a, <1>2 DEF Freed
<1>7. CallInv(call[c])'
  BY <1>a, <1>1, <1>2 DEF InvBut, CallInv
<1>8. AliveBut(c)'
  BY <1>1, <1>6 DEF InvBut, AliveBut
<1>9. OwnedBut(c)'
  BY <1>a, <1>1, <1>2 DEF InvBut, OwnedBut
<1> QED
  BY <1>1, <1>2, <1>4, <1>5, <1>7, <1>8, <1>9 DEF InvBut, Distinct

\* Registering p for o.
LEMMA Enabling == ASSUME TypeOK, NEW o \in Opts, NEW p \in Params, Enable(o, p)
                  PROVE  /\ options_' \in [Opts -> {{}} \cup {{q} : q \in Params}]
                         /\ options_'[o] = {p}
                         /\ \A u \in Opts \ {o} : options_'[u] = options_[u]
  BY DEF TypeOK, Enable

LEMMA IdleIs == Idle \in Calls /\ Idle.op = "idle"
  BY OptsAre DEF Idle, Calls, DefaultParams, Params, CbVals

LEMMA SetParamEnableStep == ASSUME NEW c \in Clients, InvBut(c), SetParamEnable(c)
                            PROVE  InvBut(c)'
<1>a. /\ TypeOK /\ call[c] \in Calls /\ call[c].opt \in Opts /\ call[c].params \in Params
      /\ call[c].op = "set_param" /\ call[c].step = "enable"
  BY DEF InvBut, TypeOK, Calls, SetParamEnable, Ready
<1>1. UNCHANGED <<heap, module, running, initing, fault, forgotten, swept>>
  BY DEF SetParamEnable, history
<1>2. call' \in [Clients -> Calls] /\ OnlyCall(c)' /\ call'[c].op = "idle"
  BY <1>a, IdleIs, Moved DEF SetParamEnable, InvBut
<1> DEFINE o == call[c].opt
           n == call[c].params
<1>3. /\ options_' \in [Opts -> {{}} \cup {{q} : q \in Params}]
      /\ options_'[o] = {n} /\ \A u \in Opts \ {o} : options_'[u] = options_[u]
  BY <1>a, Enabling DEF SetParamEnable
<1>4. /\ n.cb \in heap \cup {"absent"} /\ n.cb \notin forgotten
      /\ \A u \in Opts : \A p \in options_[u] : p.cb = n.cb => p.cb \notin Ptrs
  BY <1>a DEF InvBut, CallInv
<1>5. TypeOK'
  BY <1>a, <1>1, <1>2, <1>3 DEF TypeOK
<1>6. \A u : (Freed(call[c], u) <=> u = o) /\ ~Freed(call[c], u)'
  BY <1>a, <1>2 DEF Freed
<1>7. Distinct'
  <2>1. \A u, v \in Opts : \A p \in options_[u], q \in options_[v] :
          p.cb = q.cb /\ p.cb \in Ptrs => u = v
    BY DEF InvBut, Distinct
  <2> QED
    BY <2>1, <1>3, <1>4 DEF Distinct
<1>8. AliveBut(c)'
  <2>1. \A u \in Opts \ {o} : \A p \in options_[u] :
          p.cb \in Ptrs => p.cb \notin forgotten /\ p.cb \in heap
    BY <1>6 DEF InvBut, AliveBut
  <2>2. n.cb \in Ptrs => n.cb \in heap
    BY <1>4, VmSetAssumption
  <2> QED
    BY <2>1, <2>2, <1>1, <1>3, <1>4, <1>6 DEF AliveBut
<1>9. OwnedBut(c)'
  <2> SUFFICES ASSUME NEW a \in heap \ forgotten
               PROVE  \E u \in Opts : \E p \in options_'[u] : p.cb = a
    BY <1>1 DEF OwnedBut
  <2>1. CASE a = n.cb
    BY <2>1, <1>a, <1>3
  <2>2. CASE a # n.cb
    <3>1. PICK u \in Opts : \E p \in options_[u] : p.cb = a
      BY <2>2, <1>a DEF InvBut, OwnedBut
    <3>2. u # o
      BY <3>1, <1>a, <1>6 DEF InvBut, AliveBut, TypeOK
    <3> QED
      BY <3>1, <3>2, <1>3
  <2> QED
    BY <2>1, <2>2
<1> QED
  BY <1>1, <1>2, <1>5, <1>7, <1>8, <1>9 DEF InvBut, CallInv
-------------------------------------------------------------------------------
\* clear_param(): the object is freed, and the options from it on get default parameters.

LEMMA DefaultIs == DefaultParams \in Params /\ DefaultParams.cb \notin Ptrs
  BY VmSetAssumption DEF DefaultParams, Params, CbVals

LEMMA ClearParamCallStep == ASSUME NEW c \in Clients, InvBut(c), call[c].op = "idle", ClearParamCall(c)
                            PROVE  InvBut(c)'
<1>1. PICK o \in Clearable : Advance(c, [Idle EXCEPT !.op = "clear_param", !.opt = o,
                                                    !.stage = StageOf(o), !.step = "delete"])
  BY DEF ClearParamCall
<1> DEFINE r == [Idle EXCEPT !.op = "clear_param", !.opt = o, !.stage = StageOf(o), !.step = "delete"]
<1>2. o \in Opts /\ StageOf(o) \in 1..3
  BY VmSetAssumption, StageIs
<1>3. r \in Calls /\ r.op = "clear_param" /\ r.opt = o /\ r.stage = StageOf(o) /\ r.step = "delete"
  BY <1>2, DefaultIs DEF Idle, Calls
<1>4. call' \in [Clients -> Calls] /\ call'[c] = r /\ OnlyCall(c)'
  BY <1>1, <1>3, Moved DEF InvBut
<1> HIDE DEF r
<1>5. UNCHANGED <<options_, heap, module, running, initing, fault, forgotten, swept>>
  BY DEF ClearParamCall, history
<1>6. CallInv(call[c])'
  BY <1>2, <1>3, <1>4 DEF CallInv
<1>7. \A u : ~Freed(call[c], u) /\ ~Freed(call[c], u)'
  BY <1>3, <1>4 DEF Freed
<1> QED
  BY <1>3, <1>4, <1>5, <1>6, <1>7 DEF InvBut, TypeOK, Distinct, AliveBut, OwnedBut

LEMMA ClearParamDeleteStep == ASSUME NEW c \in Clients, InvBut(c), ClearParamDelete(c)
                              PROVE  InvBut(c)'
<1>a. /\ TypeOK /\ call[c] \in Calls /\ call[c].opt \in Opts
      /\ call[c].op = "clear_param" /\ call[c].step = "delete"
  BY DEF InvBut, TypeOK, Calls, ClearParamDelete, Ready
<1>1. UNCHANGED <<options_, module, running, initing, forgotten, swept>>
  BY DEF ClearParamDelete, history
<1> DEFINE o == call[c].opt
<1>2. \A u \in Opts : ~Freed(call[c], u)
  BY <1>a DEF Freed
<1>3. /\ StageOf(o) \leq call[c].stage
      /\ StageOf(o) < call[c].stage => options_[o] \subseteq {DefaultParams}
  BY <1>a DEF InvBut, CallInv
<1>4. CASE Enabled(o)
  <2>1. /\ call' \in [Clients -> Calls] /\ OnlyCall(c)'
        /\ call'[c].op = "clear_param" /\ call'[c].opt = o
        /\ call'[c].stage = call[c].stage /\ call'[c].step = "enable"
    BY <1>4, <1>a, Stepped DEF ClearParamDelete
  <2>2. /\ fault' = fault /\ heap' \subseteq heap /\ forgotten \subseteq heap'
        /\ \A p \in options_[o] : p.cb \in Ptrs => p.cb \notin heap'
        /\ \A u \in Opts \ {o} : \A p \in options_[u] : p.cb \in Ptrs => p.cb \in heap'
        /\ \A a \in heap \ heap' : \E p \in options_[o] : p.cb = a
    BY <1>4, <1>a, <1>2, Deleted DEF ClearParamDelete
  <2>3. TypeOK'
    BY <1>a, <1>1, <2>1, <2>2 DEF TypeOK
  <2>4. CallInv(call[c])'
    BY <1>1, <1>3, <2>1 DEF CallInv
  <2>5. \A u : Freed(call[c], u)' <=> u = o
    BY <2>1 DEF Freed
  <2>6. AliveBut(c)'
    <3>1. \A u \in Opts : \A p \in options_[u] : p.cb \in Ptrs => p.cb \notin forgotten
      BY DEF InvBut, AliveBut
    <3> QED
      BY <3>1, <1>1, <2>2, <2>5 DEF AliveBut
  <2>7. OwnedBut(c)'
    BY <1>a, <1>1, <2>1, <2>2 DEF InvBut, OwnedBut
  <2> QED
    BY <1>1, <2>1, <2>2, <2>3, <2>4, <2>6, <2>7 DEF InvBut, Distinct
<1>5. CASE ~Enabled(o)
  <2>1. /\ call' \in [Clients -> Calls] /\ OnlyCall(c)'
        /\ call'[c].op = "clear_param" /\ call'[c].opt = o
        /\ call'[c].stage = call[c].stage /\ call'[c].step = "module"
    BY <1>5, <1>a, Stepped DEF ClearParamDelete
  <2>2. UNCHANGED <<heap, fault>> /\ options_[o] = {}
    BY <1>5 DEF ClearParamDelete, Enabled
  <2>3. CallInv(call[c])'
    BY <1>1, <1>3, <2>1, <2>2 DEF CallInv
  <2>4. \A u \in Opts : ~Freed(call[c], u)'
    BY <2>1 DEF Freed
  <2> QED
    BY <1>a, <1>1, <1>2, <2>1, <2>2, <2>3, <2>4 DEF InvBut, TypeOK, Distinct, AliveBut, OwnedBut
<1> QED
  BY <1>4, <1>5

LEMMA ClearParamEnableStep == ASSUME NEW c \in Clients, InvBut(c), ClearParamEnable(c)
                              PROVE  InvBut(c)'
<1> DEFINE o == call[c].opt
           n == Options[call[c].stage]
<1>a. /\ TypeOK /\ call[c] \in Calls /\ o \in Opts /\ call[c].stage \in 1..3
      /\ call[c].op = "clear_param" /\ call[c].step = "enable"
  BY DEF InvBut, TypeOK, Calls, ClearParamEnable, Ready
<1>b. n \in Opts /\ (n = o <=> StageOf(o) = call[c].stage)
  BY <1>a, OptsAre, NextOption
<1>1. /\ UNCHANGED <<heap, module, running, initing, fault, swept>>
      /\ forgotten' = forgotten \cup ({p.cb : p \in options_[n]} \cap heap)
  BY DEF ClearParamEnable
<1>2. /\ call' \in [Clients -> Calls] /\ OnlyCall(c)'
      /\ call'[c].op = "clear_param" /\ call'[c].opt = o
      /\ call'[c].stage = call[c].stage /\ call'[c].step = "module"
  BY <1>a, Stepped DEF ClearParamEnable
<1>3. /\ options_' \in [Opts -> {{}} \cup {{q} : q \in Params}]
      /\ options_'[n] = {DefaultParams} /\ \A u \in Opts \ {n} : options_'[u] = options_[u]
  BY <1>a, <1>b, Enabling, DefaultIs DEF ClearParamEnable
<1>4. TypeOK'
  BY <1>a, <1>1, <1>2, <1>3 DEF TypeOK
<1>5. /\ StageOf(o) \leq call[c].stage
      /\ n # o => options_[o] \subseteq {DefaultParams}
  <2>1. /\ StageOf(o) \leq call[c].stage
        /\ StageOf(o) < call[c].stage => options_[o] \subseteq {DefaultParams}
    BY <1>a DEF InvBut, CallInv
  <2> QED
    BY <2>1, <1>a, <1>b, StageIs
<1>6. CallInv(call[c])'
  <2>1. options_'[o] \subseteq {DefaultParams}
    BY <1>3, <1>5, <1>a
  <2> QED
    BY <2>1, <1>2, <1>5 DEF CallInv
<1>7. \A u : (Freed(call[c], u) <=> u = o) /\ ~Freed(call[c], u)'
  BY <1>a, <1>2 DEF Freed
<1>8. Distinct'
  <2>1. \A u, v \in Opts : \A p \in options_[u], q \in options_[v] :
          p.cb = q.cb /\ p.cb \in Ptrs => u = v
    BY DEF InvBut, Distinct
  <2> QED
    BY <2>1, <1>3, DefaultIs DEF Distinct
<1>9. AliveBut(c)'
  <2> SUFFICES ASSUME NEW u \in Opts, NEW p \in options_'[u], p.cb \in Ptrs
               PROVE  p.cb \notin forgotten' /\ p.cb \in heap
    BY <1>1, <1>7 DEF AliveBut
  <2>1. u # n /\ p \in options_[u]
    BY <1>3, DefaultIs
  <2>2. u # o
    BY <2>1, <1>5, DefaultIs
  <2>3. p.cb \notin forgotten /\ p.cb \in heap
    BY <2>1, <2>2, <1>7 DEF InvBut, AliveBut
  <2>4. \A q \in options_[n] : q.cb # p.cb
    BY <2>1, <1>b DEF InvBut, Distinct
  <2> QED
    BY <2>3, <2>4, <1>1
<1>10. OwnedBut(c)'
  <2> SUFFICES ASSUME NEW a \in heap \ forgotten'
               PROVE  \E u \in Opts : \E p \in options_'[u] : p.cb = a
    BY <1>1 DEF OwnedBut
  <2>1. PICK u \in Opts : \E p \in options_[u] : p.cb = a
    BY <1>1, <1>a DEF InvBut, OwnedBut
  <2> QED
    BY <2>1, <1>1, <1>3
<1> QED
  BY <1>1, <1>2, <1>4, <1>6, <1>8, <1>9, <1>10 DEF InvBut

\* Steps that change modules and flags only, outside any freeing.
LEMMA Elsewhere == ASSUME NEW c \in Clients, InvBut(c), TypeOK', OnlyCall(c)',
                          fault' \in {"none", "null_deref"}, CallInv(call[c])',
                          call[c].op # "set_param", call'[c].op # "set_param",
                          \A u \in Opts : ~Freed(call[c], u) /\ ~Freed(call[c], u)',
                          UNCHANGED <<options_, heap, forgotten>>
                   PROVE  InvBut(c)'
  BY DEF InvBut, Distinct, AliveBut, OwnedBut

LEMMA ClearParamModuleStep == ASSUME NEW c \in Clients, InvBut(c), ClearParamModule(c)
                              PROVE  InvBut(c)'
<1> DEFINE k == call[c]
           o == Options[k.stage]
           r == IF k.stage = 3 THEN Idle ELSE [k EXCEPT !.stage = @ + 1, !.step = "delete"]
<1>a. /\ TypeOK /\ k \in Calls /\ k.opt \in Opts /\ k.stage \in 1..3
      /\ k.op = "clear_param" /\ k.step = "module"
  BY DEF InvBut, TypeOK, Calls, ClearParamModule, Ready
<1>1. /\ UNCHANGED <<options_, heap, running, initing, fault, forgotten>>
      /\ module' = [module EXCEPT ![o] = [cb |-> "none", tune |-> "default"]]
      /\ swept' \subseteq swept \cup {o}
      /\ Advance(c, r)
  BY DEF ClearParamModule
<1>2. CASE k.stage = 3
  <2>1. call' \in [Clients -> Calls] /\ OnlyCall(c)' /\ call'[c].op = "idle"
    BY <1>1, <1>2, <1>a, IdleIs, Moved DEF InvBut
  <2>2. TypeOK'
    <3>1. module' \in [Opts -> [cb : CbVals \cup {"none"}, tune : {"default", "custom"}]]
      BY <1>1, <1>a DEF TypeOK
    <3>2. o \in Opts
      BY <1>a, OptsAre
    <3> QED
      BY <2>1, <3>1, <3>2, <1>1, <1>a DEF TypeOK
  <2>3. CallInv(call[c])' /\ \A u \in Opts : ~Freed(call[c], u) /\ ~Freed(call[c], u)'
    BY <2>1, <1>a DEF CallInv, Freed
  <2> QED
    BY <2>1, <2>2, <2>3, <1>1, <1>a, Elsewhere DEF InvBut
<1>3. CASE k.stage # 3
  <2>1. /\ r \in Calls /\ r.op = "clear_param" /\ r.opt = k.opt
        /\ r.stage = k.stage + 1 /\ r.step = "delete"
    <3>1. r = [k EXCEPT !.stage = @ + 1, !.step = "delete"] /\ k.stage + 1 \in 1..3
      BY <1>3, <1>a
    <3> QED
      BY <3>1, <1>a DEF Calls
  <2>2. call' \in [Clients -> Calls] /\ OnlyCall(c)' /\ call'[c] = r
    BY <2>1, <1>1, <1>a, Moved DEF InvBut
  <2>3. StageOf(k.opt) \leq k.stage /\ options_[k.opt] \subseteq {DefaultParams}
    BY <1>a DEF InvBut, CallInv
  <2>4. CallInv(call[c])'
    BY <2>1, <2>2, <2>3, <1>1, <1>a, StageIs DEF CallInv
  <2>5. TypeOK'
    BY <2>2, <1>1, <1>a, OptsAre DEF TypeOK
  <2>6. \A u \in Opts : ~Freed(call[c], u) /\ ~Freed(call[c], u)'
    BY <2>1, <2>2, <1>a DEF Freed
  <2>7. fault' \in {"none", "null_deref"} /\ k.op # "set_param" /\ call'[c].op # "set_param"
    BY <1>1, <1>a, <2>1, <2>2 DEF InvBut
  <2> QED
    BY <2>2, <2>4, <2>5, <2>6, <2>7, <1>1, Elsewhere
<1> QED
  BY <1>2, <1>3

-------------------------------------------------------------------------------
\* init_vms()

LEMMA InitVmsCallStep == ASSUME NEW c \in Clients, InvBut(c), call[c].op = "idle", InitVmsCall(c)
                         PROVE  InvBut(c)'
<1> DEFINE r == [Idle EXCEPT !.op = "init_vms", !.step = "apply"]
<1>1. UNCHANGED <<options_, heap, module, running, fault, forgotten, swept>> /\ initing' = {c}
      /\ Advance(c, r)
  BY DEF InitVmsCall, history
<1>2. r \in Calls /\ r.op = "init_vms"
  BY IdleIs DEF Idle, Calls
<1>3. call' \in [Clients -> Calls] /\ OnlyCall(c)' /\ call'[c] = r
  BY <1>1, <1>2, Moved DEF InvBut
<1> QED
  BY <1>1, <1>2, <1>3, Elsewhere DEF InvBut, TypeOK, CallInv, Freed

LEMMA InitVmsApplyStep == ASSUME NEW c \in Clients, InvBut(c), InitVmsApply(c)
                          PROVE  InvBut(c)'
<1> DEFINE o == Options[call[c].stage]
<1>a. TypeOK /\ call[c] \in Calls /\ o \in Opts /\ call[c].op = "init_vms"
  BY OptsAre DEF InvBut, TypeOK, Calls, InitVmsApply, Ready
<1>1. UNCHANGED <<options_, heap, running, initing, forgotten>>
  BY DEF InitVmsApply
<1>2. call' \in [Clients -> Calls] /\ OnlyCall(c)' /\ call'[c].op = "init_vms"
  BY <1>a, Stepped DEF InitVmsApply
<1>3. /\ fault' \in {"none", "null_deref"} /\ swept' \subseteq Opts
      /\ module' \in [Opts -> [cb : CbVals \cup {"none"}, tune : {"default", "custom"}]]
  <2>1. CASE options_[o] = {}
    BY <2>1, <1>a DEF InitVmsApply, Enabled, InvBut, TypeOK
  <2>2. CASE \E p \in Params : options_[o] = {p}
    <3>1. PICK p \in Params : options_[o] = {p}
      BY <2>2
    <3>2. Apply(o, p)
      BY <3>1, <1>a, ParamOfIs DEF InitVmsApply
    <3>3. p.cb \in Ptrs => p.cb \in heap
      BY <3>1, <1>a DEF InvBut, AliveBut, Freed
    <3> QED
      BY <3>2, <3>3, <1>a, Applied DEF InvBut
  <2> QED
    BY <2>1, <2>2, <1>a, Shape
<1>4. TypeOK'
  BY <1>a, <1>1, <1>2, <1>3 DEF TypeOK
<1> QED
  BY <1>a, <1>1, <1>2, <1>3, <1>4, Elsewhere DEF CallInv, Freed

LEMMA InitVmsStartStep == ASSUME NEW c \in Clients, InvBut(c), InitVmsStart(c)
                          PROVE  InvBut(c)'
<1> DEFINE k == call[c]
           o == Options[k.stage]
           r == IF k.stage = 3 THEN Idle ELSE [k EXCEPT !.stage = @ + 1, !.step = "apply"]
<1>a. TypeOK /\ k \in Calls /\ k.stage \in 1..3 /\ o \in Opts /\ k.op = "init_vms"
  BY OptsAre DEF InvBut, TypeOK, Calls, InitVmsStart, Ready
<1>1. /\ UNCHANGED <<options_, heap, module, fault, forgotten, swept>>
      /\ running' \subseteq running \cup {o} /\ initing' \subseteq initing
      /\ Advance(c, r)
  <2>1. CASE k.stage = 3
    BY <2>1 DEF InitVmsStart, history
  <2>2. CASE k.stage # 3
    BY <2>2 DEF InitVmsStart, history
  <2> QED
    BY <2>1, <2>2
<1>2. r \in Calls /\ r.op \in {"idle", "init_vms"}
  <2>1. CASE k.stage = 3
    BY <2>1, IdleIs
  <2>2. CASE k.stage # 3
    <3>1. k.stage + 1 \in 1..3
      BY <2>2, <1>a
    <3>2. [k EXCEPT !.stage = @ + 1, !.step = "apply"] \in Calls
      BY <3>1, <1>a DEF Calls
    <3>3. r = [k EXCEPT !.stage = @ + 1, !.step = "apply"]
      BY <2>2
    <3>4. r.op = k.op
      BY <3>3, <1>a DEF Calls
    <3> QED
      BY <3>2, <3>3, <3>4, <1>a
  <2> QED
    BY <2>1, <2>2
<1> HIDE DEF r
<1>3. call' \in [Clients -> Calls] /\ OnlyCall(c)' /\ call'[c].op \in {"idle", "init_vms"}
  <2>1. call' \in [Clients -> Calls] /\ OnlyCall(c)' /\ call'[c] = r
    BY <1>1, <1>2, <1>a, Moved DEF InvBut
  <2> QED
    BY <2>1, <1>2
<1>4. TypeOK'
  BY <1>a, <1>1, <1>3 DEF TypeOK
<1>5. CallInv(call[c])' /\ \A u \in Opts : ~Freed(call[c], u) /\ ~Freed(call[c], u)'
  BY <1>a, <1>3 DEF CallInv, Freed
<1> QED
  BY <1>a, <1>1, <1>3, <1>4, <1>5, Elsewhere DEF InvBut
-------------------------------------------------------------------------------
LEMMA NextSetInv == ASSUME SetInv, Serialised = TRUE, [Next]_vars
                    PROVE  SetInv'
<1>1. CASE UNCHANGED vars
  <2>1. UNCHANGED <<options_, heap, module, running, initing, call, fault, forgotten, swept>>
    BY <1>1 DEF vars, history
  <2>2. TypeOK' /\ OneCall' /\ \A c \in Clients : CallInv(call[c])'
    BY <2>1 DEF SetInv, TypeOK, OneCall, CallInv
  <2>3. Distinct' /\ Alive' /\ Owned'
    BY <2>1 DEF SetInv, Distinct, Alive, Owned, Freed
  <2> QED
    BY <2>1, <2>2, <2>3 DEF SetInv
<1>2. CASE Next
  <2>1. PICK c \in Clients :
          \/ SetParamCall(c) \/ SetParamDelete(c) \/ SetParamApply(c) \/ SetParamEnable(c)
          \/ ClearParamCall(c) \/ ClearParamDelete(c) \/ ClearParamEnable(c) \/ ClearParamModule(c)
          \/ InitVmsCall(c) \/ InitVmsApply(c) \/ InitVmsStart(c)
    BY <1>2 DEF Next
  <2>2. CASE SetParamCall(c) \/ ClearParamCall(c) \/ InitVmsCall(c)
    <3>1. call[c].op = "idle" /\ OnlyCall(c)
      BY <2>2 DEF SetParamCall, ClearParamCall, InitVmsCall, MayCall, OnlyCall
    <3> QED
      BY <2>2, <3>1, Split, Join, SetParamCallStep, ClearParamCallStep, InitVmsCallStep
  <2>3. CASE SetParamDelete(c) \/ SetParamApply(c) \/ SetParamEnable(c)
    <3>1. call[c].op # "idle"
      BY <2>3 DEF SetParamDelete, SetParamApply, SetParamEnable, Ready
    <3> QED
      BY <2>3, <3>1, Others, Split, Join, SetParamDeleteStep, SetParamApplyStep, SetParamEnableStep
  <2>4. CASE ClearParamDelete(c) \/ ClearParamEnable(c) \/ ClearParamModule(c)
    <3>1. call[c].op # "idle"
      BY <2>4 DEF ClearParamDelete, ClearParamEnable, ClearParamModule, Ready
    <3> QED
      BY <2>4, <3>1, Others, Split, Join, ClearParamDeleteStep, ClearParamEnableStep,
         ClearParamModuleStep
  <2>5. CASE InitVmsApply(c) \/ InitVmsStart(c)
    <3>1. call[c].op # "idle"
      BY <2>5 DEF InitVmsApply, InitVmsStart, Ready
    <3> QED
      BY <2>5, <3>1, Others, Split, Join, InitVmsApplyStep, InitVmsStartStep
  <2> QED
    BY <2>1, <2>2, <2>3, <2>4, <2>5
<1> QED
  BY <1>1, <1>2

\* With one call at a time, every registered pointer is of a live object of its own, but for
\* the one that the call under way has just freed and is about to replace (vm.cpp:28-219).
THEOREM Invariance == ASSUME Serialised = TRUE PROVE Spec => []SetInv
<1>1. SetInv /\ [Next]_vars => SetInv'
  BY NextSetInv
<1> QED
  BY InitSetInv, <1>1, PTL DEF Spec

\* No callback object is freed twice or read after it was freed, by any number of clients
\* that call one at a time, whatever is registered, replaced or cleared (vm.cpp:28-219).
THEOREM PointersAlive == ASSUME Serialised = TRUE PROVE Spec => []NoDangling
<1>1. SetInv => NoDangling
  BY DEF SetInv, NoDangling
<1> QED
  BY Invariance, <1>1, PTL

\* Between calls the registry owns every callback object once, but for those that the
\* fall-through of clear_param() overwrites (vm.cpp:28-96).
THEOREM RegistryOwns == ASSUME Serialised = TRUE PROVE Spec => []NoLeak
<1>1. SetInv => NoLeak
  <2> SUFFICES ASSUME SetInv, Resting PROVE NoLeak
    BY DEF NoLeak
  <2>1. \A o \in Opts : \A p \in options_[o] : p.cb \in Ptrs => p.cb \notin forgotten /\ p.cb \in heap
    BY DEF SetInv, Alive, Resting, Freed
  <2>2. \A a \in heap \ forgotten : \E o \in Opts : \E p \in options_[o] : p.cb = a
    BY DEF SetInv, Owned, Resting
  <2>3. heap \subseteq Ptrs
    BY DEF SetInv, TypeOK
  <2>4. heap \ forgotten = {p.cb : p \in UNION {options_[o] : o \in Opts}} \cap Ptrs
    BY <2>1, <2>2, <2>3
  <2> QED
    BY <2>4 DEF NoLeak, SetInv, Distinct
<1> QED
  BY Invariance, <1>1, PTL

-------------------------------------------------------------------------------
\* What the invariant of the modules says while every client but c is idle.
ModBut(c) == /\ CallModInv(call[c])
             /\ \A o \in running \ swept : Agrees(o) \/ Between(call[c], o)

LEMMA ModSplit == ASSUME ModInv, fault = "none", NEW c \in Clients, OnlyCall(c)
                  PROVE  ModBut(c)
<1>1. \A o : \A d \in Clients : Between(call[d], o) => d = c
  BY DEF OnlyCall, Between
<1> QED
  BY <1>1 DEF ModInv, ModBut

LEMMA ModJoin == ASSUME NEW c \in Clients, OnlyCall(c)', ModBut(c)'
                 PROVE  ModInv'
<1>1. \A d \in Clients \ {c} : CallModInv(call[d])'
  BY DEF OnlyCall, CallModInv
<1> QED
  BY <1>1 DEF ModBut, ModInv

\* A step that leaves the registry and the modules alone, and c where it holds nothing.
LEMMA ModElsewhere == ASSUME NEW c \in Clients, ModBut(c), CallModInv(call[c])',
                             running' \subseteq running, UNCHANGED <<options_, module, swept>>,
                             \A o \in Opts : ~Between(call[c], o), TypeOK
                      PROVE  ModBut(c)'
<1>1. \A o \in running \ swept : Agrees(o)
  BY DEF ModBut, TypeOK
<1> QED
  BY <1>1 DEF ModBut, Agrees

LEMMA SetParamModStep == ASSUME NEW c \in Clients, InvBut(c), ModBut(c), fault' = "none",
                                SetParamDelete(c) \/ SetParamApply(c) \/ SetParamEnable(c)
                         PROVE  ModBut(c)'
<1>a. /\ TypeOK /\ call[c] \in Calls /\ call[c].opt \in Opts /\ call[c].op = "set_param"
      /\ call[c].params \in Params
  BY DEF InvBut, TypeOK, Calls, SetParamDelete, SetParamApply, SetParamEnable, Ready
<1>b. PICK o \in Opts, p \in Params : o = call[c].opt /\ p = call[c].params
  BY <1>a
<1>1. CASE SetParamDelete(c)
  <2>1. call[c].step = "delete" /\ UNCHANGED <<options_, module, running, swept>>
    BY <1>1 DEF SetParamDelete, Ready, history
  <2>2. call'[c].op = "set_param" /\ call'[c].step = "apply"
    BY <1>1, <1>a, Stepped DEF SetParamDelete
  <2> QED
    BY <1>a, <2>1, <2>2, ModElsewhere DEF CallModInv, Between
<1>2. CASE SetParamApply(c)
  <2>1. /\ call[c].step = "apply" /\ Apply(o, p) /\ UNCHANGED <<options_, running>>
    BY <1>2, <1>b DEF SetParamApply, Ready
  <2>2. /\ call'[c].op = "set_param" /\ call'[c].step = "enable"
        /\ call'[c].opt = o /\ call'[c].params = p
    BY <1>2, <1>a, <1>b, Stepped DEF SetParamApply
  <2>3. /\ \A u \in Opts \ {o} : module'[u] = module[u]
        /\ p.cb # "absent" => module'[o].cb = p.cb
        /\ p.tune # "absent" => module'[o].tune = p.tune
        /\ swept' = swept \ {o}
    BY <2>1, <1>a DEF Apply, TypeOK
  <2>4. CallModInv(call[c])'
    BY <2>2, <2>3 DEF CallModInv
  <2>5. \A u \in Opts \ {o} : Agrees(u) => Agrees(u)'
    BY <2>1, <2>3 DEF Agrees
  <2>6. Between(call[c], o)' /\ \A u \in Opts : ~Between(call[c], u)
    BY <1>a, <1>b, <2>1, <2>2 DEF Between
  <2> QED
    BY <1>a, <2>1, <2>3, <2>4, <2>5, <2>6 DEF ModBut, TypeOK
<1>3. CASE SetParamEnable(c)
  <2>1. /\ call[c].step = "enable" /\ Enable(o, p) /\ UNCHANGED <<module, running, swept>>
        /\ Advance(c, Idle)
    BY <1>3, <1>b DEF SetParamEnable, Ready, history
  <2>2. call'[c].op = "idle"
    BY <2>1, IdleIs, Moved DEF InvBut
  <2>3. \A u \in Opts : options_'[u] = IF u = o THEN {p} ELSE options_[u]
    BY <2>1, <1>a DEF Enable, TypeOK
  <2>4. /\ p.cb # "absent" => module[o].cb = p.cb
        /\ p.tune # "absent" => module[o].tune = p.tune
    BY <1>a, <1>b, <2>1 DEF ModBut, CallModInv
  <2>5. Agrees(o)'
    BY <1>a, <2>1, <2>3, <2>4, VmSetAssumption DEF Agrees
  <2>6. \A u \in Opts \ {o} : (Agrees(u) => Agrees(u)') /\ ~Between(call[c], u)
    BY <1>a, <1>b, <2>1, <2>3 DEF Agrees, Between
  <2>7. CallModInv(call[c])'
    BY <2>2 DEF CallModInv
  <2> QED
    BY <1>a, <2>1, <2>5, <2>6, <2>7 DEF ModBut, TypeOK
<1> QED
  BY <1>1, <1>2, <1>3

LEMMA ClearParamModStep == ASSUME NEW c \in Clients, InvBut(c), ModBut(c), fault' = "none",
                                  \/ ClearParamDelete(c) \/ ClearParamEnable(c)
                                  \/ ClearParamModule(c)
                           PROVE  ModBut(c)'
<1>a. /\ TypeOK /\ call[c] \in Calls /\ call[c].opt \in Opts /\ call[c].op = "clear_param"
      /\ call[c].stage \in 1..3
  BY DEF InvBut, TypeOK, Calls, ClearParamDelete, ClearParamEnable, ClearParamModule, Ready
<1>b. PICK o \in Opts, n \in Opts : o = call[c].opt /\ n = Options[call[c].stage]
  BY <1>a, OptsAre
<1>1. CASE ClearParamDelete(c)
  <2>1. call[c].step = "delete" /\ UNCHANGED <<options_, module, running, swept>>
    BY <1>1 DEF ClearParamDelete, Ready, history
  <2>2. CASE Enabled(o)
    <3>1. call'[c].op = "clear_param" /\ call'[c].step = "enable" /\ call'[c].opt = o
      BY <1>1, <1>a, <1>b, <2>2, Stepped DEF ClearParamDelete
    <3>2. CallModInv(call[c])'
      BY <3>1, <2>1, <2>2 DEF CallModInv, Enabled
    <3> QED
      BY <1>a, <2>1, <3>2, ModElsewhere DEF Between
  <2>3. CASE ~Enabled(o)
    <3>1. call'[c].op = "clear_param" /\ call'[c].step = "module" /\ call'[c].opt = o
      BY <1>1, <1>a, <1>b, <2>3, Stepped DEF ClearParamDelete
    <3>2. CallModInv(call[c])'
      BY <3>1, <2>1, <2>3 DEF CallModInv, Enabled
    <3> QED
      BY <1>a, <2>1, <3>2, ModElsewhere DEF Between
  <2> QED
    BY <2>2, <2>3
<1>2. CASE ClearParamEnable(c)
  <2>1. call[c].step = "enable" /\ Enable(n, DefaultParams) /\ UNCHANGED <<module, running, swept>>
    BY <1>2, <1>b DEF ClearParamEnable, Ready
  <2>2. /\ call'[c].op = "clear_param" /\ call'[c].step = "module" /\ call'[c].opt = o
        /\ call'[c].stage = call[c].stage
    BY <1>2, <1>a, <1>b, Stepped DEF ClearParamEnable
  <2>3. \A u \in Opts : options_'[u] = IF u = n THEN {DefaultParams} ELSE options_[u]
    BY <2>1, <1>b, <1>a DEF Enable, TypeOK
  <2>4. Enabled(o)'
    BY <1>a, <1>b, <2>1, <2>3 DEF ModBut, CallModInv, Enabled
  <2>5. CallModInv(call[c])' /\ Between(call[c], n)'
    BY <1>b, <2>2, <2>3, <2>4 DEF CallModInv, Between
  <2>6. \A u \in Opts \ {n} : (Agrees(u) => Agrees(u)')
    BY <2>1, <2>3 DEF Agrees
  <2>7. \A u \in Opts : ~Between(call[c], u)
    BY <1>a, <2>1 DEF Between
  <2> QED
    BY <1>a, <2>1, <2>5, <2>6, <2>7 DEF ModBut, TypeOK
<1>3. CASE ClearParamModule(c)
  <2> DEFINE r == IF call[c].stage = 3 THEN Idle
                  ELSE [call[c] EXCEPT !.stage = @ + 1, !.step = "delete"]
  <2>1. /\ call[c].step = "module" /\ UNCHANGED <<options_, running>>
        /\ module' = [module EXCEPT ![n] = [cb |-> "none", tune |-> "default"]]
        /\ swept' = IF n # o /\ ~Enabled(o) THEN swept \cup {n} ELSE swept
        /\ Advance(c, r)
    BY <1>3, <1>b DEF ClearParamModule, Ready
  <2>2. r \in Calls /\ (r.op = "idle" \/ (r.op = "clear_param" /\ r.step = "delete"))
    <3>1. CASE call[c].stage = 3
      BY <3>1, IdleIs
    <3>2. CASE call[c].stage # 3
      <4>1. r = [call[c] EXCEPT !.stage = @ + 1, !.step = "delete"] /\ call[c].stage + 1 \in 1..3
        BY <3>2, <1>a
      <4> QED
        BY <4>1, <1>a DEF Calls
    <3> QED
      BY <3>1, <3>2
  <2>3. call'[c] = r
    BY <2>1, <2>2, <1>a, Moved DEF InvBut
  <2>4. CallModInv(call[c])'
    BY <2>2, <2>3 DEF CallModInv
  <2>5. \A u \in Opts \ {n} : (Agrees(u) => Agrees(u)') /\ ~Between(call[c], u)
    BY <1>a, <1>b, <2>1 DEF Agrees, Between, TypeOK
  <2>6. n \notin swept' => Agrees(n)'
    <3>1. CASE Enabled(o)
      <4>1. options_[n] = {DefaultParams}
        BY <3>1, <1>a, <1>b, <2>1 DEF ModBut, CallModInv
      <4>2. module'[n].tune = "default"
        BY <2>1, <1>a, <1>b DEF TypeOK
      <4> QED
        BY <4>1, <4>2, <2>1, DefaultIs DEF Agrees, DefaultParams
    <3>2. CASE ~Enabled(o)
      BY <3>2, <2>1 DEF Agrees, Enabled
    <3> QED
      BY <3>1, <3>2
  <2> QED
    BY <1>a, <2>1, <2>4, <2>5, <2>6 DEF ModBut, TypeOK
<1> QED
  BY <1>1, <1>2, <1>3

LEMMA InitVmsModStep == ASSUME NEW c \in Clients, InvBut(c), ModBut(c), fault' = "none",
                               InitVmsApply(c) \/ InitVmsStart(c)
                        PROVE  ModBut(c)'
<1>a. /\ TypeOK /\ call[c] \in Calls /\ call[c].op = "init_vms" /\ call[c].stage \in 1..3
  BY DEF InvBut, TypeOK, Calls, InitVmsApply, InitVmsStart, Ready
<1>b. PICK o \in Opts : o = Options[call[c].stage]
  BY <1>a, OptsAre
<1>c. \A u \in Opts : ~Between(call[c], u)
  BY <1>a DEF Between
<1>1. CASE InitVmsApply(c)
  <2>1. UNCHANGED <<options_, running>>
    BY <1>1 DEF InitVmsApply
  <2>2. /\ call'[c].op = "init_vms" /\ call'[c].step = "start" /\ call'[c].stage = call[c].stage
    BY <1>1, <1>a, Stepped DEF InitVmsApply
  <2>3. /\ Agrees(o)'
        /\ \A u \in Opts \ {o} : module'[u] = module[u]
        /\ swept \subseteq swept' \cup {o}
    <3>1. CASE options_[o] = {}
      BY <3>1, <2>1, <1>1, <1>b DEF InitVmsApply, Enabled, Agrees
    <3>2. CASE \E p \in Params : options_[o] = {p}
      <4>1. PICK p \in Params : options_[o] = {p}
        BY <3>2
      <4>2. Apply(o, p)
        BY <4>1, <1>1, <1>b, ParamOfIs DEF InitVmsApply
      <4>3. /\ \A u \in Opts \ {o} : module'[u] = module[u]
            /\ p.cb # "absent" => module'[o].cb = p.cb
            /\ p.tune # "absent" => module'[o].tune = p.tune
            /\ swept' = swept \ {o}
        BY <4>2, <1>a, <1>b DEF Apply, TypeOK
      <4>4. options_'[o] = {p}
        BY <4>1, <2>1
      <4> QED
        BY <4>3, <4>4, VmSetAssumption DEF Agrees
    <3> QED
      BY <3>1, <3>2, <1>a, <1>b, Shape
  <2>4. CallModInv(call[c])'
    BY <1>b, <2>2, <2>3 DEF CallModInv
  <2>5. \A u \in Opts \ {o} : Agrees(u) => Agrees(u)'
    BY <2>1, <2>3 DEF Agrees
  <2> QED
    BY <1>a, <1>c, <2>1, <2>3, <2>4, <2>5 DEF ModBut, TypeOK
<1>2. CASE InitVmsStart(c)
  <2> DEFINE r == IF call[c].stage = 3 THEN Idle
                  ELSE [call[c] EXCEPT !.stage = @ + 1, !.step = "apply"]
  <2>1. /\ call[c].step = "start" /\ UNCHANGED <<options_, module, swept>>
        /\ running' \subseteq running \cup {o} /\ Advance(c, r)
    BY <1>2, <1>b DEF InitVmsStart, Ready, history
  <2>2. r \in Calls /\ (r.op = "idle" \/ (r.op = "init_vms" /\ r.step = "apply"))
    <3>1. CASE call[c].stage = 3
      BY <3>1, IdleIs
    <3>2. CASE call[c].stage # 3
      <4>1. r = [call[c] EXCEPT !.stage = @ + 1, !.step = "apply"] /\ call[c].stage + 1 \in 1..3
        BY <3>2, <1>a
      <4> QED
        BY <4>1, <1>a DEF Calls
    <3> QED
      BY <3>1, <3>2
  <2>3. call'[c] = r
    BY <2>1, <2>2, <1>a, Moved DEF InvBut
  <2>4. CallModInv(call[c])'
    BY <2>2, <2>3 DEF CallModInv
  <2>5. Agrees(o) /\ \A u \in Opts : Agrees(u) => Agrees(u)'
    BY <1>a, <1>b, <2>1 DEF ModBut, CallModInv, Agrees
  <2> QED
    BY <1>a, <1>c, <2>1, <2>4, <2>5 DEF ModBut, TypeOK
<1> QED
  BY <1>1, <1>2

LEMMA CallsModStep == ASSUME NEW c \in Clients, InvBut(c), ModBut(c), call[c].op = "idle",
                             SetParamCall(c) \/ ClearParamCall(c) \/ InitVmsCall(c)
                      PROVE  ModBut(c)'
<1>1. UNCHANGED <<options_, module, running, swept>>
  BY DEF SetParamCall, ClearParamCall, InitVmsCall, history
<1>2. CallModInv(call[c])'
  <2>1. TypeOK
    BY DEF InvBut
  <2>2. CASE SetParamCall(c)
    <3>1. call'[c].op = "set_param" /\ call'[c].step = "delete"
      BY <2>1, <2>2 DEF SetParamCall, Advance, TypeOK
    <3> QED
      BY <3>1 DEF CallModInv
  <2>3. CASE ClearParamCall(c)
    <3>1. call'[c].op = "clear_param" /\ call'[c].step = "delete"
      BY <2>1, <2>3 DEF ClearParamCall, Advance, TypeOK, Idle
    <3> QED
      BY <3>1 DEF CallModInv
  <2>4. CASE InitVmsCall(c)
    <3>1. call'[c].op = "init_vms" /\ call'[c].step = "apply"
      BY <2>1, <2>4 DEF InitVmsCall, Advance, TypeOK, Idle
    <3> QED
      BY <3>1 DEF CallModInv
  <2> QED
    BY <2>2, <2>3, <2>4
<1>3. \A u \in Opts : ~Between(call[c], u)
  BY DEF Between
<1> QED
  BY <1>1, <1>2, <1>3, ModElsewhere DEF InvBut

LEMMA NextModInv == ASSUME SetInv, ModInv, Serialised = TRUE, [Next]_vars
                    PROVE  ModInv'
<1>1. CASE UNCHANGED vars
  <2>1. UNCHANGED <<options_, module, running, call, fault, swept>>
    BY <1>1 DEF vars, history
  <2>2. \A c \in Clients : CallModInv(call[c])' <=> CallModInv(call[c])
    BY <2>1 DEF CallModInv, Enabled, Agrees
  <2>3. \A o \in Opts : Agrees(o)' <=> Agrees(o)
    BY <2>1 DEF Agrees
  <2>4. \A c \in Clients, o \in Opts : Between(call[c], o)' <=> Between(call[c], o)
    BY <2>1 DEF Between, Enabled
  <2> QED
    BY <2>1, <2>2, <2>3, <2>4 DEF ModInv, SetInv, TypeOK
<1>2. CASE Next
  <2> SUFFICES ASSUME fault' = "none" PROVE ModInv'
    BY DEF ModInv
  <2>1. PICK c \in Clients :
          \/ SetParamCall(c) \/ SetParamDelete(c) \/ SetParamApply(c) \/ SetParamEnable(c)
          \/ ClearParamCall(c) \/ ClearParamDelete(c) \/ ClearParamEnable(c) \/ ClearParamModule(c)
          \/ InitVmsCall(c) \/ InitVmsApply(c) \/ InitVmsStart(c)
    BY <1>2 DEF Next
  <2>2. fault = "none" /\ OnlyCall(c)
    <3>1. CASE SetParamCall(c) \/ ClearParamCall(c) \/ InitVmsCall(c)
      BY <3>1 DEF SetParamCall, ClearParamCall, InitVmsCall, MayCall, OnlyCall
    <3>2. CASE ~(SetParamCall(c) \/ ClearParamCall(c) \/ InitVmsCall(c))
      <4>1. fault = "none" /\ call[c].op # "idle"
        BY <2>1, <3>2 DEF SetParamDelete, SetParamApply, SetParamEnable, ClearParamDelete,
           ClearParamEnable, ClearParamModule, InitVmsApply, InitVmsStart, Ready
      <4> QED
        BY <4>1, Others
    <3> QED
      BY <3>1, <3>2
  <2>3. InvBut(c) /\ ModBut(c)
    BY <2>2, Split, ModSplit
  <2>4. OnlyCall(c)'
    <3>1. CASE SetParamCall(c) \/ ClearParamCall(c) \/ InitVmsCall(c)
      <4>1. call[c].op = "idle"
        BY <3>1 DEF SetParamCall, ClearParamCall, InitVmsCall, MayCall
      <4>2. InvBut(c)'
        BY <3>1, <4>1, <2>3, SetParamCallStep, ClearParamCallStep, InitVmsCallStep
      <4> QED
        BY <4>2 DEF InvBut
    <3>2. CASE ~(SetParamCall(c) \/ ClearParamCall(c) \/ InitVmsCall(c))
      <4>1. InvBut(c)'
        BY <2>1, <3>2, <2>3, SetParamDeleteStep, SetParamApplyStep, SetParamEnableStep,
           ClearParamDeleteStep, ClearParamEnableStep, ClearParamModuleStep,
           InitVmsApplyStep, InitVmsStartStep
      <4> QED
        BY <4>1 DEF InvBut
    <3> QED
      BY <3>1, <3>2
  <2>5. ModBut(c)'
    <3>1. CASE SetParamCall(c) \/ ClearParamCall(c) \/ InitVmsCall(c)
      <4>1. call[c].op = "idle"
        BY <3>1 DEF SetParamCall, ClearParamCall, InitVmsCall, MayCall
      <4> QED
        BY <3>1, <4>1, <2>3, CallsModStep
    <3>2. CASE ~(SetParamCall(c) \/ ClearParamCall(c) \/ InitVmsCall(c))
      BY <2>1, <3>2, <2>3, SetParamModStep, ClearParamModStep, InitVmsModStep
    <3> QED
      BY <3>1, <3>2
  <2> QED
    BY <2>4, <2>5, ModJoin
<1> QED
  BY <1>1, <1>2

\* With one call at a time, a running module works with what is registered for its option,
\* whatever is set, cleared and started, but for the modules that the fall-through of
\* clear_param() has reset (vm.cpp:28-96, 155-246).
THEOREM ModulesFollow == ASSUME Serialised = TRUE PROVE Spec => []ModulesAgree
<1>1. Init => ModInv
  <2>1. Init => running = {} /\ \A c \in Clients : call[c].op = "idle"
    BY IdleIs DEF Init
  <2> QED
    BY <2>1 DEF ModInv, CallModInv
<1>2. SetInv /\ ModInv /\ [Next]_vars => ModInv'
  BY NextModInv
<1>3. ModInv => ModulesAgree
  BY DEF ModInv, ModulesAgree, Resting, Between
<1> QED
  BY <1>1, <1>2, <1>3, Invariance, PTL DEF Spec

-------------------------------------------------------------------------------
\* VmLocks: sequences of steps that are put before one another.

LocksOf(n) == {<<"lock", n>>, <<"hand", n>>}

\* What is held before step e, if H are held behind it.
Before(e, H) == {n \in Mutexes : e = <<"unlock", n>> \/ (n \in H /\ e \notin LocksOf(n))}

LEMMA HeldNowhere == ASSUME NEW K \in SUBSET Mutexes PROVE Held(<<>>, 1, K) = K
  BY DEF Held

\* The steps of b, with those of a in front of them.
LEMMA HeldBehind ==
  ASSUME NEW a \in Seq(Steps), NEW b \in Seq(Steps), NEW K \in SUBSET Mutexes,
         NEW i \in 1..Len(b) + 1
  PROVE  Held(a \o b, Len(a) + i, K) = Held(b, i, K)
<1> DEFINE s == a \o b
<1>1. s \in Seq(Steps) /\ Len(s) = Len(a) + Len(b) /\ Len(a) \in Nat /\ Len(b) \in Nat
  OBVIOUS
<1>2. \A j \in 1..Len(b) : s[Len(a) + j] = b[j]
  OBVIOUS
<1> HIDE DEF s
<1>3. ASSUME NEW n \in Mutexes, n \in Held(b, i, K) PROVE n \in Held(s, Len(a) + i, K)
  <2>1. CASE \E j \in i..Len(b) : b[j] = <<"unlock", n>> /\ \A k \in i..j - 1 : b[k] \notin LocksOf(n)
    <3>1. PICK j \in i..Len(b) : b[j] = <<"unlock", n>> /\ \A k \in i..j - 1 : b[k] \notin LocksOf(n)
      BY <2>1
    <3>2. Len(a) + j \in Len(a) + i..Len(s) /\ s[Len(a) + j] = <<"unlock", n>>
      BY <1>1, <1>2, <3>1
    <3>3. ASSUME NEW k \in Len(a) + i..Len(a) + j - 1 PROVE s[k] \notin LocksOf(n)
      <4>1. k - Len(a) \in i..j - 1 /\ k - Len(a) \in 1..Len(b) /\ Len(a) + (k - Len(a)) = k
        BY <1>1
      <4> QED
        BY <4>1, <1>2, <3>1
    <3> QED
      BY <3>2, <3>3 DEF Held, LocksOf
  <2>2. CASE n \in K /\ \A k \in i..Len(b) : b[k] \notin LocksOf(n)
    <3>1. ASSUME NEW k \in Len(a) + i..Len(s) PROVE s[k] \notin LocksOf(n)
      <4>1. k - Len(a) \in i..Len(b) /\ k - Len(a) \in 1..Len(b) /\ Len(a) + (k - Len(a)) = k
        BY <1>1
      <4> QED
        BY <4>1, <1>2, <2>2
    <3> QED
      BY <2>2, <3>1 DEF Held, LocksOf
  <2> QED
    BY <1>3, <2>1, <2>2 DEF Held, LocksOf
<1>4. ASSUME NEW n \in Mutexes, n \in Held(s, Len(a) + i, K) PROVE n \in Held(b, i, K)
  <2>1. CASE \E j \in Len(a) + i..Len(s) : s[j] = <<"unlock", n>>
                                           /\ \A k \in Len(a) + i..j - 1 : s[k] \notin LocksOf(n)
    <3>1. PICK j \in Len(a) + i..Len(s) : s[j] = <<"unlock", n>>
                                          /\ \A k \in Len(a) + i..j - 1 : s[k] \notin LocksOf(n)
      BY <2>1
    <3>2. j - Len(a) \in i..Len(b) /\ b[j - Len(a)] = <<"unlock", n>>
      <4>1. j - Len(a) \in i..Len(b) /\ j - Len(a) \in 1..Len(b) /\ Len(a) + (j - Len(a)) = j
        BY <1>1
      <4> QED
        BY <4>1, <1>2, <3>1
    <3>3. ASSUME NEW k \in i..j - Len(a) - 1 PROVE b[k] \notin LocksOf(n)
      <4>1. Len(a) + k \in Len(a) + i..j - 1 /\ k \in 1..Len(b)
        BY <1>1, <3>2
      <4> QED
        BY <4>1, <1>2, <3>1
    <3> QED
      BY <3>2, <3>3 DEF Held, LocksOf
  <2>2. CASE n \in K /\ \A k \in Len(a) + i..Len(s) : s[k] \notin LocksOf(n)
    <3>1. ASSUME NEW k \in i..Len(b) PROVE b[k] \notin LocksOf(n)
      <4>1. Len(a) + k \in Len(a) + i..Len(s) /\ k \in 1..Len(b)
        BY <1>1
      <4> QED
        BY <4>1, <1>2, <2>2
    <3> QED
      BY <2>2, <3>1 DEF Held, LocksOf
  <2> QED
    BY <1>4, <2>1, <2>2 DEF Held, LocksOf
<1> QED
  BY <1>3, <1>4 DEF Held, s

\* The first step of a sequence.
LEMMA HeldFirst ==
  ASSUME NEW s \in Seq(Steps), NEW K \in SUBSET Mutexes, NEW i \in 1..Len(s)
  PROVE  Held(s, i, K) = Before(s[i], Held(s, i + 1, K))
<1>1. Len(s) \in Nat
  OBVIOUS
<1>2. ASSUME NEW n \in Mutexes, n \in Held(s, i, K) PROVE n \in Before(s[i], Held(s, i + 1, K))
  <2> SUFFICES ASSUME s[i] # <<"unlock", n>> PROVE n \in Held(s, i + 1, K) /\ s[i] \notin LocksOf(n)
    BY DEF Before
  <2>1. CASE \E j \in i..Len(s) : s[j] = <<"unlock", n>> /\ \A k \in i..j - 1 : s[k] \notin LocksOf(n)
    <3>1. PICK j \in i..Len(s) : s[j] = <<"unlock", n>> /\ \A k \in i..j - 1 : s[k] \notin LocksOf(n)
      BY <2>1
    <3>2. j # i
      BY <3>1
    <3>3. j \in i + 1..Len(s) /\ i \in i..j - 1 /\ \A k \in i + 1..j - 1 : k \in i..j - 1
      BY <3>2
    <3> QED
      BY <3>1, <3>3 DEF Held, LocksOf
  <2>2. CASE n \in K /\ \A k \in i..Len(s) : s[k] \notin LocksOf(n)
    BY <2>2 DEF Held, LocksOf
  <2> QED
    BY <1>2, <2>1, <2>2 DEF Held, LocksOf
<1>3. ASSUME NEW n \in Mutexes, n \in Before(s[i], Held(s, i + 1, K)) PROVE n \in Held(s, i, K)
  <2>1. CASE s[i] = <<"unlock", n>>
    <3>1. i \in i..Len(s) /\ \A k \in i..i - 1 : FALSE
      BY <1>1
    <3> QED
      BY <2>1, <3>1 DEF Held
  <2>2. CASE n \in Held(s, i + 1, K) /\ s[i] \notin LocksOf(n)
    <3>1. CASE \E j \in i + 1..Len(s) : s[j] = <<"unlock", n>> /\ \A k \in i + 1..j - 1 : s[k] \notin LocksOf(n)
      <4>1. PICK j \in i + 1..Len(s) : s[j] = <<"unlock", n>> /\ \A k \in i + 1..j - 1 : s[k] \notin LocksOf(n)
        BY <3>1
      <4>2. j \in i..Len(s) /\ \A k \in i..j - 1 : k = i \/ k \in i + 1..j - 1
        OBVIOUS
      <4> QED
        BY <2>2, <4>1, <4>2 DEF Held, LocksOf
    <3>2. CASE n \in K /\ \A k \in i + 1..Len(s) : s[k] \notin LocksOf(n)
      <4>1. \A k \in i..Len(s) : k = i \/ k \in i + 1..Len(s)
        OBVIOUS
      <4> QED
        BY <2>2, <3>2, <4>1 DEF Held, LocksOf
    <3> QED
      BY <2>2, <3>1, <3>2 DEF Held, LocksOf
  <2> QED
    BY <1>3, <2>1, <2>2 DEF Before
<1> QED
  BY <1>2, <1>3 DEF Held, Before

\* s is in order for thread p, which holds H.
Good(s, p, H) == s \in Seq(Steps) /\ Orderly(s, {}) /\ EndsAs(s, p) /\ Held(s, 1, {}) = H

LEMMA GoodHolds == ASSUME NEW s, NEW p, NEW H, Good(s, p, H) PROVE H \in SUBSET Mutexes
  BY DEF Good, Held

LEMMA GoodFirst ==
  ASSUME NEW t, NEW p, NEW H, Good(t, p, H), NEW e \in Steps, e[1] \notin {"test", "done"},
         Fits(e, Before(e, H)), e[1] \in {"lock", "hand"} => e[2] \in H
  PROVE  Good(<<e>> \o t, p, Before(e, H))
<1> DEFINE s == <<e>> \o t
<1>1. /\ t \in Seq(Steps) /\ <<e>> \in Seq(Steps) /\ Len(<<e>>) = 1
      /\ s \in Seq(Steps) /\ Len(t) \in Nat /\ Len(s) = Len(t) + 1
      /\ s[1] = e /\ \A i \in 1..Len(t) : s[i + 1] = t[i]
  BY DEF Good
<1>2. \A i \in 1..Len(t) + 1 : Held(s, i + 1, {}) = Held(t, i, {})
  <2> SUFFICES ASSUME NEW i \in 1..Len(t) + 1 PROVE Held(s, 1 + i, {}) = Held(t, i, {})
    BY <1>1
  <2> QED
    BY <1>1, HeldBehind
<1> HIDE DEF s
<1>3. Held(s, 2, {}) = H
  BY <1>1, <1>2 DEF Good
<1>4. Held(s, 1, {}) = Before(e, H)
  BY <1>1, <1>3, HeldFirst
<1>5. ASSUME NEW i \in 1..Len(s)
      PROVE  /\ Fits(s[i], Held(s, i, {}))
             /\ s[i][1] \in {"lock", "hand"} => s[i][2] \in Held(s, i + 1, {})
             /\ s[i][1] \in {"test", "done"} => i = Len(s) /\ s[i][2] = p
  <2>1. CASE i = 1
    BY <2>1, <1>1, <1>3, <1>4
  <2>2. CASE i # 1
    <3>1. PICK j \in 1..Len(t) : i = j + 1
      <4>1. i - 1 \in 1..Len(t) /\ i = (i - 1) + 1
        BY <1>1, <2>2
      <4> QED
        BY <4>1
    <3>2. s[i] = t[j] /\ Held(s, i, {}) = Held(t, j, {}) /\ Held(s, i + 1, {}) = Held(t, j + 1, {})
      BY <1>1, <1>2, <3>1
    <3>3. /\ Fits(t[j], Held(t, j, {}))
          /\ t[j][1] \in {"lock", "hand"} => t[j][2] \in Held(t, j + 1, {})
          /\ t[j][1] \in {"test", "done"} => j = Len(t) /\ t[j][2] = p
      BY DEF Good, Orderly, EndsAs
    <3> QED
      BY <1>1, <3>1, <3>2, <3>3
  <2> QED
    BY <2>1, <2>2
<1> QED
  BY <1>1, <1>4, <1>5 DEF Good, Orderly, EndsAs, s

\* Steps that lock nothing, that lock, and that unlock.
Plain == Kinds \ {"lock", "hand", "unlock", "test", "done"}

LEMMA GoodPlain ==
  ASSUME NEW t, NEW p, NEW H, Good(t, p, H), NEW do \in Plain, NEW m \in Mutexes, Fits(<<do, m>>, H)
  PROVE  Good(<< <<do, m>> >> \o t, p, H)
<1> DEFINE e == <<do, m>>
<1>1. e \in Steps /\ e[1] = do /\ e[2] = m
  BY DEF Steps, Plain
<1>2. Before(e, H) = H
  BY GoodHolds DEF Before, LocksOf, Plain
<1>3. e[1] \notin {"test", "done", "lock", "hand"}
  BY <1>1 DEF Plain
<1> HIDE DEF e
<1>4. Good(<<e>> \o t, p, Before(e, H))
  BY <1>1, <1>2, <1>3, GoodFirst DEF e
<1> QED
  BY <1>2, <1>4 DEF e

LEMMA GoodLock ==
  ASSUME NEW t, NEW p, NEW H, Good(t, p, H), NEW do \in {"lock", "hand"}, NEW m \in H,
         do = "hand" => m \in {"cpu", "miss"}, \A n \in H \ {m} : Rank[m] < Rank[n]
  PROVE  Good(<< <<do, m>> >> \o t, p, H \ {m})
<1> DEFINE e == <<do, m>>
<1>1. e \in Steps /\ e[1] = do /\ e[2] = m
  BY GoodHolds DEF Steps, Kinds
<1>2. Before(e, H) = H \ {m}
  BY GoodHolds DEF Before, LocksOf
<1>3. Fits(e, Before(e, H))
  BY <1>1, <1>2 DEF Fits
<1> HIDE DEF e
<1>4. Good(<<e>> \o t, p, Before(e, H))
  BY <1>1, <1>3, GoodFirst
<1> QED
  BY <1>2, <1>4 DEF e

LEMMA GoodUnlock ==
  ASSUME NEW t, NEW p, NEW H, Good(t, p, H), NEW m \in Mutexes
  PROVE  Good(<< <<"unlock", m>> >> \o t, p, H \cup {m})
<1> DEFINE e == <<"unlock", m>>
<1>1. e \in Steps /\ e[1] = "unlock" /\ e[2] = m
  BY DEF Steps, Kinds
<1>2. Before(e, H) = H \cup {m}
  BY GoodHolds DEF Before, LocksOf
<1>3. Fits(e, Before(e, H))
  BY <1>1 DEF Fits
<1> HIDE DEF e
<1>4. Good(<<e>> \o t, p, Before(e, H))
  BY <1>1, <1>3, GoodFirst
<1> QED
  BY <1>2, <1>4 DEF e

\* The same for the first step of a sequence u that is put before t.
LEMMA PlainFirst ==
  ASSUME NEW t \in Seq(Steps), NEW s \in Seq(Steps), NEW p, NEW H, Good(s \o t, p, H),
         NEW do \in Plain, NEW m \in Mutexes, Fits(<<do, m>>, H), NEW u, u = << <<do, m>> >> \o s
  PROVE  Good(u \o t, p, H)
<1>1. << <<do, m>> >> \in Seq(Steps)
  BY DEF Steps, Plain
<1>2. u \o t = << <<do, m>> >> \o (s \o t)
  BY <1>1, ConcatAssociative
<1> QED
  BY <1>2, GoodPlain

LEMMA LockFirst ==
  ASSUME NEW t \in Seq(Steps), NEW s \in Seq(Steps), NEW p, NEW H, Good(s \o t, p, H),
         NEW do \in {"lock", "hand"}, NEW m \in H, NEW u, u = << <<do, m>> >> \o s,
         do = "hand" => m \in {"cpu", "miss"}, \A n \in H \ {m} : Rank[m] < Rank[n]
  PROVE  Good(u \o t, p, H \ {m})
<1>1. << <<do, m>> >> \in Seq(Steps)
  BY GoodHolds DEF Steps, Kinds
<1>2. u \o t = << <<do, m>> >> \o (s \o t)
  BY <1>1, ConcatAssociative
<1> QED
  BY <1>2, GoodLock

LEMMA UnlockFirst ==
  ASSUME NEW t \in Seq(Steps), NEW s \in Seq(Steps), NEW p, NEW H, Good(s \o t, p, H),
         NEW m \in Mutexes, NEW u, u = << <<"unlock", m>> >> \o s
  PROVE  Good(u \o t, p, H \cup {m})
<1>1. << <<"unlock", m>> >> \in Seq(Steps)
  BY DEF Steps, Kinds
<1>2. u \o t = << <<"unlock", m>> >> \o (s \o t)
  BY <1>1, ConcatAssociative
<1> QED
  BY <1>2, GoodUnlock

LEMMA Pair == ASSUME NEW S, NEW a \in S, NEW b \in S PROVE <<a, b>> = <<a>> \o <<b>>
<1>1. /\ <<a>> \in Seq(S) /\ <<b>> \in Seq(S) /\ <<a, b>> \in Seq(S)
      /\ Len(<<a>>) = 1 /\ Len(<<b>>) = 1 /\ Len(<<a, b>>) = 2
  OBVIOUS
<1>2. <<a>> \o <<b>> \in Seq(S) /\ Len(<<a>> \o <<b>>) = 2
  BY <1>1, ConcatProperties
<1>3. (<<a>> \o <<b>>)[1] = a /\ (<<a>> \o <<b>>)[2] = b
  BY <1>1, ConcatProperties
<1>4. \A i \in 1..2 : (<<a>> \o <<b>>)[i] = <<a, b>>[i]
  BY <1>3
<1> QED
  BY <1>1, <1>2, <1>4, SeqEqual

LEMMA StepsAre == \A do \in Kinds, m \in Mutexes : <<do, m>> \in Steps
  BY DEF Steps

LEMMA ModulesAre == /\ Modules = {"base", "cpu", "miss"} /\ Mutexes = {"base", "cpu", "miss", "init"}
                    /\ Rank["base"] = 1 /\ Rank["cpu"] = 2 /\ Rank["miss"] = 3 /\ Rank["init"] = 4
                    /\ \A n \in Mutexes : Rank[n] \in 1..4
  BY DEF Modules, Mutexes, Rank

\* A getter may be called by whoever holds mutexes from above only.
LEMMA GoodGetter ==
  ASSUME NEW t, NEW p, NEW H, Good(t, p, H), NEW m \in Modules, \A n \in H : Rank[m] < Rank[n]
  PROVE  Good(Getter(m) \o t, p, H) /\ Getter(m) \in Seq(Steps)
<1> DEFINE ask == <<"ask", m>>
           poll == <<"poll", m>>
           pass == <<"pass", m>>
<1>1. m \in Mutexes /\ {"ask", "poll", "pass"} \subseteq Plain /\ t \in Seq(Steps)
  BY DEF Mutexes, Plain, Kinds, Good
<1>2. Fits(ask, H) /\ Fits(poll, H) /\ Fits(pass, H)
  BY DEF Fits
<1>3. ask \in Steps /\ poll \in Steps /\ pass \in Steps
  BY <1>1, StepsAre DEF Plain
<1>4. Good(<<pass>> \o t, p, H)
  BY <1>1, <1>2, GoodPlain
<1>5. Good(<<poll, pass>> \o t, p, H)
  <2> HIDE DEF ask, poll, pass
  <2>1. <<poll, pass>> = <<poll>> \o <<pass>> /\ <<pass>> \in Seq(Steps)
    BY <1>3, Pair
  <2> QED
    BY <1>1, <1>2, <1>4, <2>1, PlainFirst DEF poll
<1>6. Good(<<ask, poll, pass>> \o t, p, H)
  <2> HIDE DEF ask, poll, pass
  <2>1. <<ask, poll, pass>> = <<ask>> \o <<poll, pass>> /\ <<poll, pass>> \in Seq(Steps)
    BY <1>3
  <2> QED
    BY <1>1, <1>2, <1>5, <2>1, PlainFirst DEF ask
<1> QED
  BY <1>3, <1>6 DEF Getter

\* Facts that the refreshes share: which steps are plain, and how sequences are taken apart.
LEMMA PlainAre == /\ {"ask", "poll", "pass", "sums", "callback", "raise", "clear", "option",
                      "start", "stop", "join"} \subseteq Plain
                  /\ Plain \subseteq Kinds
  BY DEF Plain, Kinds

LEMMA GoodRefreshBase ==
  ASSUME NEW t, NEW p, NEW H, Good(t, p, H), \A n \in H : Rank["base"] < Rank[n]
  PROVE  Good(RefreshBase \o t, p, H) /\ RefreshBase \in Seq(Steps)
<1> DEFINE lock   == <<"lock", "base">>
           raise  == <<"raise", "base">>
           unlock == <<"unlock", "base">>
           B == H \cup {"base"}
<1>1. t \in Seq(Steps) /\ "base" \in Mutexes /\ "base" \notin H /\ B \ {"base"} = H
  BY ModulesAre DEF Good
<1>2. lock \in Steps /\ raise \in Steps /\ unlock \in Steps
  BY <1>1, StepsAre DEF Kinds
<1>3. Fits(raise, B)
  BY DEF Fits
<1>4. Good(<<unlock>> \o t, p, B)
  BY <1>1, GoodUnlock
<1>5. Good(<<raise, unlock>> \o t, p, B)
  <2> HIDE DEF lock, raise, unlock, B
  <2>1. <<raise, unlock>> = <<raise>> \o <<unlock>> /\ <<unlock>> \in Seq(Steps)
    BY <1>2, Pair
  <2> QED
    BY <1>1, <1>3, <1>4, <2>1, PlainFirst, PlainAre DEF raise
<1>6. Good(<<lock, raise, unlock>> \o t, p, B \ {"base"})
  <2>1. "base" \in B /\ \A n \in B \ {"base"} : Rank["base"] < Rank[n]
    BY <1>1
  <2> HIDE DEF lock, raise, unlock, B
  <2>2. <<lock, raise, unlock>> = <<lock>> \o <<raise, unlock>> /\ <<raise, unlock>> \in Seq(Steps)
    BY <1>2
  <2> QED
    BY <1>1, <1>5, <2>1, <2>2, LockFirst DEF lock
<1>7. RefreshBase = <<lock, raise, unlock>>
  BY DEF RefreshBase
<1> HIDE DEF lock, raise, unlock, B
<1>8. RefreshBase \in Seq(Steps)
  BY <1>2, <1>7
<1>9. Good(RefreshBase \o t, p, H)
  BY <1>1, <1>6, <1>7
<1> QED
  BY <1>8, <1>9

LEMMA GoodRefreshCpu ==
  ASSUME NEW t, NEW p, NEW H, Good(t, p, H), \A n \in H : Rank["cpu"] < Rank[n]
  PROVE  Good(RefreshCpu \o t, p, H) /\ RefreshCpu \in Seq(Steps)
<1> DEFINE hand     == <<"hand", "cpu">>
           lock     == <<"lock", "cpu">>
           callback == <<"callback", "cpu">>
           raise    == <<"raise", "cpu">>
           unlock   == <<"unlock", "cpu">>
           rest     == <<unlock, lock, callback, raise, unlock>>
           C == H \cup {"cpu"}
<1>1. /\ t \in Seq(Steps) /\ "cpu" \in Mutexes /\ "cpu" \notin H /\ C \ {"cpu"} = H
      /\ "cpu" \in C /\ \A n \in C \ {"cpu"} : Rank["cpu"] < Rank[n]
      /\ \A n \in C : Rank["cpu"] <= Rank[n] /\ Rank["base"] < Rank[n]
  BY ModulesAre, GoodHolds DEF Good
<1>2. /\ hand \in Steps /\ lock \in Steps /\ callback \in Steps
      /\ raise \in Steps /\ unlock \in Steps
  BY <1>1, StepsAre DEF Kinds
<1>3. Fits(raise, C) /\ Fits(callback, C)
  BY <1>1 DEF Fits
<1>4. Good(rest \o t, p, C) /\ rest \in Seq(Steps)
  <2>1. Good(<<unlock>> \o t, p, C)
    BY <1>1, GoodUnlock
  <2> HIDE DEF hand, lock, callback, raise, unlock, C
  <2>2. Good(<<raise, unlock>> \o t, p, C)
    <3>1. <<raise, unlock>> = <<raise>> \o <<unlock>> /\ <<unlock>> \in Seq(Steps)
      BY <1>2, Pair
    <3> QED
      BY <1>1, <1>3, <2>1, <3>1, PlainFirst, PlainAre DEF raise
  <2>3. Good(<<callback, raise, unlock>> \o t, p, C)
    <3>1. /\ <<callback, raise, unlock>> = <<callback>> \o <<raise, unlock>>
          /\ <<raise, unlock>> \in Seq(Steps)
      BY <1>2
    <3> QED
      BY <1>1, <1>3, <2>2, <3>1, PlainFirst, PlainAre DEF callback
  <2>4. Good(<<lock, callback, raise, unlock>> \o t, p, H)
    <3>1. /\ <<lock, callback, raise, unlock>> = <<lock>> \o <<callback, raise, unlock>>
          /\ <<callback, raise, unlock>> \in Seq(Steps)
      BY <1>2
    <3>2. Good(<<lock, callback, raise, unlock>> \o t, p, C \ {"cpu"})
      BY <1>1, <2>3, <3>1, LockFirst DEF lock
    <3> QED
      BY <1>1, <3>2
  <2>5. /\ rest = <<unlock>> \o <<lock, callback, raise, unlock>>
        /\ <<lock, callback, raise, unlock>> \in Seq(Steps) /\ rest \in Seq(Steps)
    BY <1>2
  <2> HIDE DEF rest
  <2> QED
    BY <1>1, <2>4, <2>5, UnlockFirst DEF unlock, C
<1> HIDE DEF rest
<1>5. Good(Getter("base") \o (rest \o t), p, C) /\ Getter("base") \in Seq(Steps)
  <2>1. "base" \in Modules
    BY ModulesAre
  <2> HIDE DEF C
  <2> QED
    BY <1>1, <1>4, <2>1, GoodGetter
<1>6. Good(<<hand>> \o (Getter("base") \o (rest \o t)), p, C \ {"cpu"})
  <2> HIDE DEF C
  <2> QED
    BY <1>1, <1>5, GoodLock
<1>7. RefreshCpu = <<hand>> \o Getter("base") \o rest
  BY DEF RefreshCpu, rest
<1> HIDE DEF hand, C
<1>8. <<hand>> \in Seq(Steps)
  BY <1>2
<1>9. /\ RefreshCpu \in Seq(Steps)
      /\ RefreshCpu \o t = <<hand>> \o (Getter("base") \o (rest \o t))
  <2>1. RefreshCpu \o t = (<<hand>> \o Getter("base")) \o (rest \o t)
    BY <1>1, <1>4, <1>5, <1>7, <1>8, ConcatAssociative
  <2>2. rest \o t \in Seq(Steps)
    BY <1>1, <1>4
  <2> QED
    BY <1>4, <1>5, <1>7, <1>8, <2>1, <2>2, ConcatAssociative
<1> QED
  BY <1>1, <1>6, <1>9

LEMMA GoodRefreshMiss ==
  ASSUME NEW t, NEW p, NEW H, Good(t, p, H), \A n \in H : Rank["miss"] < Rank[n]
  PROVE  Good(RefreshMiss \o t, p, H) /\ RefreshMiss \in Seq(Steps)
<1> DEFINE hand   == <<"hand", "miss">>
           pass   == <<"pass", "miss">>
           lock   == <<"lock", "miss">>
           sums   == <<"sums", "miss">>
           unlock == <<"unlock", "miss">>
           raise  == <<"raise", "miss">>
           rest   == <<unlock, pass, lock, sums, unlock, raise>>
           M == H \cup {"miss"}
<1>1. /\ t \in Seq(Steps) /\ "miss" \in Mutexes /\ "base" \in Mutexes
      /\ "miss" \notin H /\ M \ {"miss"} = H
      /\ "miss" \in M /\ \A n \in M \ {"miss"} : Rank["miss"] < Rank[n]
      /\ \A n \in M : Rank["miss"] <= Rank[n] /\ Rank["base"] < Rank[n]
  BY ModulesAre, GoodHolds DEF Good
<1>2. /\ hand \in Steps /\ pass \in Steps /\ lock \in Steps
      /\ sums \in Steps /\ unlock \in Steps /\ raise \in Steps
  BY <1>1, StepsAre DEF Kinds
<1>3. Fits(raise, H) /\ Fits(sums, M) /\ Fits(pass, H)
  BY <1>1 DEF Fits
<1>4. Good(rest \o t, p, M) /\ rest \in Seq(Steps)
  <2>1. Good(<<raise>> \o t, p, H)
    BY <1>1, <1>3, GoodPlain, PlainAre
  <2> HIDE DEF hand, pass, lock, sums, unlock, raise, M
  <2>2. Good(<<unlock, raise>> \o t, p, M)
    <3>1. <<unlock, raise>> = <<unlock>> \o <<raise>> /\ <<raise>> \in Seq(Steps)
      BY <1>2, Pair
    <3> QED
      BY <1>1, <2>1, <3>1, UnlockFirst DEF unlock, M
  <2>3. Good(<<sums, unlock, raise>> \o t, p, M)
    <3>1. /\ <<sums, unlock, raise>> = <<sums>> \o <<unlock, raise>>
          /\ <<unlock, raise>> \in Seq(Steps)
      BY <1>2
    <3> QED
      BY <1>1, <1>3, <2>2, <3>1, PlainFirst, PlainAre DEF sums
  <2>4. Good(<<lock, sums, unlock, raise>> \o t, p, H)
    <3>1. /\ <<lock, sums, unlock, raise>> = <<lock>> \o <<sums, unlock, raise>>
          /\ <<sums, unlock, raise>> \in Seq(Steps)
      BY <1>2
    <3>2. Good(<<lock, sums, unlock, raise>> \o t, p, M \ {"miss"})
      BY <1>1, <2>3, <3>1, LockFirst DEF lock
    <3> QED
      BY <1>1, <3>2
  <2>5. Good(<<pass, lock, sums, unlock, raise>> \o t, p, H)
    <3>1. /\ <<pass, lock, sums, unlock, raise>> = <<pass>> \o <<lock, sums, unlock, raise>>
          /\ <<lock, sums, unlock, raise>> \in Seq(Steps)
      BY <1>2
    <3> QED
      BY <1>1, <1>3, <2>4, <3>1, PlainFirst, PlainAre DEF pass
  <2>6. /\ rest = <<unlock>> \o <<pass, lock, sums, unlock, raise>>
        /\ <<pass, lock, sums, unlock, raise>> \in Seq(Steps) /\ rest \in Seq(Steps)
    BY <1>2
  <2> HIDE DEF rest
  <2> QED
    BY <1>1, <2>5, <2>6, UnlockFirst DEF unlock, M
<1> HIDE DEF rest
<1>5. Good(Getter("base") \o (rest \o t), p, M) /\ Getter("base") \in Seq(Steps)
  <2>1. "base" \in Modules
    BY ModulesAre
  <2> HIDE DEF M
  <2> QED
    BY <1>1, <1>4, <2>1, GoodGetter
<1>6. Good(<<hand>> \o (Getter("base") \o (rest \o t)), p, M \ {"miss"})
  <2> HIDE DEF M
  <2> QED
    BY <1>1, <1>5, GoodLock
<1>7. RefreshMiss = <<hand>> \o Getter("base") \o rest
  BY DEF RefreshMiss, rest
<1> HIDE DEF hand, M
<1>8. <<hand>> \in Seq(Steps)
  BY <1>2
<1>9. /\ RefreshMiss \in Seq(Steps)
      /\ RefreshMiss \o t = <<hand>> \o (Getter("base") \o (rest \o t))
  <2>1. RefreshMiss \o t = (<<hand>> \o Getter("base")) \o (rest \o t)
    BY <1>1, <1>4, <1>5, <1>7, <1>8, ConcatAssociative
  <2>2. rest \o t \in Seq(Steps)
    BY <1>1, <1>4
  <2> QED
    BY <1>4, <1>5, <1>7, <1>8, <2>1, <2>2, ConcatAssociative
<1> QED
  BY <1>1, <1>6, <1>9

\* The refresh of a module, and what a getter does itself.
LEMMA GoodRefresh ==
  ASSUME NEW t, NEW p, NEW H, Good(t, p, H), NEW m \in Modules, \A n \in H : Rank[m] < Rank[n]
  PROVE  Good(Refresh[m] \o t, p, H) /\ Refresh[m] \in Seq(Steps)
<1>1. Refresh[m] = CASE m = "base" -> RefreshBase [] m = "cpu" -> RefreshCpu [] m = "miss" -> RefreshMiss
  BY ModulesAre DEF Refresh
<1>2. CASE m = "base"
  BY <1>1, <1>2, GoodRefreshBase
<1>3. CASE m = "cpu"
  BY <1>1, <1>3, GoodRefreshCpu
<1>4. CASE m = "miss"
  BY <1>1, <1>4, GoodRefreshMiss
<1> QED
  BY <1>2, <1>3, <1>4, ModulesAre

LEMMA GoodOwnRefresh ==
  ASSUME NEW t, NEW p, NEW H, Good(t, p, H), NEW m \in Modules, \A n \in H : Rank[m] < Rank[n]
  PROVE  Good(OwnRefresh(m) \o t, p, H)
<1>1. Good(Refresh[m] \o t, p, H) /\ Refresh[m] \in Seq(Steps)
  BY GoodRefresh
<1>2. Good(Refresh[m] \o (Refresh[m] \o t), p, H)
  BY <1>1, GoodRefresh
<1>3. (Refresh[m] \o Refresh[m]) \o t = Refresh[m] \o (Refresh[m] \o t)
  BY <1>1, ConcatAssociative DEF Good
<1> QED
  BY <1>1, <1>2, <1>3 DEF OwnRefresh

-------------------------------------------------------------------------------
\* Whole calls and loops, by a thread that holds nothing.

LEMMA GoodNothing == ASSUME NEW p PROVE Good(<<>>, p, {})
  BY DEF Good, Orderly, EndsAs, Held

\* The last step of a worker's loop.
LEMMA GoodLast == ASSUME NEW m \in Modules, NEW do \in {"test", "done"}
                  PROVE  Good(<< <<do, m>> >>, m, {})
<1> DEFINE e == <<do, m>>
           s == <<e>>
<1>1. e \in Steps /\ e[1] = do /\ e[2] = m
  BY ModulesAre DEF Steps, Kinds
<1>2. Before(e, {}) = {} /\ Fits(e, {})
  BY DEF Before, Fits
<1> HIDE DEF e
<1>3. s \in Seq(Steps) /\ Len(s) = 1 /\ s[1] = e
  BY <1>1
<1> HIDE DEF s
<1>4. Held(s, 1 + 1, {}) = {}
  BY <1>3 DEF Held
<1>5. Held(s, 1, {}) = {}
  <2>1. 1 \in 1..Len(s) /\ {} \in SUBSET Mutexes
    BY <1>3
  <2>2. Held(s, 1, {}) = Before(s[1], Held(s, 1 + 1, {}))
    BY <1>3, <2>1, HeldFirst
  <2> QED
    BY <1>2, <1>3, <1>4, <2>2
<1> QED
  BY <1>1, <1>2, <1>3, <1>5 DEF Good, Orderly, EndsAs, s, e

LEMMA GoodEnding == ASSUME NEW m \in Modules PROVE Good(Ending(m), m, {})
<1> DEFINE clear == <<"clear", m>>
           done  == <<"done", m>>
<1>1. clear \in Steps /\ done \in Steps /\ m \in Mutexes
  BY ModulesAre, StepsAre DEF Kinds
<1>2. Good(<<clear>> \o <<done>>, m, {})
  <2>1. Fits(clear, {})
    BY DEF Fits
  <2>2. Good(<<done>>, m, {})
    BY GoodLast
  <2> QED
    BY <1>1, <2>1, <2>2, GoodPlain, PlainAre
<1>3. Ending(m) = <<clear, done>>
  BY DEF Ending
<1> HIDE DEF clear, done
<1> QED
  BY <1>1, <1>2, <1>3, Pair

LEMMA GoodRound == ASSUME NEW m \in Modules PROVE Good(Round(m), m, {})
  BY GoodLast, GoodRefresh DEF Round

LEMMA GoodWhole == ASSUME NEW s \in Seq(Steps), NEW p, NEW H, Good(s \o <<>>, p, H) PROVE Good(s, p, H)
<1>1. s \o <<>> = s
  BY ConcatEmptySeq
<1> QED
  BY <1>1

LEMMA GoodCall == ASSUME NEW m \in Modules, NEW p PROVE Good(Getter(m), p, {})
  BY GoodGetter, GoodNothing, GoodWhole

\* Steps on the mutex, flag or worker of m, by whoever holds mutexes from above only.
LEMMA GoodStep ==
  ASSUME NEW t, NEW p, NEW H, Good(t, p, H), NEW m \in Modules, \A n \in H : Rank[m] < Rank[n],
         NEW do \in {"pass", "clear", "start"}
  PROVE  Good(<< <<do, m>> >> \o t, p, H) /\ << <<do, m>> >> \in Seq(Steps)
<1>1. Fits(<<do, m>>, H) /\ m \in Mutexes /\ do \in Plain /\ do \in Kinds
  BY ModulesAre, PlainAre DEF Fits, Kinds
<1>2. <<do, m>> \in Steps
  BY <1>1, StepsAre
<1> QED
  BY <1>1, <1>2, GoodPlain

\* The parameters of an option, and the option in init_vms().
LEMMA GoodSetting ==
  ASSUME NEW t, NEW p, NEW H, Good(t, p, H), NEW m \in Modules, \A n \in H : Rank[m] < Rank[n],
         NEW set \in Settings[m]
  PROVE  Good(set \o t, p, H) /\ set \in Seq(Steps)
<1> DEFINE clear == <<"clear", m>>
           pass  == <<"pass", m>>
<1>1. set \in {<<>>, <<clear>>, <<pass>>, <<clear, pass>>}
  BY ModulesAre DEF Settings
<1>2. /\ Good(<<clear>> \o t, p, H) /\ <<clear>> \in Seq(Steps)
      /\ Good(<<pass>> \o t, p, H) /\ <<pass>> \in Seq(Steps)
      /\ Good(<<clear>> \o (<<pass>> \o t), p, H)
      /\ clear \in Steps /\ pass \in Steps
  BY GoodStep, ModulesAre, StepsAre DEF Kinds
<1> HIDE DEF clear, pass
<1>3. <<clear, pass>> = <<clear>> \o <<pass>> /\ <<clear, pass>> \in Seq(Steps)
  BY <1>2, Pair
<1>4. Good(<<clear, pass>> \o t, p, H)
  <2>1. (<<clear>> \o <<pass>>) \o t = <<clear>> \o (<<pass>> \o t)
    BY <1>2, ConcatAssociative DEF Good
  <2> QED
    BY <1>2, <1>3, <2>1
<1>5. Good(<<>> \o t, p, H) /\ <<>> \in Seq(Steps)
  BY ConcatEmptySeq, EmptySeq DEF Good
<1> QED
  BY <1>1, <1>2, <1>3, <1>4, <1>5

LEMMA GoodOption ==
  ASSUME NEW t, NEW p, NEW H, Good(t, p, H), NEW m \in Modules, \A n \in H : Rank[m] < Rank[n],
         NEW s \in Option(m)
  PROVE  Good(s \o t, p, H)
<1>1. CASE s = <<>>
  BY <1>1, ConcatEmptySeq DEF Good
<1>2. CASE s # <<>>
  <2> DEFINE start == << <<"start", m>> >>
  <2>1. PICK set \in Settings[m] : s = set \o start
    BY <1>2 DEF Option
  <2>2. Good(start \o t, p, H) /\ start \in Seq(Steps)
    BY GoodStep
  <2> HIDE DEF start
  <2>3. Good(set \o (start \o t), p, H) /\ set \in Seq(Steps)
    BY <2>2, GoodSetting
  <2>4. (set \o start) \o t = set \o (start \o t)
    BY <2>2, <2>3, ConcatAssociative DEF Good
  <2> QED
    BY <2>1, <2>3, <2>4
<1> QED
  BY <1>1, <1>2

\* set_param() and clear_param().
LEMMA GoodSetParam == ASSUME NEW s \in SetParams, NEW p PROVE Good(s, p, {})
<1>1. PICK m \in Modules : s \in Settings[m]
  BY DEF SetParams
<1> QED
  BY <1>1, GoodNothing, GoodSetting, GoodWhole

LEMMA GoodPass ==
  ASSUME NEW t, NEW p, Good(t, p, {}), NEW m \in Modules
  PROVE  Good(<< <<"pass", m>> >> \o t, p, {})
<1>1. \A n \in {} : Rank[m] < Rank[n]
  OBVIOUS
<1> QED
  BY <1>1, GoodStep

LEMMA GoodClearParam == ASSUME NEW s \in ClearParams, NEW p PROVE Good(s, p, {})
<1> DEFINE a == <<"pass", "base">>
           b == <<"pass", "cpu">>
           c == <<"pass", "miss">>
<1>1. s \in {<<a, b, c>>, <<b, c>>, <<c>>}
  BY DEF ClearParams
<1>2. a \in Steps /\ b \in Steps /\ c \in Steps
  BY ModulesAre, StepsAre DEF Kinds
<1>3. \A t : Good(t, p, {}) => Good(<<a>> \o t, p, {}) /\ Good(<<b>> \o t, p, {}) /\ Good(<<c>> \o t, p, {})
  BY GoodPass, ModulesAre
<1> HIDE DEF a, b, c
<1>4. /\ <<c>> \in Seq(Steps) /\ <<b, c>> \in Seq(Steps)
      /\ <<b, c>> = <<b>> \o <<c>> /\ <<a, b, c>> = <<a>> \o <<b, c>>
  BY <1>2, Pair
<1>5. Good(<<c>>, p, {})
  BY <1>3, <1>4, GoodNothing, GoodWhole
<1>6. Good(<<b, c>>, p, {})
  BY <1>3, <1>4, <1>5
<1>7. Good(<<a, b, c>>, p, {})
  BY <1>3, <1>4, <1>6
<1> QED
  BY <1>1, <1>5, <1>6, <1>7

LEMMA GoodInitVms == ASSUME NEW p PROVE Good(InitVms, p, {})
<1> DEFINE lock   == <<"lock", "init">>
           base   == <<"option", "base">>
           cpu    == <<"option", "cpu">>
           miss   == <<"option", "miss">>
           unlock == <<"unlock", "init">>
           first  == <<lock, base, cpu, miss>>
           rest   == Getter("base") \o <<unlock>>
           I == {"init"}
<1>1. /\ lock \in Steps /\ base \in Steps /\ cpu \in Steps /\ miss \in Steps /\ unlock \in Steps
      /\ Modules \subseteq Mutexes /\ "init" \in Mutexes /\ "base" \in Modules
      /\ \A n \in I : Rank["base"] < Rank[n]
  BY ModulesAre, StepsAre DEF Kinds
<1>2. Fits(base, I) /\ Fits(cpu, I) /\ Fits(miss, I)
  BY ModulesAre DEF Fits
<1>3. Good(rest, p, I) /\ rest \in Seq(Steps) /\ Getter("base") \in Seq(Steps)
  <2>1. Good(<<unlock>> \o <<>>, p, {} \cup I)
    BY <1>1, GoodNothing, GoodUnlock
  <2>2. <<unlock>> \in Seq(Steps)
    BY <1>1
  <2>3. Good(<<unlock>>, p, I)
    BY <2>1, <2>2, GoodWhole
  <2> HIDE DEF I
  <2> QED
    BY <1>1, <2>3, GoodGetter DEF Good
<1> HIDE DEF rest
<1>4. Good(first \o rest, p, {}) /\ first \in Seq(Steps)
  <2>1. Good(<<miss>> \o rest, p, I)
    <3>1. "miss" \in Mutexes
      BY ModulesAre
    <3> HIDE DEF I
    <3> QED
      BY <1>2, <1>3, <3>1, GoodPlain, PlainAre
  <2> HIDE DEF lock, base, cpu, miss, unlock, I
  <2>2. Good(<<cpu, miss>> \o rest, p, I)
    <3>1. <<cpu, miss>> = <<cpu>> \o <<miss>> /\ <<miss>> \in Seq(Steps)
      BY <1>1, Pair
    <3> QED
      BY <1>2, <1>3, <2>1, <3>1, PlainFirst, PlainAre, ModulesAre DEF cpu
  <2>3. Good(<<base, cpu, miss>> \o rest, p, I)
    <3>1. <<base, cpu, miss>> = <<base>> \o <<cpu, miss>> /\ <<cpu, miss>> \in Seq(Steps)
      BY <1>1
    <3> QED
      BY <1>2, <1>3, <2>2, <3>1, PlainFirst, PlainAre, ModulesAre DEF base
  <2>4. first = <<lock>> \o <<base, cpu, miss>> /\ <<base, cpu, miss>> \in Seq(Steps) /\ first \in Seq(Steps)
    BY <1>1
  <2> HIDE DEF first
  <2>5. "init" \in I /\ I \ {"init"} = {}
    BY DEF I
  <2>6. Good(first \o rest, p, I \ {"init"})
    BY <1>3, <2>3, <2>4, <2>5, LockFirst DEF lock
  <2> QED
    BY <2>4, <2>5, <2>6
<1>5. InitVms = first \o Getter("base") \o <<unlock>>
  BY DEF InitVms
<1> HIDE DEF first
<1>6. <<unlock>> \in Seq(Steps)
  BY <1>1
<1>7. InitVms = first \o rest
  BY <1>3, <1>4, <1>5, <1>6, ConcatAssociative DEF rest
<1> QED
  BY <1>4, <1>7

LEMMA GoodStopAndJoin ==
  ASSUME NEW t, NEW p, Good(t, p, {}), NEW m \in Modules
  PROVE  Good(StopAndJoin(m) \o t, p, {}) /\ StopAndJoin(m) \in Seq(Steps)
<1> DEFINE stop == <<"stop", m>>
           join == <<"join", m>>
<1>1. stop \in Steps /\ join \in Steps /\ m \in Mutexes /\ t \in Seq(Steps)
  BY ModulesAre, StepsAre DEF Kinds, Good
<1>2. Fits(stop, {}) /\ Fits(join, {})
  BY DEF Fits
<1>3. Good(<<join>> \o t, p, {})
  BY <1>1, <1>2, GoodPlain, PlainAre
<1>4. StopAndJoin(m) = <<stop, join>>
  BY DEF StopAndJoin
<1>5. Good(<<stop, join>> \o t, p, {}) /\ <<stop, join>> \in Seq(Steps)
  <2> HIDE DEF stop, join
  <2>1. <<stop, join>> = <<stop>> \o <<join>> /\ <<join>> \in Seq(Steps) /\ <<stop, join>> \in Seq(Steps)
    BY <1>1, Pair
  <2> QED
    BY <1>1, <1>2, <1>3, <2>1, PlainFirst, PlainAre DEF stop
<1> QED
  BY <1>4, <1>5

LEMMA GoodExit == ASSUME NEW p PROVE Good(Exit, p, {})
<1> DEFINE a == StopAndJoin(Shutdown[1])
           b == StopAndJoin(Shutdown[2])
           c == StopAndJoin(Shutdown[3])
<1>1. \A i \in 1..3 : Shutdown[i] \in Modules
  BY ModulesAre DEF Shutdown
<1>2. Good(c \o <<>>, p, {}) /\ c \in Seq(Steps)
  <2>1. Shutdown[3] \in Modules /\ Good(<<>>, p, {})
    BY <1>1, GoodNothing
  <2> QED
    BY <2>1, GoodStopAndJoin
<1>3. Good(c, p, {})
  BY <1>2, GoodWhole
<1>4. Good(b \o c, p, {}) /\ b \in Seq(Steps)
  BY <1>1, <1>3, GoodStopAndJoin
<1>5. Good(a \o (b \o c), p, {}) /\ a \in Seq(Steps)
  BY <1>1, <1>4, GoodStopAndJoin
<1>6. Exit = a \o b \o c
  BY DEF Exit
<1> HIDE DEF a, b, c
<1>7. (a \o b) \o c = a \o (b \o c)
  BY <1>2, <1>4, <1>5, ConcatAssociative
<1> QED
  BY <1>5, <1>6, <1>7

-------------------------------------------------------------------------------
\* What a thread may still do when its next step is done.

LEMMA GoodTail ==
  ASSUME NEW s, NEW p, NEW H, Good(s, p, H), s # <<>>
  PROVE  \E G : /\ Good(Tail(s), p, G)
                /\ H = Before(Head(s), G) /\ Fits(Head(s), H)
                /\ Head(s)[1] \in {"lock", "hand"} => Head(s)[2] \in G
                /\ Head(s)[1] \in {"test", "done"} => Tail(s) = <<>> /\ G = {} /\ Head(s)[2] = p
<1> DEFINE e == Head(s)
           t == Tail(s)
           G == Held(t, 1, {})
<1>1. /\ s \in Seq(Steps) /\ t \in Seq(Steps) /\ e \in Steps /\ e = s[1]
      /\ Len(t) \in Nat /\ Len(s) = Len(t) + 1 /\ \A i \in 1..Len(t) : t[i] = s[i + 1]
  BY DEF Good
<1>2. s = <<e>> \o t /\ <<e>> \in Seq(Steps) /\ Len(<<e>>) = 1
  BY <1>1
<1> HIDE DEF e, t
<1>3. \A i \in 1..Len(t) + 1 : Held(s, 1 + i, {}) = Held(t, i, {})
  <2> SUFFICES ASSUME NEW i \in 1..Len(t) + 1 PROVE Held(s, 1 + i, {}) = Held(t, i, {})
    OBVIOUS
  <2>1. {} \in SUBSET Mutexes
    OBVIOUS
  <2>2. Held(<<e>> \o t, Len(<<e>>) + i, {}) = Held(t, i, {})
    BY <1>1, <1>2, <2>1, HeldBehind
  <2> QED
    BY <1>2, <2>2
<1>4. Held(s, 1 + 1, {}) = G
  BY <1>1, <1>3
<1>5. H = Before(e, G)
  <2>1. 1 \in 1..Len(s) /\ {} \in SUBSET Mutexes
    BY <1>1
  <2>2. Held(s, 1, {}) = Before(s[1], Held(s, 1 + 1, {}))
    BY <1>1, <2>1, HeldFirst
  <2> QED
    BY <1>1, <1>4, <2>2 DEF Good
<1>6. /\ Fits(e, H)
      /\ e[1] \in {"lock", "hand"} => e[2] \in G
      /\ e[1] \in {"test", "done"} => Len(s) = 1 /\ e[2] = p
  <2>1. 1 \in 1..Len(s)
    BY <1>1
  <2> QED
    BY <1>1, <1>4, <2>1 DEF Good, Orderly, EndsAs
<1>7. e[1] \in {"test", "done"} => t = <<>> /\ G = {}
  <2>1. Len(t) = 0 => t = <<>>
    BY <1>1
  <2>2. t = <<>> => G = {}
    BY HeldNowhere
  <2> QED
    BY <1>1, <1>6, <2>1, <2>2
<1>8. Good(t, p, G)
  <2>1. ASSUME NEW i \in 1..Len(t)
        PROVE  /\ Fits(t[i], Held(t, i, {}))
               /\ t[i][1] \in {"lock", "hand"} => t[i][2] \in Held(t, i + 1, {})
               /\ t[i][1] \in {"test", "done"} => i = Len(t) /\ t[i][2] = p
    <3>1. i + 1 \in 1..Len(s) /\ i + 1 \in 1..Len(t) + 1 /\ i \in 1..Len(t) + 1 /\ t[i] = s[i + 1]
      BY <1>1
    <3>2. Held(s, i + 1, {}) = Held(t, i, {}) /\ Held(s, (i + 1) + 1, {}) = Held(t, i + 1, {})
      <4>1. Held(s, 1 + i, {}) = Held(t, i, {}) /\ Held(s, 1 + (i + 1), {}) = Held(t, i + 1, {})
        BY <1>3, <3>1
      <4>2. 1 + i = i + 1 /\ 1 + (i + 1) = (i + 1) + 1
        OBVIOUS
      <4> QED
        BY <4>1, <4>2
    <3>3. /\ Fits(s[i + 1], Held(s, i + 1, {}))
          /\ s[i + 1][1] \in {"lock", "hand"} => s[i + 1][2] \in Held(s, (i + 1) + 1, {})
          /\ s[i + 1][1] \in {"test", "done"} => i + 1 = Len(s) /\ s[i + 1][2] = p
      BY <3>1 DEF Good, Orderly, EndsAs
    <3> QED
      BY <1>1, <3>1, <3>2, <3>3
  <2> QED
    BY <1>1, <2>1 DEF Good, Orderly, EndsAs
<1> HIDE DEF G
<1> QED
  BY <1>5, <1>6, <1>7, <1>8 DEF e, t

\* The same for thread p in a state of the system.
LEMMA Acting ==
  ASSUME LockInv, NEW p \in Procs, NEW do, NEW m, At(p, do, m)
  PROVE  /\ todo[p] # <<>>
         /\ \E G : /\ Good(Tail(todo[p]), p, G)
                   /\ Holds(p) \subseteq Before(<<do, m>>, G) /\ Fits(<<do, m>>, Before(<<do, m>>, G))
                   /\ do \in {"lock", "hand"} => m \in G
                   /\ do \in {"test", "done"} => Tail(todo[p]) = <<>> /\ G = {} /\ m = p
<1>1. todo[p] # <<>> /\ Head(todo[p]) = <<do, m>> /\ ThreadInv(p)
  BY DEF At, LockInv
<1>2. Good(todo[p], p, Held(todo[p], 1, {})) /\ Holds(p) \subseteq Held(todo[p], 1, {})
  BY <1>1 DEF ThreadInv, Good
<1>3. PICK G : /\ Good(Tail(todo[p]), p, G)
               /\ Held(todo[p], 1, {}) = Before(<<do, m>>, G) /\ Fits(<<do, m>>, Held(todo[p], 1, {}))
               /\ <<do, m>>[1] \in {"lock", "hand"} => <<do, m>>[2] \in G
               /\ <<do, m>>[1] \in {"test", "done"}
                    => Tail(todo[p]) = <<>> /\ G = {} /\ <<do, m>>[2] = p
  <2>1. \E G : /\ Good(Tail(todo[p]), p, G)
               /\ Held(todo[p], 1, {}) = Before(Head(todo[p]), G)
               /\ Fits(Head(todo[p]), Held(todo[p], 1, {}))
               /\ Head(todo[p])[1] \in {"lock", "hand"} => Head(todo[p])[2] \in G
               /\ Head(todo[p])[1] \in {"test", "done"}
                    => Tail(todo[p]) = <<>> /\ G = {} /\ Head(todo[p])[2] = p
    BY <1>1, <1>2, GoodTail, Zenon
  <2> QED
    BY <1>1, <2>1, Zenon
<1>4. Fits(<<do, m>>, Before(<<do, m>>, G)) /\ Holds(p) \subseteq Before(<<do, m>>, G)
  BY <1>2, <1>3
<1>5. /\ do \in {"lock", "hand"} => m \in G
      /\ do \in {"test", "done"} => Tail(todo[p]) = <<>> /\ G = {} /\ m = p
  BY <1>3
<1> QED
  BY <1>1, <1>3, <1>4, <1>5

\* p goes on with s, and nobody else holds more than before.
LEMMA GoesOn ==
  ASSUME LockInv, NEW p \in Procs, NEW s, NEW H, Good(s, p, H), todo' = [todo EXCEPT ![p] = s],
         Holds(p)' \subseteq H, \A q \in Procs \ {p} : Holds(q)' \subseteq Holds(q)
  PROVE  todo' \in [Procs -> Seq(Steps)] /\ \A q \in Procs : ThreadInv(q)'
<1>1. todo' \in [Procs -> Seq(Steps)] /\ todo'[p] = s /\ \A q \in Procs \ {p} : todo'[q] = todo[q]
  BY DEF LockInv, Good
<1>2. ThreadInv(p)'
  BY <1>1 DEF ThreadInv, Good
<1>3. ASSUME NEW q \in Procs \ {p} PROVE ThreadInv(q)'
  BY <1>1, <1>3 DEF ThreadInv, LockInv
<1> QED
  BY <1>1, <1>2, <1>3

\* A worker that is not there, or has ended, has nothing left to do.
LEMMA RestIdle ==
  ASSUME LockInv, NEW p \in Procs, todo[p] # <<>>, NEW s, todo' = [todo EXCEPT ![p] = s], wk' = wk
  PROVE  \A m \in Modules : wk'[m] \notin {"runs", "told"} => todo'[m] = <<>>
  BY DEF LockInv, Procs

-------------------------------------------------------------------------------
\* Every step keeps the invariant: a mutex is locked, ...

\* The part of the invariant that most steps leave alone.
Rest == <<owner, byHand, lost, wk>>

LEMMA HoldsStay == ASSUME UNCHANGED <<owner, lost>> PROVE \A q \in Procs : Holds(q)' = Holds(q)
  BY DEF Holds

\* p's next step is done, and nothing but p's steps has changed.
LEMMA StepDone ==
  ASSUME LockInv, NEW p \in Procs, todo[p] # <<>>, UNCHANGED Rest, NEW s, NEW H, Good(s, p, H),
         todo' = [todo EXCEPT ![p] = s], Holds(p) \subseteq H
  PROVE  LockInv'
<1>1. UNCHANGED <<owner, byHand, lost, wk>>
  BY DEF Rest
<1>2. Holds(p)' \subseteq H /\ \A q \in Procs \ {p} : Holds(q)' \subseteq Holds(q)
  BY <1>1, HoldsStay
<1>3. todo' \in [Procs -> Seq(Steps)] /\ \A q \in Procs : ThreadInv(q)'
  BY <1>2, GoesOn
<1>4. \A m \in Modules : wk'[m] \notin {"runs", "told"} => todo'[m] = <<>>
  BY <1>1, RestIdle
<1> QED
  BY <1>1, <1>3, <1>4 DEF LockInv, LostByHandOnly

LEMMA PlainBefore == ASSUME NEW p, NEW t, NEW G, Good(t, p, G), NEW do, NEW m,
                            do \notin {"lock", "hand", "unlock"}
                     PROVE  Before(<<do, m>>, G) = G
<1>1. G \subseteq Mutexes
  BY GoodHolds
<1> QED
  BY <1>1 DEF Before, LocksOf

LEMMA LockKeeps == ASSUME LockInv, NEW p \in Procs, NEW m \in Mutexes, Lock(p, m) PROVE LockInv'
<1>1. PICK do \in {"lock", "hand"} : At(p, do, m)
  BY DEF Lock
<1>2. PICK G : /\ Good(Tail(todo[p]), p, G)
               /\ Holds(p) \subseteq Before(<<do, m>>, G) /\ Fits(<<do, m>>, Before(<<do, m>>, G))
               /\ m \in G
  BY <1>1, Acting
<1>3. /\ owner' = [owner EXCEPT ![m] = p] /\ lost' = lost /\ wk' = wk
      /\ todo' = [todo EXCEPT ![p] = <<>> \o Tail(todo[p])]
      /\ byHand' = IF At(p, "hand", m) THEN byHand \cup {m} ELSE byHand
  BY DEF Lock, Goes
<1>4. todo[p] # <<>> /\ <<>> \o Tail(todo[p]) = Tail(todo[p])
  BY <1>1, <1>2, Acting, ConcatEmptySeq DEF Good
<1>5. Holds(p)' \subseteq G
  <2>1. Holds(p)' \subseteq Holds(p) \cup {m}
    BY <1>3 DEF Holds, LockInv
  <2> QED
    BY <1>2, <2>1 DEF Before
<1>6. \A q \in Procs \ {p} : Holds(q)' \subseteq Holds(q)
  BY <1>3 DEF Holds, LockInv
<1>7. todo' \in [Procs -> Seq(Steps)] /\ \A q \in Procs : ThreadInv(q)'
  BY <1>2, <1>3, <1>4, <1>5, <1>6, GoesOn
<1>8. byHand' \subseteq {"cpu", "miss"}
  <2>1. CASE At(p, "hand", m)
    <3>1. do = "hand"
      BY <1>1, <2>1 DEF At
    <3>2. m \in {"cpu", "miss"}
      BY <1>2, <3>1 DEF Fits
    <3> QED
      BY <1>3, <2>1, <3>2 DEF LockInv
  <2> QED
    BY <1>3, <2>1 DEF LockInv
<1>9. owner' \in [Mutexes -> Procs \cup {Nobody}]
  BY <1>3 DEF LockInv
<1>10. \A n \in Modules : wk'[n] \notin {"runs", "told"} => todo'[n] = <<>>
  BY <1>3, <1>4, RestIdle
<1> QED
  BY <1>3, <1>7, <1>8, <1>9, <1>10 DEF LockInv, LostByHandOnly

\* ... or unlocked, ...
LEMMA UnlockKeeps == ASSUME LockInv, NEW p \in Procs, NEW m \in Mutexes, Unlock(p, m) PROVE LockInv'
<1>1. PICK G : Good(Tail(todo[p]), p, G) /\ Holds(p) \subseteq Before(<<"unlock", m>>, G)
  BY Acting DEF Unlock
<1>2. /\ owner' = [owner EXCEPT ![m] = Nobody] /\ lost' = lost /\ wk' = wk
      /\ todo' = [todo EXCEPT ![p] = <<>> \o Tail(todo[p])]
      /\ byHand' = byHand \ {m}
  BY DEF Unlock, Goes
<1>3. todo[p] # <<>> /\ <<>> \o Tail(todo[p]) = Tail(todo[p])
  BY <1>1, Acting, ConcatEmptySeq DEF Unlock, Good
<1>4. p # Nobody
  BY VmLocksAssumption DEF Procs
<1>5. Holds(p)' \subseteq G
  <2>1. Holds(p)' \subseteq Holds(p) \ {m}
    BY <1>2, <1>4 DEF Holds, LockInv
  <2> QED
    BY <1>1, <2>1 DEF Before
<1>6. \A q \in Procs \ {p} : Holds(q)' \subseteq Holds(q)
  <2> SUFFICES ASSUME NEW q \in Procs \ {p} PROVE Holds(q)' \subseteq Holds(q)
    OBVIOUS
  <2>1. q # Nobody
    BY VmLocksAssumption DEF Procs
  <2> QED
    BY <1>2, <2>1 DEF Holds, LockInv
<1>7. todo' \in [Procs -> Seq(Steps)] /\ \A q \in Procs : ThreadInv(q)'
  BY <1>1, <1>2, <1>3, <1>5, <1>6, GoesOn
<1>8. owner' \in [Mutexes -> Procs \cup {Nobody}] /\ byHand' \subseteq {"cpu", "miss"}
  BY <1>2 DEF LockInv
<1>9. \A n \in Modules : wk'[n] \notin {"runs", "told"} => todo'[n] = <<>>
  BY <1>2, <1>3, RestIdle
<1> QED
  BY <1>2, <1>7, <1>8, <1>9 DEF LockInv, LostByHandOnly

\* ... a step leads to others, ...
LEMMA LeadsKeeps == ASSUME LockInv, NEW p \in Procs, NEW m \in Modules, Leads(p, m) PROVE LockInv'
<1> DEFINE t == Tail(todo[p])
<1>1. UNCHANGED Rest /\ m \in Mutexes
  BY ModulesAre DEF Leads, Rest
\* Nothing, or what "more" stands for, comes before the steps that are left.
<1>2. ASSUME NEW do, At(p, do, m), do \notin {"lock", "hand", "unlock"}, Goes(p, <<>>) PROVE LockInv'
  <2>1. PICK G : Good(t, p, G) /\ Holds(p) \subseteq Before(<<do, m>>, G)
    BY <1>2, Acting
  <2>2. Before(<<do, m>>, G) = G
    BY <1>2, <2>1, PlainBefore
  <2>3. todo[p] # <<>> /\ <<>> \o t = t
    BY <1>2, <2>1, Acting, ConcatEmptySeq DEF Good
  <2>4. todo' = [todo EXCEPT ![p] = <<>> \o t]
    BY <1>2 DEF Goes
  <2> HIDE DEF t
  <2> QED
    BY <1>1, <2>1, <2>2, <2>3, <2>4, StepDone
<1>3. ASSUME At(p, "ask", m), Goes(p, OwnRefresh(m)) PROVE LockInv'
  <2>1. PICK G : Good(t, p, G) /\ Holds(p) \subseteq Before(<<"ask", m>>, G) /\ Fits(<<"ask", m>>, Before(<<"ask", m>>, G))
    BY <1>3, Acting
  <2>2. Before(<<"ask", m>>, G) = G
    BY <2>1, PlainBefore
  <2>3. \A n \in G : Rank[m] < Rank[n]
    BY <2>1, <2>2 DEF Fits
  <2>4. Good(OwnRefresh(m) \o t, p, G)
    BY <2>1, <2>3, GoodOwnRefresh
  <2>5. todo[p] # <<>> /\ todo' = [todo EXCEPT ![p] = OwnRefresh(m) \o t]
    BY <1>3, Acting DEF Goes
  <2> HIDE DEF t
  <2> QED
    BY <1>1, <2>1, <2>2, <2>4, <2>5, StepDone
<1>4. ASSUME At(p, "sums", m), Goes(p, Getter("base") \o << <<"callback", m>> >>) PROVE LockInv'
  <2>1. PICK G : Good(t, p, G) /\ Holds(p) \subseteq Before(<<"sums", m>>, G) /\ Fits(<<"sums", m>>, Before(<<"sums", m>>, G))
    BY <1>4, Acting
  <2>2. Before(<<"sums", m>>, G) = G /\ G \subseteq Mutexes
    BY <2>1, PlainBefore, GoodHolds
  <2>3. m = "miss" /\ \A n \in G : Rank[m] <= Rank[n]
    BY <2>1, <2>2 DEF Fits
  <2>4. Fits(<<"callback", m>>, G)
    BY <2>3 DEF Fits
  <2>5. Good(<< <<"callback", m>> >> \o t, p, G)
    BY <1>1, <2>1, <2>4, GoodPlain, PlainAre
  <2>6. "base" \in Modules /\ \A n \in G : Rank["base"] < Rank[n]
    BY <2>2, <2>3, ModulesAre
  <2>7. Good(Getter("base") \o (<< <<"callback", m>> >> \o t), p, G) /\ Getter("base") \in Seq(Steps)
    BY <2>5, <2>6, GoodGetter
  <2>8. << <<"callback", m>> >> \in Seq(Steps) /\ t \in Seq(Steps)
    <3>1. <<"callback", m>> \in Steps
      BY <1>1, StepsAre DEF Kinds
    <3> QED
      BY <2>1, <3>1 DEF Good
  <2>9. todo[p] # <<>> /\ todo' = [todo EXCEPT ![p] = (Getter("base") \o << <<"callback", m>> >>) \o t]
    BY <1>4, Acting DEF Goes
  <2> HIDE DEF t
  <2>10. (Getter("base") \o << <<"callback", m>> >>) \o t = Getter("base") \o (<< <<"callback", m>> >> \o t)
    BY <2>7, <2>8, ConcatAssociative
  <2> QED
    BY <1>1, <2>1, <2>2, <2>7, <2>9, <2>10, StepDone
<1>5. ASSUME At(p, "callback", m), NEW k \in CallbackGets[m], Goes(p, Getter(k)) PROVE LockInv'
  <2>1. PICK G : Good(t, p, G) /\ Holds(p) \subseteq Before(<<"callback", m>>, G)
                 /\ Fits(<<"callback", m>>, Before(<<"callback", m>>, G))
    BY <1>5, Acting
  <2>2. Before(<<"callback", m>>, G) = G /\ G \subseteq Mutexes
    BY <2>1, PlainBefore, GoodHolds
  <2>3. \A n \in G : Rank[m] <= Rank[n]
    BY <2>1, <2>2 DEF Fits
  <2>4. k \in Modules /\ Rank[k] < Rank[m]
    BY VmLocksAssumption
  <2>5. \A n \in G : Rank[k] < Rank[n]
    <3>1. Rank[k] \in 1..4 /\ Rank[m] \in 1..4 /\ \A n \in G : Rank[n] \in 1..4
      BY <1>1, <2>2, <2>4, ModulesAre
    <3> QED
      BY <2>3, <2>4, <3>1
  <2>6. Good(Getter(k) \o t, p, G)
    BY <2>1, <2>4, <2>5, GoodGetter
  <2>7. todo[p] # <<>> /\ todo' = [todo EXCEPT ![p] = Getter(k) \o t]
    BY <1>5, Acting DEF Goes
  <2> HIDE DEF t
  <2> QED
    BY <1>1, <2>1, <2>2, <2>6, <2>7, StepDone
<1>6. ASSUME At(p, "test", m), NEW s \in {Ending(m), Round(m)}, Goes(p, s) PROVE LockInv'
  <2>1. PICK G : /\ Good(t, p, G) /\ Holds(p) \subseteq Before(<<"test", m>>, G)
                 /\ t = <<>> /\ G = {} /\ m = p
    BY <1>6, Acting
  <2>2. Before(<<"test", m>>, G) = G
    BY <2>1, PlainBefore
  <2>3. Good(s, p, {})
    BY <2>1, GoodEnding, GoodRound
  <2>4. s \o t = s
    BY <2>1, <2>3, ConcatEmptySeq DEF Good
  <2>5. todo[p] # <<>> /\ todo' = [todo EXCEPT ![p] = s \o t]
    BY <1>6, Acting DEF Goes
  <2> HIDE DEF t
  <2> QED
    BY <1>1, <2>1, <2>2, <2>3, <2>4, <2>5, StepDone
<1>7. ASSUME At(p, "option", m), NEW s \in Option(m), Goes(p, s) PROVE LockInv'
  <2>1. PICK G : Good(t, p, G) /\ Holds(p) \subseteq Before(<<"option", m>>, G)
                 /\ Fits(<<"option", m>>, Before(<<"option", m>>, G))
    BY <1>7, Acting
  <2>2. Before(<<"option", m>>, G) = G
    BY <2>1, PlainBefore
  <2>3. \A n \in G : Rank[m] < Rank[n]
    BY <2>1, <2>2 DEF Fits
  <2>4. Good(s \o t, p, G)
    BY <2>1, <2>3, GoodOption
  <2>5. todo[p] # <<>> /\ todo' = [todo EXCEPT ![p] = s \o t]
    BY <1>7, Acting DEF Goes
  <2> HIDE DEF t
  <2> QED
    BY <1>1, <2>1, <2>2, <2>4, <2>5, StepDone
<1>8. \/ \E do \in {"ask", "poll", "pass", "sums", "callback"} : At(p, do, m) /\ Goes(p, <<>>)
      \/ At(p, "ask", m) /\ Goes(p, OwnRefresh(m))
      \/ At(p, "sums", m) /\ Goes(p, Getter("base") \o << <<"callback", m>> >>)
      \/ At(p, "callback", m) /\ \E k \in CallbackGets[m] : Goes(p, Getter(k))
      \/ At(p, "option", m) /\ \E s \in Option(m) : Goes(p, s)
      \/ At(p, "test", m) /\ \E s \in {Ending(m), Round(m)} : Goes(p, s)
  BY Zenon DEF Leads
<1> QED
  BY <1>2, <1>3, <1>4, <1>5, <1>6, <1>7, <1>8

\* ... a flag goes up or down, ...
LEMMA FlagKeeps == ASSUME LockInv, NEW p \in Procs, NEW m \in Modules, Flag(p, m) PROVE LockInv'
<1>1. PICK do \in {"raise", "clear"} : At(p, do, m)
  BY DEF Flag
<1>2. PICK G : Good(Tail(todo[p]), p, G) /\ Holds(p) \subseteq Before(<<do, m>>, G)
  BY <1>1, Acting
<1>3. Before(<<do, m>>, G) = G
  BY <1>2, PlainBefore
<1>4. todo[p] # <<>> /\ <<>> \o Tail(todo[p]) = Tail(todo[p])
  BY <1>1, <1>2, Acting, ConcatEmptySeq DEF Good
<1>5. UNCHANGED Rest /\ todo' = [todo EXCEPT ![p] = <<>> \o Tail(todo[p])]
  BY DEF Flag, Rest, Goes
<1> QED
  BY <1>2, <1>3, <1>4, <1>5, StepDone

\* ... a thread stops or joins a worker, or the worker ends, ...
LEMMA ControlKeeps == ASSUME LockInv, NEW p \in Procs, NEW m \in Modules, Control(p, m) PROVE LockInv'
<1>1. PICK do \in {"stop", "join", "done"} : At(p, do, m)
  BY DEF Control
<1>2. PICK G : /\ Good(Tail(todo[p]), p, G) /\ Holds(p) \subseteq Before(<<do, m>>, G)
               /\ do = "done" => Tail(todo[p]) = <<>> /\ m = p
  BY <1>1, Acting
<1>3. Before(<<do, m>>, G) = G
  BY <1>2, PlainBefore
<1>4. todo[p] # <<>> /\ <<>> \o Tail(todo[p]) = Tail(todo[p])
  BY <1>1, <1>2, Acting, ConcatEmptySeq DEF Good
<1>5. /\ UNCHANGED <<owner, byHand, lost>> /\ todo' = [todo EXCEPT ![p] = Tail(todo[p])]
  BY <1>4 DEF Control, Goes
<1>6. Holds(p)' \subseteq G /\ \A q \in Procs \ {p} : Holds(q)' \subseteq Holds(q)
  BY <1>2, <1>3, <1>5, HoldsStay
<1>7. todo' \in [Procs -> Seq(Steps)] /\ \A q \in Procs : ThreadInv(q)'
  BY <1>2, <1>5, <1>6, GoesOn
<1>8. At(p, "stop", m) => do = "stop"
  BY <1>1 DEF At
<1>9. /\ wk' \in [Modules -> {"none", "runs", "told", "done", "joined"}]
      /\ \A n \in Modules : n # m \/ ~At(p, "done", m) =>
            (wk'[n] \notin {"runs", "told"} => wk[n] \notin {"runs", "told"})
  BY DEF Control, LockInv
<1>10. ASSUME NEW n \in Modules, wk'[n] \notin {"runs", "told"} PROVE todo'[n] = <<>>
  <2>1. CASE n = m /\ At(p, "done", m)
    <3>1. do = "done"
      BY <1>1, <2>1 DEF At
    <3> QED
      BY <1>2, <1>5, <2>1, <3>1 DEF LockInv
  <2>2. CASE n # m \/ ~At(p, "done", m)
    <3>1. todo[n] = <<>>
      BY <1>9, <1>10, <2>2 DEF LockInv
    <3> QED
      BY <1>4, <1>5, <3>1 DEF LockInv, Procs
  <2> QED
    BY <2>1, <2>2
<1> QED
  BY <1>5, <1>7, <1>9, <1>10 DEF LockInv, LostByHandOnly

\* ... or starts it, ...
LEMMA StartKeeps == ASSUME LockInv, NEW p \in Procs, NEW m \in Modules, Start(p, m) PROVE LockInv'
<1> DEFINE starts == ~Joinable(m)
<1>1. PICK G : Good(Tail(todo[p]), p, G) /\ Holds(p) \subseteq Before(<<"start", m>>, G)
  BY Acting DEF Start
<1>2. Before(<<"start", m>>, G) = G
  BY <1>1, PlainBefore
<1>3. /\ UNCHANGED <<owner, byHand, lost>>
      /\ wk' = IF starts THEN [wk EXCEPT ![m] = "runs"] ELSE wk
      /\ todo' = [q \in Procs |-> IF q = p THEN Tail(todo[p])
                                  ELSE IF q = m /\ starts THEN << <<"test", m>> >> ELSE todo[q]]
  BY DEF Start
<1>4. todo[p] # <<>>
  BY Acting DEF Start
<1>5. starts => todo[m] = <<>> /\ m # p
  BY <1>4 DEF LockInv, Joinable
<1>6. m \in Procs
  BY DEF Procs
<1> HIDE DEF starts
<1>7. ASSUME NEW q \in Procs PROVE todo'[q] \in Seq(Steps) /\ ThreadInv(q)'
  <2>1. Holds(q)' = Holds(q)
    BY <1>3, HoldsStay
  <2>2. CASE q = p
    <3>1. todo'[q] = Tail(todo[p])
      BY <1>3, <2>2
    <3> QED
      BY <1>1, <1>2, <2>1, <2>2, <3>1 DEF ThreadInv, Good
  <2>3. CASE q # p /\ q = m /\ starts
    <3>1. todo'[q] = << <<"test", m>> >>
      BY <1>3, <2>3
    <3>2. Good(<< <<"test", m>> >>, m, {})
      BY GoodLast
    <3>3. Holds(q) = {}
      <4>1. Holds(q) \subseteq Held(<<>>, 1, {})
        BY <1>5, <2>3 DEF LockInv, ThreadInv
      <4> QED
        BY <4>1, HeldNowhere
    <3> HIDE DEF Holds
    <3> QED
      BY <2>1, <2>3, <3>1, <3>2, <3>3 DEF ThreadInv, Good
  <2>4. CASE q # p /\ ~(q = m /\ starts)
    <3>1. todo'[q] = todo[q]
      BY <1>3, <2>4
    <3> QED
      BY <2>1, <3>1 DEF ThreadInv, LockInv
  <2> QED
    BY <2>2, <2>3, <2>4
<1>8. todo' \in [Procs -> Seq(Steps)]
  BY <1>3, <1>7
<1>9. wk' \in [Modules -> {"none", "runs", "told", "done", "joined"}]
  BY <1>3 DEF LockInv
<1>10. ASSUME NEW n \in Modules, wk'[n] \notin {"runs", "told"} PROVE todo'[n] = <<>>
  <2>1. ~(n = m /\ starts) /\ wk[n] \notin {"runs", "told"}
    BY <1>3, <1>10 DEF LockInv
  <2>2. todo[n] = <<>> /\ n \in Procs /\ n # p
    BY <1>4, <2>1 DEF LockInv, Procs
  <2> QED
    BY <1>3, <2>1, <2>2
<1> QED
  BY <1>3, <1>7, <1>8, <1>9, <1>10 DEF LockInv, LostByHandOnly

\* ... an exception ends what it does, ...
LEMMA ThrowKeeps == ASSUME LockInv, NEW p \in Callers, Throw(p) PROVE LockInv'
<1>1. /\ owner' = [m \in Mutexes |-> IF owner[m] = p /\ m \notin byHand THEN Nobody ELSE owner[m]]
      /\ lost' = lost \cup {m \in byHand : owner[m] = p}
      /\ todo' = [todo EXCEPT ![p] = <<>>]
      /\ UNCHANGED <<byHand, wk>> /\ todo[p] # <<>> /\ p \in Procs
  BY DEF Throw, Fails, At, Procs
<1>2. \A q \in Procs : q # Nobody
  BY VmLocksAssumption DEF Procs
<1>3. Holds(p)' \subseteq {}
  BY <1>1, <1>2 DEF Holds
<1>4. \A q \in Procs \ {p} : Holds(q)' \subseteq Holds(q)
  BY <1>1, <1>2 DEF Holds
<1>5. todo' \in [Procs -> Seq(Steps)] /\ \A q \in Procs : ThreadInv(q)'
  BY <1>1, <1>3, <1>4, GoodNothing, GoesOn
<1>6. owner' \in [Mutexes -> Procs \cup {Nobody}] /\ lost' \subseteq {"cpu", "miss"}
  BY <1>1 DEF LockInv, LostByHandOnly
<1>7. \A n \in Modules : wk'[n] \notin {"runs", "told"} => todo'[n] = <<>>
  BY <1>1, RestIdle
<1> QED
  BY <1>1, <1>5, <1>6, <1>7 DEF LockInv, LostByHandOnly

\* ... or the process, ...
LEMMA EmptyHolds ==
  ASSUME todo = [p \in Procs |-> <<>>], owner = [m \in Mutexes |-> Nobody],
         byHand = {}, lost = {}, wk = [m \in Modules |-> "none"]
  PROVE  LockInv
<1>1. ASSUME NEW p \in Procs PROVE ThreadInv(p)
  <2>1. p # Nobody
    BY VmLocksAssumption DEF Procs
  <2>2. Holds(p) = {}
    BY <2>1 DEF Holds
  <2>3. Good(<<>>, p, {}) /\ todo[p] = <<>>
    BY GoodNothing
  <2> QED
    BY <2>2, <2>3 DEF ThreadInv, Good
<1> QED
  BY <1>1, EmptySeq DEF LockInv, LostByHandOnly, Procs

LEMMA TerminateKeeps == ASSUME NEW m \in Modules, Terminate(m) PROVE LockInv'
<1>1. ASSUME NEW p \in Procs PROVE ThreadInv(p)'
  <2>1. p # Nobody
    BY VmLocksAssumption DEF Procs
  <2>2. Holds(p)' = {}
    BY <2>1 DEF Terminate, Holds
  <2>3. Good(<<>>, p, {}) /\ todo'[p] = <<>>
    BY GoodNothing DEF Terminate
  <2> QED
    BY <2>2, <2>3 DEF ThreadInv, Good
<1> QED
  BY <1>1, EmptySeq DEF Terminate, LockInv, LostByHandOnly, Procs

\* ... and the program calls.
LEMMA CallKeeps == ASSUME LockInv, NEW c \in Callers, Call(c) \/ CallExit(c) PROVE LockInv'
<1>1. PICK s : Good(s, c, {}) /\ todo' = [todo EXCEPT ![c] = s]
  <2>1. CASE Call(c)
    <3>1. PICK s \in {Getter(m) : m \in Modules} \cup {InitVms} \cup SetParams \cup ClearParams :
            todo' = [todo EXCEPT ![c] = s]
      BY <2>1 DEF Call
    <3> QED
      BY <3>1, GoodCall, GoodInitVms, GoodSetParam, GoodClearParam
  <2>2. CASE CallExit(c)
    BY <2>2, GoodExit DEF CallExit
  <2> QED
    BY <2>1, <2>2
<1>2. todo[c] = <<>> /\ c \in Procs /\ c \notin Modules /\ UNCHANGED <<owner, byHand, lost, wk>>
  BY VmLocksAssumption DEF Call, CallExit, Procs
<1>3. Holds(c) \subseteq {}
  <2>1. Holds(c) \subseteq Held(<<>>, 1, {})
    BY <1>2 DEF LockInv, ThreadInv
  <2> QED
    BY <2>1, HeldNowhere
<1>4. Holds(c)' \subseteq {} /\ \A q \in Procs \ {c} : Holds(q)' \subseteq Holds(q)
  BY <1>2, <1>3, HoldsStay
<1>5. todo' \in [Procs -> Seq(Steps)] /\ \A q \in Procs : ThreadInv(q)'
  BY <1>1, <1>2, <1>4, GoesOn
<1>6. \A n \in Modules : wk'[n] \notin {"runs", "told"} => todo'[n] = <<>>
  BY <1>1, <1>2 DEF LockInv, Procs
<1> QED
  BY <1>2, <1>5, <1>6 DEF LockInv, LostByHandOnly

LEMMA LocksInitHolds == LocksInit => LockInv
  BY EmptyHolds DEF LocksInit

LEMMA LocksNextKeeps == LockInv /\ [LocksNext]_lvars => LockInv'
<1> SUFFICES ASSUME LockInv, [LocksNext]_lvars PROVE LockInv'
  OBVIOUS
<1>1. CASE \E c \in Callers : Call(c) \/ CallExit(c)
  BY <1>1, CallKeeps
<1>2. ASSUME NEW p \in Procs, ThreadStep(p) PROVE LockInv'
  BY <1>2, LockKeeps, UnlockKeeps, LeadsKeeps, FlagKeeps, StartKeeps, ControlKeeps DEF ThreadStep
<1>3. CASE (\E c \in Callers : Throw(c)) \/ \E m \in Modules : Terminate(m)
  BY <1>3, ThrowKeeps, TerminateKeeps
<1>4. CASE UNCHANGED lvars
  <2>1. UNCHANGED <<todo, owner, byHand, lost, wk>>
    BY <1>4 DEF lvars
  <2>2. \A p \in Procs : ThreadInv(p)'
    BY <2>1, HoldsStay DEF ThreadInv, LockInv
  <2> QED
    BY <2>1, <2>2 DEF LockInv, LostByHandOnly
<1> QED
  BY <1>1, <1>2, <1>3, <1>4 DEF LocksNext

\* Whatever the threads of the program call and whatever the callbacks ask for, what every
\* thread has left to do stays in order, and it holds only what it will unlock.
THEOREM LockInvariance == LocksSpec => []LockInv
<1> QED
  BY LocksInitHolds, LocksNextKeeps, PTL DEF LocksSpec

\* Whoever waits for a module holds only mutexes of modules above it, for any number of
\* threads and any callbacks that call down, exceptions included: no ring of threads waits
\* for one another (vm_base.cpp:173-205, vm_cpu_usage.cpp:93-119, vm_cache_miss.cpp:87-151).
THEOREM WaitersHoldFromAbove == LocksSpec => []LocksInOrder
<1>1. LockInv => LocksInOrder
  <2> SUFFICES ASSUME LockInv, NEW p \in Procs, NEW m \in Mutexes,
                      NEW do \in {"lock", "hand", "pass", "poll", "clear"}, At(p, do, m), NEW n \in Holds(p)
               PROVE  Rank[m] < Rank[n]
    BY DEF LocksInOrder
  <2>1. PICK G : Holds(p) \subseteq Before(<<do, m>>, G) /\ Fits(<<do, m>>, Before(<<do, m>>, G))
    BY Acting
  <2> QED
    BY <2>1 DEF Fits
<1> QED
  BY <1>1, LockInvariance, PTL

\* An exception loses no mutex but those of VmCpuUsage and VmCacheMiss, which refresh() locks
\* by hand (vm_cpu_usage.cpp:95-96, vm_cache_miss.cpp:120-121).
THEOREM HandLocksOnlyLost == LocksSpec => []LostByHandOnly
<1>1. LockInv => LostByHandOnly
  BY DEF LockInv
<1> QED
  BY <1>1, LockInvariance, PTL

-------------------------------------------------------------------------------
\* What the workers wait for.

LEMMA OwnAre == ASSUME NEW w \in Modules, NEW m \in Mutexes, Rank[m] <= Rank[w], NEW do \in Kinds,
                       do \notin {"option", "start", "stop", "join", "ask", "poll"}
                PROVE  <<do, m>> \in OwnSteps(w)
  BY DEF OwnSteps, Steps

LEMMA OwnGetter == ASSUME NEW w \in Modules, NEW m \in Modules, Rank[m] < Rank[w]
                   PROVE  Getter(m) \in Seq(OwnSteps(w))
<1>1. m \in Mutexes /\ Rank[m] <= Rank[w]
  BY ModulesAre
<1>2. <<"pass", m>> \in OwnSteps(w)
  BY <1>1, OwnAre DEF Kinds
<1>3. <<"ask", m>> \in OwnSteps(w) /\ <<"poll", m>> \in OwnSteps(w)
  BY <1>1 DEF OwnSteps, Steps, Kinds
<1> DEFINE a == <<"ask", m>>
           b == <<"poll", m>>
           c == <<"pass", m>>
<1>4. Getter(m) = <<a, b, c>>
  BY DEF Getter
<1> HIDE DEF a, b, c
<1> QED
  BY <1>2, <1>3, <1>4 DEF a, b, c

LEMMA OwnRefreshes == ASSUME NEW w \in Modules, NEW m \in Modules, Rank[m] <= Rank[w]
                      PROVE  Refresh[m] \in Seq(OwnSteps(w)) /\ OwnRefresh(m) \in Seq(OwnSteps(w))
<1> DEFINE S == OwnSteps(w)
<1>1. ASSUME NEW do \in {"lock", "hand", "unlock", "pass", "sums", "callback", "raise"},
             NEW n \in Mutexes, Rank[n] <= Rank[m]
      PROVE  <<do, n>> \in S
  <2>1. Rank[n] <= Rank[w]
    BY <1>1, ModulesAre
  <2> QED
    BY <1>1, <2>1, OwnAre DEF Kinds
<1>2. m # "base" => Getter("base") \in Seq(S)
  BY OwnGetter, ModulesAre
<1>3. m \in Mutexes /\ "base" \in Mutexes /\ Rank["base"] <= Rank[m] /\ Rank[m] <= Rank[m]
  BY ModulesAre
<1>4. CASE m = "base"
  <2> DEFINE a == <<"lock", "base">>
             b == <<"raise", "base">>
             c == <<"unlock", "base">>
  <2>1. a \in S /\ b \in S /\ c \in S
    BY <1>1, <1>3
  <2>2. Refresh[m] = <<a, b, c>>
    BY <1>4 DEF Refresh, RefreshBase, Modules
  <2> HIDE DEF a, b, c, S
  <2>3. Refresh[m] \in Seq(S)
    BY <2>1, <2>2
  <2> QED
    BY <1>4, <2>3 DEF OwnRefresh, S
<1>5. CASE m = "cpu"
  <2> DEFINE a == <<"hand", "cpu">>
             b == <<"unlock", "cpu">>
             c == <<"lock", "cpu">>
             d == <<"callback", "cpu">>
             e == <<"raise", "cpu">>
  <2>1. a \in S /\ b \in S /\ c \in S /\ d \in S /\ e \in S
    BY <1>1, <1>3, <1>5
  <2>2. Refresh[m] = <<a>> \o Getter("base") \o <<b, c, d, e, b>>
    BY <1>5 DEF Refresh, RefreshCpu, Modules
  <2> HIDE DEF a, b, c, d, e, S
  <2>3. Refresh[m] \in Seq(S)
    <3>1. <<a>> \in Seq(S) /\ <<b, c, d, e, b>> \in Seq(S)
      BY <2>1
    <3> HIDE DEF Getter
    <3> QED
      BY <1>2, <1>5, <2>2, <3>1, ConcatProperties
  <2> QED
    BY <1>5, <2>3, ConcatProperties DEF OwnRefresh, S
<1>6. CASE m = "miss"
  <2> DEFINE a == <<"hand", "miss">>
             b == <<"unlock", "miss">>
             c == <<"pass", "miss">>
             d == <<"lock", "miss">>
             e == <<"sums", "miss">>
             f == <<"raise", "miss">>
  <2>1. a \in S /\ b \in S /\ c \in S /\ d \in S /\ e \in S /\ f \in S
    BY <1>1, <1>3, <1>6
  <2>2. Refresh[m] = <<a>> \o Getter("base") \o <<b, c, d, e, b, f>>
    BY <1>6 DEF Refresh, RefreshMiss, Modules
  <2> HIDE DEF a, b, c, d, e, f, S
  <2>3. Refresh[m] \in Seq(S)
    <3>1. <<a>> \in Seq(S) /\ <<b, c, d, e, b, f>> \in Seq(S)
      BY <2>1
    <3> HIDE DEF Getter
    <3> QED
      BY <1>2, <1>6, <2>2, <3>1, ConcatProperties
  <2> QED
    BY <1>6, <2>3 DEF OwnRefresh, S
<1> QED
  BY <1>4, <1>5, <1>6 DEF Modules

LEMMA OwnLoop == ASSUME NEW w \in Modules
                 PROVE  Round(w) \in Seq(OwnSteps(w)) /\ Ending(w) \in Seq(OwnSteps(w))
                        /\ << <<"test", w>> >> \in Seq(OwnSteps(w))
<1> DEFINE test  == <<"test", w>>
           clear == <<"clear", w>>
           done  == <<"done", w>>
<1>1. w \in Mutexes /\ Rank[w] <= Rank[w]
  BY ModulesAre
<1>2. test \in OwnSteps(w) /\ clear \in OwnSteps(w) /\ done \in OwnSteps(w)
  BY <1>1, OwnAre DEF Kinds
<1>3. Round(w) = Refresh[w] \o <<test>> /\ Ending(w) = <<clear, done>>
  BY DEF Round, Ending
<1> HIDE DEF test, clear, done
<1>4. <<test>> \in Seq(OwnSteps(w)) /\ <<clear, done>> \in Seq(OwnSteps(w))
  BY <1>2
<1>5. Refresh[w] \in Seq(OwnSteps(w))
  BY <1>1, OwnRefreshes
<1> QED
  BY <1>3, <1>4, <1>5, ConcatProperties DEF test

\* A worker goes on with what its next step leads to.
LEMMA WorkerGoes ==
  ASSUME LockInv, WorkerInv, NEW w \in Modules, todo[w] # <<>>, NEW more \in Seq(OwnSteps(w)), Goes(w, more)
  PROVE  WorkerInv'
<1>1. Tail(todo[w]) \in Seq(OwnSteps(w)) /\ w \in Procs
  BY DEF WorkerInv, Procs
<1>2. more \o Tail(todo[w]) \in Seq(OwnSteps(w))
  BY <1>1, ConcatProperties
<1>3. todo' = [todo EXCEPT ![w] = more \o Tail(todo[w])]
  BY DEF Goes
<1> QED
  BY <1>1, <1>2, <1>3 DEF WorkerInv, LockInv

LEMMA WorkerStep ==
  ASSUME LockInv, WorkerInv, NEW w \in Modules, ThreadStep(w)
  PROVE  WorkerInv'
<1> DEFINE S == OwnSteps(w)
<1>1. <<>> \in Seq(S) /\ w \in Procs
  BY EmptySeq DEF Procs
<1>2. ASSUME NEW do, NEW m, At(w, do, m)
      PROVE  todo[w] # <<>> /\ <<do, m>> \in S
  <2>1. todo[w] # <<>> /\ Head(todo[w]) = <<do, m>> /\ todo[w] \in Seq(S)
    BY <1>2 DEF At, WorkerInv
  <2> HIDE DEF S
  <2> QED
    BY <2>1
<1>3. ASSUME NEW do, NEW m, At(w, do, m), Goes(w, <<>>) PROVE WorkerInv'
  BY <1>1, <1>2, <1>3, WorkerGoes
<1>4. ASSUME NEW m \in Mutexes, Lock(w, m) \/ Unlock(w, m) PROVE WorkerInv'
  BY <1>3, <1>4 DEF Lock, Unlock
<1>5. ASSUME NEW m \in Modules, Flag(w, m) \/ Control(w, m) PROVE WorkerInv'
  BY <1>3, <1>5 DEF Flag, Control
<1>6. ASSUME NEW m \in Modules, Start(w, m) PROVE FALSE
  BY <1>2, <1>6 DEF Start, OwnSteps
<1>7. ASSUME NEW m \in Modules, Leads(w, m) PROVE WorkerInv'
  <2>1. \/ \E do \in {"ask", "poll", "pass", "sums", "callback"} : At(w, do, m) /\ Goes(w, <<>>)
        \/ At(w, "ask", m) /\ Goes(w, OwnRefresh(m))
        \/ At(w, "sums", m) /\ Goes(w, Getter("base") \o << <<"callback", m>> >>)
        \/ At(w, "callback", m) /\ \E k \in CallbackGets[m] : Goes(w, Getter(k))
        \/ At(w, "option", m)
        \/ At(w, "test", m) /\ \E s \in {Ending(m), Round(m)} : Goes(w, s)
    BY <1>7, Zenon DEF Leads
  <2>2. m \in Mutexes /\ Rank[m] \in 1..4 /\ Rank[w] \in 1..4
    BY ModulesAre
  <2>3. CASE At(w, "ask", m) /\ Goes(w, OwnRefresh(m))
    <3>1. Rank[m] <= Rank[w]
      BY <1>2, <2>3 DEF OwnSteps
    <3>2. OwnRefresh(m) \in Seq(S)
      BY <3>1, OwnRefreshes
    <3> QED
      BY <1>2, <2>3, <3>2, WorkerGoes
  <2>4. CASE At(w, "sums", m) /\ Goes(w, Getter("base") \o << <<"callback", m>> >>)
    <3>1. m = "miss" /\ Rank[m] <= Rank[w]
      <4>1. PICK G : Fits(<<"sums", m>>, Before(<<"sums", m>>, G))
        BY <1>1, <2>4, Acting
      <4> QED
        BY <1>2, <2>4, <4>1 DEF Fits, OwnSteps
    <3>2. Getter("base") \in Seq(S)
      BY <3>1, OwnGetter, ModulesAre
    <3>3. << <<"callback", m>> >> \in Seq(S)
      <4>1. <<"callback", m>> \in S
        BY <2>2, <3>1, OwnAre DEF Kinds
      <4> HIDE DEF S
      <4> QED
        BY <4>1
    <3>4. Getter("base") \o << <<"callback", m>> >> \in Seq(S)
      BY <3>2, <3>3, ConcatProperties
    <3> QED
      BY <1>2, <2>4, <3>4, WorkerGoes
  <2>5. CASE At(w, "callback", m) /\ \E k \in CallbackGets[m] : Goes(w, Getter(k))
    <3>1. PICK k \in CallbackGets[m] : Goes(w, Getter(k))
      BY <2>5
    <3>2. k \in Modules /\ Rank[k] < Rank[m] /\ Rank[k] \in 1..4
      BY VmLocksAssumption, ModulesAre
    <3>3. Rank[m] <= Rank[w]
      BY <1>2, <2>5 DEF OwnSteps
    <3>4. Getter(k) \in Seq(S)
      BY <2>2, <3>2, <3>3, OwnGetter
    <3> QED
      BY <1>2, <2>5, <3>1, <3>4, WorkerGoes
  <2>6. CASE At(w, "test", m) /\ \E s \in {Ending(m), Round(m)} : Goes(w, s)
    <3>1. m = w
      BY <1>1, <2>6, Acting
    <3> QED
      BY <1>2, <2>6, <3>1, OwnLoop, WorkerGoes
  <2>7. ~At(w, "option", m)
    BY <1>2 DEF OwnSteps
  <2> QED
    BY <1>3, <2>1, <2>3, <2>4, <2>5, <2>6, <2>7
<1> QED
  BY <1>4, <1>5, <1>6, <1>7 DEF ThreadStep

LEMMA NextWorker == LockInv /\ WorkerInv /\ [LocksNext]_lvars => WorkerInv'
<1> SUFFICES ASSUME LockInv, WorkerInv, [LocksNext]_lvars PROVE WorkerInv'
  OBVIOUS
<1>1. ASSUME NEW p \in Callers, NEW s, todo' = [todo EXCEPT ![p] = s] PROVE WorkerInv'
  BY <1>1, VmLocksAssumption DEF WorkerInv, LockInv, Procs
<1>2. CASE \E c \in Callers : Call(c) \/ CallExit(c)
  BY <1>1, <1>2 DEF Call, CallExit
<1>3. ASSUME NEW p \in Callers, ThreadStep(p) PROVE WorkerInv'
  <2>1. CASE \E m \in Modules : Start(p, m)
    <3>1. PICK m \in Modules : Start(p, m)
      BY <2>1
    <3>2. \A w \in Modules : todo'[w] \in {todo[w], << <<"test", w>> >>}
      BY <1>3, <3>1, VmLocksAssumption DEF Start, Procs
    <3> QED
      BY <3>2, OwnLoop DEF WorkerInv
  <2>2. CASE ~\E m \in Modules : Start(p, m)
    <3>1. \E more : Goes(p, more)
      BY <1>3, <2>2 DEF ThreadStep, Lock, Unlock, Leads, Flag, Control
    <3> QED
      BY <1>1, <1>3, <3>1 DEF Goes
  <2> QED
    BY <2>1, <2>2
<1>4. ASSUME NEW w \in Modules, ThreadStep(w) PROVE WorkerInv'
  BY <1>4, WorkerStep
<1>5. CASE (\E c \in Callers : Throw(c)) \/ \E m \in Modules : Terminate(m)
  <2>1. \A m : <<>> \in Seq(OwnSteps(m))
    BY EmptySeq
  <2> QED
    BY <1>1, <1>5, <2>1 DEF Throw, Terminate, WorkerInv, Procs
<1>6. CASE UNCHANGED lvars
  BY <1>6 DEF lvars, WorkerInv
<1> QED
  BY <1>2, <1>3, <1>4, <1>5, <1>6 DEF LocksNext, Procs

LEMMA WorkersWaitBelow == LocksSpec => []WorkerInv
<1>1. LocksInit => WorkerInv
  BY EmptySeq DEF LocksInit, WorkerInv, Procs
<1> QED
  BY <1>1, NextWorker, LockInvariance, PTL DEF LocksSpec

\* A set of numbers without a least one is empty.
LEMMA NoLeast == ASSUME NEW T \in SUBSET (1..10), \A x \in T : \E y \in T : y < x PROVE T = {}
<1>1. \A i \in 1..3 : i \notin T
  <2>1. 1 \notin T
    OBVIOUS
  <2>2. 2 \notin T
    BY <2>1
  <2> QED
    BY <2>1, <2>2
<1>2. \A i \in 4..6 : i \notin T
  <2>1. 4 \notin T
    BY <1>1
  <2>2. 5 \notin T
    BY <1>1, <2>1
  <2> QED
    BY <1>1, <2>1, <2>2
<1>3. \A i \in 7..10 : i \notin T
  <2>1. 7 \notin T
    BY <1>1, <1>2
  <2>2. 8 \notin T
    BY <1>1, <1>2, <2>1
  <2>3. 9 \notin T
    BY <1>1, <1>2, <2>1, <2>2
  <2> QED
    BY <1>1, <1>2, <2>1, <2>2, <2>3
<1> QED
  BY <1>1, <1>2, <1>3

\* No threads, whoever they are and however many, wait for one another in a ring, for mutexes,
\* data or the end of a worker: who holds a mutex waits for something lower, and so does a
\* worker whose data or end somebody waits for (vm_base.cpp:76-84, 173-205,
\* vm_cpu_usage.cpp:93-119, vm_cache_miss.cpp:87-151, runnable.cpp:48-58).
THEOREM NobodyWaitsInARing == LocksSpec => []NoRing
<1>1. LockInv /\ LocksInOrder /\ WorkerInv => NoRing
  <2> SUFFICES ASSUME LockInv, LocksInOrder, WorkerInv,
                      NEW S \in SUBSET Procs, \A p \in S : WaitsIn(p, S)
               PROVE  S = {}
    BY DEF NoRing
  \* How high the things are that the threads in S wait for.
  <2> DEFINE ForMutex(p, m) == /\ \E do \in {"lock", "hand", "pass", "clear"} : At(p, do, m)
                               /\ m \in Mutexes \ lost /\ owner[m] \in S
             ForData(p, m) == At(p, "poll", m) /\ m \in Modules \cap S
             ForEnd(p, m)  == At(p, "join", m) /\ m \in Modules \cap S
             Level(l, p, m) == \/ ForMutex(p, m) /\ l = 2 * Rank[m]
                               \/ ForData(p, m) /\ l = 2 * Rank[m] + 1
                               \/ ForEnd(p, m) /\ l = 10
             T == {l \in 1..10 : \E p \in S, m \in Mutexes : Level(l, p, m)}
  <2>1. ASSUME NEW p \in S, NEW m \in Mutexes
        PROVE  /\ ForMutex(p, m) => 2 * Rank[m] \in T
               /\ ForData(p, m) => 2 * Rank[m] + 1 \in T /\ Rank[m] <= 3
               /\ ForEnd(p, m) => 10 \in T
    <3>1. Rank[m] \in 1..4 /\ (m \in Modules => Rank[m] <= 3)
      BY ModulesAre
    <3>2. 2 * Rank[m] \in 1..10 /\ 2 * Rank[m] + 1 \in 1..10 /\ 10 \in 1..10
      BY <3>1
    <3> HIDE DEF ForMutex
    <3> QED
      BY <3>1, <3>2
  <2>2. ASSUME NEW p \in S
        PROVE  \E m \in Mutexes : ForMutex(p, m) \/ ForData(p, m) \/ ForEnd(p, m)
    <3>1. WaitsIn(p, S) /\ Modules \subseteq Mutexes
      BY DEF Mutexes
    <3> QED
      BY <3>1 DEF WaitsIn
  \* A worker waits for what is not above its module, and joins nobody.
  <2>3. ASSUME NEW w \in Modules, NEW do, NEW m, At(w, do, m)
        PROVE  Rank[m] <= Rank[w] /\ do # "join" /\ (do = "poll" => Rank[m] < Rank[w])
    <3>1. todo[w] \in Seq(OwnSteps(w)) /\ todo[w] # <<>> /\ Head(todo[w]) = <<do, m>>
      BY <2>3 DEF WorkerInv, At
    <3>2. <<do, m>> \in OwnSteps(w)
      BY <3>1
    <3> QED
      BY <3>2 DEF OwnSteps
  <2>4. ASSUME NEW p \in S, NEW m \in Mutexes, ForMutex(p, m)
        PROVE  \E l \in T : l < 2 * Rank[m]
    <3> DEFINE q == owner[m]
    <3>1. q \in S /\ q \in Procs /\ m \in Holds(q)
      BY <2>4 DEF Holds
    <3>2. PICK n \in Mutexes : ForMutex(q, n) \/ ForData(q, n) \/ ForEnd(q, n)
      BY <2>2, <3>1
    <3>3. ~ForEnd(q, n)
      <4> SUFFICES ASSUME At(q, "join", n) PROVE FALSE
        OBVIOUS
      <4>1. PICK G : Holds(q) \subseteq Before(<<"join", n>>, G) /\ Fits(<<"join", n>>, Before(<<"join", n>>, G))
        BY <3>1, Acting
      <4> QED
        BY <3>1, <4>1 DEF Fits
    <3>4. Rank[n] < Rank[m]
      BY <3>1, <3>2, <3>3 DEF LocksInOrder
    <3>5. 2 * Rank[n] \in T \/ 2 * Rank[n] + 1 \in T
      BY <2>1, <3>1, <3>2, <3>3
    <3>6. Rank[n] \in 1..4 /\ Rank[m] \in 1..4
      BY ModulesAre
    <3> HIDE DEF T, q
    <3> QED
      BY <3>4, <3>5, <3>6
  <2>5. ASSUME NEW m \in Modules \cap S
        PROVE  \E l \in T : l < 2 * Rank[m] + 1
    <3>1. PICK n \in Mutexes : ForMutex(m, n) \/ ForData(m, n) \/ ForEnd(m, n)
      BY <2>2
    <3>2. Rank[n] <= Rank[m] /\ ~ForEnd(m, n) /\ (ForData(m, n) => Rank[n] < Rank[m])
      BY <2>3, <3>1
    <3>3. \/ 2 * Rank[n] \in T
          \/ 2 * Rank[n] + 1 \in T /\ Rank[n] < Rank[m]
      BY <2>1, <3>1, <3>2
    <3>4. Rank[n] \in 1..4 /\ Rank[m] \in 1..4
      BY ModulesAre
    <3> HIDE DEF T
    <3> QED
      BY <3>2, <3>3, <3>4
  <2>6. \A l \in T : \E k \in T : k < l
    <3> SUFFICES ASSUME NEW l \in T PROVE \E k \in T : k < l
      OBVIOUS
    <3>1. PICK p \in S, m \in Mutexes : Level(l, p, m)
      OBVIOUS
    <3>2. CASE ForMutex(p, m) /\ l = 2 * Rank[m]
      BY <2>4, <3>2
    <3>3. CASE ForData(p, m) /\ l = 2 * Rank[m] + 1
      BY <2>5, <3>3
    <3>4. CASE ForEnd(p, m) /\ l = 10
      <4>1. PICK k \in T : k < 2 * Rank[m] + 1
        BY <2>5, <3>4
      <4>2. Rank[m] \in 1..4 /\ k \in 1..10
        BY ModulesAre
      <4> HIDE DEF T
      <4> QED
        BY <3>4, <4>1, <4>2
    <3> QED
      BY <3>1, <3>2, <3>3, <3>4
  <2>7. T = {}
    <3>1. T \in SUBSET (1..10)
      OBVIOUS
    <3> HIDE DEF T
    <3> QED
      BY <2>6, <3>1, NoLeast
  <2>8. ASSUME NEW p \in S PROVE FALSE
    <3>1. PICK m \in Mutexes : ForMutex(p, m) \/ ForData(p, m) \/ ForEnd(p, m)
      BY <2>2
    <3> HIDE DEF T, ForMutex, ForData, ForEnd
    <3> QED
      BY <2>1, <2>7, <3>1
  <2> QED
    BY <2>8
<1> QED
  BY <1>1, LockInvariance, WaitersHoldFromAbove, WorkersWaitBelow, PTL
================================================================================
