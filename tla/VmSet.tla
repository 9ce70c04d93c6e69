--------------------------------- MODULE VmSet ---------------------------------
(****************************************************************************)
(* The framework's option registry and its VM side: FuncOption              *)
(* (src/src/utils/func_option.cpp), VmSet (src/src/framework/vm.cpp) and    *)
(* the calls of Vsf that reach them (src/src/vsf.cpp).                      *)
(*                                                                          *)
(* options_ maps each enabled option to its parameters.  A CALLBACK         *)
(* parameter is a pointer to a heap object that the program allocated with  *)
(* VmBaseCallback(f) and VmSet frees; set_callback() copies the function    *)
(* out of that object into the option's module.                             *)
(*                                                                          *)
(* FuncOption locks each of its own calls; VmSet locks only init_vms().     *)
(* The steps between two locked calls are actions of their own.             *)
(****************************************************************************)
EXTENDS Naturals, FiniteSets, Sequences

CONSTANTS Clients,   \* the program's threads
          Ptrs,      \* addresses of callback objects; freed ones are reused
          Ops,       \* the member functions the clients call
          Clearable, \* the options they pass to clear_param()
          Serialised \* TRUE: one call at a time

Options == <<"base", "cpu", "miss">>  \* OP_VM_BASE, OP_VM_CPU_USAGE, OP_VM_CACHE_MISS
Opts    == {Options[i] : i \in 1..3}

ASSUME VmSetAssumption == /\ Ops \subseteq {"set_param", "clear_param", "init_vms"}
                          /\ Clearable \subseteq Opts
                          /\ Serialised \in BOOLEAN
                          /\ Ptrs \cap {"absent", "null"} = {}

\* A value of the CALLBACK parameter: not in the map, a null pointer, or an object.
CbVals == Ptrs \cup {"absent", "null"}

\* One option's parameters: the callback, and the intervals and command taken
\* together ("absent": not in the map).
Params == [cb : CbVals, tune : {"absent", "default", "custom"}]

DefaultParams == [cb |-> "null", tune |-> "default"]

VARIABLES options_,   \* options_[o]: the parameters of o, or {} when not enabled
          heap,       \* the callback objects that are allocated
          module,     \* module[o]: the callback copy and intervals o's module holds
          running,    \* the modules whose worker init_vms() has started
          initing,    \* the client that holds init_vms_mutex_, as a set
          call,       \* call[c]: the call c is in and how far it is
          fault,      \* the first undefined behaviour, which ends the program
          forgotten,  \* the objects whose only pointer clear_param() has overwritten
          swept       \* the options whose module clear_param() has reset, but not the registry

history == <<forgotten, swept>>
vars    == <<options_, heap, module, running, initing, call, fault, history>>

Idle == [op |-> "idle", opt |-> "base", stage |-> 1, step |-> "", params |-> DefaultParams]

Calls == [op : {"idle", "set_param", "clear_param", "init_vms"}, opt : Opts, stage : 1..3,
          step : {"", "delete", "apply", "enable", "module", "start"}, params : Params]

Enabled(o) == options_[o] # {}             \* FuncOption::check_option
ParamOf(o) == CHOOSE p \in options_[o] : TRUE   \* FuncOption::get_param
\* Fault: enable_option() only inserts, and keeps the entry that is there.
EnableInserts(o, p) == options_' = [options_ EXCEPT ![o] = IF @ = {} THEN {p} ELSE @]

Enable(o, p) == options_' = [options_ EXCEPT ![o] = {p}]  \* FuncOption::enable_option

\* Vsf::init() with the options the program chose, each with its own callback or none.
Init == /\ \E chosen \in SUBSET Opts, cbs \in [Opts -> Ptrs \cup {"absent"}] :
             /\ \A o, u \in chosen : o # u /\ cbs[o] # "absent" => cbs[o] # cbs[u]
             /\ \A o \in Opts \ chosen : cbs[o] = "absent"
             /\ options_ = [o \in Opts |-> IF o \in chosen THEN {[cb |-> cbs[o], tune |-> "custom"]}
                                           ELSE {}]
             /\ heap = {cbs[o] : o \in chosen} \ {"absent"}
        /\ module = [o \in Opts |-> [cb |-> "none", tune |-> "default"]]
        /\ running = {}
        /\ initing = {}
        /\ call = [c \in Clients |-> Idle]
        /\ fault = "none"
        /\ forgotten = {}
        /\ swept = {}

Ready(c, op, step) == /\ fault = "none"
                      /\ call[c].op = op
                      /\ call[c].step = step

Advance(c, r) == call' = [call EXCEPT ![c] = r]

Step(c, step) == Advance(c, [call[c] EXCEPT !.step = step])

MayCall(c, op) == /\ fault = "none"
                  /\ op \in Ops
                  /\ call[c].op = "idle"
                  /\ Serialised => \A d \in Clients : call[d].op = "idle"

-------------------------------------------------------------------------------
\* delete_callback(o): free the object that o's CALLBACK parameter points to.

\* Fault: delete_callback() does nothing.
DeleteNothing(o) == UNCHANGED <<heap, fault>>

Delete(o) == LET cb == IF Enabled(o) THEN ParamOf(o).cb ELSE "absent" IN
             /\ heap' = heap \ {cb}
             /\ fault' = IF cb \in Ptrs \ heap THEN "double_free" ELSE fault

\* Fault: the callback is looked at but not handed to the module.
ApplyTuneOnly(o, p) == /\ module' = [module EXCEPT
                            ![o].tune = IF p.tune = "absent" THEN @ ELSE p.tune]
                       /\ fault' = IF p.cb = "null" THEN "null_deref"
                                   ELSE IF p.cb \in Ptrs \ heap THEN "use_after_free"
                                   ELSE fault
                       /\ swept' = swept \ {o}

\* set_param_by_option(o, p): hand the parameters that are in the map to the module;
\* the callback is copied out of the object p points to.
Apply(o, p) == /\ module' = [module EXCEPT
                    ![o] = [cb   |-> IF p.cb = "absent" THEN @.cb ELSE p.cb,
                            tune |-> IF p.tune = "absent" THEN @.tune ELSE p.tune]]
               /\ fault' = IF p.cb = "null" THEN "null_deref"
                           ELSE IF p.cb \in Ptrs \ heap THEN "use_after_free"
                           ELSE fault
               /\ swept' = swept \ {o}

-------------------------------------------------------------------------------
\* set_param({o, p}); Vsf::set_param passes one option at a time.

SetParamCall(c) == /\ MayCall(c, "set_param")
                   /\ \E o \in Opts, tune \in {"absent", "custom"} :
                        \E cb \in (Ptrs \ heap) \cup {"absent"} :
                          /\ heap' = heap \cup ({cb} \ {"absent"})
                          /\ Advance(c, [op |-> "set_param", opt |-> o, stage |-> 1,
                                         step |-> "delete", params |-> [cb |-> cb, tune |-> tune]])
                   /\ UNCHANGED <<options_, module, running, initing, fault, history>>

SetParamDelete(c) == /\ Ready(c, "set_param", "delete")
                     /\ Delete(call[c].opt)
                     /\ Step(c, "apply")
                     /\ UNCHANGED <<options_, module, running, initing, history>>

SetParamApply(c) == /\ Ready(c, "set_param", "apply")
                    /\ Apply(call[c].opt, call[c].params)
                    /\ Step(c, "enable")
                    /\ UNCHANGED <<options_, heap, running, initing, forgotten>>

SetParamEnable(c) == /\ Ready(c, "set_param", "enable")
                     /\ Enable(call[c].opt, call[c].params)
                     /\ Advance(c, Idle)
                     /\ UNCHANGED <<heap, module, running, initing, fault, history>>

-------------------------------------------------------------------------------
\* clear_param({o}).  The cases of its switch have no break: it goes on through the
\* cases of the options after o, and every case asks check_option() and
\* delete_callback() about o itself.

StageOf(o) == CHOOSE i \in 1..3 : Options[i] = o

ClearParamCall(c) == /\ MayCall(c, "clear_param")
                     /\ \E o \in Clearable :
                          Advance(c, [Idle EXCEPT !.op = "clear_param", !.opt = o,
                                                  !.stage = StageOf(o), !.step = "delete"])
                     /\ UNCHANGED <<options_, heap, module, running, initing, fault, history>>

ClearParamDelete(c) == /\ Ready(c, "clear_param", "delete")
                       /\ IF Enabled(call[c].opt)
                            THEN Delete(call[c].opt) /\ Step(c, "enable")
                            ELSE UNCHANGED <<heap, fault>> /\ Step(c, "module")
                       /\ UNCHANGED <<options_, module, running, initing, history>>

ClearParamEnable(c) == LET o == Options[call[c].stage] IN
                       /\ Ready(c, "clear_param", "enable")
                       /\ Enable(o, DefaultParams)
                       /\ forgotten' = forgotten \cup ({p.cb : p \in options_[o]} \cap heap)
                       /\ Step(c, "module")
                       /\ UNCHANGED <<heap, module, running, initing, fault, swept>>

\* The module's own clear_param(), then the next case.
ClearParamModule(c) ==
    LET o == Options[call[c].stage] IN
    /\ Ready(c, "clear_param", "module")
    /\ module' = [module EXCEPT ![o] = [cb |-> "none", tune |-> "default"]]
    /\ swept' = IF o # call[c].opt /\ ~Enabled(call[c].opt) THEN swept \cup {o} ELSE swept
    /\ Advance(c, IF call[c].stage = 3 THEN Idle
                  ELSE [call[c] EXCEPT !.stage = @ + 1, !.step = "delete"])
    /\ UNCHANGED <<options_, heap, running, initing, fault, forgotten>>

-------------------------------------------------------------------------------
\* init_vms(): for each option in turn, hand the registered parameters to the
\* module and start it.

InitVmsCall(c) == /\ MayCall(c, "init_vms")
                  /\ initing = {}
                  /\ initing' = {c}
                  /\ Advance(c, [Idle EXCEPT !.op = "init_vms", !.step = "apply"])
                  /\ UNCHANGED <<options_, heap, module, running, fault, history>>

InitVmsApply(c) == LET o == Options[call[c].stage] IN
                   /\ Ready(c, "init_vms", "apply")
                   /\ IF Enabled(o) THEN Apply(o, ParamOf(o)) ELSE UNCHANGED <<module, fault, swept>>
                   /\ Step(c, "start")
                   /\ UNCHANGED <<options_, heap, running, initing, forgotten>>

InitVmsStart(c) == LET o == Options[call[c].stage] IN
                   /\ Ready(c, "init_vms", "start")
                   /\ running' = IF Enabled(o) THEN running \cup {o} ELSE running
                   /\ IF call[c].stage = 3
                        THEN Advance(c, Idle) /\ initing' = {}
                        ELSE Advance(c, [call[c] EXCEPT !.stage = @ + 1, !.step = "apply"])
                             /\ UNCHANGED initing
                   /\ UNCHANGED <<options_, heap, module, fault, history>>

Next == \E c \in Clients :
          \/ SetParamCall(c) \/ SetParamDelete(c) \/ SetParamApply(c) \/ SetParamEnable(c)
          \/ ClearParamCall(c) \/ ClearParamDelete(c) \/ ClearParamEnable(c) \/ ClearParamModule(c)
          \/ InitVmsCall(c) \/ InitVmsApply(c) \/ InitVmsStart(c)

Spec == Init /\ [][Next]_vars

-------------------------------------------------------------------------------
TypeOK == /\ options_ \in [Opts -> {{}} \cup {{p} : p \in Params}]
          /\ heap \subseteq Ptrs
          /\ module \in [Opts -> [cb : CbVals \cup {"none"}, tune : {"default", "custom"}]]
          /\ running \subseteq Opts
          /\ initing \subseteq Clients
          /\ call \in [Clients -> Calls]
          /\ fault \in {"none", "double_free", "use_after_free", "null_deref"}
          /\ forgotten \subseteq heap
          /\ swept \subseteq Opts

Resting == \A c \in Clients : call[c].op = "idle"

\* Callback objects are never freed twice nor read after they were freed, whatever
\* clear_param() leaves in the registry; the one fault is that init_vms() reads through
\* the null that clear_param() registers (vm.cpp:36-38, 50-60, 176).
NoDangling == fault \notin {"double_free", "use_after_free"}

\* Between calls the registry owns every callback object there is, each once: set_param()
\* frees the one it replaces.  Lost are only those of the options that clear_param() of
\* another option falls through to (vm.cpp:28-96).
NoLeak == Resting /\ fault = "none"
            => /\ heap \ forgotten = {p.cb : p \in UNION {options_[o] : o \in Opts}} \cap Ptrs
               /\ \A o, u \in Opts : \A p \in options_[o], q \in options_[u] :
                    p.cb = q.cb /\ p.cb \in Ptrs => o = u

\* o's module holds what is registered for o.
Agrees(o) == \A p \in options_[o] :
                /\ p.cb \in Ptrs => module[o].cb = p.cb
                /\ p.tune # "absent" => module[o].tune = p.tune

\* Between calls a running module works with what is registered for its option: nothing
\* registered is lost on the way to the module.  Only clear_param() of an option that is
\* not enabled resets modules further down behind the registry's back (vm.cpp:46-96,
\* 155-219, 221-246).
ModulesAgree == Resting /\ fault = "none" => \A o \in running \ swept : Agrees(o)

-------------------------------------------------------------------------------
\* The inductive invariant of one call at a time: who points to which object.

\* o is registered with a pointer that call k has freed and is about to replace.
Freed(k, o) == /\ k.opt = o
               /\ \/ k.op = "set_param" /\ k.step \in {"apply", "enable"}
                  \/ k.op = "clear_param" /\ k.step = "enable"

CallInv(k) ==
    /\ k.op = "set_param" =>
          /\ k.step \in {"delete", "apply", "enable"}
          /\ k.params.cb \in heap \cup {"absent"}
          /\ k.params.cb \notin forgotten
          /\ \A o \in Opts : \A p \in options_[o] : p.cb = k.params.cb => p.cb \notin Ptrs
    /\ k.op = "clear_param" =>
          /\ k.step \in {"delete", "enable", "module"}
          /\ StageOf(k.opt) \leq k.stage
          /\ StageOf(k.opt) < k.stage => options_[k.opt] \subseteq {DefaultParams}
          /\ k.step = "module" => options_[k.opt] \subseteq {DefaultParams}

OneCall == \A c, d \in Clients : call[c].op # "idle" /\ call[d].op # "idle" => c = d

\* No two options are registered with the same object.
Distinct == \A o, u \in Opts : \A p \in options_[o], q \in options_[u] :
               p.cb = q.cb /\ p.cb \in Ptrs => o = u

\* A registered object is alive, unless the call under way has just freed it.
Alive == \A o \in Opts : \A p \in options_[o] :
            p.cb \in Ptrs => /\ p.cb \notin forgotten
                            /\ (p.cb \in heap <=> ~\E c \in Clients : Freed(call[c], o))

\* An object is registered, about to be, or forgotten.
Owned == \A a \in heap \ forgotten : \/ \E o \in Opts : \E p \in options_[o] : p.cb = a
                                    \/ \E c \in Clients : /\ call[c].op = "set_param"
                                                          /\ call[c].params.cb = a

SetInv == /\ TypeOK
          /\ OneCall
          /\ fault \in {"none", "null_deref"}
          /\ \A c \in Clients : CallInv(call[c])
          /\ Distinct
          /\ Alive
          /\ Owned

-------------------------------------------------------------------------------
\* The inductive invariant of the modules: where a call has got to with them.

\* k is between the module and the registry of o.
Between(k, o) == \/ k.op = "set_param" /\ k.step = "enable" /\ o = k.opt
                 \/ k.op = "clear_param" /\ k.step = "module" /\ o = Options[k.stage] /\ Enabled(k.opt)

CallModInv(k) ==
    /\ (k.op = "set_param" /\ k.step = "enable") =>
          /\ k.params.cb # "absent" => module[k.opt].cb = k.params.cb
          /\ k.params.tune # "absent" => module[k.opt].tune = k.params.tune
    /\ (k.op = "clear_param" /\ k.step = "enable") => Enabled(k.opt)
    /\ (k.op = "clear_param" /\ k.step = "module" /\ Enabled(k.opt)) =>
          options_[Options[k.stage]] = {DefaultParams}
    /\ k.op = "init_vms" => k.step \in {"apply", "start"}
    /\ (k.op = "init_vms" /\ k.step = "start") => Agrees(Options[k.stage])

ModInv == fault = "none" =>
            /\ \A c \in Clients : CallModInv(call[c])
            /\ \A o \in running \ swept : Agrees(o) \/ \E c \in Clients : Between(call[c], o)
================================================================================
