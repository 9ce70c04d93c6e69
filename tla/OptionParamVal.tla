---------------------------- MODULE OptionParamVal ----------------------------
(****************************************************************************)
(* OptionParamVal (src/src/utils/func_option.cpp): the value of an option's *)
(* parameter, a union of a std::string and plain members with a tag beside  *)
(* it.  The union runs no constructor or destructor by itself: the string's *)
(* life is begun and ended by hand.  Host (src/src/framework/host.cpp)      *)
(* turns maps of such values into the benchmark's parameters and back.      *)
(*                                                                          *)
(* An object has its tag (type), what the member of that type holds (val),  *)
(* and whether a string lives in the union (string): "none", "alive", or    *)
(* "bad" after a string was used or ended without being alive, or buried    *)
(* alive under another member.                                              *)
(****************************************************************************)

CONSTANTS Slots,       \* places for objects: entries of maps and temporaries
          Contents,    \* what a member may hold
          Zero,        \* "", 0, 0.0 and nullptr
          NoObject,    \* an empty place, or a parameter that is not in a map
          DefaultParam \* MicroParam(), by field

Types  == {"STR", "CHAR", "INT", "DBL", "PTR"}
Fields == {"path", "size_in_mb", "type", "loop"}

\* The type that each field of MicroParam has as a parameter.
TypeOf == [path |-> "STR", size_in_mb |-> "INT", type |-> "CHAR", loop |-> "INT"]

Objects == [type : Types, val : Contents, string : {"none", "alive"}]

ASSUME OptionParamValAssumption == /\ Zero \in Contents
                                   /\ NoObject \notin Objects
                                   /\ DefaultParam \in [Fields -> Contents]

VARIABLE slot  \* slot[s]: the object at s, or NoObject

OInit == slot = [s \in Slots |-> NoObject]

-------------------------------------------------------------------------------
\* What happens to the string of the union.

Object(t, v, str) == [type |-> t, val |-> v, string |-> str]

BeginString(u, v) == Object(u.type, v, IF u.string = "none" THEN "alive" ELSE "bad")
EndString(u)      == Object(u.type, u.val, IF u.string = "alive" THEN "none" ELSE "bad")
SetString(u, v)   == Object(u.type, v, IF u.string = "alive" THEN "alive" ELSE "bad")
SetPlain(u, v)    == Object(u.type, v, IF u.string = "none" THEN "none" ELSE "bad")
SetType(u, t)     == Object(t, u.val, u.string)

\* copy_union()
CopyUnion(u, o) == IF o.type = "STR" THEN BeginString(u, o.val) ELSE SetPlain(u, o.val)

\* The constructors, on memory of which nothing is known but that no object is there.
Raw(t) == Object(t, Zero, "none")

Constructed(t, v) == IF t = "STR" THEN BeginString(Raw(t), v) ELSE SetPlain(Raw(t), v)

Default == Constructed("INT", Zero)

Copied(o) == CopyUnion(Raw(o.type), o)

\* operator=(const OptionParamVal&)
Assigned(u, o) ==
    LET cleared == IF u.type = "STR" /\ o.type # "STR" THEN EndString(u) ELSE u
        filled  == IF u.type = "STR" /\ o.type = "STR" THEN SetString(cleared, o.val)
                   ELSE CopyUnion(cleared, o)
    IN  SetType(filled, o.type)

\* Fault: the tag stays what it was.
AssignedStringUntagged(u, v) == IF u.type = "STR" THEN SetString(u, v) ELSE BeginString(u, v)

\* operator= of strings
AssignedString(u, v) ==
    SetType(IF u.type = "STR" THEN SetString(u, v) ELSE BeginString(u, v), "STR")

\* Fault: the string is not ended.
AssignedPlainOver(u, t, v) == SetType(SetPlain(u, v), t)

\* operator= of char, int, double and pointers
AssignedPlain(u, t, v) ==
    SetType(SetPlain(IF u.type = "STR" THEN EndString(u) ELSE u, v), t)

AssignedValue(u, t, v) == IF t = "STR" THEN AssignedString(u, v) ELSE AssignedPlain(u, t, v)

\* get_string(), get_char(), get_int(), get_double(), get_pointer()
Get(u, t) == IF u.type = t THEN u.val ELSE Zero

-------------------------------------------------------------------------------
\* Objects come to be, are assigned to, from each other and from themselves, and end.

Put(s, u) == slot' = [slot EXCEPT ![s] = u]

Construct(s) == /\ slot[s] = NoObject
                /\ \E t \in Types, v \in Contents : Put(s, Constructed(t, v))

Copy(s, o) == /\ slot[s] = NoObject /\ slot[o] # NoObject
              /\ Put(s, Copied(slot[o]))

Assign(s, o) == /\ slot[s] # NoObject /\ slot[o] # NoObject
                /\ Put(s, Assigned(slot[s], slot[o]))

AssignValue(s) == /\ slot[s] # NoObject
                  /\ \E t \in Types, v \in Contents : Put(s, AssignedValue(slot[s], t, v))

\* The new string finds no memory: the member that was there is overwritten, or not.
AssignThrows(s) == /\ slot[s] # NoObject
                   /\ slot[s].type # "STR"
                   /\ \E v \in Contents : Put(s, Object(slot[s].type, v, slot[s].string))

\* ~OptionParamVal(): what is left must have no string.
Destroy(s) == /\ slot[s] # NoObject
              /\ LET u == IF slot[s].type = "STR" THEN EndString(slot[s]) ELSE slot[s] IN
                 Put(s, IF u.string = "none" THEN NoObject ELSE Object(u.type, u.val, "bad"))

ONext == \E s \in Slots : \/ Construct(s) \/ AssignValue(s) \/ AssignThrows(s) \/ Destroy(s)
                         \/ \E o \in Slots : Copy(s, o) \/ Assign(s, o)

OSpec == OInit /\ [][ONext]_slot

-------------------------------------------------------------------------------
\* Host's conversions between maps of values and MicroParam

option_param_to_micro_param(param) ==
    [f \in Fields |-> IF param[f] = NoObject THEN DefaultParam[f] ELSE Get(param[f], TypeOf[f])]

\* Fault: a char is registered as the int that it is promoted to.
PromotedToOption(micro) ==
    [f \in Fields |-> AssignedValue(Default, IF TypeOf[f] = "CHAR" THEN "INT" ELSE TypeOf[f], micro[f])]

micro_param_to_option_param(micro) ==
    [f \in Fields |-> AssignedValue(Default, TypeOf[f], micro[f])]

-------------------------------------------------------------------------------
\* No string is used or ended dead, or buried alive: "bad" is no state of an object.
OTypeOK == slot \in [Slots -> Objects \cup {NoObject}]

\* A string lives in the union exactly if the tag says so, after any sequence of
\* copies and assignments, self-assignments and failed ones among them
\* (func_option.cpp:68-182, 224-235).
TagTellsString ==
    \A s \in Slots : slot[s] # NoObject => (slot[s].string = "alive" <=> slot[s].type = "STR")

\* Whatever objects a map of parameters holds, of the right type or not, what the
\* benchmark was given is what it gets again from the registry (host.cpp:182-217).
ReadBack ==
    \A param \in [Fields -> {slot[s] : s \in Slots} \cup {NoObject}] :
       LET micro == option_param_to_micro_param(param) IN
       option_param_to_micro_param(micro_param_to_option_param(micro)) = micro
================================================================================
