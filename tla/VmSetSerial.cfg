\* One call at a time, with clear_param() of any option.
CONSTANTS
    Clients = {c1}
    Ptrs = {p1, p2, p3, p4}
    Ops <- AllOps
    Clearable <- ClearAll
    Serialised = TRUE
SPECIFICATION Spec
SYMMETRY Addresses
CHECK_DEADLOCK FALSE
INVARIANTS
    NoDangling
    NoLeak
    ModulesAgree
