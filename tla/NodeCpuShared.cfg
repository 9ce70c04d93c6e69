\* Two program threads; any cpulist of ten threads; files fail to open and clear() is called.
CONSTANTS
    NoCaller = NoCaller
    Callers = {c1, c2}
    Nodes = {0, 1}
    Sockets = {0, 1}
    CoreNos = {0, 1, 2, 3}
    Layouts <- Machines
    MayFail = TRUE
SPECIFICATION Spec
INVARIANTS
    FillInv
    FilledWhole
    LookupsAgree
PROPERTIES
    ReadsFilled
