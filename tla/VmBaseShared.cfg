\* Two threads and the worker; VMs come and go; every call, parameters and callbacks change.
CONSTANTS
    v1 = v1
    v2 = v2
    qemu = qemu
    other = other
    NoThread = NoThread
    Callers = {c1, c2}
    Threads = {t1}
    Calls <- StartStop
    Serialised = TRUE
    VMs <- MCVMs
    Cmds <- MCCmds
    CmdOf <- MCCmdOf
    DefaultCmd = qemu
    Ops <- OpsAll
    Callbacks <- Reentrant
    MaxChanges = 2
SPECIFICATION FairSpec
CHECK_DEADLOCK FALSE
INVARIANTS
    DataWhole
    DataOfCmd
PROPERTIES
    ReadsSnapshot
    StopEnds
    GetterServed
