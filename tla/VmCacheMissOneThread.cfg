\* One program thread and the worker; threads come and go, perf fails, VmBase throws.
CONSTANTS
    NoThread = NoThread
    Callers = {c1}
    Threads = {t1}
    Calls <- StartStop
    Serialised = TRUE
    Tids = {a, b}
    Volatile = {b}
    Ops <- OpsAll
SPECIFICATION Spec
CHECK_DEADLOCK FALSE
INVARIANTS
    NoFdLeak
    CountedOnce
    WatchAgrees
