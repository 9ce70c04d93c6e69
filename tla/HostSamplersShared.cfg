\* Two program threads that read, start and stop, the worker, and a machine that changes twice.
CONSTANTS
    Callers = {c1, c2}
    Threads = {t1}
    NoThread = NoThread
    Calls <- StartStop
    Serialised = TRUE
    Kinds <- AllKinds
    MaxNow = 3
    MaxFds = 5
SPECIFICATION FairSpec
CHECK_DEADLOCK FALSE
PROPERTIES
    ReadsSample
    MemFresh
    UpToDate
