\* One program thread and the worker; processes come and go; the number of rounds is bounded.
CONSTANTS
    NoThread = NoThread
    Callers = {c1}
    Threads = {t1}
    Calls <- StartStop
    Serialised = TRUE
    Pids = {a, b}
    Ops <- OpsAll
    Failures <- OnlyProc
    MaxRounds = 3
SPECIFICATION Spec
CHECK_DEADLOCK FALSE
INVARIANTS
    SameWindow
    ShownAreWatched
    WatchAgrees
PROPERTIES
    ReadsTwoRounds
