\* Three threads take turns in start() and stop(); their joinable() calls do not, and may end the process.
CONSTANTS
    Callers = {c1, c2, c3}
    Threads = {t1, t2}
    NoThread = NoThread
    Calls <- AllCalls
    Serialised = TRUE
SPECIFICATION RFairSpec
CHECK_DEADLOCK FALSE
INVARIANTS
    AtMostOneWorker
PROPERTIES
    StopStops
    OnlyJoinableCrashes
    StopReturns
    ImplementsService
