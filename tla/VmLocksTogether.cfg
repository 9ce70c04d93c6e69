\* One program thread and the three workers; callbacks call the modules below; files vanish.
CONSTANTS
    Callers = {c1}
    Nobody = Nobody
    CallbackGets <- CallDown
    Uses <- OneAloneOrAll
    Throws = TRUE
    CallsOnLost = FALSE
SPECIFICATION FairSpec
CHECK_DEADLOCK FALSE
INVARIANTS
    LocksInOrder
    LostByHandOnly
PROPERTIES
    CallsEnd
