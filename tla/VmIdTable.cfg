\* Two pids over six seconds, each start time a second early to a second late.
CONSTANTS
    Pids = {1, 2}
    MaxTime = 6
    Margin = 5
    Early = 1
    Late = 1
SPECIFICATION TSpec
INVARIANTS
    KeysOrdered
    
