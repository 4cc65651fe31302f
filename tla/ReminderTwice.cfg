SPECIFICATION Spec
CONSTANTS
    Requests = {1}
    Reachable = {1}
    Workers = {w1, w2}
    Limit = 1
    MaxTime = 1
    MaxDueChanges = 1
    MaxFailures = 1
    MaxDeaths = 0
INVARIANT RemindedOnce
CHECK_DEADLOCK FALSE
