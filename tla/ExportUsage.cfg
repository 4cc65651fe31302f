SPECIFICATION Spec
CONSTANTS
    Exports = {1, 2}
    Processes = {3}
    Quota = 1
    MaxFaults = 0
    MaxLimits = 1
    NoExport = NoExport
INVARIANT ExportsCharged
CHECK_DEADLOCK FALSE
