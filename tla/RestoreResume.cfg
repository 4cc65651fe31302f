SPECIFICATION Spec
CONSTANTS
    Objects = {o1}
    MaxInterruptions = 2
INVARIANTS
    Resumable
CHECK_DEADLOCK FALSE
