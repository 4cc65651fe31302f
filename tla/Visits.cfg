SPECIFICATION Spec
CONSTANTS
    Persons = {p1, p2, p3}
    MaxCapacity = 2
    Rows = {b1, b2}
    Horizon = 3
    Rules <- MCRules
    Orders = {r1, r2}
    Machines = {m1}
    Initial = 2
    Capacity = 1
    Printer = FALSE
    NoJob = NoJob
    NoMachine = NoMachine
    Unused = Unused
SYMMETRY Symmetry
INVARIANTS
    SeatsGranted
    
    HeldByOne
    JobsAccounted
PROPERTIES
    FirstComeFirst
CHECK_DEADLOCK FALSE
