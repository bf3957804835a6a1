\* A call re-arms the timer while a job is being executed.
CONSTANTS
    Job = {a, b}
    Recurring = {a}
    DeleteAfter = {}
    System = {}
    Initial = {a, b}
    NoJob = NoJob
    NoRec = NoRec
    MaxSlots = 2
    MaxEdits = 2
    MaxStarts = 1
    MaxFaults = 0
SPECIFICATION Spec
INVARIANTS
    EachOccurrenceOnce
CHECK_DEADLOCK FALSE
