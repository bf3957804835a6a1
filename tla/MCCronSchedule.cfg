\* One recurring and one one-shot job, three calls from outside, a restart and a failed save.
CONSTANTS
    Job = {a, b}
    Recurring = {a}
    DeleteAfter = {b}
    System = {}
    Initial = {a}
    NoJob = NoJob
    NoRec = NoRec
    MaxSlots = 2
    MaxEdits = 3
    MaxStarts = 2
    MaxFaults = 1
SPECIFICATION FairSpec
INVARIANTS
    TypeOK
    OncePerOccurrence
PROPERTIES
    StartsAreDue
    DueIsStarted
CHECK_DEADLOCK FALSE
