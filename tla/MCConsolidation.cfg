\* One session, its turns, two consolidation jobs, /new, deliveries and a crash.
CONSTANTS
    Obj = {o1, o2, o3}
    None = None
    Window = 3
    IdleSuffix = 2
    FileCap = 4
    MaxRounds = 2
    MaxMessages = 7
    MaxCrashes = 1
SPECIFICATION Spec
INVARIANTS
    TypeOK
    NothingLost
    CursorInRange
    NewIsFresh
PROPERTIES
    PromptIsWhole
CHECK_DEADLOCK FALSE
