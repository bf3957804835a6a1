\* A user turn, a subagent turn and a command, with one exit and one failing save.
CONSTANTS
    u1 = u1
    g1 = g1
    c1 = c1
    Nothing = Nothing
    User <- OneUser
    Subagent <- OneSubagent
    Command <- OneCommand
    MaxCalls = 2
    MaxIterations = 2
    ExitLimit = 1
    FaultLimit = 1
SPECIFICATION Spec
CHECK_DEADLOCK FALSE
INVARIANTS
    TypeOK
    HistoryLegal
    NoRepeats
    EveryTurnClosed
    WriteAhead
PROPERTIES
    HistoryGrows
    ProgressKept
