\* An automation cancelled before its turn begins.
CONSTANTS
    s1 = s1
    s2 = s2
    u2 = u2
    Session = {s1}
    User = {u1}
    System = {}
    Automation = {a1}
    Stop = {x1}
    Key <- KeyOne
    PendingCap = 1
    InjectLimit = 1
    GateSlots = 2
    GoalSession = {}
    Loop = Loop
    NoTask = NoTask
SPECIFICATION FairSpec
PROPERTIES
    WaiterIsAnswered
CHECK_DEADLOCK FALSE
