\* No cancellation: every message is served, every submitter answered.
CONSTANTS
    s1 = s1
    s2 = s2
    u2 = u2
    Session = {s1}
    User = {u1, u2}
    System = {}
    Automation = {a1, a2}
    Stop = {}
    Key <- KeyOne
    PendingCap = 1
    InjectLimit = 1
    GateSlots = 2
    GoalSession = {}
    Loop = Loop
    NoTask = NoTask
SPECIFICATION FairSpec
PROPERTIES
    AcceptedIsServed
    WaiterIsAnswered
CHECK_DEADLOCK FALSE
