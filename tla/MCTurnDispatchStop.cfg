\* Two sessions share one slot of the gate, with everything that cancels.
CONSTANTS
    s1 = s1
    s2 = s2
    u2 = u2
    Session = {s1, s2}
    User = {u1, u2}
    System = {g1}
    Automation = {a1}
    Stop = {x1}
    Key <- KeyTwo
    PendingCap = 1
    InjectLimit = 1
    GateSlots = 1
    GoalSession = {s1}
    Loop = Loop
    NoTask = NoTask
SPECIFICATION FairSpec
PROPERTIES
    StopReturns
    AcceptedIsSettled
    InterruptedByOwnSession
CHECK_DEADLOCK FALSE
