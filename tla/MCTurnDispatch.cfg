\* One session with everything that can cancel or defer a turn.
CONSTANTS
    s1 = s1
    s2 = s2
    u2 = u2
    Session = {s1}
    User = {u1, u2}
    System = {g1}
    Automation = {a1}
    Stop = {x1}
    Key <- KeyOne
    PendingCap = 1
    InjectLimit = 1
    GateSlots = 2
    GoalSession = {s1}
    Loop = Loop
    NoTask = NoTask
SPECIFICATION Spec
SYMMETRY Perms
INVARIANTS
    TypeOK
    OneTurnPerSession
    StopFindsEveryTask
PROPERTIES
    ConsumedOnce
CHECK_DEADLOCK FALSE
