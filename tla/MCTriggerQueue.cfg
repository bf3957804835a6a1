\* Two deliveries of one trigger and two exits of the gateway.
CONSTANTS
    t1 = t1
    t2 = t2
    Trigger = {t1}
    Delivery = {1, 2}
    Owner <- OwnerOne
    MaxAttempts = 2
    BatchSize = 2
    ExitLimit = 2
    NoFile = NoFile
SPECIFICATION FairSpec
INVARIANTS
    TypeOK
    KeptUntilAnswered
    SingleCopy
    TurnsBounded
    GoneIsReported
PROPERTIES
    ImplementsLedger
    EventuallySettled
CHECK_DEADLOCK FALSE
