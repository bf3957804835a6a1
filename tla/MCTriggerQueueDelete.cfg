\* A delete while a retry is in flight.
SPECIFICATION Spec
CONSTANTS
    t1 = t1
    t2 = t2
    Trigger = {t1}
    Delivery = {1, 2}
    Owner <- OwnerOne
    MaxAttempts = 2
    BatchSize = 2
    ExitLimit = 1
    NoFile = NoFile
PROPERTIES
    DeletedStaysDeleted
CHECK_DEADLOCK FALSE
