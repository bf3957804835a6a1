\* Four messages of two streams and a channel that may fail.
CONSTANTS
    s1 = s1
    s2 = s2
    c1 = c1
    Stream = {s1, s2}
    Content = {c1}
    NoContent = NoContent
    Item <- Items
    MaxAttempts = 2
    MaxMessages = 4
    MaxFailures = 2
SPECIFICATION FairSpec
INVARIANTS
    TypeOK
    SuppressedWasSaid
PROPERTIES
    ImplementsFifo
    EachIsSettled
CHECK_DEADLOCK FALSE
