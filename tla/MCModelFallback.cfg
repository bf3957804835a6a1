\* Two requests share the breaker; two fallback models, one retry.
CONSTANTS
    r1 = r1
    r2 = r2
    Request = {r1, r2}
    Mode <- Modes
    Images = {r2}
    Fallbacks = 2
    Broken = {}
    Threshold = 2
    Cooldown = 1
    Retries = 1
    MaxTime = 1
SPECIFICATION FairSpec
INVARIANTS
    TypeOK
    OneAnswerPerSegment
    FailsOnlyAtTheEnd
PROPERTIES
    RequestReturns
CHECK_DEADLOCK FALSE
