\* The breaker as the pools use it, with two calls in half_open and three at once.
SPECIFICATION FairSpec
CONSTANTS
    Call = {c1, c2, c3}
    FailureThreshold = 3
    HalfOpenMaxCalls = 2
    SuccessThreshold = 2
    ResetTicks = 2
PROPERTIES
    OpensAfterStreak
    Recovers
