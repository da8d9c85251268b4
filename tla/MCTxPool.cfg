\* Two workers and one other query at a time, two clients, two events.
SPECIFICATION PoolSpec
CONSTANTS
    Call = {w1, w2, q}
    Worker = {w1, w2}
    Client = {k1, k2}
    Event = {e1, e2}
    NoClient = NoClient
    NoEvent = NoEvent
    FailureThreshold = 2
    HalfOpenMaxCalls = 1
    SuccessThreshold = 1
    ResetTicks = 0
INVARIANT WholeUnlessLeaked
INVARIANT AppliedOnce
SYMMETRY Symmetry
