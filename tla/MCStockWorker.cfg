\* Two orders with their lines crossed, an event that is not valid, two slots.
\* The queue may be left with its jobs decided and no fault to come.
SPECIFICATION FairSpec
CONSTANTS
    o1 = o1
    o2 = o2
    malo = malo
    a = a
    b = b
    Event = {o1, o2, malo}
    Invalid = {malo}
    Slot = {s1, s2}
    NoEvent = NoEvent
    NoSlot = NoSlot
    Attempts = 2
    MaxStalled = 1
    MaxFaults = 2
    Product = {a, b}
    Existencias <- Existe
    Pedido <- Pide
INVARIANT CompletedIsApplied
INVARIANT FailedOnlyByFaults
PROPERTY PromesaAtomica
PROPERTY SettlesInTheEnd
CHECK_DEADLOCK FALSE
ACTION_CONSTRAINT MaloPrimero
