SPECIFICATION Spec
CONSTANTS
    Event = {e1}
    Destination = {stock, obs}
    Relay = {r1}
    NoRelay = NoRelay
    NoRow = NoRow
    BatchSize = 2
    MaxAttempts = 2
    MaxFaults = 0
    MaxRetries = 1
INVARIANT PublishedEverywhereIsPublished
