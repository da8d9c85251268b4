\* Two replicas, two destinations, a fault anywhere.
SPECIFICATION FairSpec
CONSTANTS
    Event = {e1}
    Destination = {stock, obs}
    Relay = {r1, r2}
    NoRelay = NoRelay
    NoRow = NoRow
    BatchSize = 2
    MaxAttempts = 2
    MaxFaults = 3
    MaxRetries = 2
INVARIANT DlqMatchesDelivery
INVARIANT RetryBudget
INVARIANT ReplicasDoNotOverlap
PROPERTY KeepsPromise
PROPERTY FulfilsPromise
