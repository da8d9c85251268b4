\* Two replicas with a place each, two connections, an event.
SPECIFICATION FairSpec
CONSTANTS
    Event = {e1}
    Replica = {r1, r2}
    Conn = {c1, c2}
    None = None
    MaxClients = 1
    MaxFaults = 2
INVARIANTS
    NoGap
    PlacesAccounted
PROPERTY Shown
\* Everything is over once all connections are closed and all events stored.
CHECK_DEADLOCK FALSE
