\* Two orders, two replicas, and two faults: a check that fails or dies and one
\* that outlives its lock.
SPECIFICATION FairSpec
CONSTANTS
    Orden = {o1, o2}
    Replica = {r1, r2}
    Nadie = Nadie
    MaxFallos = 2
INVARIANTS
    UnSoloCheck
    UnAviso
PROPERTIES
    ResueltaEsFinal
    VencidaSeMarca
