\* Two replicas, one of them with work and one with an edited file; two migrations, and
\* two of: a death, a signal, a rollback.
SPECIFICATION ProcessFairSpec
CONSTANTS
    Process = {r1, r2}
    Operator = Operator
    NoOne = NoOne
    Versions = 2
    Unsigned = 1
    Edited = {r2}
    Service = {"svc-ordenes", "svc-obs"}
    Busy = {r1}
    MaxWork = 1
    MaxUpsets = 2
INVARIANT ProcessTypeOK
INVARIANT ReadyIsWhole
INVARIANT PoolOutlivesWork
INVARIANT SlaIsScheduled
PROPERTY BootFailsForACause
PROPERTY EndsOrComesBack
