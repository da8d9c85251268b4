\* Three requests with one key: two retries of the first, or one that differs.
SPECIFICATION FairSpec
CONSTANTS
    Key = {k1}
    Body = {b1, b2}
    Request = {r1, r2, r3}
    None = None
    TTL = 1
    MaxTime = 2
INVARIANTS
    AnswerFits
PROPERTIES
    OncePerKey
    Answered
\* Every request is answered in the end.
CHECK_DEADLOCK FALSE
