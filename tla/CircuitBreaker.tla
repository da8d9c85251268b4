--------------------------- MODULE CircuitBreaker ---------------------------
(***************************************************************************)
(* The circuit breaker of packages/resilience, as the connection pools of  *)
(* the services use it: every query of the process goes through exec.      *)
(*                                                                         *)
(* The event loop makes each part of exec atomic: what runs before fn() is *)
(* called, and what runs when its promise settles.  Between the two other  *)
(* calls come and go, so a result may meet a breaker in another state than *)
(* the one that let its call through.  A rejected call changes nothing     *)
(* that a call let through, or a health check, would not change.           *)
(***************************************************************************)
EXTENDS Integers, FiniteSets

CONSTANTS
    Call,               \* calls that may be in flight at once
    FailureThreshold,   \* failureThreshold
    HalfOpenMaxCalls,   \* halfOpenMaxCalls
    SuccessThreshold,   \* successThreshold
    ResetTicks          \* resetTimeoutMs, in ticks of the clock

ASSUME BreakerAssumption ==
    /\ FailureThreshold \in Nat \ {0}
    /\ HalfOpenMaxCalls \in Nat \ {0}
    /\ SuccessThreshold \in Nat \ {0}
    /\ ResetTicks \in Nat

VARIABLES
    state,          \* this.state
    failures,       \* this.failures
    successes,      \* this.successes
    halfOpenCalls,  \* this.halfOpenCalls
    elapsed,        \* Date.now() - this.openedAt, up to ResetTicks
    inFlight,       \* calls whose promise has not settled
    ignoring,       \* failurePredicate, fixed at construction, ignores some errors
    database,       \* whether the database answers
    streak          \* history: infrastructure failures since the last success

breaker == <<state, failures, successes, halfOpenCalls, elapsed>>
vars == <<breaker, ignoring, inFlight, database, streak>>

TypeOK ==
    /\ state \in {"closed", "open", "half_open"}
    /\ failures \in 0..FailureThreshold
    /\ successes \in 0..SuccessThreshold
    /\ halfOpenCalls \in 0..HalfOpenMaxCalls
    /\ elapsed \in 0..ResetTicks
    /\ ignoring \in BOOLEAN
    /\ inFlight \subseteq Call
    /\ database \in {"up", "down"}
    /\ streak \in 0..FailureThreshold

Init ==
    /\ state = "closed"
    /\ failures = 0
    /\ successes = 0
    /\ halfOpenCalls = 0
    /\ elapsed = 0
    /\ ignoring \in BOOLEAN
    /\ inFlight = {}
    /\ database = "up"
    /\ streak = 0

\* maybeTransition: what a call finds once it ran.
TimedOut == state = "open" /\ elapsed >= ResetTicks
StateNow == IF TimedOut THEN "half_open" ELSE state

\* Mutant of CallsNow: the calls of the last half_open period still count.
CallsEver == halfOpenCalls

CallsNow == IF TimedOut THEN 0 ELSE halfOpenCalls
SuccessesNow == IF TimedOut THEN 0 ELSE successes

\* getState, from the health route
GetState ==
    /\ TimedOut
    /\ state' = StateNow
    /\ halfOpenCalls' = CallsNow
    /\ successes' = SuccessesNow
    /\ UNCHANGED <<failures, elapsed, ignoring, inFlight, database, streak>>

\* exec lets the call through; it throws CircuitOpenError otherwise.
Admits == StateNow # "open" /\ (StateNow = "half_open" => CallsNow < HalfOpenMaxCalls)

\* exec, up to the call of fn()
Exec(c) ==
    /\ c \notin inFlight
    /\ Admits
    /\ state' = StateNow
    /\ successes' = SuccessesNow
    /\ halfOpenCalls' = IF StateNow = "half_open" THEN CallsNow + 1 ELSE CallsNow
    /\ inFlight' = inFlight \cup {c}
    /\ UNCHANGED <<failures, elapsed, ignoring, database, streak>>

\* Mutant of Close: the failures that opened the circuit are kept.
CloseKeepingFailures ==
    /\ state' = "closed"
    /\ successes' = 0
    /\ UNCHANGED failures

Close ==
    /\ state' = "closed"
    /\ failures' = 0
    /\ successes' = 0

\* recordSuccess
RecordSuccess ==
    \/ /\ state = "half_open"
       /\ successes + 1 >= SuccessThreshold
       /\ Close
    \/ /\ state = "half_open"
       /\ successes + 1 < SuccessThreshold
       /\ successes' = successes + 1
       /\ UNCHANGED <<state, failures>>
    \/ /\ state = "closed"
       /\ failures' = 0
       /\ UNCHANGED <<state, successes>>
    \/ /\ state = "open"
       /\ UNCHANGED <<state, failures, successes>>

\* recordFailure, for an error that failurePredicate counts
RecordFailure ==
    \/ /\ state = "half_open"
       /\ state' = "open"
       /\ elapsed' = 0
       /\ successes' = 0
       /\ UNCHANGED failures
    \/ /\ state = "closed"
       /\ failures' = failures + 1
       /\ \/ /\ failures' >= FailureThreshold
             /\ state' = "open"
             /\ elapsed' = 0
          \/ /\ failures' < FailureThreshold
             /\ UNCHANGED <<state, elapsed>>
       /\ UNCHANGED successes
    \/ /\ state = "open"
       /\ UNCHANGED <<state, failures, successes, elapsed>>

Succeed(c) ==
    /\ c \in inFlight
    /\ database = "up"
    /\ RecordSuccess
    /\ inFlight' = inFlight \ {c}
    /\ streak' = 0
    /\ UNCHANGED <<halfOpenCalls, elapsed, ignoring, database>>

FailInfrastructure(c) ==
    /\ c \in inFlight
    /\ database = "down"
    /\ RecordFailure
    /\ inFlight' = inFlight \ {c}
    /\ streak' = IF streak < FailureThreshold THEN streak + 1 ELSE streak
    /\ UNCHANGED <<halfOpenCalls, ignoring, database>>

\* recordFailure returns at once: the database answered with an error, or the
\* client refused the query for one.
FailDomain(c) ==
    /\ ignoring
    /\ c \in inFlight
    /\ inFlight' = inFlight \ {c}
    /\ UNCHANGED <<breaker, ignoring, database, streak>>

Tick ==
    /\ state = "open"
    /\ elapsed < ResetTicks
    /\ elapsed' = elapsed + 1
    /\ UNCHANGED <<state, failures, successes, halfOpenCalls, ignoring, inFlight, database, streak>>

DatabaseChanges ==
    /\ database' = IF database = "up" THEN "down" ELSE "up"
    /\ UNCHANGED <<breaker, ignoring, inFlight, streak>>

Settles(c) == Succeed(c) \/ FailInfrastructure(c) \/ FailDomain(c)

Next ==
    \/ GetState
    \/ \E c \in Call : Exec(c) \/ Settles(c)
    \/ Tick
    \/ DatabaseChanges

Spec == Init /\ [][Next]_vars

\* Requests keep coming, a query settles (query_timeout), time passes.
FairSpec ==
    /\ Spec
    /\ WF_vars(\E c \in Call : Exec(c))
    /\ \A c \in Call : WF_vars(Settles(c))
    /\ WF_vars(Tick)

-----------------------------------------------------------------------------
\* index.ts:66: it takes failureThreshold consecutive failures to open a closed
\* circuit; results of calls let through before, in whatever order they come
\* back, never make up for a success in between.
OpensAfterStreak ==
    [][state = "closed" /\ state' = "open" => streak' >= FailureThreshold]_vars

\* When every error counts, as without a failurePredicate, a database that stays
\* up gets the circuit closed for good.
Recovers == ~ignoring /\ <>[](database = "up") => <>[](state = "closed")

\* The half of it that a test hides: failures count for the streak only when no
\* success came after them.
FailuresInStreak == state = "closed" => failures <= streak

IInv ==
    /\ TypeOK
    /\ FailuresInStreak
    /\ state = "closed" => failures < FailureThreshold
    /\ successes < SuccessThreshold
=============================================================================
