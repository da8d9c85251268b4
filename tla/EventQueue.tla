----------------------------- MODULE EventQueue -----------------------------
(***************************************************************************)
(* The queue of one service: packages/event-bus and what it asks of        *)
(* BullMQ.  A job is named by the event it carries.  A worker's slot takes *)
(* a job under a lock in Redis that it renews; a job whose lock is gone is *)
(* taken for stalled and given to another slot, whether or not the first   *)
(* is still at it.                                                         *)
(*                                                                         *)
(* What a slot does with the event is the handler's business: a module of  *)
(* a service extends this one and says when its run ends.                  *)
(***************************************************************************)
EXTENDS Naturals

CONSTANTS
    Event,          \* events published to the queue
    Invalid,        \* those that fail the worker's checks of version and payload
    Slot,           \* jobs under way at once, on all replicas (concurrency)
    NoEvent, NoSlot,
    Attempts,       \* JOB_OPTIONS.attempts
    MaxStalled,     \* BullMQ's maxStalledCount
    MaxFaults       \* bound of the model: faults and operator's retries

ASSUME QueueAssumption ==
    /\ Invalid \subseteq Event
    /\ NoEvent \notin Event
    /\ NoSlot \notin Slot
    /\ Attempts \in Nat \ {0}
    /\ MaxStalled \in Nat
    /\ MaxFaults \in Nat

VARIABLES
    job,            \* the set of BullMQ each event's job is in
    attemptsMade,   \* job.attemptsMade
    stalled,        \* how often the job was found stalled
    owner,          \* the slot that has the job's lock
    running,        \* the event each slot is at work on
    faults          \* faults and operator's retries so far

queue == <<job, attemptsMade, stalled, owner, running, faults>>

JobState == {"none", "waiting", "active", "delayed", "completed", "failed"}

QueueTypeOK ==
    /\ job \in [Event -> JobState]
    /\ attemptsMade \in [Event -> Nat]
    /\ stalled \in [Event -> Nat]
    /\ owner \in [Event -> Slot \cup {NoSlot}]
    /\ running \in [Slot -> Event \cup {NoEvent}]
    /\ faults \in 0..MaxFaults

QueueInit ==
    /\ job = [e \in Event |-> "none"]
    /\ attemptsMade = [e \in Event |-> 0]
    /\ stalled = [e \in Event |-> 0]
    /\ owner = [e \in Event |-> NoSlot]
    /\ running = [s \in Slot |-> NoEvent]
    /\ faults = 0

Fault == faults < MaxFaults /\ faults' = faults + 1

-----------------------------------------------------------------------------
\* q.add with the event's id as jobId: BullMQ ignores it while a job of that name
\* exists in whatever set, so only the first publication does something.
enqueueToDestination(e) ==
    /\ job[e] = "none"
    /\ job' = [job EXCEPT ![e] = "waiting"]
    /\ attemptsMade' = [attemptsMade EXCEPT ![e] = 0]
    /\ stalled' = [stalled EXCEPT ![e] = 0]
    /\ UNCHANGED <<owner, running, faults>>

\* A slot takes a job whose event passes the checks, and calls the handlers.
Take(s, e) ==
    /\ running[s] = NoEvent
    /\ job[e] = "waiting"
    /\ e \notin Invalid
    /\ job' = [job EXCEPT ![e] = "active"]
    /\ owner' = [owner EXCEPT ![e] = s]
    /\ running' = [running EXCEPT ![s] = e]
    /\ UNCHANGED <<attemptsMade, stalled, faults>>

\* UnrecoverableError: no retry, and no handler was called.
Refuse(e) ==
    /\ job[e] = "waiting"
    /\ e \in Invalid
    /\ job' = [job EXCEPT ![e] = "failed"]
    /\ attemptsMade' = [attemptsMade EXCEPT ![e] = @ + 1]
    /\ UNCHANGED <<stalled, owner, running, faults>>

\* The handlers returned.  Redis refuses the result of a slot without the lock.
Complete(s) ==
    LET e == running[s] IN
    /\ running' = [running EXCEPT ![s] = NoEvent]
    /\ \/ /\ owner[e] = s
          /\ job' = [job EXCEPT ![e] = "completed"]
          /\ owner' = [owner EXCEPT ![e] = NoSlot]
       \/ owner[e] # s /\ UNCHANGED <<job, owner>>
    /\ UNCHANGED <<attemptsMade, stalled, faults>>

\* Mutant of AttemptLeft: the last attempt is not made.
AttemptLeftOneLess(e) == attemptsMade[e] + 2 < Attempts

AttemptLeft(e) == attemptsMade[e] + 1 < Attempts

\* A handler threw: again after the backoff, or to the failed set.
Throw(s) ==
    LET e == running[s] IN
    /\ running' = [running EXCEPT ![s] = NoEvent]
    /\ \/ /\ owner[e] = s
          /\ job' = [job EXCEPT ![e] = IF AttemptLeft(e) THEN "delayed" ELSE "failed"]
          /\ attemptsMade' = [attemptsMade EXCEPT ![e] = @ + 1]
          /\ owner' = [owner EXCEPT ![e] = NoSlot]
       \/ owner[e] # s /\ UNCHANGED <<job, attemptsMade, owner>>
    /\ UNCHANGED <<stalled, faults>>

\* The backoff is over.
Promote(e) ==
    /\ job[e] = "delayed"
    /\ job' = [job EXCEPT ![e] = "waiting"]
    /\ UNCHANGED <<attemptsMade, stalled, owner, running, faults>>

\* A slot's lock runs out although it is at work: Redis or the event loop was
\* slow.
LosesLock(s) ==
    /\ running[s] # NoEvent
    /\ owner[running[s]] = s
    /\ Fault
    /\ owner' = [owner EXCEPT ![running[s]] = NoSlot]
    /\ UNCHANGED <<job, attemptsMade, stalled, running>>

\* The process of a slot dies; its lock is left to run out.
Dies(s) ==
    /\ running[s] # NoEvent
    /\ Fault
    /\ running' = [running EXCEPT ![s] = NoEvent]
    /\ owner' = [owner EXCEPT ![running[s]] = IF @ = s THEN NoSlot ELSE @]
    /\ UNCHANGED <<job, attemptsMade, stalled>>

\* The check for stalled jobs, which every worker makes.
MoveStalled(e) ==
    /\ job[e] = "active"
    /\ owner[e] = NoSlot
    /\ job' = [job EXCEPT ![e] = IF stalled[e] < MaxStalled THEN "waiting" ELSE "failed"]
    /\ stalled' = [stalled EXCEPT ![e] = @ + 1]
    /\ UNCHANGED <<attemptsMade, owner, running, faults>>

\* POST /admin/dlq/:jobId/retry; it answers 404 for a job in another set.
\* attemptsMade stays, so this is one attempt.
retryJob(e) ==
    /\ job[e] = "failed"
    /\ Fault
    /\ job' = [job EXCEPT ![e] = "waiting"]
    /\ UNCHANGED <<attemptsMade, stalled, owner, running>>

\* removeOnComplete: a thousand jobs later the queue has forgotten this one.
Forget(e) ==
    /\ job[e] = "completed"
    /\ Fault
    /\ job' = [job EXCEPT ![e] = "none"]
    /\ UNCHANGED <<attemptsMade, stalled, owner, running>>
=============================================================================
