---------------------------- MODULE OutboxRelay ----------------------------
(***************************************************************************)
(* The transactional outbox of one service and the replicas of its relay.  *)
(*                                                                         *)
(* A business transaction inserts a row in outbox (publisher.ts).  Every   *)
(* poll a relay claims, in one transaction, a batch of deliveries (one per *)
(* event and destination) by writing its lease on them, then publishes     *)
(* them one at a time to the destination's queue and records the outcome   *)
(* (outbox-relay.ts).  After MaxAttempts failures a delivery is dead-      *)
(* lettered; an administrator may put it back (admin.ts).                  *)
(*                                                                         *)
(* A transaction is one step, its COMMIT, unless what it read before may    *)
(* be stale by then: markFailed's last statement judges the outbox row by   *)
(* its snapshot, waits for that row's lock if an administrator's retry has  *)
(* it, and writes the judgement all the same.                              *)
(*                                                                         *)
(* A lease token is drawn afresh for every batch and a relay has one batch *)
(* at a time, so the relay's name stands for its current token.            *)
(***************************************************************************)
EXTENDS Naturals, FiniteSets

CONSTANTS
    Event,        \* ids of outbox rows
    Destination,  \* the services of EVENT_BUS_SERVICES
    Relay,        \* replicas of the service, one relay loop each
    NoRelay,      \* lease_token IS NULL
    NoRow,        \* a relay that is between two rows
    BatchSize,    \* BATCH_SIZE
    MaxAttempts,  \* OUTBOX_MAX_ATTEMPTS
    MaxFaults,    \* bound: crashes, database errors and overrun leases
    MaxRetries    \* bound: calls of POST /admin/outbox-dlq/:id/retry

ASSUME RelayAssumption == NoRelay \notin Relay
ASSUME RowAssumption == NoRow \notin Event \X Destination
ASSUME BoundsAssumption ==
    /\ BatchSize \in Nat \ {0}
    /\ MaxAttempts \in Nat \ {0}   \* Math.max(1, OUTBOX_MAX_ATTEMPTS)
    /\ MaxFaults \in Nat
    /\ MaxRetries \in Nat

VARIABLES
    outbox,    \* outbox[e]: the row of event e, its estado and published_at
    delivery,  \* delivery[k]: the outbox_deliveries row of k = <<event, destination>>
    dlq,       \* the rows of outbox_delivery_dlq
    queued,    \* deliveries a job was added for in the destination's queue
    batch,     \* batch[r]: claimed rows that relay r has still to publish
    row,       \* row[r]: the row r is publishing
    pc,        \* pc[r]: what r does next with row[r]
    faults,    \* faults so far
    retries,   \* administrator's retries so far
    crossed    \* history: events whose retry met a judgement of their outbox row

dbVars == <<outbox, delivery, dlq>>
relayVars == <<batch, row, pc>>
\* The variables that bound or record a behaviour and that no code reads.
tally == <<faults, retries, crossed>>
vars == <<outbox, delivery, dlq, queued, batch, row, pc, faults, retries, crossed>>

Delivery == Event \X Destination

\* The deliveries relay r has in memory.
Hand(r) == batch[r] \cup ({row[r]} \ {NoRow})

\* Between markFailed's last statement and its COMMIT: the delivery is to be
\* dead-lettered ("dead"), and the outbox row to fail with it ("over").
Judged == {"dead", "over"}

\* The rows markFailed has written and not committed.
Locked == {row[r] : r \in {s \in Relay : pc[s] \in Judged}}

OutboxRow == [estado : {"absent", "pending", "published", "failed"},
              published_at : BOOLEAN]

DeliveryRow == [estado : {"absent", "pending", "published", "dlq"},
                attempts : Nat,
                lease : Relay \cup {NoRelay},
                expired : BOOLEAN]

TypeOK ==
    /\ outbox \in [Event -> OutboxRow]
    /\ delivery \in [Delivery -> DeliveryRow]
    /\ dlq \subseteq Delivery
    /\ queued \subseteq Delivery
    /\ batch \in [Relay -> SUBSET Delivery]
    /\ row \in [Relay -> Delivery \cup {NoRow}]
    /\ pc \in [Relay -> {"ready", "mark", "fail"} \cup Judged]
    /\ faults \in 0..MaxFaults
    /\ retries \in 0..MaxRetries
    /\ crossed \subseteq Event

\* An outbox_deliveries row that no relay has leased.
Unleased(estado, attempts) ==
    [estado |-> estado, attempts |-> attempts, lease |-> NoRelay, expired |-> FALSE]

Init ==
    /\ outbox = [e \in Event |-> [estado |-> "absent", published_at |-> FALSE]]
    /\ delivery = [k \in Delivery |-> Unleased("absent", 0)]
    /\ dlq = {}
    /\ queued = {}
    /\ batch = [r \in Relay |-> {}]
    /\ row = [r \in Relay |-> NoRow]
    /\ pc = [r \in Relay |-> "ready"]
    /\ faults = 0
    /\ retries = 0
    /\ crossed = {}

Fault ==
    /\ faults < MaxFaults
    /\ faults' = faults + 1

-----------------------------------------------------------------------------
\* publishEvent(name, payload, correlationId, client): the business
\* transaction that emits e commits.
PublishEvent(e) ==
    /\ outbox[e].estado = "absent"
    /\ outbox' = [outbox EXCEPT ![e].estado = "pending"]
    /\ UNCHANGED <<delivery, dlq, queued, relayVars, tally>>

\* INSERT INTO outbox_deliveries ... WHERE o.published_at IS NULL
\* ON CONFLICT DO NOTHING
WithDeliveries ==
    [k \in Delivery |->
        IF /\ outbox[k[1]].estado # "absent"
           /\ ~outbox[k[1]].published_at
           /\ delivery[k].estado = "absent"
        THEN Unleased("pending", 0)
        ELSE delivery[k]]

\* Mutants of Claimable: the claim overlooks the leases, or their end.
ClaimableLeasedToo(rows) == {k \in Delivery : rows[k].estado = "pending"}
ClaimableNeverExpired(rows) ==
    {k \in Delivery : rows[k].estado = "pending" /\ rows[k].lease = NoRelay}

\* The rows the claim's SELECT may return: pending, free or past their lease,
\* and not locked (FOR UPDATE SKIP LOCKED).
Claimable(rows) ==
    {k \in Delivery \ Locked : /\ rows[k].estado = "pending"
                               /\ rows[k].lease = NoRelay \/ rows[k].expired}

\* LIMIT BATCH_SIZE; which of the rows come first in the ORDER BY is left open.
Limit(rows) ==
    {b \in SUBSET rows :
        Cardinality(b) = IF Cardinality(rows) < BatchSize
                         THEN Cardinality(rows) ELSE BatchSize}

\* tick(): one batch at a time (the running flag), claimed in one transaction.
ClaimBatch(r) ==
    /\ pc[r] = "ready"
    /\ batch[r] = {}
    /\ \E b \in Limit(Claimable(WithDeliveries)) :
        /\ batch' = [batch EXCEPT ![r] = b]
        /\ delivery' = [k \in Delivery |->
               IF k \in b
               THEN [WithDeliveries[k] EXCEPT !.lease = r, !.expired = FALSE]
               ELSE WithDeliveries[k]]
    /\ UNCHANGED <<outbox, dlq, queued, row, pc, tally>>

\* publishRawToDestination resolves: the destination's queue has the job.
Publish(r) ==
    /\ pc[r] = "ready"
    /\ \E k \in batch[r] :
        /\ row' = [row EXCEPT ![r] = k]
        /\ batch' = [batch EXCEPT ![r] = @ \ {k}]
        /\ queued' = queued \cup {k}
    /\ pc' = [pc EXCEPT ![r] = "mark"]
    /\ UNCHANGED <<dbVars, tally>>

\* publishRawToDestination rejects: a bad payload, or Redis; when only the
\* answer of Redis was lost, the job is in the queue all the same.
PublishRejects(r) ==
    /\ pc[r] = "ready"
    /\ \E k \in batch[r] :
        /\ row' = [row EXCEPT ![r] = k]
        /\ batch' = [batch EXCEPT ![r] = @ \ {k}]
        /\ queued' \in {queued, queued \cup {k}}
    /\ pc' = [pc EXCEPT ![r] = "fail"]
    /\ UNCHANGED <<dbVars, tally>>

-----------------------------------------------------------------------------
\* Mutant of HoldsLease: the outcome is recorded whoever has the row now.
HoldsAnyLease(r) == delivery[row[r]].estado # "absent"

\* WHERE ... AND lease_token = $3: nobody claimed the row since r did.
HoldsLease(r) == delivery[row[r]].lease = r

HasPending(e, rows) == \E d \in Destination : rows[<<e, d>>].estado = "pending"

HasDlq(e, rows) == \E d \in Destination : rows[<<e, d>>].estado = "dlq"

\* markPublished: one SQL statement.  Its CTE writes the delivery, its main
\* UPDATE settles the outbox row when no delivery is pending; both read the
\* snapshot the statement began with, hence HasPending(e, delivery) and not
\* HasPending(e, delivery').
RecordPublished(r) ==
    \/ /\ ~HoldsLease(r)
       /\ UNCHANGED dbVars
    \/ LET k == row[r]
           e == k[1]
       IN /\ HoldsLease(r)
          /\ delivery' = [delivery EXCEPT
                 ![k] = Unleased("published", delivery[k].attempts + 1)]
          /\ outbox' =
                 IF HasPending(e, delivery) THEN outbox
                 ELSE IF HasDlq(e, delivery)
                      THEN [outbox EXCEPT ![e].estado = "failed"]
                      ELSE [outbox EXCEPT ![e] = [estado |-> "published",
                                                  published_at |-> TRUE]]
          /\ UNCHANGED dlq

\* Mutant of Exhausted: one attempt too many.
ExhaustedLate(attempts) == attempts > MaxAttempts

\* exhausted = attempts >= MAX_ATTEMPTS
Exhausted(attempts) == attempts >= MaxAttempts

\* A delivery out of attempts.
DeadLetter(attempts) == Unleased("dlq", attempts)

\* markFailed at its last attempt, up to its UPDATE of the outbox row: the
\* snapshot of that statement says whether another delivery is pending.
JudgesParent(r) ==
    LET k == row[r]
        n == delivery[k].attempts + 1
        dead == [delivery EXCEPT ![k] = DeadLetter(n)]
    IN  /\ pc[r] = "fail"
        /\ HoldsLease(r)
        /\ Exhausted(n)
        /\ pc' = [pc EXCEPT ![r] = IF HasPending(k[1], dead) THEN "dead" ELSE "over"]
        /\ UNCHANGED <<dbVars, queued, batch, row, tally>>

\* The COMMIT of markFailed: the lease was lost, or there are attempts left,
\* or the delivery is dead-lettered and its outbox row fails as judged.
RecordFailure(r) ==
    LET k == row[r]
        n == delivery[k].attempts + 1
    IN  \/ /\ pc[r] = "fail"
           /\ ~HoldsLease(r)
           /\ UNCHANGED dbVars
        \/ /\ pc[r] = "fail"
           /\ HoldsLease(r)
           /\ ~Exhausted(n)
           /\ delivery' = [delivery EXCEPT ![k] = Unleased("pending", n)]
           /\ UNCHANGED <<outbox, dlq>>
        \/ /\ pc[r] \in Judged
           /\ delivery' = [delivery EXCEPT ![k] = DeadLetter(n)]
           /\ dlq' = dlq \cup {k}
           /\ outbox' = IF pc[r] = "over"
                        THEN [outbox EXCEPT ![k[1]].estado = "failed"] ELSE outbox

\* r goes on with the next row of its batch.
NextRow(r) ==
    /\ row' = [row EXCEPT ![r] = NoRow]
    /\ pc' = [pc EXCEPT ![r] = "ready"]

\* r forgets its batch: the leases it wrote stay in the table.
DropBatch(r) ==
    /\ batch' = [batch EXCEPT ![r] = {}]
    /\ NextRow(r)

MarkPublished(r) ==
    /\ pc[r] = "mark"
    /\ RecordPublished(r)
    /\ NextRow(r)
    /\ UNCHANGED <<queued, batch, tally>>

\* markPublished rejects, before or after the statement took effect: the
\* catch block treats it as a failed publication.
MarkPublishedRejects(r) ==
    /\ pc[r] = "mark"
    /\ Fault
    /\ RecordPublished(r) \/ UNCHANGED dbVars
    /\ pc' = [pc EXCEPT ![r] = "fail"]
    /\ UNCHANGED <<queued, batch, row, retries, crossed>>

MarkFailed(r) ==
    /\ RecordFailure(r)
    /\ NextRow(r)
    /\ UNCHANGED <<queued, batch, tally>>

\* markFailed rejects inside the catch block, before or after its COMMIT took
\* effect: the exception leaves the loop and the rest of the batch.
MarkFailedRejects(r) ==
    /\ pc[r] \in {"fail"} \cup Judged
    /\ Fault
    /\ RecordFailure(r) \/ UNCHANGED dbVars
    /\ DropBatch(r)
    /\ UNCHANGED <<queued, retries, crossed>>

\* The process dies with rows in memory and starts again; what markFailed had
\* not committed is rolled back.
Crash(r) ==
    /\ Hand(r) # {}
    /\ Fault
    /\ DropBatch(r)
    /\ UNCHANGED <<dbVars, queued, retries, crossed>>

-----------------------------------------------------------------------------
\* lease_until < NOW().  A lease nobody works under runs out in time; one
\* whose relay still has the row in memory only when the relay overran it.
LeaseRunsOut(k) ==
    /\ delivery[k].lease # NoRelay
    /\ ~delivery[k].expired
    /\ IF \E r \in Relay : delivery[k].lease = r /\ k \in Hand(r)
       THEN Fault
       ELSE UNCHANGED faults
    /\ delivery' = [delivery EXCEPT ![k].expired = TRUE]
    /\ UNCHANGED <<outbox, dlq, queued, relayVars, retries, crossed>>

\* A retry that commits between a judgement of its outbox row and the COMMIT
\* of that judgement is overwritten by it.
Crosses(k) ==
    crossed' = IF \E r \in Relay : pc[r] = "over" /\ row[r][1] = k[1]
               THEN crossed \cup {k[1]} ELSE crossed \ {k[1]}

\* Mutant of AdminRetry: the dead letter stays listed.
AdminRetryKeepsDeadLetter(k) ==
    /\ retries < MaxRetries
    /\ k \in dlq
    /\ delivery' = [delivery EXCEPT ![k] = Unleased("pending", 0)]
    /\ outbox' = [outbox EXCEPT ![k[1]] = [estado |-> "pending", published_at |-> FALSE]]
    /\ retries' = retries + 1
    /\ Crosses(k)
    /\ UNCHANGED <<dlq, queued, relayVars, faults>>

\* POST /admin/outbox-dlq/:id/retry, at its COMMIT: the delivery starts over.
\* What it read before is still so: it holds the row of the dead letter, and
\* no relay writes a dead delivery.
AdminRetry(k) ==
    /\ retries < MaxRetries
    /\ k \in dlq
    /\ delivery' = [delivery EXCEPT ![k] = Unleased("pending", 0)]
    /\ dlq' = dlq \ {k}
    /\ outbox' = [outbox EXCEPT ![k[1]] = [estado |-> "pending", published_at |-> FALSE]]
    /\ retries' = retries + 1
    /\ Crosses(k)
    /\ UNCHANGED <<queued, relayVars, faults>>

RelayStep(r) ==
    \/ ClaimBatch(r)
    \/ Publish(r) \/ PublishRejects(r)
    \/ MarkPublished(r) \/ MarkPublishedRejects(r)
    \/ JudgesParent(r) \/ MarkFailed(r) \/ MarkFailedRejects(r)

Next ==
    \/ \E e \in Event : PublishEvent(e)
    \/ \E r \in Relay : RelayStep(r) \/ Crash(r)
    \/ \E k \in Delivery : LeaseRunsOut(k) \/ AdminRetry(k)

Spec == Init /\ [][Next]_vars

\* setInterval calls tick for ever, every await settles, and time passes.
FairSpec ==
    /\ Spec
    /\ \A r \in Relay : WF_vars(RelayStep(r))
    /\ \A k \in Delivery : WF_vars(LeaseRunsOut(k) /\ UNCHANGED faults)

-----------------------------------------------------------------------------
\* The operator's table of dead letters and the state of the deliveries tell
\* the same story: what is dead is listed, and what is listed is dead and will
\* not be sent until it is put back (outbox-relay.ts:174-187, admin.ts:101-113).
DlqMatchesDelivery == \A k \in Delivery : k \in dlq <=> delivery[k].estado = "dlq"

\* A delivery that may still be sent has attempts left, and one that is dead
\* used exactly its budget, whatever relays failed it and however often it
\* was reclaimed or put back (outbox-relay.ts:174).
RetryBudget ==
    \A k \in Delivery :
        /\ delivery[k].estado = "pending" => delivery[k].attempts < MaxAttempts
        /\ delivery[k].estado = "dlq" => delivery[k].attempts = MaxAttempts

\* FOR UPDATE SKIP LOCKED and the leases keep the replicas apart: as long as
\* no relay crashed, lost the database or overran a lease, two relays never
\* work on the same delivery.
ReplicasDoNotOverlap ==
    faults = 0 => \A r1, r2 \in Relay : r1 # r2 => Hand(r1) \cap Hand(r2) = {}

\* The promise of DurableDelivery, kept by the tables: a delivery is owed from
\* the commit of its event, also before its row exists.
Owed == {k \in Delivery : /\ outbox[k[1]].estado # "absent"
                          /\ delivery[k].estado \in {"absent", "pending"}}
Settled == {k \in Delivery : delivery[k].estado = "published"}
Parked == {k \in Delivery : delivery[k].estado = "dlq"}

Promise == INSTANCE DurableDelivery
               WITH owed <- Owed, handed <- queued, settled <- Settled, parked <- Parked

\* Every step of the relays keeps the promise: nothing is counted as published
\* that was not handed over first, and a published delivery stays published.
KeepsPromise == Promise!SafeSpec

\* And with fair relays every debt is settled or parked in the end.
FulfilsPromise == Promise!Spec

-----------------------------------------------------------------------------
(***************************************************************************)
(* The inductive invariant behind the theorems of OutboxRelayProofs.       *)
(***************************************************************************)
\* Deliveries exist for committed events only.
EmittedFirst ==
    \A k \in Delivery : outbox[k[1]].estado = "absent" => delivery[k].estado = "absent"

\* A lease is always on a pending row: settling a row frees it.
LeasedIsPending ==
    \A k \in Delivery : delivery[k].lease # NoRelay => delivery[k].estado = "pending"

QueuedBeforePublished ==
    \A k \in Delivery : delivery[k].estado = "published" => k \in queued

\* What a relay has in memory are rows it claimed, and it marks a row as
\* published only once the row is in the queue.
RowsInHand ==
    \A r \in Relay :
        /\ pc[r] = "ready" <=> row[r] = NoRow
        /\ pc[r] = "mark" => row[r] \in queued
        /\ row[r] \notin batch[r]
        /\ \A k \in Hand(r) : delivery[k].estado # "absent"

\* A row markFailed has locked is still the relay's, at its last attempt.
LockedIsLeased ==
    \A r \in Relay : pc[r] \in Judged =>
        delivery[row[r]].lease = r /\ Exhausted(delivery[row[r]].attempts + 1)

\* Without faults, a relay holds the lease of every row it has in memory.
HandIsLeased ==
    faults = 0 =>
        \A r \in Relay : \A k \in Hand(r) :
            delivery[k].lease = r /\ ~delivery[k].expired

IInv ==
    /\ TypeOK
    /\ DlqMatchesDelivery
    /\ RetryBudget
    /\ EmittedFirst
    /\ LeasedIsPending
    /\ QueuedBeforePublished
    /\ RowsInHand
    /\ LockedIsLeased
    /\ HandIsLeased

-----------------------------------------------------------------------------
\* ADR 006 (docs/adr/006-outbox-pattern.md:34): after publication the relay
\* does "UPDATE published_at=NOW(), estado='published'" on the outbox row.
PublishedEverywhereIsPublished ==
    \A e \in Event :
        (\A d \in Destination : delivery[<<e, d>>].estado = "published")
            => outbox[e].published_at
=============================================================================
