------------------------- MODULE OutboxRelayProofs -------------------------
(***************************************************************************)
(* OutboxRelay keeps its invariants and implements the safety part of      *)
(* DurableDelivery, for any events, destinations, replicas and bounds.     *)
(***************************************************************************)
EXTENDS OutboxRelay, TLAPS

USE RelayAssumption, RowAssumption, BoundsAssumption DEF OutboxRow, DeliveryRow, DeadLetter, Exhausted, Judged, tally

\* The tables start empty and the relays with nothing in memory.
LEMMA InitIInv == Init => IInv
  BY DEF Init, IInv, TypeOK, DlqMatchesDelivery, RetryBudget, EmittedFirst,
      LeasedIsPending, QueuedBeforePublished, RowsInHand, LockedIsLeased,
      HandIsLeased, Hand, Unleased, Delivery

\* A business transaction only adds an event that had no deliveries.
LEMMA PublishEventKeepsIInv ==
  ASSUME IInv, NEW e \in Event, PublishEvent(e)
  PROVE  IInv'
<1> USE DEF PublishEvent, relayVars
<1>1. TypeOK' BY DEF IInv, TypeOK
<1>2. DlqMatchesDelivery' BY DEF IInv, DlqMatchesDelivery
<1>3. RetryBudget' BY DEF IInv, RetryBudget
<1>4. EmittedFirst' BY DEF IInv, TypeOK, EmittedFirst, Delivery
<1>5. LeasedIsPending' BY DEF IInv, LeasedIsPending
<1>6. QueuedBeforePublished' BY DEF IInv, QueuedBeforePublished
<1>7. RowsInHand' BY DEF IInv, RowsInHand, Hand
<1>8. HandIsLeased' BY DEF IInv, HandIsLeased, Hand
<1>9. LockedIsLeased' BY DEF IInv, LockedIsLeased
<1> QED BY <1>1, <1>2, <1>3, <1>4, <1>5, <1>6, <1>7, <1>8, <1>9 DEF IInv

\* The claim's INSERT adds pending rows for emitted events and changes no row.
LEMMA WithDeliveriesFacts ==
  \A k \in Delivery :
     \/ WithDeliveries[k] = delivery[k]
     \/ /\ WithDeliveries[k] = Unleased("pending", 0)
        /\ delivery[k].estado = "absent"
        /\ outbox[k[1]].estado # "absent"
  BY DEF WithDeliveries

\* A claim takes rows nobody holds without a fault, and leases them.
LEMMA ClaimBatchKeepsIInv ==
  ASSUME IInv, NEW r \in Relay, ClaimBatch(r)
  PROVE  IInv'
<1> DEFINE W == WithDeliveries
           Lease(w) == [w EXCEPT !.lease = r, !.expired = FALSE]
<1>1. PICK b \in SUBSET Claimable(W) :
        /\ batch' = [batch EXCEPT ![r] = b]
        /\ delivery' = [k \in Delivery |-> IF k \in b THEN Lease(W[k]) ELSE W[k]]
  BY DEF ClaimBatch, Limit
<1>2. /\ pc[r] = "ready" /\ row[r] = NoRow /\ batch[r] = {}
      /\ UNCHANGED <<outbox, dlq, queued, row, pc, faults, retries, crossed>>
  BY DEF ClaimBatch, IInv, RowsInHand
<1>3. ASSUME NEW k \in Delivery
      PROVE  /\ k \in b => /\ W[k].estado = "pending"
                           /\ W[k].lease = NoRelay \/ W[k].expired
                           /\ delivery'[k] = Lease(W[k])
             /\ k \notin b => delivery'[k] = W[k]
  BY <1>1 DEF Claimable
<1>4. \A k \in Delivery :
        W[k] \in DeliveryRow
  <2> TAKE k \in Delivery
  <2>1. CASE W[k] = delivery[k] BY <2>1 DEF IInv, TypeOK
  <2>2. CASE W[k] = Unleased("pending", 0) BY <2>2 DEF Unleased
  <2> QED BY <2>1, <2>2, WithDeliveriesFacts
<1>5. \A k \in Delivery : /\ delivery'[k].estado = W[k].estado
                          /\ delivery'[k].attempts = W[k].attempts
  BY <1>3, <1>4, ZenonT(30)
<1>6. \A k \in Delivery : W[k].estado # delivery[k].estado =>
        /\ W[k] = Unleased("pending", 0) /\ delivery[k].estado = "absent" /\ outbox[k[1]].estado # "absent"
  BY WithDeliveriesFacts
<1> HIDE DEF W
<1>7. TypeOK'
  <2>1. delivery' \in [Delivery -> DeliveryRow]
    BY <1>1, <1>3, <1>4, ZenonT(30)
  <2>2. batch' \in [Relay -> SUBSET Delivery]
    BY <1>1 DEF IInv, TypeOK, Claimable
  <2> QED BY <2>1, <2>2, <1>2 DEF IInv, TypeOK
<1>8. DlqMatchesDelivery' BY <1>2, <1>5, <1>6 DEF IInv, DlqMatchesDelivery, Unleased
<1>9. RetryBudget'
  BY <1>2, <1>5, <1>6, WithDeliveriesFacts DEF W, IInv, RetryBudget, Unleased
<1>10. EmittedFirst' BY <1>2, <1>5, <1>6 DEF IInv, EmittedFirst
<1>11. LeasedIsPending'
  <2>1. ASSUME NEW k \in Delivery, W[k].lease # NoRelay
        PROVE  W[k].estado = "pending"
    <3>1. W[k] = delivery[k] \/ W[k] = Unleased("pending", 0)
      BY WithDeliveriesFacts DEF W
    <3> QED BY <3>1, <2>1 DEF IInv, LeasedIsPending, Unleased
  <2>2. ASSUME NEW k \in Delivery, delivery'[k].lease # NoRelay
        PROVE  delivery'[k].estado = "pending"
    BY <2>1, <2>2, <1>3, <1>5
  <2> QED BY <2>2 DEF LeasedIsPending
<1>12. QueuedBeforePublished'
  BY <1>2, <1>5, <1>6 DEF IInv, QueuedBeforePublished, Unleased
<1>13. RowsInHand'
  <2> SUFFICES ASSUME NEW s \in Relay
               PROVE  /\ row'[s] \notin batch'[s]
                      /\ \A k \in Hand(s)' : delivery'[k].estado # "absent"
    BY <1>2 DEF RowsInHand, IInv
  <2>1. CASE s = r
    <3>1. batch'[s] = b /\ row'[s] = NoRow /\ Hand(s)' = b
      BY <2>1, <1>1, <1>2 DEF Hand, IInv, TypeOK
    <3>2. b \subseteq Delivery BY DEF Claimable
    <3> QED BY <3>1, <3>2, <1>3, <1>5 DEF Delivery
  <2>2. CASE s # r
    <3>1. batch'[s] = batch[s] /\ row'[s] = row[s] /\ Hand(s)' = Hand(s)
      BY <2>2, <1>1, <1>2 DEF Hand, IInv, TypeOK
    <3>2. Hand(s) \subseteq Delivery BY DEF IInv, TypeOK, Hand
    <3> QED BY <3>1, <3>2, <1>5, <1>6 DEF IInv, RowsInHand, Unleased
  <2> QED BY <2>1, <2>2
<1>14. HandIsLeased'
  <2> SUFFICES ASSUME faults = 0, NEW s \in Relay, NEW k \in Hand(s)'
               PROVE  delivery'[k].lease = s /\ ~delivery'[k].expired
    BY <1>2 DEF HandIsLeased
  <2>1. CASE s = r
    <3>1. k \in b BY <2>1, <1>1, <1>2 DEF Hand, IInv, TypeOK
    <3> QED BY <3>1, <2>1, <1>3, <1>4 DEF Claimable
  <2>2. CASE s # r
    <3>1. k \in Hand(s) BY <2>2, <1>1, <1>2 DEF Hand, IInv, TypeOK
    <3>2. /\ k \in Delivery /\ delivery[k].estado # "absent"
          /\ delivery[k].lease = s /\ ~delivery[k].expired
      BY <3>1 DEF IInv, TypeOK, Hand, RowsInHand, HandIsLeased
    <3>3. W[k] = delivery[k] BY <3>2, WithDeliveriesFacts DEF W
    <3>4. k \notin b BY <3>2, <3>3, <1>3
    <3> QED BY <3>2, <3>3, <3>4, <1>3
  <2> QED BY <2>1, <2>2
<1>15. LockedIsLeased'
  <2> SUFFICES ASSUME NEW s \in Relay, pc[s] \in Judged
               PROVE  delivery'[row[s]] = delivery[row[s]]
    BY <1>2 DEF IInv, LockedIsLeased
  <2>1. row[s] \in Delivery /\ row[s] \in Locked /\ delivery[row[s]].estado # "absent"
    BY DEF IInv, TypeOK, RowsInHand, Hand, Locked
  <2>2. row[s] \notin b BY <2>1 DEF Claimable
  <2>3. W[row[s]] = delivery[row[s]] BY <2>1, WithDeliveriesFacts DEF W
  <2> QED BY <2>1, <2>2, <2>3, <1>3
<1> QED BY <1>7, <1>8, <1>9, <1>10, <1>11, <1>12, <1>13, <1>14, <1>15 DEF IInv

\* A publication, answered or not, moves a row from the batch to the relay's hand.
LEMMA PublishKeepsIInv ==
  ASSUME IInv, NEW r \in Relay, Publish(r) \/ PublishRejects(r)
  PROVE  IInv'
<1>1. PICK k \in batch[r] :
        /\ row' = [row EXCEPT ![r] = k]
        /\ batch' = [batch EXCEPT ![r] = @ \ {k}]
        /\ queued' \in {queued, queued \cup {k}}
        /\ \/ pc' = [pc EXCEPT ![r] = "mark"] /\ k \in queued'
           \/ pc' = [pc EXCEPT ![r] = "fail"]
  BY DEF Publish, PublishRejects
<1>2. UNCHANGED <<outbox, delivery, dlq, faults, retries, crossed>>
  BY DEF Publish, PublishRejects, dbVars
<1>3. pc[r] = "ready" /\ row[r] = NoRow
  BY DEF Publish, PublishRejects, IInv, RowsInHand
<1>4. k \in Delivery /\ queued \subseteq queued' BY <1>1 DEF IInv, TypeOK
<1>5. \A s \in Relay : Hand(s)' = Hand(s)
  <2> TAKE s \in Relay
  <2>1. CASE s = r
    BY <2>1, <1>1, <1>3, <1>4 DEF Hand, IInv, TypeOK, Delivery
  <2>2. CASE s # r
    BY <2>2, <1>1 DEF Hand, IInv, TypeOK
  <2> QED BY <2>1, <2>2
<1>6. TypeOK' BY <1>1, <1>2, <1>4 DEF IInv, TypeOK
<1>7. RowsInHand'
  <2> SUFFICES ASSUME NEW s \in Relay
               PROVE  /\ pc'[s] = "ready" <=> row'[s] = NoRow
                      /\ pc'[s] = "mark" => row'[s] \in queued'
                      /\ row'[s] \notin batch'[s]
                      /\ \A j \in Hand(s)' : delivery'[j].estado # "absent"
    BY DEF RowsInHand
  <2>1. \A j \in Hand(s)' : delivery'[j].estado # "absent"
    BY <1>2, <1>5 DEF IInv, RowsInHand
  <2>2. CASE s = r
    BY <2>1, <2>2, <1>1, <1>4 DEF IInv, TypeOK, Delivery
  <2>3. CASE s # r
    BY <2>1, <2>3, <1>1, <1>4 DEF IInv, TypeOK, RowsInHand
  <2> QED BY <2>2, <2>3
<1>8. HandIsLeased' BY <1>2, <1>5 DEF IInv, HandIsLeased
<1>9. /\ DlqMatchesDelivery' /\ RetryBudget' /\ EmittedFirst' /\ LeasedIsPending'
      /\ QueuedBeforePublished'
  BY <1>2, <1>4 DEF IInv, DlqMatchesDelivery, RetryBudget, EmittedFirst, LeasedIsPending,
     QueuedBeforePublished
<1>10. LockedIsLeased'
  <2> SUFFICES ASSUME NEW s \in Relay, pc'[s] \in Judged
               PROVE  pc[s] \in Judged /\ row'[s] = row[s]
    BY <1>2 DEF IInv, LockedIsLeased
  <2>1. s # r BY <1>1 DEF IInv, TypeOK
  <2> QED BY <2>1, <1>1 DEF IInv, TypeOK
<1> QED BY <1>6, <1>7, <1>8, <1>9, <1>10 DEF IInv

\* The judgement of the outbox row is made at the last attempt, under the lease.
LEMMA JudgeKeepsIInv ==
  ASSUME IInv, NEW r \in Relay, JudgesParent(r)
  PROVE  IInv'
<1>1. /\ pc[r] = "fail" /\ pc' \in {[pc EXCEPT ![r] = "dead"], [pc EXCEPT ![r] = "over"]}
      /\ HoldsLease(r) /\ Exhausted(delivery[row[r]].attempts + 1)
      /\ UNCHANGED <<outbox, delivery, dlq, queued, batch, row, faults, retries, crossed>>
  BY DEF JudgesParent, dbVars
<1>2. \A s \in Relay : s # r => pc'[s] = pc[s]
  BY <1>1 DEF IInv, TypeOK
<1>3. pc'[r] \in Judged
  BY <1>1 DEF IInv, TypeOK
<1>4. TypeOK'
  BY <1>1 DEF IInv, TypeOK
<1>5. RowsInHand'
  BY <1>1, <1>2, <1>3 DEF IInv, RowsInHand, Hand
<1>6. LockedIsLeased'
  BY <1>1, <1>2 DEF IInv, LockedIsLeased, HoldsLease
<1>7. HandIsLeased'
  BY <1>1 DEF IInv, HandIsLeased, Hand
<1>8. /\ DlqMatchesDelivery' /\ RetryBudget' /\ EmittedFirst' /\ LeasedIsPending'
      /\ QueuedBeforePublished'
  BY <1>1 DEF IInv, DlqMatchesDelivery, RetryBudget, EmittedFirst, LeasedIsPending,
     QueuedBeforePublished
<1> QED BY <1>4, <1>5, <1>6, <1>7, <1>8 DEF IInv

\* What recording an outcome may do to the tables: nothing, when the lease was
\* lost, and otherwise settle or release the row, according to the budget.
RecordEffect(r) ==
  \/ UNCHANGED dbVars
  \/ \E st \in {"pending", "published", "dlq"} :
       LET k == row[r]
           n == delivery[k].attempts + 1
       IN  /\ delivery[k].lease = r
           /\ delivery' = [delivery EXCEPT ![k] = Unleased(st, n)]
           /\ st = "published" => pc[r] = "mark"
           /\ st = "pending" => n < MaxAttempts
           /\ st = "dlq" => n >= MaxAttempts
           /\ dlq' = IF st = "dlq" THEN dlq \cup {k} ELSE dlq
           /\ outbox' \in [Event -> OutboxRow]
           /\ \A e \in Event : outbox'[e].estado = "absent" <=> outbox[e].estado = "absent"

\* Recording an outcome changes at most the row in the relay's hand.
LEMMA RecordHasEffect ==
  ASSUME IInv, NEW r \in Relay, row[r] \in Delivery,
         (pc[r] = "mark" /\ RecordPublished(r)) \/ RecordFailure(r)
  PROVE  RecordEffect(r)
<1> DEFINE k == row[r]
           e == k[1]
           n == delivery[k].attempts + 1
<1>1. /\ e \in Event /\ delivery[k].attempts \in Nat /\ n \in Nat
      /\ outbox[e].estado \in {"absent", "pending", "published", "failed"}
  BY DEF IInv, TypeOK, Delivery
<1>2. ASSUME HoldsLease(r) PROVE outbox[e].estado # "absent"
  BY <1>2 DEF HoldsLease, IInv, LeasedIsPending, EmittedFirst
<1>3. CASE pc[r] = "mark" /\ RecordPublished(r)
  <2>1. CASE UNCHANGED dbVars BY <2>1 DEF RecordEffect
  <2>2. CASE HoldsLease(r)
    <3>1. /\ delivery' = [delivery EXCEPT ![k] = Unleased("published", n)] /\ dlq' = dlq
          /\ outbox' \in {outbox, [outbox EXCEPT ![e].estado = "failed"],
                          [outbox EXCEPT ![e] = [estado |-> "published", published_at |-> TRUE]]}
      BY <1>3, <2>2 DEF RecordPublished, HoldsLease
    <3>2. outbox' \in [Event -> OutboxRow]
      <4>1. CASE outbox' = [outbox EXCEPT ![e] = [estado |-> "published",
                                                  published_at |-> TRUE]]
        BY <4>1, <1>1 DEF IInv, TypeOK
      <4>2. CASE outbox' # [outbox EXCEPT ![e] = [estado |-> "published",
                                                  published_at |-> TRUE]]
        BY <4>2, <3>1, <1>1 DEF IInv, TypeOK
      <4> QED BY <4>1, <4>2
    <3>3. \A f \in Event : outbox'[f].estado = "absent" <=> outbox[f].estado = "absent"
      <4>1. \A f \in Event \ {e} : outbox'[f] = outbox[f]
        BY <3>1, <1>1 DEF IInv, TypeOK
      <4>2. outbox'[e].estado # "absent"
        BY <3>1, <1>1, <1>2, <2>2 DEF IInv, TypeOK
      <4> QED BY <4>1, <4>2, <1>2, <2>2
    <3> QED BY <3>1, <3>2, <3>3, <1>3, <2>2 DEF RecordEffect, HoldsLease
  <2> QED BY <1>3, <2>1, <2>2 DEF RecordPublished
<1>4. CASE RecordFailure(r)
  <2>1. CASE UNCHANGED dbVars BY <2>1 DEF RecordEffect
  <2>2. CASE pc[r] = "fail" /\ HoldsLease(r) /\ n < MaxAttempts
    BY <1>4, <2>2 DEF RecordFailure, RecordEffect, HoldsLease, IInv, TypeOK
  <2>3. CASE pc[r] \in Judged
    <3>1. /\ delivery' = [delivery EXCEPT ![k] = Unleased("dlq", n)] /\ dlq' = dlq \cup {k}
          /\ outbox' \in {outbox, [outbox EXCEPT ![e].estado = "failed"]}
      BY <1>4, <2>3 DEF RecordFailure
    <3>4. HoldsLease(r) /\ n >= MaxAttempts
      BY <2>3 DEF IInv, LockedIsLeased, HoldsLease
    <3>2. outbox' \in [Event -> OutboxRow]
      BY <3>1, <1>1 DEF IInv, TypeOK
    <3>3. \A f \in Event : outbox'[f].estado = "absent" <=> outbox[f].estado = "absent"
      BY <3>1, <3>4, <1>1, <1>2 DEF IInv, TypeOK
    <3> QED BY <3>1, <3>2, <3>3, <3>4 DEF RecordEffect, HoldsLease
  <2> QED BY <1>1, <1>4, <2>1, <2>2, <2>3 DEF RecordFailure
<1> QED BY <1>3, <1>4

\* A row without a lease is a row of outbox_deliveries.
LEMMA UnleasedIsRow ==
  ASSUME NEW st \in {"absent", "pending", "published", "dlq"}, NEW n \in Nat
  PROVE  Unleased(st, n) \in DeliveryRow
  BY DEF Unleased

\* The relay records an outcome, or fails to, and goes on or gives up: nobody
\* gains a row, and a relay that keeps its row after that has met a fault.
LEMMA RecordKeepsIInv ==
  ASSUME IInv, NEW r \in Relay, row[r] \in Delivery,
         RecordEffect(r), UNCHANGED <<queued, retries, crossed>>,
         batch' \in [Relay -> SUBSET Delivery],
         row' \in [Relay -> Delivery \cup {NoRow}],
         pc' \in [Relay -> {"ready", "mark", "fail"} \cup Judged],
         faults' \in 0..MaxFaults,
         \A s \in Relay : /\ batch'[s] \subseteq batch[s]
                          /\ row'[s] \in {row[s], NoRow}
                          /\ pc'[s] = "ready" <=> row'[s] = NoRow
                          /\ pc'[s] = "mark" => pc[s] = "mark"
                          /\ pc'[s] \in Judged => s # r /\ pc[s] \in Judged,
         faults' = 0 => faults = 0 /\ row'[r] = NoRow
  PROVE  IInv'
<1> DEFINE k == row[r]
           n == delivery[k].attempts + 1
<1>1. k \in Delivery /\ n \in Nat BY DEF IInv, TypeOK
<1>2. \A s \in Relay : Hand(s)' \subseteq Hand(s) /\ Hand(s) \subseteq Delivery
  BY DEF Hand, IInv, TypeOK
<1>3. (\A s \in Relay : \A j \in Hand(s)' : delivery'[j].estado # "absent") => RowsInHand'
  <2> SUFFICES ASSUME NEW s \in Relay
               PROVE  /\ pc'[s] = "mark" => row'[s] \in queued'
                      /\ row'[s] \notin batch'[s]
    BY DEF RowsInHand
  <2>1. pc'[s] = "mark" => row'[s] \in queued' BY DEF IInv, RowsInHand
  <2>2. row'[s] \notin batch'[s] BY DEF IInv, TypeOK, RowsInHand, Delivery
  <2> QED BY <2>1, <2>2
<1>6. \A s \in Relay : pc'[s] \in Judged =>
         /\ s # r /\ row'[s] = row[s] /\ delivery[row[s]].lease = s
         /\ Exhausted(delivery[row[s]].attempts + 1) /\ row[s] \in Delivery
  BY DEF IInv, TypeOK, RowsInHand, LockedIsLeased
<1>4. CASE UNCHANGED dbVars
  <2> USE <1>4 DEF dbVars
  <2>5. LockedIsLeased' BY <1>6 DEF LockedIsLeased
  <2>1. TypeOK' BY DEF IInv, TypeOK
  <2>2. RowsInHand' BY <1>2, <1>3 DEF IInv, RowsInHand
  <2>3. HandIsLeased' BY <1>2 DEF IInv, HandIsLeased
  <2>4. /\ DlqMatchesDelivery' /\ RetryBudget' /\ EmittedFirst' /\ LeasedIsPending'
        /\ QueuedBeforePublished'
    BY DEF IInv, DlqMatchesDelivery, RetryBudget, EmittedFirst, LeasedIsPending,
       QueuedBeforePublished
  <2> QED BY <2>1, <2>2, <2>3, <2>4, <2>5 DEF IInv
<1>5. ASSUME NEW st \in {"pending", "published", "dlq"},
             delivery[k].lease = r,
             delivery' = [delivery EXCEPT ![k] = Unleased(st, n)],
             st = "published" => pc[r] = "mark",
             st = "pending" => n < MaxAttempts,
             st = "dlq" => n >= MaxAttempts,
             dlq' = IF st = "dlq" THEN dlq \cup {k} ELSE dlq,
             outbox' \in [Event -> OutboxRow],
             \A e \in Event : outbox'[e].estado = "absent" <=> outbox[e].estado = "absent"
      PROVE  IInv'
  <2>1. /\ Unleased(st, n) = [estado |-> st, attempts |-> n, lease |-> NoRelay, expired |-> FALSE]
        /\ delivery'[k] = Unleased(st, n)
        /\ \A j \in Delivery \ {k} : delivery'[j] = delivery[j]
    BY <1>1, <1>5 DEF Unleased, IInv, TypeOK
  <2>2. delivery[k].estado = "pending" /\ n <= MaxAttempts
    BY <1>1, <1>5 DEF IInv, TypeOK, LeasedIsPending, RetryBudget
  <2>3. TypeOK'
    <3>1. delivery' \in [Delivery -> DeliveryRow]
      <4>1. Unleased(st, n) \in DeliveryRow
        BY <1>1, UnleasedIsRow
      <4> HIDE DEF n
      <4> QED BY <4>1, <1>1, <1>5 DEF IInv, TypeOK
    <3>2. dlq' \subseteq Delivery BY <1>1, <1>5 DEF IInv, TypeOK
    <3> QED BY <3>1, <3>2, <1>5 DEF IInv, TypeOK
  <2>4. DlqMatchesDelivery'
    <3> SUFFICES ASSUME NEW j \in Delivery
                 PROVE  j \in dlq' <=> delivery'[j].estado = "dlq"
      BY DEF DlqMatchesDelivery
    <3>1. CASE j = k BY <3>1, <1>5, <2>1, <2>2 DEF IInv, DlqMatchesDelivery
    <3>2. CASE j # k BY <3>2, <1>5, <2>1 DEF IInv, DlqMatchesDelivery
    <3> QED BY <3>1, <3>2
  <2>5. RetryBudget'
    <3> SUFFICES ASSUME NEW j \in Delivery
                 PROVE  /\ delivery'[j].estado = "pending"
                              => delivery'[j].attempts < MaxAttempts
                        /\ delivery'[j].estado = "dlq"
                              => delivery'[j].attempts = MaxAttempts
      BY DEF RetryBudget
    <3>1. CASE j = k
      <4>1. delivery'[k].estado = st /\ delivery'[k].attempts = n
        BY <2>1
      <4> HIDE DEF n
      <4> QED BY <3>1, <4>1, <1>1, <1>5, <2>2
    <3>2. CASE j # k BY <3>2, <2>1 DEF IInv, RetryBudget
    <3> QED BY <3>1, <3>2
  <2>6. EmittedFirst'
    <3>1. outbox[k[1]].estado # "absent" BY <1>1, <2>2 DEF IInv, EmittedFirst
    <3> QED BY <3>1, <1>1, <1>5, <2>1 DEF IInv, EmittedFirst, Delivery
  <2>7. LeasedIsPending' BY <1>1, <1>5, <2>1 DEF IInv, LeasedIsPending
  <2>8. QueuedBeforePublished'
    BY <1>1, <1>5, <2>1 DEF IInv, QueuedBeforePublished, RowsInHand
  <2>9. RowsInHand' BY <1>2, <1>3, <2>1 DEF IInv, RowsInHand
  <2>10. HandIsLeased'
    <3> SUFFICES ASSUME faults = 0, row'[r] = NoRow, NEW s \in Relay, NEW j \in Hand(s)'
                 PROVE  delivery'[j].lease = s /\ ~delivery'[j].expired
      BY DEF HandIsLeased
    <3>1. j \in Hand(s) /\ j \in Delivery BY <1>2
    <3>2. delivery[j].lease = s /\ ~delivery[j].expired
      BY <3>1 DEF IInv, HandIsLeased
    <3>3. j # k
      <4>1. CASE s = r BY <4>1, <3>1 DEF Hand, IInv, TypeOK, RowsInHand
      <4>2. CASE s # r BY <4>2, <3>2, <1>5
      <4> QED BY <4>1, <4>2
    <3> QED BY <3>1, <3>2, <3>3, <2>1
  <2>11. LockedIsLeased'
    BY <1>5, <1>6, <2>1 DEF LockedIsLeased
  <2> QED BY <2>3, <2>4, <2>5, <2>6, <2>7, <2>8, <2>9, <2>10, <2>11 DEF IInv
<1> QED BY <1>4, <1>5 DEF RecordEffect

\* Recording an outcome, or failing to, keeps the invariant.
LEMMA MarkKeepsIInv ==
  ASSUME IInv, NEW r \in Relay,
         \/ MarkPublished(r) \/ MarkPublishedRejects(r)
         \/ MarkFailed(r) \/ MarkFailedRejects(r)
  PROVE  IInv'
<1>1. row[r] \in Delivery BY DEF MarkPublished, MarkPublishedRejects, MarkFailed,
         MarkFailedRejects, RecordFailure, IInv, TypeOK, RowsInHand
<1>2. RecordEffect(r)
  BY <1>1, RecordHasEffect DEF MarkPublished, MarkPublishedRejects, MarkFailed,
     MarkFailedRejects, RecordEffect
<1>3. CASE MarkPublished(r) \/ MarkFailed(r)
  <2>1. /\ row' = [row EXCEPT ![r] = NoRow]
        /\ pc' = [pc EXCEPT ![r] = "ready"]
        /\ UNCHANGED <<queued, batch, faults, retries, crossed>>
    BY <1>3 DEF MarkPublished, MarkFailed, NextRow
  <2>2. /\ batch' \in [Relay -> SUBSET Delivery]
        /\ row' \in [Relay -> Delivery \cup {NoRow}]
        /\ pc' \in [Relay -> {"ready", "mark", "fail"} \cup Judged]
        /\ faults' \in 0..MaxFaults
    BY <2>1 DEF IInv, TypeOK
  <2>3. \A s \in Relay : /\ batch'[s] \subseteq batch[s]
                         /\ row'[s] \in {row[s], NoRow}
                         /\ pc'[s] = "ready" <=> row'[s] = NoRow
                         /\ pc'[s] = "mark" => pc[s] = "mark"
                         /\ pc'[s] \in Judged => s # r /\ pc[s] \in Judged
    BY <2>1 DEF IInv, TypeOK, RowsInHand
  <2>4. faults' = 0 => faults = 0 /\ row'[r] = NoRow
    BY <2>1 DEF IInv, TypeOK
  <2> QED BY <1>1, <1>2, <2>1, <2>2, <2>3, <2>4, RecordKeepsIInv
<1>4. CASE MarkPublishedRejects(r)
  <2>1. /\ pc[r] = "mark"
        /\ pc' = [pc EXCEPT ![r] = "fail"]
        /\ faults < MaxFaults /\ faults' = faults + 1
        /\ UNCHANGED <<queued, batch, row, retries, crossed>>
    BY <1>4 DEF MarkPublishedRejects, Fault
  <2>2. /\ batch' \in [Relay -> SUBSET Delivery]
        /\ row' \in [Relay -> Delivery \cup {NoRow}]
        /\ pc' \in [Relay -> {"ready", "mark", "fail"} \cup Judged]
        /\ faults' \in 0..MaxFaults
    BY <2>1 DEF IInv, TypeOK
  <2>3. \A s \in Relay : /\ batch'[s] \subseteq batch[s]
                         /\ row'[s] \in {row[s], NoRow}
                         /\ pc'[s] = "ready" <=> row'[s] = NoRow
                         /\ pc'[s] = "mark" => pc[s] = "mark"
                         /\ pc'[s] \in Judged => s # r /\ pc[s] \in Judged
    BY <2>1 DEF IInv, TypeOK, RowsInHand
  <2>4. faults' = 0 => faults = 0 /\ row'[r] = NoRow
    BY <2>1 DEF IInv, TypeOK
  <2> QED BY <1>1, <1>2, <2>1, <2>2, <2>3, <2>4, RecordKeepsIInv
<1>5. CASE MarkFailedRejects(r)
  <2>1. /\ batch' = [batch EXCEPT ![r] = {}]
        /\ row' = [row EXCEPT ![r] = NoRow]
        /\ pc' = [pc EXCEPT ![r] = "ready"]
        /\ faults < MaxFaults /\ faults' = faults + 1
        /\ UNCHANGED <<queued, retries, crossed>>
    BY <1>5 DEF MarkFailedRejects, DropBatch, NextRow, Fault
  <2>2. /\ batch' \in [Relay -> SUBSET Delivery]
        /\ row' \in [Relay -> Delivery \cup {NoRow}]
        /\ pc' \in [Relay -> {"ready", "mark", "fail"} \cup Judged]
        /\ faults' \in 0..MaxFaults
    BY <2>1 DEF IInv, TypeOK
  <2>3. \A s \in Relay : /\ batch'[s] \subseteq batch[s]
                         /\ row'[s] \in {row[s], NoRow}
                         /\ pc'[s] = "ready" <=> row'[s] = NoRow
                         /\ pc'[s] = "mark" => pc[s] = "mark"
                         /\ pc'[s] \in Judged => s # r /\ pc[s] \in Judged
    BY <2>1 DEF IInv, TypeOK, RowsInHand
  <2>4. faults' = 0 => faults = 0 /\ row'[r] = NoRow
    BY <2>1 DEF IInv, TypeOK
  <2> QED BY <1>1, <1>2, <2>1, <2>2, <2>3, <2>4, RecordKeepsIInv
<1> QED BY <1>3, <1>4, <1>5
  DEF MarkPublished, MarkPublishedRejects, MarkFailed, MarkFailedRejects

\* A crash empties the relay's memory and nothing else.
LEMMA CrashKeepsIInv ==
  ASSUME IInv, NEW r \in Relay, Crash(r)
  PROVE  IInv'
<1> USE DEF Crash, DropBatch, NextRow, Fault, dbVars
<1>1. TypeOK' BY DEF IInv, TypeOK
<1>2. RowsInHand' BY DEF IInv, TypeOK, RowsInHand, Hand
<1>3. HandIsLeased' BY DEF IInv, TypeOK, HandIsLeased
<1>4. /\ DlqMatchesDelivery' /\ RetryBudget' /\ EmittedFirst' /\ LeasedIsPending'
      /\ QueuedBeforePublished'
  BY DEF IInv, DlqMatchesDelivery, RetryBudget, EmittedFirst, LeasedIsPending,
     QueuedBeforePublished
<1>5. LockedIsLeased' BY DEF IInv, TypeOK, LockedIsLeased
<1> QED BY <1>1, <1>2, <1>3, <1>4, <1>5 DEF IInv

\* A lease runs out for nobody's row, or counts as a fault.
LEMMA LeaseRunsOutKeepsIInv ==
  ASSUME IInv, NEW k \in Delivery, LeaseRunsOut(k)
  PROVE  IInv'
<1>1. /\ delivery' = [delivery EXCEPT ![k].expired = TRUE]
      /\ faults' \in {faults, faults + 1}
      /\ faults' \in 0..MaxFaults
      /\ UNCHANGED <<outbox, dlq, queued, batch, row, pc, retries, crossed>>
  BY DEF LeaseRunsOut, Fault, relayVars, IInv, TypeOK
<1>2. \A j \in Delivery : /\ delivery'[j].estado = delivery[j].estado
                          /\ delivery'[j].attempts = delivery[j].attempts
                          /\ delivery'[j].lease = delivery[j].lease
                          /\ j # k => delivery'[j] = delivery[j]
  BY <1>1 DEF IInv, TypeOK
<1>3. TypeOK' BY <1>1, ZenonT(30) DEF IInv, TypeOK
<1>4. HandIsLeased'
  <2> SUFFICES ASSUME faults' = 0, NEW r \in Relay, NEW j \in Hand(r)'
               PROVE  delivery'[j].lease = r /\ ~delivery'[j].expired
    BY DEF HandIsLeased
  <2>1. faults = 0 /\ j \in Hand(r) /\ j \in Delivery
    BY <1>1 DEF IInv, TypeOK, Hand
  <2>2. delivery[j].lease = r /\ ~delivery[j].expired
    BY <2>1 DEF IInv, HandIsLeased
  <2>3. j # k BY <2>1, <2>2 DEF LeaseRunsOut, Fault
  <2> QED BY <2>1, <2>2, <2>3, <1>2
<1>5. RowsInHand'
  <2>1. \A r \in Relay : Hand(r)' = Hand(r) /\ Hand(r) \subseteq Delivery
    BY <1>1 DEF Hand, IInv, TypeOK
  <2> QED BY <2>1, <1>1, <1>2 DEF IInv, RowsInHand
<1>6. /\ DlqMatchesDelivery' /\ RetryBudget' /\ EmittedFirst' /\ LeasedIsPending'
      /\ QueuedBeforePublished'
  BY <1>1, <1>2 DEF IInv, DlqMatchesDelivery, RetryBudget, EmittedFirst,
     LeasedIsPending, QueuedBeforePublished
<1>7. LockedIsLeased'
  BY <1>1, <1>2 DEF IInv, TypeOK, RowsInHand, LockedIsLeased
<1> QED BY <1>3, <1>4, <1>5, <1>6, <1>7 DEF IInv

\* A dead letter that is put back starts its budget over, without a lease.
LEMMA AdminRetryKeepsIInv ==
  ASSUME IInv, NEW k \in Delivery, AdminRetry(k)
  PROVE  IInv'
<1>1. /\ k \in dlq
      /\ delivery' = [delivery EXCEPT ![k] = Unleased("pending", 0)]
      /\ dlq' = dlq \ {k}
      /\ outbox' = [outbox EXCEPT ![k[1]] = [estado |-> "pending", published_at |-> FALSE]]
      /\ retries' \in 0..MaxRetries
      /\ crossed' \in {crossed \cup {k[1]}, crossed \ {k[1]}}
      /\ UNCHANGED <<queued, batch, row, pc, faults>>
  BY DEF AdminRetry, Crosses, relayVars, IInv, TypeOK
<1>2. /\ delivery'[k] = [estado |-> "pending", attempts |-> 0,
                         lease |-> NoRelay, expired |-> FALSE]
      /\ \A j \in Delivery \ {k} : delivery'[j] = delivery[j]
      /\ delivery[k].estado = "dlq" /\ k[1] \in Event
  BY <1>1 DEF Unleased, IInv, TypeOK, DlqMatchesDelivery, Delivery
<1>3. \A r \in Relay : Hand(r)' = Hand(r) /\ Hand(r) \subseteq Delivery
  BY <1>1 DEF Hand, IInv, TypeOK
<1>4. TypeOK'
  <2>1. delivery' \in [Delivery -> DeliveryRow]
    BY <1>1, UnleasedIsRow DEF IInv, TypeOK
  <2>2. outbox' \in [Event -> OutboxRow]
    BY <1>1, <1>2 DEF IInv, TypeOK
  <2> QED BY <2>1, <2>2, <1>1 DEF IInv, TypeOK
<1>5. DlqMatchesDelivery' BY <1>1, <1>2 DEF IInv, DlqMatchesDelivery
<1>6. RetryBudget' BY <1>1, <1>2 DEF IInv, RetryBudget
<1>7. EmittedFirst' BY <1>1, <1>2 DEF IInv, TypeOK, EmittedFirst, Delivery
<1>8. LeasedIsPending' BY <1>1, <1>2 DEF IInv, LeasedIsPending
<1>9. QueuedBeforePublished' BY <1>1, <1>2 DEF IInv, QueuedBeforePublished
<1>10. RowsInHand' BY <1>1, <1>2, <1>3 DEF IInv, RowsInHand
<1>11. HandIsLeased'
  <2> SUFFICES ASSUME faults = 0, NEW r \in Relay, NEW j \in Hand(r)
               PROVE  delivery'[j].lease = r /\ ~delivery'[j].expired
    BY <1>1, <1>3 DEF HandIsLeased
  <2>1. j \in Delivery /\ delivery[j].lease = r /\ ~delivery[j].expired
    BY <1>3 DEF IInv, HandIsLeased
  <2>2. j # k BY <2>1, <1>2 DEF IInv, LeasedIsPending
  <2> QED BY <2>1, <2>2, <1>2
<1>12. LockedIsLeased'
  BY <1>1, <1>2 DEF IInv, TypeOK, RowsInHand, LockedIsLeased, LeasedIsPending
<1> QED BY <1>4, <1>5, <1>6, <1>7, <1>8, <1>9, <1>10, <1>11, <1>12 DEF IInv

\* Every step of the outbox and its relays keeps the invariant.
LEMMA NextKeepsIInv == IInv /\ [Next]_vars => IInv'
<1> SUFFICES ASSUME IInv, [Next]_vars PROVE IInv'
  OBVIOUS
<1>1. CASE UNCHANGED vars
  <2> USE <1>1 DEF vars
  <2>1. TypeOK' BY DEF IInv, TypeOK
  <2>2. RowsInHand' /\ HandIsLeased' /\ LockedIsLeased'
    BY DEF IInv, RowsInHand, HandIsLeased, LockedIsLeased, Hand
  <2>3. /\ DlqMatchesDelivery' /\ RetryBudget' /\ EmittedFirst' /\ LeasedIsPending'
        /\ QueuedBeforePublished'
    BY DEF IInv, DlqMatchesDelivery, RetryBudget, EmittedFirst, LeasedIsPending,
       QueuedBeforePublished
  <2> QED BY <2>1, <2>2, <2>3 DEF IInv
<1>2. ASSUME NEW e \in Event, PublishEvent(e) PROVE IInv'
  BY <1>2, PublishEventKeepsIInv
<1>3. ASSUME NEW r \in Relay, RelayStep(r) PROVE IInv'
  BY <1>3, ClaimBatchKeepsIInv, PublishKeepsIInv, JudgeKeepsIInv, MarkKeepsIInv DEF RelayStep
<1>4. ASSUME NEW r \in Relay, Crash(r) PROVE IInv'
  BY <1>4, CrashKeepsIInv
<1>5. ASSUME NEW k \in Delivery, LeaseRunsOut(k) \/ AdminRetry(k) PROVE IInv'
  BY <1>5, LeaseRunsOutKeepsIInv, AdminRetryKeepsIInv
<1> QED BY <1>1, <1>2, <1>3, <1>4, <1>5 DEF Next

\* The inductive invariant holds in every reachable state.
THEOREM AlwaysIInv == Spec => []IInv
  BY InitIInv, NextKeepsIInv, PTL DEF Spec

\* Every variable keeps its type (outbox-relay.ts, admin.ts).
THEOREM TypeCorrect == Spec => []TypeOK
<1>1. IInv => TypeOK BY DEF IInv
<1> QED BY <1>1, AlwaysIInv, PTL

\* The dead-letter table lists exactly the dead deliveries (outbox-relay.ts:174-187).
THEOREM DlqCorrect == Spec => []DlqMatchesDelivery
<1>1. IInv => DlqMatchesDelivery BY DEF IInv
<1> QED BY <1>1, AlwaysIInv, PTL

\* No delivery is retried past its budget or dead-lettered before it is spent.
THEOREM BudgetCorrect == Spec => []RetryBudget
<1>1. IInv => RetryBudget BY DEF IInv
<1> QED BY <1>1, AlwaysIInv, PTL

\* Absent faults, the claims keep any number of replicas on distinct rows.
THEOREM ReplicasApart == Spec => []ReplicasDoNotOverlap
<1>1. IInv => ReplicasDoNotOverlap
  BY DEF IInv, HandIsLeased, ReplicasDoNotOverlap
<1> QED BY <1>1, AlwaysIInv, PTL

-----------------------------------------------------------------------------
(***************************************************************************)
(* The refinement: a relay step is a step of DurableDelivery or leaves its *)
(* four sets alone.                                                        *)
(***************************************************************************)
\* The mapped sets depend on the estado columns only.
Unmoved ==
  /\ \A e \in Event : outbox'[e].estado = "absent" <=> outbox[e].estado = "absent"
  /\ \A k \in Delivery :
        \/ delivery'[k].estado = delivery[k].estado
        \/ {delivery'[k].estado, delivery[k].estado} \subseteq {"absent", "pending"}

\* A step that leaves the tables and the queues alone leaves the promise alone.
LEMMA UnmovedSets ==
  ASSUME Unmoved
  PROVE  Owed' = Owed /\ Settled' = Settled /\ Parked' = Parked
  BY DEF Unmoved, Owed, Settled, Parked, Delivery

\* A claim creates missing rows, and moves no delivery between owed, settled and parked.
LEMMA ClaimMoves ==
  ASSUME IInv, NEW r \in Relay, ClaimBatch(r)
  PROVE  Unmoved
<1>1. PICK b \in SUBSET Delivery :
        delivery' = [k \in Delivery |->
            IF k \in b THEN [WithDeliveries[k] EXCEPT !.lease = r, !.expired = FALSE]
                       ELSE WithDeliveries[k]]
  BY DEF ClaimBatch, Limit, Claimable
<1>2. ASSUME NEW k \in Delivery
      PROVE  \/ delivery'[k].estado = delivery[k].estado
             \/ {delivery'[k].estado, delivery[k].estado} \subseteq {"absent", "pending"}
  <2> DEFINE w == WithDeliveries[k]
  <2>1. delivery'[k] \in {w, [w EXCEPT !.lease = r, !.expired = FALSE]} BY <1>1
  <2>2. /\ w \in {delivery[k], Unleased("pending", 0)}
        /\ w # delivery[k] => delivery[k].estado = "absent"
    BY WithDeliveriesFacts
  <2>3. w \in DeliveryRow
    <3>1. delivery[k] \in DeliveryRow
      BY DEF IInv, TypeOK
    <3>2. Unleased("pending", 0) \in DeliveryRow
      BY UnleasedIsRow
    <3> HIDE DEF w
    <3> QED BY <2>2, <3>1, <3>2
  <2> HIDE DEF w
  <2>4. delivery'[k].estado = w.estado BY <2>1, <2>3
  <2>5. CASE w = delivery[k] BY <2>4, <2>5
  <2>6. CASE w = Unleased("pending", 0) /\ delivery[k].estado = "absent"
    BY <2>4, <2>6 DEF Unleased
  <2> QED BY <2>2, <2>5, <2>6
<1> QED BY <1>2 DEF Unmoved, ClaimBatch

\* The commit of an event makes its deliveries owed.
LEMMA EmitStep ==
  ASSUME IInv, NEW e \in Event, PublishEvent(e)
  PROVE  Promise!Emit(e)
<1>1. /\ outbox[e].estado = "absent"
      /\ \A f \in Event : outbox'[f].estado = IF f = e THEN "pending" ELSE outbox[f].estado
      /\ delivery' = delivery /\ queued' = queued
  BY DEF PublishEvent, IInv, TypeOK
<1>2. \A d \in Destination : <<e, d>> \in Delivery /\ delivery[<<e, d>>].estado = "absent"
  BY <1>1 DEF Delivery, IInv, EmittedFirst
<1>3. \A d \in Destination : <<e, d>> \notin Owed \cup Settled \cup Parked
  BY <1>1, <1>2 DEF Owed, Settled, Parked
<1>4. Owed' = Owed \cup ({e} \X Destination)
  BY <1>1, <1>2 DEF Owed, Delivery
<1>5. Settled' = Settled /\ Parked' = Parked BY <1>1 DEF Settled, Parked
<1> QED BY <1>1, <1>3, <1>4, <1>5 DEF Promise!Emit

\* A publication hands over a delivery that is owed or was settled before.
LEMMA PublishStep ==
  ASSUME IInv, NEW r \in Relay, Publish(r) \/ PublishRejects(r)
  PROVE  (\E k \in Delivery : Promise!Hand(k)) \/ UNCHANGED Promise!vars
<1>1. PICK k \in batch[r] : queued' = queued \/ queued' = queued \cup {k}
  BY DEF Publish, PublishRejects
<1>2. UNCHANGED <<outbox, delivery>> BY DEF Publish, PublishRejects, dbVars
<1>3. Owed' = Owed /\ Settled' = Settled /\ Parked' = Parked
  BY <1>2 DEF Owed, Settled, Parked
<1>4. k \in Delivery /\ delivery[k].estado # "absent"
  BY DEF IInv, TypeOK, RowsInHand, Hand
<1>5. k \in Owed \cup Settled \cup Parked
  BY <1>4 DEF Owed, Settled, Parked, IInv, TypeOK, EmittedFirst
<1> QED BY <1>1, <1>3, <1>4, <1>5 DEF Promise!Hand, Promise!vars

\* An outcome settles a delivery that was handed over, or parks one that is owed.
LEMMA RecordStep ==
  ASSUME IInv, NEW r \in Relay, row[r] \in Delivery, RecordEffect(r), queued' = queued
  PROVE  \/ Promise!Settle(row[r])
         \/ Promise!Park(row[r])
         \/ UNCHANGED Promise!vars
<1> DEFINE k == row[r]
<1>1. CASE UNCHANGED dbVars
  BY <1>1, UnmovedSets DEF dbVars, Unmoved, Promise!vars
<1>2. ASSUME NEW st \in {"pending", "published", "dlq"}, NEW n,
             delivery[k].lease = r,
             delivery' = [delivery EXCEPT ![k] = Unleased(st, n)],
             st = "published" => pc[r] = "mark",
             \A e \in Event : outbox'[e].estado = "absent" <=> outbox[e].estado = "absent"
      PROVE  Promise!Settle(k) \/ Promise!Park(k) \/ UNCHANGED Promise!vars
  <2>1. /\ delivery'[k].estado = st
        /\ \A j \in Delivery \ {k} : delivery'[j] = delivery[j]
        /\ delivery[k].estado = "pending" /\ k[1] \in Event
        /\ outbox[k[1]].estado # "absent"
    BY <1>2 DEF Unleased, IInv, TypeOK, LeasedIsPending, EmittedFirst, Delivery
  <2>2. k \in Owed /\ k \notin Settled /\ k \notin Parked
    BY <2>1 DEF Owed, Settled, Parked
  <2>3. CASE st = "published"
    <3>1. k \in queued BY <1>2, <2>3 DEF IInv, RowsInHand
    <3>2. Owed' = Owed \ {k} BY <1>2, <2>1, <2>3 DEF Owed, Delivery
    <3>3. Settled' = Settled \cup {k} BY <2>1, <2>3 DEF Settled
    <3>4. Parked' = Parked BY <2>1, <2>3 DEF Parked
    <3> QED BY <2>2, <3>1, <3>2, <3>3, <3>4 DEF Promise!Settle
  <2>4. CASE st = "dlq"
    <3>1. Owed' = Owed \ {k} BY <1>2, <2>1, <2>4 DEF Owed, Delivery
    <3>2. Parked' = Parked \cup {k} BY <2>1, <2>4 DEF Parked
    <3>3. Settled' = Settled BY <2>1, <2>4 DEF Settled
    <3> QED BY <2>2, <3>1, <3>2, <3>3 DEF Promise!Park
  <2>5. CASE st = "pending"
    BY <1>2, <2>1, <2>5, UnmovedSets DEF Unmoved, Promise!vars
  <2> QED BY <2>3, <2>4, <2>5
<1> QED BY <1>1, <1>2 DEF RecordEffect

\* A dead letter that is put back is owed again.
LEMMA ReinstateStep ==
  ASSUME IInv, NEW k \in Delivery, AdminRetry(k)
  PROVE  Promise!Reinstate(k)
<1>1. /\ delivery' = [delivery EXCEPT ![k] = Unleased("pending", 0)]
      /\ outbox' = [outbox EXCEPT ![k[1]] = [estado |-> "pending", published_at |-> FALSE]]
      /\ queued' = queued /\ k \in dlq
  BY DEF AdminRetry
<1>2. /\ delivery[k].estado = "dlq" /\ k[1] \in Event
      /\ outbox[k[1]].estado # "absent"
  BY <1>1 DEF IInv, DlqMatchesDelivery, EmittedFirst, Delivery
<1>3. /\ delivery'[k].estado = "pending"
      /\ \A j \in Delivery \ {k} : delivery'[j] = delivery[j]
      /\ \A e \in Event : outbox'[e].estado = "absent" <=> outbox[e].estado = "absent"
  BY <1>1, <1>2 DEF Unleased, IInv, TypeOK
<1>4. k \in Parked /\ Parked' = Parked \ {k} BY <1>2, <1>3 DEF Parked
<1>5. Owed' = Owed \cup {k} BY <1>2, <1>3 DEF Owed, Delivery
<1>6. Settled' = Settled BY <1>2, <1>3 DEF Settled
<1> QED BY <1>1, <1>4, <1>5, <1>6 DEF Promise!Reinstate

\* Every step of the relays is a step of the promise, or none.
LEMMA NextKeepsPromise == IInv /\ [Next]_vars => [Promise!Next]_Promise!vars
<1> SUFFICES ASSUME IInv, [Next]_vars PROVE [Promise!Next]_Promise!vars
  OBVIOUS
<1>1. CASE UNCHANGED vars
  BY <1>1, UnmovedSets DEF vars, Unmoved, Promise!vars
<1>2. ASSUME NEW e \in Event, PublishEvent(e) PROVE Promise!Next
  BY <1>2, EmitStep DEF Promise!Next
<1>3. ASSUME NEW r \in Relay, RelayStep(r) PROVE [Promise!Next]_Promise!vars
  <2>1. CASE ClaimBatch(r)
    <3>1. queued' = queued BY <2>1 DEF ClaimBatch
    <3>2. Unmoved BY <2>1, ClaimMoves
    <3> QED BY <3>1, <3>2, UnmovedSets DEF Promise!vars
  <2>2. CASE Publish(r) \/ PublishRejects(r)
    BY <2>2, PublishStep DEF Promise!Next, Delivery, Promise!Delivery
  <2>3. CASE \/ MarkPublished(r) \/ MarkPublishedRejects(r)
             \/ MarkFailed(r) \/ MarkFailedRejects(r)
    <3>1. row[r] \in Delivery /\ queued' = queued
      BY <2>3 DEF MarkPublished, MarkPublishedRejects, MarkFailed, MarkFailedRejects,
         RecordFailure, IInv, TypeOK, RowsInHand
    <3>2. RecordEffect(r)
      BY <2>3, <3>1, RecordHasEffect DEF MarkPublished, MarkPublishedRejects, MarkFailed,
         MarkFailedRejects, RecordEffect
    <3> QED BY <3>1, <3>2, RecordStep DEF Promise!Next, Delivery, Promise!Delivery
  <2>4. CASE JudgesParent(r)
    BY <2>4, UnmovedSets DEF JudgesParent, dbVars, Unmoved, Promise!vars
  <2> QED BY <1>3, <2>1, <2>2, <2>3, <2>4 DEF RelayStep
<1>4. ASSUME NEW r \in Relay, Crash(r) PROVE UNCHANGED Promise!vars
  BY <1>4, UnmovedSets DEF Crash, dbVars, Unmoved, Promise!vars
<1>5. ASSUME NEW k \in Delivery, LeaseRunsOut(k) PROVE UNCHANGED Promise!vars
  <2>1. Unmoved BY <1>5 DEF LeaseRunsOut, Unmoved, IInv, TypeOK
  <2> QED BY <1>5, <2>1, UnmovedSets DEF LeaseRunsOut, Promise!vars
<1>6. ASSUME NEW k \in Delivery, AdminRetry(k) PROVE Promise!Next
  BY <1>6, ReinstateStep DEF Promise!Next, Delivery, Promise!Delivery
<1> QED BY <1>1, <1>2, <1>3, <1>4, <1>5, <1>6 DEF Next

\* The relays implement the safety part of DurableDelivery: a delivery counts
\* as published only after its job was queued, stays published, and is never
\* dropped without being published or dead-lettered.
THEOREM RelayKeepsPromise == Spec => KeepsPromise
<1>1. Init => Promise!Init
  <2> SUFFICES ASSUME Init PROVE Promise!Init
    OBVIOUS
  <2>1. /\ queued = {} /\ \A k \in Delivery : delivery[k].estado = "absent"
        /\ \A k \in Delivery : outbox[k[1]].estado = "absent"
    BY DEF Init, Unleased, Delivery
  <2> QED BY <2>1 DEF Promise!Init, Owed, Settled, Parked
<1>2. IInv /\ [Next]_vars => [Promise!Next]_Promise!vars BY NextKeepsPromise
<1> QED BY <1>1, <1>2, AlwaysIInv, PTL DEF Spec, KeepsPromise, Promise!SafeSpec

-----------------------------------------------------------------------------
(***************************************************************************)
(* What becomes of the parent row, and of a delivery nobody sees to.       *)
(***************************************************************************)
\* No event is ever counted as published.
NothingPublished == \A e \in Event : outbox[e].estado # "published" /\ ~outbox[e].published_at

\* The rows of an event appear together.
RowsTogether ==
  \A e \in Event : \A c, d \in Destination :
      delivery[<<e, c>>].estado = "absent" => delivery[<<e, d>>].estado = "absent"

\* The deliveries of e but k are done with.
DoneBut(e, k) ==
  \A d \in Destination : <<e, d>> # k => delivery[<<e, d>>].estado \in {"published", "dlq"}

\* When the parent has failed its deliveries are over, and one of them is dead, unless
\* an administrator's retry crossed the judgement that failed it.
FailedIsOver ==
  \A e \in Event \ crossed : outbox[e].estado = "failed" =>
      /\ \A d \in Destination : delivery[<<e, d>>].estado \in {"published", "dlq"}
      /\ \E d \in Destination : delivery[<<e, d>>].estado = "dlq"

\* A judgement stands until its COMMIT, but for the same retries.
JudgementStands ==
  \A r \in Relay : pc[r] = "over" /\ row[r][1] \notin crossed => DoneBut(row[r][1], row[r])

ParentInv == NothingPublished /\ RowsTogether /\ FailedIsOver /\ JudgementStands

\* No relay takes up a judgement in this step, and the recorded retries are the same.
NoNewJudgement ==
  /\ crossed' = crossed
  /\ \A r \in Relay : pc'[r] = "over" => pc[r] = "over" /\ row'[r] = row[r]

\* The event of a relay's judgement is the event of the row in its hand.
LEMMA JudgedRow ==
  ASSUME IInv, NEW r \in Relay, pc[r] \in Judged
  PROVE  /\ row[r] \in Delivery /\ row[r][1] \in Event
         /\ \A d \in Destination : <<row[r][1], d>> \in Delivery
  BY DEF IInv, TypeOK, RowsInHand, Delivery

\* Tables that say the same of every estado say the same of the parents.
LEMMA SameEstados ==
  ASSUME IInv, ParentInv, outbox' = outbox, NoNewJudgement,
         \A k \in Delivery : delivery'[k].estado = delivery[k].estado
  PROVE  ParentInv'
<1>1. \A e \in Event, d \in Destination : delivery'[<<e, d>>].estado = delivery[<<e, d>>].estado
  BY DEF Delivery
<1>2. NothingPublished'
  BY DEF ParentInv, NothingPublished
<1>3. RowsTogether'
  BY <1>1 DEF ParentInv, RowsTogether
<1>4. FailedIsOver'
  BY <1>1 DEF ParentInv, FailedIsOver, NoNewJudgement
<1>5. JudgementStands'
  <2> SUFFICES ASSUME NEW r \in Relay, pc'[r] = "over", row'[r][1] \notin crossed'
               PROVE  DoneBut(row[r][1], row[r])'
    BY DEF JudgementStands
  <2>1. pc[r] = "over" /\ row'[r] = row[r] /\ row[r][1] \in Event
    BY JudgedRow DEF NoNewJudgement
  <2>2. DoneBut(row[r][1], row[r])
    BY <2>1 DEF ParentInv, JudgementStands, NoNewJudgement
  <2> QED BY <1>1, <2>1, <2>2 DEF DoneBut
<1> QED BY <1>2, <1>3, <1>4, <1>5 DEF ParentInv

\* A claim inserts all the rows of an event that has none, of those that have not failed.
LEMMA ClaimKeepsParents ==
  ASSUME IInv, ParentInv, NEW r \in Relay, ClaimBatch(r)
  PROVE  ParentInv'
<1>1. outbox' = outbox
  BY DEF ClaimBatch
<1>2. PICK b \in SUBSET Delivery :
        delivery' = [k \in Delivery |->
            IF k \in b THEN [WithDeliveries[k] EXCEPT !.lease = r, !.expired = FALSE]
                       ELSE WithDeliveries[k]]
  BY DEF ClaimBatch, Limit, Claimable
<1>3. ASSUME NEW k \in Delivery
      PROVE  delivery'[k].estado = IF outbox[k[1]].estado # "absent" /\ delivery[k].estado = "absent"
                                   THEN "pending" ELSE delivery[k].estado
  <2> DEFINE w == WithDeliveries[k]
  <2>1. delivery'[k] \in {w, [w EXCEPT !.lease = r, !.expired = FALSE]}
    BY <1>2
  <2>2. k[1] \in Event /\ ~outbox[k[1]].published_at
    BY DEF Delivery, ParentInv, NothingPublished
  <2>3. w = IF outbox[k[1]].estado # "absent" /\ delivery[k].estado = "absent"
            THEN Unleased("pending", 0) ELSE delivery[k]
    BY <2>2 DEF WithDeliveries
  <2>4. w \in DeliveryRow
    <3>1. delivery[k] \in DeliveryRow /\ Unleased("pending", 0) \in DeliveryRow
      BY UnleasedIsRow DEF IInv, TypeOK
    <3> HIDE DEF w
    <3> QED BY <2>3, <3>1
  <2>5. delivery'[k].estado = w.estado
    <3> HIDE DEF w
    <3> QED BY <2>1, <2>4
  <2> HIDE DEF w
  <2> QED BY <2>3, <2>5 DEF Unleased
<1>4. NothingPublished'
  BY <1>1 DEF ParentInv, NothingPublished
<1>5. RowsTogether'
  BY <1>1, <1>3, SMTT(20) DEF ParentInv, RowsTogether, Delivery
<1>6. UNCHANGED <<pc, row, crossed>>
  BY DEF ClaimBatch
<1>7. \A e \in Event, d \in Destination : delivery[<<e, d>>].estado \in {"published", "dlq"} =>
         delivery'[<<e, d>>].estado = delivery[<<e, d>>].estado
  BY <1>3 DEF Delivery
<1>8. FailedIsOver'
  BY <1>1, <1>6, <1>7 DEF ParentInv, FailedIsOver
<1>9. JudgementStands'
  BY <1>6, <1>7, JudgedRow DEF ParentInv, JudgementStands, DoneBut
<1> QED BY <1>4, <1>5, <1>8, <1>9 DEF ParentInv

\* A relay that is about to fail a parent read that the other deliveries are over.
LEMMA JudgeKeepsParents ==
  ASSUME IInv, ParentInv, NEW r \in Relay, JudgesParent(r)
  PROVE  ParentInv'
<1> DEFINE k == row[r]
           e == k[1]
           dead == [delivery EXCEPT ![k] = DeadLetter(delivery[k].attempts + 1)]
<1>1. /\ pc[r] = "fail" /\ HoldsLease(r)
      /\ pc' = [pc EXCEPT ![r] = IF HasPending(e, dead) THEN "dead" ELSE "over"]
      /\ UNCHANGED <<outbox, delivery, row, crossed>>
  BY DEF JudgesParent, dbVars
<1>2. k \in Delivery /\ e \in Event /\ k = <<e, k[2]>> /\ k[2] \in Destination
  BY <1>1 DEF IInv, TypeOK, RowsInHand, Delivery
<1>3. delivery[k].estado = "pending"
  BY <1>1, <1>2 DEF HoldsLease, IInv, LeasedIsPending
<1>4. NothingPublished' /\ RowsTogether' /\ FailedIsOver'
  BY <1>1 DEF ParentInv, NothingPublished, RowsTogether, FailedIsOver
<1>5. ASSUME ~HasPending(e, dead) PROVE DoneBut(e, k)
  <2> SUFFICES ASSUME NEW d \in Destination, <<e, d>> # k
               PROVE  delivery[<<e, d>>].estado \in {"published", "dlq"}
    BY DEF DoneBut
  <2>1. <<e, d>> \in Delivery
    BY <1>2 DEF Delivery
  <2>2. dead[<<e, d>>] = delivery[<<e, d>>]
    BY <2>1 DEF IInv, TypeOK
  <2>3. delivery[<<e, d>>].estado # "pending"
    BY <1>5, <2>2 DEF HasPending
  <2>4. delivery[<<e, d>>].estado # "absent"
    BY <1>2, <1>3 DEF ParentInv, RowsTogether
  <2> QED BY <2>1, <2>3, <2>4 DEF IInv, TypeOK
<1>6. JudgementStands'
  <2> HIDE DEF dead
  <2> SUFFICES ASSUME NEW s \in Relay, pc'[s] = "over", row[s][1] \notin crossed
               PROVE  DoneBut(row[s][1], row[s])
    BY <1>1 DEF JudgementStands, DoneBut
  <2>1. CASE s = r
    BY <1>1, <1>5, <2>1 DEF IInv, TypeOK
  <2>2. CASE s # r
    BY <1>1, <2>2 DEF IInv, TypeOK, ParentInv, JudgementStands
  <2> QED BY <2>1, <2>2
<1> QED BY <1>4, <1>6 DEF ParentInv

\* The parent is settled only by the failure of the last pending delivery: the snapshot
\* of a success still has the row that succeeds among the pending ones.
LEMMA RecordKeepsParents ==
  ASSUME IInv, ParentInv, NEW r \in Relay, row[r] \in Delivery,
         RecordPublished(r) \/ RecordFailure(r),
         NoNewJudgement, pc'[r] # "over"
  PROVE  ParentInv'
<1> DEFINE k == row[r]
           e == k[1]
           n == delivery[k].attempts + 1
<1>1. e \in Event /\ k[2] \in Destination /\ k = <<e, k[2]>>
  BY DEF Delivery
<1>2. CASE UNCHANGED dbVars
  BY <1>2, SameEstados DEF dbVars
<1>7. pc[r] \in Judged => HoldsLease(r)
  BY DEF IInv, LockedIsLeased, HoldsLease
<1>3. ASSUME HoldsLease(r) PROVE delivery[k].estado = "pending" /\ HasPending(e, delivery)
  <2>1. delivery[k].estado = "pending"
    BY <1>3 DEF HoldsLease, IInv, LeasedIsPending
  <2> QED BY <1>1, <2>1 DEF HasPending
<1>4. ASSUME NEW st \in {"pending", "published", "dlq"}, HoldsLease(r),
             delivery' = [delivery EXCEPT ![k] = Unleased(st, n)],
             \/ outbox' = outbox
             \/ /\ st = "dlq" /\ pc[r] = "over"
                /\ outbox' = [outbox EXCEPT ![e].estado = "failed"]
      PROVE  ParentInv'
  <2>1. delivery'[k].estado = st /\ \A j \in Delivery \ {k} : delivery'[j] = delivery[j]
    BY <1>4 DEF IInv, TypeOK, Unleased
  <2>2. \A j \in Delivery : delivery'[j].estado = "absent" <=> delivery[j].estado = "absent"
    BY <1>3, <1>4, <2>1
  <2>3. RowsTogether'
    BY <2>2 DEF ParentInv, RowsTogether, Delivery
  <2>4. NothingPublished'
    BY <1>1, <1>4 DEF ParentInv, NothingPublished, IInv, TypeOK
  <2>5. FailedIsOver'
    <3> SUFFICES ASSUME NEW f \in Event, outbox'[f].estado = "failed"
                 PROVE  f \notin crossed =>
                        /\ \A d \in Destination : delivery'[<<f, d>>].estado \in {"published", "dlq"}
                        /\ \E d \in Destination : delivery'[<<f, d>>].estado = "dlq"
      BY DEF FailedIsOver, NoNewJudgement
    <3>1. CASE f # e
      <4>1. outbox[f].estado = "failed"
        BY <1>4, <3>1 DEF IInv, TypeOK
      <4>2. \A d \in Destination : <<f, d>> \in Delivery \ {k}
        BY <3>1 DEF Delivery
      <4> QED BY <2>1, <4>1, <4>2 DEF ParentInv, FailedIsOver
    <3>2. CASE f = e /\ outbox[e].estado = "failed"
      BY <1>1, <1>3, <1>4, <3>2 DEF ParentInv, FailedIsOver
    <3>3. CASE f = e /\ outbox[e].estado # "failed"
      <4>1. st = "dlq" /\ pc[r] = "over"
        BY <1>4, <3>3
      <4>2. e \notin crossed => DoneBut(e, k)
        BY <4>1 DEF ParentInv, JudgementStands
      <4>3. \A d \in Destination : <<e, d>> # k => delivery'[<<e, d>>] = delivery[<<e, d>>]
        BY <1>1, <2>1 DEF Delivery
      <4> QED BY <1>1, <2>1, <3>3, <4>1, <4>2, <4>3 DEF DoneBut
    <3> QED BY <3>1, <3>2, <3>3
  <2>6. JudgementStands'
    <3> SUFFICES ASSUME NEW s \in Relay, pc'[s] = "over", row'[s][1] \notin crossed'
                 PROVE  DoneBut(row[s][1], row[s])'
      BY DEF JudgementStands
    <3>1. s # r /\ pc[s] = "over" /\ row'[s] = row[s] /\ row[s][1] \notin crossed
      BY DEF NoNewJudgement
    <3>2. DoneBut(row[s][1], row[s]) /\ delivery[row[s]].lease = s
      BY <3>1 DEF ParentInv, JudgementStands, IInv, LockedIsLeased
    <3>3. row[s] # k
      BY <1>4, <3>1, <3>2 DEF HoldsLease
    <3>4. ASSUME NEW d \in Destination, <<row[s][1], d>> # row[s]
          PROVE  delivery'[<<row[s][1], d>>].estado \in {"published", "dlq"}
      <4>1. delivery[<<row[s][1], d>>].estado \in {"published", "dlq"}
        BY <3>2, <3>4 DEF DoneBut
      <4>2. <<row[s][1], d>> \in Delivery \ {k}
        BY <1>3, <1>4, <3>1, <4>1, JudgedRow
      <4> QED BY <2>1, <4>1, <4>2
    <3> QED BY <3>1, <3>4 DEF DoneBut
  <2> QED BY <2>3, <2>4, <2>5, <2>6 DEF ParentInv
<1>5. CASE RecordPublished(r)
  <2>1. CASE HoldsLease(r)
    <3>1. delivery' = [delivery EXCEPT ![k] = Unleased("published", n)] /\ outbox' = outbox
      BY <1>3, <1>5, <2>1 DEF RecordPublished, dbVars
    <3> QED BY <1>4, <2>1, <3>1
  <2> QED BY <1>2, <1>5, <2>1 DEF RecordPublished
<1>6. CASE RecordFailure(r)
  <2>1. CASE /\ HoldsLease(r) /\ outbox' = outbox
             /\ delivery' = [delivery EXCEPT ![k] = Unleased("pending", n)]
    BY <1>4, <2>1
  <2>2. CASE /\ pc[r] \in Judged
             /\ delivery' = [delivery EXCEPT ![k] = Unleased("dlq", n)]
             /\ outbox' = IF pc[r] = "over" THEN [outbox EXCEPT ![e].estado = "failed"] ELSE outbox
    BY <1>4, <1>7, <2>2
  <2> QED BY <1>2, <1>6, <2>1, <2>2 DEF RecordFailure
<1> QED BY <1>5, <1>6

\* A dead letter that is put back takes its parent out of failed.
LEMMA RetryKeepsParents ==
  ASSUME IInv, ParentInv, NEW k \in Delivery, AdminRetry(k)
  PROVE  ParentInv'
<1>1. /\ delivery' = [delivery EXCEPT ![k] = Unleased("pending", 0)]
      /\ outbox' = [outbox EXCEPT ![k[1]] = [estado |-> "pending", published_at |-> FALSE]]
      /\ delivery[k].estado = "dlq"
  BY DEF AdminRetry, IInv, DlqMatchesDelivery
<1>2. /\ delivery'[k].estado = "pending" /\ k[1] \in Event
      /\ \A j \in Delivery \ {k} : delivery'[j] = delivery[j]
      /\ \A e \in Event \ {k[1]} : outbox'[e] = outbox[e]
      /\ outbox'[k[1]] = [estado |-> "pending", published_at |-> FALSE]
  BY <1>1 DEF IInv, TypeOK, Unleased, Delivery
<1>3. \A j \in Delivery : delivery'[j].estado = "absent" <=> delivery[j].estado = "absent"
  BY <1>1, <1>2
<1>4. RowsTogether'
  BY <1>3 DEF ParentInv, RowsTogether, Delivery
<1>5. NothingPublished'
  BY <1>2 DEF ParentInv, NothingPublished
<1>7. /\ crossed' \in {crossed \cup {k[1]}, crossed \ {k[1]}}
      /\ \A s \in Relay : pc[s] = "over" /\ row[s][1] = k[1] => k[1] \in crossed'
      /\ UNCHANGED <<pc, row>>
  BY DEF AdminRetry, Crosses, relayVars
<1>8. \A e \in Event \ {k[1]} :
         /\ e \in crossed' <=> e \in crossed
         /\ \A d \in Destination : delivery'[<<e, d>>] = delivery[<<e, d>>]
  BY <1>2, <1>7 DEF Delivery
<1>6. FailedIsOver'
  <2>1. \A e \in Event : outbox'[e].estado = "failed" => e # k[1] /\ outbox[e].estado = "failed"
    BY <1>2
  <2>2. SUFFICES ASSUME NEW e \in Event, e \notin crossed', outbox'[e].estado = "failed"
                 PROVE  /\ \A d \in Destination : delivery'[<<e, d>>].estado \in {"published", "dlq"}
                        /\ \E d \in Destination : delivery'[<<e, d>>].estado = "dlq"
    BY DEF FailedIsOver
  <2>3. /\ e \in Event \ {k[1]} /\ e \notin crossed /\ outbox[e].estado = "failed"
        /\ \A d \in Destination : delivery'[<<e, d>>] = delivery[<<e, d>>]
    BY <1>8, <2>1, <2>2
  <2> QED BY <2>3 DEF ParentInv, FailedIsOver
<1>9. JudgementStands'
  BY <1>7, <1>8, JudgedRow DEF ParentInv, JudgementStands, DoneBut
<1> QED BY <1>4, <1>5, <1>6, <1>9 DEF ParentInv

\* Every step keeps what is said of the parents.
LEMMA NextKeepsParents == IInv /\ ParentInv /\ [Next]_vars => ParentInv'
<1> SUFFICES ASSUME IInv, ParentInv, [Next]_vars PROVE ParentInv'
  OBVIOUS
<1>1. ASSUME NEW e \in Event, PublishEvent(e) PROVE ParentInv'
  <2> USE <1>1 DEF PublishEvent, relayVars
  <2>1. NothingPublished' /\ RowsTogether' /\ FailedIsOver'
    BY DEF IInv, TypeOK, ParentInv, NothingPublished, RowsTogether, FailedIsOver
  <2>2. JudgementStands'
    BY DEF ParentInv, JudgementStands, DoneBut
  <2> QED BY <2>1, <2>2 DEF ParentInv
<1>2. ASSUME NEW r \in Relay, RelayStep(r) PROVE ParentInv'
  <2>1. CASE ClaimBatch(r)
    BY <2>1, ClaimKeepsParents
  <2>2. CASE Publish(r) \/ PublishRejects(r)
    <3>1. /\ UNCHANGED <<outbox, delivery, crossed>> /\ pc[r] = "ready"
          /\ pc' \in {[pc EXCEPT ![r] = "mark"], [pc EXCEPT ![r] = "fail"]}
          /\ \E k \in Delivery : row' = [row EXCEPT ![r] = k]
      BY <2>2 DEF Publish, PublishRejects, dbVars, IInv, TypeOK
    <3>2. NoNewJudgement
      BY <3>1 DEF NoNewJudgement, IInv, TypeOK
    <3> QED BY <3>1, <3>2, SameEstados
  <2>3. CASE MarkPublished(r) \/ MarkPublishedRejects(r) \/ MarkFailed(r) \/ MarkFailedRejects(r)
    <3>1. row[r] \in Delivery
      BY <2>3 DEF MarkPublished, MarkPublishedRejects, MarkFailed, MarkFailedRejects, RecordFailure,
         IInv, TypeOK, RowsInHand
    <3>2. RecordPublished(r) \/ RecordFailure(r) \/ UNCHANGED dbVars
      BY <2>3 DEF MarkPublished, MarkPublishedRejects, MarkFailed, MarkFailedRejects
    <3>3. NoNewJudgement /\ pc'[r] # "over"
      BY <2>3 DEF MarkPublished, MarkPublishedRejects, MarkFailed, MarkFailedRejects, DropBatch,
         NextRow, NoNewJudgement, IInv, TypeOK
    <3> QED BY <3>1, <3>2, <3>3, RecordKeepsParents, SameEstados DEF dbVars
  <2> QED BY <1>2, <2>1, <2>2, <2>3, JudgeKeepsParents DEF RelayStep
<1>3. ASSUME NEW r \in Relay, Crash(r) PROVE ParentInv'
  <2>1. NoNewJudgement
    BY <1>3 DEF Crash, DropBatch, NextRow, NoNewJudgement, IInv, TypeOK
  <2> QED BY <1>3, <2>1, SameEstados DEF Crash, dbVars
<1>4. ASSUME NEW k \in Delivery, LeaseRunsOut(k) PROVE ParentInv'
  <2>1. outbox' = outbox /\ \A j \in Delivery : delivery'[j].estado = delivery[j].estado
    BY <1>4 DEF LeaseRunsOut, IInv, TypeOK
  <2>2. NoNewJudgement
    BY <1>4 DEF LeaseRunsOut, relayVars, NoNewJudgement
  <2> QED BY <2>1, <2>2, SameEstados
<1>5. CASE UNCHANGED vars
  BY <1>5, SameEstados DEF vars, NoNewJudgement
<1> QED BY <1>1, <1>2, <1>3, <1>4, <1>5, RetryKeepsParents DEF Next

\* What is said of the parents holds in every reachable state.
LEMMA AlwaysParentInv == Spec => []ParentInv
<1>1. Init => ParentInv
  BY DEF Init, Unleased, Delivery, ParentInv, NothingPublished, RowsTogether, FailedIsOver,
     JudgementStands
<1> QED BY <1>1, NextKeepsParents, AlwaysIInv, PTL DEF Spec

\* outbox-relay.ts:156: whatever relays do, however many events and destinations there
\* are, no outbox row is ever marked as published.
THEOREM NoParentIsPublished == Spec => []NothingPublished
<1>1. ParentInv => NothingPublished BY DEF ParentInv
<1> QED BY <1>1, AlwaysParentInv, PTL

\* outbox-relay.ts:187-194: who reads that an event failed finds no delivery of it at
\* work, and a dead one to put back; the one exception is an event that an administrator's
\* retry reached between the judgement of its row and the COMMIT of it.
THEOREM FailedParentIsOver == Spec => []FailedIsOver
<1>1. ParentInv => FailedIsOver BY DEF ParentInv
<1> QED BY <1>1, AlwaysParentInv, PTL

\* A delivery that is owed may be claimed, or is under a lease that has still to run out,
\* or a relay is at the COMMIT of its last failure; no crash, lost answer or retry leaves
\* one that no relay would ever take up.
OwedIsSeenTo ==
  \A k \in Owed : \/ k \in Claimable(WithDeliveries)
                  \/ delivery[k].lease \in Relay /\ ~delivery[k].expired
                  \/ k \in Locked

THEOREM NothingOwedIsStuck == Spec => []OwedIsSeenTo
<1>1. IInv /\ ParentInv => OwedIsSeenTo
  <2> SUFFICES ASSUME IInv, ParentInv, NEW k \in Owed, k \notin Locked
               PROVE  \/ k \in Claimable(WithDeliveries)
                      \/ delivery[k].lease \in Relay /\ ~delivery[k].expired
    BY DEF OwedIsSeenTo
  <2>1. /\ k \in Delivery /\ k[1] \in Event /\ outbox[k[1]].estado # "absent"
        /\ delivery[k].estado \in {"absent", "pending"} /\ ~outbox[k[1]].published_at
    BY DEF Owed, Delivery, ParentInv, NothingPublished
  <2>2. CASE delivery[k].estado = "absent"
    BY <2>1, <2>2 DEF WithDeliveries, Claimable, Unleased
  <2>3. CASE delivery[k].estado = "pending"
    BY <2>1, <2>3 DEF WithDeliveries, Claimable, IInv, TypeOK
  <2> QED BY <2>1, <2>2, <2>3
<1> QED BY <1>1, AlwaysIInv, AlwaysParentInv, PTL
=============================================================================
