---------------------------- MODULE StockWorker ----------------------------
(***************************************************************************)
(* svc-stock's worker: onOrdenCreada statement by statement, as the jobs   *)
(* of its queue run it.  A transaction locks one stock row after another,  *)
(* in the order of the order's lines, and keeps the locks until it ends;   *)
(* two of them may wait for each other, which PostgreSQL ends by failing   *)
(* one.  StockService has the same handler as one step and the effects     *)
(* this module leaves out (movements, alerts, releases).                   *)
(***************************************************************************)
EXTENDS EventQueue, FiniteSets, Sequences

CONSTANTS
    Product,
    Existencias,    \* stock.disponible of each product at the start
    Pedido          \* Pedido[e][i][p]: units of p in the first i lines of the order

ASSUME OrderAssumption ==
    /\ Existencias \in [Product -> Nat]
    /\ Pedido \in [Event -> Seq([Product -> Nat])]
    /\ \A e \in Event : \A i, j \in 1..Len(Pedido[e]) :
          i <= j => \A p \in Product : Pedido[e][i][p] <= Pedido[e][j][p]

\* A worker runs at least one job at a time, and only so many.
ASSUME SlotAssumption == IsFiniteSet(Slot) /\ Slot # {}

VARIABLES
    disponible, \* stock.disponible, committed
    recibidos,  \* eventos_recibidos, committed
    veredicto,  \* the event announced in the outbox, committed
    pc,         \* where each slot is in the handler
    linea       \* the lines its transaction has reserved

tables == <<disponible, recibidos, veredicto>>
handler == <<pc, linea>>
vars == <<queue, tables, handler>>

TypeOK ==
    /\ QueueTypeOK
    /\ disponible \in [Product -> Nat]
    /\ recibidos \subseteq Event
    /\ veredicto \in [Event -> {"none", "reservado", "insuficiente"}]
    /\ pc \in [Slot -> {"idle", "begin", "lines", "waits", "short", "done", "threw"}]
    /\ linea \in [Slot -> Nat]

Init ==
    /\ QueueInit
    /\ disponible = Existencias
    /\ recibidos = {}
    /\ veredicto = [e \in Event |-> "none"]
    /\ pc = [s \in Slot |-> "idle"]
    /\ linea = [s \in Slot |-> 0]

-----------------------------------------------------------------------------
Hasta(e, i) == IF i = 0 THEN [p \in Product |-> 0] ELSE Pedido[e][i]
Units == [e \in Event |-> Hasta(e, Len(Pedido[e]))]

\* A line is of one product.
ASSUME LineAssumption ==
    \A e \in Event : \A i \in 0..(Len(Pedido[e]) - 1) : \E q \in Product :
        \A p \in Product \ {q} : Hasta(e, i + 1)[p] = Hasta(e, i)[p]

\* What a slot's transaction has written and not committed: its receipt, and the
\* units it took from rows that it keeps locked.
HasReceipt(s) == pc[s] \in {"lines", "waits", "short"}
Tomado(s) == Hasta(running[s], IF pc[s] \in {"lines", "waits"} THEN linea[s] ELSE 0)
Locks(s) == {p \in Product : Tomado(s)[p] > 0}

MoreLines(s) == linea[s] < Len(Pedido[running[s]])
NextRow(s) == {p \in Product : Hasta(running[s], linea[s] + 1)[p] > Tomado(s)[p]}

\* Mutant of WaitsForReceipt: the INSERT of the receipt is outside the transaction.
ReceiptUnlocked(s, t) == FALSE

\* The receipt or the row that s needs, t's transaction has.
WaitsForReceipt(s, t) ==
    s # t /\ pc[s] = "begin" /\ HasReceipt(t) /\ running[t] = running[s]

HeldRow(s, t) == s # t /\ NextRow(s) \cap Locks(t) # {}

WaitsFor(s, t) == WaitsForReceipt(s, t) \/ (pc[s] = "waits" /\ HeldRow(s, t))

\* Mutant of Deadlocked: nobody looks for deadlocks.
DeadlockUnseen(s) == FALSE

\* A slot is in a ring of transactions of which each waits for the next.
Deadlocked(s) ==
    \E S \in SUBSET Slot : s \in S /\ \E next \in [S -> S] :
        \A t \in S : WaitsFor(t, next[t]) /\ \E u \in S : next[u] = t

\* The worker calls the handler, which begins its transaction.
TakeJob(s, e) ==
    /\ Take(s, e)
    /\ pc' = [pc EXCEPT ![s] = "begin"]
    /\ UNCHANGED <<linea, tables>>

\* isAlreadyProcessed: the INSERT waits for another transaction that has inserted
\* the same event.  A duplicate commits and is done.
isAlreadyProcessed(s) ==
    /\ pc[s] = "begin"
    /\ \A t \in Slot : ~WaitsForReceipt(s, t)
    /\ pc' = [pc EXCEPT ![s] = IF running[s] \in recibidos THEN "done" ELSE "lines"]
    /\ linea' = [linea EXCEPT ![s] = 0]
    /\ UNCHANGED <<tables, queue>>

\* SELECT ... FOR UPDATE of a row that is locked.
WaitForRow(s) ==
    /\ pc[s] = "lines"
    /\ MoreLines(s)
    /\ \E t \in Slot : HeldRow(s, t)
    /\ pc' = [pc EXCEPT ![s] = "waits"]
    /\ UNCHANGED <<linea, tables, queue>>

\* Nobody else has the row, or waited for it before s asked; what s has locked, it
\* may lock again.
GetsRow(s) ==
    /\ \/ pc[s] = "waits"
       \/ /\ pc[s] = "lines"
          /\ MoreLines(s)
          /\ \A t \in Slot : pc[t] = "waits" => NextRow(t) \cap NextRow(s) \subseteq Locks(s)
    /\ \A t \in Slot : ~HeldRow(s, t)

\* evaluarReserva of one line: UPDATE, or back to the savepoint, which gives the
\* rows back.
ReserveLine(s) ==
    /\ GetsRow(s)
    /\ \/ /\ \A p \in NextRow(s) : Hasta(running[s], linea[s] + 1)[p] <= disponible[p]
          /\ linea' = [linea EXCEPT ![s] = @ + 1]
          /\ pc' = [pc EXCEPT ![s] = "lines"]
       \/ /\ \E p \in NextRow(s) : Hasta(running[s], linea[s] + 1)[p] > disponible[p]
          /\ pc' = [pc EXCEPT ![s] = "short"]
          /\ UNCHANGED linea
    /\ UNCHANGED <<tables, queue>>

\* The COMMIT of a reservation, or of a rejection.
CommitReserved(s) ==
    /\ pc[s] = "lines"
    /\ ~MoreLines(s)
    /\ disponible' = [p \in Product |-> disponible[p] - Tomado(s)[p]]
    /\ recibidos' = recibidos \cup {running[s]}
    /\ veredicto' = [veredicto EXCEPT ![running[s]] = "reservado"]

CommitShort(s) ==
    /\ pc[s] = "short"
    /\ recibidos' = recibidos \cup {running[s]}
    /\ veredicto' = [veredicto EXCEPT ![running[s]] = "insuficiente"]
    /\ UNCHANGED disponible

\* COMMIT returns, or the connection breaks after it took effect: the handler
\* throws, and its ROLLBACK has nothing to undo.
Commit(s) ==
    /\ CommitReserved(s) \/ CommitShort(s)
    /\ \/ pc' = [pc EXCEPT ![s] = "done"] /\ UNCHANGED faults
       \/ pc' = [pc EXCEPT ![s] = "threw"] /\ Fault
    /\ UNCHANGED <<linea, job, attemptsMade, stalled, owner, running>>

\* The catch block: what the transaction did is gone, its locks too.
Rollback(s) ==
    /\ pc[s] \in {"begin", "lines", "waits", "short"}
    /\ pc' = [pc EXCEPT ![s] = "threw"]
    /\ UNCHANGED <<linea, tables, job, attemptsMade, stalled, owner, running>>

\* A statement fails: connection, breaker, statement_timeout.
StatementFails(s) == Fault /\ Rollback(s)

\* 40P01, the victim is any of them.
DeadlockAborts(s) == Deadlocked(s) /\ Rollback(s) /\ UNCHANGED faults

\* Mutant of Finish: the catch block does not throw again.
FinishSwallowing(s) ==
    /\ pc[s] \in {"done", "threw"}
    /\ Complete(s)
    /\ pc' = [pc EXCEPT ![s] = "idle"]
    /\ UNCHANGED <<linea, tables>>

Finish(s) ==
    /\ \/ pc[s] = "done" /\ Complete(s)
       \/ pc[s] = "threw" /\ Throw(s)
    /\ pc' = [pc EXCEPT ![s] = "idle"]
    /\ UNCHANGED <<linea, tables>>

\* The server rolls the dead process's transaction back.
Crash(s) ==
    /\ Dies(s)
    /\ pc' = [pc EXCEPT ![s] = "idle"]
    /\ UNCHANGED <<linea, tables>>

QueueStep(e) ==
    \/ enqueueToDestination(e)
    \/ Refuse(e)
    \/ Promote(e)
    \/ MoveStalled(e)
    \/ retryJob(e)
    \/ Forget(e)

HandlerStep(s) ==
    \/ isAlreadyProcessed(s)
    \/ WaitForRow(s)
    \/ ReserveLine(s)
    \/ Commit(s)
    \/ DeadlockAborts(s)
    \/ Finish(s)

Next ==
    \/ \E e \in Event : QueueStep(e) /\ UNCHANGED <<tables, handler>>
    \/ \E s \in Slot : LosesLock(s) /\ UNCHANGED <<tables, handler>>
    \/ \E s \in Slot, e \in Event : TakeJob(s, e)
    \/ \E s \in Slot : HandlerStep(s) \/ StatementFails(s) \/ Crash(s)

Spec == Init /\ [][Next]_vars

\* Free slots take what waits, a handler goes on as far as locks let it, deadlocks
\* are found (deadlock_timeout), backoffs end and stalled jobs are looked for.
\* No fault is fair, nor is a publication.
FairSpec ==
    /\ Spec
    /\ \A s \in Slot : WF_vars(HandlerStep(s))
    /\ \A e \in Event :
          /\ SF_vars(\E s \in Slot : TakeJob(s, e))
          /\ WF_vars((Refuse(e) \/ Promote(e) \/ MoveStalled(e)) /\ UNCHANGED <<tables, handler>>)

-----------------------------------------------------------------------------
\* What the handler promises (AtomicReservation): a re-run after a stalled job, a
\* retry, a deadlock or a lost answer of COMMIT never decides an order twice, and
\* interleaved transactions never take part of an order or more than there is.
Implementa == INSTANCE AtomicReservation

PromesaAtomica == Implementa!Spec

\* bus.ts:155: a job is completed only when its handlers returned; what is in the
\* completed set has been decided, whichever slot put it there.
CompletedIsApplied ==
    \A e \in Event : job[e] = "completed" => e \in recibidos

\* consumer.ts:85: two orders with their lines the other way round deadlock, again
\* on each attempt if they are unlucky; without a fault one of them goes on, and
\* none ends in the failed set for it.
FailedOnlyByFaults ==
    \A e \in Event \ Invalid : job[e] = "failed" => faults > 0

\* A published event is not left half-way: it is completed, or an operator finds
\* it in the failed set, whatever happened to the slots that ran it.
SettlesInTheEnd ==
    \A e \in Event : job[e] # "none" ~> job[e] \in {"completed", "failed"}

\* A transaction's rows are its own.
ExclusiveLocks ==
    \A s, t \in Slot : s # t => Locks(s) \cap Locks(t) = {}

\* Nor do two of them have the receipt of one event.
ExclusiveReceipt ==
    \A s, t \in Slot :
        HasReceipt(s) /\ HasReceipt(t) /\ running[s] = running[t] => s = t
=============================================================================
