# A TLA+ model of the inventory ERP

Four Node services (`svc-productos`, `svc-stock`, `svc-ordenes`, `svc-obs`), each
with its own PostgreSQL database, work together only through events: a service
commits an event in its *outbox* together with the change it announces, a relay
copies the outbox to one BullMQ queue per destination, and a worker of the
destination hands the event to its handlers. There is no distributed
transaction. What keeps orders and stock consistent is the order in which each
handler reads, decides and writes, and that is what these modules describe.

Names follow the code: Spanish where the code is in Spanish (orders, stock),
English where it is in English (outbox, breaker).

## 1. Inventory

| Component | State | Operations | Talks to |
|---|---|---|---|
| Outbox and relay (`services/*/src/jobs/outbox-relay.ts`, `events/publisher.ts`, `routes/admin.ts`; the same file in all four services) | tables `outbox`, `outbox_deliveries`, `outbox_delivery_dlq`; the batch in a relay's memory | `publishEvent`, `claimBatch`, `markPublished`, `markFailed`, retry of a dead letter | the destination's queue in Redis |
| Event bus (`packages/event-bus`) | one queue per service: jobs keyed by event id, with their lock, attempts and stalls; completed and failed sets | `publishRawToDestination`, worker with 5 jobs at a time and 3 attempts, `retryJob` | relays, handlers |
| Orders (`services/svc-ordenes`) | `ordenes`, `lineas_orden`, `eventos_recibidos`, `idempotency_keys`, `catalogo_productos` | `POST /ordenes`, cancel, `onStockReservado`, `onStockInsuficiente`, the catalogue's three handlers | svc-stock and svc-productos by events |
| Stock (`services/svc-stock`) | `stock`, `reservas`, `movimientos_stock`, `alertas_stock`, `eventos_recibidos`, `idempotency_keys` | `onOrdenCreada`, `onOrdenCancelada`, `onProductoCreado`, adjust, resolve alert | svc-ordenes by events |
| Products (`services/svc-productos`) | `productos` | create, update, delete | everybody by events |
| Observer (`services/svc-obs`) | `event_log`, `ordenes_sla`, the SLA lock, a Map of SSE clients per replica | event handlers, `check-sla`, SSE connect and broadcast | everybody's events, other replicas through Redis' publish and subscribe, dashboards |
| Circuit breaker (`packages/resilience`) and pools (`services/*/src/db/pool.ts`) | state, failures, calls and successes in half_open; clients lent out | `exec`, `getState`, `connect`, `query` | the database |
| Idempotency keys (`plugins/idempotency.ts`) | `idempotency_keys` | lock, expire, look up, save | HTTP clients that retry |
| Retention (`jobs/retention.ts`) | all the tables above | daily deletion | |
| Migrations (`packages/db-migrate`) | the schema, `schema_migrations`, an advisory lock | `runMigrations`, `rollbackLastMigration` | the database |
| Service processes (`services/*/src/index.ts`, `routes/health.ts`) | HTTP server, worker, timers, pool; the repeatable job `check-sla` in Redis | `bootstrap`, `gracefulShutdown`, forced exit, `GET /health/ready` | all of the above, Docker |
| Auth, env, logger, metrics, tracing, dashboard, nginx, seeds | none that a step could break | | |

What is hard, and what correctness means:

* **Relay.** Several replicas poll the same tables; a relay may crash or overrun
  its lease between claim, publication and record; a statement may take effect
  although the caller sees an error. Correct: no event owed to a destination is
  ever forgotten, the dead letters listed are the deliveries that are dead, the
  retry budget holds, replicas do not work on the same row without a fault.
* **Saga.** Events of one order arrive in any order, more than once, while users
  cancel and operators adjust. Correct: a confirmed order has its units; one
  verdict per order; units neither appear nor vanish; every order is decided.
* **Breaker.** Calls admitted in one state settle in another. Correct: it opens
  only for a streak of failures, admits no more than it says in half_open, and
  recovers when the database does.
* **Catalogue.** svc-ordenes prices orders from a copy of the products, fed by
  events that carry only what changed, in any order, with timestamps that are
  not those of the commits. Correct: a frozen version names one price, a row is
  at the newest event, no event waits for ever, and the copy converges.
* **SLA.** Any replica may run the check, holding a lock that can run out, while
  verdicts arrive for the rows it has read. Correct: one check at a time, one
  report per order, verdicts are final, nothing overdue goes unmarked.
* **Idempotency keys.** A client that got no answer asks again, also while its
  first request is still at work, while the key expires or while retention deletes
  it. Correct: a key's change is made once until its answer expires, and every
  answer is about a change that was made.
* **Live stream.** A dashboard registers, then loads its history, while events are
  stored and broadcast by any replica; Redis keeps nothing for a subscriber that
  is away. Correct: no gap between history and stream but by a fault, and no place
  taken by nobody.
* **Queue and row locks.** A job's lock may run out while its slot is still at work,
  so that two slots handle one event; a COMMIT may take effect and its answer be
  lost; two orders with the same products in another order of lines lock each other
  out. Correct: an order is decided once and entirely, a completed job was applied,
  and every published event ends in the completed or in the failed set.
* **Pools.** `connect` and every statement, ROLLBACK too, go through the breaker, which
  other queries open. A refused ROLLBACK gives a client back in the middle of its
  transaction. Correct: no effect twice, no acknowledgement without a receipt, and no
  receipt without its effect as long as no transaction was left open.
* **Processes and migrations.** Replicas start together on one database, die between a
  file's SQL and the row that records it, are told to stop during bootstrap or with a
  stream open. Correct: a replica that says it is ready has its schema, worker and
  timers; no event, exchange or check meets a pool that was ended; who is told to stop
  ends, and who went down by itself comes back, as long as no file was left half applied.

`PROJECT.json` lists every component and, under `hazards`, each of these at its
line with the properties that watch it.

## 2. Modules

| Module | Models | Checked by | Proved in |
|---|---|---|---|
| `DurableDelivery` | the promise of an outbox: what is owed stays owed until handed over | `MCOutboxRelay` | `OutboxRelayProofs` |
| `OutboxRelay` | the outbox of a service and its relay replicas | `MCOutboxRelay` | `OutboxRelayProofs` |
| `OrderLifecycle` | the promise of the saga: an order's states and its units | `MCOrderSaga` | `OrderSagaProofs` |
| `SagaBus` | the events of the saga as a consumer sees them | (with the saga) | |
| `OrderService` | svc-ordenes | (with the saga) | |
| `StockService` | svc-stock | (with the saga) | |
| `OrderSaga` | the two services composed; all the saga's properties | `MCOrderSaga` | `OrderSagaProofs` |
| `ProductService` | svc-productos and its events | (with the catalogue) | |
| `ProductCatalog` | svc-ordenes' copy of the products and the lines priced from it | `MCProductCatalog` | `ProductCatalogProofs` |
| `SlaMonitor` | svc-obs: `ordenes_sla`, its handlers and the check | `MCSlaMonitor` | `SlaMonitorProofs` |
| `CircuitBreaker` | the breaker and the calls under way | `MCCircuitBreaker` | `RuntimeProofs` |
| `IdempotencyKeys` | the keys of `POST /ordenes` and of a stock adjustment | `MCIdempotencyKeys` | `IdempotencyKeysProofs` |
| `SseBroker` | svc-obs' live stream on several replicas | `MCSseBroker` | `SseBrokerProofs` |
| `AtomicReservation` | the promise of svc-stock's worker: each order decided once, whole | `MCStockWorker` | `StockWorkerProofs` |
| `EventQueue` | a service's queue: jobs, locks, attempts, stalls | (with the worker) | (with the worker) |
| `StockWorker` | `onOrdenCreada` statement by statement, run by the slots of that queue | `MCStockWorker` | `StockWorkerProofs` |
| `TxPool` | a pool of clients behind the breaker and the workers that use it; extends `CircuitBreaker` | `MCTxPool` | `RuntimeProofs` |
| `Migrator` | a service's migrations and their rollback | (with the process) | `RuntimeProofs` |
| `ServiceProcess` | the replicas of a service from start to exit; extends `Migrator` | `MCServiceProcess` | `RuntimeProofs` |

Operators called *mutants* (`ClaimableLeasedToo`, `SinIdempotencia`, ...) are not
part of any specification. Each is a plausible mistake in the definition that
follows it; put in its place, the named property fails, which is how we know the
property looks at the code.

### OutboxRelay and DurableDelivery

`outbox[e]` is the row of event `e`; `delivery[<<e, d>>]` its row for destination
`d`, with its lease; `dlq` the dead letters; `queued` the deliveries a job was
added for. A relay has in memory `batch[r]`, the row it works on `row[r]`, and
`pc[r]`. Every action is one transaction or one await of the code:

| Action | Code |
|---|---|
| `PublishEvent` | `publishEvent(…, client)`, the business transaction commits |
| `ClaimBatch` | `claimBatch`: insert missing deliveries, select, lease, one transaction |
| `Publish`, `PublishRejects` | `publishRawToDestination` resolves or rejects |
| `MarkPublished`, `MarkPublishedRejects` | `markPublished` returns, or throws with or without effect |
| `JudgesParent` | the last attempt of `markFailed`, up to its UPDATE of the outbox row |
| `MarkFailed`, `MarkFailedRejects` | the COMMIT of `markFailed`, likewise; a throw inside the catch leaves the batch |
| `Crash` | the process dies with rows in memory; what was not committed is rolled back |
| `LeaseRunsOut` | `lease_until < NOW()` |
| `AdminRetry` | `POST /admin/outbox-dlq/:id/retry` |

`markPublished` is one SQL statement whose parts read the snapshot it started
with; `RecordPublished` therefore decides about the parent from `delivery`, not
`delivery'`. That is why a run finds the parent row never published (section 5).
The disjunct that publishes the parent is kept, since the statement has it.

A transaction is one step, its COMMIT, where nothing it read can be stale by then. The
last attempt of `markFailed` is two: its UPDATE of the outbox row asks by the statement's
snapshot whether another delivery is pending (`pc[r]` becomes `dead` if one is, `over` if
none), may then wait for the row's lock, which an administrator's retry holds up to its
own COMMIT, and under READ COMMITTED writes what the old snapshot said. Between the two
steps the delivery's row is locked, and a claim skips it (`Locked`). `AdminRetry` stays one
step: it holds the dead letter's row from its SELECT, and no relay writes a dead delivery.
`crossed` records the events whose retry fell between a judgement and its COMMIT; no action
reads it.

`DurableDelivery` has four sets: owed, handed, settled, parked. A debt ends only
by being handed over and settled, or by being parked for an operator, who may
owe it again. The refinement maps a delivery to *owed* from the commit of its
event, before its row exists: an event whose deliveries nobody created yet is
not forgotten either.

### OrderService, StockService, SagaBus and OrderSaga

`SagaBus` keeps how many events of each type exist for an order, and never
removes one: a consumer may see it at any time, again, and out of order.
`DurableDelivery` is what justifies that nothing is lost; five concurrent jobs,
retries and manual re-runs that nothing is ordered. Duplicates are stopped by
`eventos_recibidos` (`recibidosOrdenes`, `recibidosStock`).

| Action | Code |
|---|---|
| `CrearOrden`, `CancelarOrden` | `POST /ordenes`, `POST /ordenes/:id/cancelar` |
| `OnStockReservado`, `OnStockInsuficiente` | the handlers of svc-ordenes |
| `OnOrdenCreada` | the whole transaction of svc-stock: reserve all lines or roll back to the savepoint and reject, with movements and alerts |
| `LeerReservas`, `Liberar`, `MarcarLiberada`, `AbortarLiberacion` | `onOrdenCancelada`, split between its SELECT and its UPDATE, where `onOrdenCreada` of the same order may commit |
| `OnProductoCreado` | the stock row of a new product |
| `Ajustar`, `ResolverAlerta` | the operator's HTTP operations |

Quantities are small numbers and a rejected transaction is a stutter, so handler
failures with rollback need no action of their own, except the one whose
transaction is split (`AbortarLiberacion`). An order's lines are a function from
products to units: only the sums per product matter to stock. `orden[o]`,
`reserva[o]` and `stock[p]` are the tables' rows; `ajustado[p]` is the sum of the
movements of type `ajuste`, the books the conservation law is stated against.

`OrderLifecycle` has two functions: the order's state, and what happened to its
units (`no`, `si`, `devuelto`). Confirmation needs the units set apart; units go
back only for a cancelled order; nothing else changes. `CumpleCiclo` maps
`estado` to the row of svc-ordenes and `apartado` to what svc-stock announced.

### ProductService and ProductCatalog

A product's row is its price and whether it is active; other fields are there
only as the change that carries neither. An event's timestamp is `created_at` of
its outbox row, and `NOW()` is the start of the transaction, so PATCH and DELETE
are two actions, BEGIN (`Empezar`) and COMMIT (`ActualizarProducto`,
`EliminarProducto`), or a rollback (`Deshacer`). POST is one: nobody knows the
id before it commits. The products of the seed have a row and no event.

`catalogo[p]` is the row of `catalogo_productos`, `recibidos` the events handled;
an event may be handled at any time after its commit, and again. A handler that
finds no row throws, which rolls back and leaves everything as it was: in the
model it is not enabled (`ConFila`). `vendidas` holds product, version and price
of the lines of all orders; `CrearLinea` reads them, and the later transaction
that inserts the order does not look again.

### SlaMonitor

`orden[o]` is the order as svc-ordenes has it, which decides what events exist;
`sla[o]` its row in svc-obs. A check is `Tomar` (SET NX), `Leer` (BEGIN and
SELECT), `Avisar` (UPDATE, the warnings, COMMIT: the UPDATE's row locks keep the
rest together), `Consultar` (GET) and `Borrar` (DEL). `Fallar` is a transaction
that fails, `Crash` a process that dies, `Caducar` the TTL of a lock left behind
and `Exceder` the TTL of one whose holder still works; `excedido` remembers the
last. `avisos[o]` counts the warnings in the outbox.

### CircuitBreaker

`state`, `failures`, `successes`, `halfOpenCalls` are the class's fields, `elapsed` the
time since it opened in ticks, `inFlight` the calls under way. `exec` is two
actions, admission (`Exec`) and result (`Succeed`, `FailInfrastructure`,
`FailDomain`), because any number of other calls may come between them.
`StateNow`, `CallsNow` and `SuccessesNow` are `maybeTransition`, which every
method runs first. The failures of the database itself come and go
(`DatabaseChanges`); `ignoring` is whether the breaker was given a
`failurePredicate`, as the pools do. `streak` is a history variable: failures since the last
success, however old the calls.

### IdempotencyKeys

`keys[k]` is the row of a key, `lock[k]` the request whose transaction has the
advisory lock, `effects` the orders or adjustments that were committed. A request
is one run of a handler; a retry is another request with the same key and body.
`start[r]` is `NOW()` of its transaction, which is earlier than the time it gets the
lock.

| Action | Code |
|---|---|
| `RejectFirst` | 409 or 503 of the catalogue check, before the key is looked at |
| `Begin`, `lockIdempotencyKey` | BEGIN; `pg_advisory_xact_lock` |
| `Replay`, `Proceed` | `removeExpiredIdempotencyKey` and `getIdempotent`: an answer, or none |
| `Reject` | 404 or 409 of an adjustment, ROLLBACK |
| `Commit`, `Reply` | the change, `saveIdempotent`, COMMIT; then the answer |
| `Fail` | a statement, the process or the connection fails, before or after COMMIT |
| `Retention` | the nightly DELETE, which takes no advisory lock |

The two routes differ in what they change and in which rejections they have; the
module has both, and the keys are those of one service.

### SseBroker

`log` is `event_log`, `toSend` what is committed and not broadcast yet, `channel`
the messages on their way to a replica, `clients[r]` its Map, `seen[c]` what was
written to a connection. `pubsub[r]` is whether the replica has `pub` and `sub`: not
with adapter *memory*, not after a failed start, not once closed. `unread[c]` and
`lost` are history: what the history query of `c` is to bring, and which events will
not come to a replica's clients any more.

| Action | Code |
|---|---|
| `StoreEvent` | `storeEvent` up to COMMIT |
| `Publish`, `BroadcastHere`, `PublishRejects` | `broadcast`: through Redis, on memory, and the fallback when `publish` rejects, whether or not Redis took it |
| `Deliver` | `sub.on("message")` |
| `SubscriberCutOff`, `closeSseBroker`, `Restart` | the connection breaks; shutdown, before the event bus is closed; the process ends |
| `addClient`, `Refuse` | registration, or 503 |
| `LoadHistory`, `HistoryFails` | the SELECT and its rows; the stream without them |
| `Close`, `Abandon` | the browser leaves after, or before, the close listener is set |

### EventQueue, StockWorker and AtomicReservation

`job[e]` is the BullMQ set the event's job is in, `owner[e]` the slot with its lock,
`running[s]` what a slot is at work on, which may outlast the lock. A slot stands for
one of the `concurrency` jobs of one replica. `StockWorker` extends the queue: a slot
that takes a job runs the handler, whose end is the job's. `Pedido[e][i][p]` are the
units of `p` in the first `i` lines, so that what a transaction has taken after `i`
lines is one lookup, and the rows it has locked are those it took units from.

| Action | Code |
|---|---|
| `enqueueToDestination`, `Forget` | `q.add` with the event's id; `removeOnComplete` |
| `Refuse` | version or payload not valid: `UnrecoverableError` |
| `TakeJob`, `Finish` | the worker's callback, and what BullMQ does with its end: completed, delayed, failed, or nothing without the lock |
| `Promote`, `MoveStalled`, `LosesLock`, `Crash` | backoff, BullMQ's check for stalled jobs, a lock that runs out, the process dies |
| `retryJob` | `POST /admin/dlq/:jobId/retry` |
| `isAlreadyProcessed` | the INSERT of the receipt, which waits for another transaction's |
| `WaitForRow`, `ReserveLine` | `SELECT … FOR UPDATE` of a line and `evaluarReserva`, or back to the savepoint |
| `Commit`, `StatementFails`, `DeadlockAborts` | COMMIT with or without its answer; an error; `40P01` of any of the transactions in a cycle |

`linea[s]`, the receipt and the units taken are a transaction's own until its COMMIT;
`disponible`, `recibidos` and `veredicto` are what is committed. A slot that asks for a
row does not overtake one that already waits for it. Releases and adjustments are
`StockService`'s part: here stock only decreases.

`AtomicReservation` decides an order in one step: all its units if they fit, or none.
The refinement maps committed tables to its two variables, so each COMMIT is a step
of it and everything else a stutter.

### TxPool

Each worker is a call of `CircuitBreaker`, the remaining calls are the service's other
queries. `tx[c]` is the transaction of a session, `receipts[c]` and `effects[c]` what it
wrote and has not committed; `stored` and `applied` are committed; `acked` are the
events whose handler returned. `leaked` remembers that a client went back with its
transaction open.

| Action | Code |
|---|---|
| `Receive`, `Connected` | the handler is called; `pool.connect` gives it a client |
| `Send`, `Refused` | `protectClient`: the statement goes through `exec`, or is refused and never sent |
| `Answered` | BEGIN, receipt, effect, COMMIT, ROLLBACK return |
| `Rejected` | an error the breaker does not count |
| `Unanswered` | the connection breaks, the server or the client runs out of time, with or without effect |
| `IdleTimeout` | `idle_in_transaction_session_timeout`, a connection that breaks in the pool |

`Run` says what the server does with a statement, `Throw` and `Release` where the
handler goes on. BEGIN inside an open transaction only warns, which is how the next
borrower of a leaked client comes to commit what it did not write.

### Migrator and ServiceProcess

`ledger` is the table `schema_migrations` (absent, without checksums, whole), `records` its
rows, `schema` the objects that exist, `lock` the session with the advisory lock. A process
makes the table before it has the lock, looking first (`LooksForTable`) and then adding what
it missed (`MakesTable`), which fails when another session has added it in between
(`TooLate`). It then goes through `lock`, `check` and `record` for each version, the
operator's rollback through `locked` and `dropped`. A file's SQL and its row are two
transactions. The files with a CREATE TYPE or CREATE TRIGGER (`Once`: the first of
svc-ordenes and of svc-productos) cannot run on a schema that has their objects
(`SqlFails`); all the others, and the down files, can be repeated. A file that follows one
whose rollback stopped half-way may fail or not, depending on what it needs of it. `Edited`
replicas may have an image whose last file is not the one that was applied.

`bootstrap` and `gracefulShutdown` are sequences of sets of steps, a set for what
happens without an await in between. `boot[p]` and `halt[p]` are where a process is in
them; both move on independently when a signal comes early. `doing[p]` is the work under
way: an event, an HTTP exchange or stream, a callback of a timer, a run of `check-sla`.
`firstRun[p]` is the timeout of retention's first run, ten seconds after it was started.

| Action | Code |
|---|---|
| `Migrates`, `WaitsItsTurn` | `runMigrations`; `pg_advisory_lock` |
| `Prepares`, `StartsWork`, `Listens` | hooks, plugins, routes and board; worker and timers; `app.listen` |
| `RemovesSchedule`, `startSlaChecker` | `startSlaChecker`: the loop that removes the repeatable jobs; `queue.add` |
| `BootThrows`, `Dies` | `catch` of `bootstrap`, `exit(1)`; killed |
| `Signal`, `StopsTimers`, `StopsChecks`, `ClosesServer`, `ClosesBus`, `EndsPool`, `ExitsInOrder` | `gracefulShutdown` in its order |
| `ForcedExit` | the timer of ten seconds |
| `Restart`, `OperatorStarts` | `restart: unless-stopped`; an operator |
| `TakesJob`, `Accepts`, `Checks`, `Ticks`, `FirstRun`, `Ends` | a job, an exchange or a stream, a run of `check-sla`, a callback of an interval or of the timeout begins; one of them ends |
| `OperatorRollsBack`, `rollbackLastMigration` | the rollback, statement by statement |

## 3. Runs

| Run | Instance | Shows |
|---|---|---|
| `relay` | 1 event, 2 destinations, 2 replicas, batch 2, 2 attempts, 3 faults, 2 retries | `DlqMatchesDelivery`, `RetryBudget`, `ReplicasDoNotOverlap`, `KeepsPromise` and `FulfilsPromise`: the refinement of `DurableDelivery`, and with fair relays every delivery settled or parked |
| `relay_published` | one relay, no fault | violation: `PublishedEverywhereIsPublished` |
| `saga` | 2 orders, 2 products, up to 2 units a line and in stock, threshold 2 | `TypeOK`, `ConfirmadaTieneReserva`, `UnVeredicto`, `UnidadesConservadas`, `ReservadoSegunEventos`, `AlertaAlBajar`, the refinement `CumpleCiclo`, and `CicloTermina`: every order is decided |
| `saga_cancelled` | 1 order, 1 product | violation: `CanceladaSinReserva` |
| `catalog` | 2 products, one of the seed, 2 prices, 3 transactions | `VersionIdentificaPrecio`, `RefiereAlUltimo`, and `NingunoSeQueda`: an event that comes before its product's creation is applied in the end |
| `sla` | 2 orders, 2 replicas, 2 faults | `UnSoloCheck`, `UnAviso`, `ResueltaEsFinal`, and `VencidaSeMarca`: overdue orders are marked or decided |
| `breaker` | 3 calls, threshold 3, 2 calls and 2 successes in half_open | `OpensAfterStreak`, and `Recovers` when every error counts |
| `idempotency` | 1 key, 2 payloads, 3 requests, a clock of 2 ticks, rows that live 1 | `AnswerFits`, `OncePerKey`, and `Answered`: nobody waits for a key for ever |
| `sse` | 1 event, 2 replicas with a place each, 2 connections, 2 faults | `NoGap`, `PlacesAccounted`, and `Shown`: what is not lost is shown |
| `queue` | 2 orders whose lines are crossed over 2 products, 1 event that is not valid, 2 slots, 2 attempts, 1 stall, 2 faults | `CompletedIsApplied`, `FailedOnlyByFaults`: a deadlock alone brings no order to the failed set, the refinement `PromesaAtomica`, and `SettlesInTheEnd`: every job completes or fails |
| `txpool` | 2 workers and 1 other query, 2 clients, 2 events, threshold 2 | `WholeUnlessLeaked`, `AppliedOnce` |
| `process` | 2 replicas, one with work, one with an edited file, 2 migrations, a new or an old database, svc-ordenes or svc-obs, one kind of work at a time, 2 upsets | `ProcessTypeOK`, `ReadyIsWhole`, `PoolOutlivesWork`, `SlaIsScheduled`, `BootFailsForACause`, and `EndsOrComesBack` |

The type invariants of the other modules are theorems (section 4), so their runs do
not repeat them.

**Bounds.** Two replicas are enough for every race on a row: a row has one lease
at a time and a replica meets the others only through it. Two destinations are
needed for a parent with mixed outcomes; two events would only repeat the first,
as no statement relates the deliveries of different events except the batch.
Three faults let a relay crash, its successor overrun its lease and a database
call fail in one behaviour; one attempt more than the budget is the off-by-one.
Two orders and two products with two units are the smallest stock for which one
order's success decides the other's failure in the second of two lines, with
units left over. Three calls on a breaker with two places in half_open leave one
that settles late. Three transactions are a creation and two changes in any
order, the least in which a price can change and change back; two prices are
enough to tell them apart. Two faults are a check that dies or fails and one that
outlives its lock. Three requests are a first one, its retry, and another after the
row expired; two ticks let a row expire while a request waits. One event is enough
for the stream, whose steps never relate two events; two replicas are one that
stores it and one that hears of it, and two connections on one place each meet the
limit. Two slots and two orders whose lines are crossed
are the least that deadlock; the rival of the victim gets the row it waits for and goes
on to its COMMIT, so without a fault the two deadlock once. `FailedOnlyByFaults` is about
such a pair: a third order is enough to make an unlucky one the victim of each of its
two attempts. What holds of every instance is in section 4: without a fault no order of a
single product fails, and none at all where all orders have their lines in one order.
One order names a product twice, which is a lock it already has. Two faults are a lost lock and then a lost answer of COMMIT, or a failure after
the operator's retry; one stall is BullMQ's default. `MaloPrimero`, the constraint of
`queue`, makes the event that is not valid come first and nothing else: it shares nothing with
the others but the slots. Two workers on two clients show a leaked transaction and its
next borrower, one other query the breaker that opens in between; a `ResetTicks` of 0
lets it probe at any time. Two replicas show every race for the migrations, of which
two are the least with one behind the edited one. `svc-stock` is left out of the run, as
its two sequences are those of svc-ordenes, which has a file that cannot run twice besides;
`svc-productos` is, too, as it has that file, the same order of shutdown and a part of the
same bootstrap. What an ended pool meets, and what a drain waits for, are single kinds of
work, so one at a time is enough (`MaxWork`). Two upsets are a signal or a rollback and
then a death. `MaxFaults`, `MaxRetries`, `MaxCantidad`, `MaxExistencias`, `MaxTx`,
`MaxFallos`, `MaxTime`, `Busy`, `MaxWork` and `MaxUpsets` bound the models only; the theorems hold
for any value.

Deadlock is checked for the relay, the breaker, the SLA check, the pools and the
processes, which always have a next step; the saga, the catalogue, the requests, the
stream and the queue really end (every order decided, every event handled, every
request answered, every connection closed, every job settled), hence
`CHECK_DEADLOCK FALSE` there. The passing runs check safety and liveness over one state
space, so none of them uses symmetry, but `txpool`, which checks invariants only.

**Fairness.** `OutboxRelay!FairSpec`: a relay that can take a step does
(`setInterval` calls `tick` for ever and every await settles, as statements have
timeouts) and a lease nobody extends runs out. Faults and retries are not fair.
`OrderSaga!FairSpec`: the verdict's own events are handled in the end, which
`DurableDelivery`'s liveness, the queue's retries and, past three attempts, the
operator's `retryJob` provide; cancellation, adjustments and releases are not
fair. `ProductCatalog!FairSpec`: each event is handled if its handler can
complete, for the same reason; nobody has to change a product. `SlaMonitor!FairSpec`:
the repeatable job comes round on every replica, a check under way goes on, and a
TTL runs out; no fault is fair. `CircuitBreaker!FairSpec`: calls keep coming,
they settle, and time passes. `IdempotencyKeys!FairSpec`: a handler under way goes on
and a free lock goes to somebody who waits for it; nobody has to send a request.
`SseBroker!FairSpec`: a handler goes on to its broadcast, Redis passes on what it
took, and the history query returns; no fault is fair and nobody has to connect.
`StockWorker!FairSpec`: a handler goes on as far as locks let it, PostgreSQL ends
deadlocks, BullMQ promotes delayed jobs and looks for stalled ones, and a free slot takes
a waiting job in the end, whoever else it serves first (strong, as slots are taken and
free in turn). `ServiceProcess!ProcessFairSpec`: Docker restarts what exited, `bootstrap` goes on
with what is ready, PostgreSQL serves those who wait for the advisory lock in turn
(strong, for the same reason), the timer of ten seconds fires, an operator's session
ends; jobs, requests and streams need not end, nor does a drain need to be in time.
`EndsOrComesBack` says that a process is time and again where it is to get (`Settled`):
listening, or down as it was told, or at a file that was edited, half applied or rolled
back half-way, where the code gives it nowhere to go.

## 4. Proofs

All theorems hold for every value of the constants.

**`OutboxRelayProofs`** proves `[]IInv` and from it `TypeOK`,
`DlqMatchesDelivery`, `RetryBudget`, `ReplicasDoNotOverlap` and the refinement
`KeepsPromise`. `ReplicasDoNotOverlap` is not inductive: that two relays do not
share a row follows from both holding its one lease, so `HandIsLeased` says that
without faults what a relay has in memory is leased to it and not expired, and
`LeasedIsPending` that a lease is always on a pending row. The refinement needs
`RowsInHand` (a row about to be marked is in the queue) and
`QueuedBeforePublished`. A second invariant, `ParentInv`, follows the outbox row: with
`RowsTogether`, that an event's deliveries are inserted together and not one by one, and
`JudgementStands`, that what a relay read before it fails a parent is so until its COMMIT,
it gives `FailedParentIsOver`: while an event says failed its deliveries are over and one is
dead, unless an administrator's retry crossed the judgement. Without that exception it is
false, which TLC shows in fifteen steps; section 5 has them. `LockedIsLeased` carries it: a
row with a judgement under way is still leased to its relay. `NoParentIsPublished` is the
first finding of section 5 for every instance and not just the run's. `NothingOwedIsStuck`
says that a delivery still owed can be claimed, is leased, or is at the COMMIT of its last
failure.

**`OrderSagaProofs`** proves `[]IInv` and from it `TypeOK`,
`ConfirmadaTieneReserva`, `UnVeredicto`, `UnidadesConservadas`, `AlertaAlBajar`
and the refinement `CumpleCiclo`. The heart is `ReservaSegunEventos`: a
reservation exists exactly when `stock.reservado` was emitted, and a released one
belongs to a cancelled order. `LiberacionesAbiertas` adds what a release that has
read the reservations may rely on while other transactions run: it was caused by
a cancellation, is the only one of its order, and what it found is still active.
With `orden.cancelada` emitted only by an order that becomes cancelled for good
(`UnVeredicto`), a confirmed order can never lose its units. `NingunaOlvidada` says of each
pending order that the creation is still new to svc-stock or a verdict still new to
svc-ordenes. It needs `VeredictoDecide`: svc-ordenes handles a verdict by deciding the order,
so a pending one has no handled verdict.

`ReservadoSegunEventos` relates a row of `stock` to all the orders there are. A sum over
orders would need induction, so it is the cardinality of a set: `Unidades(p)` has a pair
for each unit of `p` that each order retains, and a step that adds or removes the lines of
one order adds or removes a set of known size (`SumarUnidades`, `QuitarUnidades`, by the
library's facts on finite sets). `Cuadra` adds that the set is finite, which holds at the
start, when it is empty, and is kept; that there are finitely many orders is not assumed.

**`ProductCatalogProofs`** proves `[]IInv` and from it `TypeOK`,
`VersionIdentificaPrecio` and `RefiereAlUltimo`. All handlers are reduced to one
fact, `Renovada`: what is left of a row is not older than the event and not
behind the old version, and shows the event if it changed. A frozen line then
needs `LineasDelCatalogo`, that its version is not ahead of the row's, and an
upsert needs `CreadoCompleto`, that a creation carries every field. `Origen` says where rows
come from: of the seed, and then no event of a creation exists, or with one. It gives
`NadieEsperaEnVano` (an event thrown back for want of a row waits for a creation that is
there and unhandled) and `SembradosNoSeVenden` (for a product of the seed there is none, so
its events are thrown back each time and no line is priced from it).

**`SlaMonitorProofs`** proves `[]IInv` and from it `TypeOK`, `UnSoloCheck`,
`UnAviso` and the action property `ResueltaEsFinal`. `UnAviso` is not inductive:
`PendienteSinAviso` says that an order the SELECT can return was never reported,
`LeidasSinAviso` that this is still so when the check reports it, because
`CandadoDelCheck` leaves no other check at work. `SlaVeraz` needs no lock: overruns or not, a
verdict in `ordenes_sla` is the order's own, a row is marked only with its warning in the
outbox, and a warning is of an order past the threshold. What a row may fail to say is
`OlvidoFirme`: where the verdict came before the creation, no step ever resolves the row.

**`IdempotencyKeysProofs`** proves `[]IInv` and from it `TypeOK`, `AnswerFits` and the
action property `OncePerKey`. A request that found nothing may act on it only
because `LockHeld` says it still has the lock, and `NothingStands` that every
earlier change of the key has expired since, which time does not undo;
`Remembered` says that an unexpired change has its row, so that a lookup which finds
none proves there is none, retention included. `LocksAreLive` is the converse of `LockHeld`,
that a lock which is taken is some open transaction's on that key; with it
`NobodyWaitsInVain` says that the holder a request waits for can itself go on.

**`SseBrokerProofs`** proves `[]IInv` and from it `TypeOK`, `NoGap` and
`PlacesAccounted`. `NoGap` is inductive only with `PlacesAccounted`: a broadcast
reaches a connection because an open one is in the Map of its replica.

**`StockWorkerProofs`** proves `[]IInv` and from it `TypeOK`, `CompletedIsApplied`, that
no two transactions hold a row or the receipt of one event (`TransactionsApart`), and
the refinement `PromesaAtomica` (`Refines`). The refinement's COMMIT needs that the
units a transaction took line by line still fit when it ends; no committed value may
have moved under them, which is `ExclusiveLocks`, and its order must still be
undecided, which is `ExclusiveReceipt`: the receipt, not the job's lock, is what keeps
two slots with one event apart. `CompletedIsApplied` needs that a slot which is done
has seen or made a committed receipt, whether or not it still owns the job.

It also says where the deadlocks come from. `FailedOnlyByFaults` depends on who the rivals
are and is not true of every instance; two theorems say, for any number of orders and slots,
of which it is. `OneProductGoesOn`: an order of a single product is never a deadlock's victim.
`VictimsHaveTwo` has the reason: in a ring each transaction holds one row and waits for
another, and by `ExclusiveLocks` these are two. `SameOrderFailsOnlyByFaults`: if all orders ask
for their rows in one order of the products, none is a victim, as there is no ring at all
(`SameOrderNeverDeadlocks`): whoever in a ring waits for the lowest row has a lower one, for
which somebody else waits. `SameOrder` is a condition on the constant `Pedido`; the code
takes the lines as the client sent them, so it is what sorting them would buy. Both need
`CalmInv`: without a fault a job has exactly one slot, so that no two wait for one receipt and
no stalled job is moved.

`SomebodyGoesOn` is for every instance: if any slot is at work, the guard of some slot's next
statement holds (`Goes`), or there is a ring for PostgreSQL to break. It goes by
contraposition. If nobody can go on, everybody at work waits for another that is
(`IfNobodyGoes`), and of finitely many that each point to one another some form a ring
(`FiniteRing`: the smallest set that no pointer leaves). The delicate case is a row that nobody
has and somebody else waits for already: that one gets it, because a line is of one product
(`FreeRowIsTaken`). `NoEventIsStuck` puts the queue in front of it; with `LockedJobs`, that a
job's lock is the lock of the slot that runs it, every job that is not settled can be moved.

`BooksBalance` says what the refinement is good for: units gone from the shelf and units
the reserved orders asked for, counted one by one in `Given(p)`, always make up the initial
stock. `Balance` is an invariant of the abstract specification alone (`PromiseBalances`);
`Refines` carries it to the worker, so the proof never looks at a slot, a lock or a retry.

**`RuntimeProofs`** has the breaker, the pool and the processes.

* *Breaker.* `[]IInv`, `TypeOK` and `OpensAfterStreak`, from the fact that the counter of
  failures never exceeds the streak. `HalfOpenGoesOn`: while every error counts, a half-open
  circuit admits a call or waits for one, since each place it gave out became a success or is
  still out (`PlacesComeBack`). It supposes `SuccessThreshold <= HalfOpenMaxCalls`, two and
  two by default, which the class does not check. Where some errors are ignored,
  `StuckForGood` says what is found in section 5: a circuit with its places used up refuses
  every call from then on.
* *Pool.* `PoolUsesBreaker` shows that every step of `TxPool` is a step of the breaker or
  leaves it alone, so all that is proved of the breaker holds of it in use. `PoolInv` gives
  `PoolTypeOK`, `WholeUnlessLeaked` and `AppliedOnce`. `Lending` (a client has one
  borrower), `Pending` (a receipt is uncommitted in one session at most, and an effect only
  beside its receipt) and `Stage` (what each statement finds) hold whatever leaks, and carry
  `AppliedOnce`; `Clean` and `Whole` add what is true until a transaction is left in the
  pool.
* *Migrations.* `MigInv`: only the session with the advisory lock is between its first look
  and its last row (`LockHeld`), and the table is there for all who have come to the lock
  (`TableIsThere`); the rows are `1..n` (`RowsInOrder`), which is why a rollback
  undoes the last file and a migrator that found a row missing adds the next one
  (`RowsAreFirstOfList`); what a migrator has passed stands as its own files have it
  (`Progress`), unless a rollback, which must find a row to begin (`UndoInOrder`), made it
  `outdated`. An INSERT therefore never meets a row somebody else added meanwhile, and the SQL
  of a file fails only on what a session left half done (`Obstacle`): that is
  `BootFailsForACause`, whose one cause among healthy replicas is the table made before the
  lock (`TooLate`). `HalfAppliedForGood` is the other side: a file that cannot run twice, ran
  and was not recorded stays so, and no process ever gets past it. `MigrationsGoOn` adds that whoever waits for the lock waits for a
  session that is alive and at its migrations, whose next statement runs or throws.
* *Processes.* `ProcessInv` adds to `MigInv` what a process has behind it: in `bootstrap`
  (`BootBehind`: migrations done, the worker on, exactly the timers of the steps passed, and
  a server that listens only at the end) and in `gracefulShutdown` (`HaltBehind`: the server
  is closing only once that step is reached, and closed when it is passed; likewise the bus
  and the pool). The two run side by side when the signal is early. When it is not,
  `DrainsForGood` says that what the drain has stopped stays so: no step of `bootstrap` is
  left to start it again, and no check begins once its worker is closed. `ReadyIsWhole` follows from the first two, `PoolOutlivesWork` from
  the last two and the fact that each service's order stops every interval it starts
  (`EveryTimerIsStopped`); it speaks of events, exchanges, checks and intervals, as callbacks
  may outlive the pool (section 5). `ScheduleFollows` is `SlaIsScheduled` for every replica past that
  step, which is what another replica's removal has to respect. The orders of the four
  services enter as `BootOrderFacts` and `ShutdownOrderFacts`, so a step moved in one of them
  fails there.

The assumptions are the named `ASSUME`s of the modules: model values apart from
the sets they complete, positive thresholds and budgets, at least one slot and finitely
many (a worker's `concurrency`), and one product to a line (`consumer.ts:85` of svc-stock).

**Only model-checked.** Liveness (`FulfilsPromise`, `CicloTermina`, `NingunoSeQueda`,
`VencidaSeMarca`, `Recovers`, `Answered`, `Shown`, `SettlesInTheEnd`, `EndsOrComesBack`),
which the prover cannot do. Of most of them the proofs have the safety part, that as long as
something is owed the guard of a step under fairness holds: `NothingOwedIsStuck`,
`NingunaOlvidada`, `NadieEsperaEnVano`, `HalfOpenGoesOn`, `NobodyWaitsInVain`, `NoGap`,
`NoEventIsStuck`, `MigrationsGoOn`. They are stated as the guards, as the prover does not know
`ENABLED`; that those steps then lead somewhere in the end is what TLC checks. And
`FailedOnlyByFaults` for orders with crossed lines, which the run checks of two: with three
orders and two attempts TLC finds one that loses both.

## 5. What the code does otherwise

Two runs end in a counterexample on purpose.

1. **A published event stays pending** (`relay_published`, `outbox-relay.ts:156`).
   `NOT EXISTS (… estado = 'pending')` sees the delivery the same statement is
   publishing. The outbox row is never published; `outboxPending` only grows and
   retention, which deletes published rows, never finds one. `NoParentIsPublished` proves it
   for any number of destinations and replicas.
2. **A reservation for a cancelled order** (`saga_cancelled`, `consumer.ts:214` of
   svc-stock). The cancellation is handled before the creation.
The models show more, for which there is no run. In the saga and the catalogue:

* `onOrdenCancelada` marks by order id what its SELECT may not have seen, so a
  reservation made in between is called released while its units stay taken
  (`MarcarLiberada`, `consumer.ts:241` of svc-stock).
* A price change can be lost for good: an event that carries one field is dropped
  because a newer one, which carries another, came first (`AplicarCambio`,
  `consumer.ts:144` of svc-ordenes).
* A product of the seed cannot be ordered: the seed writes its row and no event
  (`seed.ts:56` of svc-productos), and only `onProductoCreado` gives the catalogue of
  svc-ordenes a row (`consumer.ts:99`), so the order is answered 503
  (`SembradosNoSeVenden`), against `docs/runbook.md:476`, which orders one.
* A breaker may never leave half_open: calls that end in errors it does not count use
  up half_open's calls and report nothing (`FailDomain`, `StuckForGood`,
  `packages/resilience/src/index.ts:121`).
* The retry of one dead letter takes the parent out of `failed` while another
  destination is still dead (`AdminRetry`, `admin.ts:114`), against
  `docs/runbook.md:223`.
* A relay that judged a parent before the retry's COMMIT overwrites it: the event is
  `failed` with a delivery pending again, or published later, and stays so (`JudgesParent`,
  `crossed`, `outbox-relay.ts:188-195`).
* A verdict that reaches svc-obs before its order's creation is forgotten, and the
  decided order later watched for ever (`Resolver`, `OlvidoFirme`, `consumer.ts:132`). Warnings
  also go out for the rows the SELECT returned, not for those the UPDATE marked
  (`Avisar`, `sla-checker.ts:93`).
* A retry of an order that was created is answered 409 or 503 if the catalogue has
  changed meanwhile: it is checked before the key is looked up (`RejectFirst`,
  `ordenes.ts:207`). No order is made twice, but the answer is not the stored one.
* A browser that leaves while its history is read keeps its place until the
  process ends (`Abandon`, `obs.ts:74`), and enough of them close the stream to
  everybody. During shutdown, events still stored are broadcast to one replica only
  (`closeSseBroker`, `index.ts:207`). An event whose process ends between COMMIT and
  broadcast is never shown live (`consumer.ts:99`).

In the relay and the checks:

* Two replicas that dead-letter the two deliveries of one event at the same time each
  still see the other's pending, and neither marks the event failed (`JudgesParent` of
  both, then `MarkFailed` of both; `outbox-relay.ts:192`).
* The SLA lock is read and deleted in two calls, so a check that overran can delete the
  lock of its successor (`Consultar`, `Borrar`, `sla-checker.ts:114`).
* `check-sla` is removed and added in two calls; a process that ends between them leaves
  no schedule until some replica starts again (`unscheduled`, `sla-checker.ts:37`).

In the pools, the migrations and the processes:

* If other queries open the breaker, the ROLLBACK of a transaction under way is refused
  and its client goes back with the transaction open; whoever borrows it next commits
  the half of it (`leaked`, `pool.ts:29`). Nothing is applied twice, but a receipt
  may then stand for an effect that was never made. Two client-side timeouts in a row
  do the same.
* A process that ends between a file's SQL and the row that records it leaves a file to be
  run again. The first files of svc-ordenes (`001_initial.sql:9`, `:68`) and svc-productos
  (`001_initial.sql:50`) cannot be: every start of every replica fails on `CREATE TYPE` or
  `CREATE TRIGGER` until somebody repairs the database (`SqlFails`, `HalfAppliedForGood`,
  `db-migrate/src/index.ts:96-97`).
* `schema_migrations` is made before the advisory lock is taken (`index.ts:57`). Of two
  replicas that start on an empty database, or on one without the checksums, one may fail on
  the table or the column the other has just made; Docker starts it again (`TooLate`).
* A rollback that is cut between the down file and the DELETE leaves a row for a
  migration the schema no longer has, and no start will run it again (`torn`,
  `db-migrate/src/index.ts:121`).
* A signal during `bootstrap` does not stop it: worker, timers and server may start
  after the shutdown has stopped what there was, on a pool that is ended (`early`,
  `index.ts:186`).
* The shutdown clears intervals. It does not wait for a tick of the relay or a run of
  retention under way, nor does it call off retention's first run (`retention.ts:29`, ten
  seconds after the start): both may meet the ended pool, and what they throw there is
  logged or swallowed (`Ticks`, `FirstRun`, `StopsTimers`).
* With a dashboard connected, `app.close` of svc-obs waits for its stream;
  `closeAllConnections` and `eventBus.close` come after it and are not reached, and the
  process is ended by the timer, with exit code 1 and whatever job it had
  (`ClosesServer`, `ForcedExit`). ADR 008 (lines 15 and 43-56) and `docs/runbook.md:513-525`
  describe the drain as complete.
* `docs/runbook.md:519` says `/health/ready` answers 503 while a service drains; only
  svc-obs reads the flag, as ADR 008, line 85, admits (`AnswersReady`).

## 6. Not modelled

* **Data.** Payload contents, messages, SKU and names: no property depends on them.
* **Relay.** The order of the batch (any pending rows may come first) and the retention of
  its rows.
* **Queue.** `publish` and `publishRaw`, which no service calls; BullMQ's statistics; the
  metrics of its events. An order of a hundred lines is a sequence of any length in the
  module, of three lines in the run.
* **Stock.** In `StockService`, `OnOrdenCreada` takes all of its rows in one step, which
  `StockWorker` justifies (`PromesaAtomica`); `StockWorker` in turn leaves movements, alerts
  and releases to it. A release updates its rows one after another, too, and may
  deadlock with a reservation; that is left to the plan.
* **Pools.** A connection breaks during a statement or in the pool, never in between: no
  code in `src/` handles the error event of a client that is lent. `waitForDatabase` is
  part of the start of a process.
* **Processes.** Hooks, plugins and routes are one step. Health routes other than
  readiness only report. A `psql` session that runs a down file by hand takes no lock
  and is not modelled; `validateChecksums` only reads and nothing calls it.
* **Observer.** The history's limit of 50 rows and the pings; a dashboard that reconnects
  is a new connection.
* **Retention.** Only the deletion of idempotency keys is modelled; outbox rows and
  movements are deleted months after anything reads them.
* **The rest.** Authentication and environment checks are stateless; logs, metrics and
  traces are output; the dashboard presents; seeds, nginx and compose files configure
  (Docker's restart policy is in `ServiceProcess`). The catalogue's HTTP client is no
  longer called.

## 7. Plan

What is left, the most consequential first:

1. Retention of the relay's rows.
2. The queue composed with the relay: `Forget` against a re-publication a thousand jobs
   later, and the debt of `DurableDelivery` settled by the handler instead of by
   the queue.
3. Releases in `StockWorker`, with their row locks against reservations'.
4. `TxPool` with the outbox: a handler that also publishes, on the same client.
