--------------------------- MODULE ServiceProcess ---------------------------
(***************************************************************************)
(* The life of a service's processes: bootstrap, what it starts,           *)
(* gracefulShutdown on a signal, the exits and the restarts by Docker.     *)
(*                                                                         *)
(* A signal may come during bootstrap, and the two then run side by side,  *)
(* each from await to await.  A step of either is a set of things done     *)
(* before the event loop goes on. Which service it is decides the order of  *)
(* the steps; the processes are replicas of one service, with one          *)
(* database.                                                               *)
(***************************************************************************)
EXTENDS Migrator, Sequences

CONSTANTS
    Busy,       \* bound: processes that are given work and signals and that fail
    MaxWork,    \* bound: kinds of work a process has at a time
    MaxUpsets   \* bound: deaths, signals and rollbacks together

ASSUME ProcessAssumption ==
    /\ Busy \subseteq Process
    /\ MaxWork \in Nat
    /\ MaxUpsets \in Nat

VARIABLES
    life,       \* "up" or "down"
    stopped,    \* Docker was told to stop it
    boot,       \* the step of bootstrap it is at
    halt,       \* the step of gracefulShutdown it is at; 0 before a signal
    app,        \* the HTTP server
    worker,     \* the event bus's worker
    timers,     \* the intervals it has set, and check-sla's worker
    firstRun,   \* the timeout of retention's first run is set
    pool,       \* the connection pool
    doing,      \* the kinds of work under way
    schedule,   \* Redis has the repeatable job check-sla
    early,      \* history: the signal came before bootstrap was through
    unscheduled,\* history: a process ended between removing check-sla and adding it
    upsets

control == <<service, life, stopped, early, upsets>>
clocks == <<timers, firstRun>>
checkSla == <<schedule, unscheduled>>
rest == <<control, boot, halt, app, worker, clocks, pool, doing, checkSla>>
processVars == <<migVars, rest>>

-----------------------------------------------------------------------------
\* bootstrap of each service: what comes before the migrations is waitForDatabase, and
\* "app" is hooks, plugins, routes and the board, whose errors are only logged.
StockBoot == <<{"migrations"}, {"app"}, {"worker", "relay", "retention", "metrics"}, {"listen"}>>
OrdenesBoot == StockBoot
ProductosBoot == <<{"migrations"}, {"app"}, {"relay", "retention", "metrics"}, {"listen"}>>

\* Mutant of ObsBoot: what earlier runs left is removed last.
ObsBootRemovingLast == <<{"migrations"}, {"app"}, {"worker", "relay", "retention"},
                         {"sla", "metrics"}, {"unschedule"}, {"listen"}>>

ObsBoot == <<{"migrations"}, {"app"}, {"worker", "relay", "retention"},
             {"unschedule"}, {"sla", "metrics"}, {"listen"}>>

BootOrder == CASE service = "svc-stock" -> StockBoot
               [] service = "svc-ordenes" -> OrdenesBoot
               [] service = "svc-productos" -> ProductosBoot
               [] service = "svc-obs" -> ObsBoot

\* Mutant of StockShutdown: the pool is ended before the bus is closed.
StockShutdownPoolFirst == <<{"metrics", "relay", "retention"}, {"close"}, {"pool"}, {"bus"}, {"exit"}>>

\* gracefulShutdown of each service
StockShutdown == <<{"metrics", "relay", "retention"}, {"close"}, {"bus"}, {"pool"}, {"exit"}>>
OrdenesShutdown == StockShutdown
ProductosShutdown == StockShutdown
ObsShutdown == <<{"metrics"}, {"sla"}, {"relay", "retention"}, {"close"}, {"bus"}, {"pool"}, {"exit"}>>

ShutdownOrder == CASE service = "svc-stock" -> StockShutdown
                   [] service = "svc-ordenes" -> OrdenesShutdown
                   [] service = "svc-productos" -> ProductosShutdown
                   [] service = "svc-obs" -> ObsShutdown

Timer == {"relay", "retention", "metrics", "sla"}

\* An event, an HTTP exchange (a request or a dashboard's stream), a callback of an
\* interval or of the timeout, a run of check-sla.
Kind == {"event", "exchange", "callback", "check"}
StartedBefore(n) == Timer \cap UNION {BootOrder[i] : i \in 1..(n - 1)}
Started == StartedBefore(Len(BootOrder) + 1)
HasWorker == \E i \in 1..Len(BootOrder) : "worker" \in BootOrder[i]

Booting(p) == life[p] = "up" /\ boot[p] <= Len(BootOrder)
At(p, step) == Booting(p) /\ step \in BootOrder[boot[p]]
Halting(p, step) == halt[p] > 0 /\ step \in ShutdownOrder[halt[p]]

\* A process that is down holds nothing, and only one that was told to stops.
DownIsClean(p) ==
    life[p] = "down" =>
        /\ mig[p] = "idle" /\ lock # p
        /\ boot[p] = 1 /\ halt[p] = 0
        /\ app[p] = "building" /\ worker[p] = "none" /\ timers[p] = {} /\ ~firstRun[p]
        /\ pool[p] = "open" /\ doing[p] = {} /\ ~early[p]
StopsWhenTold(p) == halt[p] > 0 => life[p] = "up" /\ stopped[p]

ProcessTypes ==
    /\ service \in Service
    /\ life \in [Process -> {"up", "down"}]
    /\ stopped \in [Process -> BOOLEAN]
    /\ boot \in [Process -> 1..(Len(BootOrder) + 1)]
    /\ halt \in [Process -> 0..Len(ShutdownOrder)]
    /\ app \in [Process -> {"building", "listening", "closing", "closed"}]
    /\ worker \in [Process -> {"none", "on", "closing", "closed"}]
    /\ timers \in [Process -> SUBSET Started]
    /\ pool \in [Process -> {"open", "ended"}]
    /\ firstRun \in [Process -> BOOLEAN]
    /\ doing \in [Process -> SUBSET Kind]
    /\ early \in [Process -> BOOLEAN]
    /\ schedule \in BOOLEAN
    /\ unscheduled \in BOOLEAN
    /\ upsets \in 0..MaxUpsets

ProcessTypeOK ==
    /\ MigTypeOK
    /\ ProcessTypes
    /\ \A p \in Process : DownIsClean(p) /\ StopsWhenTold(p)

Each(value) == [p \in Process |-> value]

ProcessInit ==
    /\ MigInit
    /\ service \in Service
    /\ life = Each("down")
    /\ stopped = Each(FALSE)
    /\ boot = Each(1)
    /\ halt = Each(0)
    /\ app = Each("building")
    /\ worker = Each("none")
    /\ timers = Each({})
    /\ firstRun = Each(FALSE)
    /\ pool = Each("open")
    /\ doing = Each({})
    /\ early = Each(FALSE)
    /\ schedule = FALSE
    /\ unscheduled = FALSE
    /\ upsets = 0

-----------------------------------------------------------------------------
\* The container starts: restart unless-stopped does it after any exit, an operator
\* after a stop.
Starts(p) ==
    /\ life[p] = "down"
    /\ life' = [life EXCEPT ![p] = "up"]
    /\ stopped' = [stopped EXCEPT ![p] = FALSE]
    /\ UNCHANGED <<migVars, service, upsets, early, boot, halt, app, worker, clocks, pool, doing, checkSla>>

Restart(p) == ~stopped[p] /\ Starts(p)
OperatorStarts(p) == stopped[p] /\ Starts(p)

\* All of the process goes, and its session with the database.
Exits(p) ==
    /\ life' = [life EXCEPT ![p] = "down"]
    /\ boot' = [boot EXCEPT ![p] = 1]
    /\ halt' = [halt EXCEPT ![p] = 0]
    /\ app' = [app EXCEPT ![p] = "building"]
    /\ worker' = [worker EXCEPT ![p] = "none"]
    /\ timers' = [timers EXCEPT ![p] = {}]
    /\ firstRun' = [firstRun EXCEPT ![p] = FALSE]
    /\ pool' = [pool EXCEPT ![p] = "open"]
    /\ doing' = [doing EXCEPT ![p] = {}]
    /\ early' = [early EXCEPT ![p] = FALSE]
    /\ unscheduled' = (unscheduled \/ At(p, "sla"))
    /\ EndSession(p)
    /\ UNCHANGED <<stopped, service, schedule>>

\* The process is killed, or a step of bootstrap fails: catch, exit(1).
Dies(p) ==
    /\ p \in Busy
    /\ life[p] = "up"
    /\ upsets < MaxUpsets
    /\ upsets' = upsets + 1
    /\ Exits(p)

\* bootstrap throws of itself: a statement of the migrator fails or it refuses a row, or
\* the server is being closed.
BootThrows(p) ==
    /\ \/ At(p, "migrations") /\ (TooLate(p) \/ Refuses(p) \/ SqlFails(p))
       \/ At(p, "app") /\ app[p] # "building"
       \/ At(p, "listen") /\ app[p] # "building"
    /\ Exits(p)
    /\ UNCHANGED upsets

NextStep(p) == boot' = [boot EXCEPT ![p] = @ + 1]

Migrates(p) ==
    /\ At(p, "migrations")
    /\ runMigrations(p)
    /\ UNCHANGED rest

WaitsItsTurn(p) ==
    /\ At(p, "migrations")
    /\ TakeLock(p)
    /\ UNCHANGED rest

\* runMigrations is through; hooks, plugins and routes, which Fastify refuses once it is
\* closed.
Prepares(p) ==
    /\ \/ At(p, "migrations") /\ mig[p] = "done"
       \/ At(p, "app") /\ app[p] # "closed"
    /\ NextStep(p)
    /\ UNCHANGED <<migVars, control, halt, app, worker, clocks, pool, doing, checkSla>>

\* The worker and the timers that need no await of their own, and the timeout of
\* retention's first run.
StartsWork(p) ==
    /\ Booting(p)
    /\ "relay" \in BootOrder[boot[p]]
    /\ worker' = IF At(p, "worker") THEN [worker EXCEPT ![p] = "on"] ELSE worker
    /\ timers' = [timers EXCEPT ![p] = @ \cup (BootOrder[boot[p]] \cap Timer)]
    /\ firstRun' = [firstRun EXCEPT ![p] = TRUE]
    /\ NextStep(p)
    /\ UNCHANGED <<migVars, control, halt, app, pool, doing, checkSla>>

\* startSlaChecker removes the repeatable jobs that are there, whoever added them ...
RemovesSchedule(p) ==
    /\ At(p, "unschedule")
    /\ schedule' = FALSE
    /\ NextStep(p)
    /\ UNCHANGED <<migVars, control, halt, app, worker, clocks, pool, doing, unscheduled>>

\* ... and adds its own; the metrics start with its worker.
startSlaChecker(p) ==
    /\ At(p, "sla")
    /\ schedule' = TRUE
    /\ unscheduled' = FALSE
    /\ timers' = [timers EXCEPT ![p] = @ \cup {"sla", "metrics"}]
    /\ NextStep(p)
    /\ UNCHANGED <<migVars, control, halt, app, worker, firstRun, pool, doing>>

Listens(p) ==
    /\ At(p, "listen")
    /\ app[p] = "building"
    /\ app' = [app EXCEPT ![p] = "listening"]
    /\ NextStep(p)
    /\ UNCHANGED <<migVars, control, halt, worker, clocks, pool, doing, checkSla>>

bootstrap(p) ==
    \/ Prepares(p) \/ Migrates(p) \/ StartsWork(p) \/ RemovesSchedule(p) \/ startSlaChecker(p)
    \/ Listens(p) \/ BootThrows(p)

-----------------------------------------------------------------------------
\* SIGTERM of docker stop; a second signal returns at once.
Signal(p) ==
    /\ p \in Busy
    /\ life[p] = "up"
    /\ halt[p] = 0
    /\ upsets < MaxUpsets
    /\ upsets' = upsets + 1
    /\ halt' = [halt EXCEPT ![p] = 1]
    /\ stopped' = [stopped EXCEPT ![p] = TRUE]
    /\ early' = [early EXCEPT ![p] = Booting(p)]
    /\ UNCHANGED <<migVars, service, life, boot, app, worker, clocks, pool, doing, checkSla>>

NextHalt(p) == halt' = [halt EXCEPT ![p] = @ + 1]

\* clearInterval, for the intervals there are by now: no callback under way is waited
\* for, and the timeout stays.
StopsTimers(p) ==
    /\ \E t \in Timer \ {"sla"} : Halting(p, t)
    /\ timers' = [timers EXCEPT ![p] = @ \ ShutdownOrder[halt[p]]]
    /\ NextHalt(p)
    /\ UNCHANGED <<migVars, control, boot, app, worker, firstRun, pool, doing, checkSla>>

\* stopSlaChecker: its worker takes no job any more and ends its own.
StopsChecks(p) ==
    /\ Halting(p, "sla")
    /\ \/ /\ "sla" \in timers[p]
          /\ timers' = [timers EXCEPT ![p] = @ \ {"sla"}]
          /\ UNCHANGED halt
       \/ /\ "sla" \notin timers[p]
          /\ "check" \notin doing[p]
          /\ NextHalt(p)
          /\ UNCHANGED timers
    /\ UNCHANGED <<migVars, control, boot, app, worker, firstRun, pool, doing, checkSla>>

\* app.close takes no connection any more and waits for those that are answered, event
\* streams too; only then come closeAllConnections and the bus.
ClosesServer(p) ==
    /\ Halting(p, "close")
    /\ \/ /\ app[p] \in {"building", "listening"}
          /\ app' = [app EXCEPT ![p] = "closing"]
          /\ UNCHANGED halt
       \/ /\ app[p] = "closing"
          /\ "exchange" \notin doing[p]
          /\ app' = [app EXCEPT ![p] = "closed"]
          /\ NextHalt(p)
    /\ UNCHANGED <<migVars, control, boot, worker, clocks, pool, doing, checkSla>>

\* eventBus.close: the worker, if there is one, takes no job any more and ends its own.
ClosesBus(p) ==
    /\ Halting(p, "bus")
    /\ \/ /\ worker[p] = "on"
          /\ worker' = [worker EXCEPT ![p] = "closing"]
          /\ UNCHANGED halt
       \/ /\ worker[p] = "closing"
          /\ "event" \notin doing[p]
          /\ worker' = [worker EXCEPT ![p] = "closed"]
          /\ NextHalt(p)
       \/ /\ worker[p] = "none"
          /\ NextHalt(p)
          /\ UNCHANGED worker
    /\ UNCHANGED <<migVars, control, boot, app, clocks, pool, doing, checkSla>>

EndsPool(p) ==
    /\ Halting(p, "pool")
    /\ pool' = [pool EXCEPT ![p] = "ended"]
    /\ NextHalt(p)
    /\ UNCHANGED <<migVars, control, boot, app, worker, clocks, doing, checkSla>>

ExitsInOrder(p) == Halting(p, "exit") /\ Exits(p) /\ UNCHANGED upsets

gracefulShutdown(p) ==
    \/ StopsTimers(p) \/ StopsChecks(p)
    \/ ClosesServer(p) \/ ClosesBus(p) \/ EndsPool(p) \/ ExitsInOrder(p)

\* Mutant of ForcedExit: the timer is cleared when the drain begins.
NeverForced(p) == FALSE /\ Exits(p) /\ UNCHANGED upsets

\* The ten seconds are over.
ForcedExit(p) == halt[p] > 0 /\ Exits(p) /\ UNCHANGED upsets

-----------------------------------------------------------------------------
\* What the process is given to do, and does.
Begins(p, kind) ==
    /\ p \in Busy
    /\ kind \notin doing[p]
    /\ Cardinality(doing[p]) < MaxWork
    /\ doing' = [doing EXCEPT ![p] = @ \cup {kind}]

OnlyWorkMoves == UNCHANGED <<migVars, control, boot, halt, app, worker, timers, pool, checkSla>>

TakesJob(p) == worker[p] = "on" /\ Begins(p, "event") /\ OnlyWorkMoves /\ UNCHANGED firstRun

Accepts(p) == app[p] = "listening" /\ Begins(p, "exchange") /\ OnlyWorkMoves /\ UNCHANGED firstRun

Checks(p) == "sla" \in timers[p] /\ Begins(p, "check") /\ OnlyWorkMoves /\ UNCHANGED firstRun

\* A callback of the relay, of retention or of the metrics ...
Ticks(p) ==
    /\ timers[p] \cap {"relay", "retention", "metrics"} # {}
    /\ Begins(p, "callback")
    /\ OnlyWorkMoves
    /\ UNCHANGED firstRun

\* ... and retention's first run, which nothing calls off.
FirstRun(p) ==
    /\ firstRun[p]
    /\ Begins(p, "callback")
    /\ firstRun' = [firstRun EXCEPT ![p] = FALSE]
    /\ OnlyWorkMoves

\* The work is done, for better or worse, or the browser ends its stream; that may never
\* happen.
Ends(p) ==
    /\ \E kind \in doing[p] : doing' = [doing EXCEPT ![p] = @ \ {kind}]
    /\ OnlyWorkMoves
    /\ UNCHANGED firstRun

OperatorRollsBack ==
    /\ upsets < MaxUpsets
    /\ upsets' = upsets + 1
    /\ RollbackBegins
    /\ UNCHANGED <<service, life, stopped, early, boot, halt, app, worker, clocks, pool, doing, checkSla>>

Work(p) ==
    TakesJob(p) \/ Accepts(p) \/ Checks(p) \/ Ticks(p) \/ FirstRun(p) \/ Ends(p)

ProcessNext ==
    \/ \E p \in Process :
          \/ Restart(p) \/ OperatorStarts(p) \/ Dies(p)
          \/ bootstrap(p) \/ WaitsItsTurn(p)
          \/ Signal(p) \/ gracefulShutdown(p) \/ ForcedExit(p)
          \/ Work(p)
    \/ OperatorRollsBack
    \/ OperatorMakesTable /\ UNCHANGED rest
    \/ rollbackLastMigration /\ UNCHANGED rest

ProcessSpec == ProcessInit /\ [][ProcessNext]_processVars

\* The event loop runs what is ready and its timers, Docker restarts what exited,
\* PostgreSQL serves those that wait for a lock in turn, and an operator's session does
\* not last for ever.  Work need not end.
ProcessFairSpec ==
    /\ ProcessSpec
    /\ \A p \in Process :
          /\ WF_processVars(Restart(p) \/ bootstrap(p))
          /\ SF_processVars(WaitsItsTurn(p))
          /\ WF_processVars(ForcedExit(p))
    /\ WF_processVars(rollbackLastMigration /\ UNCHANGED rest)

-----------------------------------------------------------------------------
\* GET /health/ready of svc-stock, svc-ordenes and svc-productos; svc-obs looks at
\* isShuttingDown, too.
Ready(p) == life[p] = "up" /\ app[p] = "listening" /\ pool[p] = "open"
ReadyUnlessDraining(p) == halt[p] = 0 /\ Ready(p)
AnswersReady(p) == IF service = "svc-obs" THEN ReadyUnlessDraining(p) ELSE Ready(p)

\* A replica that says it is ready has all of its build's migrations in the schema, as
\* its files have them, its worker, and, until a signal, every timer.  After an
\* operator's rollback under its feet only the worker and the timers are sure.
ReadyIsWhole ==
    \A p \in Process : AnswersReady(p) =>
        /\ p \notin outdated => Migrated(p)
        /\ HasWorker => worker[p] = "on"
        /\ halt[p] = 0 => timers[p] = Started

\* db-migrate index.ts:59: once the table is there, replicas that start at once do not make
\* one another fail.  Who goes down had a fault or a signal, an edited file, a file that
\* somebody's end left half applied or a rollback half undone; or another session made the
\* table just before it, which no lock is held for (index.ts:57).
BootFailsForACause ==
    [][\A p \in Process : life[p] = "up" /\ life'[p] = "down" =>
          halt[p] > 0 \/ upsets' > upsets \/ Mismatch(p) \/ Obstacle(p) \/ TooLate(p)]_processVars

\* index.ts, gracefulShutdown: no event is handled, no request answered, no check run and no
\* interval set on a pool that was ended, if the signal came after bootstrap.  Callbacks may
\* be: nobody waits for those under way, and retention's first run is not called off.
PoolOutlivesWork ==
    \A p \in Process : pool[p] = "ended" /\ ~early[p] =>
        timers[p] = {} /\ doing[p] \subseteq {"callback"}

\* sla-checker.ts:34: while a replica of svc-obs listens, check-sla is scheduled or a
\* replica is about to; unless the last one to start ended between the two calls.
SlaIsScheduled ==
    service = "svc-obs" /\ (\E p \in Process : app[p] = "listening") =>
        schedule \/ unscheduled \/ \E p \in Process : At(p, "sla")

\* Where a process is to get: it listens, or it is down and was told to be; or its file is
\* not the one that was applied, or the SQL of one may fail on what was left half done.
Settled(p) ==
    \/ app[p] = "listening" /\ halt[p] = 0
    \/ life[p] = "down" /\ stopped[p]
    \/ (Mismatch(p) \/ Obstacle(p)) /\ halt[p] = 0

\* gracefulShutdown and docker-compose.yml, restart: a process that was told to stop ends,
\* also when an event stream stays open, and one that starts or went down by itself gets
\* to listen, however often it fails on the way.
EndsOrComesBack == \A p \in Process : []<>Settled(p)

-----------------------------------------------------------------------------
(* What makes the invariants inductive.                                        *)

\* The steps of bootstrap and of gracefulShutdown that a process has behind it.
Passed(p, step) == \E i \in 1..(boot[p] - 1) : step \in BootOrder[i]
Drained(p, step) == \E i \in 1..(halt[p] - 1) : step \in ShutdownOrder[i]
Reached(p, step) == Halting(p, step) \/ Drained(p, step)

BootBehind(p) ==
    /\ boot[p] > 1 => mig[p] = "done"
    /\ worker[p] # "none" <=> Passed(p, "worker")
    /\ halt[p] = 0 => timers[p] = StartedBefore(boot[p])
    /\ app[p] = "listening" => Passed(p, "listen")

HaltBehind(p) ==
    /\ app[p] \in {"closing", "closed"} => Reached(p, "close")
    /\ Drained(p, "close") => app[p] = "closed"
    /\ worker[p] \in {"closing", "closed"} => Reached(p, "bus")
    /\ pool[p] = "ended" => Drained(p, "pool")
    /\ "exchange" \in doing[p] => app[p] \in {"listening", "closing"}
    /\ "event" \in doing[p] => worker[p] \in {"on", "closing"}
    /\ "check" \in doing[p] => "sla" \in Started

\* When bootstrap was through before the signal, what is drained stays so.
DrainsForGood(p) ==
    ~early[p] =>
        /\ halt[p] > 0 => boot[p] > Len(BootOrder)
        /\ \A i \in 1..(halt[p] - 1) : timers[p] \cap ShutdownOrder[i] = {}
        /\ Drained(p, "bus") => worker[p] \in {"none", "closed"}
        /\ "check" \in doing[p] => ~Drained(p, "sla")

ScheduleFollows ==
    service = "svc-obs" /\ (\E p \in Process : Passed(p, "sla")) =>
        schedule \/ unscheduled \/ \E p \in Process : At(p, "sla")

ProcessInv ==
    /\ ProcessTypeOK
    /\ MigInv
    /\ \A p \in Process : BootBehind(p) /\ HaltBehind(p) /\ DrainsForGood(p)
    /\ ScheduleFollows
=============================================================================
