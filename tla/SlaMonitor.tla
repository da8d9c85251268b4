----------------------------- MODULE SlaMonitor -----------------------------
(***************************************************************************)
(* svc-obs watching how long orders stay pending: the rows of ordenes_sla, *)
(* which the order events keep, and the check-sla job, which any replica   *)
(* may run while it holds a lock in Redis.                                 *)
(*                                                                         *)
(* A check is two calls to Redis around a READ COMMITTED transaction, and  *)
(* the consumer of events works on the same rows all the while.            *)
(***************************************************************************)
EXTENDS Naturals

CONSTANTS
    Orden,      \* orders
    Replica,    \* replicas of svc-obs, each running one check at a time
    Nadie,      \* the absence of a lock
    MaxFallos   \* bound: crashes, failed transactions and locks that run out under their holder

ASSUME SlaAssumption == Nadie \notin Replica /\ MaxFallos \in Nat

VARIABLES
    orden,      \* the order in svc-ordenes, whose events reach svc-obs
    vencida,    \* creada_en is older than SLA_THRESHOLD_SECONDS
    sla,        \* estado_sla of ordenes_sla, "no" without a row
    recibidos,  \* eventos_recibidos of svc-obs
    avisos,     \* how many sla.warning of the order were committed to the outbox
    candado,    \* whose lockValue is under LOCK_KEY
    pc,         \* where a replica's check is
    leidas,     \* the orders its SELECT returned
    fallos,     \* faults so far
    excedido    \* history: a lock ran out while its holder was still at work

tablas == <<orden, vencida, sla, recibidos>>
checks == <<avisos, candado, pc, leidas>>
vars == <<tablas, checks, fallos, excedido>>

Tipo == {"orden.creada", "orden.confirmada", "orden.cancelada"}
Resuelta == {"confirmada", "cancelada"}
Paso == {"libre", "leer", "avisar", "consultar", "borrar"}

TypeOK ==
    /\ orden \in [Orden -> {"no", "pendiente"} \cup Resuelta]
    /\ vencida \in [Orden -> BOOLEAN]
    /\ sla \in [Orden -> {"no", "pendiente", "sla_warning"} \cup Resuelta]
    /\ recibidos \subseteq Tipo \X Orden
    /\ avisos \in [Orden -> Nat]
    /\ candado \in Replica \cup {Nadie}
    /\ pc \in [Replica -> Paso]
    /\ leidas \in [Replica -> SUBSET Orden]
    /\ fallos \in 0..MaxFallos
    /\ excedido \in BOOLEAN

Init ==
    /\ orden = [o \in Orden |-> "no"]
    /\ vencida = [o \in Orden |-> FALSE]
    /\ sla = [o \in Orden |-> "no"]
    /\ recibidos = {}
    /\ avisos = [o \in Orden |-> 0]
    /\ candado = Nadie
    /\ pc = [r \in Replica |-> "libre"]
    /\ leidas = [r \in Replica |-> {}]
    /\ fallos = 0
    /\ excedido = FALSE

-----------------------------------------------------------------------------
(* svc-ordenes and the clock.                                                *)

CrearOrden(o) ==
    /\ orden[o] = "no"
    /\ orden' = [orden EXCEPT ![o] = "pendiente"]
    /\ UNCHANGED <<vencida, sla, recibidos, checks, fallos, excedido>>

DecidirOrden(o, estado) ==
    /\ orden[o] = "pendiente"
    /\ orden' = [orden EXCEPT ![o] = estado]
    /\ UNCHANGED <<vencida, sla, recibidos, checks, fallos, excedido>>

\* The threshold passes, counted from the order's creation.
Vence(o) ==
    /\ orden[o] # "no" /\ ~vencida[o]
    /\ vencida' = [vencida EXCEPT ![o] = TRUE]
    /\ UNCHANGED <<orden, sla, recibidos, checks, fallos, excedido>>

Emitida(tipo, o) ==
    CASE tipo = "orden.creada" -> orden[o] # "no"
      [] tipo = "orden.confirmada" -> orden[o] = "confirmada"
      [] tipo = "orden.cancelada" -> orden[o] = "cancelada"

-----------------------------------------------------------------------------
(* The consumer of events: each handler is the transaction of storeEvent.    *)

NuevoEnObs(tipo, o) ==
    /\ Emitida(tipo, o)
    /\ <<tipo, o>> \notin recibidos
    /\ recibidos' = recibidos \cup {<<tipo, o>>}
    /\ UNCHANGED <<orden, vencida, checks, fallos, excedido>>

\* INSERT ... ON CONFLICT DO NOTHING
OnOrdenCreada(o) ==
    /\ NuevoEnObs("orden.creada", o)
    /\ sla' = IF sla[o] = "no" THEN [sla EXCEPT ![o] = "pendiente"] ELSE sla

EstadoDe(tipo) == IF tipo = "orden.confirmada" THEN "confirmada" ELSE "cancelada"

\* UPDATE ... WHERE estado_sla IN ('pendiente', 'sla_warning'), which may find no row.
Resolver(tipo, o) ==
    /\ NuevoEnObs(tipo, o)
    /\ sla' = IF sla[o] \in {"pendiente", "sla_warning"}
              THEN [sla EXCEPT ![o] = EstadoDe(tipo)] ELSE sla

OnOrdenConfirmada(o) == Resolver("orden.confirmada", o)

OnOrdenCancelada(o) == Resolver("orden.cancelada", o)

-----------------------------------------------------------------------------
(* The check-sla job.                                                        *)

Pasa(r, paso) == pc[r] = paso[1] /\ pc' = [pc EXCEPT ![r] = paso[2]]

\* Mutant of Libre: the lock is set without NX.
SiempreLibre == TRUE

Libre == candado = Nadie

\* SET key value PX ttl NX; without it the run is skipped.
Tomar(r) ==
    /\ Libre
    /\ Pasa(r, <<"libre", "leer">>)
    /\ candado' = r
    /\ UNCHANGED <<tablas, avisos, leidas, fallos, excedido>>

\* Mutant of EnRiesgo: the age is compared the wrong way round.
EnRiesgoReciente == {o \in Orden : sla[o] = "pendiente" /\ ~vencida[o]}

EnRiesgo == {o \in Orden : sla[o] = "pendiente" /\ vencida[o]}

\* BEGIN and the SELECT, which locks nothing; no rows, no more to do.
Leer(r) ==
    /\ Pasa(r, <<"leer", IF EnRiesgo = {} THEN "consultar" ELSE "avisar">>)
    /\ leidas' = [leidas EXCEPT ![r] = EnRiesgo]
    /\ UNCHANGED <<tablas, avisos, candado, fallos, excedido>>

\* Mutants of Marcada: the UPDATE without AND estado_sla = 'pendiente', and none.
MarcadaSiempre(o) == "sla_warning"
MarcadaNunca(o) == sla[o]

Marcada(o) == IF sla[o] = "pendiente" THEN "sla_warning" ELSE sla[o]

\* A warning of each order goes to the outbox, in the check's own transaction.
PublicarAvisos(os) ==
    avisos' = [o \in Orden |-> IF o \in os THEN avisos[o] + 1 ELSE avisos[o]]

\* The UPDATE sees what was committed since the SELECT and locks what it
\* changes; a warning is published for every row of the SELECT; COMMIT.
Avisar(r) ==
    /\ Pasa(r, <<"avisar", "consultar">>)
    /\ sla' = [o \in Orden |-> IF o \in leidas[r] THEN Marcada(o) ELSE sla[o]]
    /\ PublicarAvisos(leidas[r])
    /\ leidas' = [leidas EXCEPT ![r] = {}]
    /\ UNCHANGED <<orden, vencida, recibidos, candado, fallos, excedido>>

\* The transaction fails and rolls back; finally gives the lock back all the same.
Fallar(r) ==
    /\ pc[r] \in {"leer", "avisar"}
    /\ fallos < MaxFallos
    /\ fallos' = fallos + 1
    /\ pc' = [pc EXCEPT ![r] = "consultar"]
    /\ leidas' = [leidas EXCEPT ![r] = {}]
    /\ UNCHANGED <<tablas, avisos, candado, excedido>>

\* GET key
Consultar(r) ==
    /\ Pasa(r, <<"consultar", IF candado = r THEN "borrar" ELSE "libre">>)
    /\ UNCHANGED <<tablas, avisos, candado, leidas, fallos, excedido>>

\* DEL key, whoever holds it by now.
Borrar(r) ==
    /\ Pasa(r, <<"borrar", "libre">>)
    /\ candado' = Nadie
    /\ UNCHANGED <<tablas, avisos, leidas, fallos, excedido>>

\* The process dies, or Redis rejects GET or DEL.
Crash(r) ==
    /\ pc[r] # "libre"
    /\ fallos < MaxFallos
    /\ fallos' = fallos + 1
    /\ pc' = [pc EXCEPT ![r] = "libre"]
    /\ leidas' = [leidas EXCEPT ![r] = {}]
    /\ UNCHANGED <<tablas, avisos, candado, excedido>>

\* The lock of a replica that crashed, or could not reach Redis, runs out.
Caducar ==
    /\ candado # Nadie /\ pc[candado] = "libre"
    /\ candado' = Nadie
    /\ UNCHANGED <<tablas, avisos, pc, leidas, fallos, excedido>>

\* A check takes longer than LOCK_TTL_MS.
Exceder ==
    /\ candado # Nadie /\ pc[candado] # "libre"
    /\ fallos < MaxFallos
    /\ fallos' = fallos + 1
    /\ excedido' = TRUE
    /\ candado' = Nadie
    /\ UNCHANGED <<tablas, avisos, pc, leidas>>

-----------------------------------------------------------------------------
CheckSla(r) == Tomar(r) \/ Leer(r) \/ Avisar(r) \/ Consultar(r) \/ Borrar(r)

Next ==
    \/ \E o \in Orden :
          \/ CrearOrden(o) \/ Vence(o) \/ \E estado \in Resuelta : DecidirOrden(o, estado)
          \/ OnOrdenCreada(o) \/ OnOrdenConfirmada(o) \/ OnOrdenCancelada(o)
    \/ \E r \in Replica : CheckSla(r) \/ Fallar(r) \/ Crash(r)
    \/ Caducar
    \/ Exceder

Spec == Init /\ [][Next]_vars

\* The repeatable job comes round, a check under way goes on, a TTL runs out.
FairSpec ==
    /\ Spec
    /\ \A r \in Replica : WF_vars(CheckSla(r))
    /\ WF_vars(Caducar)

-----------------------------------------------------------------------------
\* One instance at a time runs the check, as long as no check outlives its lock
\* (sla-checker.ts:46-50, :114-118).
UnSoloCheck ==
    ~excedido => \A r1, r2 \in Replica : pc[r1] # "libre" /\ pc[r2] # "libre" => r1 = r2

\* Then an order is reported once, whatever crashes or fails in between and
\* however often the check runs (sla-checker.ts:71, :83-101).
UnAviso == ~excedido => \A o \in Orden : avisos[o] <= 1

\* A check that read an order as pending never undoes the verdict that came
\* after, and a verdict never replaces another (sla-checker.ts:87, consumer.ts:132).
ResueltaEsFinal == [][\A o \in Orden : sla[o] \in Resuelta => sla'[o] = sla[o]]_vars

\* An order that svc-obs sees pending for too long does not stay so: a verdict
\* arrives or it is marked (sla-checker.ts:41, :62-89).
VencidaSeMarca ==
    \A o \in Orden : sla[o] = "pendiente" /\ vencida[o] ~> sla[o] # "pendiente"

-----------------------------------------------------------------------------
(* What makes the invariants inductive.                                        *)

\* A warned order is no longer a row the check reads.
PendienteSinAviso == \A o \in Orden : sla[o] \in {"no", "pendiente"} => avisos[o] = 0

\* What the check holds in memory has a row, and without an overrun was not
\* reported by anybody else.
LeidasSinAviso ==
    \A r \in Replica, o \in Orden : o \in leidas[r] =>
        /\ pc[r] = "avisar"
        /\ sla[o] # "no"
        /\ ~excedido => avisos[o] = 0

\* The replica at work is the one with the lock.
CandadoDelCheck == ~excedido => \A r \in Replica : pc[r] # "libre" => candado = r

IInv ==
    /\ TypeOK
    /\ PendienteSinAviso
    /\ LeidasSinAviso
    /\ CandadoDelCheck
=============================================================================
