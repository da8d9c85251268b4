-------------------------- MODULE SlaMonitorProofs --------------------------
(***************************************************************************)
(* The SLA monitor's invariants for any orders, replicas and faults.       *)
(***************************************************************************)
EXTENDS SlaMonitor, TLAPS

\* Nothing is watched, read or locked to begin with.
LEMMA InicioCumple == Init => IInv
<1> SUFFICES ASSUME Init PROVE IInv
  OBVIOUS
<1>1. TypeOK
  <2>1. fallos \in 0..MaxFallos /\ avisos \in [Orden -> Nat]
    BY SlaAssumption DEF Init
  <2>2. pc \in [Replica -> Paso] /\ leidas \in [Replica -> SUBSET Orden]
    BY DEF Init, Paso
  <2> QED BY <2>1, <2>2 DEF Init, TypeOK
<1>2. PendienteSinAviso /\ LeidasSinAviso /\ CandadoDelCheck
  BY DEF Init, PendienteSinAviso, LeidasSinAviso, CandadoDelCheck
<1> QED BY <1>1, <1>2 DEF IInv

\* What a check in memory relies on survives what svc-ordenes does.
LEMMA OrdenesCumple ==
  ASSUME IInv, NEW o \in Orden,
         CrearOrden(o) \/ Vence(o) \/ \E estado \in Resuelta : DecidirOrden(o, estado)
  PROVE  IInv'
BY ZenonT(30) DEF IInv, TypeOK, PendienteSinAviso, LeidasSinAviso, CandadoDelCheck, checks,
       CrearOrden, Vence, DecidirOrden, Resuelta

\* The consumer gives rows only to orders without one, which no check has read,
\* and takes no row back to pendiente.
LEMMA ConsumidorCumple ==
  ASSUME IInv, NEW o \in Orden,
         OnOrdenCreada(o) \/ OnOrdenConfirmada(o) \/ OnOrdenCancelada(o)
  PROVE  IInv'
<1> USE DEF IInv, TypeOK, checks, NuevoEnObs
<1>1. CASE OnOrdenCreada(o)
  BY <1>1 DEF OnOrdenCreada, PendienteSinAviso, LeidasSinAviso, CandadoDelCheck, Tipo, Resuelta
<1>2. ASSUME NEW tipo \in {"orden.confirmada", "orden.cancelada"}, Resolver(tipo, o)
      PROVE  IInv'
  BY <1>2 DEF Resolver, EstadoDe, PendienteSinAviso, LeidasSinAviso, CandadoDelCheck, Tipo, Resuelta
<1> QED BY <1>1, <1>2 DEF OnOrdenConfirmada, OnOrdenCancelada

\* A check starts with the lock, so that no other is at work, or an overrun was
\* seen before.
LEMMA TomarCumple ==
  ASSUME IInv, NEW r \in Replica, Tomar(r)
  PROVE  IInv'
BY SlaAssumption
DEF IInv, TypeOK, tablas, Tomar, Libre, Pasa, Paso, PendienteSinAviso, LeidasSinAviso, CandadoDelCheck

\* The SELECT returns rows that nobody reported yet.
LEMMA LeerCumple ==
  ASSUME IInv, NEW r \in Replica, Leer(r)
  PROVE  IInv'
<1> USE DEF IInv, TypeOK, tablas, Leer, Pasa
<1>1. EnRiesgo \in SUBSET Orden /\ \A o \in EnRiesgo : sla[o] = "pendiente" /\ avisos[o] = 0
  BY DEF EnRiesgo, PendienteSinAviso
<1>2. TypeOK'
  BY <1>1 DEF Paso
<1>3. LeidasSinAviso'
  BY <1>1 DEF LeidasSinAviso
<1> QED BY <1>2, <1>3 DEF PendienteSinAviso, CandadoDelCheck

\* The reported orders are no longer pending, and no other check without an
\* overrun has read them.
LEMMA AvisarCumple ==
  ASSUME IInv, NEW r \in Replica, Avisar(r)
  PROVE  IInv'
<1> USE DEF IInv, TypeOK, Avisar, PublicarAvisos, Pasa
<1>1. \A o \in Orden : /\ Marcada(o) \in {"no", "pendiente", "sla_warning"} \cup Resuelta
                       /\ Marcada(o) # "pendiente"
                       /\ sla[o] # "no" => Marcada(o) # "no"
  BY DEF Marcada, Resuelta
<1>2. TypeOK'
  BY <1>1 DEF Paso
<1>3. PendienteSinAviso'
  BY <1>1 DEF PendienteSinAviso, LeidasSinAviso
<1>4. LeidasSinAviso'
  <2> SUFFICES ASSUME NEW s \in Replica, NEW o \in Orden, o \in leidas'[s]
               PROVE  pc'[s] = "avisar" /\ sla'[o] # "no" /\ (~excedido' => avisos'[o] = 0)
    BY DEF LeidasSinAviso
  <2>1. s # r /\ o \in leidas[s] /\ pc[s] = "avisar" /\ sla[o] # "no"
    BY DEF LeidasSinAviso
  <2>2. excedido
    BY <2>1 DEF CandadoDelCheck
  <2> QED BY <1>1, <2>1, <2>2
<1>5. CandadoDelCheck'
  BY DEF CandadoDelCheck
<1> QED BY <1>2, <1>3, <1>4, <1>5

\* Without an overrun a check that sees its own value deletes its own lock.
LEMMA SoltarCumple ==
  ASSUME IInv, NEW r \in Replica, Consultar(r) \/ Borrar(r)
  PROVE  IInv'
BY DEF IInv, TypeOK, tablas, Consultar, Borrar, Pasa, Paso, PendienteSinAviso, LeidasSinAviso,
       CandadoDelCheck

\* Faults forget what a check had read, and say so when a lock ran out.
LEMMA FallosCumplen ==
  ASSUME IInv, (\E r \in Replica : Fallar(r) \/ Crash(r)) \/ Caducar \/ Exceder
  PROVE  IInv'
<1> USE DEF IInv, TypeOK, tablas
<1>1. ASSUME NEW r \in Replica, Fallar(r) \/ Crash(r) PROVE IInv'
  <2>1. TypeOK'
    BY <1>1, SlaAssumption DEF Fallar, Crash, Paso
  <2> QED BY <1>1, <2>1 DEF Fallar, Crash, PendienteSinAviso, LeidasSinAviso, CandadoDelCheck
<1>2. CASE Caducar
  BY <1>2, SlaAssumption DEF Caducar, PendienteSinAviso, LeidasSinAviso, CandadoDelCheck
<1>3. CASE Exceder
  <2>1. TypeOK'
    BY <1>3, SlaAssumption DEF Exceder
  <2> QED BY <1>3, <2>1 DEF Exceder, PendienteSinAviso, LeidasSinAviso, CandadoDelCheck
<1> QED BY <1>1, <1>2, <1>3

\* Every step keeps the invariant.
LEMMA NextCumple == IInv /\ [Next]_vars => IInv'
<1> SUFFICES ASSUME IInv, [Next]_vars PROVE IInv'
  OBVIOUS
<1>1. CASE UNCHANGED vars
  BY <1>1 DEF vars, tablas, checks, IInv, TypeOK, PendienteSinAviso, LeidasSinAviso, CandadoDelCheck
<1> QED BY <1>1, OrdenesCumple, ConsumidorCumple, TomarCumple, LeerCumple, AvisarCumple,
           SoltarCumple, FallosCumplen DEF Next, CheckSla

\* The inductive invariant holds in every state (sla-checker.ts:43-120).
THEOREM SiempreIInv == Spec => []IInv
BY InicioCumple, NextCumple, PTL DEF Spec

\* Rows, events, lock and checks keep their types.
THEOREM TypeCorrect == Spec => []TypeOK
<1>1. IInv => TypeOK
  BY DEF IInv
<1> QED BY <1>1, SiempreIInv, PTL

\* One check at a time, for any number of replicas (sla-checker.ts:46-50).
THEOREM ChecksNoSolapan == Spec => []UnSoloCheck
<1>1. IInv => UnSoloCheck
  BY DEF IInv, CandadoDelCheck, UnSoloCheck
<1> QED BY <1>1, SiempreIInv, PTL

\* An order is reported at most once without an overrun (sla-checker.ts:83-101).
\* A check that has read an order, and only it, may still report it.
THEOREM AvisoUnico == Spec => []UnAviso
<1> DEFINE I == IInv /\ UnAviso
<1>1. Init => I
  BY InicioCumple DEF Init, UnAviso
<1>2. I /\ [Next]_vars => I'
  <2> SUFFICES ASSUME IInv, UnAviso, [Next]_vars PROVE UnAviso'
    BY NextCumple
  <2>1. excedido \in BOOLEAN /\ (excedido' \/ excedido' = excedido)
    BY DEF Next, CheckSla, CrearOrden, Vence, DecidirOrden, OnOrdenCreada, OnOrdenConfirmada,
           OnOrdenCancelada, Resolver, NuevoEnObs, Tomar, Leer, Avisar, Consultar, Borrar, Fallar,
           Crash, Caducar, Exceder, vars, IInv, TypeOK
  <2>2. CASE \E r \in Replica : Avisar(r)
    BY <2>1, <2>2 DEF Avisar, PublicarAvisos, UnAviso, IInv, TypeOK, LeidasSinAviso
  <2>3. CASE avisos' = avisos
    BY <2>1, <2>3 DEF UnAviso
  <2> QED BY <2>2, <2>3 DEF Next, CheckSla, CrearOrden, Vence, DecidirOrden, OnOrdenCreada,
           OnOrdenConfirmada, OnOrdenCancelada, Resolver, NuevoEnObs, Tomar, Leer, Consultar, Borrar,
           Fallar, Crash, Caducar, Exceder, vars, checks
<1> QED BY <1>1, <1>2, PTL DEF Spec

\* A verdict stays whatever a check read before it (sla-checker.ts:87,
\* consumer.ts:132).
THEOREM VeredictoFirme == Spec => ResueltaEsFinal
<1>1. IInv /\ [Next]_vars => [\A o \in Orden : sla[o] \in Resuelta => sla'[o] = sla[o]]_vars
  <2> SUFFICES ASSUME IInv, Next, NEW o \in Orden, sla[o] \in Resuelta PROVE sla'[o] = sla[o]
    BY DEF vars
  <2>1. CASE \E r \in Replica : Avisar(r)
    BY <2>1 DEF Avisar, Marcada, Resuelta
  <2>2. CASE \E p \in Orden : OnOrdenCreada(p) \/ OnOrdenConfirmada(p) \/ OnOrdenCancelada(p)
    BY <2>2 DEF OnOrdenCreada, OnOrdenConfirmada, OnOrdenCancelada, Resolver, Resuelta, IInv, TypeOK
  <2>3. CASE sla' = sla
    BY <2>3
  <2> QED BY <2>1, <2>2, <2>3 DEF Next, CheckSla, CrearOrden, Vence, DecidirOrden, Tomar, Leer,
           Consultar, Borrar, Fallar, Crash, Caducar, Exceder, tablas
<1> QED BY <1>1, SiempreIInv, PTL DEF Spec, ResueltaEsFinal

-----------------------------------------------------------------------------
(* What a row and a warning say of the order.                                *)

\* A row is of an order that was created, and a verdict in it is the order's own;
\* an order marked as warned has its warning in the outbox, and nobody is warned
\* of, or about to be warned of, an order younger than the threshold.
Veraz ==
    /\ \A o \in Orden :
          /\ sla[o] # "no" => orden[o] # "no"
          /\ sla[o] \in Resuelta => orden[o] = sla[o]
          /\ sla[o] = "sla_warning" => avisos[o] >= 1
          /\ avisos[o] >= 1 => vencida[o]
    /\ \A r \in Replica : \A o \in leidas[r] : vencida[o]

\* An order's verdict is final, and it only gets older.
LEMMA OrdenesVeraces ==
  ASSUME IInv, Veraz, NEW o \in Orden,
         CrearOrden(o) \/ Vence(o) \/ \E estado \in Resuelta : DecidirOrden(o, estado)
  PROVE  Veraz'
<1> USE DEF IInv, TypeOK, Veraz, checks, Resuelta
<1>1. CASE CrearOrden(o) BY <1>1 DEF CrearOrden
<1>2. CASE Vence(o) BY <1>2 DEF Vence
<1>3. ASSUME NEW estado \in Resuelta, DecidirOrden(o, estado) PROVE Veraz'
  BY <1>3 DEF DecidirOrden
<1> QED BY <1>1, <1>2, <1>3

\* The consumer writes what the event says, and the event is of the verdict.
LEMMA ConsumidorVeraz ==
  ASSUME IInv, Veraz, NEW o \in Orden,
         OnOrdenCreada(o) \/ OnOrdenConfirmada(o) \/ OnOrdenCancelada(o)
  PROVE  Veraz'
<1> USE DEF IInv, TypeOK, Veraz, checks, NuevoEnObs, Resuelta
<1>1. CASE OnOrdenCreada(o) BY <1>1 DEF OnOrdenCreada, Emitida
<1>2. CASE OnOrdenConfirmada(o)
  BY <1>2 DEF OnOrdenConfirmada, Resolver, EstadoDe, Emitida
<1>3. CASE OnOrdenCancelada(o)
  BY <1>3 DEF OnOrdenCancelada, Resolver, EstadoDe, Emitida
<1> QED BY <1>1, <1>2, <1>3

\* A check reads overdue orders, and marks and warns of them in one transaction.
LEMMA CheckVeraz ==
  ASSUME IInv, Veraz, NEW r \in Replica, CheckSla(r)
  PROVE  Veraz'
<1> USE DEF IInv, TypeOK, Veraz, tablas, Pasa
<1>1. CASE Tomar(r) \/ Consultar(r) \/ Borrar(r)
  BY <1>1 DEF Tomar, Consultar, Borrar
<1>2. CASE Leer(r)
  <2>1. \A o \in EnRiesgo : vencida[o] BY DEF EnRiesgo
  <2>2. \A q \in Replica : leidas'[q] = IF q = r THEN EnRiesgo ELSE leidas[q]
    BY <1>2 DEF Leer
  <2> QED BY <1>2, <2>1, <2>2 DEF Leer
<1>3. CASE Avisar(r)
  <2>1. \A o \in Orden : avisos'[o] = IF o \in leidas[r] THEN avisos[o] + 1 ELSE avisos[o]
    BY <1>3 DEF Avisar, PublicarAvisos
  <2>2. \A o \in Orden :
           /\ o \notin leidas[r] => sla'[o] = sla[o]
           /\ sla'[o] # sla[o] => o \in leidas[r] /\ sla[o] = "pendiente" /\ sla'[o] = "sla_warning"
    BY <1>3 DEF Avisar, Marcada
  <2>3. ASSUME NEW o \in Orden
        PROVE  /\ sla'[o] # "no" => orden'[o] # "no"
               /\ sla'[o] \in Resuelta => orden'[o] = sla'[o]
               /\ sla'[o] = "sla_warning" => avisos'[o] >= 1
               /\ avisos'[o] >= 1 => vencida'[o]
    <3>1. orden' = orden /\ vencida' = vencida /\ avisos[o] \in Nat BY <1>3 DEF Avisar
    <3>2. CASE o \in leidas[r]
      <4>1. avisos'[o] >= 1 /\ vencida'[o] BY <2>1, <3>1, <3>2
      <4> QED BY <2>2, <3>1, <4>1 DEF Resuelta
    <3>3. CASE o \notin leidas[r] BY <2>1, <2>2, <3>1, <3>3
    <3> QED BY <3>2, <3>3
  <2>4. \A q \in Replica : leidas'[q] \subseteq leidas[q] BY <1>3 DEF Avisar
  <2>5. vencida' = vencida BY <1>3 DEF Avisar
  <2>6. \A q \in Replica : \A o \in leidas'[q] : vencida'[o] BY <2>4, <2>5
  <2> QED BY <2>3, <2>6
<1> QED BY <1>1, <1>2, <1>3 DEF CheckSla

\* Neither a fault nor a lock that runs out says anything of an order.
LEMMA FallosVeraces ==
  ASSUME IInv, Veraz, (\E r \in Replica : Fallar(r) \/ Crash(r)) \/ Caducar \/ Exceder
  PROVE  Veraz'
<1> USE DEF IInv, TypeOK, Veraz, tablas
<1>1. ASSUME NEW r \in Replica, Fallar(r) \/ Crash(r) PROVE Veraz'
  BY <1>1 DEF Fallar, Crash
<1>2. CASE Caducar \/ Exceder BY <1>2 DEF Caducar, Exceder
<1> QED BY <1>1, <1>2

\* What svc-obs says of an order is true of it in svc-ordenes, overruns and
\* crashes included: the two transactions that write ordenes_sla may interleave
\* in any way (sla-checker.ts:62-101, consumer.ts:83-145).
THEOREM SlaVeraz == Spec => []Veraz
<1>1. Init => Veraz BY DEF Init, Veraz, Resuelta
<1>2. IInv /\ Veraz /\ [Next]_vars => Veraz'
  <2> SUFFICES ASSUME IInv, Veraz, [Next]_vars PROVE Veraz' OBVIOUS
  <2>1. CASE UNCHANGED vars BY <2>1 DEF vars, tablas, checks, Veraz
  <2> QED BY <2>1, OrdenesVeraces, ConsumidorVeraz, CheckVeraz, FallosVeraces DEF Next
<1> QED BY <1>1, <1>2, SiempreIInv, PTL DEF Spec

\* The verdict was handled before the row was there, and is not handled again.
Olvidada(o) ==
    /\ sla[o] \in {"pendiente", "sla_warning"}
    /\ \/ orden[o] = "confirmada" /\ <<"orden.confirmada", o>> \in recibidos
       \/ orden[o] = "cancelada" /\ <<"orden.cancelada", o>> \in recibidos

\* An order whose verdict came first is watched for good: no event, check, crash or
\* restart ever resolves its row (consumer.ts:132).
THEOREM OlvidoFirme == Spec => [][\A o \in Orden : Olvidada(o) => Olvidada(o)']_vars
<1>1. IInv /\ [Next]_vars => [\A o \in Orden : Olvidada(o) => Olvidada(o)']_vars
  <2> SUFFICES ASSUME IInv, Next, NEW o \in Orden, Olvidada(o) PROVE Olvidada(o)'
    OBVIOUS
  <2> USE DEF IInv, TypeOK, Olvidada
  <2>1. CASE \E p \in Orden :
              CrearOrden(p) \/ Vence(p) \/ \E estado \in Resuelta : DecidirOrden(p, estado)
    BY <2>1 DEF CrearOrden, Vence, DecidirOrden
  <2>2. CASE \E p \in Orden : OnOrdenCreada(p)
    BY <2>2 DEF OnOrdenCreada, NuevoEnObs
  <2>3. ASSUME NEW p \in Orden, OnOrdenConfirmada(p) \/ OnOrdenCancelada(p)
        PROVE  Olvidada(o)'
    <3>1. p # o
      BY <2>3 DEF OnOrdenConfirmada, OnOrdenCancelada, Resolver, NuevoEnObs, Emitida
    <3> QED BY <2>3, <3>1 DEF OnOrdenConfirmada, OnOrdenCancelada, Resolver, NuevoEnObs
  <2>4. CASE \E r \in Replica : Avisar(r)
    BY <2>4 DEF Avisar, Marcada
  <2>5. CASE UNCHANGED tablas
    BY <2>5 DEF tablas
  <2> QED BY <2>1, <2>2, <2>3, <2>4, <2>5
          DEF Next, CheckSla, Tomar, Leer, Consultar, Borrar, Fallar, Crash, Caducar, Exceder, tablas
<1> QED BY <1>1, SiempreIInv, PTL DEF Spec
=============================================================================
