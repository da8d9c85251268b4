---------------------------- MODULE OrderService ----------------------------
(***************************************************************************)
(* svc-ordenes: the state machine of an order, its two HTTP operations and *)
(* the handlers of the verdicts of svc-stock.  Each operation is one       *)
(* database transaction that holds the order's row.                        *)
(***************************************************************************)
EXTENDS SagaBus

VARIABLES
    orden,             \* orden[o]: estado of the row, "ninguna" when there is none
    recibidosOrdenes   \* eventos_recibidos of svc-ordenes

ordenVars == <<orden, recibidosOrdenes>>

EstadoOrden == {"pendiente", "confirmada", "cancelada"}

OrdenTypeOK ==
    /\ orden \in [Orden -> EstadoOrden \cup {"ninguna"}]
    /\ recibidosOrdenes \subseteq Evento

OrdenInit ==
    /\ orden = [o \in Orden |-> "ninguna"]
    /\ recibidosOrdenes = {}

\* Mutant of TransicionesValidas: a confirmed order may be cancelled.
TransicionesDeMas ==
    [pendiente |-> {"confirmada", "cancelada"}, confirmada |-> {"cancelada"}, cancelada |-> {}]

\* TRANSICIONES_VALIDAS
TransicionesValidas ==
    [pendiente |-> {"confirmada", "cancelada"}, confirmada |-> {}, cancelada |-> {}]

PuedeTransicionar(actual, siguiente) == siguiente \in TransicionesValidas[actual]

\* POST /ordenes: the order, its lines and orden.creada.
CrearOrden(o) ==
    /\ orden[o] = "ninguna"
    /\ orden' = [orden EXCEPT ![o] = "pendiente"]
    /\ \E l \in Lineas : lineas' = [lineas EXCEPT ![o] = l]
    /\ Publica("orden.creada", o)
    /\ UNCHANGED recibidosOrdenes

\* POST /ordenes/:id/cancelar: 404 and 409 change nothing.
CancelarOrden(o) ==
    /\ orden[o] # "ninguna"
    /\ PuedeTransicionar(orden[o], "cancelada")
    /\ orden' = [orden EXCEPT ![o] = "cancelada"]
    /\ Publica("orden.cancelada", o)
    /\ UNCHANGED <<lineas, recibidosOrdenes>>

\* isAlreadyProcessed in the handler's transaction; a duplicate stops here.
NuevoEnOrdenes(ev) == ev \notin recibidosOrdenes

\* Mutant of SigueAbierta: a verdict revives a cancelled order.
NoConfirmada(o) == orden[o] # "confirmada"

\* UPDATE ordenes ... WHERE id = $1 AND estado = 'pendiente'
SigueAbierta(o) == orden[o] = "pendiente"

\* What onStockReservado and onStockInsuficiente share: the verdict counts when
\* the order is still pending, and is only recorded otherwise.
AplicarVeredicto(ev, estado, aviso) ==
    /\ Emitido(ev)
    /\ NuevoEnOrdenes(ev)
    /\ recibidosOrdenes' = recibidosOrdenes \cup {ev}
    /\ \/ /\ SigueAbierta(ev.orden)
          /\ orden' = [orden EXCEPT ![ev.orden] = estado]
          /\ Publica(aviso, ev.orden)
       \/ /\ ~SigueAbierta(ev.orden)
          /\ UNCHANGED <<orden, emitidos>>
    /\ UNCHANGED lineas

OnStockReservado(ev) ==
    /\ ev.tipo = "stock.reservado"
    /\ AplicarVeredicto(ev, "confirmada", "orden.confirmada")

OnStockInsuficiente(ev) ==
    /\ ev.tipo = "stock.insuficiente"
    /\ AplicarVeredicto(ev, "cancelada", "orden.cancelada")
=============================================================================
