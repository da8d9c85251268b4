----------------------------- MODULE OrderSaga ------------------------------
(***************************************************************************)
(* The order saga: svc-ordenes and svc-stock, each with its own database,  *)
(* joined only by the events of SagaBus.                                   *)
(***************************************************************************)
EXTENDS OrderService, StockService

vars == <<busVars, ordenVars, stockVars>>

Init == BusInit /\ OrdenInit /\ StockInit

\* A step of svc-ordenes leaves the database of svc-stock alone.
PasoOrdenes(o) ==
    /\ \/ CrearOrden(o)
       \/ CancelarOrden(o)
       \/ \E ev \in EventosDe("stock.reservado", o) : OnStockReservado(ev)
       \/ \E ev \in EventosDe("stock.insuficiente", o) : OnStockInsuficiente(ev)
    /\ UNCHANGED stockVars

\* And the other way round.
PasoStock(o) ==
    /\ \/ \E ev \in EventosDe("orden.creada", o) : OnOrdenCreada(ev)
       \/ \E ev \in EventosDe("orden.cancelada", o) : LeerReservas(ev)
       \/ \E tx \in liberando : tx.ev.orden = o /\ (Liberar(tx) \/ AbortarLiberacion(tx))
    /\ UNCHANGED ordenVars

\* The operator's side of svc-stock, and the products of svc-productos.
PasoAlmacen(p) ==
    /\ \/ OnProductoCreado(p)
       \/ \E delta \in Delta : Ajustar(p, delta)
       \/ ResolverAlerta(p)
    /\ UNCHANGED ordenVars

Next ==
    \/ \E o \in Orden : PasoOrdenes(o) \/ PasoStock(o)
    \/ \E p \in Producto : PasoAlmacen(p)

Spec == Init /\ [][Next]_vars

\* The verdict of an order is delivered in the end: DurableDelivery hands every
\* event over, and a job that used up its attempts is retried by an operator.
Veredicto(o) ==
    \/ /\ \E ev \in EventosDe("orden.creada", o) : OnOrdenCreada(ev)
       /\ UNCHANGED ordenVars
    \/ /\ \/ \E ev \in EventosDe("stock.reservado", o) : OnStockReservado(ev)
          \/ \E ev \in EventosDe("stock.insuficiente", o) : OnStockInsuficiente(ev)
       /\ UNCHANGED stockVars

FairSpec == Spec /\ \A o \in Orden : WF_vars(Veredicto(o))

-----------------------------------------------------------------------------
TypeOK == BusTypeOK /\ OrdenTypeOK /\ StockTypeOK

Recibido(t, o) == \E ev \in recibidosStock : ev.tipo = t /\ ev.orden = o

\* A confirmed order holds its units, now and for good: no release, stale or
\* repeated, takes them from it, and no confirmation follows a release.
ConfirmadaTieneReserva ==
    \A o \in Orden : orden[o] = "confirmada" => reserva[o] = "activa"

\* svc-stock gives one verdict per order, once it received the order, and
\* svc-ordenes announces one outcome, the one its row has.
UnVeredicto ==
    \A o \in Orden :
        /\ emitidos["stock.reservado"][o] + emitidos["stock.insuficiente"][o]
             = (IF Recibido("orden.creada", o) THEN 1 ELSE 0)
        /\ emitidos["orden.confirmada"][o] = (IF orden[o] = "confirmada" THEN 1 ELSE 0)
        /\ emitidos["orden.cancelada"][o] = (IF orden[o] = "cancelada" THEN 1 ELSE 0)

\* Units never appear or vanish: what is available and what is reserved add up
\* to what the operators brought in.
UnidadesConservadas ==
    \A p \in Producto : stock[p].disponible + stock[p].reservado = ajustado[p]

\* Units reserved for orders whose verdict was stock.reservado and whose release
\* was not announced: <<o, n>> is the n-th unit of p that order o holds.
Retiene(o) == emitidos["stock.reservado"][o] > 0 /\ emitidos["stock.liberado"][o] = 0
Unidades(p) == {u \in Orden \X (1..MaxCantidad) : Retiene(u[1]) /\ u[2] <= lineas[u[1]][p]}
Retenidas(p) == Cardinality(Unidades(p))

\* reservado is exactly what the announced reservations hold, so that no units
\* are promised twice or given back twice.
ReservadoSegunEventos == \A p \in Producto : stock[p].reservado = Retenidas(p)

\* A step that takes units of a product under the threshold leaves an open alert
\* of the right kind for it.
AlertaAlBajar ==
    [][\A p \in Producto :
          /\ stock'[p].disponible < stock[p].disponible
          /\ stock'[p].disponible < Umbral
          => alerta'[p] = TipoAlerta(stock'[p].disponible)]_vars

-----------------------------------------------------------------------------
(* The saga implements OrderLifecycle: estado is the row of the order, and     *)
(* apartado what svc-stock announced.                                          *)
Apartado ==
    [o \in Orden |->
        IF emitidos["stock.reservado"][o] = 0 THEN "no"
        ELSE IF emitidos["stock.liberado"][o] = 0 THEN "si" ELSE "devuelto"]

Ciclo == INSTANCE OrderLifecycle WITH estado <- orden, apartado <- Apartado

CumpleCiclo == Ciclo!SafeSpec
CicloTermina == Ciclo!Spec

-----------------------------------------------------------------------------
(* What makes the invariants inductive.                                        *)
CreadaUnaVez ==
    \A o \in Orden :
        emitidos["orden.creada"][o] = (IF orden[o] = "ninguna" THEN 0 ELSE 1)

RecibidosExisten ==
    \A ev \in recibidosStock :
        ev.tipo \in {"orden.creada", "orden.cancelada"} /\ Emitido(ev)

\* An order has at most one release under way, for its cancellation, and what it
\* read is still so: only itself can end the reservation.
LiberacionesAbiertas ==
    /\ \A tx \in liberando :
          /\ tx.ev.tipo = "orden.cancelada" /\ Emitido(tx.ev)
          /\ tx.hallada => reserva[tx.ev.orden] = "activa"
    /\ \A t1, t2 \in liberando : t1.ev.orden = t2.ev.orden => t1 = t2

ReservaSegunEventos ==
    \A o \in Orden :
        /\ (reserva[o] = "ninguna") <=> (emitidos["stock.reservado"][o] = 0)
        /\ emitidos["stock.liberado"][o] > 0 => reserva[o] = "liberada"
        /\ reserva[o] = "liberada" => orden[o] = "cancelada"
        /\ orden[o] = "confirmada" => emitidos["stock.reservado"][o] > 0

IInv ==
    /\ TypeOK
    /\ UnVeredicto
    /\ UnidadesConservadas
    /\ CreadaUnaVez
    /\ RecibidosExisten
    /\ LiberacionesAbiertas
    /\ ReservaSegunEventos

\* Relative to IInv: the units an order holds can be counted, as many orders as
\* there may be, because only finitely many were received.
Cuadra == ReservadoSegunEventos /\ \A p \in Producto : IsFiniteSet(Unidades(p))

-----------------------------------------------------------------------------
(* What the documentation says of compensation, and the code does not do.      *)

\* docs/adr/001-db-por-servicio.md:54: orden.cancelada is compensated by
\* stock.liberado.  Once svc-stock worked through both events of a cancelled
\* order it holds nothing for it.
CanceladaSinReserva ==
    \A o \in Orden :
        Recibido("orden.creada", o) /\ Recibido("orden.cancelada", o)
        => reserva[o] # "activa"
=============================================================================
