---------------------------- MODULE StockService ----------------------------
(***************************************************************************)
(* svc-stock: stock rows, reservations and low-stock alerts, with the      *)
(* handlers of the order events and the HTTP operations of an operator.    *)
(*                                                                         *)
(* onOrdenCreada and ajustar lock the stock rows they decide on until they *)
(* commit (SELECT ... FOR UPDATE), so each is one step.  onOrdenCancelada  *)
(* reads the reservations with no lock and updates them with a later       *)
(* statement: it is a read, and then a commit or a rollback.               *)
(***************************************************************************)
EXTENDS SagaBus

CONSTANTS
    Umbral,          \* STOCK_ALERTA_UMBRAL
    Delta,           \* deltas an operator may post to /stock/:id/ajustar
    MaxExistencias   \* bound: units of one product brought into the warehouse

ASSUME StockAssumption ==
    /\ Umbral \in Nat \ {0}
    /\ Delta \subseteq Int
    /\ MaxExistencias \in Nat

VARIABLES
    stock,            \* stock[p]: its row, or a zero row that is not there
    reserva,          \* reserva[o]: estado of the rows of reservas of order o
    alerta,           \* alerta[p]: tipo of the unresolved alert, or "ninguna"
    ajustado,         \* ajustado[p]: sum of the movimientos_stock of tipo 'ajuste'
    recibidosStock,   \* eventos_recibidos of svc-stock
    liberando         \* open transactions of onOrdenCancelada, with what they read

stockVars == <<stock, reserva, alerta, ajustado, recibidosStock, liberando>>

\* hallada: the SELECT found active reservations of the order.
Liberacion == [ev : Evento, hallada : BOOLEAN]

StockTypeOK ==
    /\ stock \in [Producto -> [fila : BOOLEAN, disponible : Nat, reservado : Int]]
    /\ reserva \in [Orden -> {"ninguna", "activa", "liberada"}]
    /\ alerta \in [Producto -> {"ninguna", "stock_bajo", "stock_agotado"}]
    /\ ajustado \in [Producto -> Int]
    /\ recibidosStock \subseteq Evento
    /\ liberando \subseteq Liberacion

StockInit ==
    /\ stock = [p \in Producto |-> [fila |-> FALSE, disponible |-> 0, reservado |-> 0]]
    /\ reserva = [o \in Orden |-> "ninguna"]
    /\ alerta = [p \in Producto |-> "ninguna"]
    /\ ajustado = [p \in Producto |-> 0]
    /\ recibidosStock = {}
    /\ liberando = {}

\* Mutant of NuevoEnStock: no check for duplicates.
SinIdempotencia(ev) == TRUE

\* isAlreadyProcessed in the handler's transaction; a duplicate stops here.
NuevoEnStock(ev) == ev \notin recibidosStock

\* Mutant of Suficiente: off by one.
CasiSuficiente(disponible, requerido) == disponible + 1 >= requerido

\* evaluarReserva
Suficiente(disponible, requerido) == disponible >= requerido

\* tipoAlertaStock, for a level under the threshold
TipoAlerta(disponible) == IF disponible = 0 THEN "stock_agotado" ELSE "stock_bajo"

\* Mutant of ConAlertas: decides on the level read before the update.
ConAlertasPrevias(tocados, filas) ==
    [p \in Producto |->
        IF p \in tocados /\ stock[p].disponible < Umbral
        THEN TipoAlerta(stock[p].disponible)
        ELSE alerta[p]]

\* The upsert in alertas_stock for a product of tocados under the threshold.
ConAlertas(tocados, filas) ==
    [p \in Producto |->
        IF p \in tocados /\ filas[p].disponible < Umbral
        THEN TipoAlerta(filas[p].disponible)
        ELSE alerta[p]]

\* Mutant of Trasladar: the other column is forgotten.
TrasladarAMedias(fila, n) == [fila EXCEPT !.disponible = @ - n]

\* Moves n units of a row from disponible to reservado.
Trasladar(fila, n) == [fila EXCEPT !.disponible = @ - n, !.reservado = @ + n]

\* Reserves l[p] units of every product p, and gives them back.
Mover(l) == [p \in Producto |-> Trasladar(stock[p], l[p])]
Devolver(l) == [p \in Producto |-> Trasladar(stock[p], -l[p])]

\* Mutant of RechazarReserva: without the savepoint, the lines that could be
\* reserved stay so.
RechazarReservaAMedias(o) ==
    /\ stock' = Mover([p \in Producto |->
                   IF Suficiente(stock[p].disponible, lineas[o][p]) THEN lineas[o][p] ELSE 0])
    /\ UNCHANGED <<reserva, alerta>>
    /\ Publica("stock.insuficiente", o)

\* Mutant of RechazarReserva: it returns without telling svc-ordenes.
RechazarReservaEnSilencio(o) == UNCHANGED <<stock, reserva, alerta, emitidos>>

\* ROLLBACK TO SAVEPOINT: the stock rows onOrdenCreada had to insert go too.
RechazarReserva(o) ==
    /\ UNCHANGED <<stock, reserva, alerta>>
    /\ Publica("stock.insuficiente", o)

\* onOrdenCreada reserves all the lines of the order or none.
OnOrdenCreada(ev) ==
    LET l == lineas[ev.orden] IN
    /\ ev.tipo = "orden.creada"
    /\ Emitido(ev)
    /\ NuevoEnStock(ev)
    /\ recibidosStock' = recibidosStock \cup {ev}
    /\ \/ /\ \A p \in Producto : Suficiente(stock[p].disponible, l[p])
          /\ stock' = Mover(l)
          /\ reserva' = [reserva EXCEPT ![ev.orden] = "activa"]
          /\ alerta' = ConAlertas({p \in Producto : l[p] > 0}, stock')
          /\ Publica("stock.reservado", ev.orden)
       \/ /\ \E p \in Producto : ~Suficiente(stock[p].disponible, l[p])
          /\ RechazarReserva(ev.orden)
    /\ UNCHANGED <<ajustado, liberando, lineas>>

\* onOrdenCancelada, up to the SELECT of the active reservations.  The event id
\* it inserted keeps a second run of the same event waiting.
LeerReservas(ev) ==
    /\ ev.tipo = "orden.cancelada"
    /\ Emitido(ev)
    /\ NuevoEnStock(ev)
    /\ \A tx \in liberando : tx.ev # ev
    /\ liberando' = liberando \cup {[ev |-> ev, hallada |-> reserva[ev.orden] = "activa"]}
    /\ UNCHANGED <<stock, reserva, alerta, ajustado, recibidosStock, busVars>>

\* UPDATE reservas SET estado = 'liberada' ... WHERE orden_id = $1, whatever the
\* SELECT found.
MarcarLiberada(o) ==
    reserva' = [reserva EXCEPT ![o] = IF @ = "ninguna" THEN @ ELSE "liberada"]

\* The rest of it: only what the SELECT found goes back to disponible.
Liberar(tx) ==
    LET o == tx.ev.orden IN
    /\ liberando' = liberando \ {tx}
    /\ recibidosStock' = recibidosStock \cup {tx.ev}
    /\ MarcarLiberada(o)
    /\ \/ /\ tx.hallada
          /\ stock' = Devolver(lineas[o])
          /\ Publica("stock.liberado", o)
       \/ /\ ~tx.hallada
          /\ UNCHANGED <<stock, emitidos>>
    /\ UNCHANGED <<alerta, ajustado, lineas>>

\* ROLLBACK, or the process dies: the job runs again later.
AbortarLiberacion(tx) ==
    /\ liberando' = liberando \ {tx}
    /\ UNCHANGED <<stock, reserva, alerta, ajustado, recibidosStock, busVars>>

\* onProductoCreado: INSERT INTO stock ... ON CONFLICT DO NOTHING
OnProductoCreado(p) ==
    /\ ~stock[p].fila
    /\ stock' = [stock EXCEPT ![p].fila = TRUE]
    /\ UNCHANGED <<reserva, alerta, ajustado, recibidosStock, liberando, busVars>>

\* POST /stock/:productoId/ajustar: 404 without a row, 409 below zero.
Ajustar(p, delta) ==
    /\ stock[p].fila
    /\ stock[p].disponible + delta >= 0
    /\ ajustado[p] + delta <= MaxExistencias
    /\ stock' = [stock EXCEPT ![p].disponible = @ + delta]
    /\ ajustado' = [ajustado EXCEPT ![p] = @ + delta]
    /\ alerta' = ConAlertas({p}, stock')
    /\ UNCHANGED <<reserva, recibidosStock, liberando, busVars>>

\* PATCH /stock/alertas/:id/resolver
ResolverAlerta(p) ==
    /\ alerta[p] # "ninguna"
    /\ alerta' = [alerta EXCEPT ![p] = "ninguna"]
    /\ UNCHANGED <<stock, reserva, ajustado, recibidosStock, liberando, busVars>>
=============================================================================
