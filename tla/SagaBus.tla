------------------------------ MODULE SagaBus ------------------------------
(***************************************************************************)
(* The events of the order saga, as svc-ordenes and svc-stock see them.    *)
(*                                                                         *)
(* An event exists once the transaction that emitted it committed, and     *)
(* from then on may reach its consumer at any time, in any order with the  *)
(* others and any number of times: DurableDelivery owes it to every        *)
(* destination, the queue of the destination retries it, and five jobs of  *)
(* a queue run at once.  An emitted event is therefore never removed here. *)
(***************************************************************************)
EXTENDS Integers, FiniteSets

CONSTANTS
    Orden,        \* order ids
    Producto,     \* product ids
    MaxCantidad   \* bound: units of one product an order may ask for

ASSUME CantidadAssumption == MaxCantidad \in Nat \ {0}

VARIABLES
    emitidos,  \* emitidos[t][o]: how many events of type t exist for order o
    lineas     \* lineas[o]: units per product, as orden.creada carries them

busVars == <<emitidos, lineas>>

\* The events only svc-obs consumes (stock.alerta, stock.ajustado) are left out.
Tipo == {"orden.creada", "orden.confirmada", "orden.cancelada",
         "stock.reservado", "stock.insuficiente", "stock.liberado"}

\* The lines of an order: a product may be on several, at least one unit in all.
Lineas == {l \in [Producto -> 0..MaxCantidad] : \E p \in Producto : l[p] > 0}
SinLineas == [p \in Producto |-> 0]

\* An event: the n-th of its type for its order (its id is a fresh UUID).
Evento == [tipo : Tipo, orden : Orden, n : Nat \ {0}]
Emitido(ev) == ev.n \in 1..emitidos[ev.tipo][ev.orden]

\* The events of a type that exist for an order.
EventosDe(t, o) == {[tipo |-> t, orden |-> o, n |-> n] : n \in 1..emitidos[t][o]}

BusTypeOK ==
    /\ emitidos \in [Tipo -> [Orden -> Nat]]
    /\ lineas \in [Orden -> Lineas \cup {SinLineas}]

BusInit ==
    /\ emitidos = [t \in Tipo |-> [o \in Orden |-> 0]]
    /\ lineas = [o \in Orden |-> SinLineas]

\* publishEvent(..., client): the row of the outbox commits with the caller.
Publica(t, o) == emitidos' = [emitidos EXCEPT ![t][o] = @ + 1]
=============================================================================
