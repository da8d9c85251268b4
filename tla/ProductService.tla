--------------------------- MODULE ProductService ---------------------------
(***************************************************************************)
(* svc-productos: the table productos and the events of its three writes.  *)
(*                                                                         *)
(* An event's timestamp is created_at of its outbox row, DEFAULT NOW(),    *)
(* which PostgreSQL fixes when the transaction begins.  A transaction is   *)
(* therefore split at its BEGIN and its COMMIT: two of them may commit in  *)
(* the other order than their timestamps say.                              *)
(***************************************************************************)
EXTENDS Naturals

CONSTANTS
    Producto,   \* product ids
    Precio,     \* prices
    Sembrados,  \* products inserted by seed.ts, which emits no event
    NoFila,     \* no row
    SinCambio,  \* a field an event does not carry
    MaxTx       \* bound: transactions of svc-productos

ASSUME ProductoAssumption ==
    /\ Sembrados \subseteq Producto
    /\ SinCambio \notin Precio \cup BOOLEAN
    /\ NoFila \notin [precio : Precio, activo : BOOLEAN]
    /\ MaxTx \in Nat

VARIABLES
    producto,  \* producto[p]: the row of p
    abiertas,  \* transactions under way: id, product and NOW()
    tx,        \* transactions begun; a transaction's number is its event's id
    reloj,     \* the latest NOW(), in milliseconds
    eventos    \* committed events, with their timestamps

productoVars == <<producto, abiertas, tx, reloj, eventos>>

Fila == [precio : Precio, activo : BOOLEAN]

\* What a PATCH changes; one of the name or the description carries neither.
Cambio == [precio : Precio \cup {SinCambio}, activo : BOOLEAN \cup {SinCambio}]

Evento == [id : 1..MaxTx,
           tipo : {"producto.creado", "producto.actualizado", "producto.eliminado"},
           producto : Producto,
           ts : Nat,
           cambio : Cambio]

ProductoTypeOK ==
    /\ producto \in [Producto -> Fila \cup {NoFila}]
    /\ abiertas \subseteq [id : 1..MaxTx, producto : Producto, ts : Nat]
    /\ tx \in 0..MaxTx
    /\ reloj \in Nat
    /\ eventos \subseteq Evento

ProductoInit ==
    /\ \E precio \in Precio :
          producto = [p \in Producto |->
              IF p \in Sembrados THEN [precio |-> precio, activo |-> TRUE] ELSE NoFila]
    /\ abiertas = {}
    /\ tx = 0
    /\ reloj = 0
    /\ eventos = {}

\* A field of the row after a change that may not carry it.
Tras(actual, nuevo) == IF nuevo = SinCambio THEN actual ELSE nuevo

Aplica(fila, cambio) ==
    [fila EXCEPT !.precio = Tras(@, cambio.precio), !.activo = Tras(@, cambio.activo)]

Emite(t, tipo, cambio) ==
    eventos' = eventos \cup
        {[id |-> t.id, tipo |-> tipo, producto |-> t.producto, ts |-> t.ts, cambio |-> cambio]}

\* BEGIN at the given time.
Empieza(ahora) ==
    /\ tx < MaxTx
    /\ tx' = tx + 1
    /\ reloj' = ahora

\* POST /productos: nobody knows the id before the answer, so nothing comes
\* between BEGIN and COMMIT that concerns p.
CrearProducto(p) ==
    /\ producto[p] = NoFila
    /\ Empieza(reloj + 1)
    /\ \E precio \in Precio :
          /\ producto' = [producto EXCEPT ![p] = [precio |-> precio, activo |-> TRUE]]
          /\ Emite([id |-> tx', producto |-> p, ts |-> reloj'], "producto.creado",
                   [precio |-> precio, activo |-> TRUE])
    /\ UNCHANGED abiertas

\* BEGIN of a PATCH or a DELETE of a product its client knows; two requests may
\* fall into one millisecond, but none into the one that created the product.
Empezar(p) ==
    /\ producto[p] # NoFila
    /\ \E ahora \in {reloj, reloj + 1} :
          /\ \A ev \in eventos :
                ev.producto = p /\ ev.tipo = "producto.creado" => ev.ts < ahora
          /\ Empieza(ahora)
          /\ abiertas' = abiertas \cup {[id |-> tx', producto |-> p, ts |-> ahora]}
    /\ UNCHANGED <<producto, eventos>>

\* PATCH /productos/:id, from the UPDATE, which holds the row until COMMIT.
ActualizarProducto(t, cambio) ==
    /\ producto' = [producto EXCEPT ![t.producto] = Aplica(@, cambio)]
    /\ Emite(t, "producto.actualizado", cambio)
    /\ abiertas' = abiertas \ {t}
    /\ UNCHANGED <<tx, reloj>>

\* DELETE /productos/:id: 404 for a product that is no longer active.
EliminarProducto(t) ==
    /\ producto[t.producto].activo
    /\ LET cambio == [precio |-> SinCambio, activo |-> FALSE]
       IN  /\ producto' = [producto EXCEPT ![t.producto] = Aplica(@, cambio)]
           /\ Emite(t, "producto.eliminado", cambio)
    /\ abiertas' = abiertas \ {t}
    /\ UNCHANGED <<tx, reloj>>

\* ROLLBACK, of a 404 or of an error.
Deshacer(t) ==
    /\ abiertas' = abiertas \ {t}
    /\ UNCHANGED <<producto, tx, reloj, eventos>>

PasoProductos ==
    \/ \E p \in Producto : CrearProducto(p) \/ Empezar(p)
    \/ \E t \in abiertas :
          \/ \E cambio \in Cambio : ActualizarProducto(t, cambio)
          \/ EliminarProducto(t)
          \/ Deshacer(t)
=============================================================================
