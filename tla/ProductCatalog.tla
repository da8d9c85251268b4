--------------------------- MODULE ProductCatalog ---------------------------
(***************************************************************************)
(* The catalogue svc-ordenes keeps of the products of svc-productos, and   *)
(* the order lines priced from it.  The events of a product reach          *)
(* svc-ordenes in any order and any number of times.                       *)
(***************************************************************************)
EXTENDS ProductService

VARIABLES
    catalogo,   \* catalogo_productos
    recibidos,  \* eventos_recibidos, the catalogue's part
    vendidas    \* product, version and price of the lines in lineas_orden

catalogoVars == <<catalogo, recibidos, vendidas>>
vars == <<productoVars, catalogoVars>>

\* fuente is source_updated_at, evento source_event_id, version version_precio.
Proyeccion == [precio : Precio, activo : BOOLEAN, version : Nat \ {0},
               fuente : Nat, evento : 1..MaxTx]

Linea == [producto : Producto, version : Nat \ {0}, precio : Precio]

ASSUME CatalogoAssumption == NoFila \notin Proyeccion

TypeOK ==
    /\ ProductoTypeOK
    /\ catalogo \in [Producto -> Proyeccion \cup {NoFila}]
    /\ recibidos \subseteq eventos
    /\ vendidas \subseteq Linea

Init ==
    /\ ProductoInit
    /\ catalogo = [p \in Producto |-> NoFila]
    /\ recibidos = {}
    /\ vendidas = {}

\* storeCatalogEvent: isAlreadyProcessed and the change in one transaction.
Recibir(ev) ==
    /\ ev \in eventos \ recibidos
    /\ recibidos' = recibidos \cup {ev}
    /\ UNCHANGED <<productoVars, vendidas>>

\* Mutant of Version: a new price under the old version.
VersionFija(fila, precio) == fila.version

\* version_precio + CASE WHEN precio IS DISTINCT FROM ... THEN 1 ELSE 0 END
Version(fila, precio) == IF precio = fila.precio THEN fila.version ELSE fila.version + 1

\* The row after the changes ev carries.
Proyecta(fila, ev) ==
    LET precio == Tras(fila.precio, ev.cambio.precio)
    IN  [precio |-> precio,
         activo |-> Tras(fila.activo, ev.cambio.activo),
         version |-> Version(fila, precio),
         fuente |-> ev.ts,
         evento |-> ev.id]

\* INSERT ... VALUES (..., 1, ...)
FilaNueva(ev) ==
    [precio |-> ev.cambio.precio, activo |-> ev.cambio.activo, version |-> 1,
     fuente |-> ev.ts, evento |-> ev.id]

\* ON CONFLICT DO UPDATE ... WHERE source_updated_at <= EXCLUDED.source_updated_at
ConCreado(fila, ev) ==
    CASE fila = NoFila -> FilaNueva(ev)
      [] fila # NoFila /\ fila.fuente <= ev.ts -> Proyecta(fila, ev)
      [] OTHER -> fila

OnProductoCreado(ev) ==
    /\ ev.tipo = "producto.creado"
    /\ Recibir(ev)
    /\ catalogo' = [catalogo EXCEPT ![ev.producto] = ConCreado(@, ev)]

\* Mutant of MasReciente: events are applied as they come.
Siempre(fila, ev) == TRUE

\* Not: new Date(rows[0].source_updated_at) >= new Date(event.timestamp)
MasReciente(fila, ev) == fila.fuente < ev.ts

\* onProductoActualizado and onProductoEliminado: without a row they throw, and
\* the rollback also forgets that the event was received.
ConFila(ev) == catalogo[ev.producto] # NoFila

\* Mutant of AplicarCambio: an event without a row is received for nothing.
AplicarSinFila(ev) ==
    /\ Recibir(ev)
    /\ catalogo' = [catalogo EXCEPT ![ev.producto] =
           IF @ # NoFila /\ MasReciente(@, ev) THEN Proyecta(@, ev) ELSE @]

AplicarCambio(ev) ==
    /\ ConFila(ev)
    /\ Recibir(ev)
    /\ catalogo' = [catalogo EXCEPT ![ev.producto] =
           IF MasReciente(@, ev) THEN Proyecta(@, ev) ELSE @]

OnProductoActualizado(ev) == ev.tipo = "producto.actualizado" /\ AplicarCambio(ev)

OnProductoEliminado(ev) == ev.tipo = "producto.eliminado" /\ AplicarCambio(ev)

\* A product can be sold if the catalogue has its row and it is active.
Vendible(p) == catalogo[p] # NoFila /\ catalogo[p].activo

\* POST /ordenes: a line is priced from the catalogue, with the version it read,
\* if the product is active and the client expects that price.  The order is
\* inserted later, by a transaction that does not look at the catalogue again.
CrearLinea(p) ==
    /\ Vendible(p)
    /\ vendidas' = vendidas \cup
           {[producto |-> p, version |-> catalogo[p].version, precio |-> catalogo[p].precio]}
    /\ UNCHANGED <<productoVars, catalogo, recibidos>>

Manejar(ev) ==
    OnProductoCreado(ev) \/ OnProductoActualizado(ev) \/ OnProductoEliminado(ev)

Next ==
    \/ PasoProductos /\ UNCHANGED catalogoVars
    \/ \E ev \in eventos : Manejar(ev)
    \/ \E p \in Producto : CrearLinea(p)

Spec == Init /\ [][Next]_vars

EventosDe(n) == {ev \in eventos : ev.id = n}

\* Every event is handled in the end, if its handler can complete.
FairSpec == Spec /\ \A n \in 1..MaxTx : WF_vars(\E ev \in EventosDe(n) : Manejar(ev))

-----------------------------------------------------------------------------
\* A version names a price: order lines frozen with the same version_precio of
\* a product have the same precio_unitario, and it is the catalogue's price
\* when the catalogue is still at that version (consumer.ts:105-107, :150-151).
VersionIdentificaPrecio ==
    \A l \in vendidas :
        /\ \A m \in vendidas :
              l.producto = m.producto /\ l.version = m.version => l.precio = m.precio
        /\ catalogo[l.producto].version = l.version => catalogo[l.producto].precio = l.precio

\* Whatever the order of arrival, a row is at the newest of the events handled
\* for its product and shows what that event says (consumer.ts:111, :144, :168).
RefiereAlUltimo ==
    /\ \A ev \in recibidos :
          catalogo[ev.producto] # NoFila /\ ev.ts <= catalogo[ev.producto].fuente
    /\ \A p \in Producto : catalogo[p] # NoFila =>
          \E ev \in recibidos :
              /\ ev.id = catalogo[p].evento /\ ev.producto = p /\ ev.ts = catalogo[p].fuente
              /\ ev.cambio.precio \in {catalogo[p].precio, SinCambio}
              /\ ev.cambio.activo \in {catalogo[p].activo, SinCambio}

\* No event waits for ever for a row: each is applied, or a newer one is.
NingunoSeQueda ==
    \A n \in 1..MaxTx :
        EventosDe(n) # {} ~>
            \E ev \in EventosDe(n) :
                ev.producto \notin Sembrados =>
                    catalogo[ev.producto] # NoFila /\ ev.ts <= catalogo[ev.producto].fuente

-----------------------------------------------------------------------------
(* What makes the invariants inductive.                                        *)
CreadoCompleto ==
    \A ev \in eventos : ev.tipo = "producto.creado" => SinCambio \notin {ev.cambio.precio, ev.cambio.activo}

\* A transaction under way is about a row, and rows are never deleted.
AbiertasExisten == \A t \in abiertas : producto[t.producto] # NoFila

\* A line was priced from a row that is still there, at this version or a later one.
LineasDelCatalogo ==
    \A l \in vendidas :
        catalogo[l.producto] # NoFila /\ l.version <= catalogo[l.producto].version

IInv ==
    /\ TypeOK
    /\ VersionIdentificaPrecio
    /\ RefiereAlUltimo
    /\ CreadoCompleto
    /\ AbiertasExisten
    /\ LineasDelCatalogo
=============================================================================
