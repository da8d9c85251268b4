------------------------ MODULE ProductCatalogProofs ------------------------
(***************************************************************************)
(* The catalogue's invariants for any products, prices and events.         *)
(***************************************************************************)
EXTENDS ProductCatalog, TLAPS

\* The tables start without events, rows or lines.
LEMMA InicioCumple == Init => IInv
<1> SUFFICES ASSUME Init PROVE IInv
  OBVIOUS
<1>1. TypeOK
  BY ProductoAssumption
  DEF Init, ProductoInit, TypeOK, ProductoTypeOK, Fila
<1>2. VersionIdentificaPrecio /\ RefiereAlUltimo /\ CreadoCompleto /\ AbiertasExisten
        /\ LineasDelCatalogo
  BY DEF Init, ProductoInit, VersionIdentificaPrecio, RefiereAlUltimo, CreadoCompleto,
         AbiertasExisten, LineasDelCatalogo
<1> QED BY <1>1, <1>2 DEF IInv

\* A change to a row of productos gives a row again.
LEMMA AplicaEsFila ==
  ASSUME NEW fila \in Fila, NEW cambio \in Cambio
  PROVE  Aplica(fila, cambio) \in Fila
BY ProductoAssumption DEF Aplica, Tras, Fila, Cambio

\* A row is never the absence of one.
LEMMA FilaNoEsNoFila == NoFila \notin Fila
BY ProductoAssumption DEF Fila

\* Creating a product keeps the product side's types and invariants.
LEMMA CrearProductoCumple ==
  ASSUME IInv, NEW p \in Producto, CrearProducto(p)
  PROVE  /\ ProductoTypeOK'
         /\ eventos \subseteq eventos'
         /\ CreadoCompleto'
         /\ AbiertasExisten'
<1> USE DEF IInv, TypeOK, ProductoTypeOK
<1>1. PICK precio \in Precio :
        /\ producto' = [producto EXCEPT ![p] = [precio |-> precio, activo |-> TRUE]]
        /\ Emite([id |-> tx', producto |-> p, ts |-> reloj'], "producto.creado",
                 [precio |-> precio, activo |-> TRUE])
  BY DEF CrearProducto
<1>2. tx' = tx + 1 /\ tx < MaxTx /\ reloj' = reloj + 1 /\ abiertas' = abiertas
  BY DEF CrearProducto, Empieza
<1>3. tx' \in 0..MaxTx /\ tx' \in 1..MaxTx /\ reloj' \in Nat
  BY <1>2, ProductoAssumption
<1>4. [precio |-> precio, activo |-> TRUE] \in Cambio /\ [precio |-> precio, activo |-> TRUE] \in Fila
  BY DEF Cambio, Fila
<1> DEFINE ev == [id |-> tx', tipo |-> "producto.creado", producto |-> p, ts |-> reloj',
                  cambio |-> [precio |-> precio, activo |-> TRUE]]
<1>5. eventos' = eventos \cup {ev}
  BY <1>1 DEF Emite
<1>6. ev \in Evento
  BY <1>3, <1>4 DEF Evento
<1>7. producto' \in [Producto -> Fila \cup {NoFila}]
  BY <1>1, <1>4
<1>8. precio # SinCambio /\ TRUE # SinCambio
  BY ProductoAssumption
<1>9. CreadoCompleto'
  <2> SUFFICES ASSUME NEW e \in eventos', e.tipo = "producto.creado"
               PROVE  e.cambio.precio # SinCambio /\ e.cambio.activo # SinCambio
    BY DEF CreadoCompleto
  <2>1. CASE e \in eventos
    BY <2>1 DEF CreadoCompleto
  <2>2. CASE e = ev
    BY <2>2, <1>8
  <2> QED BY <1>5, <2>1, <2>2
<1>10. AbiertasExisten'
  BY <1>1, <1>2, <1>4, FilaNoEsNoFila DEF AbiertasExisten
<1> HIDE DEF ev
<1> QED BY <1>2, <1>3, <1>5, <1>6, <1>7, <1>9, <1>10

\* So does the BEGIN of a transaction on a row.
LEMMA EmpezarCumple ==
  ASSUME IInv, NEW p \in Producto, Empezar(p)
  PROVE  /\ ProductoTypeOK'
         /\ eventos \subseteq eventos'
         /\ CreadoCompleto'
         /\ AbiertasExisten'
<1> USE DEF IInv, TypeOK, ProductoTypeOK
<1>1. PICK ahora \in {reloj, reloj + 1} :
        Empieza(ahora) /\ abiertas' = abiertas \cup {[id |-> tx', producto |-> p, ts |-> ahora]}
  BY DEF Empezar
<1>2. tx' \in 0..MaxTx /\ tx' \in 1..MaxTx /\ reloj' \in Nat /\ ahora \in Nat
  BY <1>1, ProductoAssumption DEF Empieza
<1>3. producto[p] # NoFila /\ UNCHANGED <<producto, eventos>>
  BY DEF Empezar
<1> QED BY <1>1, <1>2, <1>3 DEF CreadoCompleto, AbiertasExisten

\* So does the COMMIT of a change to a row.
LEMMA CambiarCumple ==
  ASSUME IInv, NEW t \in abiertas, NEW cambio \in Cambio,
         NEW tipo \in {"producto.actualizado", "producto.eliminado"},
         producto' = [producto EXCEPT ![t.producto] = Aplica(@, cambio)],
         Emite(t, tipo, cambio), abiertas' = abiertas \ {t}, UNCHANGED <<tx, reloj>>
  PROVE  /\ ProductoTypeOK'
         /\ eventos \subseteq eventos'
         /\ CreadoCompleto'
         /\ AbiertasExisten'
<1> USE DEF IInv, TypeOK, ProductoTypeOK
<1>1. t.producto \in Producto /\ t.id \in 1..MaxTx /\ t.ts \in Nat
  OBVIOUS
<1>2. producto[t.producto] \in Fila
  BY <1>1 DEF AbiertasExisten
<1>3. Aplica(producto[t.producto], cambio) \in Fila
  BY <1>2, AplicaEsFila
<1>4. producto' \in [Producto -> Fila \cup {NoFila}]
  BY <1>3
<1>5. eventos' \subseteq Evento
  BY <1>1 DEF Emite, Evento
<1>6. CreadoCompleto'
  BY DEF CreadoCompleto, Emite
<1>7. AbiertasExisten'
  BY <1>1, <1>3, FilaNoEsNoFila DEF AbiertasExisten
<1> QED BY <1>4, <1>5, <1>6, <1>7 DEF Emite

\* svc-productos only adds events, and a creation carries price and activity.
LEMMA ProductosCumple ==
  ASSUME IInv, PasoProductos
  PROVE  /\ ProductoTypeOK'
         /\ eventos \subseteq eventos'
         /\ CreadoCompleto'
         /\ AbiertasExisten'
<1>1. ASSUME NEW t \in abiertas, NEW cambio \in Cambio, ActualizarProducto(t, cambio)
      PROVE  ProductoTypeOK' /\ eventos \subseteq eventos' /\ CreadoCompleto' /\ AbiertasExisten'
  BY <1>1, CambiarCumple DEF ActualizarProducto
<1>2. ASSUME NEW t \in abiertas, EliminarProducto(t)
      PROVE  ProductoTypeOK' /\ eventos \subseteq eventos' /\ CreadoCompleto' /\ AbiertasExisten'
  <2>1. [precio |-> SinCambio, activo |-> FALSE] \in Cambio
    BY DEF Cambio
  <2> QED BY <1>2, <2>1, CambiarCumple DEF EliminarProducto
<1>3. ASSUME NEW t \in abiertas, Deshacer(t)
      PROVE  ProductoTypeOK' /\ eventos \subseteq eventos' /\ CreadoCompleto' /\ AbiertasExisten'
  BY <1>3 DEF Deshacer, IInv, TypeOK, ProductoTypeOK, CreadoCompleto, AbiertasExisten
<1> QED BY <1>1, <1>2, <1>3, CrearProductoCumple, EmpezarCumple DEF PasoProductos
\* What a handled event leaves of its product's row: price and activity of the
\* event where it carries them, a version that grows with the price, and the
\* event's number and timestamp.
LEMMA ProyectaRenueva ==
  ASSUME IInv, NEW ev \in eventos, NEW fila \in Proyeccion
  PROVE  LET nueva == Proyecta(fila, ev)
         IN  /\ nueva \in Proyeccion
             /\ nueva.fuente = ev.ts /\ nueva.evento = ev.id
             /\ ev.cambio.precio \in {nueva.precio, SinCambio}
             /\ ev.cambio.activo \in {nueva.activo, SinCambio}
             /\ fila.version <= nueva.version
             /\ nueva.version = fila.version => nueva.precio = fila.precio
<1> DEFINE precio == Tras(fila.precio, ev.cambio.precio)
           activo == Tras(fila.activo, ev.cambio.activo)
<1>1. ev.id \in 1..MaxTx /\ ev.ts \in Nat /\ ev.cambio \in Cambio
  BY DEF IInv, TypeOK, ProductoTypeOK, Evento
<1>2. precio \in Precio /\ ev.cambio.precio \in {precio, SinCambio}
  BY <1>1 DEF Cambio, Tras, Proyeccion
<1>3. activo \in BOOLEAN /\ ev.cambio.activo \in {activo, SinCambio}
  BY <1>1 DEF Cambio, Tras, Proyeccion
<1>4. /\ Version(fila, precio) \in Nat \ {0}
      /\ fila.version <= Version(fila, precio)
      /\ Version(fila, precio) = fila.version => precio = fila.precio
  BY <1>2 DEF Version, Proyeccion
<1>5. Proyecta(fila, ev) = [precio |-> precio, activo |-> activo, version |-> Version(fila, precio),
                            fuente |-> ev.ts, evento |-> ev.id]
  BY DEF Proyecta
<1> HIDE DEF precio, activo
<1> QED BY <1>1, <1>2, <1>3, <1>4, <1>5 DEF Proyeccion

\* What is left of a row once a handler is through with it, in the terms of the
\* invariants: it is there, not older than the event and not behind the old
\* version; if it changed it shows the event.
Renovada(fila, nueva, ev) ==
    /\ nueva \in Proyeccion
    /\ ev.ts <= nueva.fuente
    /\ fila # NoFila =>
          /\ fila.fuente <= nueva.fuente
          /\ fila.version <= nueva.version
          /\ (nueva.version = fila.version => nueva.precio = fila.precio)
    /\ \/ nueva = fila
       \/ /\ nueva.fuente = ev.ts /\ nueva.evento = ev.id
          /\ ev.cambio.precio \in {nueva.precio, SinCambio}
          /\ ev.cambio.activo \in {nueva.activo, SinCambio}

\* The upsert of producto.creado renews the row.
LEMMA CreadoRenueva ==
  ASSUME IInv, NEW ev \in eventos, ev.tipo = "producto.creado",
         NEW fila \in Proyeccion \cup {NoFila}
  PROVE  Renovada(fila, ConCreado(fila, ev), ev)
<1>1. ev.id \in 1..MaxTx /\ ev.ts \in Nat /\ ev.cambio \in Cambio
  BY DEF IInv, TypeOK, ProductoTypeOK, Evento
<1>2. ev.cambio.precio \in Precio /\ ev.cambio.activo \in BOOLEAN
  BY <1>1 DEF IInv, CreadoCompleto, Cambio
<1>3. CASE fila = NoFila
  BY <1>1, <1>2, <1>3 DEF ConCreado, FilaNueva, Renovada, Proyeccion
<1>4. CASE fila # NoFila /\ fila.fuente <= ev.ts
  <2>1. ConCreado(fila, ev) = Proyecta(fila, ev) /\ fila \in Proyeccion
    BY <1>4 DEF ConCreado
  <2> QED BY <1>1, <1>4, <2>1, ProyectaRenueva DEF Renovada
<1>5. CASE fila # NoFila /\ ~(fila.fuente <= ev.ts)
  <2>1. ConCreado(fila, ev) = fila /\ fila \in Proyeccion
    BY <1>5 DEF ConCreado
  <2> QED BY <1>1, <1>5, <2>1 DEF Renovada, Proyeccion
<1> QED BY <1>3, <1>4, <1>5

\* So do the changes of producto.actualizado and producto.eliminado.
LEMMA CambioRenueva ==
  ASSUME IInv, NEW ev \in eventos, NEW fila \in Proyeccion
  PROVE  Renovada(fila, IF MasReciente(fila, ev) THEN Proyecta(fila, ev) ELSE fila, ev)
<1>1. ev.ts \in Nat /\ fila.fuente \in Nat /\ fila.version \in Nat
  BY DEF IInv, TypeOK, ProductoTypeOK, Evento, Proyeccion
<1>2. CASE MasReciente(fila, ev)
  BY <1>1, <1>2, ProyectaRenueva DEF MasReciente, Renovada
<1>3. CASE ~MasReciente(fila, ev)
  BY <1>1, <1>3 DEF MasReciente, Renovada
<1> QED BY <1>2, <1>3

\* A handler that renews the row of its event's product keeps the invariant.
LEMMA RenovarCumple ==
  ASSUME IInv, NEW ev \in eventos, Recibir(ev), NEW nueva,
         Renovada(catalogo[ev.producto], nueva, ev),
         catalogo' = [catalogo EXCEPT ![ev.producto] = nueva]
  PROVE  IInv'
<1> DEFINE q == ev.producto
<1>1. /\ q \in Producto /\ ev.ts \in Nat
      /\ catalogo \in [Producto -> Proyeccion \cup {NoFila}]
  BY DEF IInv, TypeOK, ProductoTypeOK, Evento
<1>2. recibidos' = recibidos \cup {ev} /\ UNCHANGED <<productoVars, vendidas>>
  BY DEF Recibir
<1>3. nueva \in Proyeccion /\ nueva # NoFila
  BY CatalogoAssumption DEF Renovada
<1>4. catalogo'[q] = nueva /\ \A p \in Producto : p # q => catalogo'[p] = catalogo[p]
  BY <1>1
<1>5. catalogo[q] # NoFila =>
          /\ catalogo[q].fuente <= nueva.fuente
          /\ catalogo[q].version <= nueva.version
          /\ nueva.version = catalogo[q].version => nueva.precio = catalogo[q].precio
  BY DEF Renovada
<1>6. nueva.fuente \in Nat /\ nueva.version \in Nat
  BY <1>3 DEF Proyeccion
<1>7. TypeOK' /\ CreadoCompleto' /\ AbiertasExisten'
  BY <1>1, <1>2, <1>3 DEF IInv, TypeOK, ProductoTypeOK, productoVars, CreadoCompleto, AbiertasExisten
<1>8. LineasDelCatalogo'
  <2> SUFFICES ASSUME NEW l \in vendidas
               PROVE  catalogo'[l.producto] # NoFila /\ l.version <= catalogo'[l.producto].version
    BY <1>2 DEF LineasDelCatalogo
  <2>1. /\ l.producto \in Producto /\ l.version \in Nat
        /\ catalogo[l.producto] \in Proyeccion
        /\ catalogo[l.producto] # NoFila /\ l.version <= catalogo[l.producto].version
    BY <1>1 DEF IInv, TypeOK, Linea, LineasDelCatalogo
  <2>2. CASE l.producto = q
    <3>1. catalogo[q].version \in Nat /\ catalogo[q] # NoFila
      BY <2>1, <2>2 DEF Proyeccion
    <3>2. catalogo'[l.producto] = nueva
      BY <1>4, <2>2
    <3> HIDE DEF q
    <3> QED BY <1>3, <1>5, <1>6, <2>1, <2>2, <3>1, <3>2
  <2> QED BY <1>4, <2>1, <2>2
<1>9. VersionIdentificaPrecio'
  <2> SUFFICES ASSUME NEW l \in vendidas, catalogo'[l.producto].version = l.version
               PROVE  catalogo'[l.producto].precio = l.precio
    BY <1>2 DEF IInv, VersionIdentificaPrecio
  <2>1. /\ l.producto \in Producto /\ l.version \in Nat
        /\ catalogo[l.producto] \in Proyeccion
        /\ catalogo[l.producto] # NoFila /\ l.version <= catalogo[l.producto].version
        /\ catalogo[l.producto].version = l.version => catalogo[l.producto].precio = l.precio
    BY <1>1 DEF IInv, TypeOK, Linea, LineasDelCatalogo, VersionIdentificaPrecio
  <2>2. CASE l.producto = q
    <3>1. catalogo[q].version \in Nat /\ catalogo[q] # NoFila
      BY <2>1, <2>2 DEF Proyeccion
    <3>2. catalogo'[l.producto] = nueva
      BY <1>4, <2>2
    <3> HIDE DEF q
    <3> QED BY <1>3, <1>5, <1>6, <2>1, <2>2, <3>1, <3>2
  <2> QED BY <1>4, <2>1, <2>2
<1>10. RefiereAlUltimo'
  <2>1. ASSUME NEW e \in recibidos'
        PROVE  catalogo'[e.producto] # NoFila /\ e.ts <= catalogo'[e.producto].fuente
    <3>1. CASE e = ev
      BY <3>1, <1>3, <1>4 DEF Renovada
    <3>2. CASE e \in recibidos
      <4>1. /\ e.producto \in Producto /\ e.ts \in Nat
            /\ catalogo[e.producto] \in Proyeccion
            /\ catalogo[e.producto] # NoFila /\ e.ts <= catalogo[e.producto].fuente
        BY <3>2, <1>1 DEF IInv, TypeOK, ProductoTypeOK, Evento, RefiereAlUltimo
      <4>2. CASE e.producto = q
        <5>1. catalogo[q].fuente \in Nat /\ catalogo[q] # NoFila
          BY <4>1, <4>2 DEF Proyeccion
        <5>2. catalogo'[e.producto] = nueva
          BY <1>4, <4>2
        <5> HIDE DEF q
        <5> QED BY <1>3, <1>5, <1>6, <4>1, <4>2, <5>1, <5>2
      <4> QED BY <1>4, <4>1, <4>2
    <3> QED BY <1>2, <3>1, <3>2
  <2>2. ASSUME NEW p \in Producto, catalogo'[p] # NoFila
        PROVE  \E e \in recibidos' :
                 /\ e.id = catalogo'[p].evento /\ e.producto = p /\ e.ts = catalogo'[p].fuente
                 /\ e.cambio.precio \in {catalogo'[p].precio, SinCambio}
                 /\ e.cambio.activo \in {catalogo'[p].activo, SinCambio}
    <3>1. CASE catalogo'[p] = catalogo[p]
      BY <3>1, <2>2, <1>2 DEF IInv, RefiereAlUltimo
    <3>2. CASE catalogo'[p] # catalogo[p]
      <4>1. p = q /\ nueva # catalogo[q]
        BY <3>2, <1>4
      <4> QED BY <4>1, <1>2, <1>4 DEF Renovada
    <3> QED BY <3>1, <3>2
  <2> QED BY <2>1, <2>2 DEF RefiereAlUltimo
<1> QED BY <1>7, <1>8, <1>9, <1>10 DEF IInv

\* Each of the three handlers renews the row of its event's product.
LEMMA ManejarCumple ==
  ASSUME IInv, NEW ev \in eventos, Manejar(ev)
  PROVE  IInv'
<1>1. ev.producto \in Producto /\ catalogo[ev.producto] \in Proyeccion \cup {NoFila}
  BY DEF IInv, TypeOK, ProductoTypeOK, Evento
<1>2. CASE OnProductoCreado(ev)
  BY <1>1, <1>2, CreadoRenueva, RenovarCumple DEF OnProductoCreado
<1>3. CASE AplicarCambio(ev)
  <2>1. catalogo[ev.producto] \in Proyeccion
    BY <1>1, <1>3 DEF AplicarCambio, ConFila
  <2> QED BY <1>3, <2>1, CambioRenueva, RenovarCumple DEF AplicarCambio
<1> QED BY <1>2, <1>3 DEF Manejar, OnProductoActualizado, OnProductoEliminado

\* A line takes price and version of one row, as they are.
LEMMA CrearLineaCumple ==
  ASSUME IInv, NEW p \in Producto, CrearLinea(p)
  PROVE  IInv'
<1> DEFINE n == [producto |-> p, version |-> catalogo[p].version, precio |-> catalogo[p].precio]
<1>1. catalogo[p] \in Proyeccion /\ catalogo[p] # NoFila
  BY DEF CrearLinea, Vendible, IInv, TypeOK
<1>2. vendidas' = vendidas \cup {n} /\ UNCHANGED <<productoVars, catalogo, recibidos>>
  BY DEF CrearLinea
<1>3. n \in Linea
  BY <1>1 DEF Linea, Proyeccion
<1>4. TypeOK' /\ CreadoCompleto' /\ AbiertasExisten' /\ RefiereAlUltimo'
  BY <1>2, <1>3 DEF IInv, TypeOK, ProductoTypeOK, productoVars, CreadoCompleto, AbiertasExisten,
                    RefiereAlUltimo
<1>5. catalogo[p].version <= catalogo[p].version
  BY <1>1 DEF Proyeccion
<1>6. VersionIdentificaPrecio' /\ LineasDelCatalogo'
  BY <1>1, <1>2, <1>5 DEF IInv, VersionIdentificaPrecio, LineasDelCatalogo
<1> QED BY <1>4, <1>6 DEF IInv

\* Every step keeps the invariant.
LEMMA NextCumple == IInv /\ [Next]_vars => IInv'
<1> SUFFICES ASSUME IInv, [Next]_vars PROVE IInv'
  OBVIOUS
<1>1. CASE PasoProductos /\ UNCHANGED catalogoVars
  <2>1. ProductoTypeOK' /\ eventos \subseteq eventos' /\ CreadoCompleto' /\ AbiertasExisten'
    BY <1>1, ProductosCumple
  <2>2. catalogo' = catalogo /\ recibidos' = recibidos /\ vendidas' = vendidas
    BY <1>1 DEF catalogoVars
  <2> QED BY <2>1, <2>2 DEF IInv, TypeOK, VersionIdentificaPrecio, RefiereAlUltimo, LineasDelCatalogo
<1>2. CASE UNCHANGED vars
  BY <1>2 DEF vars, productoVars, catalogoVars, IInv, TypeOK, ProductoTypeOK, VersionIdentificaPrecio,
              RefiereAlUltimo, CreadoCompleto, AbiertasExisten, LineasDelCatalogo
<1> QED BY <1>1, <1>2, ManejarCumple, CrearLineaCumple DEF Next

\* The inductive invariant holds in every state (events/consumer.ts:67-177).
THEOREM SiempreIInv == Spec => []IInv
BY InicioCumple, NextCumple, PTL DEF Spec

\* Rows, events and lines keep their types; a handled event was published.
THEOREM TypeCorrect == Spec => []TypeOK
<1>1. IInv => TypeOK
  BY DEF IInv
<1> QED BY <1>1, SiempreIInv, PTL

\* A price never changes under a version_precio (consumer.ts:105-107, :150-151).
THEOREM VersionUnPrecio == Spec => []VersionIdentificaPrecio
<1>1. IInv => VersionIdentificaPrecio
  BY DEF IInv
<1> QED BY <1>1, SiempreIInv, PTL

\* A row is at the newest event handled, in whatever order they came
\* (consumer.ts:111, :144, :168).
THEOREM CatalogoAlUltimo == Spec => []RefiereAlUltimo
<1>1. IInv => RefiereAlUltimo
  BY DEF IInv
<1> QED BY <1>1, SiempreIInv, PTL

-----------------------------------------------------------------------------
(* Which events can be handled.                                                *)

Creacion(ev, p) == ev.tipo = "producto.creado" /\ ev.producto = p

\* A product of the seed has its row from the start and never an event of its
\* creation; any other row came with one, committed with it.
Origen ==
    /\ \A ev \in eventos : producto[ev.producto] # NoFila
    /\ \A p \in Producto :
          /\ p \in Sembrados =>
                /\ producto[p] # NoFila /\ catalogo[p] = NoFila
                /\ \A ev \in eventos : ~Creacion(ev, p)
          /\ p \notin Sembrados /\ producto[p] # NoFila =>
                \E ev \in eventos : Creacion(ev, p)

\* The writes of svc-productos keep Origen, as they never delete a row.
LEMMA ProductosConOrigen ==
  ASSUME IInv, Origen, PasoProductos, UNCHANGED catalogoVars
  PROVE  Origen'
<1> USE DEF IInv, TypeOK, ProductoTypeOK, catalogoVars
<1>1. ASSUME NEW p \in Producto, CrearProducto(p) PROVE Origen'
  <2>1. PICK precio \in Precio :
          /\ producto' = [producto EXCEPT ![p] = [precio |-> precio, activo |-> TRUE]]
          /\ Emite([id |-> tx', producto |-> p, ts |-> reloj'], "producto.creado",
                   [precio |-> precio, activo |-> TRUE])
    BY <1>1 DEF CrearProducto
  <2> DEFINE ev == [id |-> tx', tipo |-> "producto.creado", producto |-> p, ts |-> reloj',
                    cambio |-> [precio |-> precio, activo |-> TRUE]]
  <2>2. eventos' = eventos \cup {ev} /\ Creacion(ev, p) /\ ev.producto = p
    BY <2>1 DEF Emite, Creacion
  <2>3. [precio |-> precio, activo |-> TRUE] # NoFila
    <3>1. [precio |-> precio, activo |-> TRUE] \in Fila
      BY DEF Fila
    <3> QED BY <3>1, FilaNoEsNoFila
  <2>4. producto'[p] # NoFila /\ \A q \in Producto \ {p} : producto'[q] = producto[q]
    BY <2>1, <2>3
  <2>5. producto[p] = NoFila
    BY <1>1 DEF CrearProducto
  <2> HIDE DEF ev
  <2>6. \A e \in eventos' : producto'[e.producto] # NoFila
    BY <2>2, <2>4 DEF Origen, Evento
  <2>7. ASSUME NEW q \in Producto
        PROVE  /\ q \in Sembrados =>
                     /\ producto'[q] # NoFila /\ catalogo'[q] = NoFila
                     /\ \A e \in eventos' : ~Creacion(e, q)
               /\ q \notin Sembrados /\ producto'[q] # NoFila =>
                     \E e \in eventos' : Creacion(e, q)
    BY <2>2, <2>4, <2>5 DEF Origen, Creacion
  <2> QED BY <2>6, <2>7 DEF Origen
<1>2. ASSUME NEW p \in Producto, Empezar(p) PROVE Origen'
  BY <1>2 DEF Empezar, Origen
<1>3. ASSUME NEW t \in abiertas, NEW cambio \in Cambio,
             NEW tipo \in {"producto.actualizado", "producto.eliminado"},
             producto' = [producto EXCEPT ![t.producto] = Aplica(@, cambio)],
             Emite(t, tipo, cambio)
      PROVE  Origen'
  <2>1. t.producto \in Producto /\ producto[t.producto] \in Fila
    BY DEF AbiertasExisten
  <2>2. producto'[t.producto] # NoFila /\ producto[t.producto] # NoFila
    BY <1>3, <2>1, AplicaEsFila, FilaNoEsNoFila
  <2>3. \A q \in Producto : producto'[q] # NoFila <=> producto[q] # NoFila
    BY <1>3, <2>1, <2>2
  <2>4. \A e \in eventos' : e \in eventos \/ (e.tipo = tipo /\ e.producto = t.producto)
    BY <1>3 DEF Emite
  <2>5. eventos \subseteq eventos'
    BY <1>3 DEF Emite
  <2>6. ASSUME NEW e \in eventos' PROVE producto'[e.producto] # NoFila
    <3>1. CASE e \in eventos
      <4>1. e.producto \in Producto /\ producto[e.producto] # NoFila
        BY <3>1 DEF Origen, Evento
      <4> QED BY <2>3, <4>1
    <3>2. CASE e.producto = t.producto
      BY <2>2, <3>2
    <3> QED BY <2>4, <3>1, <3>2
  <2>7. \A e \in eventos', q \in Producto : Creacion(e, q) => e \in eventos
    BY <2>4 DEF Creacion
  <2> QED BY <2>3, <2>5, <2>6, <2>7 DEF Origen
<1>4. ASSUME NEW t \in abiertas,
             Deshacer(t) \/ EliminarProducto(t)
                \/ \E cambio \in Cambio : ActualizarProducto(t, cambio)
      PROVE  Origen'
  <2>1. CASE Deshacer(t)
    BY <2>1 DEF Deshacer, Origen
  <2>2. CASE EliminarProducto(t)
    <3>1. [precio |-> SinCambio, activo |-> FALSE] \in Cambio
      BY DEF Cambio
    <3> QED BY <1>3, <2>2, <3>1 DEF EliminarProducto
  <2>3. CASE \E cambio \in Cambio : ActualizarProducto(t, cambio)
    BY <1>3, <2>3 DEF ActualizarProducto
  <2> QED BY <1>4, <2>1, <2>2, <2>3
<1> QED BY <1>1, <1>2, <1>4 DEF PasoProductos

\* The catalogue gets a row of a product only from the event of its creation.
LEMMA CatalogoConOrigen ==
  ASSUME IInv, Origen, NEW ev \in eventos, Manejar(ev)
  PROVE  Origen'
<1> USE DEF IInv, TypeOK, ProductoTypeOK
<1>1. UNCHANGED productoVars /\ ev.producto \in Producto
  BY DEF Manejar, OnProductoCreado, OnProductoActualizado, OnProductoEliminado, AplicarCambio,
         Recibir, Evento
<1>2. \A p \in Producto \ {ev.producto} : catalogo'[p] = catalogo[p]
  BY DEF Manejar, OnProductoCreado, OnProductoActualizado, OnProductoEliminado, AplicarCambio
<1>3. ev.producto \notin Sembrados
  <2>1. CASE OnProductoCreado(ev)
    BY <1>1, <2>1 DEF OnProductoCreado, Origen, Creacion
  <2>2. CASE ConFila(ev)
    BY <1>1, <2>2 DEF ConFila, Origen
  <2> QED BY <2>1, <2>2 DEF Manejar, OnProductoActualizado, OnProductoEliminado, AplicarCambio
<1> QED BY <1>1, <1>2, <1>3 DEF productoVars, Origen

\* Every row and every event has its origin (svc-productos' index.ts and seed.ts).
LEMMA SiempreOrigen == Spec => []Origen
<1>1. Init => Origen
  <2> SUFFICES ASSUME Init PROVE Origen
    OBVIOUS
  <2>1. PICK precio \in Precio : producto = [p \in Producto |->
          IF p \in Sembrados THEN [precio |-> precio, activo |-> TRUE] ELSE NoFila]
    BY DEF Init, ProductoInit
  <2>2. [precio |-> precio, activo |-> TRUE] # NoFila
    <3>1. [precio |-> precio, activo |-> TRUE] \in Fila
      BY DEF Fila
    <3> QED BY <3>1, FilaNoEsNoFila
  <2> QED BY <2>1, <2>2 DEF Init, ProductoInit, Origen
<1>2. IInv /\ Origen /\ [Next]_vars => Origen'
  <2> SUFFICES ASSUME IInv, Origen, [Next]_vars PROVE Origen'
    OBVIOUS
  <2>1. CASE UNCHANGED vars
    BY <2>1 DEF vars, productoVars, catalogoVars, Origen
  <2>2. CASE \E p \in Producto : CrearLinea(p)
    BY <2>2 DEF CrearLinea, productoVars, Origen
  <2> QED BY <2>1, <2>2, ProductosConOrigen, CatalogoConOrigen DEF Next
<1> QED BY <1>1, <1>2, SiempreIInv, PTL DEF Spec

\* An event that was not handled can be, or waits for the event of its product's
\* creation, which is there and can be.
SeManejara ==
    \A ev \in eventos \ recibidos : ev.producto \notin Sembrados =>
        \/ ev.tipo = "producto.creado"
        \/ ConFila(ev)
        \/ \E creado \in eventos \ recibidos : Creacion(creado, ev.producto)

\* The handlers that throw for want of a row wait for an event that exists
\* (events/consumer.ts:143).
THEOREM NadieEsperaEnVano == Spec => []SeManejara
<1>1. IInv /\ Origen => SeManejara
  <2> SUFFICES ASSUME IInv, Origen, NEW ev \in eventos \ recibidos,
                      ev.producto \notin Sembrados, ~ConFila(ev)
               PROVE  \E creado \in eventos \ recibidos : Creacion(creado, ev.producto)
    BY DEF SeManejara
  <2>1. ev.producto \in Producto
    BY DEF IInv, TypeOK, ProductoTypeOK, Evento
  <2>2. PICK creado \in eventos : Creacion(creado, ev.producto)
    BY <2>1 DEF Origen
  <2>3. creado \notin recibidos
    BY <2>2 DEF IInv, RefiereAlUltimo, ConFila, Creacion
  <2> QED BY <2>2, <2>3
<1> QED BY <1>1, SiempreIInv, SiempreOrigen, PTL

\* A product that was not announced is never sold: what svc-productos is told of it
\* later is thrown back each time, and no line is priced (seed.ts:56-67).
SembradosFuera ==
    \A p \in Sembrados :
        /\ ~Vendible(p)
        /\ \A l \in vendidas : l.producto # p
        /\ \A ev \in eventos : ev.producto = p => ~ConFila(ev) /\ ev \notin recibidos

\* The products of the seed stay out of svc-ordenes for good.
THEOREM SembradosNoSeVenden == Spec => []SembradosFuera
<1>1. IInv /\ Origen => SembradosFuera
  <2> SUFFICES ASSUME IInv, Origen, NEW p \in Sembrados
               PROVE  /\ ~Vendible(p)
                      /\ \A l \in vendidas : l.producto # p
                      /\ \A ev \in eventos : ev.producto = p => ~ConFila(ev) /\ ev \notin recibidos
    BY DEF SembradosFuera
  <2>1. p \in Producto /\ catalogo[p] = NoFila
    BY ProductoAssumption DEF Origen
  <2> QED BY <2>1 DEF Vendible, ConFila, IInv, LineasDelCatalogo, RefiereAlUltimo
<1> QED BY <1>1, SiempreIInv, SiempreOrigen, PTL
=============================================================================
