-------------------------- MODULE OrderSagaProofs ---------------------------
(***************************************************************************)
(* OrderSaga keeps its invariants and implements the safety part of        *)
(* OrderLifecycle, for any orders, products, thresholds and adjustments.   *)
(***************************************************************************)
EXTENDS OrderSaga, FiniteSetTheorems, TLAPS

USE CantidadAssumption, StockAssumption DEF RechazarReserva

Contadores == [Tipo -> [Orden -> Nat]]

\* An emission adds one event of its type for its order, and no other.
LEMMA PublicaSuma ==
  ASSUME emitidos \in Contadores, NEW t \in Tipo, NEW o \in Orden, Publica(t, o)
  PROVE  /\ emitidos' \in Contadores
         /\ emitidos'[t][o] = emitidos[t][o] + 1
         /\ \A t2 \in Tipo, o2 \in Orden :
               t2 # t \/ o2 # o => emitidos'[t2][o2] = emitidos[t2][o2]
         /\ \A ev \in Evento : Emitido(ev) => Emitido(ev)'
<1>1. /\ emitidos' \in Contadores
      /\ emitidos'[t][o] = emitidos[t][o] + 1
      /\ \A t2 \in Tipo, o2 \in Orden :
            t2 # t \/ o2 # o => emitidos'[t2][o2] = emitidos[t2][o2]
  BY DEF Publica, Contadores
<1>2. \A t2 \in Tipo, o2 \in Orden :
        /\ emitidos[t2][o2] \in Nat
        /\ emitidos'[t2][o2] \in Nat
        /\ emitidos[t2][o2] <= emitidos'[t2][o2]
  <2> TAKE t2 \in Tipo, o2 \in Orden
  <2>1. emitidos[t2][o2] \in Nat /\ emitidos'[t2][o2] \in Nat BY <1>1 DEF Contadores
  <2> QED BY <1>1, <2>1
<1>3. \A ev \in Evento : Emitido(ev) => Emitido(ev)'
  BY <1>2 DEF Emitido, Evento
<1> QED BY <1>1, <1>3

\* An event that exists is the only one of its type and order when the
\* invariants say that one was emitted at most.
LEMMA UnicoPorOrden ==
  ASSUME NEW a \in Evento, NEW b \in Evento, Emitido(a), Emitido(b),
         a.tipo = b.tipo, a.orden = b.orden, emitidos[a.tipo][a.orden] \in 0..1
  PROVE  a = b
<1>1. a.n = 1 /\ b.n = 1 BY DEF Emitido, Evento
<1> QED BY <1>1 DEF Evento

\* The events of a type for an order are the emitted ones.
LEMMA EventosDeEmitidos ==
  ASSUME NEW t \in Tipo, NEW o \in Orden, NEW ev \in EventosDe(t, o),
         emitidos \in Contadores
  PROVE  ev \in Evento /\ ev.tipo = t /\ ev.orden = o /\ Emitido(ev)
<1>1. emitidos[t][o] \in Nat BY DEF Contadores
<1> QED BY <1>1 DEF EventosDe, Evento, Emitido

Fila == [fila : BOOLEAN, disponible : Nat, reservado : Int]

\* Moving units that are there, in either direction, keeps their sum.
LEMMA TrasladarFila ==
  ASSUME NEW s \in Fila, NEW n \in Int, s.disponible - n \in Nat
  PROVE  /\ Trasladar(s, n) \in Fila
         /\ Trasladar(s, n).disponible = s.disponible - n
         /\ Trasladar(s, n).disponible + Trasladar(s, n).reservado
              = s.disponible + s.reservado
<1> DEFINE d == s.disponible - n
           r == s.reservado + n
<1>1. /\ d \in Nat /\ r \in Int
      /\ d = s.disponible - n /\ d + r = s.disponible + s.reservado
  BY DEF Fila
<1>2. Trasladar(s, n) = [s EXCEPT !.disponible = d, !.reservado = r] BY DEF Trasladar
<1> HIDE DEF d, r
<1>3. [s EXCEPT !.disponible = d, !.reservado = r] \in Fila BY <1>1 DEF Fila
<1>4. /\ [s EXCEPT !.disponible = d, !.reservado = r].disponible = d
      /\ [s EXCEPT !.disponible = d, !.reservado = r].reservado = r
  BY <1>1 DEF Fila
<1> QED BY <1>1, <1>2, <1>3, <1>4

\* Moving units between disponible and reservado gives a table of stock again.
LEMMA TrasladarFilas ==
  ASSUME stock \in [Producto -> Fila], NEW n \in [Producto -> Int],
         \A p \in Producto : stock[p].disponible - n[p] \in Nat,
         stock' = [p \in Producto |-> Trasladar(stock[p], n[p])]
  PROVE  /\ stock' \in [Producto -> Fila]
         /\ \A p \in Producto : stock'[p].disponible = stock[p].disponible - n[p]
         /\ \A p \in Producto : stock'[p].disponible + stock'[p].reservado
                               = stock[p].disponible + stock[p].reservado
<1>1. \A p \in Producto :
        /\ stock'[p] \in Fila
        /\ stock'[p].disponible = stock[p].disponible - n[p]
        /\ stock'[p].disponible + stock'[p].reservado
             = stock[p].disponible + stock[p].reservado
  BY TrasladarFila
<1> QED BY <1>1

\* The saga starts with empty tables.
LEMMA InicioCumple == Init => IInv
<1> SUFFICES ASSUME Init PROVE IInv OBVIOUS
<1> USE DEF Init, BusInit, OrdenInit, StockInit
<1>1. TypeOK BY DEF TypeOK, BusTypeOK, OrdenTypeOK, StockTypeOK, SinLineas, EstadoOrden
<1>2. UnVeredicto BY DEF UnVeredicto, Recibido, Tipo
<1>3. UnidadesConservadas BY DEF UnidadesConservadas
<1>4. CreadaUnaVez BY DEF CreadaUnaVez, Tipo
<1>5. RecibidosExisten /\ LiberacionesAbiertas BY DEF RecibidosExisten, LiberacionesAbiertas
<1>6. ReservaSegunEventos BY DEF ReservaSegunEventos, Tipo
<1> QED BY <1>1, <1>2, <1>3, <1>4, <1>5, <1>6 DEF IInv

\* A new order has no reservation and no verdict.
LEMMA CrearOrdenCumple ==
  ASSUME IInv, NEW o \in Orden, CrearOrden(o), UNCHANGED stockVars
  PROVE  IInv'
<1> USE DEF CrearOrden, stockVars
<1>1. PICK l \in Lineas : lineas' = [lineas EXCEPT ![o] = l] OBVIOUS
<1>2. emitidos \in Contadores BY DEF IInv, TypeOK, BusTypeOK, Contadores
<1>3. "orden.creada" \in Tipo BY DEF Tipo
<1>4. /\ emitidos' \in Contadores
      /\ emitidos'["orden.creada"][o] = emitidos["orden.creada"][o] + 1
      /\ \A t2 \in Tipo, o2 \in Orden :
            t2 # "orden.creada" \/ o2 # o => emitidos'[t2][o2] = emitidos[t2][o2]
      /\ \A ev \in Evento : Emitido(ev) => Emitido(ev)'
  BY <1>2, <1>3, PublicaSuma
<1>5. TypeOK'
  BY <1>1, <1>4 DEF IInv, TypeOK, BusTypeOK, OrdenTypeOK, StockTypeOK, EstadoOrden, Contadores
<1>6. UnVeredicto'
  BY <1>4 DEF IInv, TypeOK, OrdenTypeOK, UnVeredicto, Recibido, Tipo
<1>7. UnidadesConservadas' BY DEF IInv, UnidadesConservadas
<1>8. CreadaUnaVez'
  BY <1>4 DEF IInv, TypeOK, OrdenTypeOK, CreadaUnaVez, Tipo
<1>9. RecibidosExisten'
  BY <1>4 DEF IInv, TypeOK, StockTypeOK, RecibidosExisten
<1>10. LiberacionesAbiertas'
  BY <1>4 DEF IInv, TypeOK, StockTypeOK, LiberacionesAbiertas, Liberacion
<1>11. ReservaSegunEventos'
  BY <1>4 DEF IInv, TypeOK, OrdenTypeOK, ReservaSegunEventos, Tipo
<1> QED BY <1>5, <1>6, <1>7, <1>8, <1>9, <1>10, <1>11 DEF IInv

\* Only a pending order is cancelled, so no confirmation is undone.
LEMMA CancelarOrdenCumple ==
  ASSUME IInv, NEW o \in Orden, CancelarOrden(o), UNCHANGED stockVars
  PROVE  IInv'
<1> USE DEF CancelarOrden, stockVars
<1>1. orden[o] = "pendiente"
  BY DEF PuedeTransicionar, TransicionesValidas, IInv, TypeOK, OrdenTypeOK, EstadoOrden
<1>2. emitidos \in Contadores BY DEF IInv, TypeOK, BusTypeOK, Contadores
<1>3. "orden.cancelada" \in Tipo BY DEF Tipo
<1>4. /\ emitidos' \in Contadores
      /\ emitidos'["orden.cancelada"][o] = emitidos["orden.cancelada"][o] + 1
      /\ \A t2 \in Tipo, o2 \in Orden :
            t2 # "orden.cancelada" \/ o2 # o => emitidos'[t2][o2] = emitidos[t2][o2]
      /\ \A ev \in Evento : Emitido(ev) => Emitido(ev)'
  BY <1>2, <1>3, PublicaSuma
<1>5. TypeOK'
  BY <1>4 DEF IInv, TypeOK, BusTypeOK, OrdenTypeOK, StockTypeOK, EstadoOrden, Contadores
<1>6. UnVeredicto'
  BY <1>1, <1>4 DEF IInv, TypeOK, OrdenTypeOK, UnVeredicto, Recibido, Tipo
<1>7. UnidadesConservadas' BY DEF IInv, UnidadesConservadas
<1>8. CreadaUnaVez'
  BY <1>1, <1>4 DEF IInv, TypeOK, OrdenTypeOK, CreadaUnaVez, Tipo
<1>9. RecibidosExisten'
  BY <1>4 DEF IInv, TypeOK, StockTypeOK, RecibidosExisten
<1>10. LiberacionesAbiertas'
  BY <1>4 DEF IInv, TypeOK, StockTypeOK, LiberacionesAbiertas, Liberacion
<1>11. ReservaSegunEventos'
  BY <1>1, <1>4 DEF IInv, TypeOK, OrdenTypeOK, ReservaSegunEventos, Tipo
<1> QED BY <1>5, <1>6, <1>7, <1>8, <1>9, <1>10, <1>11 DEF IInv

\* A verdict moves an open order and announces it, or changes nothing but the
\* record of the event; a confirmation is the answer to a reservation.
LEMMA AplicarVeredictoCumple ==
  ASSUME IInv, NEW o \in Orden, NEW t \in {"stock.reservado", "stock.insuficiente"},
         NEW ev \in EventosDe(t, o),
         NEW estado, NEW aviso,
         \/ estado = "confirmada" /\ aviso = "orden.confirmada" /\ t = "stock.reservado"
         \/ estado = "cancelada" /\ aviso = "orden.cancelada",
         AplicarVeredicto(ev, estado, aviso), UNCHANGED stockVars
  PROVE  IInv'
<1> USE DEF stockVars
<1>1. emitidos \in Contadores BY DEF IInv, TypeOK, BusTypeOK, Contadores
<1>2. t \in Tipo /\ aviso \in Tipo BY DEF Tipo
<1>3. /\ ev \in Evento /\ ev.tipo = t /\ ev.orden = o /\ Emitido(ev)
      /\ recibidosOrdenes' \subseteq Evento
  BY <1>1, <1>2, EventosDeEmitidos DEF AplicarVeredicto, IInv, TypeOK, OrdenTypeOK
<1>4. lineas' = lineas BY DEF AplicarVeredicto
<1>5. CASE UNCHANGED <<orden, emitidos>>
  <2> USE <1>3, <1>4, <1>5
  <2>1. TypeOK' BY DEF IInv, TypeOK, BusTypeOK, OrdenTypeOK, StockTypeOK
  <2>2. UnVeredicto' BY DEF IInv, UnVeredicto, Recibido
  <2>3. UnidadesConservadas' BY DEF IInv, UnidadesConservadas
  <2>4. CreadaUnaVez' BY DEF IInv, CreadaUnaVez
  <2>5. RecibidosExisten' BY DEF IInv, RecibidosExisten, Emitido
  <2>6. LiberacionesAbiertas' BY DEF IInv, LiberacionesAbiertas, Emitido
  <2>7. ReservaSegunEventos' BY DEF IInv, ReservaSegunEventos
  <2> QED BY <2>1, <2>2, <2>3, <2>4, <2>5, <2>6, <2>7 DEF IInv
<1>6. CASE /\ orden[o] = "pendiente"
           /\ orden' = [orden EXCEPT ![o] = estado]
           /\ Publica(aviso, o)
  <2>1. /\ emitidos' \in Contadores
        /\ emitidos'[aviso][o] = emitidos[aviso][o] + 1
        /\ \A t2 \in Tipo, o2 \in Orden :
              t2 # aviso \/ o2 # o => emitidos'[t2][o2] = emitidos[t2][o2]
        /\ \A e \in Evento : Emitido(e) => Emitido(e)'
    BY <1>1, <1>2, <1>6, PublicaSuma
  <2>2. estado = "confirmada" => emitidos["stock.reservado"][o] > 0
    BY <1>1, <1>2, <1>3 DEF Emitido, Contadores, Evento
  <2>3. TypeOK'
    BY <1>3, <1>4, <1>6, <2>1
    DEF IInv, TypeOK, BusTypeOK, OrdenTypeOK, StockTypeOK, EstadoOrden, Contadores
  <2>4. UnVeredicto'
    BY <1>6, <2>1 DEF IInv, TypeOK, OrdenTypeOK, UnVeredicto, Recibido, Tipo
  <2>5. UnidadesConservadas' BY DEF IInv, UnidadesConservadas
  <2>6. CreadaUnaVez'
    BY <1>6, <2>1 DEF IInv, TypeOK, OrdenTypeOK, CreadaUnaVez, Tipo
  <2>7. RecibidosExisten'
    BY <2>1 DEF IInv, TypeOK, StockTypeOK, RecibidosExisten
  <2>8. LiberacionesAbiertas'
    BY <2>1 DEF IInv, TypeOK, StockTypeOK, LiberacionesAbiertas, Liberacion
  <2>9. ReservaSegunEventos'
    BY <1>6, <2>1, <2>2 DEF IInv, TypeOK, OrdenTypeOK, ReservaSegunEventos, Tipo
  <2> QED BY <2>3, <2>4, <2>5, <2>6, <2>7, <2>8, <2>9 DEF IInv
<1> QED BY <1>3, <1>5, <1>6 DEF AplicarVeredicto, SigueAbierta

\* A new order is reserved as a whole or rejected, and answered once.
LEMMA OnOrdenCreadaCumple ==
  ASSUME IInv, NEW o \in Orden, NEW ev \in EventosDe("orden.creada", o),
         OnOrdenCreada(ev), UNCHANGED ordenVars
  PROVE  IInv'
<1> USE DEF ordenVars
<1>1. emitidos \in Contadores BY DEF IInv, TypeOK, BusTypeOK, Contadores
<1>2. /\ "orden.creada" \in Tipo /\ "stock.reservado" \in Tipo
      /\ "stock.insuficiente" \in Tipo BY DEF Tipo
<1>3. ev \in Evento /\ ev.tipo = "orden.creada" /\ ev.orden = o /\ Emitido(ev)
  BY <1>1, <1>2, EventosDeEmitidos
<1>4. /\ ev \notin recibidosStock
      /\ recibidosStock' = recibidosStock \cup {ev}
      /\ UNCHANGED <<ajustado, liberando, lineas, orden, recibidosOrdenes>>
  BY DEF OnOrdenCreada, NuevoEnStock
\* It is the first verdict: the order was received once at most.
<1>5. /\ ~Recibido("orden.creada", o)
      /\ emitidos["stock.reservado"][o] = 0 /\ emitidos["stock.insuficiente"][o] = 0
      /\ reserva[o] = "ninguna"
  <2>1. \A e \in recibidosStock : ~(e.tipo = "orden.creada" /\ e.orden = o)
    <3> SUFFICES ASSUME NEW e \in recibidosStock, e.tipo = "orden.creada", e.orden = o
                 PROVE  FALSE
      OBVIOUS
    <3>1. e \in Evento /\ Emitido(e)
      BY DEF IInv, TypeOK, StockTypeOK, RecibidosExisten
    <3>2. emitidos["orden.creada"][o] \in 0..1 BY DEF IInv, CreadaUnaVez
    <3>3. e = ev BY <1>3, <3>1, <3>2, UnicoPorOrden
    <3> QED BY <1>4, <3>3
  <2>2. ~Recibido("orden.creada", o) BY <2>1 DEF Recibido
  <2>3. /\ emitidos["stock.reservado"][o] \in Nat
        /\ emitidos["stock.insuficiente"][o] \in Nat
    BY <1>1, <1>2 DEF Contadores
  <2>4. emitidos["stock.reservado"][o] + emitidos["stock.insuficiente"][o] = 0
    BY <2>2 DEF IInv, UnVeredicto
  <2> QED BY <2>2, <2>3, <2>4 DEF IInv, ReservaSegunEventos
<1>6. /\ \A o2 \in Orden : Recibido("orden.creada", o2)'
                            <=> (o2 = o \/ Recibido("orden.creada", o2))
      /\ recibidosStock' \subseteq Evento
  BY <1>3, <1>4 DEF Recibido, IInv, TypeOK, StockTypeOK
<1>7. ASSUME NEW t \in {"stock.reservado", "stock.insuficiente"}, Publica(t, o)
      PROVE  /\ emitidos' \in Contadores
             /\ UnVeredicto' /\ CreadaUnaVez' /\ RecibidosExisten'
             /\ \A e \in Evento : Emitido(e) => Emitido(e)'
             /\ emitidos'[t][o] = emitidos[t][o] + 1
             /\ \A t2 \in Tipo, o2 \in Orden :
                   t2 # t \/ o2 # o => emitidos'[t2][o2] = emitidos[t2][o2]
  <2>1. /\ emitidos' \in Contadores
        /\ emitidos'[t][o] = emitidos[t][o] + 1
        /\ \A t2 \in Tipo, o2 \in Orden :
              t2 # t \/ o2 # o => emitidos'[t2][o2] = emitidos[t2][o2]
        /\ \A e \in Evento : Emitido(e) => Emitido(e)'
    BY <1>1, <1>2, <1>7, PublicaSuma
  <2>2. UnVeredicto'
    BY <1>4, <1>5, <1>6, <2>1 DEF IInv, UnVeredicto, Tipo
  <2>3. CreadaUnaVez' BY <1>4, <2>1 DEF IInv, CreadaUnaVez, Tipo
  <2>4. RecibidosExisten'
    BY <1>3, <1>4, <2>1 DEF IInv, TypeOK, StockTypeOK, RecibidosExisten
  <2> QED BY <2>1, <2>2, <2>3, <2>4
<1>8. CASE /\ \A p \in Producto : Suficiente(stock[p].disponible, lineas[o][p])
           /\ stock' = Mover(lineas[o])
           /\ reserva' = [reserva EXCEPT ![o] = "activa"]
           /\ alerta' = ConAlertas({p \in Producto : lineas[o][p] > 0}, stock')
           /\ Publica("stock.reservado", o)
  <2>1. /\ stock \in [Producto -> Fila] /\ lineas[o] \in [Producto -> Int]
        /\ \A p \in Producto : stock[p].disponible - lineas[o][p] \in Nat
    BY <1>8 DEF Suficiente, Fila, IInv, TypeOK, StockTypeOK, BusTypeOK, Lineas, SinLineas
  <2>2. stock' = [p \in Producto |-> Trasladar(stock[p], lineas[o][p])]
    BY <1>8 DEF Mover
  <2>3. /\ stock' \in [Producto -> Fila]
        /\ \A p \in Producto : stock'[p].disponible + stock'[p].reservado
                              = stock[p].disponible + stock[p].reservado
    BY <2>1, <2>2, TrasladarFilas
  <2>4. alerta' \in [Producto -> {"ninguna", "stock_bajo", "stock_agotado"}]
    BY <1>8 DEF ConAlertas, TipoAlerta, IInv, TypeOK, StockTypeOK
  <2>5. TypeOK'
    BY <1>4, <1>6, <1>7, <1>8, <2>3, <2>4
    DEF Fila, IInv, TypeOK, BusTypeOK, OrdenTypeOK, StockTypeOK, Contadores
  <2>6. UnidadesConservadas'
    BY <1>4, <2>3 DEF IInv, UnidadesConservadas
  <2>7. LiberacionesAbiertas'
    BY <1>4, <1>5, <1>7, <1>8 DEF IInv, TypeOK, StockTypeOK, LiberacionesAbiertas, Liberacion
  <2>8. ReservaSegunEventos'
    BY <1>4, <1>5, <1>7, <1>8 DEF IInv, TypeOK, StockTypeOK, ReservaSegunEventos, Tipo
  <2> QED BY <1>7, <1>8, <2>5, <2>6, <2>7, <2>8 DEF IInv
<1>9. CASE Publica("stock.insuficiente", o) /\ UNCHANGED <<stock, reserva, alerta>>
  <2>1. TypeOK'
    BY <1>4, <1>6, <1>7, <1>9
    DEF IInv, TypeOK, BusTypeOK, OrdenTypeOK, StockTypeOK, Contadores
  <2>2. UnidadesConservadas' BY <1>4, <1>9 DEF IInv, UnidadesConservadas
  <2>3. LiberacionesAbiertas'
    BY <1>4, <1>7, <1>9 DEF IInv, TypeOK, StockTypeOK, LiberacionesAbiertas, Liberacion
  <2>4. ReservaSegunEventos'
    BY <1>4, <1>7, <1>9 DEF IInv, ReservaSegunEventos, Tipo
  <2> QED BY <1>7, <1>9, <2>1, <2>2, <2>3, <2>4 DEF IInv
<1> QED BY <1>3, <1>8, <1>9 DEF OnOrdenCreada

\* Opening a release writes nothing; there is no other for the order, because an
\* order is cancelled once.
LEMMA LeerReservasCumple ==
  ASSUME IInv, NEW o \in Orden, NEW ev \in EventosDe("orden.cancelada", o),
         LeerReservas(ev), UNCHANGED ordenVars
  PROVE  IInv'
<1> USE DEF LeerReservas, ordenVars, busVars
<1> DEFINE nueva == [ev |-> ev, hallada |-> reserva[ev.orden] = "activa"]
<1>1. emitidos \in Contadores BY DEF IInv, TypeOK, BusTypeOK, Contadores
<1>2. "orden.cancelada" \in Tipo BY DEF Tipo
<1>3. ev \in Evento /\ ev.tipo = "orden.cancelada" /\ ev.orden = o /\ Emitido(ev)
  BY <1>1, <1>2, EventosDeEmitidos
<1>4. /\ nueva \in Liberacion /\ nueva.ev = ev
      /\ nueva.hallada <=> reserva[o] = "activa"
  BY <1>3 DEF Liberacion
<1>5. liberando' = liberando \cup {nueva} OBVIOUS
<1> HIDE DEF nueva
<1>6. TypeOK'
  <2>1. liberando' \subseteq Liberacion
    BY <1>4, <1>5 DEF IInv, TypeOK, StockTypeOK
  <2> QED BY <2>1 DEF IInv, TypeOK, BusTypeOK, OrdenTypeOK, StockTypeOK
<1>7. LiberacionesAbiertas'
  <2>1. \A tx \in liberando : tx.ev.orden # o
    <3> SUFFICES ASSUME NEW tx \in liberando, tx.ev.orden = o PROVE FALSE
      OBVIOUS
    <3>1. tx.ev \in Evento /\ Emitido(tx.ev) /\ tx.ev.tipo = "orden.cancelada"
      BY DEF IInv, TypeOK, StockTypeOK, Liberacion, LiberacionesAbiertas
    <3>2. emitidos["orden.cancelada"][o] \in 0..1 BY DEF IInv, UnVeredicto
    <3>3. tx.ev = ev BY <1>3, <3>1, <3>2, UnicoPorOrden
    <3> QED BY <3>3
  <2>2. \A tx \in liberando' :
          /\ tx.ev.tipo = "orden.cancelada" /\ Emitido(tx.ev)
          /\ tx.hallada => reserva[tx.ev.orden] = "activa"
    BY <1>3, <1>4, <1>5 DEF IInv, LiberacionesAbiertas
  <2>3. \A t1, t2 \in liberando' : t1.ev.orden = t2.ev.orden => t1 = t2
    BY <1>3, <1>4, <1>5, <2>1 DEF IInv, LiberacionesAbiertas
  <2> QED BY <2>2, <2>3 DEF LiberacionesAbiertas, Emitido
<1>8. UnVeredicto' BY DEF IInv, UnVeredicto, Recibido
<1>9. UnidadesConservadas' BY DEF IInv, UnidadesConservadas
<1>10. CreadaUnaVez' BY DEF IInv, CreadaUnaVez
<1>11. RecibidosExisten' BY DEF IInv, RecibidosExisten, Emitido
<1>12. ReservaSegunEventos' BY DEF IInv, ReservaSegunEventos
<1> QED BY <1>6, <1>7, <1>8, <1>9, <1>10, <1>11, <1>12 DEF IInv

\* A release gives back what it read, for an order that is cancelled.
LEMMA LiberarCumple ==
  ASSUME IInv, NEW o \in Orden, NEW tx \in liberando, tx.ev.orden = o,
         Liberar(tx), UNCHANGED ordenVars
  PROVE  IInv'
<1> USE DEF ordenVars
<1>1. emitidos \in Contadores BY DEF IInv, TypeOK, BusTypeOK, Contadores
<1>2. /\ tx.ev \in Evento /\ Emitido(tx.ev) /\ tx.ev.tipo = "orden.cancelada"
      /\ tx.hallada => reserva[o] = "activa"
      /\ \A t2 \in liberando : t2.ev.orden = o => t2 = tx
  BY DEF IInv, TypeOK, StockTypeOK, Liberacion, LiberacionesAbiertas
<1>3. /\ liberando' = liberando \ {tx}
      /\ recibidosStock' = recibidosStock \cup {tx.ev}
      /\ reserva' = [reserva EXCEPT ![o] = IF @ = "ninguna" THEN @ ELSE "liberada"]
      /\ UNCHANGED <<alerta, ajustado, lineas, orden, recibidosOrdenes>>
  BY DEF Liberar, MarcarLiberada
<1>4. orden[o] = "cancelada"
  <2>1. emitidos["orden.cancelada"][o] > 0
    BY <1>1, <1>2 DEF Emitido, Evento, Contadores, Tipo
  <2> QED BY <2>1 DEF IInv, UnVeredicto
<1>5. \A o2 \in Orden : Recibido("orden.creada", o2)' <=> Recibido("orden.creada", o2)
  BY <1>2, <1>3 DEF Recibido
<1>6. reserva' \in [Orden -> {"ninguna", "activa", "liberada"}]
  BY <1>3 DEF IInv, TypeOK, StockTypeOK
<1>7. recibidosStock' \subseteq Evento /\ liberando' \subseteq Liberacion
  BY <1>2, <1>3 DEF IInv, TypeOK, StockTypeOK
<1>8. CASE ~tx.hallada /\ UNCHANGED <<stock, emitidos>>
  <2>1. TypeOK'
    BY <1>3, <1>6, <1>7, <1>8 DEF IInv, TypeOK, BusTypeOK, OrdenTypeOK, StockTypeOK
  <2>2. UnVeredicto' BY <1>3, <1>5, <1>8 DEF IInv, UnVeredicto
  <2>3. UnidadesConservadas' BY <1>3, <1>8 DEF IInv, UnidadesConservadas
  <2>4. CreadaUnaVez' BY <1>3, <1>8 DEF IInv, CreadaUnaVez
  <2>5. RecibidosExisten' BY <1>2, <1>3, <1>8 DEF IInv, RecibidosExisten, Emitido
  <2>6. LiberacionesAbiertas'
    BY <1>2, <1>3, <1>8 DEF IInv, TypeOK, StockTypeOK, LiberacionesAbiertas, Liberacion, Emitido
  <2>7. ReservaSegunEventos'
    BY <1>3, <1>4, <1>8 DEF IInv, TypeOK, StockTypeOK, ReservaSegunEventos
  <2> QED BY <2>1, <2>2, <2>3, <2>4, <2>5, <2>6, <2>7 DEF IInv
<1>9. CASE /\ tx.hallada
           /\ stock' = Devolver(lineas[o])
           /\ Publica("stock.liberado", o)
  <2>1. "stock.liberado" \in Tipo BY DEF Tipo
  <2>2. /\ emitidos' \in Contadores
        /\ emitidos'["stock.liberado"][o] = emitidos["stock.liberado"][o] + 1
        /\ \A t2 \in Tipo, o2 \in Orden :
              t2 # "stock.liberado" \/ o2 # o => emitidos'[t2][o2] = emitidos[t2][o2]
        /\ \A e \in Evento : Emitido(e) => Emitido(e)'
    BY <1>1, <1>9, <2>1, PublicaSuma
  <2>3. /\ stock' \in [Producto -> Fila]
        /\ \A p \in Producto : stock'[p].disponible + stock'[p].reservado
                              = stock[p].disponible + stock[p].reservado
    <3> DEFINE n == [p \in Producto |-> -lineas[o][p]]
    <3>1. /\ stock \in [Producto -> Fila]
          /\ \A p \in Producto : lineas[o][p] \in Nat /\ stock[p].disponible \in Nat
      BY DEF Fila, IInv, TypeOK, StockTypeOK, BusTypeOK, Lineas, SinLineas
    <3>2. n \in [Producto -> Int] BY <3>1
    <3>3. \A p \in Producto : stock[p].disponible - n[p] \in Nat BY <3>1
    <3>4. stock' = [p \in Producto |-> Trasladar(stock[p], n[p])]
      BY <1>9 DEF Devolver
    <3> HIDE DEF n
    <3> QED BY <3>1, <3>2, <3>3, <3>4, TrasladarFilas
  <2>4. TypeOK'
    BY <1>3, <1>6, <1>7, <2>2, <2>3
    DEF Fila, IInv, TypeOK, BusTypeOK, OrdenTypeOK, StockTypeOK, Contadores
  <2>5. UnVeredicto' BY <1>3, <1>5, <2>2 DEF IInv, UnVeredicto, Tipo
  <2>6. UnidadesConservadas' BY <1>3, <2>3 DEF IInv, UnidadesConservadas
  <2>7. CreadaUnaVez' BY <1>3, <2>2 DEF IInv, CreadaUnaVez, Tipo
  <2>8. RecibidosExisten'
    BY <1>2, <1>3, <2>2 DEF IInv, TypeOK, StockTypeOK, RecibidosExisten
  <2>9. LiberacionesAbiertas'
    BY <1>2, <1>3, <2>2 DEF IInv, TypeOK, StockTypeOK, LiberacionesAbiertas, Liberacion
  <2>10. ReservaSegunEventos'
    BY <1>2, <1>3, <1>4, <1>9, <2>2 DEF IInv, TypeOK, StockTypeOK, ReservaSegunEventos, Tipo
  <2> QED BY <2>4, <2>5, <2>6, <2>7, <2>8, <2>9, <2>10 DEF IInv
<1> QED BY <1>8, <1>9 DEF Liberar

\* A release that is rolled back leaves no trace.
LEMMA AbortarLiberacionCumple ==
  ASSUME IInv, NEW tx \in liberando, AbortarLiberacion(tx), UNCHANGED ordenVars
  PROVE  IInv'
<1> USE DEF AbortarLiberacion, ordenVars, busVars
<1>1. TypeOK' BY DEF IInv, TypeOK, BusTypeOK, OrdenTypeOK, StockTypeOK
<1>2. UnVeredicto' BY DEF IInv, UnVeredicto, Recibido
<1>3. UnidadesConservadas' BY DEF IInv, UnidadesConservadas
<1>4. CreadaUnaVez' BY DEF IInv, CreadaUnaVez
<1>5. RecibidosExisten' BY DEF IInv, RecibidosExisten, Emitido
<1>6. LiberacionesAbiertas' BY DEF IInv, LiberacionesAbiertas, Emitido
<1>7. ReservaSegunEventos' BY DEF IInv, ReservaSegunEventos
<1> QED BY <1>1, <1>2, <1>3, <1>4, <1>5, <1>6, <1>7 DEF IInv

\* The warehouse's operations touch neither orders nor events.
LEMMA PasoAlmacenCumple ==
  ASSUME IInv, NEW p \in Producto, PasoAlmacen(p)
  PROVE  IInv'
<1>1. /\ UNCHANGED <<orden, recibidosOrdenes, emitidos, lineas, reserva,
                     recibidosStock, liberando>>
  BY DEF PasoAlmacen, OnProductoCreado, Ajustar, ResolverAlerta, ordenVars, busVars
<1>2. /\ UnVeredicto' /\ CreadaUnaVez' /\ RecibidosExisten'
      /\ LiberacionesAbiertas' /\ ReservaSegunEventos'
  BY <1>1 DEF IInv, UnVeredicto, Recibido, CreadaUnaVez, RecibidosExisten,
      LiberacionesAbiertas, ReservaSegunEventos, Emitido
<1>3. /\ stock' \in [Producto -> Fila]
      /\ alerta' \in [Producto -> {"ninguna", "stock_bajo", "stock_agotado"}]
      /\ ajustado' \in [Producto -> Int]
      /\ UnidadesConservadas'
  <2>1. /\ stock \in [Producto -> Fila] /\ ajustado \in [Producto -> Int]
        /\ alerta \in [Producto -> {"ninguna", "stock_bajo", "stock_agotado"}]
    BY DEF Fila, IInv, TypeOK, StockTypeOK
  <2>2. CASE OnProductoCreado(p)
    BY <2>1, <2>2 DEF OnProductoCreado, Fila, IInv, UnidadesConservadas
  <2>3. CASE ResolverAlerta(p)
    BY <2>1, <2>3 DEF ResolverAlerta, IInv, UnidadesConservadas
  <2>4. ASSUME NEW delta \in Delta, Ajustar(p, delta)
        PROVE  /\ stock' \in [Producto -> Fila]
               /\ alerta' \in [Producto -> {"ninguna", "stock_bajo", "stock_agotado"}]
               /\ ajustado' \in [Producto -> Int]
               /\ UnidadesConservadas'
    BY <2>1, <2>4 DEF Ajustar, ConAlertas, TipoAlerta, Fila, IInv, UnidadesConservadas
  <2> QED BY <2>2, <2>3, <2>4 DEF PasoAlmacen
<1>4. TypeOK'
  BY <1>1, <1>3 DEF Fila, IInv, TypeOK, BusTypeOK, OrdenTypeOK, StockTypeOK
<1> QED BY <1>2, <1>3, <1>4 DEF IInv

\* IInv is inductive: every operation of either service keeps it.
THEOREM SiempreIInv == Spec => []IInv
<1>1. IInv /\ [Next]_vars => IInv'
  <2> SUFFICES ASSUME IInv, [Next]_vars PROVE IInv' OBVIOUS
  <2>1. ASSUME NEW o \in Orden, PasoOrdenes(o) PROVE IInv'
    <3>1. CASE \E ev \in EventosDe("stock.reservado", o) : OnStockReservado(ev)
      BY <2>1, <3>1, AplicarVeredictoCumple DEF PasoOrdenes, OnStockReservado
    <3>2. CASE \E ev \in EventosDe("stock.insuficiente", o) : OnStockInsuficiente(ev)
      BY <2>1, <3>2, AplicarVeredictoCumple DEF PasoOrdenes, OnStockInsuficiente
    <3> QED BY <2>1, <3>1, <3>2, CrearOrdenCumple, CancelarOrdenCumple DEF PasoOrdenes
  <2>2. ASSUME NEW o \in Orden, PasoStock(o) PROVE IInv'
    BY <2>2, OnOrdenCreadaCumple, LeerReservasCumple, LiberarCumple,
       AbortarLiberacionCumple DEF PasoStock
  <2>3. CASE UNCHANGED vars
    <3> USE <2>3 DEF vars, busVars, ordenVars, stockVars
    <3>1. TypeOK' BY DEF IInv, TypeOK, BusTypeOK, OrdenTypeOK, StockTypeOK
    <3>2. UnVeredicto' BY DEF IInv, UnVeredicto, Recibido
    <3>3. UnidadesConservadas' BY DEF IInv, UnidadesConservadas
    <3>4. CreadaUnaVez' BY DEF IInv, CreadaUnaVez
    <3>5. RecibidosExisten' BY DEF IInv, RecibidosExisten, Emitido
    <3>6. LiberacionesAbiertas' BY DEF IInv, LiberacionesAbiertas, Emitido
    <3>7. ReservaSegunEventos' BY DEF IInv, ReservaSegunEventos
    <3> QED BY <3>1, <3>2, <3>3, <3>4, <3>5, <3>6, <3>7 DEF IInv
  <2> QED BY <2>1, <2>2, <2>3, PasoAlmacenCumple DEF Next
<1> QED BY <1>1, InicioCumple, PTL DEF Spec

\* Rows, events and reservations keep their types; disponible is never negative.
THEOREM TiposCorrectos == Spec => []TypeOK
<1>1. IInv => TypeOK BY DEF IInv
<1> QED BY <1>1, SiempreIInv, PTL

\* onStockReservado confirms only what onOrdenCreada reserved, and no release
\* reaches a confirmed order.
THEOREM ConfirmadaConserva == Spec => []ConfirmadaTieneReserva
<1>1. IInv => ConfirmadaTieneReserva
  BY DEF IInv, TypeOK, OrdenTypeOK, StockTypeOK, ReservaSegunEventos,
      ConfirmadaTieneReserva
<1> QED BY <1>1, SiempreIInv, PTL

\* onOrdenCreada answers an order once, and svc-ordenes announces one outcome.
THEOREM VeredictoUnico == Spec => []UnVeredicto
<1>1. IInv => UnVeredicto BY DEF IInv
<1> QED BY <1>1, SiempreIInv, PTL

\* Reserving, releasing, even twice over or too late, and adjusting keep the
\* books of svc-stock balanced.
THEOREM LibrosCuadran == Spec => []UnidadesConservadas
<1>1. IInv => UnidadesConservadas BY DEF IInv
<1> QED BY <1>1, SiempreIInv, PTL

-----------------------------------------------------------------------------
(* The units behind `reservado', order by order.                               *)

\* An order holds as many units of a product as its lines ask for.
LEMMA UnidadesDeUna ==
  ASSUME NEW o, NEW n \in Nat
  PROVE  IsFiniteSet({o} \X (1..n)) /\ Cardinality({o} \X (1..n)) = n
<1>1. IsFiniteSet({o}) /\ Cardinality({o}) = 1 BY FS_Singleton
<1>2. IsFiniteSet(1..n) /\ Cardinality(1..n) = n BY FS_Interval
<1>3. /\ IsFiniteSet({o} \X (1..n))
      /\ Cardinality({o} \X (1..n)) = Cardinality({o}) * Cardinality(1..n)
  BY <1>1, <1>2, FS_Product
<1> QED BY <1>1, <1>2, <1>3

\* Units of an order that held none come on top of the others.
LEMMA SumarUnidades ==
  ASSUME NEW S, IsFiniteSet(S), NEW o, NEW n \in Nat, \A k \in 1..n : <<o, k>> \notin S
  PROVE  /\ IsFiniteSet(S \cup ({o} \X (1..n)))
         /\ Cardinality(S \cup ({o} \X (1..n))) = Cardinality(S) + n
<1> DEFINE T == {o} \X (1..n)
<1>1. IsFiniteSet(T) /\ Cardinality(T) = n BY UnidadesDeUna
<1>2. S \cap T = {} OBVIOUS
<1> HIDE DEF T
<1>3. /\ IsFiniteSet(S \cup T)
      /\ Cardinality(S \cup T) = Cardinality(S) + Cardinality(T) - Cardinality(S \cap T)
  BY <1>1, FS_Union
<1>4. Cardinality(S) \in Nat BY FS_CardinalityType
<1>5. Cardinality(S \cap T) = 0 BY <1>2, FS_EmptySet
<1>6. Cardinality(S \cup T) = Cardinality(S) + n BY <1>1, <1>3, <1>4, <1>5
<1> QED BY <1>3, <1>6 DEF T

\* And when they are given back, all of them and no other are gone.
LEMMA QuitarUnidades ==
  ASSUME NEW S, IsFiniteSet(S), NEW o, NEW n \in Nat, {o} \X (1..n) \subseteq S
  PROVE  /\ IsFiniteSet(S \ ({o} \X (1..n)))
         /\ Cardinality(S \ ({o} \X (1..n))) = Cardinality(S) - n
<1> DEFINE T == {o} \X (1..n)
<1>1. IsFiniteSet(T) /\ Cardinality(T) = n BY UnidadesDeUna
<1>2. S \cap T = T OBVIOUS
<1> HIDE DEF T
<1>3. /\ IsFiniteSet(S \ T)
      /\ Cardinality(S \ T) = Cardinality(S) - Cardinality(S \cap T)
  BY FS_Difference
<1> QED BY <1>1, <1>2, <1>3 DEF T

\* What the lines of an order ask for is a number of units.
LEMMA CantidadDeLinea ==
  ASSUME IInv, NEW o \in Orden, NEW p \in Producto
  PROVE  /\ lineas[o][p] \in Nat /\ lineas[o][p] <= MaxCantidad
         /\ lineas[o] \in [Producto -> Int]
  BY DEF IInv, TypeOK, BusTypeOK, Lineas, SinLineas

\* As long as the same orders hold units, for the lines they had, they hold the same.
LEMMA MismasUnidades ==
  ASSUME \A o \in Orden : Retiene(o)' <=> Retiene(o),
         \A o \in Orden : Retiene(o) => lineas'[o] = lineas[o],
         NEW p \in Producto
  PROVE  Unidades(p)' = Unidades(p)
<1>1. \A u \in Orden \X (1..MaxCantidad) :
        (Retiene(u[1]) /\ u[2] <= lineas[u[1]][p])
          <=> (Retiene(u[1])' /\ u[2] <= lineas'[u[1]][p])
  OBVIOUS
<1> QED BY <1>1 DEF Unidades

\* The sum stands when no order's lines begin or cease to hold units and no row moves.
LEMMA SigueCuadrando ==
  ASSUME Cuadra,
         \A o \in Orden : Retiene(o)' <=> Retiene(o),
         \A o \in Orden : Retiene(o) => lineas'[o] = lineas[o],
         \A p \in Producto : stock'[p].reservado = stock[p].reservado
  PROVE  Cuadra'
<1>1. \A p \in Producto : Unidades(p)' = Unidades(p) BY MismasUnidades
<1> QED BY <1>1 DEF Cuadra, ReservadoSegunEventos, Retenidas

\* An emission of another type leaves every order with what it held.
LEMMA RetieneIgual ==
  ASSUME emitidos \in Contadores, NEW t \in Tipo, NEW o \in Orden, Publica(t, o),
         t # "stock.reservado", t # "stock.liberado"
  PROVE  \A o2 \in Orden : Retiene(o2)' <=> Retiene(o2)
<1>1. \A o2 \in Orden : /\ emitidos'["stock.reservado"][o2] = emitidos["stock.reservado"][o2]
                        /\ emitidos'["stock.liberado"][o2] = emitidos["stock.liberado"][o2]
  BY PublicaSuma DEF Tipo
<1> QED BY <1>1 DEF Retiene

\* svc-ordenes gives lines only to an order that does not exist yet, and that one
\* cannot hold anything.
LEMMA PasoOrdenesCuadra ==
  ASSUME IInv, Cuadra, NEW o \in Orden, PasoOrdenes(o)
  PROVE  Cuadra'
<1>1. emitidos \in Contadores BY DEF IInv, TypeOK, BusTypeOK, Contadores
<1>2. stock' = stock BY DEF PasoOrdenes, stockVars
<1>3. CASE CrearOrden(o)
  <2>1. \A o2 \in Orden : Retiene(o2)' <=> Retiene(o2)
    BY <1>1, <1>3, RetieneIgual DEF CrearOrden, Tipo
  <2>2. ~Retiene(o)
    <3>1. emitidos["orden.creada"][o] = 0 BY <1>3 DEF CrearOrden, IInv, CreadaUnaVez
    <3>2. ~Recibido("orden.creada", o)
      <4> SUFFICES ASSUME NEW ev \in recibidosStock, ev.tipo = "orden.creada", ev.orden = o
                   PROVE  FALSE
        BY DEF Recibido
      <4>1. ev \in Evento /\ Emitido(ev) BY DEF IInv, TypeOK, StockTypeOK, RecibidosExisten
      <4> QED BY <3>1, <4>1 DEF Emitido, Evento
    <3>3. emitidos["stock.reservado"][o] + emitidos["stock.insuficiente"][o] = 0
      BY <3>2 DEF IInv, UnVeredicto
    <3>4. emitidos["stock.reservado"][o] \in Nat /\ emitidos["stock.insuficiente"][o] \in Nat
      BY <1>1 DEF Contadores, Tipo
    <3> QED BY <3>3, <3>4 DEF Retiene
  <2>3. \A o2 \in Orden : o2 # o => lineas'[o2] = lineas[o2]
    BY <1>3 DEF CrearOrden, IInv, TypeOK, BusTypeOK
  <2> QED BY <1>2, <2>1, <2>2, <2>3, SigueCuadrando
<1>4. CASE CancelarOrden(o)
  <2>1. \A o2 \in Orden : Retiene(o2)' <=> Retiene(o2)
    BY <1>1, <1>4, RetieneIgual DEF CancelarOrden, Tipo
  <2> QED BY <1>2, <1>4, <2>1, SigueCuadrando DEF CancelarOrden
<1>5. ASSUME NEW t \in {"stock.reservado", "stock.insuficiente"}, NEW ev \in EventosDe(t, o),
             NEW estado, NEW aviso \in {"orden.confirmada", "orden.cancelada"},
             AplicarVeredicto(ev, estado, aviso)
      PROVE  Cuadra'
  <2>1. ev.orden = o BY <1>1, EventosDeEmitidos DEF Tipo
  <2>2. \A o2 \in Orden : Retiene(o2)' <=> Retiene(o2)
    <3>1. CASE Publica(aviso, o) BY <1>1, <3>1, RetieneIgual DEF Tipo
    <3>2. CASE UNCHANGED emitidos BY <3>2 DEF Retiene
    <3> QED BY <1>5, <2>1, <3>1, <3>2 DEF AplicarVeredicto
  <2> QED BY <1>2, <1>5, <2>2, SigueCuadrando DEF AplicarVeredicto
<1>6. CASE \E ev \in EventosDe("stock.reservado", o) : OnStockReservado(ev)
  BY <1>5, <1>6 DEF OnStockReservado
<1>7. CASE \E ev \in EventosDe("stock.insuficiente", o) : OnStockInsuficiente(ev)
  BY <1>5, <1>7 DEF OnStockInsuficiente
<1> QED BY <1>3, <1>4, <1>6, <1>7 DEF PasoOrdenes

\* Moving the units of the lines of one order changes `reservado' by as many.
LEMMA ReservadoTrasMover ==
  ASSUME IInv, NEW n \in [Producto -> Int],
         \A p \in Producto : stock[p].disponible - n[p] \in Nat,
         stock' = [p \in Producto |-> Trasladar(stock[p], n[p])]
  PROVE  \A p \in Producto : stock'[p].reservado = stock[p].reservado + n[p]
<1>1. stock \in [Producto -> Fila] BY DEF IInv, TypeOK, StockTypeOK, Fila
<1>2. /\ stock' \in [Producto -> Fila]
      /\ \A p \in Producto : stock'[p].disponible = stock[p].disponible - n[p]
      /\ \A p \in Producto : stock'[p].disponible + stock'[p].reservado
                            = stock[p].disponible + stock[p].reservado
  BY <1>1, TrasladarFilas
<1> TAKE p \in Producto
<1>3. /\ stock[p].disponible \in Nat /\ stock[p].reservado \in Int
      /\ stock'[p].disponible \in Nat /\ stock'[p].reservado \in Int
      /\ n[p] \in Int
  BY <1>1, <1>2 DEF Fila
<1> QED BY <1>2, <1>3

\* The first verdict of an order, a reservation, adds its units and no other's.
LEMMA OnOrdenCreadaCuadra ==
  ASSUME IInv, Cuadra, NEW o \in Orden, NEW ev \in EventosDe("orden.creada", o),
         OnOrdenCreada(ev), UNCHANGED ordenVars
  PROVE  Cuadra'
<1>1. emitidos \in Contadores BY DEF IInv, TypeOK, BusTypeOK, Contadores
<1>2. ev.orden = o /\ lineas' = lineas
  BY <1>1, EventosDeEmitidos DEF Tipo, OnOrdenCreada
<1>3. CASE Publica("stock.insuficiente", o) /\ UNCHANGED stock
  <2>1. \A o2 \in Orden : Retiene(o2)' <=> Retiene(o2) BY <1>1, <1>3, RetieneIgual DEF Tipo
  <2> QED BY <1>2, <1>3, <2>1, SigueCuadrando
<1>4. CASE /\ \A p \in Producto : Suficiente(stock[p].disponible, lineas[o][p])
           /\ stock' = Mover(lineas[o])
           /\ Publica("stock.reservado", o)
  <2>1. IInv'
    BY <1>1, OnOrdenCreadaCumple
  <2>2. /\ emitidos' \in Contadores
        /\ emitidos'["stock.reservado"][o] = emitidos["stock.reservado"][o] + 1
        /\ \A t2 \in Tipo, o2 \in Orden :
              t2 # "stock.reservado" \/ o2 # o => emitidos'[t2][o2] = emitidos[t2][o2]
    BY <1>1, <1>4, PublicaSuma DEF Tipo
  <2>3. /\ emitidos["stock.reservado"][o] \in Nat /\ emitidos["stock.liberado"][o] \in Nat
        /\ emitidos'["stock.reservado"][o] \in Nat /\ emitidos'["stock.insuficiente"][o] \in Nat
    BY <1>1, <2>2 DEF Contadores, Tipo
  <2>4. emitidos["stock.reservado"][o] = 0 /\ emitidos["stock.liberado"][o] = 0
    <3>1. emitidos'["stock.reservado"][o] + emitidos'["stock.insuficiente"][o] <= 1
      BY <2>1 DEF IInv, UnVeredicto
    <3>2. emitidos["stock.reservado"][o] = 0 BY <2>2, <2>3, <3>1
    <3> QED BY <2>3, <3>2 DEF IInv, ReservaSegunEventos
  <2>5. /\ ~Retiene(o) /\ Retiene(o)'
        /\ \A o2 \in Orden : o2 # o => (Retiene(o2)' <=> Retiene(o2))
    BY <2>2, <2>4 DEF Retiene, Tipo
  <2>6. ASSUME NEW p \in Producto
        PROVE  /\ IsFiniteSet(Unidades(p)')
               /\ Cardinality(Unidades(p)') = Cardinality(Unidades(p)) + lineas[o][p]
    <3>1. lineas[o][p] \in Nat /\ lineas[o][p] <= MaxCantidad BY CantidadDeLinea
    <3>2. Unidades(p)' = Unidades(p) \cup ({o} \X (1..lineas[o][p]))
      <4>1. ASSUME NEW u \in Orden \X (1..MaxCantidad)
            PROVE  (Retiene(u[1])' /\ u[2] <= lineas'[u[1]][p])
                     <=> \/ Retiene(u[1]) /\ u[2] <= lineas[u[1]][p]
                         \/ u[1] = o /\ u[2] <= lineas[o][p]
        BY <1>2, <2>5
      <4>2. {o} \X (1..lineas[o][p])
              = {u \in Orden \X (1..MaxCantidad) : u[1] = o /\ u[2] <= lineas[o][p]}
        BY <3>1
      <4> QED BY <4>1, <4>2 DEF Unidades
    <3>3. \A k \in 1..lineas[o][p] : <<o, k>> \notin Unidades(p) BY <2>5 DEF Unidades
    <3>4. IsFiniteSet(Unidades(p)) BY DEF Cuadra
    <3>5. /\ IsFiniteSet(Unidades(p) \cup ({o} \X (1..lineas[o][p])))
          /\ Cardinality(Unidades(p) \cup ({o} \X (1..lineas[o][p])))
               = Cardinality(Unidades(p)) + lineas[o][p]
      BY <3>1, <3>3, <3>4, SumarUnidades
    <3> QED BY <3>2, <3>5
  <2>7. \A p \in Producto : stock'[p].reservado = stock[p].reservado + lineas[o][p]
    <3>1. \A p \in Producto : stock[p].disponible - lineas[o][p] \in Nat
      BY <1>4, CantidadDeLinea DEF Suficiente, IInv, TypeOK, StockTypeOK
    <3>2. lineas[o] \in [Producto -> Int]
      BY DEF IInv, TypeOK, BusTypeOK, Lineas, SinLineas
    <3> QED BY <1>4, <3>1, <3>2, ReservadoTrasMover DEF Mover
  <2> QED BY <2>6, <2>7 DEF Cuadra, ReservadoSegunEventos, Retenidas
<1> QED BY <1>2, <1>3, <1>4 DEF OnOrdenCreada

\* A release takes the units of its order off, and it held them.
LEMMA LiberarCuadra ==
  ASSUME IInv, Cuadra, NEW o \in Orden, NEW tx \in liberando, tx.ev.orden = o,
         Liberar(tx), UNCHANGED ordenVars
  PROVE  Cuadra'
<1>1. emitidos \in Contadores /\ lineas' = lineas
  BY DEF IInv, TypeOK, BusTypeOK, Contadores, Liberar
<1>2. CASE UNCHANGED <<stock, emitidos>>
  BY <1>1, <1>2, SigueCuadrando DEF Retiene
<1>3. CASE tx.hallada /\ stock' = Devolver(lineas[o]) /\ Publica("stock.liberado", o)
  <2>1. /\ emitidos' \in Contadores
        /\ emitidos'["stock.liberado"][o] = emitidos["stock.liberado"][o] + 1
        /\ \A t2 \in Tipo, o2 \in Orden :
              t2 # "stock.liberado" \/ o2 # o => emitidos'[t2][o2] = emitidos[t2][o2]
    BY <1>1, <1>3, PublicaSuma DEF Tipo
  <2>2. /\ emitidos["stock.reservado"][o] \in Nat /\ emitidos["stock.liberado"][o] \in Nat
    BY <1>1 DEF Contadores, Tipo
  <2>3. reserva[o] = "activa" BY <1>3 DEF IInv, LiberacionesAbiertas
  <2>4. emitidos["stock.reservado"][o] > 0 /\ emitidos["stock.liberado"][o] = 0
    BY <2>2, <2>3 DEF IInv, ReservaSegunEventos
  <2>5. /\ Retiene(o) /\ ~Retiene(o)'
        /\ \A o2 \in Orden : o2 # o => (Retiene(o2)' <=> Retiene(o2))
    BY <2>1, <2>4 DEF Retiene, Tipo
  <2>6. ASSUME NEW p \in Producto
        PROVE  /\ IsFiniteSet(Unidades(p)')
               /\ Cardinality(Unidades(p)') = Cardinality(Unidades(p)) - lineas[o][p]
    <3>1. lineas[o][p] \in Nat /\ lineas[o][p] <= MaxCantidad BY CantidadDeLinea
    <3>2. {o} \X (1..lineas[o][p])
            = {u \in Orden \X (1..MaxCantidad) : u[1] = o /\ u[2] <= lineas[o][p]}
      BY <3>1
    <3>3. Unidades(p)' = Unidades(p) \ ({o} \X (1..lineas[o][p]))
      <4>1. ASSUME NEW u \in Orden \X (1..MaxCantidad)
            PROVE  (Retiene(u[1])' /\ u[2] <= lineas'[u[1]][p])
                     <=> /\ Retiene(u[1]) /\ u[2] <= lineas[u[1]][p]
                         /\ ~(u[1] = o /\ u[2] <= lineas[o][p])
        BY <1>1, <2>5
      <4> QED BY <3>2, <4>1 DEF Unidades
    <3>4. {o} \X (1..lineas[o][p]) \subseteq Unidades(p) BY <2>5, <3>2 DEF Unidades
    <3>5. IsFiniteSet(Unidades(p)) BY DEF Cuadra
    <3>6. /\ IsFiniteSet(Unidades(p) \ ({o} \X (1..lineas[o][p])))
          /\ Cardinality(Unidades(p) \ ({o} \X (1..lineas[o][p])))
               = Cardinality(Unidades(p)) - lineas[o][p]
      BY <3>1, <3>4, <3>5, QuitarUnidades
    <3> QED BY <3>3, <3>6
  <2>7. \A p \in Producto : stock'[p].reservado = stock[p].reservado - lineas[o][p]
    <3> DEFINE n == [p \in Producto |-> -lineas[o][p]]
    <3>1. \A p \in Producto : /\ lineas[o][p] \in Nat /\ stock[p].disponible \in Nat
                              /\ stock[p].reservado \in Int
      BY CantidadDeLinea DEF IInv, TypeOK, StockTypeOK
    <3>2. /\ n \in [Producto -> Int]
          /\ \A p \in Producto : stock[p].disponible - n[p] \in Nat
          /\ \A p \in Producto : stock[p].reservado + n[p] = stock[p].reservado - lineas[o][p]
      BY <3>1
    <3>3. stock' = [p \in Producto |-> Trasladar(stock[p], n[p])] BY <1>3 DEF Devolver
    <3> HIDE DEF n
    <3>4. \A p \in Producto : stock'[p].reservado = stock[p].reservado + n[p]
      BY <3>2, <3>3, ReservadoTrasMover
    <3> QED BY <3>2, <3>4
  <2> QED BY <2>6, <2>7 DEF Cuadra, ReservadoSegunEventos, Retenidas
<1> QED BY <1>2, <1>3 DEF Liberar

\* The operator's adjustments and the products leave `reservado' alone.
LEMMA PasoAlmacenCuadra ==
  ASSUME IInv, Cuadra, NEW p \in Producto, PasoAlmacen(p)
  PROVE  Cuadra'
<1>1. UNCHANGED <<emitidos, lineas>>
  BY DEF PasoAlmacen, OnProductoCreado, Ajustar, ResolverAlerta, busVars
<1>2. \A q \in Producto : stock'[q].reservado = stock[q].reservado
  <2>1. stock \in [Producto -> [fila : BOOLEAN, disponible : Nat, reservado : Int]]
    BY DEF IInv, TypeOK, StockTypeOK
  <2>2. CASE OnProductoCreado(p) BY <2>1, <2>2 DEF OnProductoCreado
  <2>3. ASSUME NEW delta \in Delta, Ajustar(p, delta)
       PROVE  \A q \in Producto : stock'[q].reservado = stock[q].reservado
    BY <2>1, <2>3 DEF Ajustar
  <2>4. CASE ResolverAlerta(p) BY <2>4 DEF ResolverAlerta
  <2> QED BY <2>2, <2>3, <2>4 DEF PasoAlmacen
<1> QED BY <1>1, <1>2, SigueCuadrando DEF Retiene

\* reservado is exactly what the reservations announced and not given back hold:
\* onOrdenCreada and onOrdenCancelada, repeated, reordered or rolled back, neither
\* promise a unit twice nor give one back twice.
THEOREM ReservadoCuadra == Spec => []ReservadoSegunEventos
<1>1. Init => Cuadra
  <2> SUFFICES ASSUME Init, NEW p \in Producto
               PROVE  IsFiniteSet(Unidades(p)) /\ stock[p].reservado = Retenidas(p)
    BY DEF Cuadra, ReservadoSegunEventos
  <2>1. Unidades(p) = {} BY DEF Unidades, Retiene, Init, BusInit, Tipo
  <2> QED BY <2>1, FS_EmptySet DEF Retenidas, Init, StockInit
<1>2. IInv /\ Cuadra /\ [Next]_vars => Cuadra'
  <2> SUFFICES ASSUME IInv, Cuadra, [Next]_vars PROVE Cuadra' OBVIOUS
  <2>1. ASSUME NEW o \in Orden, PasoStock(o) PROVE Cuadra'
    <3>1. CASE UNCHANGED <<stock, busVars>>
      BY <3>1, SigueCuadrando DEF busVars, Retiene
    <3> QED BY <2>1, <3>1, OnOrdenCreadaCuadra, LiberarCuadra
         DEF PasoStock, LeerReservas, AbortarLiberacion
  <2>2. CASE UNCHANGED vars
    BY <2>2, SigueCuadrando DEF vars, busVars, stockVars, Retiene
  <2> QED BY <2>1, <2>2, PasoOrdenesCuadra, PasoAlmacenCuadra DEF Next
<1>3. Cuadra => ReservadoSegunEventos BY DEF Cuadra
<1> QED BY <1>1, <1>2, <1>3, SiempreIInv, PTL DEF Spec
-----------------------------------------------------------------------------
\* What Apartado is, order by order.
LEMMA ApartadoPorOrden ==
  /\ Apartado = [o \in Orden |-> Apartado[o]]
  /\ \A o \in Orden :
       Apartado[o] = IF emitidos["stock.reservado"][o] = 0 THEN "no"
                     ELSE IF emitidos["stock.liberado"][o] = 0 THEN "si" ELSE "devuelto"
  BY DEF Apartado

\* An event that is neither of the two leaves what is set apart as it is.
LEMMA ApartadoIgual ==
  ASSUME emitidos \in Contadores, NEW t \in Tipo, NEW o \in Orden, Publica(t, o),
         t # "stock.reservado", t # "stock.liberado"
  PROVE  Apartado' = Apartado
<1>1. \A o2 \in Orden : /\ emitidos'["stock.reservado"][o2] = emitidos["stock.reservado"][o2]
                        /\ emitidos'["stock.liberado"][o2] = emitidos["stock.liberado"][o2]
  BY PublicaSuma DEF Tipo
<1> QED BY <1>1 DEF Apartado

\* svc-ordenes creates, confirms over a reservation and cancels.
LEMMA PasoOrdenesCumpleCiclo ==
  ASSUME IInv, NEW o \in Orden, PasoOrdenes(o)
  PROVE  [Ciclo!Next]_Ciclo!vars
<1> USE DEF Ciclo!vars
<1>1. emitidos \in Contadores BY DEF IInv, TypeOK, BusTypeOK, Contadores
<1>2. CASE CrearOrden(o)
  <2>1. Apartado' = Apartado BY <1>1, <1>2, ApartadoIgual DEF CrearOrden, Tipo
  <2> QED BY <1>2, <2>1 DEF CrearOrden, Ciclo!Next, Ciclo!Crear
<1>3. CASE CancelarOrden(o)
  <2>1. Apartado' = Apartado BY <1>1, <1>3, ApartadoIgual DEF CancelarOrden, Tipo
  <2>2. orden[o] = "pendiente"
    BY <1>3 DEF CancelarOrden, PuedeTransicionar, TransicionesValidas, IInv, TypeOK,
         OrdenTypeOK, EstadoOrden
  <2> QED BY <1>3, <2>1, <2>2 DEF CancelarOrden, Ciclo!Next, Ciclo!Cancelar
<1>4. ASSUME NEW t \in {"stock.reservado", "stock.insuficiente"},
             NEW ev \in EventosDe(t, o), NEW estado, NEW aviso,
             \/ estado = "confirmada" /\ aviso = "orden.confirmada" /\ t = "stock.reservado"
             \/ estado = "cancelada" /\ aviso = "orden.cancelada",
             AplicarVeredicto(ev, estado, aviso)
      PROVE  [Ciclo!Next]_Ciclo!vars
  <2>1. ev \in Evento /\ ev.tipo = t /\ ev.orden = o /\ Emitido(ev)
    BY <1>1, EventosDeEmitidos DEF Tipo
  <2>2. CASE UNCHANGED <<orden, emitidos>>
    BY <2>2 DEF Apartado
  <2>3. CASE /\ orden[o] = "pendiente"
             /\ orden' = [orden EXCEPT ![o] = estado]
             /\ Publica(aviso, o)
    <3>1. Apartado' = Apartado BY <1>1, <1>4, <2>3, ApartadoIgual DEF Tipo
    <3>2. CASE estado = "cancelada"
      BY <2>3, <3>1, <3>2 DEF Ciclo!Next, Ciclo!Cancelar
    <3>3. CASE estado = "confirmada" /\ t = "stock.reservado"
      <4>1. emitidos["stock.reservado"][o] > 0
        BY <1>1, <2>1, <3>3 DEF Emitido, Contadores, Evento
      <4>2. emitidos["stock.liberado"][o] = 0
        BY <1>1, <2>3 DEF IInv, ReservaSegunEventos, Contadores, Tipo
      <4>3. Apartado[o] = "si" BY <4>1, <4>2, ApartadoPorOrden
      <4> QED BY <2>3, <3>1, <3>3, <4>3 DEF Ciclo!Next, Ciclo!Confirmar
    <3> QED BY <1>4, <3>2, <3>3
  <2> QED BY <1>4, <2>1, <2>2, <2>3 DEF AplicarVeredicto, SigueAbierta
<1>5. CASE \E ev \in EventosDe("stock.reservado", o) : OnStockReservado(ev)
  BY <1>4, <1>5 DEF OnStockReservado
<1>6. CASE \E ev \in EventosDe("stock.insuficiente", o) : OnStockInsuficiente(ev)
  BY <1>4, <1>6 DEF OnStockInsuficiente
<1> QED BY <1>2, <1>3, <1>5, <1>6 DEF PasoOrdenes

\* svc-stock sets units apart for an order and gives them back when it was
\* cancelled.
LEMMA PasoStockCumpleCiclo ==
  ASSUME IInv, NEW o \in Orden, PasoStock(o)
  PROVE  [Ciclo!Next]_Ciclo!vars
<1> USE DEF Ciclo!vars
<1>1. emitidos \in Contadores BY DEF IInv, TypeOK, BusTypeOK, Contadores
<1>2. orden' = orden BY DEF PasoStock, ordenVars
<1>3. ASSUME NEW ev \in EventosDe("orden.creada", o), OnOrdenCreada(ev)
      PROVE  [Ciclo!Next]_Ciclo!vars
  <2>1. ev \in Evento /\ ev.tipo = "orden.creada" /\ ev.orden = o /\ Emitido(ev)
    BY <1>1, EventosDeEmitidos DEF Tipo
  <2>2. CASE Publica("stock.insuficiente", o)
    BY <1>1, <1>2, <2>2, ApartadoIgual DEF Tipo
  <2>3. CASE reserva' = [reserva EXCEPT ![o] = "activa"] /\ Publica("stock.reservado", o)
    <3>1. orden[o] # "ninguna"
      <4>1. emitidos["orden.creada"][o] > 0
        BY <1>1, <2>1 DEF Emitido, Contadores, Evento
      <4> QED BY <4>1 DEF IInv, CreadaUnaVez
    <3>2. /\ emitidos' \in Contadores
          /\ emitidos'["stock.reservado"][o] = emitidos["stock.reservado"][o] + 1
          /\ \A t2 \in Tipo, o2 \in Orden :
                t2 # "stock.reservado" \/ o2 # o => emitidos'[t2][o2] = emitidos[t2][o2]
      BY <1>1, <2>3, PublicaSuma DEF Tipo
    <3>3. /\ emitidos'["stock.reservado"][o] = 1 /\ emitidos["stock.reservado"][o] = 0
          /\ emitidos["stock.liberado"][o] = 0
      <4>1. IInv'
        BY <1>3, OnOrdenCreadaCumple DEF PasoStock, LeerReservas, Liberar, AbortarLiberacion
      <4>2. /\ emitidos'["stock.reservado"][o] + emitidos'["stock.insuficiente"][o] <= 1
            /\ emitidos'["stock.insuficiente"][o] \in Nat
            /\ emitidos["stock.reservado"][o] \in Nat
            /\ emitidos["stock.liberado"][o] \in Nat
        BY <1>1, <3>2, <4>1 DEF IInv, UnVeredicto, Contadores, Tipo
      <4> QED BY <3>2, <4>2 DEF IInv, ReservaSegunEventos
    <3>4. Apartado[o] = "no" BY <3>3, ApartadoPorOrden
    <3>5. Apartado' = [Apartado EXCEPT ![o] = "si"]
      <4>1. \A o2 \in Orden : o2 # o =>
              /\ emitidos'["stock.reservado"][o2] = emitidos["stock.reservado"][o2]
              /\ emitidos'["stock.liberado"][o2] = emitidos["stock.liberado"][o2]
        BY <3>2 DEF Tipo
      <4>2. emitidos'["stock.reservado"][o] # 0
            /\ emitidos'["stock.liberado"][o] = 0
        BY <3>2, <3>3 DEF Tipo
      <4>3. Apartado' = [o2 \in Orden |-> IF o2 = o THEN "si" ELSE Apartado[o2]]
        BY <4>1, <4>2 DEF Apartado
      <4> QED BY <4>3, ApartadoPorOrden
    <3> QED BY <1>2, <3>1, <3>4, <3>5 DEF Ciclo!Next, Ciclo!Apartar
  <2> QED BY <1>3, <2>1, <2>2, <2>3 DEF OnOrdenCreada
<1>4. ASSUME NEW ev \in EventosDe("orden.cancelada", o), LeerReservas(ev)
      PROVE  [Ciclo!Next]_Ciclo!vars
  BY <1>2, <1>4 DEF LeerReservas, busVars, Apartado
<1>5. ASSUME NEW tx \in liberando, tx.ev.orden = o, Liberar(tx)
      PROVE  [Ciclo!Next]_Ciclo!vars
  <2>1. CASE UNCHANGED emitidos BY <1>2, <2>1 DEF Apartado
  <2>2. CASE tx.hallada /\ Publica("stock.liberado", o)
    <3>1. /\ emitidos'["stock.liberado"][o] = emitidos["stock.liberado"][o] + 1
          /\ \A t2 \in Tipo, o2 \in Orden :
                t2 # "stock.liberado" \/ o2 # o => emitidos'[t2][o2] = emitidos[t2][o2]
      BY <1>1, <2>2, PublicaSuma DEF Tipo
    <3>2. reserva[o] = "activa" /\ tx.ev \in Evento /\ Emitido(tx.ev)
          /\ tx.ev.tipo = "orden.cancelada"
      BY <1>5, <2>2 DEF IInv, TypeOK, StockTypeOK, Liberacion, LiberacionesAbiertas
    <3>3. orden[o] = "cancelada"
      <4>1. emitidos["orden.cancelada"][o] > 0
        BY <1>1, <1>5, <3>2 DEF Emitido, Evento, Contadores, Tipo
      <4> QED BY <4>1 DEF IInv, UnVeredicto
    <3>4. emitidos["stock.liberado"][o] = 0 /\ emitidos["stock.reservado"][o] # 0
      BY <1>1, <3>2 DEF IInv, ReservaSegunEventos, Contadores, Tipo
    <3>5. Apartado[o] = "si" BY <3>4, ApartadoPorOrden
    <3>6. Apartado' = [Apartado EXCEPT ![o] = "devuelto"]
      <4>1. \A o2 \in Orden : o2 # o =>
              /\ emitidos'["stock.reservado"][o2] = emitidos["stock.reservado"][o2]
              /\ emitidos'["stock.liberado"][o2] = emitidos["stock.liberado"][o2]
        BY <3>1 DEF Tipo
      <4>2. emitidos'["stock.reservado"][o] # 0
            /\ emitidos'["stock.liberado"][o] # 0
        BY <3>1, <3>4 DEF Tipo
      <4>3. Apartado' = [o2 \in Orden |-> IF o2 = o THEN "devuelto" ELSE Apartado[o2]]
        BY <4>1, <4>2 DEF Apartado
      <4> QED BY <4>3, ApartadoPorOrden
    <3> QED BY <1>2, <3>3, <3>5, <3>6 DEF Ciclo!Next, Ciclo!Devolver
  <2> QED BY <1>5, <2>1, <2>2 DEF Liberar
<1>6. ASSUME NEW tx \in liberando, AbortarLiberacion(tx)
      PROVE  [Ciclo!Next]_Ciclo!vars
  BY <1>2, <1>6 DEF AbortarLiberacion, busVars, Apartado
<1> QED BY <1>3, <1>4, <1>5, <1>6 DEF PasoStock

\* Between them the two services do to an order what OrderLifecycle allows, and
\* nothing else: a confirmation over units set apart, one decision, one return.
THEOREM SagaCumpleCiclo == Spec => CumpleCiclo
<1>1. Init => Ciclo!Init
  BY DEF Init, BusInit, OrdenInit, Ciclo!Init, Apartado, Tipo
<1>2. IInv /\ [Next]_vars => [Ciclo!Next]_Ciclo!vars
  <2> SUFFICES ASSUME IInv, [Next]_vars PROVE [Ciclo!Next]_Ciclo!vars OBVIOUS
  <2>1. CASE UNCHANGED vars
    BY <2>1 DEF vars, busVars, ordenVars, Ciclo!vars, Apartado
  <2>2. ASSUME NEW p \in Producto, PasoAlmacen(p) PROVE [Ciclo!Next]_Ciclo!vars
    BY <2>2 DEF PasoAlmacen, OnProductoCreado, Ajustar, ResolverAlerta, ordenVars, busVars,
         Ciclo!vars, Apartado
  <2> QED BY <2>1, <2>2, PasoOrdenesCumpleCiclo, PasoStockCumpleCiclo DEF Next
<1> QED BY <1>1, <1>2, SiempreIInv, PTL DEF Spec, CumpleCiclo, Ciclo!SafeSpec

\* A step that takes units of a product under the threshold leaves an open alert
\* of the right kind, whichever operation took them.
THEOREM AlertaSiempreAlBajar == Spec => AlertaAlBajar
<1> DEFINE A == \A p \in Producto :
                  /\ stock'[p].disponible < stock[p].disponible
                  /\ stock'[p].disponible < Umbral
                  => alerta'[p] = TipoAlerta(stock'[p].disponible)
<1>1. IInv /\ [Next]_vars => [A]_vars
  <2> SUFFICES ASSUME IInv, [Next]_vars, NEW p \in Producto,
                      stock'[p].disponible < stock[p].disponible,
                      stock'[p].disponible < Umbral
               PROVE  alerta'[p] = TipoAlerta(stock'[p].disponible)
    OBVIOUS
  <2>1. /\ stock \in [Producto -> Fila] /\ stock[p].disponible \in Nat
        /\ \A o \in Orden : lineas[o] \in [Producto -> Nat]
    BY DEF Fila, IInv, TypeOK, StockTypeOK, BusTypeOK, Lineas, SinLineas
  <2>2. stock' # stock BY <2>1
  <2>3. CASE OnProductoCreado(p) \/ \E q \in Producto : q # p /\ OnProductoCreado(q)
    BY <2>1, <2>3 DEF OnProductoCreado, Fila
  <2>4. ASSUME NEW q \in Producto, NEW delta \in Delta, Ajustar(q, delta)
        PROVE  alerta'[p] = TipoAlerta(stock'[p].disponible)
    <3>1. p = q
      <4> SUFFICES ASSUME p # q PROVE FALSE OBVIOUS
      <4>1. stock'[p] = stock[p] BY <2>1, <2>4 DEF Ajustar
      <4> QED BY <2>1, <4>1
    <3>2. alerta' = ConAlertas({p}, stock') BY <2>4, <3>1 DEF Ajustar
    <3> QED BY <3>2 DEF ConAlertas
  <2>5. ASSUME NEW o \in Orden, stock' = Mover(lineas[o]),
               \A q \in Producto : Suficiente(stock[q].disponible, lineas[o][q]),
               alerta' = ConAlertas({q \in Producto : lineas[o][q] > 0}, stock')
        PROVE  alerta'[p] = TipoAlerta(stock'[p].disponible)
    <3>1. stock'[p].disponible = stock[p].disponible - lineas[o][p]
      <4>1. stock'[p] = Trasladar(stock[p], lineas[o][p]) BY <2>5 DEF Mover
      <4>2. /\ stock[p] \in Fila /\ lineas[o][p] \in Int
            /\ stock[p].disponible - lineas[o][p] \in Nat
        BY <2>1, <2>5 DEF Suficiente
      <4> QED BY <4>1, <4>2, TrasladarFila
    <3>2. lineas[o][p] > 0 BY <2>1, <3>1
    <3> QED BY <2>5, <3>2 DEF ConAlertas
  <2>6. ASSUME NEW o \in Orden, stock' = Devolver(lineas[o]) PROVE FALSE
    <3>1. stock'[p] = Trasladar(stock[p], -lineas[o][p]) BY <2>6 DEF Devolver
    <3>2. /\ stock[p] \in Fila /\ -lineas[o][p] \in Int
          /\ stock[p].disponible - (-lineas[o][p]) \in Nat
          /\ stock[p].disponible - (-lineas[o][p]) >= stock[p].disponible
      BY <2>1
    <3>3. stock'[p].disponible = stock[p].disponible - (-lineas[o][p])
      BY <3>1, <3>2, TrasladarFila
    <3> QED BY <2>1, <3>2, <3>3
  <2>7. ASSUME NEW o \in Orden, PasoStock(o)
        PROVE  alerta'[p] = TipoAlerta(stock'[p].disponible)
    <3>1. ASSUME NEW ev \in EventosDe("orden.creada", o), OnOrdenCreada(ev)
          PROVE  alerta'[p] = TipoAlerta(stock'[p].disponible)
      <4>1. ev.orden \in Orden
        BY EventosDeEmitidos DEF IInv, TypeOK, BusTypeOK, Contadores, Tipo, Evento
      <4> QED BY <2>2, <2>5, <3>1, <4>1 DEF OnOrdenCreada
    <3>2. ASSUME NEW tx \in liberando, tx.ev.orden = o, Liberar(tx) PROVE FALSE
      BY <2>2, <2>6, <3>2 DEF Liberar
    <3> QED BY <2>2, <2>7, <3>1, <3>2 DEF PasoStock, LeerReservas, AbortarLiberacion
  <2>8. ASSUME NEW o \in Orden, PasoOrdenes(o) PROVE FALSE
    BY <2>2, <2>8 DEF PasoOrdenes, stockVars
  <2>9. ASSUME NEW q \in Producto, PasoAlmacen(q)
        PROVE  alerta'[p] = TipoAlerta(stock'[p].disponible)
    BY <2>2, <2>3, <2>4, <2>9 DEF PasoAlmacen, ResolverAlerta
  <2> QED BY <2>2, <2>7, <2>8, <2>9 DEF Next, vars, stockVars
<1> QED BY <1>1, SiempreIInv, PTL DEF Spec, AlertaAlBajar

-----------------------------------------------------------------------------
(* Why every order can be decided: what CicloTermina needs besides fairness.   *)

\* svc-ordenes has recorded verdicts of decided orders only.
VeredictoDecide == \A ev \in recibidosOrdenes : orden[ev.orden] \in {"confirmada", "cancelada"}

\* A step of one order's row decides the order of the verdict it records.
LEMMA SigueDecidiendo ==
  ASSUME IInv, VeredictoDecide, [Next]_vars
  PROVE  VeredictoDecide'
<1> USE DEF VeredictoDecide
<1>1. recibidosOrdenes \subseteq Evento /\ orden \in [Orden -> EstadoOrden \cup {"ninguna"}]
  BY DEF IInv, TypeOK, OrdenTypeOK
<1>2. ASSUME NEW o \in Orden, PasoOrdenes(o) PROVE VeredictoDecide'
  <2>1. CASE CrearOrden(o)
    <3>1. /\ recibidosOrdenes' = recibidosOrdenes /\ orden[o] = "ninguna"
          /\ \A o2 \in Orden \ {o} : orden'[o2] = orden[o2]
      BY <1>1, <2>1 DEF CrearOrden
    <3> QED BY <1>1, <3>1 DEF Evento
  <2>2. CASE CancelarOrden(o)
    <3>1. /\ recibidosOrdenes' = recibidosOrdenes /\ orden'[o] = "cancelada"
          /\ \A o2 \in Orden \ {o} : orden'[o2] = orden[o2]
      BY <1>1, <2>2 DEF CancelarOrden
    <3> QED BY <1>1, <3>1 DEF Evento
  <2>3. ASSUME NEW ev, ev.orden = o, NEW estado \in {"confirmada", "cancelada"}, NEW aviso,
               AplicarVeredicto(ev, estado, aviso), orden[o] # "ninguna"
        PROVE  VeredictoDecide'
    <3>1. recibidosOrdenes' = recibidosOrdenes \cup {ev}
      BY <2>3 DEF AplicarVeredicto
    <3>2. orden'[o] \in {"confirmada", "cancelada"} /\ \A o2 \in Orden \ {o} : orden'[o2] = orden[o2]
      BY <1>1, <2>3 DEF AplicarVeredicto, SigueAbierta, EstadoOrden
    <3> QED BY <1>1, <2>3, <3>1, <3>2 DEF Evento
  <2>4. ASSUME NEW t \in {"stock.reservado", "stock.insuficiente"}, NEW ev \in EventosDe(t, o)
        PROVE  ev.orden = o /\ orden[o] # "ninguna"
    <3>1. emitidos \in Contadores /\ t \in Tipo
      BY DEF IInv, TypeOK, BusTypeOK, Contadores, Tipo
    <3>2. ev.orden = o /\ emitidos[t][o] > 0
      BY <3>1, EventosDeEmitidos DEF Emitido, Evento, Contadores
    <3>3. Recibido("orden.creada", o)
      BY <3>1, <3>2 DEF IInv, UnVeredicto, Contadores, Tipo
    <3>4. emitidos["orden.creada"][o] > 0
      BY <3>1, <3>3 DEF Recibido, IInv, TypeOK, StockTypeOK, RecibidosExisten, Emitido, Evento,
         Contadores, Tipo
    <3> QED BY <3>2, <3>4 DEF IInv, CreadaUnaVez
  <2> QED BY <1>2, <2>1, <2>2, <2>3, <2>4 DEF PasoOrdenes, OnStockReservado, OnStockInsuficiente
<1>3. CASE UNCHANGED ordenVars
  BY <1>3 DEF ordenVars
<1> QED BY <1>2, <1>3 DEF Next, PasoStock, PasoAlmacen, vars, ordenVars

\* A pending order has an event on its way that decides it or leads to its verdict:
\* orden.creada at svc-stock, or the verdict at svc-ordenes. Neither duplicates nor a
\* cancellation nor the order in which the two services work can use both of them up.
PuedeDecidirse ==
  \A o \in Orden : orden[o] = "pendiente" =>
      \/ \E ev \in EventosDe("orden.creada", o) : NuevoEnStock(ev)
      \/ \E ev \in EventosDe("stock.reservado", o) \cup EventosDe("stock.insuficiente", o) :
            NuevoEnOrdenes(ev)

\* No order is left pending with nothing to come for it.
THEOREM NingunaOlvidada == Spec => []PuedeDecidirse
<1>1. Init => VeredictoDecide
  BY DEF Init, OrdenInit, VeredictoDecide
<1>2. IInv /\ VeredictoDecide => PuedeDecidirse
  <2> SUFFICES ASSUME IInv, VeredictoDecide, NEW o \in Orden, orden[o] = "pendiente",
                      \A ev \in EventosDe("orden.creada", o) : ev \in recibidosStock
               PROVE  \E ev \in EventosDe("stock.reservado", o) \cup EventosDe("stock.insuficiente", o) :
                         ev \notin recibidosOrdenes
    BY DEF PuedeDecidirse, NuevoEnStock, NuevoEnOrdenes
  <2>1. emitidos \in Contadores
    BY DEF IInv, TypeOK, BusTypeOK, Contadores
  <2>2. \A t \in Tipo : emitidos[t][o] \in Nat
                        /\ (emitidos[t][o] > 0 => \E ev \in EventosDe(t, o) : ev.tipo = t /\ ev.orden = o)
    <3> TAKE t \in Tipo
    <3>1. emitidos[t][o] \in Nat
      BY <2>1 DEF Contadores
    <3>2. ASSUME emitidos[t][o] > 0 PROVE [tipo |-> t, orden |-> o, n |-> 1] \in EventosDe(t, o)
      BY <3>1, <3>2 DEF EventosDe
    <3> QED BY <3>1, <3>2
  <2>3. Recibido("orden.creada", o)
    <3>1. emitidos["orden.creada"][o] = 1
      BY DEF IInv, CreadaUnaVez
    <3> QED BY <2>2, <3>1 DEF Recibido, Tipo
  <2>4. emitidos["stock.reservado"][o] > 0 \/ emitidos["stock.insuficiente"][o] > 0
    BY <2>2, <2>3 DEF IInv, UnVeredicto, Tipo
  <2>5. PICK ev \in EventosDe("stock.reservado", o) \cup EventosDe("stock.insuficiente", o) : ev.orden = o
    BY <2>2, <2>4 DEF Tipo
  <2> QED BY <2>5 DEF VeredictoDecide
<1> QED BY <1>1, <1>2, SiempreIInv, SigueDecidiendo, PTL DEF Spec
=============================================================================
