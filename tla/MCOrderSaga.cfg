\* Two orders compete for two products with at most two units each; an operator
\* brings in two units at a time, and takes them out again.
SPECIFICATION FairSpec
CONSTANTS
    Orden = {o1, o2}
    Producto = {p1, p2}
    MaxCantidad = 2
    Umbral = 2
    Delta <- Deltas
    MaxExistencias = 2
INVARIANTS
    TypeOK
    ConfirmadaTieneReserva
    UnVeredicto
    UnidadesConservadas
    ReservadoSegunEventos
PROPERTIES
    AlertaAlBajar
    CumpleCiclo
    CicloTermina
\* The saga is at rest once every order is decided and the operator is done.
CHECK_DEADLOCK FALSE
