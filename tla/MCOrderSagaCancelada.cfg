\* One order and one product are enough.
SPECIFICATION Spec
CONSTANTS
    Orden = {o1}
    Producto = {p1}
    MaxCantidad = 1
    Umbral = 1
    Delta <- Deltas
    MaxExistencias = 2
INVARIANT CanceladaSinReserva
CHECK_DEADLOCK FALSE
