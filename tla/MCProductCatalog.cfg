\* One product from events and one from the seed; three transactions, so that a
\* creation and two changes may be handled in any order.
SPECIFICATION FairSpec
CONSTANTS
    Producto = {p1, p2}
    Precio = {barato, caro}
    Sembrados = {p2}
    NoFila = NoFila
    SinCambio = SinCambio
    MaxTx = 3
INVARIANTS
    VersionIdentificaPrecio
    RefiereAlUltimo
PROPERTY NingunoSeQueda
\* The catalogue is at rest once every event is handled.
CHECK_DEADLOCK FALSE
