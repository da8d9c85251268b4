--------------------------- MODULE OrderLifecycle ---------------------------
(***************************************************************************)
(* What the saga promises for each order, with no service and no event:    *)
(* an order is confirmed only over units set apart for it, is decided once *)
(* and for all, and the units it got are given back only to a cancelled    *)
(* order, once.                                                            *)
(***************************************************************************)
CONSTANT Orden

VARIABLES
    estado,    \* estado[o]: what the customer is told
    apartado   \* apartado[o]: whether units are set apart for the order

vars == <<estado, apartado>>

Init ==
    /\ estado = [o \in Orden |-> "ninguna"]
    /\ apartado = [o \in Orden |-> "no"]

Crear(o) ==
    /\ estado[o] = "ninguna"
    /\ estado' = [estado EXCEPT ![o] = "pendiente"]
    /\ UNCHANGED apartado

\* Also for an order its customer cancelled meanwhile.
Apartar(o) ==
    /\ estado[o] # "ninguna"
    /\ apartado[o] = "no"
    /\ apartado' = [apartado EXCEPT ![o] = "si"]
    /\ UNCHANGED estado

Confirmar(o) ==
    /\ estado[o] = "pendiente"
    /\ apartado[o] = "si"
    /\ estado' = [estado EXCEPT ![o] = "confirmada"]
    /\ UNCHANGED apartado

Cancelar(o) ==
    /\ estado[o] = "pendiente"
    /\ estado' = [estado EXCEPT ![o] = "cancelada"]
    /\ UNCHANGED apartado

Devolver(o) ==
    /\ estado[o] = "cancelada"
    /\ apartado[o] = "si"
    /\ apartado' = [apartado EXCEPT ![o] = "devuelto"]
    /\ UNCHANGED estado

Next == \E o \in Orden :
    Crear(o) \/ Apartar(o) \/ Confirmar(o) \/ Cancelar(o) \/ Devolver(o)

SafeSpec == Init /\ [][Next]_vars

\* An order does not stay pending for ever.
Spec == SafeSpec /\ \A o \in Orden : WF_vars(Confirmar(o) \/ Cancelar(o))
=============================================================================
