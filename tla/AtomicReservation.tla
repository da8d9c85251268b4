-------------------------- MODULE AtomicReservation --------------------------
(***************************************************************************)
(* What svc-stock promises about the events that create orders, whatever   *)
(* its queue and its transactions do: each is decided once, in one step,   *)
(* and takes all of its units or none.                                     *)
(***************************************************************************)
EXTENDS Naturals

CONSTANTS
    Event,          \* orden.creada of different orders
    Product,
    Existencias,    \* the units there are at the start
    Units           \* Units[e][p]: what the order of e asks of p

VARIABLES
    disponible, \* stock.disponible of each product
    veredicto   \* what was announced for each event

vars == <<disponible, veredicto>>

Init ==
    /\ disponible = Existencias
    /\ veredicto = [e \in Event |-> "none"]

Fits(e) == \A p \in Product : Units[e][p] <= disponible[p]

Reserve(e) ==
    /\ veredicto[e] = "none"
    /\ Fits(e)
    /\ disponible' = [p \in Product |-> disponible[p] - Units[e][p]]
    /\ veredicto' = [veredicto EXCEPT ![e] = "reservado"]

Reject(e) ==
    /\ veredicto[e] = "none"
    /\ ~Fits(e)
    /\ veredicto' = [veredicto EXCEPT ![e] = "insuficiente"]
    /\ UNCHANGED disponible

Next == \E e \in Event : Reserve(e) \/ Reject(e)

Spec == Init /\ [][Next]_vars
=============================================================================
