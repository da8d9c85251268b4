-------------------------- MODULE DurableDelivery --------------------------
(***************************************************************************)
(* What a transactional outbox promises its service: an event that the     *)
(* service emitted is owed to every destination; a debt is only settled    *)
(* after the destination was handed the event, or it is parked for an      *)
(* operator, who may reinstate it.  A destination may be handed an event   *)
(* more than once, and a settled debt never comes back.                    *)
(***************************************************************************)
CONSTANTS Event, Destination

VARIABLES
    owed,     \* deliveries not settled yet
    handed,   \* deliveries the destination has been given, once or more
    settled,  \* deliveries the sender counts as done
    parked    \* deliveries the sender gave up on

vars == <<owed, handed, settled, parked>>

Delivery == Event \X Destination

Init ==
    /\ owed = {}
    /\ handed = {}
    /\ settled = {}
    /\ parked = {}

Emit(e) ==
    /\ \A d \in Destination : <<e, d>> \notin owed \cup settled \cup parked
    /\ owed' = owed \cup ({e} \X Destination)
    /\ UNCHANGED <<handed, settled, parked>>

Hand(k) ==
    /\ k \in owed \cup settled \cup parked
    /\ handed' = handed \cup {k}
    /\ UNCHANGED <<owed, settled, parked>>

Settle(k) ==
    /\ k \in owed \cap handed
    /\ owed' = owed \ {k}
    /\ settled' = settled \cup {k}
    /\ UNCHANGED <<handed, parked>>

Park(k) ==
    /\ k \in owed
    /\ owed' = owed \ {k}
    /\ parked' = parked \cup {k}
    /\ UNCHANGED <<handed, settled>>

Reinstate(k) ==
    /\ k \in parked
    /\ parked' = parked \ {k}
    /\ owed' = owed \cup {k}
    /\ UNCHANGED <<handed, settled>>

Next ==
    \/ \E e \in Event : Emit(e)
    \/ \E k \in Delivery : Hand(k) \/ Settle(k) \/ Park(k) \/ Reinstate(k)

SafeSpec == Init /\ [][Next]_vars

\* No debt is forgotten: each one is settled or parked in the end.
Spec == SafeSpec /\ \A k \in Delivery : WF_vars(Settle(k) \/ Park(k))
=============================================================================
