------------------------- MODULE StockWorkerProofs -------------------------
(***************************************************************************)
(* StockWorker implements AtomicReservation.  What two transactions have   *)
(* locked is disjoint, so the units each found for its lines are still     *)
(* there when it commits; and a receipt in hand keeps any other slot from  *)
(* deciding the same event, whatever the queue believes of the job.        *)
(***************************************************************************)
EXTENDS StockWorker, Integers, FiniteSetTheorems, WellFoundedInduction, TLAPS

IdleIsFree == \A s \in Slot : pc[s] = "idle" <=> running[s] = NoEvent

ReceiptIsNew == \A s \in Slot : HasReceipt(s) => running[s] \notin recibidos

LinesFit ==
    \A s \in Slot : pc[s] \in {"lines", "waits"} =>
        /\ linea[s] <= Len(Pedido[running[s]])
        /\ pc[s] = "waits" => MoreLines(s)
        /\ \A p \in Product : Tomado(s)[p] <= disponible[p]

ShortStays ==
    \A s \in Slot : pc[s] = "short" =>
        \E p \in Product : Units[running[s]][p] > disponible[p]

Decided == \A e \in Event : veredicto[e] = "none" <=> e \notin recibidos

DoneIsApplied == \A s \in Slot : pc[s] = "done" => running[s] \in recibidos

HandlerInv ==
    /\ IdleIsFree
    /\ ReceiptIsNew
    /\ ExclusiveReceipt
    /\ LinesFit
    /\ ExclusiveLocks
    /\ ShortStays
    /\ Decided
    /\ DoneIsApplied

IInv == TypeOK /\ HandlerInv /\ CompletedIsApplied

-----------------------------------------------------------------------------
\* The first lines of an order ask for so many units of each product.
LEMMA HastaType ==
    ASSUME NEW e \in Event, NEW i \in 0..Len(Pedido[e])
    PROVE  Hasta(e, i) \in [Product -> Nat]
BY OrderAssumption DEF Hasta

\* The first lines ask for no more than all of them.
LEMMA HastaGrows ==
    ASSUME NEW e \in Event, NEW i \in 0..Len(Pedido[e]), NEW p \in Product
    PROVE  Hasta(e, i)[p] <= Units[e][p]
<1> DEFINE n == Len(Pedido[e])
<1>1. n \in Nat /\ Pedido[e] \in Seq([Product -> Nat])
  BY OrderAssumption
<1>2. Units[e][p] = Hasta(e, n)[p]
  BY DEF Units
<1>3. CASE i = 0
  BY <1>1, <1>2, <1>3, HastaType DEF Hasta
<1>4. CASE i # 0
  <2>1. i \in 1..n /\ n \in 1..n /\ i <= n
    BY <1>1, <1>4
  <2>2. Pedido[e][i][p] <= Pedido[e][n][p]
    BY <2>1, OrderAssumption
  <2> QED BY <1>2, <1>4, <2>1, <2>2 DEF Hasta
<1> QED BY <1>3, <1>4

\* What a slot that is not at its lines has locked.
LEMMA NoLines ==
    ASSUME NEW s \in Slot, pc[s] \notin {"lines", "waits"}
    PROVE  Tomado(s) = [p \in Product |-> 0]
BY DEF Tomado, Hasta

\* A transaction has taken so many units of each product.
LEMMA TomadoType ==
    ASSUME TypeOK, IdleIsFree, LinesFit, NEW s \in Slot
    PROVE  Tomado(s) \in [Product -> Nat]
<1>1. CASE pc[s] \in {"lines", "waits"}
  <2>1. running[s] \in Event
    BY <1>1 DEF IdleIsFree, TypeOK, QueueTypeOK
  <2>2. linea[s] \in 0..Len(Pedido[running[s]])
    BY <1>1, <2>1, OrderAssumption DEF LinesFit, TypeOK
  <2> QED BY <1>1, <2>1, <2>2, HastaType DEF Tomado
<1>2. CASE pc[s] \notin {"lines", "waits"}
  BY <1>2, NoLines
<1> QED BY <1>1, <1>2

-----------------------------------------------------------------------------
\* A step of s leaves the other slots alone.
Others(s) ==
    \A t \in Slot \ {s} : pc'[t] = pc[t] /\ linea'[t] = linea[t] /\ running'[t] = running[t]

\* What a transaction has taken, locked and inserted is its own.
LEMMA OthersKeep ==
    ASSUME NEW s \in Slot, Others(s), NEW t \in Slot \ {s}
    PROVE  /\ Tomado(t)' = Tomado(t)
           /\ Locks(t)' = Locks(t)
           /\ HasReceipt(t)' = HasReceipt(t)
           /\ MoreLines(t)' = MoreLines(t)
BY DEF Others, Tomado, Locks, HasReceipt, MoreLines

\* A slot that is left without a transaction: it has no receipt and no locks.
LEMMA LeavesKeepsInv ==
    ASSUME TypeOK, HandlerInv, NEW s \in Slot, Others(s), UNCHANGED tables,
           pc'[s] \notin {"lines", "waits", "short"},
           pc'[s] = "idle" <=> running'[s] = NoEvent,
           pc'[s] = "done" => running'[s] \in recibidos
    PROVE  HandlerInv'
<1>1. \A t \in Slot \ {s} :
        /\ Tomado(t)' = Tomado(t)
        /\ Locks(t)' = Locks(t)
        /\ HasReceipt(t)' = HasReceipt(t)
        /\ MoreLines(t)' = MoreLines(t)
  BY OthersKeep
<1>2. ~HasReceipt(s)' /\ Locks(s)' = {}
  BY DEF HasReceipt, Locks, Tomado, Hasta
<1>3. IdleIsFree'
  BY DEF HandlerInv, IdleIsFree, Others
<1>4. ReceiptIsNew' /\ ExclusiveReceipt'
  BY <1>1, <1>2 DEF HandlerInv, ReceiptIsNew, ExclusiveReceipt, Others, tables
<1>5. LinesFit'
  BY <1>1 DEF HandlerInv, LinesFit, Others, tables
<1>6. ExclusiveLocks'
  BY <1>1, <1>2 DEF HandlerInv, ExclusiveLocks
<1>7. ShortStays' /\ Decided' /\ DoneIsApplied'
  BY DEF HandlerInv, ShortStays, Decided, DoneIsApplied, Others, tables, Units, Hasta
<1> QED BY <1>3, <1>4, <1>5, <1>6, <1>7 DEF HandlerInv

\* The receipt of an event is inserted by one slot, and only if it is new.
LEMMA ReceiptKeepsInv ==
    ASSUME TypeOK, HandlerInv, NEW s \in Slot, isAlreadyProcessed(s)
    PROVE  HandlerInv'
<1> USE DEF isAlreadyProcessed, queue
<1>1. Others(s)
  BY DEF Others, TypeOK
<1>2. CASE running[s] \in recibidos
  <2>1. pc'[s] = "done" /\ running'[s] # NoEvent
    BY <1>2 DEF TypeOK, HandlerInv, IdleIsFree
  <2> QED BY <1>1, <1>2, <2>1, LeavesKeepsInv
<1>3. CASE running[s] \notin recibidos
  <2>1. pc'[s] = "lines" /\ linea'[s] = 0 /\ running'[s] = running[s]
    BY <1>3 DEF TypeOK
  <2>2. \A t \in Slot \ {s} :
          /\ Tomado(t)' = Tomado(t)
          /\ Locks(t)' = Locks(t)
          /\ HasReceipt(t)' = HasReceipt(t)
          /\ MoreLines(t)' = MoreLines(t)
    BY <1>1, OthersKeep
  <2>3. Tomado(s)' = [p \in Product |-> 0]
    BY <2>1 DEF Tomado, Hasta
  <2>4. IdleIsFree'
    BY <1>1, <2>1 DEF HandlerInv, IdleIsFree, Others
  <2>5. ReceiptIsNew'
    BY <1>1, <1>3, <2>1, <2>2 DEF HandlerInv, ReceiptIsNew, Others, tables
  <2>6. \A t \in Slot \ {s} : ~(HasReceipt(t) /\ running[t] = running[s])
    BY DEF WaitsForReceipt
  <2>7. ExclusiveReceipt'
    BY <1>1, <2>1, <2>2, <2>6 DEF HandlerInv, ExclusiveReceipt, Others
  <2>8. LinesFit'
    <3> SUFFICES ASSUME NEW t \in Slot, pc'[t] \in {"lines", "waits"}
                 PROVE  /\ linea'[t] <= Len(Pedido[running'[t]])
                        /\ pc'[t] = "waits" => MoreLines(t)'
                        /\ \A p \in Product : Tomado(t)'[p] <= disponible'[p]
      BY DEF LinesFit
    <3>1. CASE t = s
      <4>1. running[s] \in Event
        BY DEF HandlerInv, IdleIsFree, TypeOK, QueueTypeOK
      <4> QED BY <2>1, <2>3, <3>1, <4>1, OrderAssumption DEF tables, TypeOK
    <3>2. CASE t # s
      BY <1>1, <2>2, <3>2 DEF HandlerInv, LinesFit, Others, tables
    <3> QED BY <3>1, <3>2
  <2>9. ExclusiveLocks'
    BY <2>2, <2>3 DEF HandlerInv, ExclusiveLocks, Locks
  <2>10. ShortStays'
    <3> SUFFICES ASSUME NEW t \in Slot, pc'[t] = "short"
                 PROVE  \E p \in Product : Units[running'[t]][p] > disponible'[p]
      BY DEF ShortStays, Units, Hasta
    <3> QED BY <1>1, <2>1 DEF HandlerInv, ShortStays, Others, tables
  <2>11. Decided' /\ DoneIsApplied'
    BY <1>1, <2>1 DEF HandlerInv, Decided, DoneIsApplied, Others, tables
  <2> QED BY <2>4, <2>5, <2>7, <2>8, <2>9, <2>10, <2>11 DEF HandlerInv
<1> QED BY <1>2, <1>3

\* Waiting changes nothing but where the slot is.
LEMMA WaitKeepsInv ==
    ASSUME TypeOK, HandlerInv, NEW s \in Slot, WaitForRow(s)
    PROVE  HandlerInv'
<1> USE DEF WaitForRow, queue
<1>1. Others(s) /\ pc'[s] = "waits" /\ UNCHANGED <<linea, running>>
  BY DEF Others, TypeOK
<1>2. \A t \in Slot :
        /\ Tomado(t)' = Tomado(t)
        /\ HasReceipt(t)' = HasReceipt(t)
        /\ MoreLines(t)' = MoreLines(t)
  BY <1>1 DEF Tomado, HasReceipt, MoreLines, Others
<1>3. \A t \in Slot : Locks(t)' = Locks(t)
  BY <1>2 DEF Locks
<1> QED
  BY <1>1, <1>2, <1>3 DEF HandlerInv, IdleIsFree, ReceiptIsNew, ExclusiveReceipt, LinesFit,
     ExclusiveLocks, ShortStays, Decided, DoneIsApplied, Others, tables, Units, Hasta

\* The row of the next line is nobody's, so what the slot takes from it stays apart
\* from what the others took.
LEMMA LineKeepsInv ==
    ASSUME TypeOK, HandlerInv, NEW s \in Slot, ReserveLine(s)
    PROVE  HandlerInv'
<1> DEFINE e == running[s]
           i == linea[s]
<1>1. /\ Others(s)
      /\ pc[s] \in {"lines", "waits"}
      /\ running' = running
      /\ UNCHANGED tables
      /\ \A t \in Slot : ~HeldRow(s, t)
  BY DEF ReserveLine, GetsRow, Others, TypeOK, queue
<1>2. /\ e \in Event /\ i \in Nat /\ Len(Pedido[e]) \in Nat
      /\ MoreLines(s) /\ i + 1 \in 0..Len(Pedido[e])
  <2>1. MoreLines(s)
    BY DEF ReserveLine, GetsRow, HandlerInv, LinesFit
  <2>2. e \in Event /\ i \in Nat
    BY <1>1 DEF HandlerInv, IdleIsFree, TypeOK, QueueTypeOK
  <2> QED BY <2>1, <2>2, OrderAssumption DEF MoreLines
<1>3. /\ Tomado(s) = Hasta(e, i)
      /\ Tomado(s) \in [Product -> Nat]
      /\ Hasta(e, i + 1) \in [Product -> Nat]
      /\ disponible \in [Product -> Nat]
      /\ \A p \in Product : Tomado(s)[p] <= disponible[p]
  BY <1>1, <1>2, HastaType, TomadoType DEF Tomado, HandlerInv, LinesFit, TypeOK
<1>4. \A t \in Slot \ {s} :
        /\ Tomado(t)' = Tomado(t)
        /\ Locks(t)' = Locks(t)
        /\ HasReceipt(t)' = HasReceipt(t)
        /\ MoreLines(t)' = MoreLines(t)
  BY <1>1, OthersKeep
<1>5. HasReceipt(s)' /\ HasReceipt(s)
  BY <1>1 DEF ReserveLine, HasReceipt, TypeOK
<1>6. IdleIsFree'
  BY <1>1, <1>5 DEF HandlerInv, IdleIsFree, Others, HasReceipt
<1>7. ReceiptIsNew' /\ ExclusiveReceipt'
  BY <1>1, <1>4, <1>5 DEF HandlerInv, ReceiptIsNew, ExclusiveReceipt, tables
<1>8. Decided' /\ DoneIsApplied'
  BY <1>1, <1>5 DEF HandlerInv, Decided, DoneIsApplied, Others, tables, HasReceipt
<1>9. CASE \A p \in NextRow(s) : Hasta(e, i + 1)[p] <= disponible[p]
  <2>1. pc'[s] = "lines" /\ linea'[s] = i + 1
    BY <1>9, <1>2, <1>3 DEF ReserveLine, TypeOK, NextRow
  <2>2. Tomado(s)' = Hasta(e, i + 1)
    BY <1>1, <2>1 DEF Tomado, Hasta
  <2>3. \A p \in Product : Hasta(e, i + 1)[p] <= disponible[p]
    <3> SUFFICES ASSUME NEW p \in Product PROVE Hasta(e, i + 1)[p] <= disponible[p]
      OBVIOUS
    <3>1. CASE p \in NextRow(s)
      BY <1>9, <3>1
    <3>2. CASE p \notin NextRow(s)
      <4>1. Hasta(e, i + 1)[p] <= Tomado(s)[p]
        BY <1>3, <3>2 DEF NextRow
      <4> QED BY <4>1, <1>3
    <3> QED BY <3>1, <3>2
  <2>4. LinesFit'
    <3> SUFFICES ASSUME NEW t \in Slot, pc'[t] \in {"lines", "waits"}
                 PROVE  /\ linea'[t] <= Len(Pedido[running'[t]])
                        /\ pc'[t] = "waits" => MoreLines(t)'
                        /\ \A p \in Product : Tomado(t)'[p] <= disponible'[p]
      BY DEF LinesFit
    <3>1. CASE t = s
      BY <1>1, <1>2, <2>1, <2>2, <2>3, <3>1 DEF tables
    <3>2. CASE t # s
      BY <1>1, <1>4, <3>2 DEF HandlerInv, LinesFit, Others, tables
    <3> QED BY <3>1, <3>2
  <2>5. ExclusiveLocks'
    <3>1. ASSUME NEW t \in Slot \ {s} PROVE Locks(s)' \cap Locks(t)' = {}
      <4>1. Locks(s)' \subseteq Locks(s) \cup NextRow(s)
        BY <1>3, <2>2 DEF Locks, NextRow
      <4>2. Locks(s) \cap Locks(t) = {} /\ NextRow(s) \cap Locks(t) = {}
        BY <1>1 DEF HandlerInv, ExclusiveLocks, HeldRow
      <4> QED BY <1>4, <4>1, <4>2
    <3> QED BY <1>4, <3>1 DEF HandlerInv, ExclusiveLocks
  <2>6. ShortStays'
    BY <1>1, <2>1 DEF HandlerInv, ShortStays, Others, tables, Units, Hasta
  <2> QED BY <1>6, <1>7, <1>8, <2>4, <2>5, <2>6 DEF HandlerInv
<1>10. CASE \E p \in NextRow(s) : Hasta(e, i + 1)[p] > disponible[p]
  <2>1. pc'[s] = "short"
    BY <1>10, <1>2, <1>3 DEF ReserveLine, TypeOK, NextRow
  <2>2. LinesFit'
    BY <1>1, <1>4, <2>1 DEF HandlerInv, LinesFit, Others, tables
  <2>3. Locks(s)' = {}
    BY <2>1 DEF Locks, Tomado, Hasta
  <2>4. ExclusiveLocks'
    BY <1>4, <2>3 DEF HandlerInv, ExclusiveLocks
  <2>5. PICK p \in NextRow(s) : Hasta(e, i + 1)[p] > disponible[p]
    BY <1>10
  <2>6. p \in Product /\ Hasta(e, i + 1)[p] <= Units[e][p]
    BY <1>2, HastaGrows DEF NextRow
  <2>7. Units[e][p] \in Nat
    <3>1. Hasta(e, Len(Pedido[e])) \in [Product -> Nat]
      BY <1>2, HastaType
    <3> QED BY <1>2, <2>6, <3>1 DEF Units
  <2>8. Units[e][p] > disponible[p]
    BY <1>3, <2>5, <2>6, <2>7
  <2>9. ShortStays'
    <3> SUFFICES ASSUME NEW t \in Slot, pc'[t] = "short"
                 PROVE  \E q \in Product : Units[running[t]][q] > disponible[q]
      BY <1>1 DEF ShortStays, tables, Units, Hasta
    <3>1. CASE t = s
      BY <2>6, <2>8, <3>1
    <3>2. CASE t # s
      BY <1>1, <3>2 DEF HandlerInv, ShortStays, Others
    <3> QED BY <3>1, <3>2
  <2> QED BY <1>6, <1>7, <1>8, <2>2, <2>4, <2>9 DEF HandlerInv
<1> QED BY <1>9, <1>10 DEF ReserveLine

\* What a COMMIT takes, no other transaction counted on.
LEMMA CommitKeepsInv ==
    ASSUME TypeOK, HandlerInv, NEW s \in Slot, Commit(s)
    PROVE  HandlerInv'
<1> DEFINE e == running[s]
<1>1. /\ Others(s)
      /\ HasReceipt(s)
      /\ pc'[s] \in {"done", "threw"}
      /\ running' = running
      /\ recibidos' = recibidos \cup {e}
  BY DEF Commit, CommitReserved, CommitShort, HasReceipt, Others, TypeOK
<1>2. e \in Event /\ e # NoEvent
  BY <1>1, QueueAssumption DEF HandlerInv, IdleIsFree, HasReceipt, TypeOK, QueueTypeOK
<1>3. \A t \in Slot \ {s} :
        /\ Tomado(t)' = Tomado(t)
        /\ Locks(t)' = Locks(t)
        /\ HasReceipt(t)' = HasReceipt(t)
        /\ MoreLines(t)' = MoreLines(t)
  BY <1>1, OthersKeep
<1>4. ~HasReceipt(s)' /\ Locks(s)' = {}
  BY <1>1 DEF HasReceipt, Locks, Tomado, Hasta
<1>5. \A t \in Slot : Tomado(t) \in [Product -> Nat]
  BY TomadoType DEF HandlerInv
<1>6. /\ \A p \in Product : disponible'[p] <= disponible[p]
      /\ disponible' \in [Product -> Int]
      /\ \A t \in Slot \ {s} : pc[t] \in {"lines", "waits"} =>
            \A p \in Product : Tomado(t)[p] <= disponible'[p]
  <2>1. CASE CommitReserved(s)
    <3>1. \A p \in Product : disponible'[p] = disponible[p] - Tomado(s)[p]
      BY <2>1 DEF CommitReserved
    <3>2. ASSUME NEW t \in Slot \ {s}, pc[t] \in {"lines", "waits"}, NEW p \in Product
          PROVE  Tomado(t)[p] <= disponible'[p]
      <4>1. Tomado(s)[p] <= disponible[p] /\ Tomado(t)[p] <= disponible[p]
        BY <2>1, <3>2 DEF CommitReserved, HandlerInv, LinesFit
      <4>2. Tomado(s)[p] = 0 \/ Tomado(t)[p] = 0
        <5>1. p \notin Locks(s) \/ p \notin Locks(t)
          BY DEF HandlerInv, ExclusiveLocks
        <5> QED BY <5>1, <1>5 DEF Locks
      <4> QED BY <1>5, <3>1, <4>1, <4>2 DEF TypeOK
    <3> QED BY <1>5, <2>1, <3>1, <3>2 DEF CommitReserved, TypeOK
  <2>2. CASE CommitShort(s)
    BY <2>2 DEF CommitShort, TypeOK, HandlerInv, LinesFit
  <2> QED BY <2>1, <2>2 DEF Commit
<1>7. IdleIsFree'
  BY <1>1, <1>2 DEF HandlerInv, IdleIsFree, Others
<1>8. ReceiptIsNew' /\ ExclusiveReceipt'
  BY <1>1, <1>3, <1>4 DEF HandlerInv, ReceiptIsNew, ExclusiveReceipt
<1>9. LinesFit'
  BY <1>1, <1>3, <1>6 DEF HandlerInv, LinesFit, Others
<1>10. ExclusiveLocks'
  BY <1>3, <1>4 DEF HandlerInv, ExclusiveLocks
<1>11. ShortStays'
  <2> SUFFICES ASSUME NEW t \in Slot, pc'[t] = "short"
               PROVE  \E p \in Product : Units[running[t]][p] > disponible'[p]
    BY <1>1 DEF ShortStays, Units, Hasta
  <2>1. t # s /\ pc[t] = "short"
    BY <1>1 DEF Others
  <2>2. PICK p \in Product : Units[running[t]][p] > disponible[p]
    BY <2>1 DEF HandlerInv, ShortStays
  <2>3. running[t] \in Event
    BY <2>1 DEF HandlerInv, IdleIsFree, TypeOK, QueueTypeOK
  <2>4. Units[running[t]][p] \in Nat
    <3>1. Len(Pedido[running[t]]) \in Nat
      BY <2>3, OrderAssumption
    <3>2. Hasta(running[t], Len(Pedido[running[t]])) \in [Product -> Nat]
      BY <2>3, <3>1, HastaType
    <3> QED BY <2>3, <3>2 DEF Units
  <2> QED BY <1>6, <2>2, <2>4 DEF TypeOK
<1>12. Decided'
  BY <1>1, <1>2 DEF Commit, CommitReserved, CommitShort, HandlerInv, Decided, TypeOK
<1>13. DoneIsApplied'
  BY <1>1 DEF HandlerInv, DoneIsApplied, Others
<1> QED BY <1>7, <1>8, <1>9, <1>10, <1>11, <1>12, <1>13 DEF HandlerInv

-----------------------------------------------------------------------------
\* Nothing is queued, locked or taken at the start.
LEMMA InitIInv == Init => IInv
<1> SUFFICES ASSUME Init PROVE IInv
  OBVIOUS
<1> USE DEF Init, QueueInit
<1>1. TypeOK
  BY OrderAssumption, QueueAssumption DEF TypeOK, QueueTypeOK, JobState
<1>2. \A s \in Slot : ~HasReceipt(s) /\ Locks(s) = {}
  BY DEF HasReceipt, Locks, Tomado, Hasta
<1>3. HandlerInv
  BY <1>2 DEF HandlerInv, IdleIsFree, ReceiptIsNew, ExclusiveReceipt, LinesFit, ExclusiveLocks,
     ShortStays, Decided, DoneIsApplied
<1> QED BY <1>1, <1>3 DEF IInv, CompletedIsApplied

\* The queue's steps that leave the handlers alone.
QueueOnly ==
    /\ \/ \E e \in Event : QueueStep(e)
       \/ \E s \in Slot : LosesLock(s)
    /\ UNCHANGED <<tables, handler>>

\* BullMQ moves a job, and the database does not notice.
LEMMA QueueKeepsIInv ==
    ASSUME IInv, QueueOnly
    PROVE  IInv'
<1> USE DEF QueueStep, enqueueToDestination, Refuse, Promote, MoveStalled, retryJob, Forget,
            LosesLock, Fault
<1>1. QueueTypeOK'
  BY QueueAssumption DEF QueueOnly, IInv, TypeOK, QueueTypeOK, JobState
<1>2. UNCHANGED <<running, tables, handler>>
  BY DEF QueueOnly
<1>3. TypeOK'
  BY <1>1, <1>2 DEF IInv, TypeOK, tables, handler
<1>4. \A s \in Slot :
        /\ Tomado(s)' = Tomado(s)
        /\ HasReceipt(s)' = HasReceipt(s)
        /\ MoreLines(s)' = MoreLines(s)
  BY <1>2 DEF handler, Tomado, HasReceipt, MoreLines
<1>5. HandlerInv'
  BY <1>2, <1>4 DEF IInv, HandlerInv, IdleIsFree, ReceiptIsNew, ExclusiveReceipt, LinesFit, Locks,
     ExclusiveLocks, ShortStays, Decided, DoneIsApplied, tables, handler, Units, Hasta
<1>6. CompletedIsApplied'
  BY <1>2 DEF QueueOnly, IInv, TypeOK, QueueTypeOK, CompletedIsApplied, tables
<1> QED BY <1>3, <1>5, <1>6 DEF IInv

\* A slot that takes a job has nothing open yet.
LEMMA TakeKeepsIInv ==
    ASSUME IInv, NEW s \in Slot, NEW e \in Event, TakeJob(s, e)
    PROVE  IInv'
<1> USE DEF TakeJob, Take
<1>1. TypeOK'
  BY DEF IInv, TypeOK, QueueTypeOK, JobState, tables
<1>2. Others(s) /\ pc'[s] = "begin" /\ running'[s] = e
  BY DEF IInv, TypeOK, QueueTypeOK, Others
<1>3. HandlerInv'
  BY <1>2, QueueAssumption, LeavesKeepsInv DEF IInv
<1>4. CompletedIsApplied'
  BY DEF IInv, TypeOK, QueueTypeOK, CompletedIsApplied, tables
<1> QED BY <1>1, <1>3, <1>4 DEF IInv

\* A statement, done or failed, is no business of the queue.
LEMMA StatementKeepsIInv ==
    ASSUME IInv, NEW s \in Slot,
           \/ isAlreadyProcessed(s) \/ WaitForRow(s) \/ ReserveLine(s) \/ Commit(s)
           \/ DeadlockAborts(s) \/ StatementFails(s)
    PROVE  IInv'
<1>1. UNCHANGED <<job, attemptsMade, stalled, owner, running>> /\ faults' \in 0..MaxFaults
  BY QueueAssumption DEF isAlreadyProcessed, WaitForRow, ReserveLine, Commit, DeadlockAborts, StatementFails,
     Rollback, Fault, queue, IInv, TypeOK, QueueTypeOK
<1>2. recibidos \subseteq recibidos'
  BY DEF isAlreadyProcessed, WaitForRow, ReserveLine, Commit, CommitReserved, CommitShort,
     DeadlockAborts, StatementFails, Rollback, tables
<1>3. CompletedIsApplied'
  BY <1>1, <1>2 DEF IInv, CompletedIsApplied
<1>4. QueueTypeOK'
  BY <1>1 DEF IInv, TypeOK, QueueTypeOK
<1>5. CASE isAlreadyProcessed(s)
  <2>1. TypeOK'
    BY <1>4, <1>5 DEF isAlreadyProcessed, IInv, TypeOK, tables
  <2> QED BY <1>3, <1>5, <2>1, ReceiptKeepsInv DEF IInv
<1>6. CASE WaitForRow(s)
  <2>1. TypeOK'
    BY <1>4, <1>6 DEF WaitForRow, IInv, TypeOK, tables
  <2> QED BY <1>3, <1>6, <2>1, WaitKeepsInv DEF IInv
<1>7. CASE ReserveLine(s)
  <2>1. TypeOK'
    BY <1>4, <1>7 DEF ReserveLine, IInv, TypeOK, tables
  <2> QED BY <1>3, <1>7, <2>1, LineKeepsInv DEF IInv
<1>8. CASE Commit(s)
  <2>1. running[s] \in Event
    BY <1>8 DEF Commit, CommitReserved, CommitShort, IInv, HandlerInv, IdleIsFree, TypeOK, QueueTypeOK
  <2>2. Tomado(s) \in [Product -> Nat]
    BY TomadoType DEF IInv, HandlerInv
  <2>3. disponible' \in [Product -> Nat]
    <3>1. CASE CommitReserved(s)
      <4>1. \A p \in Product : Tomado(s)[p] <= disponible[p]
        BY <3>1 DEF CommitReserved, IInv, HandlerInv, LinesFit
      <4> QED BY <2>2, <3>1, <4>1 DEF CommitReserved, IInv, TypeOK
    <3>2. CASE CommitShort(s)
      BY <3>2 DEF CommitShort, IInv, TypeOK
    <3> QED BY <1>8, <3>1, <3>2 DEF Commit
  <2>4. TypeOK'
    BY <1>4, <1>8, <2>1, <2>3 DEF Commit, CommitReserved, CommitShort, IInv, TypeOK
  <2> QED BY <1>3, <1>8, <2>4, CommitKeepsInv DEF IInv
<1>9. CASE Rollback(s)
  <2>1. TypeOK'
    BY <1>4, <1>9 DEF Rollback, IInv, TypeOK, tables
  <2>2. Others(s) /\ pc'[s] = "threw" /\ running'[s] # NoEvent
    BY <1>9 DEF Rollback, Others, IInv, TypeOK, QueueTypeOK, HandlerInv, IdleIsFree
  <2>3. HandlerInv'
    BY <1>9, <2>2, LeavesKeepsInv DEF Rollback, IInv
  <2> QED BY <1>3, <2>1, <2>3 DEF IInv
<1> QED BY <1>5, <1>6, <1>7, <1>8, <1>9 DEF DeadlockAborts, StatementFails

\* The end of a run: a handler that returned had the event in the table.
LEMMA EndKeepsIInv ==
    ASSUME IInv, NEW s \in Slot, Finish(s) \/ Crash(s)
    PROVE  IInv'
<1> USE DEF Finish, Crash, Complete, Throw, Dies, Fault
<1>1. QueueTypeOK'
  BY QueueAssumption DEF IInv, TypeOK, QueueTypeOK, JobState
<1>2. TypeOK'
  BY <1>1 DEF IInv, TypeOK, tables
<1>3. Others(s) /\ pc'[s] = "idle" /\ running'[s] = NoEvent /\ UNCHANGED tables
  BY DEF IInv, TypeOK, QueueTypeOK, Others
<1>4. HandlerInv'
  BY <1>3, LeavesKeepsInv DEF IInv
<1>5. CompletedIsApplied'
  <2>1. CASE pc[s] = "done" /\ Complete(s)
    <3>1. running[s] \in recibidos
      BY <2>1 DEF IInv, HandlerInv, DoneIsApplied
    <3> QED BY <1>3, <2>1, <3>1 DEF IInv, TypeOK, QueueTypeOK, CompletedIsApplied, tables
  <2>2. CASE Throw(s) \/ Dies(s)
    BY <1>3, <2>2 DEF IInv, TypeOK, QueueTypeOK, CompletedIsApplied, tables
  <2> QED BY <2>1, <2>2
<1> QED BY <1>2, <1>4, <1>5 DEF IInv

\* IInv is inductive.
THEOREM AlwaysIInv == Spec => []IInv
<1>1. IInv /\ [Next]_vars => IInv'
  <2> SUFFICES ASSUME IInv, [Next]_vars PROVE IInv'
    OBVIOUS
  <2>1. CASE QueueOnly
    BY <2>1, QueueKeepsIInv
  <2>2. CASE UNCHANGED vars
    <3>1. \A s \in Slot :
            /\ Tomado(s)' = Tomado(s)
            /\ HasReceipt(s)' = HasReceipt(s)
            /\ MoreLines(s)' = MoreLines(s)
      BY <2>2 DEF vars, queue, handler, Tomado, HasReceipt, MoreLines
    <3>2. TypeOK' /\ CompletedIsApplied'
      BY <2>2 DEF vars, queue, tables, handler, IInv, TypeOK, QueueTypeOK, CompletedIsApplied
    <3>3. HandlerInv'
      BY <2>2, <3>1 DEF vars, queue, tables, handler, IInv, HandlerInv, IdleIsFree, ReceiptIsNew,
         ExclusiveReceipt, LinesFit, Locks, ExclusiveLocks, ShortStays, Decided, DoneIsApplied,
         Units, Hasta
    <3> QED BY <3>2, <3>3 DEF IInv
  <2>3. ASSUME NEW s \in Slot, NEW e \in Event, TakeJob(s, e) PROVE IInv'
    BY <2>3, TakeKeepsIInv
  <2>4. ASSUME NEW s \in Slot, HandlerStep(s) \/ StatementFails(s) \/ Crash(s) PROVE IInv'
    BY <2>4, StatementKeepsIInv, EndKeepsIInv DEF HandlerStep
  <2> QED BY <2>1, <2>2, <2>3, <2>4 DEF Next, QueueOnly
<1> QED BY <1>1, InitIInv, PTL DEF Spec

\* svc-stock never counts less than nothing, whatever its transactions do at once.
THEOREM TypeCorrect == Spec => []TypeOK
<1>1. IInv => TypeOK
  BY DEF IInv
<1> QED BY <1>1, AlwaysIInv, PTL

\* What the queue takes for done is done.
THEOREM CompletedApplied == Spec => []CompletedIsApplied
<1>1. IInv => CompletedIsApplied
  BY DEF IInv
<1> QED BY <1>1, AlwaysIInv, PTL

\* The transactions of any number of slots have no row and no receipt in common.
THEOREM TransactionsApart == Spec => [](ExclusiveLocks /\ ExclusiveReceipt)
<1>1. IInv => ExclusiveLocks /\ ExclusiveReceipt
  BY DEF IInv, HandlerInv
<1> QED BY <1>1, AlwaysIInv, PTL

-----------------------------------------------------------------------------
(* Whom a deadlock can stop.                                                   *)

\* All lines of the order are of one product, which it may name more than once.
OneProduct(e) == \E p \in Product : \A q \in Product \ {p} : Units[e][q] = 0

\* Line i + 1 of the order asks for a row that no line before it has.
NewRow(e, i) == {q \in Product : Hasta(e, i)[q] = 0 /\ Hasta(e, i + 1)[q] > 0}

\* All orders ask for their rows in one order of the products; the code takes the lines
\* as the client sent them.
SameOrder ==
    \E rank \in [Product -> Nat] : \A e \in Event : \A i \in 0..(Len(Pedido[e]) - 1) :
        \A q \in NewRow(e, i), p \in Product : Hasta(e, i)[p] > 0 => rank[p] < rank[q]

\* Orders that no deadlock can stop.
Spared(e) == OneProduct(e) \/ SameOrder

\* Without a fault a job has one slot, the one with its lock, and a run that threw was
\* a deadlock's victim.
CalmInv ==
    faults = 0 =>
        /\ \A e \in Event : job[e] = "active" => owner[e] # NoSlot
        /\ \A s \in Slot : running[s] # NoEvent =>
              job[running[s]] = "active" /\ owner[running[s]] = s
        /\ \A s \in Slot : pc[s] = "threw" => ~Spared(running[s])
        /\ \A e \in Event \ Invalid : job[e] = "failed" => ~Spared(e)

\* An order asks for so many units of a product.
LEMMA UnitsType == Units \in [Event -> [Product -> Nat]]
<1> SUFFICES ASSUME NEW e \in Event PROVE Hasta(e, Len(Pedido[e])) \in [Product -> Nat]
  BY DEF Units
<1>1. Len(Pedido[e]) \in 0..Len(Pedido[e])
  BY OrderAssumption
<1> QED BY <1>1, HastaType

\* Whoever has the only row it needs waits for nobody, and whoever waits for it has none.
LEMMA VictimsHaveTwo ==
    ASSUME IInv, CalmInv, faults = 0, NEW s \in Slot, Deadlocked(s)
    PROVE  ~OneProduct(running[s])
<1>1. PICK S \in SUBSET Slot : s \in S /\ \E next \in [S -> S] :
        \A t \in S : WaitsFor(t, next[t]) /\ \E u \in S : next[u] = t
  BY DEF Deadlocked
<1>2. PICK t \in S, u \in S : WaitsFor(s, t) /\ WaitsFor(u, s)
  BY <1>1
<1>3. \A x, y \in Slot : ~WaitsForReceipt(x, y)
  <2> SUFFICES ASSUME NEW x \in Slot, NEW y \in Slot, WaitsForReceipt(x, y) PROVE FALSE
    OBVIOUS
  <2>1. x # y /\ running[x] = running[y] /\ running[y] # NoEvent
    BY DEF WaitsForReceipt, HasReceipt, IInv, HandlerInv, IdleIsFree
  <2> QED BY <2>1 DEF CalmInv
<1>4. pc[s] = "waits" /\ HeldRow(s, t) /\ HeldRow(u, s)
  BY <1>2, <1>3 DEF WaitsFor
<1>5. PICK q \in Product, r \in Product :
        /\ Hasta(running[s], linea[s] + 1)[q] > Tomado(s)[q] /\ q \in Locks(t)
        /\ Tomado(s)[r] > 0 /\ r \in Locks(s)
  BY <1>4 DEF HeldRow, NextRow, Locks
<1> DEFINE e == running[s]
<1>6. e \in Event /\ Tomado(s) \in [Product -> Nat] /\ Tomado(s) = Hasta(e, linea[s])
  BY <1>4, TomadoType DEF IInv, HandlerInv, IdleIsFree, TypeOK, QueueTypeOK, Tomado
<1>7. linea[s] \in 0..Len(Pedido[e]) /\ linea[s] + 1 \in 0..Len(Pedido[e])
  <2>1. linea[s] \in Nat /\ Len(Pedido[e]) \in Nat
    BY <1>6, OrderAssumption DEF IInv, TypeOK
  <2> QED BY <1>4, <2>1 DEF IInv, HandlerInv, LinesFit, MoreLines
<1>8. Units[e][q] > 0
  <2>1. Hasta(e, linea[s] + 1)[q] <= Units[e][q] BY <1>6, <1>7, HastaGrows
  <2>2. Hasta(e, linea[s] + 1)[q] \in Nat /\ Tomado(s)[q] \in Nat BY <1>6, <1>7, HastaType
  <2>3. Units[e][q] \in Int BY <1>6, UnitsType
  <2>4. Hasta(e, linea[s] + 1)[q] > 0 BY <1>5, <2>2
  <2> HIDE DEF e
  <2> QED BY ONLY <2>1, <2>2, <2>3, <2>4
<1>9. Units[e][r] > 0
  <2>1. Hasta(e, linea[s])[r] <= Units[e][r] BY <1>6, <1>7, HastaGrows
  <2>2. Units[e][r] \in Int BY <1>6, UnitsType
  <2>3. Hasta(e, linea[s])[r] > 0 /\ Hasta(e, linea[s])[r] \in Nat BY <1>5, <1>6
  <2> HIDE DEF e
  <2> QED BY ONLY <2>1, <2>2, <2>3
<1>10. q # r
  <2>1. s # t BY <1>4 DEF HeldRow
  <2> QED BY <1>5, <2>1 DEF IInv, HandlerInv, ExclusiveLocks
<1> QED BY <1>8, <1>9, <1>10 DEF OneProduct

\* A set of numbers has a least one.
LEMMA LeastNumber ==
    ASSUME NEW N, N \subseteq Nat, N # {}
    PROVE  \E m \in N : \A n \in N : m <= n
<1>1. PICK m \in N : \A n \in N : ~(<<n, m>> \in OpToRel(<, Nat))
  BY NatLessThanWellFounded, WFMin, Zenon
<1>2. \A n \in N : ~(n < m)
  BY <1>1 DEF OpToRel
<1> QED BY <1>2

\* In a ring everybody waits for a row, and has one that somebody else waits for.
LEMMA RingOfRows ==
    ASSUME IInv, NEW S \in SUBSET Slot, NEW next \in [S -> S],
           \A t \in S : WaitsFor(t, next[t]) /\ \E u \in S : next[u] = t
    PROVE  \A t \in S : pc[t] = "waits" /\ HeldRow(t, next[t])
<1> SUFFICES ASSUME NEW t \in S PROVE pc[t] = "waits" /\ HeldRow(t, next[t])
  OBVIOUS
<1>1. PICK u \in S : WaitsFor(u, t)
  OBVIOUS
<1>2. HasReceipt(t) \/ Locks(t) # {}
  BY <1>1 DEF WaitsFor, WaitsForReceipt, HeldRow
<1>3. pc[t] # "begin"
  <2> SUFFICES ASSUME pc[t] = "begin" PROVE FALSE
    OBVIOUS
  <2>1. Locks(t) = {}
    BY DEF Locks, Tomado, Hasta
  <2> QED BY <1>2, <2>1 DEF HasReceipt
<1> QED BY <1>3 DEF WaitsFor, WaitsForReceipt

\* Along a ring the rows asked for would go up for ever: the one with the lowest is
\* waited for by somebody who asks for a lower one.
LEMMA SameOrderNoRing ==
    ASSUME IInv, SameOrder
    PROVE  \A s \in Slot : ~Deadlocked(s)
<1> SUFFICES ASSUME NEW S \in SUBSET Slot, S # {}, NEW next \in [S -> S],
                    \A t \in S : WaitsFor(t, next[t]) /\ \E u \in S : next[u] = t
             PROVE  FALSE
  BY DEF Deadlocked
<1>1. PICK rank \in [Product -> Nat] : \A e \in Event : \A i \in 0..(Len(Pedido[e]) - 1) :
        \A q \in NewRow(e, i), p \in Product : Hasta(e, i)[p] > 0 => rank[p] < rank[q]
  BY DEF SameOrder
<1> DEFINE Asked(t) == NextRow(t) \cap Locks(next[t])
           N == {n \in Nat : \E t \in S : \E q \in Asked(t) : n = rank[q]}
<1>2. \A t \in S : pc[t] = "waits" /\ next[t] # t /\ next[t] \in S /\ Asked(t) # {}
  BY RingOfRows DEF HeldRow
<1>3. ASSUME NEW t \in S, NEW q \in Asked(t), NEW p \in Locks(t)
      PROVE  rank[p] < rank[q]
  <2>1. t \in Slot /\ next[t] \in Slot /\ p \in Product /\ q \in Product
    BY <1>2 DEF Locks, NextRow
  <2>2. q \notin Locks(t)
    BY <1>2, <2>1 DEF IInv, HandlerInv, ExclusiveLocks
  <2> DEFINE e == running[t]
             i == linea[t]
  <2>3. e \in Event /\ Tomado(t) = Hasta(e, i) /\ Tomado(t) \in [Product -> Nat]
    BY <1>2, <2>1, TomadoType DEF IInv, HandlerInv, IdleIsFree, TypeOK, QueueTypeOK, Tomado
  <2>4. i \in 0..(Len(Pedido[e]) - 1)
    <3>1. i \in Nat
      BY <2>1 DEF IInv, TypeOK
    <3>2. Len(Pedido[e]) \in Nat
      BY <2>3, OrderAssumption
    <3>3. i < Len(Pedido[e])
      BY <1>2, <2>1 DEF IInv, HandlerInv, LinesFit, MoreLines
    <3> QED BY <3>1, <3>2, <3>3
  <2>5. q \in NewRow(e, i)
    <3>1. Hasta(e, i)[q] = 0 /\ Hasta(e, i + 1)[q] > Hasta(e, i)[q]
      BY <2>1, <2>2, <2>3 DEF Locks, NextRow
    <3> QED BY <2>1, <3>1 DEF NewRow
  <2>6. Hasta(e, i)[p] > 0
    BY <2>3 DEF Locks
  <2> HIDE DEF e, i
  <2> QED BY <1>1, <2>1, <2>3, <2>4, <2>5, <2>6
<1>4. N \subseteq Nat /\ N # {}
  <2>1. PICK t \in S : \E q \in Asked(t) : TRUE
    BY <1>2
  <2>2. PICK q \in Asked(t) : TRUE
    BY <2>1
  <2>3. rank[q] \in N
    BY <2>1, <2>2 DEF Locks
  <2> QED BY <2>3
<1>5. PICK t \in S : \E q \in Asked(t) : \A n \in N : rank[q] <= n
  <2>1. PICK m \in N : \A n \in N : m <= n
    <3> HIDE DEF N
    <3> QED BY <1>4, LeastNumber
  <2>2. PICK t \in S : \E q \in Asked(t) : m = rank[q]
    BY <2>1
  <2> HIDE DEF N
  <2> QED BY <2>1, <2>2
<1>6. PICK u \in S : next[u] = t
  BY <1>5
<1>7. PICK p \in Asked(u) : p \in Locks(t)
  BY <1>2, <1>6
<1>8. PICK q \in Asked(t) : \A n \in N : rank[q] <= n
  BY <1>5
<1>9. rank[p] < rank[q]
  BY <1>3, <1>5, <1>7, <1>8
<1>10. rank[p] \in N /\ rank[p] \in Nat /\ rank[q] \in Nat
  BY <1>6, <1>7, <1>8 DEF Locks
<1> QED BY <1>8, <1>9, <1>10

\* No fault, no stalled job; every other step leaves a job where its slot has it.
LEMMA StepKeepsCalm ==
    ASSUME IInv, CalmInv, [Next]_vars
    PROVE  CalmInv'
<1> SUFFICES ASSUME faults' = 0 PROVE CalmInv'
  BY DEF CalmInv
<1> USE DEF queue, tables, handler
<1>1. faults \in Nat
  BY QueueAssumption DEF IInv, TypeOK, QueueTypeOK
<1>2. ~Fault
  BY <1>1 DEF Fault
<1>3. IdleIsFree /\ QueueTypeOK
  BY DEF IInv, HandlerInv, TypeOK
<1>4. pc \in [Slot -> {"idle", "begin", "lines", "waits", "short", "done", "threw"}]
  BY DEF IInv, TypeOK
<1>5. \A e \in Event : Spared(e)' <=> Spared(e)
  BY DEF Spared, OneProduct, SameOrder, NewRow, Units, Hasta
<1>6. ASSUME NEW e \in Event, QueueStep(e) /\ UNCHANGED <<tables, handler>> PROVE CalmInv'
  <2>1. faults = 0 /\ ~MoveStalled(e)
    BY <1>2, <1>6 DEF QueueStep, enqueueToDestination, Refuse, Promote, MoveStalled, retryJob,
       Forget, CalmInv
  <2>2. enqueueToDestination(e) \/ Refuse(e) \/ Promote(e)
    BY <1>2, <1>6, <2>1 DEF QueueStep, retryJob, Forget
  <2> QED BY <1>3, <1>5, <1>6, <2>1, <2>2
          DEF CalmInv, QueueTypeOK, enqueueToDestination, Refuse, Promote, IdleIsFree
<1>7. ASSUME NEW s \in Slot, NEW e \in Event, TakeJob(s, e) PROVE CalmInv'
  <2>1. /\ faults = 0 /\ job[e] = "waiting" /\ e \notin Invalid
        /\ job' = [job EXCEPT ![e] = "active"] /\ owner' = [owner EXCEPT ![e] = s]
        /\ running' = [running EXCEPT ![s] = e] /\ pc' = [pc EXCEPT ![s] = "begin"]
    BY <1>7 DEF TakeJob, Take
  <2>2. \A t \in Slot : running[t] # e
    BY <1>3, <2>1, QueueAssumption DEF CalmInv, QueueTypeOK
  <2>3. \A d \in Event : job'[d] = "active" => owner'[d] # NoSlot
    BY <1>3, <2>1, QueueAssumption DEF CalmInv, QueueTypeOK
  <2>4. \A t \in Slot : running'[t] # NoEvent =>
          job'[running'[t]] = "active" /\ owner'[running'[t]] = t
    BY <1>3, <2>1, <2>2 DEF CalmInv, QueueTypeOK
  <2>5. \A t \in Slot : pc'[t] = "threw" => ~Spared(running'[t])
    BY <1>3, <1>4, <2>1 DEF CalmInv, QueueTypeOK
  <2>6. \A d \in Event \ Invalid : job'[d] = "failed" => ~Spared(d)
    BY <1>3, <2>1 DEF CalmInv, QueueTypeOK
  <2> QED BY <1>5, <2>3, <2>4, <2>5, <2>6 DEF CalmInv
<1>8. ASSUME NEW s \in Slot, isAlreadyProcessed(s) \/ WaitForRow(s) \/ ReserveLine(s) \/ Commit(s)
      PROVE  CalmInv'
  <2>1. UNCHANGED <<faults, job, owner, running>>
    BY <1>2, <1>8 DEF isAlreadyProcessed, WaitForRow, ReserveLine, Commit
  <2>2. \A t \in Slot : pc'[t] = "threw" => pc[t] = "threw"
    BY <1>2, <1>4, <1>8 DEF isAlreadyProcessed, WaitForRow, ReserveLine, Commit
  <2> QED BY <2>1, <2>2 DEF CalmInv
<1>9. ASSUME NEW s \in Slot, DeadlockAborts(s) PROVE CalmInv'
  <2>1. UNCHANGED <<faults, job, owner, running>> /\ Deadlocked(s)
    BY <1>9 DEF DeadlockAborts, Rollback
  <2>2. ~Spared(running[s])
    <3>1. ~OneProduct(running[s]) BY <1>9, <2>1, VictimsHaveTwo
    <3>2. ~SameOrder BY <2>1, SameOrderNoRing
    <3> QED BY <3>1, <3>2 DEF Spared
  <2>3. \A t \in Slot : pc'[t] = "threw" => t = s \/ pc[t] = "threw"
    BY <1>4, <1>9 DEF DeadlockAborts, Rollback
  <2> QED BY <2>1, <2>2, <2>3 DEF CalmInv
<1>10. ASSUME NEW s \in Slot, Finish(s) PROVE CalmInv'
  BY <1>3, <1>4, <1>10 DEF Finish, Complete, Throw, CalmInv, QueueTypeOK, IdleIsFree
<1>11. CASE UNCHANGED vars
  BY <1>11 DEF vars, CalmInv
<1> QED BY <1>2, <1>6, <1>7, <1>8, <1>9, <1>10, <1>11
        DEF Next, HandlerStep, StatementFails, Crash, Dies, LosesLock

\* Without faults an order fails only as the victim of deadlocks it can be in.
LEMMA AlwaysCalmInv == Spec => []CalmInv
<1>1. Init => CalmInv
  BY DEF Init, QueueInit, CalmInv
<1> QED BY <1>1, AlwaysIInv, StepKeepsCalm, PTL DEF Spec

\* However many orders of several products deadlock around it, an order of a single
\* product is never their victim: its job reaches the failed set only by a fault.
THEOREM OneProductGoesOn ==
    Spec => [](\A e \in Event \ Invalid : OneProduct(e) /\ job[e] = "failed" => faults > 0)
<1>1. IInv /\ CalmInv => \A e \in Event \ Invalid : OneProduct(e) /\ job[e] = "failed" => faults > 0
  BY QueueAssumption DEF IInv, TypeOK, QueueTypeOK, CalmInv, Spared
<1> QED BY <1>1, AlwaysIInv, AlwaysCalmInv, PTL

\* consumer.ts:85: the deadlocks come from the order of the lines alone; where all orders
\* ask for their rows in one order there is none, whatever stalls, runs twice or dies.
THEOREM SameOrderNeverDeadlocks == Spec => [](SameOrder => \A s \in Slot : ~Deadlocked(s))
<1>1. IInv => (SameOrder => \A s \in Slot : ~Deadlocked(s))
  BY SameOrderNoRing
<1> QED BY <1>1, AlwaysIInv, PTL

\* And there no valid order is lost without a fault, for any number of orders and slots.
THEOREM SameOrderFailsOnlyByFaults == Spec => [](SameOrder => FailedOnlyByFaults)
<1>1. IInv /\ CalmInv => (SameOrder => FailedOnlyByFaults)
  BY QueueAssumption DEF IInv, TypeOK, QueueTypeOK, CalmInv, Spared, FailedOnlyByFaults
<1> QED BY <1>1, AlwaysIInv, AlwaysCalmInv, PTL

-----------------------------------------------------------------------------
(* Somebody always goes on.                                                    *)

\* The guard of one of s's steps: the receipt can be asked for, a row is taken or
\* waited for, the transaction commits, the job is given back.
Goes(s) ==
    \/ pc[s] = "begin" /\ \A t \in Slot : ~WaitsForReceipt(s, t)
    \/ pc[s] = "lines" /\ MoreLines(s) /\ \E t \in Slot : HeldRow(s, t)
    \/ GetsRow(s)
    \/ pc[s] = "lines" /\ ~MoreLines(s)
    \/ pc[s] \in {"short", "done", "threw"}

\* Where each of finitely many points to one of them, some of them form a ring: the
\* smallest set that no pointer leaves.
LEMMA FiniteRing ==
    ASSUME NEW B, IsFiniteSet(B), B # {}, NEW f \in [B -> B]
    PROVE  \E S \in SUBSET B : S # {} /\ \A t \in S : f[t] \in S /\ \E u \in S : f[u] = t
<1> DEFINE Closed(S) == S # {} /\ \A t \in S : f[t] \in S
           N == {n \in Nat : \E S \in SUBSET B : Closed(S) /\ n = Cardinality(S)}
<1>1. \A S \in SUBSET B : IsFiniteSet(S) /\ Cardinality(S) \in Nat
  BY FS_Subset, FS_CardinalityType
<1>2. Cardinality(B) \in N
  BY <1>1
<1>3. PICK m \in N : \A n \in N : m <= n
  <2>1. N \subseteq Nat /\ N # {} BY <1>2
  <2> HIDE DEF N
  <2> QED BY <2>1, LeastNumber
<1>4. PICK S \in SUBSET B : Closed(S) /\ m = Cardinality(S)
  BY <1>3
<1> DEFINE T == {f[t] : t \in S}
<1>5. T \in SUBSET S /\ T \in SUBSET B /\ Closed(T)
  BY <1>4
<1>6. Cardinality(S) <= Cardinality(T) /\ Cardinality(T) \in Nat /\ Cardinality(S) \in Nat
  BY <1>1, <1>3, <1>4, <1>5
<1>7. IsFiniteSet(S) BY <1>1
<1>8. S = T
  <2> HIDE DEF T
  <2>1. Cardinality(T) <= Cardinality(S) /\ (Cardinality(S) = Cardinality(T) => S = T)
    BY <1>5, <1>7, FS_Subset
  <2> QED BY <1>6, <2>1
<1> QED BY <1>4, <1>8

\* A row that nobody has goes to the one that waits for it.
LEMMA FreeRowIsTaken ==
    ASSUME IInv, NEW s \in Slot, pc[s] = "lines", MoreLines(s),
           \A t \in Slot : ~HeldRow(s, t), ~GetsRow(s)
    PROVE  \E t \in Slot : GetsRow(t)
<1>1. PICK t \in Slot : pc[t] = "waits" /\ ~(NextRow(t) \cap NextRow(s) \subseteq Locks(s))
  BY DEF GetsRow
<1>2. PICK q \in Product : q \in NextRow(t) /\ q \in NextRow(s) /\ q \notin Locks(s)
  BY <1>1 DEF NextRow
<1>3. NextRow(t) = {q}
  <2>1. running[t] \in Event /\ Tomado(t) = Hasta(running[t], linea[t])
    BY <1>1 DEF IInv, HandlerInv, IdleIsFree, TypeOK, QueueTypeOK, Tomado
  <2>2. linea[t] \in 0..(Len(Pedido[running[t]]) - 1)
    <3>1. linea[t] \in Nat /\ Len(Pedido[running[t]]) \in Nat
      BY <2>1, OrderAssumption DEF IInv, TypeOK
    <3> QED BY <1>1, <3>1 DEF IInv, HandlerInv, LinesFit, MoreLines
  <2>3. Tomado(t) \in [Product -> Nat]
    BY TomadoType DEF IInv, HandlerInv
  <2>4. PICK r \in Product : \A p \in Product \ {r} :
          Hasta(running[t], linea[t] + 1)[p] = Hasta(running[t], linea[t])[p]
    BY <2>1, <2>2, LineAssumption
  <2>5. \A p \in Product \ {r} : p \notin NextRow(t)
    BY <2>1, <2>3, <2>4 DEF NextRow
  <2> QED BY <1>2, <2>5 DEF NextRow
<1>4. \A u \in Slot : q \notin Locks(u)
  BY <1>2 DEF HeldRow
<1>5. GetsRow(t)
  BY <1>1, <1>3, <1>4 DEF GetsRow, HeldRow
<1> QED BY <1>5

\* Who cannot go on waits for another that is at work.
LEMMA IfNobodyGoes ==
    ASSUME IInv, \A s \in Slot : ~Goes(s), NEW s \in Slot, pc[s] # "idle"
    PROVE  \E t \in Slot : pc[t] # "idle" /\ WaitsFor(s, t)
<1>1. pc[s] \in {"begin", "waits"}
  <2>1. pc[s] # "lines"
    <3> SUFFICES ASSUME pc[s] = "lines" PROVE FALSE
      OBVIOUS
    <3>1. MoreLines(s) /\ \A t \in Slot : ~HeldRow(s, t)
      BY DEF Goes
    <3> QED BY <3>1, FreeRowIsTaken DEF Goes
  <2> QED BY <2>1 DEF Goes, IInv, TypeOK
<1>2. CASE pc[s] = "begin"
  BY <1>2 DEF Goes, WaitsFor, WaitsForReceipt, HasReceipt
<1>3. CASE pc[s] = "waits"
  <2>1. PICK t \in Slot : HeldRow(s, t)
    BY <1>3 DEF Goes, GetsRow
  <2>2. pc[t] # "idle"
    BY <2>1, NoLines DEF HeldRow, Locks
  <2> QED BY <1>3, <2>1, <2>2 DEF WaitsFor
<1> QED BY <1>1, <1>2, <1>3

\* If nobody can go on, the database sees a deadlock and ends it.
LEMMA GoesOrDeadlocked ==
    ASSUME IInv, NEW s \in Slot, pc[s] # "idle"
    PROVE  \E t \in Slot : Goes(t) \/ Deadlocked(t)
<1> SUFFICES ASSUME \A t \in Slot : ~Goes(t) PROVE \E t \in Slot : Deadlocked(t)
  OBVIOUS
<1> DEFINE B == {t \in Slot : pc[t] # "idle"}
           f == [t \in B |-> CHOOSE u \in B : WaitsFor(t, u)]
<1>1. \A t \in B : f[t] \in B /\ WaitsFor(t, f[t])
  <2> SUFFICES ASSUME NEW t \in B PROVE f[t] \in B /\ WaitsFor(t, f[t])
    OBVIOUS
  <2>1. \E u \in B : WaitsFor(t, u)
    BY IfNobodyGoes
  <2> QED BY <2>1
<1>2. IsFiniteSet(B) /\ B # {} /\ f \in [B -> B]
  <2>1. IsFiniteSet(B) BY SlotAssumption, FS_Subset
  <2> QED BY <1>1, <2>1
<1>3. PICK S \in SUBSET B : S # {} /\ \A t \in S : f[t] \in S /\ \E u \in S : f[u] = t
  <2> HIDE DEF B, f
  <2> QED BY <1>2, FiniteRing
<1> DEFINE next == [t \in S |-> f[t]]
<1>4. next \in [S -> S] /\ \A t \in S : WaitsFor(t, next[t]) /\ \E u \in S : next[u] = t
  <2> HIDE DEF f
  <2> QED BY <1>1, <1>3
<1>5. PICK t \in S : TRUE
  BY <1>3
<1>6. S \in SUBSET Slot /\ t \in Slot
  OBVIOUS
<1>7. Deadlocked(t)
  <2> HIDE DEF next, B
  <2> QED BY <1>4, <1>5, <1>6 DEF Deadlocked
<1> QED BY <1>6, <1>7

\* consumer.ts:85: whatever rows and receipts the transactions wait for, one of them
\* goes on, or PostgreSQL has a ring to break: no wait is unseen by deadlock_timeout.
THEOREM SomebodyGoesOn ==
    Spec => []((\E s \in Slot : pc[s] # "idle") => \E s \in Slot : Goes(s) \/ Deadlocked(s))
<1>1. IInv => ((\E s \in Slot : pc[s] # "idle") => \E s \in Slot : Goes(s) \/ Deadlocked(s))
  BY GoesOrDeadlocked
<1> QED BY <1>1, AlwaysIInv, PTL

\* A lock on a job is the lock of the slot that runs it.
LockedJobs ==
    \A e \in Event : owner[e] # NoSlot => job[e] = "active" /\ running[owner[e]] = e

\* Every step of the queue keeps the locks of jobs with their slots.
LEMMA StepKeepsLockedJobs ==
    ASSUME IInv, LockedJobs, [Next]_vars
    PROVE  LockedJobs'
<1> USE QueueAssumption DEF queue, tables, handler
<1>1. QueueTypeOK /\ IdleIsFree
  BY DEF IInv, HandlerInv, TypeOK
<1>2. ASSUME NEW e \in Event, QueueStep(e) PROVE LockedJobs'
  <2>1. owner' = owner /\ running' = running
    BY <1>2 DEF QueueStep, enqueueToDestination, Refuse, Promote, MoveStalled, retryJob, Forget
  <2>2. owner[e] = NoSlot /\ \A d \in Event \ {e} : job'[d] = job[d]
    BY <1>1, <1>2 DEF QueueStep, enqueueToDestination, Refuse, Promote, MoveStalled, retryJob,
       Forget, LockedJobs, QueueTypeOK
  <2> QED BY <2>1, <2>2 DEF LockedJobs
<1>3. ASSUME NEW s \in Slot, LosesLock(s) PROVE LockedJobs'
  BY <1>1, <1>3 DEF LosesLock, LockedJobs, QueueTypeOK
<1>4. ASSUME NEW s \in Slot, NEW e \in Event, TakeJob(s, e) PROVE LockedJobs'
  BY <1>1, <1>4 DEF TakeJob, Take, LockedJobs, QueueTypeOK
<1>5. ASSUME NEW s \in Slot, Finish(s) PROVE LockedJobs'
  BY <1>1, <1>5 DEF Finish, Complete, Throw, LockedJobs, QueueTypeOK, IdleIsFree
<1>6. ASSUME NEW s \in Slot, Crash(s) PROVE LockedJobs'
  BY <1>1, <1>6 DEF Crash, Dies, LockedJobs, QueueTypeOK
<1>7. CASE UNCHANGED <<job, owner, running>>
  BY <1>7 DEF LockedJobs
<1> QED BY <1>2, <1>3, <1>4, <1>5, <1>6, <1>7
        DEF Next, HandlerStep, vars, isAlreadyProcessed, WaitForRow, ReserveLine, Commit,
            DeadlockAborts, StatementFails, Rollback

\* A published job that is not settled can be moved: by the check for stalled jobs, by
\* the end of its backoff, by a free slot; or else some slot at work can go on.
Moves(e) ==
    \/ job[e] = "delayed"
    \/ job[e] = "waiting" /\ (e \in Invalid \/ \E s \in Slot : running[s] = NoEvent)
    \/ job[e] = "active" /\ owner[e] = NoSlot
    \/ \E s \in Slot : Goes(s) \/ Deadlocked(s)

\* bus.ts: no event is left in a set of the queue from which nothing would take it,
\* whatever stalled, died, lost its lock or waits for whom.
THEOREM NoEventIsStuck ==
    Spec => [](\A e \in Event : job[e] \notin {"none", "completed", "failed"} => Moves(e))
<1>1. Init => LockedJobs
  BY DEF Init, QueueInit, LockedJobs
<1>2. IInv /\ LockedJobs =>
        \A e \in Event : job[e] \notin {"none", "completed", "failed"} => Moves(e)
  <2> SUFFICES ASSUME IInv, LockedJobs, NEW e \in Event,
                      job[e] \notin {"none", "completed", "failed"}
               PROVE  Moves(e)
    OBVIOUS
  <2>1. job[e] \in {"waiting", "delayed", "active"} /\ owner[e] \in Slot \cup {NoSlot}
    BY DEF IInv, TypeOK, QueueTypeOK, JobState
  <2>2. \A s \in Slot : running[s] # NoEvent => \E t \in Slot : Goes(t) \/ Deadlocked(t)
    BY GoesOrDeadlocked DEF IInv, HandlerInv, IdleIsFree
  <2>3. CASE job[e] = "waiting"
    BY <2>2, <2>3, SlotAssumption DEF Moves
  <2>4. CASE job[e] = "active"
    BY <2>1, <2>2, <2>4, QueueAssumption DEF Moves, LockedJobs
  <2> QED BY <2>1, <2>3, <2>4 DEF Moves
<1> QED BY <1>1, <1>2, AlwaysIInv, StepKeepsLockedJobs, PTL DEF Spec

-----------------------------------------------------------------------------
\* A commit is the abstract decision of the event, and nothing else is.
LEMMA CommitDecides ==
    ASSUME IInv, NEW s \in Slot, Commit(s)
    PROVE  Implementa!Next
<1> DEFINE e == running[s]
<1>1. HasReceipt(s)
  BY DEF Commit, CommitReserved, CommitShort, HasReceipt
<1>2. e \in Event
  BY <1>1 DEF IInv, HandlerInv, IdleIsFree, HasReceipt, TypeOK, QueueTypeOK
<1>3. veredicto[e] = "none"
  BY <1>1, <1>2 DEF IInv, HandlerInv, ReceiptIsNew, Decided
<1>4. CASE CommitReserved(s)
  <2>1. Units[e] = Tomado(s)
    <3>1. pc[s] = "lines" /\ ~MoreLines(s) /\ linea[s] <= Len(Pedido[e])
      BY <1>4 DEF CommitReserved, IInv, HandlerInv, LinesFit
    <3>2. linea[s] \in Nat /\ Len(Pedido[e]) \in Nat
      BY <1>2, OrderAssumption DEF IInv, TypeOK
    <3>3. linea[s] = Len(Pedido[e])
      BY <3>1, <3>2 DEF MoreLines
    <3> QED BY <1>2, <3>1, <3>3 DEF Units, Tomado
  <2>2. Implementa!Fits(e)
    BY <1>4, <2>1 DEF CommitReserved, IInv, HandlerInv, LinesFit, Implementa!Fits
  <2>3. Implementa!Reserve(e)
    BY <1>3, <1>4, <2>1, <2>2 DEF CommitReserved, Implementa!Reserve
  <2> QED BY <1>2, <2>3 DEF Implementa!Next
<1>5. CASE CommitShort(s)
  <2>1. PICK p \in Product : Units[e][p] > disponible[p]
    BY <1>5 DEF CommitShort, IInv, HandlerInv, ShortStays
  <2>2. Units[e][p] \in Nat
    <3>1. Len(Pedido[e]) \in Nat
      BY <1>2, OrderAssumption
    <3>2. Hasta(e, Len(Pedido[e])) \in [Product -> Nat]
      BY <1>2, <3>1, HastaType
    <3> QED BY <1>2, <3>2 DEF Units
  <2>3. ~Implementa!Fits(e)
    BY <2>1, <2>2 DEF Implementa!Fits, IInv, TypeOK
  <2>4. Implementa!Reject(e)
    BY <1>3, <1>5, <2>3 DEF CommitShort, Implementa!Reject
  <2> QED BY <1>2, <2>4 DEF Implementa!Next
<1> QED BY <1>4, <1>5 DEF Commit

\* The handler, run by a queue that may run it twice and cut it short anywhere, is
\* one atomic decision for each order.
THEOREM Refines == Spec => PromesaAtomica
<1>1. Init => Implementa!Init
  BY DEF Init, Implementa!Init
<1>2. IInv /\ [Next]_vars => [Implementa!Next]_(Implementa!vars)
  <2> SUFFICES ASSUME IInv, [Next]_vars PROVE Implementa!Next \/ UNCHANGED <<disponible, veredicto>>
    BY DEF Implementa!vars
  <2>1. CASE \E s \in Slot : Commit(s)
    BY <2>1, CommitDecides
  <2>2. CASE ~\E s \in Slot : Commit(s)
    BY <2>2 DEF Next, HandlerStep, vars, tables, TakeJob, isAlreadyProcessed, WaitForRow, ReserveLine,
       DeadlockAborts, StatementFails, Rollback, Finish, Crash
  <2> QED BY <2>1, <2>2
<1> QED BY <1>1, <1>2, AlwaysIInv, PTL DEF Spec, PromesaAtomica, Implementa!Spec

-----------------------------------------------------------------------------
(* What the promise is worth: the books balance.                               *)

\* The units of p that orders were given: <<e, n>> is the n-th that the order of e asked.
Given(p) == UNION {{e} \X (1..Units[e][p]) : e \in {d \in Event : veredicto[d] = "reservado"}}

Balance ==
    /\ disponible \in [Product -> Nat]
    /\ veredicto \in [Event -> {"none", "reservado", "insuficiente"}]
    /\ \A p \in Product :
          IsFiniteSet(Given(p)) /\ disponible[p] + Cardinality(Given(p)) = Existencias[p]

\* The units of an order that had none come on top of those given before.
LEMMA AddUnits ==
    ASSUME NEW S, IsFiniteSet(S), NEW e, NEW n \in Nat, \A k \in 1..n : <<e, k>> \notin S
    PROVE  /\ IsFiniteSet(S \cup ({e} \X (1..n)))
           /\ Cardinality(S \cup ({e} \X (1..n))) = Cardinality(S) + n
<1> DEFINE T == {e} \X (1..n)
<1>1. IsFiniteSet(T) /\ Cardinality(T) = n
  <2>1. IsFiniteSet({e}) /\ Cardinality({e}) = 1
    BY FS_Singleton
  <2>2. IsFiniteSet(1..n) /\ Cardinality(1..n) = n
    BY FS_Interval
  <2>3. IsFiniteSet(T) /\ Cardinality(T) = Cardinality({e}) * Cardinality(1..n)
    BY <2>1, <2>2, FS_Product
  <2> QED BY <2>1, <2>2, <2>3
<1>2. S \cap T = {}
  OBVIOUS
<1> HIDE DEF T
<1>3. /\ IsFiniteSet(S \cup T)
      /\ Cardinality(S \cup T) = Cardinality(S) + Cardinality(T) - Cardinality(S \cap T)
  BY <1>1, FS_Union
<1>4. Cardinality(S) \in Nat /\ Cardinality(S \cap T) = 0
  BY <1>2, FS_CardinalityType, FS_EmptySet
<1> QED BY <1>1, <1>3, <1>4 DEF T

\* A reservation takes from the shelf what it gives to its order.
LEMMA ReserveBalances ==
    ASSUME Balance, NEW e \in Event, Implementa!Reserve(e)
    PROVE  Balance'
<1>1. /\ veredicto[e] = "none" /\ \A p \in Product : Units[e][p] <= disponible[p]
      /\ disponible' = [p \in Product |-> disponible[p] - Units[e][p]]
      /\ veredicto' = [veredicto EXCEPT ![e] = "reservado"]
  BY DEF Implementa!Reserve, Implementa!Fits
<1>2. ASSUME NEW p \in Product
      PROVE  /\ Units[e][p] \in Nat /\ disponible[p] \in Nat
             /\ disponible'[p] = disponible[p] - Units[e][p] /\ disponible'[p] \in Nat
  <2>1. Units[e][p] \in Nat /\ disponible[p] \in Nat /\ Units[e][p] <= disponible[p]
    BY <1>1, UnitsType DEF Balance
  <2>2. disponible'[p] = disponible[p] - Units[e][p]
    BY <1>1
  <2> QED BY <2>1, <2>2
<1>3. disponible' \in [Product -> Nat] /\ veredicto' \in [Event -> {"none", "reservado", "insuficiente"}]
  BY <1>1, <1>2 DEF Balance
<1>4. ASSUME NEW p \in Product
      PROVE  IsFiniteSet(Given(p)') /\ disponible'[p] + Cardinality(Given(p)') = Existencias[p]
  <2> DEFINE n == Units[e][p]
  <2>1. {d \in Event : veredicto'[d] = "reservado"} = {d \in Event : veredicto[d] = "reservado"} \cup {e}
    BY <1>1 DEF Balance
  <2>2. Given(p)' = Given(p) \cup ({e} \X (1..n))
    BY <2>1 DEF Given, Units, Hasta
  <2>3. \A k \in 1..n : <<e, k>> \notin Given(p)
    BY <1>1 DEF Given
  <2>4. IsFiniteSet(Given(p)) /\ disponible[p] + Cardinality(Given(p)) = Existencias[p]
    BY DEF Balance
  <2>5. n \in Nat
    BY <1>2
  <2>6. Cardinality(Given(p)) \in Nat
    BY <2>4, FS_CardinalityType
  <2> HIDE DEF n
  <2>7. IsFiniteSet(Given(p)') /\ Cardinality(Given(p)') = Cardinality(Given(p)) + n
    <3>1. ASSUME NEW S, S = Given(p)
          PROVE  /\ IsFiniteSet(S \cup ({e} \X (1..n)))
                 /\ Cardinality(S \cup ({e} \X (1..n))) = Cardinality(S) + n
      <4>1. IsFiniteSet(S) /\ \A k \in 1..n : <<e, k>> \notin S
        BY <2>3, <2>4, <3>1
      <4> QED BY ONLY <2>5, <4>1, AddUnits
    <3> QED BY <2>2, <3>1
  <2>8. disponible'[p] = disponible[p] - n /\ disponible[p] \in Nat
    BY <1>2 DEF n
  <2> QED BY <2>4, <2>5, <2>6, <2>7, <2>8
<1> QED BY <1>3, <1>4 DEF Balance

\* Whatever keeps the promise has its books in order.
LEMMA PromiseBalances == PromesaAtomica => []Balance
<1>1. Implementa!Init => Balance
  <2> SUFFICES ASSUME Implementa!Init PROVE Balance
    OBVIOUS
  <2>1. disponible = Existencias /\ \A e \in Event : veredicto[e] = "none"
    BY DEF Implementa!Init
  <2>2. \A p \in Product : Given(p) = {}
    BY <2>1 DEF Given
  <2>3. IsFiniteSet({}) /\ Cardinality({}) = 0
    BY FS_EmptySet
  <2>4. disponible \in [Product -> Nat] /\ veredicto \in [Event -> {"none", "reservado", "insuficiente"}]
    BY OrderAssumption DEF Implementa!Init
  <2> QED BY <2>1, <2>2, <2>3, <2>4 DEF Balance
<1>2. Balance /\ [Implementa!Next]_(Implementa!vars) => Balance'
  <2> SUFFICES ASSUME Balance, [Implementa!Next]_(Implementa!vars) PROVE Balance'
    OBVIOUS
  <2>1. ASSUME NEW e \in Event, Implementa!Reserve(e) PROVE Balance'
    BY <2>1, ReserveBalances
  <2>2. ASSUME disponible' = disponible, veredicto' \in [Event -> {"none", "reservado", "insuficiente"}],
               \A e \in Event : veredicto'[e] = "reservado" <=> veredicto[e] = "reservado"
        PROVE  Balance'
    <3>1. \A p \in Product : Given(p)' = Given(p)
      <4>1. {d \in Event : veredicto'[d] = "reservado"} = {d \in Event : veredicto[d] = "reservado"}
        BY <2>2
      <4> QED BY <4>1 DEF Given, Units, Hasta
    <3> QED BY <2>2, <3>1 DEF Balance
  <2>3. ASSUME NEW e \in Event, Implementa!Reject(e) PROVE Balance'
    BY <2>2, <2>3 DEF Implementa!Reject, Balance
  <2>4. CASE UNCHANGED Implementa!vars
    BY <2>2, <2>4 DEF Implementa!vars, Balance
  <2> QED BY <2>1, <2>3, <2>4 DEF Implementa!Next
<1> QED BY <1>1, <1>2, PTL DEF PromesaAtomica, Implementa!Spec

\* svc-stock's shelf, whatever deadlocks, is run again, dies or loses its answer: what is
\* gone from it is what orders with a reservation asked for, each order counted once.
THEOREM BooksBalance ==
    Spec => [](\A p \in Product : disponible[p] + Cardinality(Given(p)) = Existencias[p])
<1>1. Balance => \A p \in Product : disponible[p] + Cardinality(Given(p)) = Existencias[p]
  BY DEF Balance
<1> QED BY <1>1, Refines, PromiseBalances, PTL
=============================================================================
