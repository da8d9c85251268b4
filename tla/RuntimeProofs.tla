-------------------------- MODULE RuntimeProofs --------------------------
(***************************************************************************)
(* What a service runs on: its process, from the first start to the last   *)
(* exit, and the circuit breaker and the pool it reaches its database by.  *)
(*                                                                         *)
(* Replicas of a service start, drain, die and come back side by side on   *)
(* one schema.  CircuitBreaker keeps its counters within their thresholds  *)
(* and opens only after a streak of failures, for any thresholds and any   *)
(* number of calls in flight; TxPool calls it as any caller may.  Behind   *)
(* it a transaction is torn only by being left open in the pool, and even  *)
(* that applies no event twice.                                            *)
(***************************************************************************)
EXTENDS ServiceProcess, TxPool, FiniteSetTheorems, TLAPS

-----------------------------------------------------------------------------
(* The migrator by itself: sessions, rows and a rollback.                      *)

\* The rows are 1..n, and the youngest is n.
LEMMA YoungestIsLast ==
  ASSUME NEW n \in 0..Versions, Recorded = 1..n, n > 0
  PROVE  Youngest = n
<1>1. n \in Recorded /\ \A w \in Recorded : w <= n BY MigratorAssumption
<1>2. \A v \in Recorded : (\A w \in Recorded : w <= v) => v = n BY MigratorAssumption
<1> QED BY <1>1, <1>2 DEF Youngest

\* A new database, and one from before the checksums.
LEMMA MigInitInv == MigInit => MigInv
<1> SUFFICES ASSUME MigInit PROVE MigInv OBVIOUS
<1> USE MigratorAssumption DEF MigInit, Phase
<1>1. PICK n \in {0, Unsigned} :
        /\ ledger \in {"absent", "bare"}
        /\ schema = 1..n
        /\ records = [v \in Version |-> IF v <= n THEN "null" ELSE "none"]
  OBVIOUS
<1>2. MigTypeOK BY <1>1 DEF MigTypeOK, Version
<1>3. LockHeld BY DEF LockHeld, Migrating
<1>4. RowsInOrder
  <2>1. Recorded = 1..n BY <1>1 DEF Recorded, Version
  <2>2. \A v \in Version : records[v] # "none" => v \in schema BY <1>1 DEF Version
  <2> QED BY <2>1, <2>2 DEF RowsInOrder
<1>5. Progress BY DEF Progress, Migrating
<1>6. UndoInOrder BY DEF UndoInOrder
<1>7. TableIsThere BY DEF TableIsThere
<1> QED BY <1>2, <1>3, <1>4, <1>5, <1>6, <1>7 DEF MigInv

\* Nothing of it changes when no session does anything.
LEMMA MigUnchanged == MigInv /\ UNCHANGED migVars => MigInv'
  BY DEF MigInv, migVars, MigTypeOK, Phase, TableIsThere, LockHeld, Migrating, RowsInOrder, Recorded, Progress,
      UndoInOrder, Sum

\* One process at a time, and a row after its table.
LEMMA RunMigrationsKeepsInv ==
  ASSUME MigInv, NEW p \in Process, runMigrations(p) \/ TakeLock(p)
  PROVE  MigInv'
<1> USE MigratorAssumption DEF Goes, MoveOn, OnlyProcessMoves, persisted, Version, Phase
<1>1. MigTypeOK /\ TableIsThere /\ LockHeld /\ RowsInOrder /\ Progress /\ UndoInOrder BY DEF MigInv
<1>2. CASE ensureMigrationsTable(p)
  <2> USE <1>2 DEF ensureMigrationsTable, LooksForTable, MakesTable, Found
  <2>1. MigTypeOK' BY <1>1 DEF MigTypeOK
  <2>2. LockHeld' BY <1>1 DEF MigTypeOK, LockHeld, Migrating
  <2>3. RowsInOrder' BY <1>1 DEF RowsInOrder, Recorded
  <2>4. Progress' BY <1>1 DEF MigTypeOK, Progress, Migrating, Sum
  <2>5. UndoInOrder' BY <1>1 DEF MigTypeOK, UndoInOrder, Recorded
  <2>6. TableIsThere' BY <1>1 DEF MigTypeOK, TableIsThere
  <2> QED BY <2>1, <2>2, <2>3, <2>4, <2>5, <2>6 DEF MigInv
<1>3. CASE TakeLock(p)
  <2> USE <1>3 DEF TakeLock, Lockable
  <2>1. MigTypeOK' BY <1>1 DEF MigTypeOK
  <2>2. LockHeld' BY <1>1 DEF MigTypeOK, LockHeld, Migrating
  <2>3. RowsInOrder' BY <1>1 DEF RowsInOrder, Recorded
  <2>4. Progress' BY <1>1 DEF MigTypeOK, Progress, Migrating, Sum
  <2>5. UndoInOrder' BY <1>1 DEF MigTypeOK, UndoInOrder, Recorded
  <2>6. TableIsThere' BY <1>1 DEF MigTypeOK, TableIsThere
  <2> QED BY <2>1, <2>2, <2>3, <2>4, <2>5, <2>6 DEF MigInv
<1>4. CASE Skip(p)
  <2> USE <1>4 DEF Skip
  <2>0. /\ records \in [1..Versions -> {"none", "null", "original", "edited"}]
        /\ Sum(p, at[p]) \in {"original", "edited"}
    BY <1>1 DEF MigTypeOK, Sum
  <2>1. MigTypeOK' BY <1>1, <2>0 DEF MigTypeOK
  <2>2. LockHeld' BY <1>1 DEF MigTypeOK, LockHeld, Migrating
  <2>3. \A v \in 1..Versions : records'[v] # "none" <=> records[v] # "none"
    BY <2>0
  <2>4. Recorded' = Recorded BY <2>3 DEF Recorded
  <2>5. RowsInOrder' BY <1>1, <2>3, <2>4 DEF RowsInOrder
  <2>6. Progress'
    <3>1. \A q \in Process : q # p => ~Migrating(q) BY <1>1 DEF LockHeld, Migrating
    <3>2. \A q \in Process, v \in 1..Versions :
            records[v] = Sum(q, v) /\ Sum(q, v) # "null" => records'[v] = Sum(q, v)
      BY <2>0 DEF Sum
    <3> QED BY <1>1, <2>0, <3>1, <3>2 DEF MigTypeOK, Progress, Migrating, Sum
  <2>7. UndoInOrder' BY <1>1, <2>4 DEF UndoInOrder
  <2>8. TableIsThere' BY <1>1 DEF MigTypeOK, TableIsThere
  <2> QED BY <2>1, <2>2, <2>5, <2>6, <2>7, <2>8 DEF MigInv
<1>5. CASE ApplySql(p)
  <2> USE <1>5 DEF ApplySql
  <2>1. MigTypeOK' BY <1>1 DEF MigTypeOK
  <2>2. LockHeld' BY <1>1 DEF MigTypeOK, LockHeld, Migrating
  <2>3. RowsInOrder' BY <1>1 DEF RowsInOrder, Recorded
  <2>4. Progress' BY <1>1 DEF MigTypeOK, Progress, Migrating, Sum
  <2>5. UndoInOrder' BY <1>1 DEF MigTypeOK, UndoInOrder, Recorded
  <2>6. TableIsThere' BY <1>1 DEF MigTypeOK, TableIsThere
  <2> QED BY <2>1, <2>2, <2>3, <2>4, <2>5, <2>6 DEF MigInv
<1>6. CASE RecordVersion(p)
  <2> USE <1>6 DEF RecordVersion
  <2>0. /\ records \in [1..Versions -> {"none", "null", "original", "edited"}]
        /\ at[p] \in 1..Versions /\ at[p] \in schema
        /\ Sum(p, at[p]) \in {"original", "edited"}
        /\ \A v \in 1..Versions : v < at[p] => records[v] = Sum(p, v)
    BY <1>1 DEF MigTypeOK, Progress, Migrating, Sum
  <2>1. MigTypeOK' BY <1>1, <2>0 DEF MigTypeOK
  <2>2. LockHeld' BY <1>1 DEF MigTypeOK, LockHeld, Migrating
  <2>3. RowsInOrder'
    <3>1. PICK n \in 0..Versions : Recorded = 1..n BY <1>1 DEF RowsInOrder
    <3>2. at[p] \notin 1..n BY <3>1 DEF Recorded
    <3>3. \A v \in 1..Versions : v < at[p] => v \in 1..n
      BY <2>0, <3>1 DEF Recorded, Sum
    <3>4. at[p] = n + 1 BY <2>0, <3>2, <3>3
    <3>5. Recorded' = 1..(n + 1)
      <4>1. Recorded' = Recorded \cup {at[p]} BY <2>0 DEF Recorded
      <4> QED BY <3>1, <3>4, <4>1
    <3>6. \A v \in 1..Versions : records'[v] # "none" => v \in schema \cup torn
      BY <1>1, <2>0 DEF RowsInOrder
    <3> QED BY <2>0, <3>4, <3>5, <3>6 DEF RowsInOrder
  <2>4. Progress'
    <3>1. \A q \in Process : q # p => ~Migrating(q) BY <1>1 DEF LockHeld, Migrating
    <3>2. \A q \in Process, v \in 1..Versions :
            records[v] = Sum(q, v) => records'[v] = Sum(q, v)
      BY <2>0 DEF Sum
    <3> QED BY <1>1, <2>0, <3>1, <3>2 DEF MigTypeOK, Progress, Migrating, Sum
  <2>5. UndoInOrder'
    <3>1. Recorded \subseteq Recorded' BY <2>0 DEF Recorded
    <3> QED BY <1>1, <3>1 DEF MigTypeOK, UndoInOrder
  <2>6. TableIsThere' BY <1>1 DEF MigTypeOK, TableIsThere
  <2> QED BY <2>1, <2>2, <2>3, <2>4, <2>5, <2>6 DEF MigInv
<1>7. CASE Unlock(p)
  <2> USE <1>7 DEF Unlock
  <2>1. MigTypeOK' BY <1>1 DEF MigTypeOK
  <2>2. LockHeld' BY <1>1 DEF MigTypeOK, LockHeld, Migrating
  <2>3. RowsInOrder' BY <1>1 DEF RowsInOrder, Recorded
  <2>4. Progress' BY <1>1 DEF MigTypeOK, Progress, Migrating, Sum
  <2>5. UndoInOrder'
    <3>1. undo = "idle" BY <1>1 DEF LockHeld, Migrating
    <3> QED BY <3>1 DEF UndoInOrder
  <2>6. TableIsThere' BY <1>1 DEF MigTypeOK, TableIsThere
  <2> QED BY <2>1, <2>2, <2>3, <2>4, <2>5, <2>6 DEF MigInv
<1> QED BY <1>2, <1>3, <1>4, <1>5, <1>6, <1>7 DEF runMigrations

\* A session that ends takes its lock with it.
LEMMA EndSessionKeepsInv ==
  ASSUME MigInv, NEW p \in Process, EndSession(p)
  PROVE  MigInv'
<1> USE MigratorAssumption DEF EndSession, Goes, persisted, Version, Phase
<1>1. MigTypeOK /\ TableIsThere /\ LockHeld /\ RowsInOrder /\ Progress /\ UndoInOrder BY DEF MigInv
<1>2. MigTypeOK' BY <1>1 DEF MigTypeOK
<1>3. LockHeld' BY <1>1 DEF MigTypeOK, LockHeld, Migrating
<1>4. RowsInOrder' BY <1>1 DEF RowsInOrder, Recorded
<1>5. Progress' BY <1>1 DEF MigTypeOK, Progress, Migrating, Sum
<1>6. UndoInOrder' BY <1>1 DEF MigTypeOK, UndoInOrder, Recorded
<1>7. TableIsThere' BY <1>1 DEF MigTypeOK, TableIsThere
<1> QED BY <1>2, <1>3, <1>4, <1>5, <1>6, <1>7 DEF MigInv

\* An operator takes the last row off, whenever the session ends.
LEMMA RollbackKeepsInv ==
  ASSUME MigInv, OperatorMakesTable \/ RollbackBegins \/ rollbackLastMigration
  PROVE  MigInv'
<1> USE MigratorAssumption DEF persisted, Version, Phase
<1>1. MigTypeOK /\ TableIsThere /\ LockHeld /\ RowsInOrder /\ Progress /\ UndoInOrder BY DEF MigInv
<1>2. CASE RollbackBegins
  <2> USE <1>2 DEF RollbackBegins, Lockable
  <2>1. MigTypeOK' BY <1>1 DEF MigTypeOK
  <2>2. LockHeld' BY <1>1 DEF MigTypeOK, LockHeld, Migrating
  <2>3. RowsInOrder' BY <1>1 DEF RowsInOrder, Recorded
  <2>4. Progress' BY <1>1 DEF MigTypeOK, Progress, Migrating, Sum
  <2>5. UndoInOrder' BY <1>1 DEF MigTypeOK, UndoInOrder, Recorded
  <2>6. TableIsThere' BY <1>1 DEF MigTypeOK, TableIsThere
  <2> QED BY <2>1, <2>2, <2>3, <2>4, <2>5, <2>6 DEF MigInv
<1>3. CASE RollbackCut
  <2> USE <1>3 DEF RollbackCut
  <2>1. MigTypeOK' BY <1>1 DEF MigTypeOK
  <2>2. LockHeld' BY <1>1 DEF MigTypeOK, LockHeld, Migrating
  <2>3. RowsInOrder' BY <1>1 DEF RowsInOrder, Recorded
  <2>4. Progress' BY <1>1 DEF MigTypeOK, Progress, Migrating, Sum
  <2>5. UndoInOrder' BY DEF UndoInOrder
  <2>6. TableIsThere' BY <1>1 DEF MigTypeOK, TableIsThere
  <2> QED BY <2>1, <2>2, <2>3, <2>4, <2>5, <2>6 DEF MigInv
<1>4. ASSUME RunDownFile \/ DeleteRow
      PROVE  /\ \A p \in Process : ~Migrating(p)
             /\ \E n \in 0..Versions : n > 0 /\ Recorded = 1..n /\ Youngest = n
  <2>1. undo # "idle" BY <1>4 DEF RunDownFile, DeleteRow
  <2>2. \A p \in Process : ~Migrating(p) BY <1>1, <2>1 DEF LockHeld
  <2>3. PICK n \in 0..Versions : Recorded = 1..n BY <1>1 DEF RowsInOrder
  <2>4. n > 0 BY <1>1, <2>1, <2>3 DEF UndoInOrder
  <2> QED BY <2>2, <2>3, <2>4, YoungestIsLast
<1>5. CASE RunDownFile
  <2> USE <1>5 DEF RunDownFile
  <2>1. PICK n \in 1..Versions : Recorded = 1..n /\ Youngest = n BY <1>4
  <2>2. MigTypeOK' BY <1>1, <2>1 DEF MigTypeOK
  <2>3. LockHeld' BY <1>1 DEF MigTypeOK, LockHeld, Migrating
  <2>4. RowsInOrder' BY <1>1, <2>1 DEF RowsInOrder, Recorded
  <2>5. Progress' BY <1>1, <1>4 DEF MigTypeOK, Progress, Migrating
  <2>6. UndoInOrder' BY <1>1 DEF MigTypeOK, LockHeld, UndoInOrder, Recorded
  <2>7. TableIsThere' BY <1>1 DEF MigTypeOK, TableIsThere
  <2> QED BY <2>2, <2>3, <2>4, <2>5, <2>6, <2>7 DEF MigInv
<1>6. CASE DeleteRow
  <2> USE <1>6 DEF DeleteRow
  <2>1. PICK n \in 1..Versions : Recorded = 1..n /\ Youngest = n BY <1>4
  <2>2. MigTypeOK' BY <1>1, <2>1 DEF MigTypeOK
  <2>3. LockHeld' BY <1>1 DEF MigTypeOK, LockHeld, Migrating
  <2>4. RowsInOrder'
    <3>1. Recorded' = 1..(n - 1)
      <4>1. Recorded' = Recorded \ {n} BY <1>1, <2>1 DEF MigTypeOK, Recorded
      <4> QED BY <2>1, <4>1
    <3>2. \A v \in 1..Versions : records'[v] # "none" => v \in (schema \cup torn) \ {n}
      BY <1>1, <2>1 DEF MigTypeOK, RowsInOrder
    <3> QED BY <2>1, <3>1, <3>2 DEF RowsInOrder
  <2>5. Progress' BY <1>1, <1>4 DEF MigTypeOK, Progress, Migrating, UndoInOrder
  <2>6. UndoInOrder' BY DEF UndoInOrder
  <2>7. TableIsThere' BY <1>1 DEF MigTypeOK, TableIsThere
  <2> QED BY <2>2, <2>3, <2>4, <2>5, <2>6, <2>7 DEF MigInv
<1>7. CASE OperatorMakesTable
  <2> USE <1>7 DEF OperatorMakesTable
  <2>1. MigTypeOK' BY <1>1 DEF MigTypeOK
  <2>2. LockHeld' BY <1>1 DEF MigTypeOK, LockHeld, Migrating
  <2>3. RowsInOrder' BY <1>1 DEF RowsInOrder, Recorded
  <2>4. Progress' BY <1>1 DEF MigTypeOK, Progress, Migrating, Sum
  <2>5. UndoInOrder' BY <1>1 DEF MigTypeOK, UndoInOrder, Recorded
  <2>6. TableIsThere' BY <1>1 DEF MigTypeOK, TableIsThere
  <2> QED BY <2>1, <2>2, <2>3, <2>4, <2>5, <2>6 DEF MigInv
<1> QED BY <1>2, <1>3, <1>5, <1>6, <1>7 DEF rollbackLastMigration


-----------------------------------------------------------------------------
(* The processes of a service.                                                 *)

\* The steps that bootstrap awaits by themselves, and those that start what runs.
Alone == {"migrations", "app", "unschedule", "listen"}
Working == {"worker", "relay", "retention", "metrics"}

\* The orders of bootstrap and gracefulShutdown, service by service, as far as the
\* invariants need them.
LEMMA BootOrderFacts ==
  ASSUME service \in Service
  PROVE  /\ Len(BootOrder) \in Nat /\ Len(BootOrder) > 3
         /\ \A i \in 1..Len(BootOrder) :
              /\ "migrations" \in BootOrder[i] <=> i = 1
              /\ "listen" \in BootOrder[i] <=> i = Len(BootOrder)
              /\ "unschedule" \in BootOrder[i] =>
                   i < Len(BootOrder) /\ BootOrder[i + 1] = {"sla", "metrics"}
              /\ "sla" \in BootOrder[i] => BootOrder[i] = {"sla", "metrics"}
              /\ \A step \in Alone : step \in BootOrder[i] => BootOrder[i] = {step}
              /\ "relay" \in BootOrder[i] => BootOrder[i] \subseteq Working
<1> USE DEF BootOrder, Alone, Working
<1>1. CASE service = "svc-stock" BY <1>1 DEF StockBoot
<1>2. CASE service = "svc-ordenes" BY <1>2 DEF OrdenesBoot, StockBoot
<1>3. CASE service = "svc-productos" BY <1>3 DEF ProductosBoot
<1>4. CASE service = "svc-obs" BY <1>4 DEF ObsBoot
<1> QED BY <1>1, <1>2, <1>3, <1>4, MigratorAssumption

\* Every service stops its timers first, then its server, its bus, its pool, and itself.
LEMMA ShutdownOrderFacts ==
  ASSUME service \in Service
  PROVE  /\ Len(ShutdownOrder) \in Nat /\ Len(ShutdownOrder) > 4
         /\ \A i \in 1..Len(ShutdownOrder) :
              /\ "close" \in ShutdownOrder[i] <=> i = Len(ShutdownOrder) - 3
              /\ "bus" \in ShutdownOrder[i] <=> i = Len(ShutdownOrder) - 2
              /\ "pool" \in ShutdownOrder[i] <=> i = Len(ShutdownOrder) - 1
              /\ "exit" \in ShutdownOrder[i] <=> i = Len(ShutdownOrder)
              /\ \A t \in Timer : t \in ShutdownOrder[i] => i < Len(ShutdownOrder) - 3
              /\ "sla" \in ShutdownOrder[i] => ShutdownOrder[i] = {"sla"}
<1> USE DEF ShutdownOrder, Timer, StockShutdown
<1>1. CASE service = "svc-stock" BY <1>1
<1>2. CASE service = "svc-ordenes" BY <1>2 DEF OrdenesShutdown
<1>3. CASE service = "svc-productos" BY <1>3 DEF ProductosShutdown
<1>4. CASE service = "svc-obs" BY <1>4 DEF ObsShutdown
<1> QED BY <1>1, <1>2, <1>3, <1>4, MigratorAssumption

\* Every timer that bootstrap starts, gracefulShutdown stops before it closes the server.
LEMMA EveryTimerIsStopped ==
  ASSUME service \in Service, NEW t \in Started
  PROVE  \E i \in 1..(Len(ShutdownOrder) - 4) : t \in ShutdownOrder[i]
<1> USE DEF BootOrder, ShutdownOrder, Timer, Started, StartedBefore, StockBoot, StockShutdown
<1>1. CASE service = "svc-stock" BY <1>1
<1>2. CASE service = "svc-ordenes" BY <1>2 DEF OrdenesBoot, OrdenesShutdown
<1>3. CASE service = "svc-productos" BY <1>3 DEF ProductosBoot, ProductosShutdown
<1>4. CASE service = "svc-obs" BY <1>4 DEF ObsBoot, ObsShutdown
<1> QED BY <1>1, <1>2, <1>3, <1>4, MigratorAssumption

-----------------------------------------------------------------------------
\* What a step of one process leaves of another one.
Untouched(q) ==
    /\ life'[q] = life[q] /\ stopped'[q] = stopped[q] /\ early'[q] = early[q]
    /\ boot'[q] = boot[q] /\ halt'[q] = halt[q]
    /\ app'[q] = app[q] /\ worker'[q] = worker[q] /\ timers'[q] = timers[q]
    /\ firstRun'[q] = firstRun[q] /\ pool'[q] = pool[q] /\ doing'[q] = doing[q]
    /\ mig'[q] = mig[q] /\ (lock' = q => lock = q)

\* The part of ProcessInv that is about one process.
Sound(p) ==
    DownIsClean(p) /\ StopsWhenTold(p) /\ BootBehind(p) /\ HaltBehind(p) /\ DrainsForGood(p)

\* The orders are the service's.
LEMMA SameOrders ==
  ASSUME service' = service
  PROVE  /\ BootOrder' = BootOrder /\ ShutdownOrder' = ShutdownOrder /\ Started' = Started
         /\ \A n : StartedBefore(n)' = StartedBefore(n)
  BY DEF BootOrder, ShutdownOrder, Started, StartedBefore

\* Where a process is in bootstrap, and what it has behind it.
LEMMA WhereInBoot ==
  ASSUME ProcessTypes, NEW p \in Process
  PROVE  /\ boot[p] \in 1..(Len(BootOrder) + 1)
         /\ Passed(p, "listen") <=> boot[p] > Len(BootOrder)
         /\ Passed(p, "migrations") <=> boot[p] > 1
<1>1. /\ Len(BootOrder) \in Nat /\ Len(BootOrder) > 3
      /\ \A i \in 1..Len(BootOrder) : /\ "listen" \in BootOrder[i] <=> i = Len(BootOrder)
                                      /\ "migrations" \in BootOrder[i] <=> i = 1
  BY BootOrderFacts DEF ProcessTypes
<1>2. boot[p] \in 1..(Len(BootOrder) + 1) BY DEF ProcessTypes
<1> QED BY <1>1, <1>2 DEF Passed

\* And in gracefulShutdown.
LEMMA WhereInHalt ==
  ASSUME ProcessTypes, NEW p \in Process
  PROVE  /\ Len(ShutdownOrder) \in Nat /\ Len(ShutdownOrder) > 4
         /\ halt[p] \in 0..Len(ShutdownOrder)
         /\ Halting(p, "close") <=> halt[p] = Len(ShutdownOrder) - 3
         /\ Halting(p, "bus") <=> halt[p] = Len(ShutdownOrder) - 2
         /\ Halting(p, "pool") <=> halt[p] = Len(ShutdownOrder) - 1
         /\ Halting(p, "exit") <=> halt[p] = Len(ShutdownOrder)
         /\ Drained(p, "close") <=> halt[p] > Len(ShutdownOrder) - 3
         /\ Drained(p, "bus") <=> halt[p] > Len(ShutdownOrder) - 2
         /\ Drained(p, "pool") <=> halt[p] > Len(ShutdownOrder) - 1
         /\ \A t \in Timer : Halting(p, t) => halt[p] < Len(ShutdownOrder) - 3
<1>1. /\ Len(ShutdownOrder) \in Nat /\ Len(ShutdownOrder) > 4
      /\ \A i \in 1..Len(ShutdownOrder) :
           /\ "close" \in ShutdownOrder[i] <=> i = Len(ShutdownOrder) - 3
           /\ "bus" \in ShutdownOrder[i] <=> i = Len(ShutdownOrder) - 2
           /\ "pool" \in ShutdownOrder[i] <=> i = Len(ShutdownOrder) - 1
           /\ "exit" \in ShutdownOrder[i] <=> i = Len(ShutdownOrder)
           /\ \A t \in Timer : t \in ShutdownOrder[i] => i < Len(ShutdownOrder) - 3
  BY ShutdownOrderFacts DEF ProcessTypes
<1>2. halt[p] \in 0..Len(ShutdownOrder) BY DEF ProcessTypes
<1>3. \A step : Halting(p, step) <=> halt[p] > 0 /\ step \in ShutdownOrder[halt[p]]
  BY DEF Halting
<1>4. CASE halt[p] = 0
  <2> DEFINE M == Len(ShutdownOrder)
  <2>1. \A step : ~Halting(p, step) /\ ~Drained(p, step) BY <1>3, <1>4 DEF Drained
  <2>2. M \in Nat /\ M > 4 BY <1>1
  <2> HIDE DEF M
  <2>3. M \in Nat /\ halt[p] \in 0..M /\ ~(halt[p] > M - 3) /\ ~(halt[p] > M - 2)
        /\ ~(halt[p] > M - 1) /\ \A n \in {M - 3, M - 2, M - 1, M} : halt[p] # n
    BY <1>4, <2>2
  <2> QED BY <1>4, <2>1, <2>2, <2>3 DEF M
<1>5. CASE halt[p] > 0
  <2> DEFINE M == Len(ShutdownOrder)
  <2>1. M \in Nat /\ M > 4 /\ halt[p] \in 1..M BY <1>1, <1>2, <1>5
  <2>2. /\ Halting(p, "close") <=> halt[p] = M - 3
        /\ Halting(p, "bus") <=> halt[p] = M - 2
        /\ Halting(p, "pool") <=> halt[p] = M - 1
        /\ Halting(p, "exit") <=> halt[p] = M
        /\ \A t \in Timer : Halting(p, t) => halt[p] < M - 3
    BY <1>1, <1>3, <2>1
  <2>3. \A i \in 1..(halt[p] - 1) : i \in 1..M BY <2>1
  <2>4. Drained(p, "close") <=> \E i \in 1..(halt[p] - 1) : i = M - 3
    BY <1>1, <2>3 DEF Drained
  <2>5. Drained(p, "bus") <=> \E i \in 1..(halt[p] - 1) : i = M - 2
    BY <1>1, <2>3 DEF Drained
  <2>6. Drained(p, "pool") <=> \E i \in 1..(halt[p] - 1) : i = M - 1
    BY <1>1, <2>3 DEF Drained
  <2> HIDE DEF M
  <2>7. /\ Drained(p, "close") <=> halt[p] > M - 3
        /\ Drained(p, "bus") <=> halt[p] > M - 2
        /\ Drained(p, "pool") <=> halt[p] > M - 1
    BY <2>1, <2>4, <2>5, <2>6
  <2> QED BY <1>1, <1>2, <2>2, <2>7 DEF M
<1> QED BY <1>2, <1>4, <1>5

\* A step of bootstrap puts what it was behind the process.
LEMMA NextInBoot ==
  ASSUME ProcessTypes, service' = service, NEW p \in Process, Booting(p), NextStep(p)
  PROVE  /\ boot' \in [Process -> 1..(Len(BootOrder) + 1)]
         /\ boot'[p] = boot[p] + 1
         /\ \A q \in Process : q # p => boot'[q] = boot[q]
         /\ \A step : Passed(p, step)' <=> Passed(p, step) \/ step \in BootOrder[boot[p]]
         /\ StartedBefore(boot'[p]) = StartedBefore(boot[p]) \cup (BootOrder[boot[p]] \cap Timer)
<1>1. Len(BootOrder) \in Nat BY BootOrderFacts DEF ProcessTypes
<1>2. boot[p] \in 1..Len(BootOrder) BY <1>1 DEF ProcessTypes, Booting
<1>3. /\ boot' \in [Process -> 1..(Len(BootOrder) + 1)]
      /\ boot'[p] = boot[p] + 1
      /\ \A q \in Process : q # p => boot'[q] = boot[q]
  BY <1>1, <1>2 DEF ProcessTypes, NextStep
<1>4. 1..(boot'[p] - 1) = (1..(boot[p] - 1)) \cup {boot[p]} BY <1>2, <1>3
<1>5. \A step : Passed(p, step)' <=> Passed(p, step) \/ step \in BootOrder[boot[p]]
  BY <1>4, SameOrders DEF Passed
<1>6. StartedBefore(boot'[p]) = StartedBefore(boot[p]) \cup (BootOrder[boot[p]] \cap Timer)
  BY <1>4 DEF StartedBefore
<1> QED BY <1>3, <1>5, <1>6

\* Where it stays, it has behind it what it had.
LEMMA SameInBoot ==
  ASSUME service' = service, NEW p \in Process, boot'[p] = boot[p]
  PROVE  \A step : Passed(p, step)' <=> Passed(p, step)
  BY SameOrders DEF Passed

\* The same of gracefulShutdown.
LEMMA SameInHalt ==
  ASSUME service' = service, NEW p \in Process, halt'[p] = halt[p]
  PROVE  \A step : /\ Drained(p, step)' <=> Drained(p, step)
                   /\ Halting(p, step)' <=> Halting(p, step)
                   /\ Reached(p, step)' <=> Reached(p, step)
  BY SameOrders DEF Drained, Halting, Reached

\* Where it goes on to the next step, it has this one behind it.
LEMMA NextInHalt ==
  ASSUME ProcessTypes, service' = service, NEW p \in Process,
         halt[p] > 0, ~Halting(p, "exit"), NextHalt(p)
  PROVE  /\ halt' \in [Process -> 0..Len(ShutdownOrder)]
         /\ halt'[p] = halt[p] + 1
         /\ \A q \in Process : q # p => halt'[q] = halt[q]
         /\ 1..(halt'[p] - 1) = (1..(halt[p] - 1)) \cup {halt[p]}
         /\ \A step : Drained(p, step)' <=> Drained(p, step) \/ Halting(p, step)
<1>1. /\ Len(ShutdownOrder) \in Nat /\ halt[p] \in 0..Len(ShutdownOrder)
      /\ halt[p] # Len(ShutdownOrder)
  BY WhereInHalt
<1>2. /\ halt' \in [Process -> 0..Len(ShutdownOrder)]
      /\ halt'[p] = halt[p] + 1
      /\ \A q \in Process : q # p => halt'[q] = halt[q]
  BY <1>1 DEF ProcessTypes, NextHalt
<1>3. 1..(halt'[p] - 1) = (1..(halt[p] - 1)) \cup {halt[p]} BY <1>1, <1>2
<1>4. \A step : Drained(p, step)' <=> Drained(p, step) \/ Halting(p, step)
  BY <1>3, SameOrders DEF Drained, Halting
<1> QED BY <1>2, <1>3, <1>4

\* A process that a step leaves alone stays sound.
LEMMA UntouchedStaysSound ==
  ASSUME service' = service, NEW q \in Process, Untouched(q), Sound(q)
  PROVE  Sound(q)'
<1> USE DEF Untouched, Sound
<1>1. DownIsClean(q)' /\ StopsWhenTold(q)' BY DEF DownIsClean, StopsWhenTold
<1>2. BootBehind(q)' BY SameOrders, SameInBoot DEF BootBehind
<1>3. HaltBehind(q)' BY SameInHalt, SameOrders DEF HaltBehind
<1>4. DrainsForGood(q)' BY SameOrders, SameInHalt DEF DrainsForGood
<1> QED BY <1>1, <1>2, <1>3, <1>4

\* A step of one process is sound when it leaves that one sound.
LEMMA StepOfOne ==
  ASSUME ProcessInv, service' = service, NEW p \in Process,
         \A q \in Process : q # p => Untouched(q),
         MigInv', ProcessTypes', Sound(p)', ScheduleFollows'
  PROVE  ProcessInv'
<1>1. \A q \in Process : Sound(q) BY DEF ProcessInv, ProcessTypeOK, Sound
<1>2. \A q \in Process : Sound(q)' BY <1>1, UntouchedStaysSound
<1> QED BY <1>2 DEF ProcessInv, ProcessTypeOK, Sound, MigInv

\* As long as no process goes on or down, check-sla is as it was.
LEMMA ScheduleKept ==
  ASSUME ScheduleFollows, service' = service, UNCHANGED <<boot, life, checkSla>>
  PROVE  ScheduleFollows'
<1>1. \A p \in Process : /\ At(p, "sla")' <=> At(p, "sla")
                         /\ Passed(p, "sla")' <=> Passed(p, "sla")
  BY SameOrders DEF At, Booting, Passed
<1> QED BY <1>1 DEF ScheduleFollows, checkSla

\* Before the first start every process is down and clean.
LEMMA ProcessInitInv == ProcessInit => ProcessInv
<1> SUFFICES ASSUME ProcessInit PROVE ProcessInv OBVIOUS
<1> USE DEF ProcessInit, Each
<1>1. MigInv BY MigInitInv
<1>2. ProcessTypes
  <2>1. /\ Len(BootOrder) \in Nat /\ Len(BootOrder) > 3
        /\ Len(ShutdownOrder) \in Nat /\ Len(ShutdownOrder) > 4
    BY BootOrderFacts, ShutdownOrderFacts
  <2>2. /\ boot \in [Process -> 1..(Len(BootOrder) + 1)]
        /\ halt \in [Process -> 0..Len(ShutdownOrder)]
        /\ upsets \in 0..MaxUpsets
    BY <2>1, ProcessAssumption
  <2> QED BY <2>2 DEF ProcessTypes
<1>3. ASSUME NEW p \in Process PROVE Sound(p)
  <2>1. \A step : ~Passed(p, step) /\ ~Drained(p, step) /\ ~Reached(p, step)
    BY DEF Passed, Drained, Reached, Halting
  <2>2. StartedBefore(boot[p]) = {} BY DEF StartedBefore
  <2>3. DownIsClean(p) /\ StopsWhenTold(p)
    BY MigratorAssumption DEF DownIsClean, StopsWhenTold, MigInit
  <2> QED BY <2>1, <2>2, <2>3 DEF Sound, BootBehind, HaltBehind, DrainsForGood
<1>4. ScheduleFollows
  <2>1. \A p \in Process : ~Passed(p, "sla") BY DEF Passed
  <2> QED BY <2>1 DEF ScheduleFollows
<1> QED BY <1>1, <1>2, <1>3, <1>4 DEF ProcessInv, ProcessTypeOK, Sound, MigInv

\* A container starts with nothing of the process before it.
LEMMA StartsKeepsInv ==
  ASSUME ProcessInv, NEW p \in Process, Starts(p)
  PROVE  ProcessInv'
<1> USE DEF Starts, clocks, checkSla
<1>1. MigInv' BY MigUnchanged DEF ProcessInv
<1>2. ProcessTypes' BY SameOrders DEF ProcessInv, ProcessTypeOK, ProcessTypes
<1>3. Sound(p)'
  <2>1. Sound(p) /\ life[p] = "down" BY DEF ProcessInv, ProcessTypeOK, Sound
  <2>2. DownIsClean(p)' /\ StopsWhenTold(p)'
    BY <2>1 DEF Sound, DownIsClean, StopsWhenTold, ProcessInv, ProcessTypeOK, ProcessTypes
  <2>3. BootBehind(p)' BY <2>1, SameOrders, SameInBoot DEF Sound, BootBehind, migVars
  <2>4. HaltBehind(p)' BY <2>1, SameInHalt, SameOrders DEF Sound, HaltBehind
  <2>5. DrainsForGood(p)' BY <2>1, SameOrders, SameInHalt DEF Sound, DrainsForGood
  <2> QED BY <2>2, <2>3, <2>4, <2>5 DEF Sound
<1>4. ScheduleFollows'
  <2>1. \A q \in Process : /\ At(q, "sla") => At(q, "sla")'
                           /\ Passed(q, "sla")' <=> Passed(q, "sla")
    BY SameOrders DEF At, Booting, Passed, ProcessInv, ProcessTypeOK, ProcessTypes
  <2> QED BY <2>1 DEF ScheduleFollows, ProcessInv
<1>5. \A q \in Process : q # p => Untouched(q)
  BY DEF Untouched, migVars, ProcessInv, ProcessTypeOK, ProcessTypes
<1> QED BY <1>1, <1>2, <1>3, <1>4, <1>5, StepOfOne

\* Whatever a process was at, it leaves nothing; if it had removed check-sla and not
\* added it yet, the history says so.
LEMMA ExitsKeepsInv ==
  ASSUME ProcessInv, NEW p \in Process, Exits(p), upsets' \in 0..MaxUpsets
  PROVE  ProcessInv'
<1> USE DEF Exits
<1>1. MigInv' BY EndSessionKeepsInv DEF ProcessInv
<1>2. ProcessTypes'
  <2>1. /\ Len(BootOrder) \in Nat /\ Len(ShutdownOrder) \in Nat
    BY BootOrderFacts, ShutdownOrderFacts DEF ProcessInv, ProcessTypeOK, ProcessTypes
  <2>2. unscheduled' \in BOOLEAN BY DEF ProcessInv, ProcessTypeOK, ProcessTypes
  <2> QED BY <2>1, <2>2, SameOrders DEF ProcessInv, ProcessTypeOK, ProcessTypes
<1>3. /\ life'[p] = "down" /\ boot'[p] = 1 /\ halt'[p] = 0
      /\ app'[p] = "building" /\ worker'[p] = "none" /\ timers'[p] = {}
      /\ ~firstRun'[p] /\ pool'[p] = "open" /\ doing'[p] = {} /\ ~early'[p]
      /\ mig'[p] = "idle" /\ lock' # p
  BY MigratorAssumption
  DEF ProcessInv, ProcessTypeOK, ProcessTypes, EndSession, Goes, MigTypeOK
<1>4. Sound(p)'
  <2>1. \A step : ~Passed(p, step)' /\ ~Drained(p, step)' /\ ~Reached(p, step)'
    BY <1>3 DEF Passed, Drained, Reached, Halting
  <2>2. StartedBefore(boot[p])' = {} BY <1>3 DEF StartedBefore
  <2>3. DownIsClean(p)' /\ StopsWhenTold(p)' BY <1>3 DEF DownIsClean, StopsWhenTold
  <2>4. BootBehind(p)' BY <1>3, <2>1, <2>2 DEF BootBehind
  <2>5. HaltBehind(p)' BY <1>3, <2>1 DEF HaltBehind
  <2>6. DrainsForGood(p)' BY <1>3, <2>1 DEF DrainsForGood
  <2> QED BY <2>3, <2>4, <2>5, <2>6 DEF Sound
<1>5. \A q \in Process : q # p => Untouched(q)
  BY MigratorAssumption
  DEF Untouched, ProcessInv, ProcessTypeOK, ProcessTypes, EndSession, Goes, MigTypeOK
<1>6. ScheduleFollows'
  <2>1. ~Passed(p, "sla")' BY <1>3 DEF Passed
  <2>2. \A q \in Process : q # p => /\ At(q, "sla")' <=> At(q, "sla")
                                    /\ Passed(q, "sla")' <=> Passed(q, "sla")
    BY <1>5, SameOrders DEF Untouched, At, Booting, Passed
  <2> QED BY <2>1, <2>2 DEF ScheduleFollows, ProcessInv
<1> QED BY <1>1, <1>2, <1>4, <1>5, <1>6, StepOfOne

\* While it migrates, a process has nothing behind it.
LEMMA MigratesKeepsInv ==
  ASSUME ProcessInv, NEW p \in Process, Migrates(p) \/ WaitsItsTurn(p)
  PROVE  ProcessInv'
<1>1. /\ At(p, "migrations") /\ (runMigrations(p) \/ TakeLock(p))
      /\ UNCHANGED <<service, life, stopped, early, upsets, boot, halt, app, worker, timers,
                     firstRun, pool, doing, schedule, unscheduled>>
  BY DEF Migrates, WaitsItsTurn, rest, control, clocks, checkSla
<1>2. MigInv' BY <1>1, RunMigrationsKeepsInv DEF ProcessInv
<1>3. ProcessTypes' BY <1>1, SameOrders DEF ProcessInv, ProcessTypeOK, ProcessTypes
<1>4. /\ \A q \in Process : q # p => mig'[q] = mig[q]
      /\ \A q \in Process : q # p /\ lock' = q => lock = q
  BY <1>1, MigratorAssumption
  DEF runMigrations, ensureMigrationsTable, LooksForTable, MakesTable, Skip, ApplySql, RecordVersion, Unlock, TakeLock,
      Goes, ProcessInv, ProcessTypeOK, MigTypeOK
<1>5. \A q \in Process : q # p => Untouched(q) BY <1>1, <1>4 DEF Untouched
<1>6. life[p] = "up" /\ boot[p] = 1
  <2>1. life[p] = "up" /\ boot[p] \in 1..Len(BootOrder) /\ "migrations" \in BootOrder[boot[p]]
    BY <1>1, BootOrderFacts DEF At, Booting, ProcessInv, ProcessTypeOK, ProcessTypes
  <2> QED BY <2>1, BootOrderFacts DEF ProcessInv, ProcessTypeOK, ProcessTypes
<1>7. Sound(p)'
  <2>1. Sound(p) BY DEF ProcessInv, ProcessTypeOK, Sound
  <2>2. DownIsClean(p)' /\ StopsWhenTold(p)'
    BY <1>1, <1>6, <2>1 DEF Sound, DownIsClean, StopsWhenTold
  <2>3. BootBehind(p)' BY <1>1, <1>6, <2>1, SameOrders, SameInBoot DEF Sound, BootBehind
  <2>4. HaltBehind(p)' BY <1>1, <2>1, SameInHalt, SameOrders DEF Sound, HaltBehind
  <2>5. DrainsForGood(p)' BY <1>1, <2>1, SameOrders, SameInHalt DEF Sound, DrainsForGood
  <2> QED BY <2>2, <2>3, <2>4, <2>5 DEF Sound
<1>8. ScheduleFollows' BY <1>1, ScheduleKept DEF ProcessInv, checkSla
<1> QED BY <1>1, <1>2, <1>3, <1>5, <1>7, <1>8, StepOfOne

\* What the steps of bootstrap share: a process that still boots has not listened and
\* was told to stop only early, if at all.
LEMMA BootingFacts ==
  ASSUME ProcessInv, NEW p \in Process, Booting(p)
  PROVE  /\ Sound(p) /\ life[p] = "up"
         /\ boot[p] \in 1..Len(BootOrder) /\ Len(BootOrder) \in Nat
         /\ ~Passed(p, "listen")
         /\ early[p] \/ halt[p] = 0
         /\ app[p] = "building" \/ halt[p] > 0
<1>1. ProcessTypes /\ Sound(p) BY DEF ProcessInv, ProcessTypeOK, Sound
<1>2. Len(BootOrder) \in Nat BY <1>1, BootOrderFacts DEF ProcessTypes
<1>3. /\ life[p] = "up" /\ boot[p] \in 1..Len(BootOrder)
      /\ ~(boot[p] > Len(BootOrder)) /\ halt[p] \in Nat
  BY <1>1, <1>2 DEF Booting, ProcessTypes
<1>4. ~Passed(p, "listen") BY <1>1, <1>3, WhereInBoot
<1>5. early[p] \/ halt[p] = 0 BY <1>1, <1>3 DEF Sound, DrainsForGood
<1>6. app[p] = "building" \/ halt[p] > 0
  <2>1. \A step : Reached(p, step) => halt[p] > 0
    BY <1>3 DEF Reached, Halting, Drained
  <2> QED BY <1>1, <1>4, <2>1 DEF ProcessTypes, Sound, BootBehind, HaltBehind
<1> QED BY <1>1, <1>2, <1>3, <1>4, <1>5, <1>6

\* A step of bootstrap that does not touch what gracefulShutdown does.
LEMMA BootStepSound ==
  ASSUME ProcessInv, service' = service, NEW p \in Process, Booting(p), NextStep(p),
         life' = life, stopped' = stopped, early' = early, halt' = halt, pool' = pool,
         doing' = doing, UNCHANGED migVars, mig[p] = "done",
         timers'[p] = timers[p] \cup (BootOrder[boot[p]] \cap Timer),
         worker'[p] = IF "worker" \in BootOrder[boot[p]] THEN "on" ELSE worker[p],
         \/ app'[p] = app[p]
         \/ app[p] = "building" /\ app'[p] = "listening" /\ "listen" \in BootOrder[boot[p]]
  PROVE  Sound(p)'
<1>1. /\ Sound(p) /\ life[p] = "up" /\ boot[p] \in 1..Len(BootOrder)
      /\ early[p] \/ halt[p] = 0
  BY BootingFacts
<1>2. /\ \A step : Passed(p, step)' <=> Passed(p, step) \/ step \in BootOrder[boot[p]]
      /\ StartedBefore(boot'[p]) = StartedBefore(boot[p]) \cup (BootOrder[boot[p]] \cap Timer)
  BY NextInBoot DEF ProcessInv, ProcessTypeOK
<1>3. \A step : /\ Drained(p, step)' <=> Drained(p, step)
                /\ Reached(p, step)' <=> Reached(p, step)
  BY SameInHalt
<1>4. DownIsClean(p)' /\ StopsWhenTold(p)'
  BY <1>1 DEF Sound, DownIsClean, StopsWhenTold
<1>5. BootBehind(p)'
  <2>1. mig'[p] = "done" BY DEF migVars
  <2>2. StartedBefore(boot[p])' = StartedBefore(boot'[p]) BY SameOrders
  <2>3. halt'[p] = 0 => timers'[p] = StartedBefore(boot'[p])
    BY <1>1, <1>2 DEF Sound, BootBehind
  <2>4. worker'[p] # "none" <=> Passed(p, "worker")' BY <1>1, <1>2 DEF Sound, BootBehind
  <2>5. app'[p] = "listening" => Passed(p, "listen")' BY <1>1, <1>2 DEF Sound, BootBehind
  <2> QED BY <2>1, <2>2, <2>3, <2>4, <2>5 DEF BootBehind
<1>6. HaltBehind(p)'
  <2>1. app'[p] = app[p] \/ (app'[p] = "listening" /\ ~Drained(p, "close"))
    BY <1>1 DEF Sound, HaltBehind
  <2>2. worker'[p] = worker[p] \/ worker'[p] = "on" OBVIOUS
  <2>3. app'[p] \in {"closing", "closed"} => Reached(p, "close")'
    BY <1>1, <1>3, <2>1 DEF Sound, HaltBehind
  <2>4. Drained(p, "close")' => app'[p] = "closed" BY <1>1, <1>3, <2>1 DEF Sound, HaltBehind
  <2>5. worker'[p] \in {"closing", "closed"} => Reached(p, "bus")'
    BY <1>1, <1>3, <2>2 DEF Sound, HaltBehind
  <2>6. pool'[p] = "ended" => Drained(p, "pool")' BY <1>1, <1>3 DEF Sound, HaltBehind
  <2>7. "exchange" \in doing'[p] => app'[p] \in {"listening", "closing"}
    BY <1>1, <2>1 DEF Sound, HaltBehind
  <2>8. "event" \in doing'[p] => worker'[p] \in {"on", "closing"}
    BY <1>1, <2>2 DEF Sound, HaltBehind
  <2>9. "check" \in doing'[p] => "sla" \in Started' BY <1>1, SameOrders DEF Sound, HaltBehind
  <2> QED BY <2>3, <2>4, <2>5, <2>6, <2>7, <2>8, <2>9 DEF HaltBehind
<1>7. DrainsForGood(p)'
  <2>1. ~early'[p] => halt'[p] = 0 BY <1>1
  <2>2. halt'[p] = 0 => ~Drained(p, "bus")' /\ ~Drained(p, "sla")' BY DEF Drained
  <2> QED BY <1>1, <2>1, <2>2, SameOrders DEF Sound, DrainsForGood
<1> QED BY <1>4, <1>5, <1>6, <1>7 DEF Sound

\* Every step of bootstrap that gets on.
LEMMA BootKeepsInv ==
  ASSUME ProcessInv, NEW p \in Process,
         Prepares(p) \/ StartsWork(p) \/ RemovesSchedule(p) \/ startSlaChecker(p) \/ Listens(p)
  PROVE  ProcessInv'
<1>1. /\ Booting(p) /\ NextStep(p)
      /\ UNCHANGED <<migVars, service, life, stopped, early, upsets, halt, pool, doing>>
  BY DEF Prepares, StartsWork, RemovesSchedule, startSlaChecker, Listens, At, control
<1>2. MigInv' BY <1>1, MigUnchanged DEF ProcessInv
<1>3. ProcessTypes /\ ScheduleFollows BY DEF ProcessInv, ProcessTypeOK
<1>4. /\ boot' \in [Process -> 1..(Len(BootOrder) + 1)]
      /\ \A q \in Process : q # p => boot'[q] = boot[q]
      /\ \A step : Passed(p, step)' <=> Passed(p, step) \/ step \in BootOrder[boot[p]]
  BY <1>1, <1>3, NextInBoot
<1>5. /\ boot[p] \in 1..Len(BootOrder) /\ Len(BootOrder) \in Nat BY <1>1, BootingFacts
<1>6. /\ \A step \in Alone : step \in BootOrder[boot[p]] => BootOrder[boot[p]] = {step}
      /\ "migrations" \in BootOrder[boot[p]] <=> boot[p] = 1
      /\ "unschedule" \in BootOrder[boot[p]] =>
           boot[p] < Len(BootOrder) /\ BootOrder[boot[p] + 1] = {"sla", "metrics"}
      /\ "sla" \in BootOrder[boot[p]] => BootOrder[boot[p]] = {"sla", "metrics"}
      /\ "relay" \in BootOrder[boot[p]] => BootOrder[boot[p]] \subseteq Working
  BY <1>3, <1>5, BootOrderFacts DEF ProcessTypes
<1>7. mig[p] = "done"
  <2>1. boot[p] > 1 => mig[p] = "done" BY DEF ProcessInv, BootBehind
  <2>2. ~(At(p, "migrations") /\ mig[p] = "done") => "migrations" \notin BootOrder[boot[p]]
    BY <1>6 DEF Prepares, StartsWork, RemovesSchedule, startSlaChecker, Listens, At, Alone,
        Working
  <2> QED BY <1>5, <1>6, <2>1, <2>2
<1>8. ASSUME NEW q \in Process, q # p
      PROVE  /\ At(q, "sla")' <=> At(q, "sla")
             /\ Passed(q, "sla")' <=> Passed(q, "sla")
  BY <1>1, <1>4, <1>8, SameOrders DEF At, Booting, Passed
<1>9. StartedBefore(boot[p] + 1) \subseteq Started
      /\ BootOrder[boot[p]] \cap Timer \subseteq Started
  BY <1>5 DEF Started, StartedBefore
<1>10. CASE Prepares(p)
  <2>1. UNCHANGED <<app, worker, timers, firstRun, schedule, unscheduled>>
    BY <1>10 DEF Prepares, clocks, checkSla
  <2>2. BootOrder[boot[p]] \in {{"migrations"}, {"app"}}
    BY <1>6, <1>10 DEF Prepares, At, Alone
  <2>3. ProcessTypes' BY <1>1, <1>3, <1>4, <2>1, SameOrders DEF ProcessTypes
  <2>4. Sound(p)'
    <3>1. "worker" \notin BootOrder[boot[p]] /\ BootOrder[boot[p]] \cap Timer = {}
      BY <2>2 DEF Timer
    <3> QED BY <1>1, <1>7, <2>1, <3>1, BootStepSound
  <2>5. ScheduleFollows'
    <3>1. ~At(p, "sla") /\ (Passed(p, "sla")' <=> Passed(p, "sla")) BY <1>4, <2>2 DEF At
    <3> QED BY <1>1, <1>3, <1>8, <2>1, <3>1 DEF ScheduleFollows
  <2>6. \A q \in Process : q # p => Untouched(q)
    BY <1>1, <1>4, <2>1 DEF Untouched, migVars
  <2> QED BY <1>1, <1>2, <2>3, <2>4, <2>5, <2>6, StepOfOne
<1>11. CASE StartsWork(p)
  <2>1. /\ UNCHANGED <<app, schedule, unscheduled>>
        /\ worker' = IF At(p, "worker") THEN [worker EXCEPT ![p] = "on"] ELSE worker
        /\ timers' = [timers EXCEPT ![p] = @ \cup (BootOrder[boot[p]] \cap Timer)]
        /\ firstRun' = [firstRun EXCEPT ![p] = TRUE]
    BY <1>11 DEF StartsWork, checkSla
  <2>2. BootOrder[boot[p]] \subseteq Working BY <1>6, <1>11 DEF StartsWork
  <2>3. ProcessTypes' BY <1>1, <1>3, <1>4, <1>9, <2>1, SameOrders DEF ProcessTypes
  <2>4. Sound(p)'
    <3>1. /\ timers'[p] = timers[p] \cup (BootOrder[boot[p]] \cap Timer)
          /\ worker'[p] = IF "worker" \in BootOrder[boot[p]] THEN "on" ELSE worker[p]
      BY <1>1, <1>3, <2>1 DEF ProcessTypes, At
    <3> QED BY <1>1, <1>7, <2>1, <3>1, BootStepSound
  <2>5. ScheduleFollows'
    <3>1. ~At(p, "sla") /\ (Passed(p, "sla")' <=> Passed(p, "sla"))
      BY <1>4, <2>2 DEF At, Working
    <3> QED BY <1>1, <1>3, <1>8, <2>1, <3>1 DEF ScheduleFollows
  <2>6. \A q \in Process : q # p => Untouched(q)
    BY <1>1, <1>3, <1>4, <2>1 DEF Untouched, migVars, ProcessTypes
  <2> QED BY <1>1, <1>2, <2>3, <2>4, <2>5, <2>6, StepOfOne
<1>12. CASE RemovesSchedule(p)
  <2>1. UNCHANGED <<app, worker, timers, firstRun, unscheduled>> /\ schedule' = FALSE
    BY <1>12 DEF RemovesSchedule, clocks
  <2>2. BootOrder[boot[p]] = {"unschedule"} BY <1>6, <1>12 DEF RemovesSchedule, At, Alone
  <2>3. ProcessTypes' BY <1>1, <1>3, <1>4, <2>1, SameOrders DEF ProcessTypes
  <2>4. Sound(p)'
    <3>1. "worker" \notin BootOrder[boot[p]] /\ BootOrder[boot[p]] \cap Timer = {}
      BY <2>2 DEF Timer
    <3> QED BY <1>1, <1>7, <2>1, <3>1, BootStepSound
  <2>5. At(p, "sla")'
    <3>1. boot'[p] = boot[p] + 1 BY <1>1, <1>3, NextInBoot
    <3> QED BY <1>1, <1>5, <1>6, <2>2, <3>1, SameOrders DEF At, Booting
  <2>6. ScheduleFollows' BY <2>5 DEF ScheduleFollows
  <2>7. \A q \in Process : q # p => Untouched(q)
    BY <1>1, <1>4, <2>1 DEF Untouched, migVars
  <2> QED BY <1>1, <1>2, <2>3, <2>4, <2>6, <2>7, StepOfOne
<1>13. CASE startSlaChecker(p)
  <2>1. /\ UNCHANGED <<app, worker, firstRun>> /\ schedule' = TRUE /\ unscheduled' = FALSE
        /\ timers' = [timers EXCEPT ![p] = @ \cup {"sla", "metrics"}]
    BY <1>13 DEF startSlaChecker
  <2>2. BootOrder[boot[p]] = {"sla", "metrics"} BY <1>6, <1>13 DEF startSlaChecker, At
  <2>3. BootOrder[boot[p]] \cap Timer = {"sla", "metrics"} /\ "worker" \notin BootOrder[boot[p]]
    BY <2>2 DEF Timer
  <2>4. ProcessTypes' BY <1>1, <1>3, <1>4, <1>9, <2>1, <2>3, SameOrders DEF ProcessTypes
  <2>5. Sound(p)'
    <3>1. timers'[p] = timers[p] \cup (BootOrder[boot[p]] \cap Timer)
      BY <1>3, <2>1, <2>3 DEF ProcessTypes
    <3> QED BY <1>1, <1>7, <2>1, <2>3, <3>1, BootStepSound
  <2>6. ScheduleFollows' BY <2>1 DEF ScheduleFollows
  <2>7. \A q \in Process : q # p => Untouched(q)
    BY <1>1, <1>3, <1>4, <2>1 DEF Untouched, migVars, ProcessTypes
  <2> QED BY <1>1, <1>2, <2>4, <2>5, <2>6, <2>7, StepOfOne
<1>14. CASE Listens(p)
  <2>1. /\ UNCHANGED <<worker, timers, firstRun, schedule, unscheduled>>
        /\ app[p] = "building" /\ app' = [app EXCEPT ![p] = "listening"]
    BY <1>14 DEF Listens, clocks, checkSla
  <2>2. BootOrder[boot[p]] = {"listen"} BY <1>6, <1>14 DEF Listens, At, Alone
  <2>3. ProcessTypes' BY <1>1, <1>3, <1>4, <2>1, SameOrders DEF ProcessTypes
  <2>4. Sound(p)'
    <3>1. /\ "worker" \notin BootOrder[boot[p]] /\ BootOrder[boot[p]] \cap Timer = {}
          /\ app'[p] = "listening" /\ "listen" \in BootOrder[boot[p]]
      BY <1>3, <2>1, <2>2 DEF Timer, ProcessTypes
    <3> QED BY <1>1, <1>7, <2>1, <3>1, BootStepSound
  <2>5. ScheduleFollows'
    <3>1. ~At(p, "sla") /\ (Passed(p, "sla")' <=> Passed(p, "sla")) BY <1>4, <2>2 DEF At
    <3> QED BY <1>1, <1>3, <1>8, <2>1, <3>1 DEF ScheduleFollows
  <2>6. \A q \in Process : q # p => Untouched(q)
    BY <1>1, <1>3, <1>4, <2>1 DEF Untouched, migVars, ProcessTypes
  <2> QED BY <1>1, <1>2, <2>3, <2>4, <2>5, <2>6, StepOfOne
<1> QED BY <1>10, <1>11, <1>12, <1>13, <1>14

\* A signal finds nothing drained; it is early when bootstrap still runs.
LEMMA SignalKeepsInv ==
  ASSUME ProcessInv, NEW p \in Process, Signal(p)
  PROVE  ProcessInv'
<1> USE DEF Signal, clocks, checkSla
<1>1. /\ ProcessTypes /\ Sound(p) /\ Len(BootOrder) \in Nat
      /\ Len(ShutdownOrder) \in Nat /\ Len(ShutdownOrder) > 4
  BY BootOrderFacts, ShutdownOrderFacts DEF ProcessInv, ProcessTypeOK, ProcessTypes, Sound
<1>2. MigInv' BY MigUnchanged DEF ProcessInv
<1>3. ProcessTypes'
  <2>1. /\ halt' \in [Process -> 0..Len(ShutdownOrder)]
        /\ upsets' \in 0..MaxUpsets
        /\ stopped' \in [Process -> BOOLEAN]
    BY <1>1, ProcessAssumption DEF ProcessTypes
  <2>2. early' \in [Process -> BOOLEAN] BY <1>1 DEF ProcessTypes, Booting
  <2> QED BY <1>1, <2>1, <2>2, SameOrders DEF ProcessTypes
<1>4. /\ life[p] = "up" /\ halt[p] = 0
      /\ halt'[p] = 1 /\ stopped'[p] = TRUE /\ (early'[p] <=> Booting(p))
  BY <1>1 DEF ProcessTypes
<1>5. Sound(p)'
  <2>1. \A step : ~Drained(p, step)' /\ ~Reached(p, step) /\ ~Drained(p, step)
    BY <1>4 DEF Drained, Reached, Halting
  <2>2. DownIsClean(p)' /\ StopsWhenTold(p)' BY <1>4 DEF DownIsClean, StopsWhenTold
  <2>3. BootBehind(p)' BY <1>1, <1>4, SameInBoot DEF Sound, BootBehind, migVars
  <2>4. HaltBehind(p)' BY <1>1, <2>1, SameOrders DEF Sound, HaltBehind
  <2>5. DrainsForGood(p)'
    <3>1. ~Booting(p) => boot[p] > Len(BootOrder) BY <1>1, <1>4 DEF Booting, ProcessTypes
    <3> QED BY <1>4, <2>1, <3>1, SameOrders DEF DrainsForGood
  <2> QED BY <2>2, <2>3, <2>4, <2>5 DEF Sound
<1>6. ScheduleFollows' BY ScheduleKept DEF ProcessInv
<1>7. \A q \in Process : q # p => Untouched(q) BY <1>1 DEF Untouched, migVars, ProcessTypes
<1> QED BY <1>2, <1>3, <1>5, <1>6, <1>7, StepOfOne

\* What the steps of gracefulShutdown leave alone.
LEMMA HaltingFacts ==
  ASSUME ProcessInv, NEW p \in Process, NEW step, Halting(p, step)
  PROVE  /\ ProcessTypes /\ Sound(p) /\ ScheduleFollows /\ MigInv
         /\ life[p] = "up" /\ halt[p] > 0
  BY DEF ProcessInv, ProcessTypeOK, Sound, Halting, StopsWhenTold

\* Timers that were stopped after bootstrap are not started again, and check-sla is behind
\* the process only when no run of it is under way.
LEMMA StopsKeepInv ==
  ASSUME ProcessInv, NEW p \in Process, StopsTimers(p) \/ StopsChecks(p)
  PROVE  ProcessInv'
<1> USE DEF control, checkSla
<1>1. /\ \E t \in Timer : Halting(p, t)
      /\ halt' = halt \/ NextHalt(p)
      /\ Halting(p, "sla") /\ halt' # halt => "check" \notin doing[p]
      /\ UNCHANGED <<migVars, control, boot, app, worker, firstRun, pool, doing, checkSla>>
  <2>1. StopsTimers(p) => ~Halting(p, "sla")
    BY ShutdownOrderFacts DEF StopsTimers, Halting, Timer, ProcessInv, ProcessTypeOK, ProcessTypes
  <2> QED BY <2>1 DEF StopsTimers, StopsChecks, Timer
<1>2. PICK t \in Timer : Halting(p, t) BY <1>1
<1>3. ProcessTypes /\ Sound(p) /\ ScheduleFollows /\ life[p] = "up" /\ halt[p] > 0
  BY <1>2, HaltingFacts
<1>4. MigInv' BY <1>1, MigUnchanged DEF ProcessInv
<1>5. /\ ~Halting(p, "exit") /\ halt[p] < Len(ShutdownOrder) - 3
      /\ halt[p] \in Nat /\ Len(ShutdownOrder) \in Nat
  BY <1>2, <1>3, WhereInHalt
<1>6. /\ halt' \in [Process -> 0..Len(ShutdownOrder)]
      /\ halt'[p] > 0 /\ halt'[p] <= Len(ShutdownOrder) - 3
      /\ \A q \in Process : q # p => halt'[q] = halt[q]
  <2>1. CASE halt' = halt BY <1>3, <1>5, <2>1 DEF ProcessTypes
  <2>2. CASE NextHalt(p) BY <1>1, <1>3, <1>5, <2>2, NextInHalt
  <2> QED BY <1>1, <2>1, <2>2
<1>7. /\ 1..(halt'[p] - 1) \subseteq (1..(halt[p] - 1)) \cup {halt[p]}
      /\ halt' = halt \/ 1..(halt'[p] - 1) = (1..(halt[p] - 1)) \cup {halt[p]}
      /\ \A step : Drained(p, step)' <=> Drained(p, step) \/ (halt' # halt /\ Halting(p, step))
  <2>1. CASE halt' = halt BY <1>1, <2>1, SameInHalt
  <2>2. CASE halt' # halt BY <1>1, <1>3, <1>5, <2>2, NextInHalt
  <2> QED BY <2>1, <2>2
<1>8. /\ timers' \in [Process -> SUBSET Started]
      /\ timers'[p] \subseteq timers[p]
      /\ halt' # halt => timers'[p] \cap ShutdownOrder[halt[p]] = {}
      /\ \A q \in Process : q # p => timers'[q] = timers[q]
  <2>1. CASE StopsTimers(p) BY <1>3, <2>1 DEF StopsTimers, ProcessTypes
  <2>2. CASE StopsChecks(p)
    <3>1. ShutdownOrder[halt[p]] = {"sla"}
      BY <1>3, <2>2, ShutdownOrderFacts DEF StopsChecks, Halting, ProcessTypes
    <3>2. timers' = timers \/ (halt' = halt /\ timers' = [timers EXCEPT ![p] = @ \ {"sla"}])
      BY <2>2 DEF StopsChecks
    <3>3. halt' # halt => timers' = timers /\ "sla" \notin timers[p] BY <2>2 DEF StopsChecks
    <3>4. /\ timers' \in [Process -> SUBSET Started]
          /\ timers'[p] \subseteq timers[p]
          /\ \A q \in Process : q # p => timers'[q] = timers[q]
      BY <1>3, <3>2 DEF ProcessTypes
    <3> QED BY <3>1, <3>3, <3>4
  <2> QED BY <2>1, <2>2
<1>9. ProcessTypes' BY <1>1, <1>3, <1>6, <1>8, SameOrders DEF ProcessTypes
<1>10. Sound(p)'
  <2>1. /\ \A step \in {"close", "bus", "pool"} : Halting(p, step) => halt' = halt
        /\ ~Drained(p, "close") /\ ~Drained(p, "bus")
        /\ ~Halting(p, "close") /\ ~Halting(p, "bus") /\ ~Halting(p, "pool")
    BY <1>3, <1>5, WhereInHalt
  <2>2. DownIsClean(p)' /\ StopsWhenTold(p)' BY <1>1, <1>3 DEF Sound, DownIsClean, StopsWhenTold
  <2>3. BootBehind(p)' BY <1>1, <1>3, <1>6, SameInBoot DEF Sound, BootBehind, migVars
  <2>4. HaltBehind(p)'
    <3>1. ~Reached(p, "close") /\ ~Reached(p, "bus") BY <2>1 DEF Reached
    <3>2. ~Drained(p, "close")' BY <1>7, <2>1
    <3> QED BY <1>1, <1>3, <1>7, <2>1, <3>1, <3>2, SameOrders DEF Sound, HaltBehind
  <2>5. DrainsForGood(p)'
    <3> SUFFICES ASSUME ~early[p] PROVE DrainsForGood(p)' BY <1>1 DEF DrainsForGood
    <3>1. boot'[p] > Len(BootOrder)' BY <1>1, <1>3, SameOrders DEF Sound, DrainsForGood
    <3>2. \A i \in 1..(halt'[p] - 1) : timers'[p] \cap ShutdownOrder[i] = {}
      BY <1>3, <1>7, <1>8 DEF Sound, DrainsForGood
    <3>3. ~Drained(p, "bus")' BY <1>7, <2>1
    <3>4. "check" \in doing[p] => ~Drained(p, "sla")'
      BY <1>1, <1>3, <1>7 DEF Sound, DrainsForGood
    <3>5. "check" \in doing'[p] => ~Drained(p, "sla")'
      BY <1>1, <3>4, SameOrders
    <3>6. \A i \in 1..(halt'[p] - 1) : timers'[p] \cap ShutdownOrder'[i] = {}
      BY <1>1, <3>2, SameOrders
    <3> QED BY <3>1, <3>3, <3>5, <3>6 DEF DrainsForGood
  <2> QED BY <2>2, <2>3, <2>4, <2>5 DEF Sound
<1>11. ScheduleFollows' BY <1>1, <1>3, ScheduleKept
<1>12. \A q \in Process : q # p => Untouched(q)
  BY <1>1, <1>6, <1>8 DEF Untouched, migVars
<1> QED BY <1>1, <1>4, <1>9, <1>10, <1>11, <1>12, StepOfOne

\* A step of gracefulShutdown that starts to close something, or has closed it.
LEMMA DrainStepSound ==
  ASSUME ProcessInv, service' = service, NEW p \in Process,
         NEW step \in {"close", "bus", "pool"}, Halting(p, step),
         migVars' = migVars, life' = life, stopped' = stopped, early' = early, boot' = boot,
         timers' = timers, doing' = doing,
         halt' = halt \/ NextHalt(p),
         app'[p] = app[p] \/ (step = "close" /\ app'[p] \in {"closing", "closed"}),
         app'[p] = "closed" /\ app[p] # "closed" => "exchange" \notin doing[p],
         step = "close" => (app'[p] = "closed" <=> halt' # halt),
         worker'[p] = worker[p] \/ (step = "bus" /\ worker'[p] \in {"closing", "closed"}),
         worker'[p] = "none" <=> worker[p] = "none",
         worker'[p] = "closed" /\ worker[p] # "closed" => "event" \notin doing[p],
         step = "bus" /\ halt' # halt => worker'[p] \in {"none", "closed"},
         pool'[p] = pool[p] \/ (step = "pool" /\ halt' # halt)
  PROVE  /\ Sound(p)'
         /\ halt' \in [Process -> 0..Len(ShutdownOrder)]
         /\ \A q \in Process : q # p => halt'[q] = halt[q]
<1>1. /\ ProcessTypes /\ Sound(p) /\ ScheduleFollows /\ life[p] = "up" /\ halt[p] > 0
  BY HaltingFacts
<1>2. /\ Len(ShutdownOrder) \in Nat /\ Len(ShutdownOrder) > 4
      /\ halt[p] \in 0..Len(ShutdownOrder)
      /\ Halting(p, "close") <=> halt[p] = Len(ShutdownOrder) - 3
      /\ Halting(p, "bus") <=> halt[p] = Len(ShutdownOrder) - 2
      /\ Halting(p, "pool") <=> halt[p] = Len(ShutdownOrder) - 1
      /\ Halting(p, "exit") <=> halt[p] = Len(ShutdownOrder)
      /\ Drained(p, "close") <=> halt[p] > Len(ShutdownOrder) - 3
      /\ Drained(p, "bus") <=> halt[p] > Len(ShutdownOrder) - 2
      /\ Drained(p, "pool") <=> halt[p] > Len(ShutdownOrder) - 1
      /\ \A t \in Timer : ~Halting(p, t)
  BY <1>1, WhereInHalt
<1>3. ~Halting(p, "exit") BY <1>2
<1>4. /\ halt' \in [Process -> 0..Len(ShutdownOrder)]
      /\ \A q \in Process : q # p => halt'[q] = halt[q]
      /\ halt' = halt \/ (halt' # halt /\ halt'[p] = halt[p] + 1)
      /\ halt'[p] > 0
  <2>1. CASE halt' = halt BY <1>1, <2>1 DEF ProcessTypes
  <2>2. CASE NextHalt(p) BY <1>1, <1>2, <1>3, <2>2, NextInHalt
  <2> QED BY <2>1, <2>2
<1>5. /\ 1..(halt'[p] - 1) \subseteq (1..(halt[p] - 1)) \cup {halt[p]}
      /\ \A s : Drained(p, s)' <=> Drained(p, s) \/ (halt' # halt /\ Halting(p, s))
      /\ \A s : Reached(p, s) => Reached(p, s)'
  <2>1. CASE halt' = halt BY <2>1, SameInHalt
  <2>2. CASE halt' # halt
    <3>1. /\ 1..(halt'[p] - 1) = (1..(halt[p] - 1)) \cup {halt[p]}
          /\ \A s : Drained(p, s)' <=> Drained(p, s) \/ Halting(p, s)
      BY <1>1, <1>3, <2>2, NextInHalt
    <3> QED BY <2>2, <3>1 DEF Reached
  <2> QED BY <2>1, <2>2
<1>6. DownIsClean(p)' /\ StopsWhenTold(p)' BY <1>1 DEF Sound, DownIsClean, StopsWhenTold
<1>7. BootBehind(p)'
  BY <1>1, <1>4, SameInBoot DEF Sound, BootBehind, migVars
<1>8. HaltBehind(p)'
  <2>1. app'[p] \in {"closing", "closed"} => Reached(p, "close")'
    <3>1. Halting(p, "close") => Reached(p, "close") BY DEF Reached
    <3> QED BY <1>1, <1>5, <3>1 DEF Sound, HaltBehind
  <2>2. Drained(p, "close")' => app'[p] = "closed"
    <3>1. Drained(p, "close") => app[p] = "closed" /\ step # "close"
      BY <1>1, <1>2 DEF Sound, HaltBehind
    <3>2. Halting(p, "close") => step = "close" BY <1>2
    <3> QED BY <1>5, <3>1, <3>2
  <2>3. worker'[p] \in {"closing", "closed"} => Reached(p, "bus")'
    <3>1. Halting(p, "bus") => Reached(p, "bus") BY DEF Reached
    <3> QED BY <1>1, <1>5, <3>1 DEF Sound, HaltBehind
  <2>4. pool'[p] = "ended" => Drained(p, "pool")' BY <1>1, <1>5 DEF Sound, HaltBehind
  <2>5. "exchange" \in doing'[p] => app'[p] \in {"listening", "closing"}
    BY <1>1 DEF Sound, HaltBehind
  <2>6. "event" \in doing'[p] => worker'[p] \in {"on", "closing"}
    BY <1>1 DEF Sound, HaltBehind
  <2>7. "check" \in doing[p] => "sla" \in Started' BY <1>1, SameOrders DEF Sound, HaltBehind
  <2> QED BY <2>1, <2>2, <2>3, <2>4, <2>5, <2>6, <2>7 DEF HaltBehind
<1>9. DrainsForGood(p)'
  <2> SUFFICES ASSUME ~early[p] PROVE DrainsForGood(p)' BY DEF DrainsForGood
  <2>1. boot'[p] > Len(BootOrder)' BY <1>1, SameOrders DEF Sound, DrainsForGood
  <2>2. \A i \in 1..(halt'[p] - 1) : timers[p] \cap ShutdownOrder[i] = {}
    <3>1. timers[p] \subseteq Timer BY <1>1 DEF ProcessTypes, Started, StartedBefore
    <3>2. timers[p] \cap ShutdownOrder[halt[p]] = {} BY <1>1, <1>2, <3>1 DEF Halting
    <3> QED BY <1>1, <1>5, <3>2 DEF Sound, DrainsForGood
  <2>3. Drained(p, "bus")' => worker'[p] \in {"none", "closed"}
    <3>1. Halting(p, "bus") => step = "bus" BY <1>2
    <3>2. Drained(p, "bus") => worker[p] \in {"none", "closed"} /\ step # "bus"
      BY <1>1, <1>2 DEF Sound, DrainsForGood
    <3> QED BY <1>5, <3>1, <3>2
  <2>4. "check" \in doing[p] => ~Drained(p, "sla")'
    <3>1. ~Halting(p, "sla") BY <1>2 DEF Timer
    <3> QED BY <1>1, <1>5, <3>1 DEF Sound, DrainsForGood
  <2> QED BY <2>1, <2>2, <2>3, <2>4, SameOrders DEF DrainsForGood
<1> QED BY <1>4, <1>6, <1>7, <1>8, <1>9 DEF Sound

\* The server, the bus and the pool are closed in this order.
LEMMA DrainKeepsInv ==
  ASSUME ProcessInv, NEW p \in Process, ClosesServer(p) \/ ClosesBus(p) \/ EndsPool(p)
  PROVE  ProcessInv'
<1>1. /\ service' = service /\ migVars' = migVars /\ life' = life /\ stopped' = stopped
      /\ early' = early /\ boot' = boot /\ timers' = timers /\ firstRun' = firstRun
      /\ doing' = doing /\ upsets' = upsets /\ schedule' = schedule /\ unscheduled' = unscheduled
      /\ halt' = halt \/ NextHalt(p)
  BY DEF ClosesServer, ClosesBus, EndsPool, control, clocks, checkSla
<1>2. PICK step \in {"close", "bus", "pool"} :
        /\ Halting(p, step)
        /\ step = "close" <=> ClosesServer(p)
        /\ step = "bus" <=> ClosesBus(p)
        /\ step = "pool" <=> EndsPool(p)
  <2>1. \A a, b \in {"close", "bus", "pool"} : Halting(p, a) /\ Halting(p, b) => a = b
    BY WhereInHalt DEF ProcessInv, ProcessTypeOK
  <2> QED BY <2>1 DEF ClosesServer, ClosesBus, EndsPool
<1>3. ProcessTypes /\ ScheduleFollows /\ halt[p] \in Nat
  BY <1>2, HaltingFacts DEF ProcessTypes
<1>4. NextHalt(p) => halt' # halt BY <1>3 DEF NextHalt, ProcessTypes
<1>5. /\ Sound(p)'
      /\ halt' \in [Process -> 0..Len(ShutdownOrder)]
      /\ \A q \in Process : q # p => halt'[q] = halt[q]
      /\ app' \in [Process -> {"building", "listening", "closing", "closed"}]
      /\ worker' \in [Process -> {"none", "on", "closing", "closed"}]
      /\ pool' \in [Process -> {"open", "ended"}]
      /\ \A q \in Process : q # p =>
           app'[q] = app[q] /\ worker'[q] = worker[q] /\ pool'[q] = pool[q]
  <2>1. CASE ClosesServer(p)
    <3>1. step = "close" /\ UNCHANGED <<worker, pool>> BY <1>2, <2>1 DEF ClosesServer
    <3>2. \/ app'[p] = "closing" /\ halt' = halt
          \/ app[p] = "closing" /\ "exchange" \notin doing[p] /\ app'[p] = "closed" /\ NextHalt(p)
      BY <1>3, <2>1 DEF ClosesServer, ProcessTypes
    <3>3. /\ app' \in [Process -> {"building", "listening", "closing", "closed"}]
          /\ \A q \in Process : q # p => app'[q] = app[q]
      BY <1>3, <2>1 DEF ClosesServer, ProcessTypes
    <3>4. /\ Sound(p)'
          /\ halt' \in [Process -> 0..Len(ShutdownOrder)]
          /\ \A q \in Process : q # p => halt'[q] = halt[q]
      BY <1>1, <1>2, <1>4, <3>1, <3>2, DrainStepSound
    <3> QED BY <1>3, <3>1, <3>3, <3>4 DEF ProcessTypes
  <2>2. CASE ClosesBus(p)
    <3>1. step = "bus" /\ UNCHANGED <<app, pool>> BY <1>2, <2>2 DEF ClosesBus
    <3>2. \/ worker[p] = "on" /\ worker'[p] = "closing" /\ halt' = halt
          \/ worker[p] = "closing" /\ "event" \notin doing[p] /\ worker'[p] = "closed" /\ NextHalt(p)
          \/ worker[p] = "none" /\ worker'[p] = "none" /\ NextHalt(p)
      BY <1>3, <2>2 DEF ClosesBus, ProcessTypes
    <3>3. /\ worker' \in [Process -> {"none", "on", "closing", "closed"}]
          /\ \A q \in Process : q # p => worker'[q] = worker[q]
      BY <1>3, <2>2 DEF ClosesBus, ProcessTypes
    <3>4. /\ Sound(p)'
          /\ halt' \in [Process -> 0..Len(ShutdownOrder)]
          /\ \A q \in Process : q # p => halt'[q] = halt[q]
      BY <1>1, <1>2, <1>4, <3>1, <3>2, DrainStepSound
    <3> QED BY <1>3, <3>1, <3>3, <3>4 DEF ProcessTypes
  <2>3. CASE EndsPool(p)
    <3>1. step = "pool" /\ UNCHANGED <<app, worker>> /\ NextHalt(p)
      BY <1>2, <2>3 DEF EndsPool
    <3>2. /\ pool' \in [Process -> {"open", "ended"}]
          /\ \A q \in Process : q # p => pool'[q] = pool[q]
      BY <1>3, <2>3 DEF EndsPool, ProcessTypes
    <3>3. /\ Sound(p)'
          /\ halt' \in [Process -> 0..Len(ShutdownOrder)]
          /\ \A q \in Process : q # p => halt'[q] = halt[q]
      BY <1>1, <1>2, <1>4, <3>1, DrainStepSound
    <3> QED BY <1>3, <3>1, <3>2, <3>3 DEF ProcessTypes
  <2> QED BY <2>1, <2>2, <2>3
<1>6. MigInv' BY <1>1, MigUnchanged DEF ProcessInv
<1>7. ProcessTypes' BY <1>1, <1>3, <1>5, SameOrders DEF ProcessTypes
<1>8. ScheduleFollows' BY <1>1, <1>3, ScheduleKept DEF checkSla
<1>9. \A q \in Process : q # p => Untouched(q) BY <1>1, <1>5 DEF Untouched, migVars
<1> QED BY <1>1, <1>5, <1>6, <1>7, <1>8, <1>9, StepOfOne

\* Only a worker that is on takes an event, only a server that listens a request.
LEMMA WorkKeepsInv ==
  ASSUME ProcessInv, NEW p \in Process, Work(p)
  PROVE  ProcessInv'
<1> USE DEF Work, TakesJob, Accepts, Checks, Ticks, FirstRun, Ends, Begins, OnlyWorkMoves
<1>1. UNCHANGED <<migVars, service, life, stopped, early, upsets, boot, halt, app, worker, timers,
                  pool, schedule, unscheduled>>
  BY DEF control, checkSla
<1>2. ProcessTypes /\ ScheduleFollows /\ Sound(p) BY DEF ProcessInv, ProcessTypeOK, Sound
<1>3. /\ doing' \in [Process -> SUBSET Kind]
      /\ \A q \in Process : q # p => doing'[q] = doing[q]
      /\ "event" \in doing'[p] => "event" \in doing[p] \/ worker[p] = "on"
      /\ "exchange" \in doing'[p] => "exchange" \in doing[p] \/ app[p] = "listening"
      /\ "check" \in doing'[p] => "check" \in doing[p] \/ "sla" \in timers[p]
      /\ doing'[p] # {} => doing[p] # {} \/ worker[p] = "on" \/ app[p] = "listening"
                            \/ timers[p] # {} \/ firstRun[p]
      /\ firstRun' \in [Process -> BOOLEAN] /\ (firstRun'[p] => firstRun[p])
      /\ \A q \in Process : q # p => firstRun'[q] = firstRun[q]
  <2>1. /\ doing \in [Process -> SUBSET Kind] /\ firstRun \in [Process -> BOOLEAN]
    BY <1>2 DEF ProcessTypes
  <2>2. CASE TakesJob(p) BY <2>1, <2>2 DEF Kind
  <2>3. CASE Accepts(p) BY <2>1, <2>3 DEF Kind
  <2>4. CASE Checks(p) BY <2>1, <2>4 DEF Kind
  <2>5. CASE Ticks(p) BY <2>1, <2>5 DEF Kind
  <2>6. CASE FirstRun(p) BY <2>1, <2>6 DEF Kind
  <2>7. CASE Ends(p) BY <2>1, <2>7
  <2> QED BY <2>2, <2>3, <2>4, <2>5, <2>6, <2>7
<1>4. MigInv' BY <1>1, MigUnchanged DEF ProcessInv
<1>5. ProcessTypes' BY <1>1, <1>2, <1>3, SameOrders DEF ProcessTypes
<1>6. ScheduleFollows' BY <1>1, <1>2, ScheduleKept DEF checkSla
<1>7. \A q \in Process : q # p => Untouched(q) BY <1>1, <1>3 DEF Untouched, migVars
<1>8. Sound(p)'
  <2>1. life[p] = "down" => doing'[p] = {} /\ ~firstRun'[p]
    BY <1>2, <1>3 DEF Sound, DownIsClean
  <2>2. DownIsClean(p)' /\ StopsWhenTold(p)'
    BY <1>1, <1>2, <2>1 DEF Sound, DownIsClean, StopsWhenTold, migVars
  <2>3. BootBehind(p)' BY <1>1, <1>2, SameOrders, SameInBoot DEF Sound, BootBehind, migVars
  <2>4. HaltBehind(p)' BY <1>1, <1>2, <1>3, SameInHalt, SameOrders DEF ProcessTypes, Sound, HaltBehind
  <2>5. DrainsForGood(p)'
    <3>1. ~early[p] /\ "sla" \in timers[p] => ~Drained(p, "sla")
      BY <1>2 DEF Sound, DrainsForGood, Drained
    <3> QED BY <1>1, <1>2, <1>3, <3>1, SameOrders, SameInHalt DEF Sound, DrainsForGood
  <2> QED BY <2>2, <2>3, <2>4, <2>5 DEF Sound
<1> QED BY <1>1, <1>4, <1>5, <1>6, <1>7, <1>8, StepOfOne

\* A rollback has no process move.
LEMMA OperatorKeepsInv ==
  ASSUME ProcessInv,
         \/ OperatorRollsBack
         \/ (OperatorMakesTable \/ rollbackLastMigration) /\ UNCHANGED rest
  PROVE  ProcessInv'
<1>1. /\ OperatorMakesTable \/ RollbackBegins \/ rollbackLastMigration
      /\ UNCHANGED <<service, life, stopped, early, boot, halt, app, worker, timers,
                     firstRun, pool, doing, schedule, unscheduled>>
      /\ upsets' \in 0..MaxUpsets
  BY ProcessAssumption
  DEF OperatorRollsBack, rest, control, clocks, checkSla, ProcessInv, ProcessTypeOK, ProcessTypes
<1>2. ProcessTypes /\ ScheduleFollows BY DEF ProcessInv, ProcessTypeOK
<1>3. MigInv' BY <1>1, RollbackKeepsInv DEF ProcessInv
<1>4. ProcessTypes' BY <1>1, <1>2, SameOrders DEF ProcessTypes
<1>5. ScheduleFollows' BY <1>1, <1>2, ScheduleKept DEF checkSla
<1>6. mig' = mig /\ lock' \in {lock, Operator, NoOne}
  BY <1>1 DEF OperatorMakesTable, RollbackBegins, rollbackLastMigration, RunDownFile, DeleteRow, RollbackCut
<1>7. \A q \in Process : Untouched(q) BY <1>1, <1>6, MigratorAssumption DEF Untouched
<1>8. \A q \in Process : Sound(q)' 
  BY <1>1, <1>7, UntouchedStaysSound DEF ProcessInv, ProcessTypeOK, Sound
<1> QED BY <1>3, <1>4, <1>5, <1>8 DEF ProcessInv, ProcessTypeOK, Sound, MigInv

\* ProcessInv is inductive: start, steps of bootstrap and of gracefulShutdown side by
\* side, work, deaths and rollbacks keep it, however many replicas there are.
THEOREM AlwaysProcessInv == ProcessSpec => []ProcessInv
<1>1. ProcessInv /\ [ProcessNext]_processVars => ProcessInv'
  <2> SUFFICES ASSUME ProcessInv, [ProcessNext]_processVars PROVE ProcessInv' OBVIOUS
  <2>1. ASSUME NEW p \in Process, Exits(p), upsets' \in {upsets, upsets + 1},
               upsets' = upsets \/ upsets < MaxUpsets
        PROVE  ProcessInv'
    <3>1. upsets \in 0..MaxUpsets BY DEF ProcessInv, ProcessTypeOK, ProcessTypes
    <3>2. upsets' \in 0..MaxUpsets BY <2>1, <3>1, ProcessAssumption
    <3> QED BY <2>1, <3>2, ExitsKeepsInv
  <2>2. ASSUME NEW p \in Process,
               \/ Dies(p) \/ BootThrows(p) \/ ExitsInOrder(p) \/ ForcedExit(p)
        PROVE  ProcessInv'
    BY <2>1, <2>2 DEF Dies, BootThrows, ExitsInOrder, ForcedExit
  <2>3. ASSUME NEW p \in Process, bootstrap(p) PROVE ProcessInv'
    BY <2>2, <2>3, BootKeepsInv, MigratesKeepsInv DEF bootstrap
  <2>4. ASSUME NEW p \in Process, gracefulShutdown(p) PROVE ProcessInv'
    BY <2>2, <2>4, StopsKeepInv, DrainKeepsInv DEF gracefulShutdown
  <2>5. ASSUME NEW p \in Process, Restart(p) \/ OperatorStarts(p) PROVE ProcessInv'
    BY <2>5, StartsKeepsInv DEF Restart, OperatorStarts
  <2>6. CASE UNCHANGED processVars
    <3>1. /\ migVars' = migVars
          /\ UNCHANGED <<service, life, stopped, early, upsets, boot, halt, app, worker, timers,
                         firstRun, pool, doing, schedule, unscheduled>>
      BY <2>6 DEF processVars, rest, control, clocks, checkSla
    <3>2. MigInv' BY <3>1, MigUnchanged DEF ProcessInv
    <3>3. ProcessTypes' /\ ScheduleFollows'
      BY <3>1, SameOrders, ScheduleKept DEF ProcessInv, ProcessTypeOK, ProcessTypes, checkSla
    <3>4. \A q \in Process : Untouched(q) BY <3>1 DEF Untouched, migVars
    <3>5. \A q \in Process : Sound(q)'
      BY <3>1, <3>4, UntouchedStaysSound DEF ProcessInv, ProcessTypeOK, Sound
    <3> QED BY <3>2, <3>3, <3>5 DEF ProcessInv, ProcessTypeOK, Sound, MigInv
  <2> QED BY <2>2, <2>3, <2>4, <2>5, <2>6, MigratesKeepsInv, SignalKeepsInv, WorkKeepsInv,
             OperatorKeepsInv DEF ProcessNext
<1> QED BY <1>1, ProcessInitInv, PTL DEF ProcessSpec

\* Every replica's state keeps its type, at any moment of bootstrap or gracefulShutdown;
\* a process that is down holds nothing, not even the migration lock, and none drains
\* without a signal.
THEOREM ProcessTypeCorrect == ProcessSpec => []ProcessTypeOK
<1>1. ProcessInv => ProcessTypeOK BY DEF ProcessInv
<1> QED BY <1>1, AlwaysProcessInv, PTL

\* Sessions that end anywhere, late replicas and rollbacks never leave a hole: the rows
\* are the first files of the list, each with its objects unless a rollback was cut short,
\* and whoever reads or writes them has the advisory lock.
THEOREM RowsAreFirstOfList == ProcessSpec => [](RowsInOrder /\ LockHeld)
<1>1. ProcessInv => RowsInOrder /\ LockHeld BY DEF ProcessInv, MigInv
<1> QED BY <1>1, AlwaysProcessInv, PTL

\* A replica that answers GET /health/ready has its migrations in the schema, its worker
\* and its timers, whatever the other replicas and the operator did meanwhile.
THEOREM ReadyMeansWhole == ProcessSpec => []ReadyIsWhole
<1>1. ProcessInv => ReadyIsWhole
  <2> SUFFICES ASSUME ProcessInv, NEW p \in Process, AnswersReady(p)
               PROVE  /\ p \notin outdated => Migrated(p)
                      /\ HasWorker => worker[p] = "on"
                      /\ halt[p] = 0 => timers[p] = Started
    BY DEF ReadyIsWhole
  <2>1. ProcessTypes /\ Sound(p) /\ MigInv BY DEF ProcessInv, ProcessTypeOK, Sound
  <2>2. app[p] = "listening" BY DEF AnswersReady, Ready, ReadyUnlessDraining
  <2>3. /\ Len(BootOrder) \in Nat /\ Len(BootOrder) > 3 BY <2>1, BootOrderFacts DEF ProcessTypes
  <2>4. boot[p] = Len(BootOrder) + 1
    BY <2>1, <2>2, <2>3, WhereInBoot DEF Sound, BootBehind
  <2>5. p \notin outdated => Migrated(p)
    <3> SUFFICES ASSUME p \notin outdated, NEW v \in Version
                 PROVE  records[v] = Sum(p, v) /\ v \in schema \cup torn
      BY DEF Migrated
    <3>1. mig[p] = "done" BY <2>1, <2>3, <2>4 DEF Sound, BootBehind
    <3>2. records[v] = Sum(p, v) BY <2>1, <3>1 DEF MigInv, Progress
    <3> QED BY <2>1, <3>2 DEF MigInv, RowsInOrder, Sum
  <2>6. HasWorker => worker[p] = "on"
    <3>1. HasWorker => Passed(p, "worker") BY <2>3, <2>4 DEF HasWorker, Passed
    <3>2. ~Drained(p, "close") BY <2>1, <2>2 DEF Sound, HaltBehind
    <3>3. ~Reached(p, "bus") BY <2>1, <3>2, WhereInHalt DEF Reached
    <3> QED BY <2>1, <3>1, <3>3 DEF Sound, BootBehind, HaltBehind, ProcessTypes
  <2>7. halt[p] = 0 => timers[p] = Started BY <2>1, <2>4 DEF Sound, BootBehind, Started
  <2> QED BY <2>5, <2>6, <2>7
<1> QED BY <1>1, AlwaysProcessInv, PTL

\* gracefulShutdown ends the pool after every event, request and check and after the last
\* interval is cleared, unless the signal was early; only callbacks may outlive it.
THEOREM PoolEndsLast == ProcessSpec => []PoolOutlivesWork
<1>1. ProcessInv => PoolOutlivesWork
  <2> SUFFICES ASSUME ProcessInv, NEW p \in Process, pool[p] = "ended", ~early[p]
               PROVE  timers[p] = {} /\ doing[p] \subseteq {"callback"}
    BY DEF PoolOutlivesWork
  <2>1. ProcessTypes /\ Sound(p) BY DEF ProcessInv, ProcessTypeOK, Sound
  <2>2. Drained(p, "pool") BY <2>1 DEF Sound, HaltBehind
  <2>3. /\ Drained(p, "close") /\ Drained(p, "bus")
        /\ \A i \in 1..(Len(ShutdownOrder) - 4) : i \in 1..(halt[p] - 1)
    BY <2>1, <2>2, WhereInHalt
  <2>4. app[p] = "closed" /\ worker[p] \in {"none", "closed"}
    BY <2>1, <2>3 DEF Sound, HaltBehind, DrainsForGood
  <2>5. "event" \notin doing[p] /\ "exchange" \notin doing[p] BY <2>1, <2>4 DEF Sound, HaltBehind
  <2>7. "check" \notin doing[p]
    <3>1. "sla" \in Started => Drained(p, "sla")
      BY <2>1, <2>3, EveryTimerIsStopped DEF ProcessTypes, Drained
    <3> QED BY <2>1, <3>1 DEF Sound, HaltBehind, DrainsForGood
  <2>6. ASSUME NEW t \in timers[p] PROVE FALSE
    <3>1. t \in Started BY <2>1 DEF ProcessTypes
    <3>2. PICK i \in 1..(halt[p] - 1) : t \in ShutdownOrder[i]
      BY <2>1, <2>3, <3>1, EveryTimerIsStopped DEF ProcessTypes
    <3> QED BY <2>1, <3>2 DEF Sound, DrainsForGood
  <2> QED BY <2>1, <2>5, <2>6, <2>7 DEF ProcessTypes, Kind
<1> QED BY <1>1, AlwaysProcessInv, PTL

\* startSlaChecker of one replica never leaves the others without check-sla for good.
THEOREM SlaStaysScheduled == ProcessSpec => []SlaIsScheduled
<1>1. ProcessInv => SlaIsScheduled
  <2> SUFFICES ASSUME ProcessInv, service = "svc-obs", NEW p \in Process, app[p] = "listening"
               PROVE  Passed(p, "sla")
    BY DEF SlaIsScheduled, ProcessInv, ScheduleFollows
  <2>1. ProcessTypes /\ Sound(p) BY DEF ProcessInv, ProcessTypeOK, Sound
  <2>2. boot[p] > Len(BootOrder) BY <2>1, WhereInBoot DEF Sound, BootBehind
  <2>3. boot[p] \in 1..7 /\ "sla" \in BootOrder[5] /\ Len(BootOrder) = 6
    BY <2>1 DEF ProcessTypes, BootOrder, ObsBoot
  <2> QED BY <2>2, <2>3 DEF Passed
<1> QED BY <1>1, AlwaysProcessInv, PTL

\* However many replicas migrate at once, none fails because of another one's migrations:
\* what it may fail on is left by an end, by a rollback cut short or by an edited file, or
\* is the table that another session makes before anybody has the lock.
THEOREM BootFailsOnlyForACause == ProcessSpec => BootFailsForACause
<1> DEFINE A == \A p \in Process : life[p] = "up" /\ life'[p] = "down" =>
                  halt[p] > 0 \/ upsets' > upsets \/ Mismatch(p) \/ Obstacle(p) \/ TooLate(p)
<1>1. ProcessInv /\ [ProcessNext]_processVars => [A]_processVars
  <2> SUFFICES ASSUME ProcessInv, ProcessNext, NEW p \in Process,
                      life[p] = "up", life'[p] = "down"
               PROVE  halt[p] > 0 \/ upsets' > upsets \/ Mismatch(p) \/ Obstacle(p) \/ TooLate(p)
    OBVIOUS
  <2>1. ProcessTypes /\ Sound(p) /\ MigInv BY DEF ProcessInv, ProcessTypeOK, Sound
  <2>2. PICK q \in Process :
          \/ Starts(q)
          \/ Dies(q) \/ BootThrows(q) \/ ExitsInOrder(q) \/ ForcedExit(q)
    BY <2>1 DEF ProcessNext, Restart, OperatorStarts, bootstrap, Prepares, Migrates, StartsWork,
         RemovesSchedule, startSlaChecker, Listens, WaitsItsTurn, Signal, gracefulShutdown,
         StopsTimers, StopsChecks, ClosesServer, ClosesBus, EndsPool, Work, TakesJob, Accepts,
         Checks, Ticks, FirstRun, Ends, OnlyWorkMoves, OperatorRollsBack, rest, control
  <2>3. ~Starts(q) BY <2>1 DEF Starts, ProcessTypes
  <2>4. q = p
    <3>1. life' = [life EXCEPT ![q] = "down"]
      BY <2>2, <2>3 DEF Dies, BootThrows, ExitsInOrder, ForcedExit, Exits
    <3> QED BY <2>1, <3>1 DEF ProcessTypes
  <2>5. CASE Dies(p) BY <2>1, <2>5 DEF Dies, ProcessTypes
  <2>6. CASE ExitsInOrder(p) \/ ForcedExit(p) BY <2>6 DEF ExitsInOrder, ForcedExit, Halting
  <2>7. CASE BootThrows(p)
    <3>1. CASE Refuses(p)
      <4>1. mig[p] = "record" => records[at[p]] = "none" BY <2>1 DEF MigInv, Progress
      <4> QED BY <3>1, <4>1 DEF Refuses, Mismatch
    <3>2. CASE Booting(p) /\ app[p] # "building" BY <3>2, BootingFacts
    <3>3. CASE SqlFails(p)
      <4>1. /\ mig[p] = "check" /\ at[p] \in Version /\ records[at[p]] = "none"
            /\ at[p] \in schema \/ ~(1..(at[p] - 1) \subseteq schema)
        BY <3>3 DEF SqlFails, ObjectsThere
      <4>2. CASE at[p] \in schema
        <5>1. \A o \in Process : mig[o] # "record"
          BY <2>1, <4>1 DEF MigInv, LockHeld, Migrating
        <5> QED BY <4>1, <4>2, <5>1 DEF Obstacle, HalfApplied
      <4>3. CASE ~(1..(at[p] - 1) \subseteq schema)
        <5>1. PICK w \in 1..(at[p] - 1) : w \notin schema BY <4>3
        <5>2. w \in Version /\ w < at[p]
          BY <4>1, <5>1, MigratorAssumption DEF Version
        <5>3. records[w] # "none"
          BY <2>1, <4>1, <5>2 DEF MigInv, Progress, Migrating, Sum
        <5>4. w \in torn BY <2>1, <5>1, <5>2, <5>3 DEF MigInv, RowsInOrder
        <5> QED BY <4>1, <5>1, <5>4 DEF Obstacle
      <4> QED BY <4>1, <4>2, <4>3
    <3> QED BY <2>7, <3>1, <3>2, <3>3 DEF BootThrows, At
  <2> QED BY <2>2, <2>3, <2>4, <2>5, <2>6, <2>7
<1> QED BY <1>1, AlwaysProcessInv, PTL DEF ProcessSpec, BootFailsForACause

\* A file that cannot run twice and whose row was not written (db-migrate index.ts:96, 97)
\* stays like that whoever starts, dies or rolls back, and no process gets past it.
NobodyGetsPast ==
    \A v \in HalfApplied \cap Once :
        v \in HalfApplied' /\ \A p \in Process : mig'[p] = "done" => mig[p] = "done"

\* No start, death or rollback undoes it: it takes an operator with SQL of their own.
THEOREM HalfAppliedForGood == ProcessSpec => [][NobodyGetsPast]_processVars
<1>1. ASSUME MigInv, service' = service, NEW v \in HalfApplied \cap Once,
             \/ UNCHANGED migVars
             \/ OperatorMakesTable \/ RollbackBegins \/ rollbackLastMigration
             \/ \E q \in Process : runMigrations(q) \/ TakeLock(q) \/ EndSession(q)
      PROVE  v \in HalfApplied' /\ \A p \in Process : mig'[p] = "done" => mig[p] = "done"
  <2> USE MigratorAssumption DEF persisted, Goes, MoveOn, OnlyProcessMoves
  <2>1. /\ v \in Version /\ v \in schema \cap Once /\ records[v] = "none"
        /\ \A q \in Process : ~(mig[q] = "record" /\ at[q] = v)
        /\ mig \in [Process -> Phase] /\ at \in [Process -> 1..(Versions + 1)]
        /\ records \in [Version -> {"none", "null", "original", "edited"}]
    BY <1>1 DEF HalfApplied, MigInv, MigTypeOK
  <2>2. CASE UNCHANGED migVars BY <2>1, <2>2 DEF HalfApplied, migVars
  <2>3. CASE OperatorMakesTable \/ RollbackBegins \/ rollbackLastMigration
    <3>1. undo # "idle" => Youngest \in Recorded
      <4> SUFFICES ASSUME undo # "idle" PROVE Youngest \in Recorded OBVIOUS
      <4>1. PICK n \in 0..Versions : Recorded = 1..n /\ n > 0
        BY <1>1 DEF MigInv, RowsInOrder, UndoInOrder
      <4> QED BY <4>1, YoungestIsLast
    <3>2. /\ mig' = mig /\ at' = at
          /\ schema' = schema \/ (undo # "idle" /\ schema' = schema \ {Youngest})
          /\ records' = records \/ records' = [records EXCEPT ![Youngest] = "none"]
      BY <2>3 DEF OperatorMakesTable, RollbackBegins, rollbackLastMigration, RunDownFile,
           DeleteRow, RollbackCut
    <3>3. v \notin Recorded BY <2>1 DEF Recorded
    <3> QED BY <2>1, <3>1, <3>2, <3>3 DEF HalfApplied
  <2>4. ASSUME NEW q \in Process, runMigrations(q) \/ TakeLock(q) \/ EndSession(q)
        PROVE  v \in HalfApplied' /\ \A p \in Process : mig'[p] = "done" => mig[p] = "done"
    <3>1. ~Unlock(q)
      BY <1>1, <2>1 DEF Unlock, MigInv, Progress, Migrating, Version, Sum
    <3>2. /\ v \in schema' /\ records'[v] = "none"
          /\ \A p \in Process : ~(mig'[p] = "record" /\ at'[p] = v)
          /\ \A p \in Process : mig'[p] = "done" => mig[p] = "done"
      <4>1. CASE LooksForTable(q) \/ MakesTable(q) BY <2>1, <4>1 DEF LooksForTable, MakesTable
      <4>2. CASE TakeLock(q) \/ EndSession(q) BY <2>1, <4>2 DEF TakeLock, EndSession
      <4>3. CASE Skip(q) BY <2>1, <4>3 DEF Skip
      <4>4. CASE ApplySql(q) BY <2>1, <4>4 DEF ApplySql, ObjectsThere
      <4>5. CASE RecordVersion(q) BY <2>1, <4>5 DEF RecordVersion
      <4> QED BY <2>4, <3>1, <4>1, <4>2, <4>3, <4>4, <4>5
           DEF runMigrations, ensureMigrationsTable
    <3> QED BY <2>1, <3>2 DEF HalfApplied
  <2> QED BY <1>1, <2>2, <2>3, <2>4
<1>2. ProcessInv /\ [ProcessNext]_processVars => [NobodyGetsPast]_processVars
  <2> SUFFICES ASSUME ProcessInv, ProcessNext PROVE NobodyGetsPast OBVIOUS
  <2>1. /\ service' = service
        /\ \/ UNCHANGED migVars
           \/ OperatorMakesTable \/ RollbackBegins \/ rollbackLastMigration
           \/ \E q \in Process : runMigrations(q) \/ TakeLock(q) \/ EndSession(q)
    BY DEF ProcessNext, Restart, OperatorStarts, Starts, Dies, BootThrows, ExitsInOrder,
         ForcedExit, Exits, bootstrap, Prepares, Migrates, StartsWork, RemovesSchedule,
         startSlaChecker, Listens, WaitsItsTurn, Signal, gracefulShutdown, StopsTimers,
         StopsChecks, ClosesServer, ClosesBus, EndsPool, Work, TakesJob, Accepts, Checks,
         Ticks, FirstRun, Ends, OnlyWorkMoves, OperatorRollsBack, rest, control
  <2> QED BY <1>1, <2>1 DEF ProcessInv, NobodyGetsPast
<1> QED BY <1>2, AlwaysProcessInv, PTL DEF ProcessSpec

\* A process at its migrations has a statement to run, is through, or throws.
MigratesOn(p) ==
    \/ mig[p] \in {"idle", "create", "alter", "done"}
    \/ mig[p] = "check" /\ at[p] > Versions
    \/ mig[p] = "check" /\ at[p] \in Version /\ records[at[p]] \in {"none", "null", Sum(p, at[p])}
    \/ mig[p] = "record" /\ at[p] \in Version /\ records[at[p]] = "none"
    \/ Mismatch(p)

\* Or it waits for the advisory lock: then it is free, or an operator's session or a
\* replica has it that is itself at its migrations, and goes on.
NobodyHangs ==
    \A p \in Process : At(p, "migrations") =>
        \/ MigratesOn(p)
        \/ /\ mig[p] = "lock"
           /\ \/ lock = NoOne
              \/ lock = Operator /\ undo # "idle"
              \/ \E q \in Process : lock = q /\ At(q, "migrations") /\ MigratesOn(q)

\* However replicas start, die, drain or are rolled back, runMigrations of none waits for
\* a lock that was left behind (db-migrate index.ts:59).
THEOREM MigrationsGoOn == ProcessSpec => []NobodyHangs
<1>1. ProcessInv => NobodyHangs
  <2> SUFFICES ASSUME ProcessInv PROVE NobodyHangs OBVIOUS
  <2>1. ASSUME NEW p \in Process, mig[p] # "lock" PROVE MigratesOn(p)
    <3>1. /\ mig[p] \in Phase \ {"lock"}
          /\ at[p] \in 1..(Versions + 1) /\ Versions \in Nat
          /\ records \in [Version -> {"none", "null", "original", "edited"}]
      BY <2>1, MigratorAssumption DEF ProcessInv, MigInv, MigTypeOK
    <3>2. at[p] > Versions \/ at[p] \in Version
      BY <3>1 DEF Version
    <3>3. CASE mig[p] = "record"
      BY <3>3 DEF ProcessInv, MigInv, Progress, MigratesOn
    <3>4. CASE mig[p] = "check"
      BY <3>2, <3>4 DEF MigratesOn, Mismatch
    <3> QED BY <3>1, <3>3, <3>4 DEF MigratesOn, Phase
  <2>2. ASSUME NEW q \in Process, lock = q PROVE mig[q] # "lock" /\ At(q, "migrations")
    <3>1. mig[q] \in {"check", "record"}
      BY <2>2 DEF ProcessInv, MigInv, LockHeld, Migrating
    <3>2. life[q] = "up" /\ boot[q] \in 1..(Len(BootOrder) + 1)
      BY <3>1 DEF ProcessInv, ProcessTypeOK, ProcessTypes, DownIsClean
    <3>3. boot[q] = 1
      BY <3>1, <3>2 DEF ProcessInv, BootBehind
    <3>4. 1 <= Len(BootOrder) /\ "migrations" \in BootOrder[1]
      BY MigratorAssumption
      DEF ProcessInv, ProcessTypeOK, ProcessTypes, BootOrder, StockBoot, OrdenesBoot,
          ProductosBoot, ObsBoot
    <3> QED BY <3>1, <3>2, <3>3, <3>4 DEF At, Booting
  <2>3. lock \in Process \cup {Operator, NoOne} /\ (lock = Operator => undo # "idle")
    BY DEF ProcessInv, MigInv, MigTypeOK, LockHeld
  <2> QED BY <2>1, <2>2, <2>3 DEF NobodyHangs
<1> QED BY <1>1, AlwaysProcessInv, PTL

-----------------------------------------------------------------------------
(* The circuit breaker, and the pool behind it.                             *)

USE BreakerAssumption DEF Admits, Close

\* The breaker starts closed, with nothing counted.
LEMMA InitIInv == Init => IInv
  BY DEF Init, IInv, TypeOK, FailuresInStreak

\* A call, or a health check, lets the circuit go half-open and counts itself.
LEMMA AdmitKeepsIInv ==
  ASSUME IInv, GetState \/ \E c \in Call : Exec(c)
  PROVE  IInv'
<1> USE DEF StateNow, CallsNow, SuccessesNow, TimedOut, IInv, TypeOK, FailuresInStreak
<1>1. CASE GetState BY <1>1 DEF GetState
<1>2. ASSUME NEW c \in Call, Exec(c) PROVE IInv'
  BY <1>2 DEF Exec
<1> QED BY <1>1, <1>2

\* A result, however late, keeps the counters within their thresholds.
LEMMA SettleKeepsIInv ==
  ASSUME IInv, NEW c \in Call, Settles(c)
  PROVE  IInv'
<1> USE DEF IInv, TypeOK, FailuresInStreak
<1>1. CASE Succeed(c)
  <2>1. CASE state = "half_open" BY <1>1, <2>1 DEF Succeed, RecordSuccess
  <2>2. CASE state = "closed" BY <1>1, <2>2 DEF Succeed, RecordSuccess
  <2>3. CASE state = "open" BY <1>1, <2>3 DEF Succeed, RecordSuccess
  <2> QED BY <2>1, <2>2, <2>3
<1>2. CASE FailInfrastructure(c)
  <2>1. CASE state = "half_open" BY <1>2, <2>1 DEF FailInfrastructure, RecordFailure
  <2>2. CASE state = "closed" BY <1>2, <2>2 DEF FailInfrastructure, RecordFailure
  <2>3. CASE state = "open" BY <1>2, <2>3 DEF FailInfrastructure, RecordFailure
  <2> QED BY <2>1, <2>2, <2>3
<1>3. CASE FailDomain(c) BY <1>3 DEF FailDomain, breaker
<1> QED BY <1>1, <1>2, <1>3 DEF Settles

\* IInv is inductive.
THEOREM AlwaysIInv == Spec => []IInv
<1>1. IInv /\ [Next]_vars => IInv'
  <2> SUFFICES ASSUME IInv, [Next]_vars PROVE IInv' OBVIOUS
  <2>1. CASE Tick BY <2>1 DEF Tick, IInv, TypeOK, FailuresInStreak
  <2>2. CASE DatabaseChanges
    BY <2>2 DEF DatabaseChanges, breaker, IInv, TypeOK, FailuresInStreak
  <2>3. CASE UNCHANGED vars
    BY <2>3 DEF vars, breaker, IInv, TypeOK, FailuresInStreak
  <2> QED BY <2>1, <2>2, <2>3, AdmitKeepsIInv, SettleKeepsIInv DEF Next
<1> QED BY <1>1, InitIInv, PTL DEF Spec

\* No counter of the breaker passes its threshold: an open circuit counts
\* nothing, and a half-open one lets halfOpenMaxCalls calls through.
THEOREM TypeCorrect == Spec => []TypeOK
<1>1. IInv => TypeOK BY DEF IInv
<1> QED BY <1>1, AlwaysIInv, PTL

\* exec never opens a closed circuit on fewer failures in a row than configured.
THEOREM OpensOnlyAfterStreak == Spec => OpensAfterStreak
<1>1. IInv /\ [Next]_vars
      => [state = "closed" /\ state' = "open" => streak' >= FailureThreshold]_vars
  <2> SUFFICES ASSUME IInv, Next, state = "closed", state' = "open"
               PROVE  streak' >= FailureThreshold
    OBVIOUS
  <2>1. PICK c \in Call : FailInfrastructure(c)
    BY DEF Next, GetState, Exec, StateNow, TimedOut, Settles, Succeed, RecordSuccess,
        FailDomain, Tick, DatabaseChanges, breaker
  <2> QED BY <2>1 DEF FailInfrastructure, RecordFailure, IInv, TypeOK, FailuresInStreak
<1> QED BY <1>1, AlwaysIInv, PTL DEF Spec, OpensAfterStreak

-----------------------------------------------------------------------------
(* The pool behind the breaker.                                            *)

\* While every error counts, each call let through half-open has succeeded or is still
\* out: a failure would have opened the circuit again.
PlacesComeBack ==
    /\ IsFiniteSet(inFlight)
    /\ ~ignoring /\ state = "half_open" => halfOpenCalls <= successes + Cardinality(inFlight)

\* A call takes one place and is one more in flight; a health check takes none.
LEMMA AdmitKeepsPlaces ==
  ASSUME IInv, PlacesComeBack, GetState \/ \E c \in Call : Exec(c)
  PROVE  PlacesComeBack'
<1> USE DEF StateNow, CallsNow, SuccessesNow, TimedOut, IInv, TypeOK
<1>1. Cardinality(inFlight) \in Nat
  BY FS_CardinalityType DEF PlacesComeBack
<1>2. CASE GetState BY <1>1, <1>2 DEF GetState, PlacesComeBack
<1>3. ASSUME NEW c \in Call, Exec(c) PROVE PlacesComeBack'
  <2>1. c \notin inFlight /\ inFlight' = inFlight \cup {c} /\ UNCHANGED ignoring
    BY <1>3 DEF Exec
  <2>2. IsFiniteSet(inFlight') /\ Cardinality(inFlight') = Cardinality(inFlight) + 1
    BY <2>1, FS_AddElement DEF PlacesComeBack
  <2>3. CASE TimedOut
    <3>1. halfOpenCalls' = 1 /\ successes' = 0 BY <1>3, <2>3 DEF Exec
    <3> QED BY <1>1, <2>2, <3>1 DEF PlacesComeBack
  <2>4. CASE ~TimedOut
    <3>1. /\ state' = state /\ successes' = successes
          /\ halfOpenCalls' = IF state = "half_open" THEN halfOpenCalls + 1 ELSE halfOpenCalls
      BY <1>3, <2>4 DEF Exec
    <3> QED BY <1>1, <2>1, <2>2, <3>1 DEF PlacesComeBack
  <2> QED BY <2>3, <2>4
<1> QED BY <1>2, <1>3

\* A success gives for its place a success; a failure ends the half-open period.
LEMMA SettleKeepsPlaces ==
  ASSUME IInv, PlacesComeBack, NEW c \in Call, Settles(c)
  PROVE  PlacesComeBack'
<1> USE DEF IInv, TypeOK
<1>1. /\ Cardinality(inFlight) \in Nat /\ IsFiniteSet(inFlight)
      /\ c \in inFlight /\ inFlight' = inFlight \ {c}
  BY FS_CardinalityType DEF PlacesComeBack, Settles, Succeed, FailInfrastructure, FailDomain
<1>2. IsFiniteSet(inFlight') /\ Cardinality(inFlight') = Cardinality(inFlight) - 1
  BY <1>1, FS_RemoveElement
<1>3. CASE Succeed(c)
  <2>1. UNCHANGED <<halfOpenCalls, ignoring>> BY <1>3 DEF Succeed
  <2>2. state' = "half_open" => state = "half_open" /\ successes' = successes + 1
    BY <1>3 DEF Succeed, RecordSuccess
  <2> QED BY <1>1, <1>2, <2>1, <2>2 DEF PlacesComeBack
<1>4. CASE FailInfrastructure(c)
  <2>1. state' # "half_open" BY <1>4 DEF FailInfrastructure, RecordFailure
  <2> QED BY <1>2, <2>1 DEF PlacesComeBack
<1>5. CASE FailDomain(c)
  <2>1. ignoring' BY <1>5 DEF FailDomain
  <2> QED BY <1>2, <2>1 DEF PlacesComeBack
<1> QED BY <1>3, <1>4, <1>5 DEF Settles

\* A half-open circuit lets a call through or waits for one; it has not used its places
\* up on calls that left no result.  With a failurePredicate it may: an error that is
\* ignored gives no place back (resilience index.ts, recordFailure).
HalfOpenIsLive ==
    ~ignoring /\ state = "half_open" => Admits \/ inFlight # {}

\* Where halfOpenMaxCalls is enough for successThreshold, as configured, a circuit on
\* which every error counts is never half-open for good for want of places.
THEOREM HalfOpenGoesOn == SuccessThreshold <= HalfOpenMaxCalls /\ Spec => []HalfOpenIsLive
<1>1. Init => PlacesComeBack
  BY FS_EmptySet DEF Init, PlacesComeBack
<1>2. IInv /\ PlacesComeBack /\ [Next]_vars => PlacesComeBack'
  <2> SUFFICES ASSUME IInv, PlacesComeBack, [Next]_vars PROVE PlacesComeBack' OBVIOUS
  <2>1. CASE Tick BY <2>1 DEF Tick, PlacesComeBack
  <2>2. CASE DatabaseChanges BY <2>2 DEF DatabaseChanges, breaker, PlacesComeBack
  <2>3. CASE UNCHANGED vars BY <2>3 DEF vars, breaker, PlacesComeBack
  <2> QED BY <2>1, <2>2, <2>3, AdmitKeepsPlaces, SettleKeepsPlaces DEF Next
<1>3. SuccessThreshold <= HalfOpenMaxCalls /\ IInv /\ PlacesComeBack => HalfOpenIsLive
  <2> SUFFICES ASSUME SuccessThreshold <= HalfOpenMaxCalls, IInv, PlacesComeBack,
                      ~ignoring, state = "half_open", inFlight = {}
               PROVE  Admits
    BY DEF HalfOpenIsLive
  <2>1. halfOpenCalls <= successes /\ successes < SuccessThreshold
    BY FS_EmptySet DEF PlacesComeBack, IInv, TypeOK
  <2> QED BY <2>1 DEF StateNow, CallsNow, TimedOut, IInv, TypeOK
<1>4. CASE SuccessThreshold <= HalfOpenMaxCalls
  BY <1>1, <1>2, <1>3, <1>4, AlwaysIInv, PTL DEF Spec
<1> QED BY <1>4

\* Half-open, its places used up, and no call left that could report: nothing but
\* the database changes from here, so the circuit refuses every call for good.
Stuck == state = "half_open" /\ halfOpenCalls >= HalfOpenMaxCalls /\ inFlight = {}

\* What HalfOpenIsLive excludes where every error counts is a trap where some do not.
THEOREM StuckForGood == Spec => [][Stuck => Stuck']_vars
<1>1. IInv /\ [Next]_vars => [Stuck => Stuck']_vars
  <2> SUFFICES ASSUME IInv, Next, Stuck PROVE Stuck' OBVIOUS
  <2>1. ~TimedOut /\ ~Admits
    BY DEF Stuck, TimedOut, StateNow, CallsNow, IInv, TypeOK
  <2> QED BY <2>1 DEF Stuck, Next, GetState, Exec, Settles, Succeed, FailInfrastructure,
                     FailDomain, Tick, DatabaseChanges, breaker
<1> QED BY <1>1, AlwaysIInv, PTL DEF Spec

\* The pool calls the breaker as any caller may: what is proved of the breaker
\* holds behind a pool.
THEOREM PoolUsesBreaker == PoolSpec => Spec
<1>1. PoolInit => Init
  BY DEF PoolInit
<1>2. [PoolNext]_poolVars => [Next]_vars
  <2> SUFFICES ASSUME PoolNext PROVE Next \/ UNCHANGED vars
    BY DEF poolVars
  <2>1. ASSUME NEW w \in Worker,
               \/ \E e \in Event : Receive(w, e)
               \/ Send(w) \/ Refused(w)
               \/ \E c \in Client : Connected(w, c)
               \/ Answered(w) \/ Rejected(w) \/ Unanswered(w)
        PROVE  Next \/ UNCHANGED vars
    BY <2>1, PoolAssumption DEF Receive, Send, Refused, Connected, Answered, Rejected, Unanswered,
       Next, Settles
  <2>2. CASE \E c \in Client : IdleTimeout(c)
    BY <2>2 DEF IdleTimeout
  <2>3. CASE Other
    BY <2>3 DEF Other, Next
  <2> QED BY <2>1, <2>2, <2>3 DEF PoolNext
<1> QED BY <1>1, <1>2, PTL DEF PoolSpec, Spec

\* What a worker knows of the client it was lent.
LEMMA LentClient ==
    ASSUME PoolInv, NEW w \in Worker, pc[w] \notin {"free", "connect"}
    PROVE  /\ client[w] \in Client
           /\ event[w] \in Event
           /\ client[w] \in Lent
           /\ \A v \in Worker \ {w} : client[v] # client[w]
BY PoolAssumption DEF PoolInv, PoolTypeOK, Lending, Lent

\* A statement touches the session of its client and no other.
Touches(c) ==
    /\ \A d \in Client \ {c} :
          tx'[d] = tx[d] /\ receipts'[d] = receipts[d] /\ effects'[d] = effects[d]
    /\ stored \subseteq stored'
    /\ \A e \in Event : applied[e] <= applied'[e]

SessionTypes ==
    /\ tx \in [Client -> {"idle", "open", "failed", "lost"}]
    /\ receipts \in [Client -> SUBSET Event]
    /\ effects \in [Client -> [Event -> Nat]]
    /\ stored \subseteq Event
    /\ applied \in [Event -> Nat]

\* A COMMIT moves the receipts and effects of one session, and of no other, to the tables.
LEMMA CommitKeepsPending ==
    ASSUME PoolInv, NEW c \in Client, NEW state2 \in {"idle", "lost"}, Commits(c),
           Writes(c, state2, {}, None)
    PROVE  /\ Pending' /\ SessionTypes' /\ Touches(c)
           /\ (\A e \in stored : applied[e] > 0) /\ (\A e \in receipts[c] : effects[c][e] > 0)
              => \A e \in stored' : applied'[e] > 0
<1> USE DEF PoolInv, PoolTypeOK, Pending, Commits, Writes, None
<1>1. SessionTypes'
  BY DEF SessionTypes
<1>2. Touches(c)
  BY DEF Touches
<1>3. ASSUME NEW e \in Event
      PROVE  applied'[e] <= 1 /\ (e \notin stored' => applied'[e] = 0)
  BY <1>3
<1>4. \A d \in Client, e \in Event : e \in receipts'[d] => e \notin stored'
  BY DEF Touches
<1>5. Pending'
  BY <1>3, <1>4
<1> QED BY <1>1, <1>2, <1>5

\* A session writes what no other session and no table has.
LEMMA WriteKeepsPending ==
    ASSUME PoolInv, NEW c \in Client, NEW state2 \in {"idle", "open", "failed", "lost"},
           NEW R \in SUBSET Event, NEW E \in [Event -> Nat],
           Writes(c, state2, R, E), UNCHANGED tables,
           state2 \in {"idle", "lost"} => R = {} /\ E = None,
           \A e \in R : e \notin stored,
           \A d \in Client \ {c} : R \cap receipts[d] = {},
           \A e \in Event : E[e] <= 1 /\ (E[e] > 0 => e \in R)
    PROVE  Pending' /\ SessionTypes' /\ Touches(c)
<1>1. SessionTypes'
  BY DEF SessionTypes, Writes, tables, PoolInv, PoolTypeOK
<1>2. /\ tx'[c] = state2 /\ receipts'[c] = R /\ effects'[c] = E
      /\ stored' = stored /\ applied' = applied
      /\ \A d \in Client \ {c} :
            tx'[d] = tx[d] /\ receipts'[d] = receipts[d] /\ effects'[d] = effects[d]
  BY DEF Writes, tables, PoolInv, PoolTypeOK
<1>3. Touches(c)
  BY <1>2 DEF Touches, PoolInv, PoolTypeOK
<1>4. \A d \in Client : tx'[d] \in {"idle", "lost"} => receipts'[d] = {} /\ effects'[d] = None
  BY <1>2 DEF PoolInv, Pending
<1>5. \A d, f \in Client : receipts'[d] \cap receipts'[f] # {} => d = f
  BY <1>2 DEF PoolInv, Pending
<1>6. ASSUME NEW d \in Client, NEW e \in Event
      PROVE  /\ e \in receipts'[d] => e \notin stored'
             /\ effects'[d][e] <= 1
             /\ effects'[d][e] > 0 => e \in receipts'[d]
  <2>1. CASE d = c BY <1>2, <2>1
  <2>2. CASE d # c BY <1>2, <2>2 DEF PoolInv, Pending
  <2> QED BY <2>1, <2>2
<1>7. Pending'
  BY <1>2, <1>4, <1>5, <1>6 DEF PoolInv, Pending, None
<1> QED BY <1>1, <1>3, <1>7

\* Whatever a statement does, each receipt stays in one place, with its effect.
LEMMA RunKeepsPending ==
    ASSUME PoolInv, NEW w \in Worker, pc[w] \notin {"free", "connect"}, Run(w)
    PROVE  /\ Pending' /\ SessionTypes' /\ Touches(client[w])
           /\ pc[w] # "commit" => UNCHANGED tables
<1> DEFINE c == client[w]
           e == event[w]
<1>1. c \in Client /\ e \in Event
  BY LentClient
<1> SUFFICES Pending' /\ SessionTypes' /\ Touches(c) /\ (pc[w] # "commit" => UNCHANGED tables)
  OBVIOUS
<1>8. Run(w) <=> \/ pc[w] = "begin" /\ RunBegin(c)
                 \/ pc[w] = "receipt" /\ RunReceipt(c, e)
                 \/ pc[w] = "effect" /\ RunEffect(c, e)
                 \/ pc[w] = "commit" /\ RunCommit(c)
                 \/ pc[w] = "rollback" /\ RunRollback(c)
  BY DEF Run
<1> HIDE DEF c, e
<1>7. /\ receipts[c] \in SUBSET Event
      /\ effects[c] \in [Event -> Nat]
      /\ \A x \in receipts[c] : x \notin stored
      /\ \A d \in Client \ {c} : receipts[c] \cap receipts[d] = {}
      /\ \A x \in Event : effects[c][x] <= 1 /\ (effects[c][x] > 0 => x \in receipts[c])
  BY <1>1 DEF PoolInv, PoolTypeOK, Pending
<1>2. CASE pc[w] = "begin" /\ RunBegin(c)
  <2>1. Writes(c, "open", receipts[c], effects[c]) /\ UNCHANGED tables
    BY <1>2 DEF RunBegin
  <2> QED BY <1>1, <1>7, <2>1, WriteKeepsPending
<1>3. CASE pc[w] = "receipt" /\ RunReceipt(c, e)
  <2>1. CASE Duplicate(c, e)
    <3>1. Writes(c, "open", receipts[c], effects[c]) /\ UNCHANGED tables
      BY <1>3, <2>1 DEF RunReceipt
    <3> QED BY <1>1, <1>3, <1>7, <3>1, WriteKeepsPending
  <2>2. CASE ~Duplicate(c, e)
    <3> DEFINE R == receipts[c] \cup {e}
    <3>1. Writes(c, "open", R, effects[c]) /\ UNCHANGED tables
      BY <1>3, <2>2 DEF RunReceipt
    <3>2. \A d \in Client \ {c} : R \cap receipts[d] = {}
      BY <1>3, <1>7 DEF RunReceipt
    <3>3. \A x \in R : x \notin stored
      BY <1>7, <2>2 DEF Duplicate
    <3>4. \A x \in Event : effects[c][x] <= 1 /\ (effects[c][x] > 0 => x \in R)
      BY <1>7
    <3>5. R \in SUBSET Event
      BY <1>1, <1>7
    <3> HIDE DEF R
    <3> QED BY <1>1, <1>3, <1>7, <3>1, <3>2, <3>3, <3>4, <3>5, WriteKeepsPending
  <2> QED BY <2>1, <2>2
<1>4. CASE pc[w] = "effect" /\ RunEffect(c, e)
  <2> DEFINE E == [effects[c] EXCEPT ![e] = @ + 1]
  <2>1. e \in receipts[c] /\ effects[c][e] = 0
    BY <1>1, <1>4 DEF PoolInv, Stage, c, e
  <2>2. E \in [Event -> Nat] /\ (\A x \in Event : E[x] <= 1 /\ (E[x] > 0 => x \in receipts[c]))
    BY <1>1, <1>7, <2>1
  <2>3. Writes(c, "open", receipts[c], E) /\ UNCHANGED tables
    BY <1>4 DEF RunEffect
  <2> HIDE DEF E
  <2> QED BY <1>1, <1>4, <1>7, <2>2, <2>3, WriteKeepsPending
<1>5. CASE pc[w] = "commit" /\ RunCommit(c)
  BY <1>1, <1>5, CommitKeepsPending DEF RunCommit
<1>6. CASE pc[w] = "rollback" /\ RunRollback(c)
  <2>1. Writes(c, "idle", {}, None) /\ UNCHANGED tables
    BY <1>6 DEF RunRollback
  <2>2. None \in [Event -> Nat] /\ \A x \in Event : None[x] = 0
    BY DEF None
  <2> QED BY <1>1, <1>6, <2>1, <2>2, WriteKeepsPending
<1> QED BY <1>2, <1>3, <1>4, <1>5, <1>6, <1>8

\* The other workers stand where they stood.
LEMMA OthersStand ==
    ASSUME PoolInv, NEW w \in Worker, pc[w] \notin {"free", "connect"}, Touches(client[w]),
           NEW v \in Worker \ {w},
           pc'[v] = pc[v], client'[v] = client[v], event'[v] = event[v]
    PROVE  Stage(v)' /\ (Clean(v) => Clean(v)')
<1>1. CASE pc[v] \in {"free", "connect"}
  BY <1>1 DEF Stage, Clean
<1>2. CASE pc[v] \notin {"free", "connect"}
  <2>1. client[v] \in Client \ {client[w]}
    BY <1>2, LentClient
  <2> QED BY <2>1 DEF Touches, Stage, Clean, PoolInv
<1> QED BY <1>1, <1>2

\* The error path: ROLLBACK next, or the client goes back as it is.
LEMMA ThrowKeepsInv ==
    ASSUME PoolInv, NEW w \in Worker, pc[w] \notin {"free", "connect"}, Touches(client[w]),
           Pending', SessionTypes', TypeOK', Throw(w), UNCHANGED acked,
           ~leaked' => \A e \in stored' : applied'[e] > 0
    PROVE  PoolInv'
<1>1. /\ \A v \in Worker \ {w} : pc'[v] = pc[v] /\ client'[v] = client[v] /\ event'[v] = event[v]
      /\ pc'[w] \in {"rollback", "free"}
      /\ leaked => leaked'
  BY DEF Throw, Goto, Release, PoolInv, PoolTypeOK
<1>2. /\ pc' \in [Worker -> {"free", "connect", "begin", "receipt", "effect", "commit", "rollback"}]
      /\ client' \in [Worker -> Client \cup {NoClient}]
      /\ event' \in [Worker -> Event \cup {NoEvent}]
      /\ leaked' \in BOOLEAN
  BY DEF Throw, Goto, Release, PoolInv, PoolTypeOK
<1>3. PoolTypeOK'
  BY <1>2 DEF PoolTypeOK, SessionTypes, PoolInv
<1>4. \/ pc'[w] = "rollback" /\ client'[w] = client[w] /\ event'[w] = event[w]
      \/ pc'[w] = "free" /\ client'[w] = NoClient /\ event'[w] = NoEvent
  BY DEF Throw, Goto, Release, PoolInv, PoolTypeOK
<1>5. Lending'
  <2>1. client[w] # NoClient /\ event[w] # NoEvent
    BY DEF PoolInv, Lending
  <2> QED BY <1>1, <1>4, <2>1 DEF PoolInv, Lending
<1>6. \A v \in Worker : Stage(v)' /\ (Clean(v) => Clean(v)')
  <2>1. Stage(w)' /\ Clean(w)'
    BY <1>1 DEF Stage, Clean
  <2> QED BY <1>1, <2>1, OthersStand
<1>7. Whole'
  <2> SUFFICES ASSUME ~leaked' PROVE \A c \in Client \ Lent' : tx'[c] # "open"
    BY <1>1, <1>6 DEF PoolInv, Whole
  <2> TAKE c \in Client \ Lent'
  <2>1. CASE c = client[w]
    <3>1. pc'[w] = "free"
      BY <1>4, <2>1 DEF Lent
    <3>2. Release(w)
      BY <3>1 DEF Throw, Goto, PoolInv, PoolTypeOK
    <3> QED BY <2>1, <3>2 DEF Release
  <2>2. CASE c # client[w]
    <3>1. c \notin Lent
      BY <1>1, <2>2 DEF Lent
    <3> QED BY <1>1, <2>2, <3>1 DEF PoolInv, Whole, Touches
  <2> QED BY <2>1, <2>2
<1>8. AckedIsStored'
  BY DEF Touches, PoolInv, AckedIsStored
<1> QED BY <1>3, <1>5, <1>6, <1>7, <1>8 DEF PoolInv

\* A step of the pool leaves the breaker within its thresholds.
LEMMA PoolTypes == PoolSpec => []TypeOK
BY PoolUsesBreaker, TypeCorrect, PTL

\* A statement that was answered.
LEMMA AnsweredKeepsInv ==
    ASSUME PoolInv, TypeOK', NEW w \in Worker, Answered(w)
    PROVE  PoolInv'
<1> DEFINE c == client[w]
           e == event[w]
<1>1. pc[w] \notin {"free", "connect"} /\ Run(w)
  BY DEF Answered
<1>2. /\ c \in Client /\ e \in Event /\ c \in Lent
      /\ \A v \in Worker \ {w} : client[v] # c
  BY <1>1, LentClient
<1>3. /\ Pending' /\ SessionTypes' /\ Touches(c)
      /\ pc[w] # "commit" => UNCHANGED tables
  BY <1>1, RunKeepsPending
<1>4. Stage(w)
  BY DEF PoolInv
<1>5. \A v \in Worker \ {w} : pc'[v] = pc[v] /\ client'[v] = client[v] /\ event'[v] = event[v]
  BY DEF Answered, Goto, Release, PoolInv, PoolTypeOK
<1>6. \A v \in Worker \ {w} : Stage(v)' /\ (Clean(v) => Clean(v)')
  BY <1>1, <1>3, <1>5, OthersStand
<1>7. PoolTypeOK' /\ Lending' /\ Stage(w)' /\ Whole' /\ AckedIsStored'
  <2>1. CASE pc[w] \in {"begin", "receipt", "effect"}
    <3>1. /\ pc' = [pc EXCEPT ![w] = pc'[w]]
          /\ pc'[w] \in {"receipt", "effect", "commit"}
          /\ UNCHANGED <<client, event, leaked, acked>>
          /\ tx'[c] = "open"
      BY <1>2, <2>1 DEF Answered, Goto, Run, RunBegin, RunReceipt, RunEffect, Writes, PoolInv, PoolTypeOK
    <3>2. Stage(w)' /\ (~leaked => Clean(w)')
      <4>1. CASE pc[w] = "begin"
        <5>1. pc'[w] = "receipt" /\ receipts'[c] = receipts[c] /\ tx[c] \in {"idle", "open"}
          BY <1>2, <4>1 DEF Answered, Goto, Run, RunBegin, Writes, PoolInv, PoolTypeOK
        <5>2. ~leaked => tx[c] = "idle"
          BY <4>1, <5>1 DEF PoolInv, Whole, Clean
        <5> QED BY <1>2, <3>1, <5>1, <5>2 DEF Stage, Clean, PoolInv, Pending
      <4>2. CASE pc[w] = "receipt" /\ Duplicate(c, e)
        <5>1. pc'[w] = "commit" /\ receipts'[c] = receipts[c] /\ stored' = stored
          BY <1>2, <4>2 DEF Answered, Goto, Run, RunReceipt, Writes, tables, PoolInv, PoolTypeOK
        <5>2. ~leaked => receipts[c] = {}
          BY <4>2 DEF PoolInv, Whole, Clean
        <5> QED BY <3>1, <4>2, <5>1, <5>2 DEF Stage, Clean, Duplicate
      <4>3. CASE pc[w] = "receipt" /\ ~Duplicate(c, e)
        <5>1. /\ pc'[w] = "effect" /\ receipts'[c] = receipts[c] \cup {e}
              /\ effects'[c] = effects[c]
          BY <1>2, <4>3 DEF Answered, Goto, Run, RunReceipt, Writes, PoolInv, PoolTypeOK
        <5>2. effects[c][e] = 0
          BY <1>2, <4>3 DEF Duplicate, PoolInv, Pending, PoolTypeOK
        <5>3. ~leaked => receipts[c] = {}
          BY <4>3 DEF PoolInv, Whole, Clean
        <5> QED BY <3>1, <5>1, <5>2, <5>3 DEF Stage, Clean
      <4>4. CASE pc[w] = "effect"
        <5>1. /\ pc'[w] = "commit" /\ receipts'[c] = receipts[c]
              /\ effects'[c] = [effects[c] EXCEPT ![e] = @ + 1]
          BY <1>2, <4>4 DEF Answered, Goto, Run, RunEffect, Writes, PoolInv, PoolTypeOK
        <5>2. e \in receipts[c] /\ effects[c] \in [Event -> Nat]
          BY <1>2, <4>4, <1>4 DEF Stage, PoolInv, PoolTypeOK
        <5>3. ~leaked => receipts[c] = {e}
          BY <4>4 DEF PoolInv, Whole, Clean
        <5>4. effects'[c][e] > 0
          BY <1>2, <5>1, <5>2
        <5> QED BY <3>1, <5>1, <5>2, <5>3, <5>4 DEF Stage, Clean
      <4> QED BY <2>1, <4>1, <4>2, <4>3, <4>4
    <3>3. PoolTypeOK'
      BY <1>3, <3>1 DEF PoolInv, PoolTypeOK, SessionTypes
    <3>4. Lending'
      BY <2>1, <3>1, <1>5 DEF PoolInv, Lending
    <3>5. Lent' = Lent /\ UNCHANGED tables
      BY <1>3, <2>1, <3>1 DEF Lent
    <3>6. Whole'
      <4> SUFFICES ASSUME ~leaked PROVE /\ \A v \in Worker : Clean(v)'
                                        /\ \A d \in Client \ Lent : tx'[d] # "open"
                                        /\ \A x \in stored' : applied'[x] > 0
        BY <3>1, <3>5 DEF Whole
      <4> QED BY <1>2, <1>3, <1>6, <3>2, <3>5 DEF PoolInv, Whole, Touches, tables
    <3>7. AckedIsStored'
      BY <3>1, <3>5 DEF PoolInv, AckedIsStored, tables
    <3> QED BY <3>2, <3>3, <3>4, <3>6, <3>7
  <2>2. CASE pc[w] \in {"commit", "rollback"}
    <3>1. /\ Release(w)
          /\ tx'[c] = "idle"
          /\ acked' = IF pc[w] = "commit" THEN acked \cup {e} ELSE acked
      BY <1>2, <2>2 DEF Answered, Run, RunCommit, RunRollback, Writes, PoolInv, PoolTypeOK
    <3>2. pc'[w] = "free" /\ client'[w] = NoClient /\ event'[w] = NoEvent /\ leaked' = leaked
      BY <3>1 DEF Release, PoolInv, PoolTypeOK
    <3>3. PoolTypeOK'
      BY <1>2, <1>3, <3>1, <3>2 DEF Release, PoolInv, PoolTypeOK, SessionTypes
    <3>4. Lending'
      BY <1>5, <3>2 DEF PoolInv, Lending
    <3>5. Stage(w)' /\ Clean(w)'
      BY <3>2 DEF Stage, Clean
    <3>6. ~leaked => \A x \in stored' : applied'[x] > 0
      <4>1. CASE pc[w] = "commit"
        <5>1. Commits(c) /\ Writes(c, "idle", {}, None)
          BY <1>1, <4>1 DEF Run, RunCommit
        <5>2. ~leaked => \A x \in receipts[c] : effects[c][x] > 0
          BY <4>1 DEF PoolInv, Whole, Clean
        <5> QED BY <1>2, <5>1, <5>2, CommitKeepsPending DEF PoolInv, Whole
      <4>2. CASE pc[w] = "rollback"
        BY <1>3, <4>2 DEF PoolInv, Whole, tables
      <4> QED BY <2>2, <4>1, <4>2
    <3>7. Whole'
      <4> SUFFICES ASSUME ~leaked, NEW d \in Client \ Lent' PROVE tx'[d] # "open"
        BY <1>6, <3>2, <3>5, <3>6 DEF PoolInv, Whole
      <4>1. CASE d = c BY <3>1, <4>1
      <4>2. CASE d # c
        <5>1. d \notin Lent
          BY <1>5, <4>2 DEF Lent
        <5> QED BY <1>3, <4>2, <5>1 DEF PoolInv, Whole, Touches
      <4> QED BY <4>1, <4>2
    <3>8. AckedIsStored'
      <4>1. CASE pc[w] = "commit"
        <5>1. e \in stored \cup receipts[c] /\ tx[c] = "open"
          BY <1>4, <4>1 DEF Stage
        <5>2. stored' = stored \cup receipts[c]
          BY <1>1, <4>1, <5>1 DEF Run, RunCommit, Commits
        <5> QED BY <3>1, <5>1, <5>2 DEF PoolInv, AckedIsStored
      <4>2. CASE pc[w] = "rollback"
        BY <1>3, <3>1, <4>2 DEF PoolInv, AckedIsStored, tables
      <4> QED BY <2>2, <4>1, <4>2
    <3> QED BY <3>3, <3>4, <3>5, <3>7, <3>8
  <2> QED BY <1>1, <2>1, <2>2 DEF Run
<1> QED BY <1>3, <1>6, <1>7 DEF PoolInv

\* A worker without a client comes or goes: no session is touched.
LEMMA NoClientKeepsInv ==
    ASSUME PoolInv, TypeOK', NEW w \in Worker, pc[w] \in {"free", "connect"},
           pc' = [pc EXCEPT ![w] = pc'[w]], event' = [event EXCEPT ![w] = event'[w]],
           \/ pc'[w] = "connect" /\ event'[w] \in Event
           \/ pc'[w] = "free" /\ event'[w] = NoEvent,
           UNCHANGED <<client, sessions, tables, acked, leaked>>
    PROVE  PoolInv'
<1>1. PoolTypeOK'
  BY DEF PoolInv, PoolTypeOK, sessions, tables
<1>2. Lending'
  BY PoolAssumption DEF PoolInv, PoolTypeOK, Lending
<1>3. \A v \in Worker : Stage(v)' /\ (Clean(v) => Clean(v)')
  <2>1. Stage(w)' /\ Clean(w)'
    BY DEF Stage, Clean, PoolInv, PoolTypeOK
  <2>2. \A v \in Worker \ {w} : pc'[v] = pc[v] /\ event'[v] = event[v]
    BY DEF PoolInv, PoolTypeOK
  <2> QED BY <2>1, <2>2 DEF Stage, Clean, PoolInv, sessions, tables
<1>4. Lent' = Lent
  BY DEF Lent
<1>5. Whole' /\ Pending' /\ AckedIsStored'
  BY <1>3, <1>4 DEF PoolInv, Whole, Pending, AckedIsStored, sessions, tables
<1> QED BY <1>1, <1>2, <1>3, <1>5 DEF PoolInv

\* connect failed: there is no client to release.
LEMMA ConnectFails ==
    ASSUME PoolInv, TypeOK', NEW w \in Worker, pc[w] = "connect", Throw(w),
           UNCHANGED <<sessions, tables, acked>>
    PROVE  PoolInv'
<1>1. /\ pc' = [pc EXCEPT ![w] = "free"] /\ event' = [event EXCEPT ![w] = NoEvent]
      /\ UNCHANGED <<client, leaked>>
  BY DEF Throw
<1>2. pc'[w] = "free" /\ event'[w] = NoEvent
  BY <1>1 DEF PoolInv, PoolTypeOK
<1>3. pc' = [pc EXCEPT ![w] = pc'[w]] /\ event' = [event EXCEPT ![w] = event'[w]]
  BY <1>1, <1>2
<1> QED BY <1>1, <1>2, <1>3, NoClientKeepsInv

\* The circuit refuses a statement and the handler gives its client up.
LEMMA RefusedKeepsInv ==
    ASSUME PoolInv, TypeOK', NEW w \in Worker, Refused(w)
    PROVE  PoolInv'
<1>1. pc[w] # "free" /\ Throw(w) /\ UNCHANGED <<sessions, tables, acked>>
  BY DEF Refused
<1>2. CASE pc[w] = "connect"
  BY <1>1, <1>2, ConnectFails
<1>3. CASE pc[w] # "connect"
  <2>1. Touches(client[w]) /\ Pending' /\ SessionTypes'
    BY <1>1 DEF Touches, PoolInv, PoolTypeOK, Pending, SessionTypes, sessions, tables
  <2>2. leaked => leaked'
    BY <1>1 DEF Throw, Goto, Release
  <2>3. ~leaked' => \A e \in stored' : applied'[e] > 0
    BY <1>1, <2>2 DEF PoolInv, Whole, tables
  <2> QED BY <1>1, <1>3, <2>1, <2>3, ThrowKeepsInv
<1> QED BY <1>2, <1>3

\* The session of a failed statement, whose writes stay or go.
LEMMA FailedWrites ==
    ASSUME PoolInv, NEW c \in Client, UNCHANGED tables,
           \/ /\ \/ UNCHANGED tx
                 \/ tx' = [tx EXCEPT ![c] = IF @ = "open" THEN "failed" ELSE @]
              /\ UNCHANGED <<receipts, effects>>
           \/ Writes(c, "lost", {}, None)
    PROVE  Touches(c) /\ Pending' /\ SessionTypes'
<1>1. CASE Writes(c, "lost", {}, None)
  <2>1. None \in [Event -> Nat] /\ \A x \in Event : None[x] = 0
    BY DEF None
  <2> QED BY <1>1, <2>1, WriteKeepsPending
<1>2. CASE UNCHANGED <<receipts, effects>> /\ tx' = [tx EXCEPT ![c] = tx'[c]]
           /\ tx'[c] \in {tx[c], IF tx[c] = "open" THEN "failed" ELSE tx[c]}
  <2>1. SessionTypes' /\ Touches(c)
    BY <1>2 DEF SessionTypes, Touches, PoolInv, PoolTypeOK, tables
  <2>2. \A d \in Client : tx'[d] \in {"idle", "lost"} => tx'[d] = tx[d]
    BY <1>2 DEF PoolInv, PoolTypeOK
  <2>3. Pending'
    BY <1>2, <2>2 DEF PoolInv, Pending, None, tables
  <2> QED BY <2>1, <2>3
<1> QED BY <1>1, <1>2 DEF PoolInv, PoolTypeOK

\* PostgreSQL refuses a statement, and the transaction around it has failed.
LEMMA RejectedKeepsInv ==
    ASSUME PoolInv, TypeOK', NEW w \in Worker, Rejected(w)
    PROVE  PoolInv'
<1>1. /\ pc[w] \notin {"free", "connect"} /\ Throw(w)
      /\ UNCHANGED <<receipts, effects, tables, acked>>
      /\ tx' = [tx EXCEPT ![client[w]] = IF @ = "open" THEN "failed" ELSE @]
  BY DEF Rejected
<1>2. client[w] \in Client
  BY <1>1, LentClient
<1>3. Touches(client[w]) /\ Pending' /\ SessionTypes'
  BY <1>1, <1>2, FailedWrites
<1>4. leaked => leaked'
  BY <1>1 DEF Throw, Goto, Release
<1>5. ~leaked' => \A e \in stored' : applied'[e] > 0
  BY <1>1, <1>4 DEF PoolInv, Whole, tables
<1> QED BY <1>1, <1>3, <1>5, ThrowKeepsInv

\* A statement is not answered in time, or its connection breaks, before or after it took effect.
LEMMA UnansweredKeepsInv ==
    ASSUME PoolInv, TypeOK', NEW w \in Worker, Unanswered(w)
    PROVE  PoolInv'
<1> DEFINE c == client[w]
<1>a. pc[w] # "free" /\ Throw(w) /\ UNCHANGED acked
  BY DEF Unanswered
<1>b. leaked => leaked'
  BY <1>a DEF Throw, Goto, Release
<1>1. pc[w] # "free" /\ Throw(w) /\ UNCHANGED acked /\ (leaked => leaked')
  BY <1>a, <1>b
<1>2. CASE pc[w] = "connect"
  <2>1. UNCHANGED <<sessions, tables>>
    BY <1>2 DEF Unanswered, Run
  <2> QED BY <1>1, <1>2, <2>1, ConnectFails
<1>3. CASE pc[w] # "connect"
  <2>1. c \in Client
    BY <1>1, <1>3, LentClient
  <2>2. ~leaked => (\A e \in stored : applied[e] > 0)
    BY DEF PoolInv, Whole
  <2>3. /\ Touches(c) /\ Pending' /\ SessionTypes'
        /\ ~leaked => \A e \in stored' : applied'[e] > 0
    <3>1. CASE Run(w) /\ pc[w] # "commit"
      <4>1. Touches(c) /\ Pending' /\ SessionTypes' /\ UNCHANGED tables
        BY <1>1, <1>3, <3>1, RunKeepsPending
      <4> QED BY <2>2, <4>1 DEF tables
    <3>2. CASE pc[w] = "commit" /\ Commits(c)
               /\ (Writes(c, "lost", {}, None) \/ Writes(c, "idle", {}, None))
      <4>1. ~leaked => \A e \in receipts[c] : effects[c][e] > 0
        BY <3>2 DEF PoolInv, Whole, Clean
      <4> QED BY <2>1, <2>2, <3>2, <4>1, CommitKeepsPending
    <3>3. CASE /\ UNCHANGED tables
               /\ \/ Writes(c, "lost", {}, None)
                  \/ /\ \/ UNCHANGED tx
                        \/ tx' = [tx EXCEPT ![c] = IF @ = "open" THEN "failed" ELSE @]
                     /\ UNCHANGED <<receipts, effects>>
      <4>1. Touches(c) /\ Pending' /\ SessionTypes'
        BY <2>1, <3>3, FailedWrites
      <4> QED BY <2>2, <3>3, <4>1 DEF tables
    <3>4. CASE Run(w) /\ pc[w] = "commit"
      BY <3>2, <3>4 DEF Run, RunCommit
    <3> QED BY <1>3, <3>1, <3>2, <3>3, <3>4 DEF Unanswered, Break
  <2> QED BY <1>1, <1>3, <2>3, ThrowKeepsInv
<1> QED BY <1>2, <1>3

\* A client that is nobody's is lent, or its session ends.
LEMMA ConnectedKeepsInv ==
    ASSUME PoolInv, TypeOK', NEW w \in Worker, NEW c \in Client, Connected(w, c)
    PROVE  PoolInv'
<1>1. /\ pc[w] = "connect" /\ c \notin Lent
      /\ pc' = [pc EXCEPT ![w] = "begin"] /\ client' = [client EXCEPT ![w] = c]
      /\ tx' = [tx EXCEPT ![c] = IF @ = "lost" THEN "idle" ELSE @]
      /\ UNCHANGED <<event, receipts, effects, tables, acked, leaked>>
  BY DEF Connected
<1>2. PoolTypeOK'
  BY <1>1 DEF PoolInv, PoolTypeOK, tables
<1>3. \A v \in Worker : client[v] # c
  BY <1>1 DEF Lent
<1>4. Lending'
  BY <1>1, <1>3, PoolAssumption DEF PoolInv, PoolTypeOK, Lending
<1>5. Pending'
  BY <1>1 DEF PoolInv, PoolTypeOK, Pending, None, tables
<1>6. \A v \in Worker \ {w} : Stage(v)' /\ (Clean(v) => Clean(v)')
  <2> TAKE v \in Worker \ {w}
  <2>1. pc'[v] = pc[v] /\ client'[v] = client[v] /\ client[v] # c
    BY <1>1, <1>3 DEF PoolInv, PoolTypeOK
  <2>2. pc[v] \notin {"free", "connect"} => client[v] \in Client \ {c}
    BY <2>1, LentClient
  <2> QED BY <1>1, <2>1, <2>2 DEF Stage, Clean, PoolInv, PoolTypeOK, tables
<1>7. Stage(w)' /\ (~leaked => Clean(w)')
  BY <1>1 DEF Stage, Clean, PoolInv, PoolTypeOK, Whole
<1>8. Whole'
  <2> SUFFICES ASSUME ~leaked, NEW d \in Client \ Lent' PROVE tx'[d] # "open"
    BY <1>1, <1>6, <1>7 DEF PoolInv, Whole, tables
  <2>1. d \notin Lent
    <3>1. client[w] = NoClient /\ \A v \in Worker \ {w} : client'[v] = client[v]
      BY <1>1 DEF PoolInv, PoolTypeOK, Lending
    <3> QED BY <3>1, PoolAssumption DEF Lent
  <2> QED BY <1>1, <2>1 DEF PoolInv, PoolTypeOK, Whole
<1>9. AckedIsStored'
  BY <1>1 DEF PoolInv, AckedIsStored, tables
<1> QED BY <1>2, <1>4, <1>5, <1>6, <1>7, <1>8, <1>9 DEF PoolInv

\* An idle client loses its connection, and the transaction left open in it.
LEMMA IdleKeepsInv ==
    ASSUME PoolInv, TypeOK', NEW c \in Client, IdleTimeout(c)
    PROVE  PoolInv'
<1>1. /\ c \notin Lent /\ UNCHANGED <<workers, tables, acked, leaked>>
      /\ Writes(c, "lost", {}, None)
  BY DEF IdleTimeout, Break
<1>2. Touches(c) /\ Pending' /\ SessionTypes'
  BY <1>1, FailedWrites
<1>3. PoolTypeOK' /\ Lending' /\ AckedIsStored' /\ Lent' = Lent
  BY <1>1, <1>2 DEF PoolInv, PoolTypeOK, SessionTypes, Lending, AckedIsStored, Lent, workers, tables
<1>4. \A v \in Worker : Stage(v)' /\ (Clean(v) => Clean(v)')
  <2> TAKE v \in Worker
  <2>1. pc[v] \notin {"free", "connect"} => client[v] \in Client \ {c}
    BY <1>1, LentClient
  <2> QED BY <1>1, <1>2, <2>1 DEF Touches, Stage, Clean, PoolInv, workers
<1>5. Whole'
  <2>1. \A d \in Client : tx'[d] = "open" => tx[d] = "open"
    BY <1>1 DEF Writes, PoolInv, PoolTypeOK
  <2> QED BY <1>1, <1>3, <1>4, <2>1 DEF PoolInv, Whole, tables
<1> QED BY <1>2, <1>3, <1>4, <1>5 DEF PoolInv

\* A step of the breaker alone.
LEMMA OutsideKeepsInv ==
    ASSUME PoolInv, TypeOK', UNCHANGED <<workers, sessions, tables, acked, leaked>>
    PROVE  PoolInv'
<1>1. PoolTypeOK' /\ Lending' /\ Pending' /\ AckedIsStored' /\ Lent' = Lent
  BY DEF PoolInv, PoolTypeOK, Lending, Pending, AckedIsStored, Lent, workers, sessions, tables
<1>2. \A v \in Worker : Stage(v)' /\ (Clean(v) => Clean(v)')
  BY DEF Stage, Clean, PoolInv, workers, sessions, tables
<1>3. Whole'
  BY <1>1, <1>2 DEF PoolInv, Whole, sessions, tables
<1> QED BY <1>1, <1>2, <1>3 DEF PoolInv

\* No client is lent and nothing is pending at the start.
LEMMA PoolInitInv == PoolInit => PoolInv
<1> SUFFICES ASSUME PoolInit PROVE PoolInv
  OBVIOUS
<1>1. TypeOK
  BY InitIInv DEF PoolInit, IInv
<1>a. PoolTypeOK
  BY <1>1 DEF PoolInit, PoolTypeOK, None
<1>b. Lending /\ AckedIsStored /\ Whole
  BY PoolAssumption DEF PoolInit, Lending, AckedIsStored, Whole, Clean
<1>c. Pending
  BY DEF PoolInit, Pending, None
<1>2. PoolTypeOK /\ Lending /\ Pending /\ AckedIsStored /\ Whole
  BY <1>a, <1>b, <1>c
<1>3. \A w \in Worker : Stage(w)
  BY DEF PoolInit, Stage
<1> QED BY <1>2, <1>3 DEF PoolInv

\* PoolInv is inductive.
THEOREM AlwaysPoolInv == PoolSpec => []PoolInv
<1>1. PoolInv /\ TypeOK' /\ [PoolNext]_poolVars => PoolInv'
  <2> SUFFICES ASSUME PoolInv, TypeOK', [PoolNext]_poolVars PROVE PoolInv'
    OBVIOUS
  <2>1. ASSUME NEW w \in Worker, NEW e \in Event, Receive(w, e) PROVE PoolInv'
    <3>1. pc'[w] = "connect" /\ event'[w] = e
      BY <2>1 DEF Receive, PoolInv, PoolTypeOK
    <3>2. pc' = [pc EXCEPT ![w] = pc'[w]] /\ event' = [event EXCEPT ![w] = event'[w]]
      BY <2>1, <3>1 DEF Receive
    <3>3. pc[w] = "free" /\ UNCHANGED <<client, sessions, tables, acked, leaked>>
      BY <2>1 DEF Receive
    <3> QED BY <3>1, <3>2, <3>3, NoClientKeepsInv
  <2>2. ASSUME NEW w \in Worker,
               Send(w) \/ Refused(w) \/ (\E c \in Client : Connected(w, c))
               \/ Answered(w) \/ Rejected(w) \/ Unanswered(w)
        PROVE  PoolInv'
    BY <2>2, OutsideKeepsInv, RefusedKeepsInv, ConnectedKeepsInv, AnsweredKeepsInv, RejectedKeepsInv,
       UnansweredKeepsInv DEF Send
  <2>3. CASE \E c \in Client : IdleTimeout(c)
    BY <2>3, IdleKeepsInv
  <2>4. CASE Other \/ UNCHANGED poolVars
    BY <2>4, OutsideKeepsInv DEF Other, poolVars
  <2> QED BY <2>1, <2>2, <2>3, <2>4 DEF PoolNext
<1> QED BY <1>1, PoolInitInv, PoolTypes, PTL DEF PoolSpec

\* The pool keeps its types, the breaker's counters among them.
THEOREM PoolTypeCorrect == PoolSpec => []PoolTypeOK
<1>1. PoolInv => PoolTypeOK
  BY DEF PoolInv
<1> QED BY <1>1, AlwaysPoolInv, PTL

\* A receipt without its effect comes from a transaction left in the pool, and from
\* nothing else, for any pool and any number of workers.
THEOREM OnlyLeaksTearTransactions == PoolSpec => []WholeUnlessLeaked
<1>1. PoolInv => WholeUnlessLeaked
  BY DEF PoolInv, Whole, WholeUnlessLeaked
<1> QED BY <1>1, AlwaysPoolInv, PTL

\* No effect is committed twice, and what was acknowledged has its receipt.
THEOREM HandledOnce == PoolSpec => []AppliedOnce
<1>1. PoolInv => AppliedOnce
  BY DEF PoolInv, Pending, AtMostOnce, AppliedOnce
<1> QED BY <1>1, AlwaysPoolInv, PTL
=============================================================================
