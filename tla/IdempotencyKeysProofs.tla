----------------------- MODULE IdempotencyKeysProofs ------------------------
(***************************************************************************)
(* A key's change is made once while its answer stands, and every answer   *)
(* is about a change that was made, for any number of requests, keys and   *)
(* payloads.                                                               *)
(***************************************************************************)
EXTENDS IdempotencyKeys, TLAPS

USE KeysAssumption

\* At first nothing was asked, remembered or done.
LEMMA InitIInv == Init => IInv
  BY DEF Init, IInv, TypeOK, LockHeld, Remembered, RowsDone, NothingStands,
      CommittedDone, StartedBefore, AnswerFits

\* Steps that leave the tables and the clock alone keep what is said of them.
LEMMA TablesUntouched ==
  ASSUME IInv, UNCHANGED <<now, keys, effects>>
  PROVE  Remembered' /\ RowsDone'
  BY DEF IInv, Remembered, RowsDone

\* The end of a transaction without a change: a replay, a rejection, an error.
LEMMA EndKeepsIInv ==
  ASSUME IInv, NEW r \in Request, NEW status \in {"conflict", "rejected", "error", "replayed"},
         NEW by \in Request \cup {None},
         Answers(r, status, by), Release(r), UNCHANGED <<now, keys, effects, request>>,
         status = "conflict" => \E e \in effects : Stands(r, e) /\ e.body # body[r],
         status = "replayed" =>
            \E e \in effects : Stands(r, e) /\ e.body = body[r] /\ e.by = by
  PROVE  IInv'
<1> USE DEF IInv, Answers, Release, request
<1>1. TypeOK' BY DEF TypeOK, Status
<1>2. LockHeld' BY DEF LockHeld, TypeOK
<1>3. NothingStands' /\ CommittedDone' BY DEF NothingStands, CommittedDone, Found, TypeOK
<1>4. StartedBefore' BY DEF StartedBefore, TypeOK
<1>5. AnswerFits'
  <2> SUFFICES ASSUME NEW q \in Request, answer'[q] # None
               PROVE  /\ answer'[q].status \in {"created", "replayed"} =>
                            \E e \in effects : /\ Stands(q, e) /\ e.body = body[q]
                                               /\ e.by = answer'[q].by
                      /\ answer'[q].status = "conflict" =>
                            \E e \in effects : Stands(q, e) /\ e.body # body[q]
    BY DEF AnswerFits, Stands
  <2>1. CASE q = r BY <2>1 DEF TypeOK
  <2>2. CASE q # r BY <2>2 DEF AnswerFits, TypeOK
  <2> QED BY <2>1, <2>2
<1> QED BY <1>1, <1>2, <1>3, <1>4, <1>5, TablesUntouched

\* Lines that the catalogue refuses end a request before it has touched anything.
LEMMA RejectFirstKeepsIInv == ASSUME IInv, NEW r \in Request, RejectFirst(r) PROVE IInv'
<1> USE DEF IInv, RejectFirst, Answers
<1>1. TypeOK' BY DEF TypeOK, Status
<1>2. LockHeld' /\ NothingStands' /\ CommittedDone' /\ StartedBefore'
  BY DEF LockHeld, NothingStands, Found, CommittedDone, StartedBefore, TypeOK
<1>3. AnswerFits'
  <2> SUFFICES ASSUME NEW q \in Request, answer'[q] # None, q # r
               PROVE  start'[q] = start[q] /\ answer'[q] = answer[q]
    BY DEF AnswerFits, Stands, TypeOK
  <2> QED BY DEF TypeOK
<1> QED BY <1>1, <1>2, <1>3, TablesUntouched

\* A request begins with nothing but its time of start.
LEMMA BeginKeepsIInv == ASSUME IInv, NEW r \in Request, Begin(r) PROVE IInv'
<1> USE DEF IInv, Begin
<1>1. TypeOK' BY DEF TypeOK
<1>2. LockHeld' /\ NothingStands' /\ CommittedDone' /\ StartedBefore'
  BY DEF LockHeld, NothingStands, Found, CommittedDone, StartedBefore, TypeOK
<1>3. AnswerFits'
  <2> SUFFICES ASSUME NEW q \in Request, answer[q] # None
               PROVE  start'[q] = start[q]
    BY DEF AnswerFits, Stands
  <2> QED BY DEF TypeOK, StartedBefore
<1> QED BY <1>1, <1>2, <1>3, TablesUntouched

\* Taking the lock and going on after the lookup.
LEMMA LockKeepsIInv == ASSUME IInv, NEW r \in Request, lockIdempotencyKey(r) PROVE IInv'
<1> USE DEF IInv, lockIdempotencyKey, request
<1>1. TypeOK' BY DEF TypeOK
<1>2. LockHeld'
  <2> SUFFICES ASSUME NEW q \in Request, pc'[q] \in {"locked", "ready"}
               PROVE  lock'[key[q]] = q
    BY DEF LockHeld
  <2>1. CASE q = r BY <2>1 DEF TypeOK
  <2>2. CASE q # r BY <2>2 DEF LockHeld, Free, TypeOK
  <2> QED BY <2>1, <2>2
<1>3. NothingStands' /\ CommittedDone' /\ StartedBefore' /\ AnswerFits'
  BY DEF NothingStands, Found, CommittedDone, StartedBefore, AnswerFits, Stands, TypeOK
<1> QED BY <1>1, <1>2, <1>3, TablesUntouched

\* A request that finds no answer under its key goes on, alone with its lock.
LEMMA ProceedKeepsIInv == ASSUME IInv, NEW r \in Request, Proceed(r) PROVE IInv'
<1> USE DEF IInv, Proceed, request
<1>1. TypeOK' BY DEF TypeOK
<1>2. LockHeld' /\ CommittedDone' /\ StartedBefore' /\ AnswerFits'
  BY DEF LockHeld, CommittedDone, StartedBefore, AnswerFits, Stands, TypeOK
<1>3. NothingStands'
  <2> SUFFICES ASSUME NEW q \in Request, pc'[q] = "ready"
               PROVE  /\ ~Found(q)
                      /\ \A f \in effects : f.key = key[q] => now >= f.at + TTL
    BY DEF NothingStands, Found
  <2>1. CASE q = r
    <3> SUFFICES ASSUME NEW f \in effects, f.key = key[r] PROVE now >= f.at + TTL
      BY <2>1
    <3>1. f \in Effect BY DEF TypeOK
    <3>2. now \in Nat /\ start[r] \in Nat /\ f.at + TTL \in Nat BY <3>1 DEF TypeOK, Effect
    <3>3. CASE keys[f.key] = [body |-> f.body, by |-> f.by, expires |-> f.at + TTL]
      <4>1. keys[key[r]] # None /\ keys[key[r]].expires = f.at + TTL
        BY <3>3, <3>1, None \notin [body : Body, by : Request, expires : Nat] DEF Effect
      <4> QED BY <4>1, <3>2 DEF Found, StartedBefore
    <3> QED BY <3>3 DEF Remembered
  <2>2. CASE q # r BY <2>2 DEF NothingStands, TypeOK
  <2> QED BY <2>1, <2>2
<1> QED BY <1>1, <1>2, <1>3, TablesUntouched

\* The commit is remembered in place of what has expired.
LEMMA CommitKeepsIInv == ASSUME IInv, NEW r \in Request, Commit(r) PROVE IInv'
<1> DEFINE e0 == [key |-> key[r], body |-> body[r], by |-> r, at |-> start[r]]
           row == [body |-> body[r], by |-> r, expires |-> start[r] + TTL]
<1> USE DEF IInv, Commit, request, Release
<1>1. e0 \in Effect /\ row \in Row BY DEF TypeOK, Effect, Row
<1>2. keys' = [keys EXCEPT ![key[r]] = row] BY DEF Save, NothingStands
<1>3. \A f \in effects : f.key = key[r] => now >= f.at + TTL BY DEF NothingStands
<1>4. TypeOK' BY <1>1, <1>2 DEF TypeOK
<1>5. LockHeld' BY DEF LockHeld, TypeOK
<1>6. Remembered'
  <2> SUFFICES ASSUME NEW f \in effects'
               PROVE  \/ now >= f.at + TTL
                      \/ keys'[f.key] = [body |-> f.body, by |-> f.by, expires |-> f.at + TTL]
    BY DEF Remembered
  <2>1. CASE f = e0 BY <1>2, <2>1 DEF TypeOK
  <2>2. CASE f \in effects /\ f.key = key[r] BY <2>2, <1>3
  <2>3. CASE f \in effects /\ f.key # key[r] BY <2>3, <1>2 DEF Remembered, TypeOK, Effect
  <2> QED BY <2>1, <2>2, <2>3
<1>7. RowsDone'
  <2> SUFFICES ASSUME NEW k \in Key, keys'[k] # None
               PROVE  \E e \in effects' : /\ e.key = k /\ e.body = keys'[k].body
                                          /\ e.by = keys'[k].by
                                          /\ keys'[k].expires = e.at + TTL
    BY DEF RowsDone
  <2>1. CASE k = key[r]
    <3>1. keys'[k] = row BY <1>2, <2>1 DEF TypeOK
    <3>2. e0 \in effects' OBVIOUS
    <3>3. /\ e0.key = k /\ e0.body = row.body /\ e0.by = row.by
          /\ row.expires = e0.at + TTL
      BY <2>1
    <3> HIDE DEF e0, row
    <3> QED BY <3>1, <3>2, <3>3
  <2>2. CASE k # key[r] BY <2>2, <1>2 DEF RowsDone, TypeOK
  <2> QED BY <2>1, <2>2
<1>8. NothingStands'
  <2> SUFFICES ASSUME NEW q \in Request, pc'[q] = "ready"
               PROVE  /\ ~Found(q)'
                      /\ \A f \in effects' : f.key = key[q] => now >= f.at + TTL
    BY DEF NothingStands
  <2>1. q # r /\ pc[q] = "ready" BY DEF TypeOK
  <2>2. key[q] # key[r] BY <2>1 DEF LockHeld
  <2>3. ~Found(q)' BY <2>1, <2>2, <1>2 DEF NothingStands, Found, TypeOK
  <2>4. \A f \in effects' : f.key = key[q] => now >= f.at + TTL
    BY <2>1, <2>2 DEF NothingStands
  <2> QED BY <2>3, <2>4
<1>9. CommittedDone' BY DEF CommittedDone, TypeOK
<1>10. StartedBefore' /\ AnswerFits'
  BY DEF StartedBefore, AnswerFits, Stands, TypeOK
<1> QED BY <1>4, <1>5, <1>6, <1>7, <1>8, <1>9, <1>10

\* A request whose transaction is committed answers with its own change.
LEMMA ReplyKeepsIInv == ASSUME IInv, NEW r \in Request, Reply(r) PROVE IInv'
<1> USE DEF IInv, Reply, Answers, request
<1>1. TypeOK' BY DEF TypeOK, Status
<1>2. LockHeld' /\ NothingStands' /\ CommittedDone' /\ StartedBefore'
  BY DEF LockHeld, NothingStands, Found, CommittedDone, StartedBefore, TypeOK
<1>3. AnswerFits'
  <2> SUFFICES ASSUME NEW q \in Request, answer'[q] # None
               PROVE  /\ answer'[q].status \in {"created", "replayed"} =>
                            \E e \in effects : /\ Stands(q, e) /\ e.body = body[q]
                                               /\ e.by = answer'[q].by
                      /\ answer'[q].status = "conflict" =>
                            \E e \in effects : Stands(q, e) /\ e.body # body[q]
    BY DEF AnswerFits, Stands
  <2>1. CASE q = r
    <3> DEFINE e0 == [key |-> key[r], body |-> body[r], by |-> r, at |-> start[r]]
    <3>1. e0 \in effects BY DEF CommittedDone
    <3>2. start[r] \in Nat BY DEF TypeOK
    <3>3. Stands(r, e0) /\ e0.body = body[r] /\ e0.by = r BY <3>2 DEF Stands
    <3>4. answer'[r] = [status |-> "created", by |-> r] BY DEF TypeOK
    <3> QED BY <2>1, <3>1, <3>3, <3>4
  <2>2. CASE q # r BY <2>2 DEF AnswerFits, TypeOK
  <2> QED BY <2>1, <2>2
<1> QED BY <1>1, <1>2, <1>3, TablesUntouched

\* An answer that is found is sent again, or refused to another payload.
LEMMA ReplayKeepsIInv == ASSUME IInv, NEW r \in Request, Replay(r) PROVE IInv'
<1> USE DEF Replay
<1>1. keys[key[r]] \in Row BY DEF Found, IInv, TypeOK
<1>2. PICK e \in effects : /\ e.key = key[r] /\ e.body = keys[key[r]].body
                           /\ e.by = keys[key[r]].by /\ keys[key[r]].expires = e.at + TTL
  BY DEF Found, IInv, RowsDone, TypeOK
<1>3. Stands(r, e) BY <1>2 DEF Stands, Found
<1>4. CASE SameBody(r) /\ Answers(r, "replayed", keys[key[r]].by)
  <2>1. keys[key[r]].by \in Request BY <1>1 DEF Row
  <2>2. e.body = body[r] /\ e.by = keys[key[r]].by BY <1>2, <1>4 DEF SameBody
  <2> QED BY <1>3, <1>4, <2>1, <2>2, EndKeepsIInv
<1>5. CASE ~SameBody(r) /\ Answers(r, "conflict", None)
  <2>1. e.body # body[r] BY <1>2, <1>5 DEF SameBody
  <2> QED BY <1>3, <1>5, <2>1, EndKeepsIInv
<1> QED BY <1>4, <1>5

\* Retention takes away only what has expired, and time only makes more expire.
LEMMA RetentionKeepsIInv == ASSUME IInv, NEW k \in Key, Retention(k) PROVE IInv'
<1> USE DEF IInv, Retention, request
<1>1. TypeOK' /\ LockHeld' /\ CommittedDone' /\ StartedBefore' /\ AnswerFits'
  BY DEF TypeOK, LockHeld, CommittedDone, StartedBefore, AnswerFits, Stands
<1>2. Remembered'
  <2> SUFFICES ASSUME NEW f \in effects
               PROVE  \/ now >= f.at + TTL
                      \/ keys'[f.key] = [body |-> f.body, by |-> f.by, expires |-> f.at + TTL]
    BY DEF Remembered
  <2>1. f.key \in Key /\ f.at \in Nat /\ now \in Nat BY DEF TypeOK, Effect
  <2>2. CASE f.key = k BY <2>1, <2>2 DEF Remembered
  <2>3. CASE f.key # k BY <2>1, <2>3 DEF Remembered, TypeOK
  <2> QED BY <2>2, <2>3
<1>3. RowsDone' /\ NothingStands' BY DEF RowsDone, NothingStands, Found, TypeOK
<1> QED BY <1>1, <1>2, <1>3

\* Time alone makes answers expire and changes nothing that was said of them.
LEMMA TickKeepsIInv == ASSUME IInv, Tick PROVE IInv'
<1> USE DEF IInv, Tick, request
<1>1. now \in Nat /\ now' = now + 1 /\ \A f \in effects : f.at + TTL \in Nat
  BY DEF TypeOK, Effect
<1>2. TypeOK' /\ LockHeld' /\ CommittedDone' /\ StartedBefore' /\ AnswerFits'
  BY DEF TypeOK, LockHeld, CommittedDone, StartedBefore, AnswerFits, Stands
<1>3. Remembered' /\ RowsDone' /\ NothingStands'
  BY <1>1 DEF Remembered, RowsDone, NothingStands, Found
<1> QED BY <1>2, <1>3

\* Every step keeps the invariant.
LEMMA StepKeepsIInv == IInv /\ [Next]_vars => IInv'
<1> SUFFICES ASSUME IInv, [Next]_vars PROVE IInv' OBVIOUS
<1>1. ASSUME NEW r \in Request, Handler(r) PROVE IInv'
  <2>1. CASE Reject(r) BY <2>1, EndKeepsIInv DEF Reject
  <2> QED BY <1>1, <2>1, LockKeepsIInv, ReplayKeepsIInv, ProceedKeepsIInv,
             CommitKeepsIInv, ReplyKeepsIInv DEF Handler
<1>2. ASSUME NEW r \in Request, Fail(r) PROVE IInv'
  BY <1>2, EndKeepsIInv DEF Fail
<1>3. CASE UNCHANGED vars
  BY <1>3 DEF vars, IInv, TypeOK, LockHeld, Remembered, RowsDone, NothingStands, Found,
      CommittedDone, StartedBefore, AnswerFits, Stands
<1> QED BY <1>1, <1>2, <1>3, RejectFirstKeepsIInv, BeginKeepsIInv, RetentionKeepsIInv,
           TickKeepsIInv DEF Next

\* The inductive invariant of withIdempotency holds in every reachable state.
THEOREM AlwaysIInv == Spec => []IInv
  BY InitIInv, StepKeepsIInv, PTL DEF Spec

\* Requests, rows and changes keep their types.
THEOREM TypeCorrect == Spec => []TypeOK
<1>1. IInv => TypeOK BY DEF IInv
<1> QED BY <1>1, AlwaysIInv, PTL

\* Every answer is about a change that was made, with this key and payload.
THEOREM AnswersFit == Spec => []AnswerFits
<1>1. IInv => AnswerFits BY DEF IInv
<1> QED BY <1>1, AlwaysIInv, PTL

\* A change is not made again before the first one's answer has expired.
THEOREM DoneOnce == Spec => OncePerKey
<1> DEFINE Once == \A e \in effects' \ effects, f \in effects :
                      e.key = f.key => now >= f.at + TTL
<1>1. IInv /\ [Next]_vars => [Once]_vars
  <2> SUFFICES ASSUME IInv, Next, NEW e \in effects' \ effects, NEW f \in effects,
                      e.key = f.key
               PROVE  now >= f.at + TTL
    OBVIOUS
  <2>1. PICK r \in Request : Commit(r)
    BY DEF Next, RejectFirst, Begin, Handler, lockIdempotencyKey, Replay, Proceed, Reject,
        Reply, Fail, Retention, Tick
  <2> QED BY <2>1 DEF Commit, IInv, NothingStands
<1> QED BY <1>1, AlwaysIInv, PTL DEF Spec, OncePerKey

-----------------------------------------------------------------------------
(* What keeps every key answerable.                                          *)

\* The advisory lock of a key belongs to nobody, or to a transaction on that key
\* that is still open: none is left behind by an answer, a refusal or an error.
LocksAreLive ==
    \A k \in Key : lock[k] # None =>
        /\ key[lock[k]] = k
        /\ pc[lock[k]] \in {"locked", "ready"}

\* The end of a transaction gives back what it held, and only that.
LEMMA EndKeepsLocksLive ==
  ASSUME IInv, LocksAreLive, NEW r \in Request, Release(r), key' = key,
         \A q \in Request : q # r => pc'[q] = pc[q]
  PROVE  LocksAreLive'
<1> SUFFICES ASSUME NEW k \in Key, lock'[k] # None
             PROVE  key[lock'[k]] = k /\ pc'[lock'[k]] \in {"locked", "ready"}
  BY DEF LocksAreLive
<1>1. lock'[k] = lock[k] /\ lock[k] # r /\ lock[k] # None BY KeysAssumption DEF Release
<1>2. lock[k] \in Request BY <1>1 DEF IInv, TypeOK
<1> QED BY <1>1, <1>2 DEF LocksAreLive

\* A request that does not end keeps its lock, or takes one that was free.
LEMMA HandlerKeepsLocksLive ==
  ASSUME IInv, LocksAreLive, NEW r \in Request, Handler(r)
  PROVE  LocksAreLive'
<1>1. CASE lockIdempotencyKey(r)
  <2>1. /\ lock' = [lock EXCEPT ![key[r]] = r] /\ pc' = [pc EXCEPT ![r] = "locked"]
        /\ key' = key /\ pc[r] = "waiting"
    BY <1>1 DEF lockIdempotencyKey, request
  <2> SUFFICES ASSUME NEW k \in Key, lock'[k] # None
               PROVE  key[lock'[k]] = k /\ pc'[lock'[k]] \in {"locked", "ready"}
    BY <2>1 DEF LocksAreLive
  <2>2. CASE k = key[r] BY <2>1, <2>2 DEF IInv, TypeOK
  <2>3. CASE k # key[r]
    <3>1. lock'[k] = lock[k] BY <2>1, <2>3 DEF IInv, TypeOK
    <3>2. lock[k] \in Request BY <3>1 DEF IInv, TypeOK
    <3> QED BY <2>1, <3>1, <3>2 DEF LocksAreLive, IInv, TypeOK
  <2> QED BY <2>2, <2>3
<1>2. CASE Proceed(r)
  BY <1>2 DEF Proceed, LocksAreLive, IInv, TypeOK, request
<1>3. CASE Replay(r) \/ Reject(r) \/ Commit(r)
  BY <1>3, EndKeepsLocksLive
     DEF Replay, Reject, Commit, Answers, request, IInv, TypeOK
<1>4. CASE Reply(r)
  BY <1>4 DEF Reply, Answers, LocksAreLive, LockHeld, IInv, TypeOK, request
<1> QED BY <1>1, <1>2, <1>3, <1>4 DEF Handler

\* A lock never outlives its transaction, whichever way that one ends.
THEOREM NoLockIsLeftBehind == Spec => []LocksAreLive
<1>1. Init => LocksAreLive BY DEF Init, LocksAreLive
<1>2. IInv /\ LocksAreLive /\ [Next]_vars => LocksAreLive'
  <2> SUFFICES ASSUME IInv, LocksAreLive, [Next]_vars PROVE LocksAreLive' OBVIOUS
  <2>1. ASSUME NEW r \in Request, RejectFirst(r) \/ Begin(r) PROVE LocksAreLive'
    BY <2>1 DEF RejectFirst, Begin, Answers, LocksAreLive, IInv, TypeOK
  <2>2. ASSUME NEW r \in Request, Fail(r) PROVE LocksAreLive'
    BY <2>2, EndKeepsLocksLive DEF Fail, Answers, request, IInv, TypeOK
  <2>3. ASSUME NEW k \in Key, Retention(k) PROVE LocksAreLive'
    BY <2>3 DEF Retention, LocksAreLive, request
  <2>4. CASE Tick BY <2>4 DEF Tick, LocksAreLive, request
  <2>5. CASE UNCHANGED vars BY <2>5 DEF vars, LocksAreLive
  <2> QED BY <2>1, <2>2, <2>3, <2>4, <2>5, HandlerKeepsLocksLive DEF Next
<1> QED BY <1>1, <1>2, AlwaysIInv, PTL DEF Spec

\* Whoever waits for a key may have it, or somebody else's open transaction has
\* it, and then that transaction can go on: to its answer, or to its commit.
Awaited ==
    \A r \in Request : pc[r] = "waiting" =>
        \/ Free(key[r])
        \/ \E q \in Request \ {r} :
              /\ lock[key[r]] = q /\ key[q] = key[r]
              /\ pc[q] = "locked" \/ (pc[q] = "ready" /\ ~Found(q))

\* Nobody waits for a lock that no transaction would give back.
THEOREM NobodyWaitsInVain == Spec => []Awaited
<1>1. IInv /\ LocksAreLive => Awaited
  <2> SUFFICES ASSUME IInv, LocksAreLive, NEW r \in Request,
                      pc[r] = "waiting", lock[key[r]] # None
               PROVE  \E q \in Request \ {r} :
                         /\ lock[key[r]] = q /\ key[q] = key[r]
                         /\ pc[q] = "locked" \/ (pc[q] = "ready" /\ ~Found(q))
    BY DEF Awaited, Free
  <2>1. key[r] \in Key BY DEF IInv, TypeOK
  <2>2. lock[key[r]] \in Request BY <2>1 DEF IInv, TypeOK
  <2>3. key[lock[key[r]]] = key[r] /\ pc[lock[key[r]]] \in {"locked", "ready"}
    BY <2>1 DEF LocksAreLive
  <2>4. pc[lock[key[r]]] = "ready" => ~Found(lock[key[r]])
    BY <2>2 DEF IInv, NothingStands
  <2> QED BY <2>2, <2>3, <2>4
<1> QED BY <1>1, AlwaysIInv, NoLockIsLeftBehind, PTL
=============================================================================
