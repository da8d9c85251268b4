-------------------------- MODULE IdempotencyKeys ---------------------------
(***************************************************************************)
(* The Idempotency-Key of POST /ordenes and POST /stock/:id/ajustar: a     *)
(* client that got no answer sends its request again with the same key.    *)
(*                                                                         *)
(* Every run of a handler is a request of its own.  Its transaction takes  *)
(* an advisory lock on the key, looks the key up, and either replays the   *)
(* stored answer or makes its change and stores the answer with it.  NOW() *)
(* is the time the transaction began, however long it waited for the lock. *)
(* The nightly retention deletes expired keys without that lock.           *)
(***************************************************************************)
EXTENDS Naturals

CONSTANTS
    Key,        \* values of the header
    Body,       \* payloads, as hashBody tells them apart
    Request,    \* runs of the handler, retries included
    None,       \* no row, no holder, no answer
    TTL,        \* expires_at - NOW() of a new row, in ticks of the clock
    MaxTime     \* bound of the clock

ASSUME KeysAssumption ==
    /\ None \notin Request /\ None \notin [body : Body, by : Request, expires : Nat]
    /\ TTL \in Nat \ {0}
    /\ MaxTime \in Nat

VARIABLES
    now,        \* the clock
    keys,       \* the row of idempotency_keys, or None
    lock,       \* who holds pg_advisory_xact_lock of the key
    effects,    \* the orders, or adjustments, that were committed
    pc,         \* where a request is
    start,      \* NOW() of its transaction
    key, body,  \* what it asks for
    answer      \* status and effect it answers with, None before

vars == <<now, keys, lock, effects, pc, start, key, body, answer>>
request == <<start, key, body>>

Row == [body : Body, by : Request, expires : Nat]
Effect == [key : Key, body : Body, by : Request, at : Nat]
Status == {"created", "replayed", "conflict", "rejected", "error"}

TypeOK ==
    /\ now \in 0..MaxTime
    /\ keys \in [Key -> Row \cup {None}]
    /\ lock \in [Key -> Request \cup {None}]
    /\ effects \subseteq Effect
    /\ pc \in [Request -> {"idle", "waiting", "locked", "ready", "committed", "done"}]
    /\ start \in [Request -> 0..MaxTime]
    /\ key \in [Request -> Key]
    /\ body \in [Request -> Body]
    /\ answer \in [Request -> [status : Status, by : Request \cup {None}] \cup {None}]

Init ==
    /\ now = 0
    /\ keys = [k \in Key |-> None]
    /\ lock = [k \in Key |-> None]
    /\ effects = {}
    /\ pc = [r \in Request |-> "idle"]
    /\ start = [r \in Request |-> 0]
    /\ key \in [Request -> Key]
    /\ body \in [Request -> Body]
    /\ answer = [r \in Request |-> None]

-----------------------------------------------------------------------------
Answers(r, status, by) ==
    /\ pc' = [pc EXCEPT ![r] = "done"]
    /\ answer' = [answer EXCEPT ![r] = [status |-> status, by |-> by]]

\* Mutant of Release: the transaction is left open.
KeepLock(r) == UNCHANGED lock

\* The end of a transaction gives its advisory locks back.
Release(r) == lock' = [k \in Key |-> IF lock[k] = r THEN None ELSE lock[k]]

\* canonicalizarLineasDesdeCatalogoLocal throws before the key is looked at.
RejectFirst(r) ==
    /\ pc[r] = "idle"
    /\ Answers(r, "rejected", None)
    /\ start' = [start EXCEPT ![r] = now]
    /\ UNCHANGED <<now, keys, lock, effects, key, body>>

Begin(r) ==
    /\ pc[r] = "idle"
    /\ pc' = [pc EXCEPT ![r] = "waiting"]
    /\ start' = [start EXCEPT ![r] = now]
    /\ UNCHANGED <<now, keys, lock, effects, key, body, answer>>

\* Mutant of Free: no advisory lock.
AlwaysFree(k) == TRUE

Free(k) == lock[k] = None

lockIdempotencyKey(r) ==
    /\ pc[r] = "waiting"
    /\ Free(key[r])
    /\ lock' = [lock EXCEPT ![key[r]] = r]
    /\ pc' = [pc EXCEPT ![r] = "locked"]
    /\ UNCHANGED <<now, keys, effects, request, answer>>

\* What removeExpiredIdempotencyKey leaves for the rest of the transaction.
Found(r) == keys[key[r]] # None /\ keys[key[r]].expires > start[r]

\* Mutant of SameBody: the hash is not compared.
AnyBody(r) == TRUE

SameBody(r) == keys[key[r]].body = body[r]

\* getIdempotent finds an answer: COMMIT, and it is sent again or refused.
Replay(r) ==
    /\ pc[r] = "locked" /\ Found(r)
    /\ \/ SameBody(r) /\ Answers(r, "replayed", keys[key[r]].by)
       \/ ~SameBody(r) /\ Answers(r, "conflict", None)
    /\ Release(r)
    /\ UNCHANGED <<now, keys, effects, request>>

\* getIdempotent finds none.
Proceed(r) ==
    /\ pc[r] = "locked" /\ ~Found(r)
    /\ pc' = [pc EXCEPT ![r] = "ready"]
    /\ UNCHANGED <<now, keys, lock, effects, request, answer>>

\* 404 and 409 of an adjustment: ROLLBACK, and nothing is remembered.
Reject(r) ==
    /\ pc[r] = "ready"
    /\ Answers(r, "rejected", None)
    /\ Release(r)
    /\ UNCHANGED <<now, keys, effects, request>>

\* saveIdempotent, ON CONFLICT DO NOTHING, after the expired row was removed.
Save(r) ==
    keys' = [keys EXCEPT ![key[r]] =
        IF Found(r) THEN @ ELSE [body |-> body[r], by |-> r, expires |-> start[r] + TTL]]

\* The change, the stored answer and COMMIT.
Commit(r) ==
    /\ pc[r] = "ready"
    /\ effects' = effects \cup {[key |-> key[r], body |-> body[r], by |-> r, at |-> start[r]]}
    /\ Save(r)
    /\ Release(r)
    /\ pc' = [pc EXCEPT ![r] = "committed"]
    /\ UNCHANGED <<now, request, answer>>

Reply(r) ==
    /\ pc[r] = "committed"
    /\ Answers(r, "created", r)
    /\ UNCHANGED <<now, keys, lock, effects, request>>

\* A statement fails, the lock is not granted in time, the process dies, or the
\* answer to COMMIT is lost: the transaction is over, and the client sees an error.
Fail(r) ==
    /\ pc[r] \in {"waiting", "locked", "ready", "committed"}
    /\ Answers(r, "error", None)
    /\ Release(r)
    /\ UNCHANGED <<now, keys, effects, request>>

\* runRetention
Retention(k) ==
    /\ keys[k] # None /\ keys[k].expires < now
    /\ keys' = [keys EXCEPT ![k] = None]
    /\ UNCHANGED <<now, lock, effects, pc, request, answer>>

Tick ==
    /\ now < MaxTime
    /\ now' = now + 1
    /\ UNCHANGED <<keys, lock, effects, pc, request, answer>>

-----------------------------------------------------------------------------
Handler(r) ==
    \/ lockIdempotencyKey(r) \/ Replay(r) \/ Proceed(r)
    \/ Reject(r) \/ Commit(r) \/ Reply(r)

Next ==
    \/ \E r \in Request : RejectFirst(r) \/ Begin(r) \/ Handler(r) \/ Fail(r)
    \/ \E k \in Key : Retention(k)
    \/ Tick

Spec == Init /\ [][Next]_vars

\* Every await of a handler settles, and a free lock goes to somebody who waits.
FairSpec == Spec /\ \A r \in Request : WF_vars(Handler(r))

-----------------------------------------------------------------------------
\* The change of a key is made once: not again before the first one's answer has
\* expired, whoever retries, whatever was lost, and whatever retention deletes
\* (docs/adr/005-seguridad-por-capas.md:61).
OncePerKey ==
    [][\A e \in effects' \ effects, f \in effects :
          e.key = f.key => now >= f.at + TTL]_vars

\* The effect whose answer a request may be given.
Stands(r, e) == e.key = key[r] /\ start[r] < e.at + TTL

\* An answer speaks of a change that is committed, was asked for with this key
\* and this payload, and has not expired; a conflict of one with another payload.
AnswerFits ==
    \A r \in Request : answer[r] # None =>
        /\ answer[r].status \in {"created", "replayed"} =>
              \E e \in effects : Stands(r, e) /\ e.body = body[r] /\ e.by = answer[r].by
        /\ answer[r].status = "conflict" =>
              \E e \in effects : Stands(r, e) /\ e.body # body[r]

\* No request waits for ever for a key others use.
Answered == \A r \in Request : pc[r] = "waiting" ~> pc[r] = "done"

-----------------------------------------------------------------------------
(* What makes them inductive.                                                *)

\* A request past its lookup still has the lock, and nobody else.
LockHeld == \A r \in Request : pc[r] \in {"locked", "ready"} => lock[key[r]] = r

\* Until it expires, a change is remembered as it was made.
Remembered ==
    \A f \in effects :
        \/ now >= f.at + TTL
        \/ keys[f.key] = [body |-> f.body, by |-> f.by, expires |-> f.at + TTL]

\* What is remembered was done.
RowsDone ==
    \A k \in Key : keys[k] # None =>
        \E e \in effects : /\ e.key = k /\ e.body = keys[k].body /\ e.by = keys[k].by
                           /\ keys[k].expires = e.at + TTL

\* Who found nothing may go on: earlier changes have expired, and it is still so.
NothingStands ==
    \A r \in Request : pc[r] = "ready" =>
        /\ ~Found(r)
        /\ \A f \in effects : f.key = key[r] => now >= f.at + TTL

\* What is committed and not yet answered.
CommittedDone ==
    \A r \in Request : pc[r] = "committed" =>
        [key |-> key[r], body |-> body[r], by |-> r, at |-> start[r]] \in effects

StartedBefore ==
    \A r \in Request : start[r] <= now /\ (pc[r] # "done" => answer[r] = None)

IInv ==
    /\ TypeOK
    /\ LockHeld
    /\ Remembered
    /\ RowsDone
    /\ NothingStands
    /\ CommittedDone
    /\ StartedBefore
    /\ AnswerFits
=============================================================================
