------------------------------- MODULE TxPool -------------------------------
(***************************************************************************)
(* A service's connection pool behind its breaker, and the workers that    *)
(* process events with it: a receipt and an effect in one transaction.     *)
(* connect and every query of a client, ROLLBACK too, go through exec; so  *)
(* a breaker that other queries opened refuses the ROLLBACK of a           *)
(* transaction under way, and release gives the client back as it is.      *)
(*                                                                         *)
(* The calls of CircuitBreaker are the workers' statements and, for the    *)
(* rest of Call, the service's other queries.                              *)
(***************************************************************************)
EXTENDS CircuitBreaker

CONSTANTS
    Worker,     \* handlers at work at once
    Client,     \* connections of the pool (DB_POOL_MAX)
    Event,      \* events they process
    NoClient, NoEvent

ASSUME PoolAssumption ==
    /\ Worker \subseteq Call
    /\ NoClient \notin Client
    /\ NoEvent \notin Event

VARIABLES
    pc,         \* the statement each worker is at
    client,     \* the client lent to it
    event,      \* the event it processes
    tx,         \* the transaction of each session, or "lost" with the connection
    receipts,   \* receipts each session has inserted and not committed
    effects,    \* how often each session has written each effect, uncommitted
    stored,     \* committed receipts
    applied,    \* how often each event's effect is committed
    acked,      \* events whose handler returned
    leaked      \* history: a client went back to the pool with its transaction open

None == [e \in Event |-> 0]

sessions == <<tx, receipts, effects>>
tables == <<stored, applied>>
workers == <<pc, client, event>>
poolVars == <<vars, workers, sessions, tables, acked, leaked>>

PoolTypeOK ==
    /\ TypeOK
    /\ pc \in [Worker -> {"free", "connect", "begin", "receipt", "effect", "commit", "rollback"}]
    /\ client \in [Worker -> Client \cup {NoClient}]
    /\ event \in [Worker -> Event \cup {NoEvent}]
    /\ tx \in [Client -> {"idle", "open", "failed", "lost"}]
    /\ receipts \in [Client -> SUBSET Event]
    /\ effects \in [Client -> [Event -> Nat]]
    /\ stored \subseteq Event
    /\ applied \in [Event -> Nat]
    /\ acked \subseteq Event
    /\ leaked \in BOOLEAN

PoolInit ==
    /\ Init
    /\ ignoring
    /\ pc = [w \in Worker |-> "free"]
    /\ client = [w \in Worker |-> NoClient]
    /\ event = [w \in Worker |-> NoEvent]
    /\ tx = [c \in Client |-> "idle"]
    /\ receipts = [c \in Client |-> {}]
    /\ effects = [c \in Client |-> None]
    /\ stored = {}
    /\ applied = [e \in Event |-> 0]
    /\ acked = {}
    /\ leaked = FALSE

-----------------------------------------------------------------------------
\* What a statement does to the session, if the server gets to run it.
Writes(c, state2, receipts2, effects2) ==
    /\ tx' = [tx EXCEPT ![c] = state2]
    /\ receipts' = [receipts EXCEPT ![c] = receipts2]
    /\ effects' = [effects EXCEPT ![c] = effects2]

\* BEGIN in a transaction that is open only warns.
RunBegin(c) ==
    /\ tx[c] \in {"idle", "open"}
    /\ Writes(c, "open", receipts[c], effects[c])
    /\ UNCHANGED tables

\* Mutant of RunReceipt: the receipt is inserted with the pool, not with the client.
ReceiptOutside(c, e) ==
    /\ tx[c] = "open"
    /\ stored' = stored \cup {e}
    /\ UNCHANGED <<applied, sessions>>

\* Mutant of Duplicate: the transaction does not see what it has written.
DuplicateCommitted(c, e) == e \in stored

Duplicate(c, e) == e \in stored \cup receipts[c]

\* The INSERT waits for a session that has inserted the same receipt.
RunReceipt(c, e) ==
    /\ tx[c] = "open"
    /\ \A d \in Client \ {c} : e \notin receipts[d]
    /\ Writes(c, "open", IF Duplicate(c, e) THEN receipts[c] ELSE receipts[c] \cup {e}, effects[c])
    /\ UNCHANGED tables

RunEffect(c, e) ==
    /\ tx[c] = "open"
    /\ Writes(c, "open", receipts[c], [effects[c] EXCEPT ![e] = @ + 1])
    /\ UNCHANGED tables

\* All that the session has written, by whichever worker; nothing of it, and no
\* error, if the transaction was aborted.
Commits(c) ==
    /\ stored' = IF tx[c] = "open" THEN stored \cup receipts[c] ELSE stored
    /\ applied' = IF tx[c] = "open" THEN [e \in Event |-> applied[e] + effects[c][e]] ELSE applied

RunCommit(c) ==
    /\ tx[c] # "lost"
    /\ Commits(c)
    /\ Writes(c, "idle", {}, None)

RunRollback(c) ==
    /\ tx[c] # "lost"
    /\ Writes(c, "idle", {}, None)
    /\ UNCHANGED tables

Run(w) ==
    \/ pc[w] = "begin" /\ RunBegin(client[w])
    \/ pc[w] = "receipt" /\ RunReceipt(client[w], event[w])
    \/ pc[w] = "effect" /\ RunEffect(client[w], event[w])
    \/ pc[w] = "commit" /\ RunCommit(client[w])
    \/ pc[w] = "rollback" /\ RunRollback(client[w])

\* The connection breaks: the server rolls back what was open.
Break(c) == Writes(c, "lost", {}, None) /\ UNCHANGED tables

-----------------------------------------------------------------------------
Goto(w, next) == pc' = [pc EXCEPT ![w] = next] /\ UNCHANGED <<client, event, leaked>>

\* finally: client.release.  The pool drops a broken client and opens another
\* when it needs one; any other goes to the next caller as it is.
Release(w) ==
    /\ pc' = [pc EXCEPT ![w] = "free"]
    /\ client' = [client EXCEPT ![w] = NoClient]
    /\ event' = [event EXCEPT ![w] = NoEvent]
    /\ leaked' = (leaked \/ tx'[client[w]] = "open")

\* catch: ROLLBACK, and whatever becomes of it the client is released.
Throw(w) ==
    \/ pc[w] = "connect" /\ UNCHANGED <<client, leaked>>
       /\ pc' = [pc EXCEPT ![w] = "free"] /\ event' = [event EXCEPT ![w] = NoEvent]
    \/ pc[w] \in {"begin", "receipt", "effect", "commit"} /\ Goto(w, "rollback")
    \/ pc[w] = "rollback" /\ Release(w)

Lent == {client[w] : w \in Worker}

\* A worker gets an event that no handler has returned for; two may get the same.
Receive(w, e) ==
    /\ pc[w] = "free"
    /\ e \notin acked
    /\ pc' = [pc EXCEPT ![w] = "connect"]
    /\ event' = [event EXCEPT ![w] = e]
    /\ UNCHANGED <<vars, client, sessions, tables, acked, leaked>>

\* protectClient: the statement goes through exec ...
Send(w) ==
    /\ pc[w] # "free"
    /\ Exec(w)
    /\ UNCHANGED <<workers, sessions, tables, acked, leaked>>

\* ... or it is refused and never sent.
Refused(w) ==
    /\ pc[w] # "free"
    /\ w \notin inFlight
    /\ ~Admits
    /\ UNCHANGED sessions
    /\ Throw(w)
    /\ UNCHANGED <<vars, tables, acked>>

Connected(w, c) ==
    /\ pc[w] = "connect"
    /\ c \notin Lent
    /\ Succeed(w)
    /\ pc' = [pc EXCEPT ![w] = "begin"]
    /\ client' = [client EXCEPT ![w] = c]
    /\ tx' = [tx EXCEPT ![c] = IF @ = "lost" THEN "idle" ELSE @]
    /\ UNCHANGED <<event, receipts, effects, tables, acked, leaked>>

Answered(w) ==
    /\ Run(w)
    /\ Succeed(w)
    /\ \/ pc[w] = "begin" /\ Goto(w, "receipt") /\ UNCHANGED acked
       \/ /\ pc[w] = "receipt"
          /\ Goto(w, IF Duplicate(client[w], event[w]) THEN "commit" ELSE "effect")
          /\ UNCHANGED acked
       \/ pc[w] = "effect" /\ Goto(w, "commit") /\ UNCHANGED acked
       \/ pc[w] = "commit" /\ Release(w) /\ acked' = acked \cup {event[w]}
       \/ pc[w] = "rollback" /\ Release(w) /\ UNCHANGED acked

\* An error that does not count: a constraint, 25P02 in an aborted transaction, a
\* query on a client whose connection is lost.
Rejected(w) ==
    /\ \/ pc[w] = "effect" /\ tx[client[w]] = "open"
       \/ pc[w] = "begin" /\ tx[client[w]] = "failed"
       \/ pc[w] = "rollback" /\ tx[client[w]] = "lost"
    /\ FailDomain(w)
    /\ tx' = [tx EXCEPT ![client[w]] = IF @ = "open" THEN "failed" ELSE @]
    /\ UNCHANGED <<receipts, effects>>
    /\ Throw(w)
    /\ UNCHANGED <<tables, acked>>

\* An error that counts.  The connection breaks, before or after a COMMIT took
\* effect; or time is up, on the server, which aborts the transaction, or on the
\* client, and then the server may have run the statement or not.
Unanswered(w) ==
    /\ pc[w] # "free"
    /\ FailInfrastructure(w)
    /\ \/ pc[w] = "connect" /\ UNCHANGED <<sessions, tables>>
       \/ pc[w] # "connect" /\ Break(client[w])
       \/ pc[w] = "commit" /\ Commits(client[w]) /\ Writes(client[w], "lost", {}, None)
       \/ Run(w)
       \/ /\ pc[w] # "connect"
          /\ tx[client[w]] # "lost"
          /\ \/ UNCHANGED tx
             \/ tx' = [tx EXCEPT ![client[w]] = IF @ = "open" THEN "failed" ELSE @]
          /\ UNCHANGED <<receipts, effects, tables>>
    /\ Throw(w)
    /\ UNCHANGED acked

\* idle_in_transaction_session_timeout, or the connection of an idle client breaks.
IdleTimeout(c) ==
    /\ c \notin Lent
    /\ tx[c] # "lost"
    /\ Break(c)
    /\ UNCHANGED <<vars, workers, acked, leaked>>

\* The service's other queries, its health check, the clock and the database.
Other ==
    /\ \/ GetState \/ Tick \/ DatabaseChanges
       \/ \E q \in Call \ Worker : Exec(q) \/ Settles(q)
    /\ UNCHANGED <<workers, sessions, tables, acked, leaked>>

PoolNext ==
    \/ \E w \in Worker :
          \/ \E e \in Event : Receive(w, e)
          \/ Send(w)
          \/ Refused(w)
          \/ \E c \in Client : Connected(w, c)
          \/ Answered(w)
          \/ Rejected(w)
          \/ Unanswered(w)
    \/ \E c \in Client : IdleTimeout(c)
    \/ Other

PoolSpec == PoolInit /\ [][PoolNext]_poolVars

-----------------------------------------------------------------------------
\* svc-obs consumer.ts:52: a receipt is never committed without the effect it stands
\* for.  True as long as no client with an open transaction went back to the pool:
\* whoever gets that one commits the half of it.
WholeUnlessLeaked == ~leaked => \A e \in Event : e \in stored => applied[e] > 0

\* No effect is committed twice.
AtMostOnce == \A e \in Event : applied[e] <= 1

\* An event whose handler returned has its receipt.
AckedIsStored == acked \subseteq stored

\* svc-obs consumer.ts:62: even then nothing is applied twice, not by a COMMIT whose
\* answer was lost, not by two workers with the same event, not by a transaction left
\* in the pool; and no handler returns for what is not stored.
AppliedOnce == AtMostOnce /\ AckedIsStored

\* A client has one borrower.
Lending ==
    /\ \A w \in Worker :
          /\ client[w] = NoClient <=> pc[w] \in {"free", "connect"}
          /\ event[w] = NoEvent <=> pc[w] = "free"
    /\ \A w, v \in Worker : client[w] = client[v] /\ client[w] # NoClient => w = v

\* A receipt is pending in one session, before it is stored, and so is its effect.
Pending ==
    /\ \A c \in Client : tx[c] \in {"idle", "lost"} => receipts[c] = {} /\ effects[c] = None
    /\ \A c, d \in Client : receipts[c] \cap receipts[d] # {} => c = d
    /\ \A c \in Client, e \in Event :
          /\ e \in receipts[c] => e \notin stored
          /\ effects[c][e] <= 1
          /\ effects[c][e] > 0 => e \in receipts[c]
    /\ \A e \in Event : applied[e] <= 1 /\ (e \notin stored => applied[e] = 0)

\* What a worker may count on at its statement.
Stage(w) ==
    /\ pc[w] = "begin" => tx[client[w]] # "lost"
    /\ pc[w] \in {"receipt", "effect", "commit"} => tx[client[w]] = "open"
    /\ pc[w] = "effect" => event[w] \in receipts[client[w]] /\ effects[client[w]][event[w]] = 0
    /\ pc[w] = "commit" => event[w] \in stored \cup receipts[client[w]]

\* What it may count on, besides, if no transaction was left in the pool.
Clean(w) ==
    /\ pc[w] = "begin" => tx[client[w]] # "open"
    /\ pc[w] = "receipt" => receipts[client[w]] = {}
    /\ pc[w] = "effect" => receipts[client[w]] = {event[w]}
    /\ pc[w] = "commit" => \A e \in receipts[client[w]] : effects[client[w]][e] > 0

Whole ==
    ~leaked =>
        /\ \A w \in Worker : Clean(w)
        /\ \A c \in Client \ Lent : tx[c] # "open"
        /\ \A e \in stored : applied[e] > 0

PoolInv ==
    /\ PoolTypeOK
    /\ Lending
    /\ Pending
    /\ \A w \in Worker : Stage(w)
    /\ Whole
    /\ AckedIsStored
=============================================================================
