----------------------------- MODULE SseBroker ------------------------------
(***************************************************************************)
(* The live stream of svc-obs: a replica stores an event and then writes   *)
(* it to the dashboards connected to it, and through Redis' publish and    *)
(* subscribe to those of the other replicas.                               *)
(*                                                                         *)
(* Storing and broadcasting are two steps, and so are registering a        *)
(* connection and reading the history it starts with.  Redis keeps no      *)
(* message for a subscriber that is away.  The history's LIMIT 50 is out   *)
(* of reach of the few events of an instance.                              *)
(***************************************************************************)
EXTENDS Naturals, FiniteSets

CONSTANTS
    Event,      \* events for svc-obs
    Replica,    \* replicas of svc-obs
    Conn,       \* connections, each opened at most once
    None,       \* no replica
    MaxClients, \* SSE_MAX_CLIENTS
    MaxFaults   \* bound: faults and shutdowns

ASSUME BrokerAssumption ==
    /\ None \notin Replica
    /\ MaxClients \in Nat
    /\ MaxFaults \in Nat

VARIABLES
    log,        \* event_log
    origin,     \* the replica that stored an event
    toSend,     \* stored, and the handler has not broadcast it yet
    channel,    \* messages of sse:broadcast on their way to a subscriber
    pubsub,     \* whether pub and sub are there: not with adapter memory, nor once closed
    clients,    \* the Map of each replica
    conn,       \* the state of a connection
    at,         \* the replica it is on
    seen,       \* what was written to it
    unread,     \* what was stored before it, as long as the history is not read
    lost,       \* history: events that will not come to a replica's clients any more
    faults      \* faults so far

events == <<log, origin, toSend>>
brokers == <<channel, pubsub, lost>>
conns == <<conn, at, unread>>
vars == <<events, brokers, clients, conns, seen, faults>>

Open == {"loading", "streaming"}

TypeOK ==
    /\ log \subseteq Event /\ toSend \subseteq log
    /\ origin \in [Event -> Replica \cup {None}]
    /\ channel \subseteq log \X Replica
    /\ lost \subseteq log \X Replica
    /\ pubsub \in [Replica -> BOOLEAN]
    /\ clients \in [Replica -> SUBSET Conn]
    /\ \A r \in Replica : Cardinality(clients[r]) <= MaxClients
    /\ conn \in [Conn -> Open \cup {"new", "refused", "closed", "abandoned"}]
    /\ at \in [Conn -> Replica \cup {None}]
    /\ seen \in [Conn -> SUBSET Event]
    /\ unread \in [Conn -> SUBSET Event]
    /\ faults \in 0..MaxFaults

\* A replica whose Redis is not there when it starts stays without (initSseBroker).
Init ==
    /\ log = {} /\ toSend = {} /\ channel = {} /\ lost = {}
    /\ origin = [e \in Event |-> None]
    /\ pubsub \in [Replica -> BOOLEAN]
    /\ clients = [r \in Replica |-> {}]
    /\ conn = [c \in Conn |-> "new"]
    /\ at = [c \in Conn |-> None]
    /\ seen = [c \in Conn |-> {}]
    /\ unread = [c \in Conn |-> {}]
    /\ faults = 0

Fault == faults < MaxFaults /\ faults' = faults + 1

-----------------------------------------------------------------------------
(* Events: storeEvent and broadcast.                                         *)

\* storeEvent commits; a repeated event is stored no more, nor broadcast.
StoreEvent(r, e) ==
    /\ e \notin log
    /\ log' = log \cup {e}
    /\ origin' = [origin EXCEPT ![e] = r]
    /\ toSend' = toSend \cup {e}
    /\ UNCHANGED <<brokers, clients, conns, seen, faults>>

\* localBroadcast: everybody in the Map of r; writes to a dead response do nothing.
localBroadcast(r, e) ==
    seen' = [c \in Conn |-> IF c \in clients[r] THEN seen[c] \cup {e} ELSE seen[c]]

Subscribers == {s \in Replica : pubsub[s]}

\* The event goes to the clients of the replicas in S, and to no others.
ReachesOnly(e, S) ==
    /\ toSend' = toSend \ {e}
    /\ lost' = lost \cup ({e} \X (Replica \ S))
    /\ UNCHANGED <<log, origin, pubsub, clients, conns>>

Publish(e) ==
    /\ e \in toSend /\ pubsub[origin[e]]
    /\ channel' = channel \cup ({e} \X Subscribers)
    /\ ReachesOnly(e, Subscribers)
    /\ UNCHANGED <<seen, faults>>

\* Mutant of OnMemory: broadcast waits for a Redis that is not there.
NotOnMemory(e) == FALSE

OnMemory(e) == ~pubsub[origin[e]]

BroadcastHere(e) ==
    /\ e \in toSend /\ OnMemory(e)
    /\ localBroadcast(origin[e], e)
    /\ ReachesOnly(e, {origin[e]})
    /\ UNCHANGED <<channel, faults>>

\* Mutant of Fallback: the rejection is only logged.
NoFallback(e) == UNCHANGED seen

Fallback(e) == localBroadcast(origin[e], e)

\* pub.publish rejects, whether or not Redis took the message.
PublishRejects(e) ==
    /\ e \in toSend /\ pubsub[origin[e]]
    /\ Fault
    /\ Fallback(e)
    /\ \/ UNCHANGED channel /\ ReachesOnly(e, {origin[e]})
       \/ /\ channel' = channel \cup ({e} \X Subscribers)
          /\ ReachesOnly(e, Subscribers)

\* sub.on("message")
Deliver(s, e) ==
    /\ <<e, s>> \in channel
    /\ channel' = channel \ {<<e, s>>}
    /\ localBroadcast(s, e)
    /\ UNCHANGED <<events, pubsub, lost, clients, conns, faults>>

\* What was on its way to s is gone.
Drops(s) ==
    LET gone == {m \in channel : m[2] = s} IN
    channel' = channel \ gone /\ lost' = lost \cup gone

SubscriberCutOff(s) ==
    /\ Fault
    /\ Drops(s)
    /\ UNCHANGED <<events, pubsub, clients, conns, seen>>

\* closeSseBroker, early in gracefulShutdown: the worker goes on after it.
closeSseBroker(r) ==
    /\ pubsub[r]
    /\ Fault
    /\ pubsub' = [pubsub EXCEPT ![r] = FALSE]
    /\ Drops(r)
    /\ UNCHANGED <<events, clients, conns, seen>>

-----------------------------------------------------------------------------
(* Connections: GET /events/stream.                                          *)

HasPlace(r) == Cardinality(clients[r]) < MaxClients

addClient(c, r) ==
    /\ conn[c] = "new" /\ HasPlace(r)
    /\ clients' = [clients EXCEPT ![r] = @ \cup {c}]
    /\ conn' = [conn EXCEPT ![c] = "loading"]
    /\ at' = [at EXCEPT ![c] = r]
    /\ unread' = [unread EXCEPT ![c] = log]
    /\ UNCHANGED <<events, brokers, seen, faults>>

\* 503
Refuse(c, r) ==
    /\ conn[c] = "new" /\ ~HasPlace(r)
    /\ conn' = [conn EXCEPT ![c] = "refused"]
    /\ UNCHANGED <<events, brokers, clients, at, unread, seen, faults>>

\* The SELECT returns, its rows are written, and the close listener is set.
LoadHistory(c) ==
    /\ conn[c] = "loading"
    /\ conn' = [conn EXCEPT ![c] = "streaming"]
    /\ seen' = [seen EXCEPT ![c] = @ \cup log]
    /\ unread' = [unread EXCEPT ![c] = {}]
    /\ UNCHANGED <<events, brokers, clients, at, faults>>

\* It fails: a warning in the log, and the stream goes on without.
HistoryFails(c) ==
    /\ conn[c] = "loading"
    /\ Fault
    /\ conn' = [conn EXCEPT ![c] = "streaming"]
    /\ UNCHANGED <<events, brokers, clients, at, unread, seen>>

\* Mutant of removeClient: the interval is cleared and the Map forgotten.
KeepClient(c) == UNCHANGED clients

removeClient(c) == clients' = [clients EXCEPT ![at[c]] = @ \ {c}]

\* The browser leaves a stream whose close listener is set.
Close(c) ==
    /\ conn[c] = "streaming"
    /\ conn' = [conn EXCEPT ![c] = "closed"]
    /\ removeClient(c)
    /\ UNCHANGED <<events, brokers, at, unread, seen, faults>>

\* It leaves before: "close" is over when the listener is set, and nobody hears it.
Abandon(c) ==
    /\ conn[c] = "loading"
    /\ conn' = [conn EXCEPT ![c] = "abandoned"]
    /\ UNCHANGED <<events, brokers, clients, at, unread, seen, faults>>

\* The process ends, with what its handlers had not broadcast, and starts again.
Restart(r) ==
    /\ Fault
    /\ LET here == {c \in Conn : at[c] = r /\ conn[c] \in Open \cup {"abandoned"}}
           unsent == {e \in toSend : origin[e] = r}
           gone == {m \in channel : m[2] = r}
       IN /\ conn' = [c \in Conn |-> IF c \in here THEN "closed" ELSE conn[c]]
          /\ toSend' = toSend \ unsent
          /\ channel' = channel \ gone
          /\ lost' = lost \cup gone \cup (unsent \X Replica)
    /\ clients' = [clients EXCEPT ![r] = {}]
    /\ \E b \in BOOLEAN : pubsub' = [pubsub EXCEPT ![r] = b]
    /\ UNCHANGED <<log, origin, at, unread, seen>>

-----------------------------------------------------------------------------
Broadcast(e) == Publish(e) \/ BroadcastHere(e) \/ PublishRejects(e)

Next ==
    \/ \E e \in Event :
          \/ Broadcast(e)
          \/ \E r \in Replica : StoreEvent(r, e) \/ Deliver(r, e)
    \/ \E c \in Conn :
          \/ LoadHistory(c) \/ HistoryFails(c) \/ Close(c) \/ Abandon(c)
          \/ \E r \in Replica : addClient(c, r) \/ Refuse(c, r)
    \/ \E r \in Replica : SubscriberCutOff(r) \/ closeSseBroker(r) \/ Restart(r)

Spec == Init /\ [][Next]_vars

\* A handler goes on after its COMMIT, Redis passes messages on, a query returns.
FairSpec ==
    /\ Spec
    /\ \A e \in Event : WF_vars(Broadcast(e))
    /\ \A e \in Event, r \in Replica : WF_vars(Deliver(r, e))
    /\ \A c \in Conn : WF_vars(LoadHistory(c) \/ HistoryFails(c))

-----------------------------------------------------------------------------
\* Between the history and the broadcasts there is no gap: what a connection has
\* not been sent is still coming, or was lost on the way to its replica, which
\* takes a fault or a broker on memory (docs/adr/008-resiliencia-escalabilidad.md:101, :109).
NoGap ==
    \A c \in Conn, e \in Event : conn[c] \in Open /\ e \in log =>
        \/ e \in seen[c] \cup unread[c] \cup toSend
        \/ <<e, at[c]>> \in channel
        \/ <<e, at[c]>> \in lost /\ (faults > 0 \/ \E r \in Replica : ~pubsub[r])

\* A place is taken by an open connection, or for good by one that left while
\* its history was read (obs.ts:59, :69).
PlacesAccounted ==
    \A r \in Replica :
        clients[r] = {c \in Conn : at[c] = r /\ conn[c] \in Open \cup {"abandoned"}}

\* What is stored shows on every dashboard that stays, unless it was lost.
Shown ==
    \A c \in Conn, e \in Event :
        conn[c] \in Open /\ e \in log
        ~> \/ conn[c] \notin Open
           \/ e \in seen[c] \cup unread[c]
           \/ <<e, at[c]>> \in lost

-----------------------------------------------------------------------------
(* What makes them inductive.                                                *)

\* A connection that was let in has a replica, and an unsent event an origin.
Placed ==
    /\ \A c \in Conn : conn[c] \notin {"new", "refused"} => at[c] \in Replica
    /\ \A e \in toSend : origin[e] \in Replica

FiniteMaps == \A r \in Replica : IsFiniteSet(clients[r])

IInv ==
    /\ TypeOK
    /\ Placed
    /\ FiniteMaps
    /\ PlacesAccounted
    /\ NoGap
=============================================================================
