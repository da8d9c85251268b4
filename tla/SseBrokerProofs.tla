-------------------------- MODULE SseBrokerProofs ---------------------------
(***************************************************************************)
(* History and stream leave no gap, and places are taken by those who are  *)
(* there, for any number of events, replicas, connections and faults.      *)
(***************************************************************************)
EXTENDS SseBroker, FiniteSetTheorems, TLAPS

USE BrokerAssumption

\* At first nobody is connected and nothing is stored.
LEMMA InitIInv == Init => IInv
<1> SUFFICES ASSUME Init PROVE IInv
  OBVIOUS
<1> USE DEF Init
<1>1. FiniteMaps BY FS_EmptySet DEF FiniteMaps
<1>2. \A r \in Replica : Cardinality(clients[r]) <= MaxClients BY FS_EmptySet
<1>3. TypeOK BY <1>2 DEF TypeOK, Open
<1>4. Placed /\ PlacesAccounted /\ NoGap BY DEF Placed, PlacesAccounted, NoGap, Open
<1> QED BY <1>1, <1>3, <1>4 DEF IInv

\* A fault is counted.
LEMMA FaultCounts == ASSUME TypeOK, Fault PROVE faults' \in 1..MaxFaults
  BY DEF Fault, TypeOK

\* Steps that leave the connections alone keep what is said of places alone.
LEMMA PlacesUntouched ==
  ASSUME IInv, UNCHANGED <<clients, conns>>
  PROVE  FiniteMaps' /\ PlacesAccounted'
  BY DEF IInv, FiniteMaps, PlacesAccounted, conns

\* Everybody who is open on a replica is written to.
LEMMA WrittenTo ==
  ASSUME IInv, NEW r \in Replica, NEW e \in Event, localBroadcast(r, e)
  PROVE  /\ seen' \in [Conn -> SUBSET Event]
         /\ \A c \in Conn : seen[c] \subseteq seen'[c]
         /\ \A c \in Conn : conn[c] \in Open /\ at[c] = r => e \in seen'[c]
<1> USE DEF IInv, localBroadcast
<1>1. seen' \in [Conn -> SUBSET Event] BY DEF TypeOK
<1>2. \A c \in Conn : seen[c] \subseteq seen'[c] BY DEF TypeOK
<1>3. \A c \in Conn : conn[c] \in Open /\ at[c] = r => c \in clients[r]
  BY DEF PlacesAccounted
<1> QED BY <1>1, <1>2, <1>3

-----------------------------------------------------------------------------
\* A row of the event log sends nothing to anybody yet.
LEMMA StoreEventKeepsIInv ==
  ASSUME IInv, NEW r \in Replica, NEW e \in Event, StoreEvent(r, e) PROVE IInv'
<1> USE DEF IInv, StoreEvent, brokers, conns
<1>1. TypeOK' BY DEF TypeOK
<1>2. Placed' BY DEF Placed, TypeOK
<1>3. NoGap' BY DEF NoGap
<1> QED BY <1>1, <1>2, <1>3, PlacesUntouched

\* What a broadcast does to the state, however it is made.
LEMMA ReachesOnlyType ==
  ASSUME IInv, NEW e \in toSend, NEW S \in SUBSET Replica, ReachesOnly(e, S),
         seen' \in [Conn -> SUBSET Event],
         channel' = channel \/ channel' = channel \cup ({e} \X S),
         faults' \in 0..MaxFaults
  PROVE  TypeOK' /\ Placed' /\ FiniteMaps' /\ PlacesAccounted'
<1> USE DEF IInv, ReachesOnly, conns
<1>1. TypeOK' BY DEF TypeOK
<1>2. Placed' BY DEF Placed, TypeOK
<1> QED BY <1>1, <1>2, PlacesUntouched

\* Redis takes an event for those that are subscribed.
LEMMA PublishKeepsIInv == ASSUME IInv, NEW e \in Event, Publish(e) PROVE IInv'
<1> USE DEF Publish
<1>1. Subscribers \in SUBSET Replica BY DEF Subscribers
<1>2. TypeOK' /\ Placed' /\ FiniteMaps' /\ PlacesAccounted'
  BY <1>1, ReachesOnlyType DEF IInv, TypeOK
<1>3. ASSUME NEW c \in Conn, conn[c] \in Open
      PROVE  \/ <<e, at[c]>> \in channel'
             \/ <<e, at[c]>> \in lost' /\ \E r \in Replica : ~pubsub[r]
  <2>1. at[c] \in Replica BY <1>3 DEF IInv, Placed, Open
  <2>2. CASE at[c] \in Subscribers BY <2>2
  <2>3. CASE at[c] \notin Subscribers BY <2>1, <2>3 DEF Subscribers, ReachesOnly
  <2> QED BY <2>2, <2>3
<1>4. NoGap' BY <1>3 DEF IInv, NoGap, ReachesOnly, conns
<1> QED BY <1>2, <1>4 DEF IInv

\* On memory a replica broadcasts to its own clients alone.
LEMMA BroadcastHereKeepsIInv == ASSUME IInv, NEW e \in Event, BroadcastHere(e) PROVE IInv'
<1> USE DEF BroadcastHere
<1>0. origin[e] \in Replica BY DEF IInv, Placed
<1>1. TypeOK' /\ Placed' /\ FiniteMaps' /\ PlacesAccounted'
  BY <1>0, ReachesOnlyType, WrittenTo DEF IInv, TypeOK
<1>2. ASSUME NEW c \in Conn, conn[c] \in Open
      PROVE  \/ e \in seen'[c]
             \/ <<e, at[c]>> \in lost' /\ \E r \in Replica : ~pubsub[r]
  <2>1. at[c] \in Replica BY <1>2 DEF IInv, Placed, Open
  <2>2. CASE at[c] = origin[e] BY <1>0, <1>2, <2>2, WrittenTo
  <2>3. CASE at[c] # origin[e] BY <1>0, <2>1, <2>3 DEF ReachesOnly, OnMemory
  <2> QED BY <2>2, <2>3
<1>3. \A c \in Conn : seen[c] \subseteq seen'[c] BY <1>0, WrittenTo
<1>4. NoGap' BY <1>2, <1>3 DEF IInv, NoGap, ReachesOnly, conns
<1> QED BY <1>1, <1>4 DEF IInv

\* A publish that is rejected is broadcast here, and may have reached the others too.
LEMMA PublishRejectsKeepsIInv == ASSUME IInv, NEW e \in Event, PublishRejects(e) PROVE IInv'
<1> USE DEF PublishRejects, Fallback
<1>0. origin[e] \in Replica /\ Subscribers \in SUBSET Replica /\ faults' \in 1..MaxFaults
  BY FaultCounts DEF IInv, Placed, Subscribers
<1>1. TypeOK' /\ Placed' /\ FiniteMaps' /\ PlacesAccounted'
  BY <1>0, ReachesOnlyType, WrittenTo DEF IInv, TypeOK
<1>2. ASSUME NEW c \in Conn, conn[c] \in Open
      PROVE  e \in seen'[c] \/ <<e, at[c]>> \in channel' \cup lost'
  <2>1. at[c] \in Replica BY <1>2 DEF IInv, Placed, Open
  <2>2. CASE at[c] = origin[e] BY <1>0, <1>2, <2>2, WrittenTo
  <2>3. CASE at[c] # origin[e] BY <1>0, <2>1, <2>3 DEF ReachesOnly
  <2> QED BY <2>2, <2>3
<1>3. \A c \in Conn : seen[c] \subseteq seen'[c] BY <1>0, WrittenTo
<1>4. channel \subseteq channel' /\ lost \subseteq lost' /\ faults' > 0
  BY <1>0 DEF ReachesOnly
<1>5. NoGap' BY <1>2, <1>3, <1>4 DEF IInv, NoGap, ReachesOnly, conns
<1> QED BY <1>1, <1>5 DEF IInv

\* A replica takes an event and writes it to every stream of its Map.
LEMMA DeliverKeepsIInv ==
  ASSUME IInv, NEW s \in Replica, NEW e \in Event, Deliver(s, e) PROVE IInv'
<1> USE DEF Deliver, events, conns
<1>1. TypeOK' BY WrittenTo DEF IInv, TypeOK
<1>2. Placed' BY DEF IInv, Placed
<1>3. NoGap' BY WrittenTo DEF IInv, NoGap
<1> QED BY <1>1, <1>2, <1>3, PlacesUntouched DEF IInv

\* A channel that breaks loses what was in it, and that is a fault.
LEMMA DropsKeepsIInv ==
  ASSUME IInv, NEW s \in Replica, Drops(s), Fault,
         UNCHANGED <<events, clients, conns, seen>>,
         pubsub' \in [Replica -> BOOLEAN]
  PROVE  IInv'
<1> USE DEF Drops, events, conns
<1>0. faults' \in 1..MaxFaults BY FaultCounts DEF IInv
<1>1. TypeOK' BY <1>0 DEF IInv, TypeOK
<1>2. Placed' BY DEF IInv, Placed
<1>3. NoGap' BY <1>0 DEF IInv, NoGap
<1> QED BY <1>1, <1>2, <1>3, PlacesUntouched DEF IInv

-----------------------------------------------------------------------------
\* A connection takes a place only where one is left.
LEMMA addClientKeepsIInv ==
  ASSUME IInv, NEW c \in Conn, NEW r \in Replica, addClient(c, r) PROVE IInv'
<1> USE DEF IInv, addClient, HasPlace, events, brokers
<1>1. /\ IsFiniteSet(clients[r] \cup {c})
      /\ Cardinality(clients[r] \cup {c}) <= MaxClients
  <2>1. IsFiniteSet(clients[r]) BY DEF FiniteMaps
  <2>2. Cardinality(clients[r]) \in Nat BY <2>1, FS_CardinalityType
  <2> QED BY <2>1, <2>2, FS_AddElement, SMTT(30)
<1>2. FiniteMaps' BY <1>1 DEF FiniteMaps, TypeOK
<1>3. \A q \in Replica : Cardinality(clients'[q]) <= MaxClients BY <1>1 DEF TypeOK
<1>4. TypeOK' BY <1>3 DEF TypeOK, Open
<1>5. Placed' BY DEF Placed, TypeOK
<1>6. PlacesAccounted'
  <2> SUFFICES ASSUME NEW q \in Replica, NEW d \in Conn
               PROVE  d \in clients'[q] <=>
                        at'[d] = q /\ conn'[d] \in Open \cup {"abandoned"}
    BY <1>4 DEF PlacesAccounted, TypeOK
  <2>1. d \in clients[q] <=> at[d] = q /\ conn[d] \in Open \cup {"abandoned"}
    BY DEF PlacesAccounted
  <2>2. CASE d = c BY <2>1, <2>2 DEF TypeOK, Open
  <2>3. CASE d # c BY <2>1, <2>3 DEF TypeOK
  <2> QED BY <2>2, <2>3
<1>7. NoGap'
  <2> SUFFICES ASSUME NEW d \in Conn, NEW e \in Event, conn'[d] \in Open, e \in log
               PROVE  \/ e \in seen[d] \cup unread'[d] \cup toSend
                      \/ <<e, at'[d]>> \in channel
                      \/ /\ <<e, at'[d]>> \in lost
                         /\ faults > 0 \/ \E q \in Replica : ~pubsub[q]
    BY DEF NoGap
  <2>1. CASE d = c BY <2>1 DEF TypeOK
  <2>2. CASE d # c BY <2>2 DEF NoGap, TypeOK
  <2> QED BY <2>1, <2>2
<1> QED BY <1>2, <1>4, <1>5, <1>6, <1>7

\* A connection that stays outside, or leaves without being heard.
LEMMA LeftKeepsIInv ==
  ASSUME IInv, NEW c \in Conn,
         \/ conn[c] = "new" /\ conn' = [conn EXCEPT ![c] = "refused"]
         \/ conn[c] = "loading" /\ conn' = [conn EXCEPT ![c] = "abandoned"],
         UNCHANGED <<events, brokers, clients, at, unread, seen, faults>>
  PROVE  IInv'
<1> USE DEF IInv, events, brokers
<1>1. TypeOK' BY DEF TypeOK
<1>2. Placed' BY DEF Placed, TypeOK
<1>3. PlacesAccounted' BY DEF PlacesAccounted, TypeOK, Open
<1>4. NoGap' BY DEF NoGap, TypeOK, Open
<1> QED BY <1>1, <1>2, <1>3, <1>4 DEF FiniteMaps

\* The history is read after the stream has begun.
LEMMA LoadHistoryKeepsIInv == ASSUME IInv, NEW c \in Conn, LoadHistory(c) PROVE IInv'
<1> USE DEF IInv, LoadHistory, events, brokers
<1>1. TypeOK' BY DEF TypeOK, Open
<1>2. Placed' BY DEF Placed, TypeOK
<1>3. PlacesAccounted' BY DEF PlacesAccounted, TypeOK, Open
<1>4. NoGap' BY DEF NoGap, TypeOK, Open
<1> QED BY <1>1, <1>2, <1>3, <1>4 DEF FiniteMaps

\* A history that cannot be read leaves what it had unread as it was.
LEMMA HistoryFailsKeepsIInv == ASSUME IInv, NEW c \in Conn, HistoryFails(c) PROVE IInv'
<1> USE DEF IInv, HistoryFails, events, brokers
<1>0. faults' \in 1..MaxFaults BY FaultCounts
<1>1. TypeOK' BY <1>0 DEF TypeOK, Open
<1>2. Placed' BY DEF Placed, TypeOK
<1>3. PlacesAccounted' BY DEF PlacesAccounted, TypeOK, Open
<1>4. NoGap' BY <1>0 DEF NoGap, TypeOK, Open
<1> QED BY <1>1, <1>2, <1>3, <1>4 DEF FiniteMaps

\* A connection whose close is heard gives its place back.
LEMMA CloseKeepsIInv == ASSUME IInv, NEW c \in Conn, Close(c) PROVE IInv'
<1> USE DEF IInv, Close, removeClient, events, brokers
<1>0. at[c] \in Replica BY DEF Placed
<1>1. /\ IsFiniteSet(clients[at[c]] \ {c})
      /\ Cardinality(clients[at[c]] \ {c}) <= MaxClients
  <2>1. IsFiniteSet(clients[at[c]]) BY <1>0 DEF FiniteMaps
  <2>2. Cardinality(clients[at[c]]) \in Nat BY <2>1, FS_CardinalityType
  <2>3. Cardinality(clients[at[c]]) <= MaxClients BY <1>0 DEF TypeOK
  <2> QED BY <2>1, <2>2, <2>3, FS_RemoveElement
<1>2. FiniteMaps' BY <1>0, <1>1 DEF FiniteMaps, TypeOK
<1>3. \A q \in Replica : Cardinality(clients'[q]) <= MaxClients BY <1>0, <1>1 DEF TypeOK
<1>4. TypeOK' BY <1>0, <1>3 DEF TypeOK
<1>5. Placed' BY DEF Placed, TypeOK
<1>6. PlacesAccounted'
  <2> SUFFICES ASSUME NEW q \in Replica, NEW d \in Conn
               PROVE  d \in clients'[q] <=>
                        at'[d] = q /\ conn'[d] \in Open \cup {"abandoned"}
    BY <1>4 DEF PlacesAccounted, TypeOK
  <2>1. d \in clients[q] <=> at[d] = q /\ conn[d] \in Open \cup {"abandoned"}
    BY DEF PlacesAccounted
  <2>2. CASE d = c BY <1>0, <2>1, <2>2 DEF TypeOK, Open
  <2>3. CASE d # c BY <1>0, <2>1, <2>3 DEF TypeOK
  <2> QED BY <2>2, <2>3
<1>7. NoGap' BY DEF NoGap, TypeOK, Open
<1> QED BY <1>2, <1>4, <1>5, <1>6, <1>7

\* What was unsent or on its way to a replica that ends is lost, and its connections closed.
LEMMA RestartKeepsIInv == ASSUME IInv, NEW r \in Replica, Restart(r) PROVE IInv'
<1> DEFINE here == {c \in Conn : at[c] = r /\ conn[c] \in Open \cup {"abandoned"}}
           unsent == {e \in toSend : origin[e] = r}
           gone == {m \in channel : m[2] = r}
<1>0. /\ faults' \in 1..MaxFaults
      /\ conn' = [c \in Conn |-> IF c \in here THEN "closed" ELSE conn[c]]
      /\ toSend' = toSend \ unsent
      /\ channel' = channel \ gone
      /\ lost' = lost \cup gone \cup (unsent \X Replica)
      /\ clients' = [clients EXCEPT ![r] = {}]
      /\ \E b \in BOOLEAN : pubsub' = [pubsub EXCEPT ![r] = b]
      /\ UNCHANGED <<log, origin, at, unread, seen>>
  BY FaultCounts DEF IInv, Restart
<1> USE DEF IInv
<1>1. IsFiniteSet({}) /\ Cardinality({}) = 0 BY FS_EmptySet
<1>2. FiniteMaps' BY <1>0, <1>1 DEF FiniteMaps, TypeOK
<1>3. \A q \in Replica : Cardinality(clients'[q]) <= MaxClients
  BY <1>0, <1>1 DEF TypeOK
<1>4. TypeOK'
  <2>1. channel' \subseteq log \X Replica /\ lost' \subseteq log \X Replica
    BY <1>0 DEF TypeOK
  <2>2. conn' \in [Conn -> Open \cup {"new", "refused", "closed", "abandoned"}]
    BY <1>0 DEF TypeOK
  <2> QED BY <1>0, <1>3, <2>1, <2>2 DEF TypeOK
<1>5. Placed' BY <1>0 DEF Placed, TypeOK, Open
<1>6. PlacesAccounted'
  <2> SUFFICES ASSUME NEW q \in Replica, NEW d \in Conn
               PROVE  d \in clients'[q] <=>
                        at'[d] = q /\ conn'[d] \in Open \cup {"abandoned"}
    BY <1>4 DEF PlacesAccounted, TypeOK
  <2>1. d \in clients[q] <=> at[d] = q /\ conn[d] \in Open \cup {"abandoned"}
    BY DEF PlacesAccounted
  <2> QED BY <1>0, <2>1 DEF TypeOK, Open
<1>7. NoGap'
  <2> SUFFICES ASSUME NEW c \in Conn, NEW e \in Event, conn'[c] \in Open, e \in log
               PROVE  \/ e \in seen[c] \cup unread[c] \cup toSend'
                      \/ <<e, at[c]>> \in channel' \cup lost'
    BY <1>0 DEF NoGap
  <2>1. conn[c] \in Open BY <1>0 DEF Open
  <2>2. at[c] \in Replica BY <2>1 DEF Placed, Open
  <2>3. CASE e \in unsent BY <1>0, <2>2, <2>3
  <2>4. CASE e \notin unsent BY <1>0, <2>1, <2>4 DEF NoGap
  <2> QED BY <2>3, <2>4
<1> QED BY <1>2, <1>4, <1>5, <1>6, <1>7

-----------------------------------------------------------------------------
\* Every step keeps the invariant.
LEMMA NextKeepsIInv == IInv /\ [Next]_vars => IInv'
<1> SUFFICES ASSUME IInv, [Next]_vars PROVE IInv'
  OBVIOUS
<1>1. ASSUME NEW e \in Event, NEW r \in Replica, StoreEvent(r, e) PROVE IInv'
  BY <1>1, StoreEventKeepsIInv
<1>2. ASSUME NEW e \in Event, Broadcast(e) PROVE IInv'
  BY <1>2, PublishKeepsIInv, BroadcastHereKeepsIInv, PublishRejectsKeepsIInv DEF Broadcast
<1>3. ASSUME NEW e \in Event, NEW r \in Replica, Deliver(r, e) PROVE IInv'
  BY <1>3, DeliverKeepsIInv
<1>4. ASSUME NEW r \in Replica, SubscriberCutOff(r) \/ closeSseBroker(r) PROVE IInv'
  <2>1. pubsub' \in [Replica -> BOOLEAN]
    BY <1>4 DEF SubscriberCutOff, closeSseBroker, IInv, TypeOK
  <2> QED BY <1>4, <2>1, DropsKeepsIInv DEF SubscriberCutOff, closeSseBroker
<1>5. ASSUME NEW c \in Conn, NEW r \in Replica, addClient(c, r) PROVE IInv'
  BY <1>5, addClientKeepsIInv
<1>6. ASSUME NEW c \in Conn, NEW r \in Replica, Refuse(c, r) PROVE IInv'
  BY <1>6, LeftKeepsIInv DEF Refuse
<1>7. ASSUME NEW c \in Conn, Abandon(c) PROVE IInv'
  BY <1>7, LeftKeepsIInv DEF Abandon
<1>8. ASSUME NEW c \in Conn, LoadHistory(c) \/ HistoryFails(c) \/ Close(c) PROVE IInv'
  BY <1>8, LoadHistoryKeepsIInv, HistoryFailsKeepsIInv, CloseKeepsIInv
<1>9. ASSUME NEW r \in Replica, Restart(r) PROVE IInv'
  BY <1>9, RestartKeepsIInv
<1>10. CASE UNCHANGED vars
  BY <1>10 DEF IInv, TypeOK, Placed, FiniteMaps, PlacesAccounted, NoGap, vars, events,
      brokers, conns
<1> QED BY <1>1, <1>2, <1>3, <1>4, <1>5, <1>6, <1>7, <1>8, <1>9, <1>10 DEF Next

\* The strengthened invariant of the live stream.
THEOREM AlwaysIInv == Spec => []IInv
  BY InitIInv, NextKeepsIInv, PTL DEF Spec

\* Events, channels, Maps and connections keep their types, and no Map outgrows
\* SSE_MAX_CLIENTS.
THEOREM TypeCorrect == Spec => []TypeOK
<1>1. IInv => TypeOK BY DEF IInv
<1> QED BY <1>1, AlwaysIInv, PTL

\* What is stored reaches an open connection, is on its way, or was lost by a fault
\* or by a broker on memory.
THEOREM HistoryMeetsStream == Spec => []NoGap
<1>1. IInv => NoGap BY DEF IInv
<1> QED BY <1>1, AlwaysIInv, PTL

\* The Map of a replica holds its open connections and those it did not hear leave.
THEOREM PlacesAreTaken == Spec => []PlacesAccounted
<1>1. IInv => PlacesAccounted BY DEF IInv
<1> QED BY <1>1, AlwaysIInv, PTL
=============================================================================
