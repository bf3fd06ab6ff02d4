------------------------ MODULE UdcServerPeerProofs ------------------------
(***************************************************************************)
(* What a server and its peers owe each other.  UdcServer alone cannot     *)
(* promise that m_clientsByAddress is the inverse of m_clientsById, or     *)
(* that udcDisconnect is final: a handshake may come from an address the   *)
(* request was not sent to.  Both hold if every handshake comes from the   *)
(* address the client was opened for (HandshakesHonest).  The lemmas       *)
(* HeapStep, RegistryStep and OutputStep say once what a step of the       *)
(* server may do to a client object, to the two maps and to its outbox.    *)
(***************************************************************************)
EXTENDS UdcServerProofs

-----------------------------------------------------------------------------
(* What a step does to a client object.                                     *)

\* udcTryConnect made the object in this step.
Created(id) ==
    \E address \in Address, timeout \in Timeouts :
        /\ TryConnect(address, timeout)
        /\ id = idCounter + 1
        /\ clients'[id] = StartConnecting(
              NewClient(address, PingPeriodOf(timeout), TimeoutPeriodOf(timeout)), now)

\* A pong or reliable handshake refreshed the object, after it may have acknowledged.
Refreshed(id) ==
    /\ ReceiveSigned /\ FromClient
    /\ id = clientsByAddress[Incoming.src]
    /\ \/ /\ Incoming.msgId = "PONG"
          /\ clients'[id] = ReceivePong(clients[id], Incoming.word, time)
       \/ /\ Incoming.msgId \in {ReliableHandshakeId(s) : s \in {-1, 0, 1}}
          /\ Incoming.msgId # ReliableHandshakeId(clients[id].reliableState)
          /\ clients'[id] = ReceivePong(clients[id], Incoming.word, time)
       \/ /\ Incoming.msgId = ReliableHandshakeId(clients[id].reliableState)
          /\ clients'[id] = ReceivePong(AcknowledgeReliable(clients[id]), Incoming.word, time)

\* A turn of the status loop visited the object.
Visited(id) ==
    /\ id \in todo /\ UpdateClientStatus(id)
    /\ clients'[id] \in {AfterReliableTraffic(clients[id]),
                         SetConnectionLost(AfterReliableTraffic(clients[id]))}

ClientStep(id) ==
    \/ clients'[id] = clients[id]
    \/ PendingAttempt /\ clients'[id] = RetryConnecting(clients[id], now)
    \/ \E data \in Payload :
          /\ id \in clientsById /\ SendReliableMessage(id, data)
          /\ clients'[id] = [clients[id] EXCEPT !.reliableMessages = Append(@, data)]
    \/ Visited(id)
    \/ /\ ProcessConnectionHandshake /\ HandshakeCompletes /\ id = Incoming.word
       /\ clients'[id] = ReceiveConnectionHandshake(clients[id], time)
    \/ Refreshed(id)

\* What an assignment to one object leaves alone.
LEMMA HeapUpdate ==
    ASSUME TypeOK, NEW id \in Referenced, NEW d, clients' = [clients EXCEPT ![id] = d]
    PROVE  /\ DOMAIN clients' = Referenced
           /\ clients'[id] = d
           /\ \A i \in Referenced : i # id => clients'[i] = clients[i]
  BY DEF TypeOK

\* A pong or a reliable handshake of a known client.
LEMMA RefreshHeap ==
    ASSUME TypeOK, ReceiveSigned, FromClient, NEW c, RefreshClient(c)
    PROVE  /\ DOMAIN clients' = Referenced
           /\ clientsByAddress[Incoming.src] \in Referenced
           /\ clients'[clientsByAddress[Incoming.src]] = ReceivePong(c, Incoming.word, time)
           /\ \A i \in Referenced :
                 i # clientsByAddress[Incoming.src] => clients'[i] = clients[i]
  <1>1. clientsByAddress[Incoming.src] \in Referenced
    BY ReceiveSignedType, TypeFacts DEF FromClient, Datagram
  <1>2. QED
    BY <1>1, HeapUpdate DEF RefreshClient

\* Only the handshake id of a state names it.
LEMMA HandshakeIds ==
    ASSUME NEW s \in {-1, 0, 1}, NEW t \in {-1, 0, 1}
    PROVE  ReliableHandshakeId(s) = ReliableHandshakeId(t) <=> s = t
  BY DEF ReliableHandshakeId

\* A turn of receiveMessages leaves every object alone, or completes a handshake, or
\* refreshes the client of the sender.
LEMMA ReceiveHeap ==
    ASSUME TypeOK, ReceiveMessages
    PROVE  DOMAIN clients' = Referenced /\ \A id \in Referenced : ClientStep(id)
  <1>1. CASE UNCHANGED clients
    BY <1>1 DEF TypeOK, ClientStep
  <1>2. CASE ProcessConnectionHandshake /\ HandshakeCompletes
    <2>1. Incoming.word \in Referenced
      BY <1>2, TypeFacts DEF HandshakeCompletes
    <2>2. clients' = [clients EXCEPT
                        ![Incoming.word] = ReceiveConnectionHandshake(clients[Incoming.word], time)]
      BY <1>2 DEF ProcessConnectionHandshake
    <2>3. QED
      BY <1>2, <2>1, <2>2, HeapUpdate DEF ClientStep
  <1> DEFINE id == clientsByAddress[Incoming.src]
             c  == clients[id]
  <1>3. CASE ProcessPong /\ FromClient
    <2>1. ReceiveSigned /\ RefreshClient(c) /\ Incoming.msgId = "PONG"
      BY <1>3 DEF ProcessPong, Receives
    <2>2. QED
      BY <1>3, <2>1, RefreshHeap DEF ClientStep, Refreshed
  <1>4. ASSUME NEW state \in {-1, 0, 1}, ProcessReliableHandshake(state), FromClient
        PROVE  DOMAIN clients' = Referenced /\ \A i \in Referenced : ClientStep(i)
    <2> DEFINE d == IF state = c.reliableState THEN AcknowledgeReliable(c) ELSE c
    <2>1. ReceiveSigned /\ RefreshClient(d) /\ Incoming.msgId = ReliableHandshakeId(state)
      BY <1>4 DEF ProcessReliableHandshake, Receives
    <2>2. id \in Referenced
      BY <1>4, <2>1, RefreshHeap
    <2>3. c \in Client
      BY <2>2, TypeFacts
    <2>4. c.reliableState \in {-1, 0, 1}
      BY <2>3 DEF Client
    <2>5. Incoming.msgId = ReliableHandshakeId(c.reliableState) <=> state = c.reliableState
      BY <2>1, <2>4, HandshakeIds
    <2>6. clients'[id] = ReceivePong(d, Incoming.word, time)
      BY <1>4, <2>1, RefreshHeap
    <2>7. Refreshed(id)
      BY <1>4, <2>1, <2>5, <2>6 DEF Refreshed
    <2>8. QED
      BY <1>4, <2>1, <2>7, RefreshHeap DEF ClientStep
  <1>5. \/ ProcessConnectionHandshake /\ HandshakeCompletes
        \/ ProcessPong /\ FromClient
        \/ \E state \in {-1, 0, 1} : ProcessReliableHandshake(state) /\ FromClient
        \/ UNCHANGED clients
    BY DEF ReceiveMessages, ReceiveDatagram, ReceiveNothing, ReceiveFails, ReceiveFailsOver,
           ReceiveRefused, ReceiveShort, ReceiveForeign, ReceiveMalformed,
           ProcessConnectionRequest, ProcessConnectionHandshake, ProcessPing, ProcessPong,
           ProcessUnreliable, ProcessReliableReset, ProcessReliableMessage,
           ProcessReliableHandshake
  <1>6. QED
    BY <1>1, <1>2, <1>3, <1>4, <1>5

\* Every step leaves each object alone, applies one member function to it, or made it.
LEMMA HeapStep ==
    ASSUME TypeOK, [Next]_vars, NEW id \in DOMAIN clients'
    PROVE  (id \in Referenced /\ ClientStep(id)) \/ Created(id)
  <1>1. ASSUME NEW address \in Address, NEW timeout \in Timeouts, TryConnect(address, timeout)
        PROVE  (id \in Referenced /\ ClientStep(id)) \/ Created(id)
    <2>1. DOMAIN clients = Referenced
      BY DEF TypeOK
    <2>2. CASE id = idCounter + 1
      BY <1>1, <2>2 DEF Created, TryConnect
    <2>3. CASE id # idCounter + 1
      BY <1>1, <2>1, <2>3 DEF ClientStep, TryConnect
    <2>4. QED
      BY <2>2, <2>3
  <1>2. ASSUME Referenced' \subseteq Referenced, clients' = Restrict(clients, Referenced')
        PROVE  id \in Referenced /\ ClientStep(id)
    BY <1>2 DEF Restrict, ClientStep
  <1>3. ASSUME NEW i \in 1..idCounter, DisconnectConnected(i)
        PROVE  id \in Referenced /\ ClientStep(id)
    <2>1. Range(clientsByAddress') \ {NoClient} \subseteq Range(clientsByAddress)
      BY <1>3 DEF DisconnectConnected, TypeOK, Range, NoClient
    <2>2. QED
      BY <1>2, <1>3, <2>1 DEF DisconnectConnected, Referenced
  <1>4. ASSUME NEW i \in 1..idCounter, DisconnectPending(i)
        PROVE  id \in Referenced /\ ClientStep(id)
    <2>1. Range(pendingClients') \subseteq Range(pendingClients)
      BY <1>4, SeqRange DEF DisconnectPending, TypeOK
    <2>2. QED
      BY <1>2, <1>4, <2>1 DEF DisconnectPending, Referenced
  <1>5. ASSUME NEW i \in clientsById, NEW data \in Payload, SendReliableMessage(i, data)
        PROVE  id \in Referenced /\ ClientStep(id)
    <2>1. i \in Referenced
      BY TypeFacts
    <2>2. clients' = [clients EXCEPT ![i] =
                        [clients[i] EXCEPT !.reliableMessages = Append(@, data)]]
      BY <1>5 DEF SendReliableMessage
    <2>3. QED
      BY <1>5, <2>1, <2>2, HeapUpdate DEF ClientStep
  <1>6. CASE PendingTimeout
    <2>1. Range(pendingClients') \subseteq Range(pendingClients)
      BY <1>6, TypeFacts DEF PendingTimeout
    <2>2. QED
      BY <1>2, <1>6, <2>1 DEF PendingTimeout, Referenced
  <1>7. CASE PendingAttempt
    <2>1. Head(pendingClients) \in Referenced
      BY <1>7, TypeFacts DEF PendingAttempt
    <2>2. clients' = [clients EXCEPT ![Head(pendingClients)] =
                        RetryConnecting(clients[Head(pendingClients)], now)]
      BY <1>7 DEF PendingAttempt
    <2>3. QED
      BY <1>7, <2>1, <2>2, HeapUpdate DEF ClientStep
  <1>8. ASSUME NEW i \in todo, UpdateClientStatus(i)
        PROVE  id \in Referenced /\ ClientStep(id)
    <2>1. i \in Referenced
      BY TypeFacts DEF TypeOK
    <2>2. \/ clients' = [clients EXCEPT ![i] = SetConnectionLost(AfterReliableTraffic(clients[i]))]
          \/ clients' = [clients EXCEPT ![i] = AfterReliableTraffic(clients[i])]
      BY <1>8 DEF UpdateClientStatus
    <2>3. QED
      BY <1>8, <2>1, <2>2, HeapUpdate DEF ClientStep, Visited
  <1>9. CASE ReceiveMessages
    BY <1>9, ReceiveHeap
  <1>10. CASE UNCHANGED clients
    BY <1>10 DEF TypeOK, ClientStep
  <1>11. QED
    BY <1>1, <1>3, <1>4, <1>5, <1>6, <1>7, <1>8, <1>9, <1>10
       DEF Next, Application, SendUnreliableMessage, ProcessEvents, UpdatePendingClients,
           PendingWait, Environment, vars

\* The address and the periods of a client never change, and a member function keeps m_ping
\* or sets it to the age of the time stamp that came back.
LEMMA FixedFields ==
    ASSUME TypeOK, NEW id \in Referenced, ClientStep(id)
    PROVE  /\ clients'[id].outgoingAddress = clients[id].outgoingAddress
           /\ clients'[id].pingPeriod = clients[id].pingPeriod
           /\ clients'[id].timeoutPeriod = clients[id].timeoutPeriod
           /\ \/ clients'[id].ping = clients[id].ping
              \/ Refreshed(id) /\ clients'[id].ping = time - Incoming.word
  <1> DEFINE c == clients[id]
             Kept(d) == /\ d.outgoingAddress = c.outgoingAddress
                        /\ d.pingPeriod = c.pingPeriod
                        /\ d.timeoutPeriod = c.timeoutPeriod
  <1>1. c \in Client
    BY TypeFacts
  <1>2. \A t : Kept(RetryConnecting(c, t)) /\ RetryConnecting(c, t).ping = c.ping
    BY <1>1 DEF RetryConnecting, Client
  <1>3. \A data : LET d == [c EXCEPT !.reliableMessages = Append(@, data)]
                  IN  Kept(d) /\ d.ping = c.ping
    BY <1>1 DEF Client
  <1>4. LET d == AfterReliableTraffic(c) IN d \in Client /\ Kept(d) /\ d.ping = c.ping
    <2>1. AfterReliableTraffic(c) \in Client
      BY <1>1, TrafficTypes
    <2>2. QED
      BY <1>1, <2>1 DEF AfterReliableTraffic, StartReliableReset, SetSendReliable, Client
  <1>5. LET d == SetConnectionLost(AfterReliableTraffic(c)) IN Kept(d) /\ d.ping = c.ping
    BY <1>4 DEF SetConnectionLost, Client
  <1>6. \A t : LET d == ReceiveConnectionHandshake(c, t) IN Kept(d) /\ d.ping = c.ping
    BY <1>1 DEF ReceiveConnectionHandshake, Client
  <1>7. AcknowledgeReliable(c) \in Client /\ Kept(AcknowledgeReliable(c))
    <2>1. AcknowledgeReliable(c) \in Client
      BY <1>1, ClientTypes DEF TypeOK
    <2>2. QED
      BY <1>1, <2>1 DEF AcknowledgeReliable, Client
  <1>8. \A d \in Client : Kept(d) => \A w, t : /\ Kept(ReceivePong(d, w, t))
                                             /\ ReceivePong(d, w, t).ping = t - w
    BY DEF ReceivePong, Client
  <1>9. CASE Refreshed(id)
    BY <1>1, <1>7, <1>8, <1>9 DEF Refreshed
  <1>10. CASE Visited(id)
    BY <1>4, <1>5, <1>10 DEF Visited
  <1>11. QED
    BY <1>2, <1>3, <1>6, <1>9, <1>10 DEF ClientStep

-----------------------------------------------------------------------------
(* The two maps.                                                            *)

\* The maps change when an end point is disconnected and when a handshake completes.
LEMMA RegistryStep ==
    ASSUME [Next]_vars
    PROVE  \/ UNCHANGED <<clientsById, clientsByAddress>>
           \/ \E id \in 1..idCounter : DisconnectConnected(id)
           \/ ProcessConnectionHandshake /\ HandshakeCompletes
  <1>1. CASE Application
    BY <1>1 DEF Application, TryConnect, DisconnectPending, SendUnreliableMessage,
                SendReliableMessage, registry
  <1>2. CASE UpdatePendingClients \/ \E id \in todo : UpdateClientStatus(id)
    BY <1>2 DEF UpdatePendingClients, PendingTimeout, PendingAttempt, PendingWait,
                UpdateClientStatus, registry
  <1>3. CASE ReceiveMessages
    BY <1>3
       DEF ReceiveMessages, ReceiveDatagram, ReceiveNothing, ReceiveFails, ReceiveFailsOver,
           ReceiveRefused, ReceiveShort, ReceiveForeign, ReceiveMalformed,
           ProcessConnectionRequest, ProcessConnectionHandshake, ProcessPing, ProcessPong,
           ProcessUnreliable, ProcessReliableReset, ProcessReliableMessage,
           ProcessReliableHandshake, registry
  <1>4. CASE Environment \/ UNCHANGED vars
    BY <1>4 DEF Environment, vars, registry
  <1>5. QED
    BY <1>1, <1>2, <1>3, <1>4 DEF Next, ProcessEvents

\* A handshake that is on its way to a client comes from where the client was opened.
HandshakesHonest ==
    \A i \in DOMAIN inbox :
        inbox[i].msgId = "CONNECTION_HANDSHAKE" /\ inbox[i].word \in DOMAIN clients =>
            inbox[i].src = clients[inbox[i].word].outgoingAddress

\* m_clientsByAddress is the inverse of m_clientsById.
MapsMatch ==
    /\ \A id \in clientsById : clientsByAddress[clients[id].outgoingAddress] = id
    /\ \A a \in Address : clientsByAddress[a] # NoClient =>
          /\ clientsByAddress[a] \in clientsById
          /\ clients[clientsByAddress[a]].outgoingAddress = a

\* udcDisconnect erases both entries of the end point, and no other.
LEMMA MapsDisconnect ==
    ASSUME TypeOK, MapsMatch, NEW id \in 1..idCounter, DisconnectConnected(id)
    PROVE  MapsMatch'
  <1> DEFINE out == clients[id].outgoingAddress
  <1>1. /\ id \in clientsById /\ clientsById' = clientsById \ {id}
        /\ clientsByAddress' = [clientsByAddress EXCEPT ![out] = NoClient]
        /\ clients' = Restrict(clients, Referenced')
    BY DEF DisconnectConnected
  <1>2. \A i \in clientsById' : i \in Referenced' /\ clients'[i] = clients[i]
    BY <1>1 DEF Referenced, Restrict
  <1>3. \A i \in clientsById : clients[i] \in Client /\ clients[i].outgoingAddress \in Address
    BY TypeFacts DEF Client
  <1>4. clientsByAddress \in [Address -> 0..idCounter]
    BY DEF TypeOK
  <1>5. \A a \in Address : clientsByAddress'[a] = IF a = out THEN NoClient ELSE clientsByAddress[a]
    BY <1>1, <1>4
  <1>6. \A i \in clientsById' : i # id /\ i \in clientsById /\ clients[i].outgoingAddress # out
    BY <1>1 DEF MapsMatch
  <1> HIDE DEF out
  <1>7. \A i \in clientsById' : clientsByAddress'[clients'[i].outgoingAddress] = i
    BY <1>2, <1>3, <1>5, <1>6 DEF MapsMatch
  <1>8. ASSUME NEW a \in Address, clientsByAddress'[a] # NoClient
        PROVE  /\ clientsByAddress'[a] \in clientsById'
               /\ clients'[clientsByAddress'[a]].outgoingAddress = a
    <2>1. a # out /\ clientsByAddress'[a] = clientsByAddress[a]
      BY <1>5, <1>8
    <2>2. clientsByAddress[a] \in clientsById /\ clients[clientsByAddress[a]].outgoingAddress = a
      BY <1>8, <2>1 DEF MapsMatch
    <2>3. clientsByAddress[a] # id
      BY <2>1, <2>2 DEF out
    <2>4. clientsByAddress[a] \in clientsById'
      BY <1>1, <2>2, <2>3
    <2>5. clients'[clientsByAddress[a]] = clients[clientsByAddress[a]]
      BY <1>2, <2>4
    <2>6. QED
      BY <2>1, <2>2, <2>4, <2>5
  <1>9. QED
    BY <1>7, <1>8 DEF MapsMatch

\* A handshake enters the client under its own address, which was free.
LEMMA MapsHandshake ==
    ASSUME TypeOK, ViewInv, MapsMatch, HandshakesHonest, ProcessConnectionHandshake,
           HandshakeCompletes
    PROVE  MapsMatch'
  <1> DEFINE id == Incoming.word
             src == Incoming.src
             c == ReceiveConnectionHandshake(clients[id], time)
  <1>1. /\ clientsById' = clientsById \cup {id}
        /\ clientsByAddress' = [clientsByAddress EXCEPT ![src] = id]
        /\ clients' = [clients EXCEPT ![id] = c]
    BY DEF ProcessConnectionHandshake
  <1>2. /\ ReceiveSigned /\ Incoming.msgId = "CONNECTION_HANDSHAKE"
        /\ pendingClients # << >> /\ Head(pendingClients) = id /\ clientsByAddress[src] = NoClient
    BY DEF ProcessConnectionHandshake, Receives, HandshakeCompletes
  <1>3. src \in Address /\ 1 \in DOMAIN inbox /\ Incoming = inbox[1]
    <2>1. inbox \in Seq(Datagram) /\ inbox # << >>
      BY <1>2 DEF TypeOK, ReceiveSigned
    <2>2. 1 \in DOMAIN inbox /\ Incoming = inbox[1]
      BY <2>1 DEF Incoming
    <2>3. QED
      BY <1>2, <2>2, ReceiveSignedType DEF Datagram
  <1>4. id \in Referenced /\ clients[id] \in Client /\ DOMAIN clients = Referenced /\ id # NoClient
    <2>1. id \in Referenced
      BY <1>2, TypeFacts
    <2>2. QED
      BY <2>1, TypeFacts DEF TypeOK, NoClient
  <1>5. clients[id].outgoingAddress = src
    BY <1>2, <1>3, <1>4 DEF HandshakesHonest
  <1>6. id \notin clientsById
    BY <1>2, QueueHead DEF ViewInv, Ordered, Registered, TypeOK
  <1>7. c.outgoingAddress = src
    BY <1>4, <1>5 DEF ReceiveConnectionHandshake, Client
  <1>8. clientsByAddress \in [Address -> 0..idCounter]
    BY DEF TypeOK
  <1> HIDE DEF id, src, c
  <1>9. clients'[id] = c /\ \A i \in Referenced : i # id => clients'[i] = clients[i]
    BY <1>1, <1>4, HeapUpdate
  <1>10. \A a \in Address : clientsByAddress'[a] = IF a = src THEN id ELSE clientsByAddress[a]
    BY <1>1, <1>8
  <1>11. \A i \in clientsById : /\ i \in Referenced /\ i # NoClient
                              /\ clients[i].outgoingAddress \in Address
    BY TypeFacts DEF Client, NoClient
  <1>12. \A i \in clientsById : i # id /\ clients[i].outgoingAddress # src
    BY <1>2, <1>6, <1>11 DEF MapsMatch
  <1>13. \A i \in clientsById' : clientsByAddress'[clients'[i].outgoingAddress] = i
    BY <1>1, <1>3, <1>7, <1>9, <1>10, <1>11, <1>12 DEF MapsMatch
  <1>14. ASSUME NEW a \in Address, clientsByAddress'[a] # NoClient
         PROVE  /\ clientsByAddress'[a] \in clientsById'
                /\ clients'[clientsByAddress'[a]].outgoingAddress = a
    BY <1>1, <1>7, <1>9, <1>10, <1>11, <1>12, <1>14 DEF MapsMatch
  <1>15. QED
    BY <1>13, <1>14 DEF MapsMatch

\* Every step keeps the maps inverse to each other.
LEMMA MapsStep ==
    ASSUME TypeOK, ViewInv, MapsMatch, HandshakesHonest, [Next]_vars
    PROVE  MapsMatch'
  <1>1. CASE UNCHANGED <<clientsById, clientsByAddress>>
    <2>1. \A id \in clientsById : clients'[id].outgoingAddress = clients[id].outgoingAddress
      <3>1. SUFFICES ASSUME NEW id \in clientsById
                     PROVE  clients'[id].outgoingAddress = clients[id].outgoingAddress
        OBVIOUS
      <3>2. id \in Referenced /\ id \in 1..idCounter
        BY TypeFacts
      <3>3. id \in DOMAIN clients'
        BY <1>1, TypeStep DEF TypeOK, Referenced
      <3>4. ~Created(id)
        BY <3>2 DEF Created, TypeOK
      <3>5. QED
        BY <3>2, <3>3, <3>4, HeapStep, FixedFields
    <2>2. QED
      BY <1>1, <2>1 DEF MapsMatch
  <1>2. QED
    BY <1>1, RegistryStep, MapsDisconnect, MapsHandshake

\* In one step nothing is reported about an end point that has been disconnected.
FinalStep ==
    \A id \in DOMAIN told : told[id] = "disconnected" => told'[id] = "disconnected"

\* Every event and every call is about an end point that has an object.
LEMMA ToldStep ==
    ASSUME TypeOK, [Next]_vars
    PROVE  \/ told' = told
           \/ told' = Append(told, "connecting")
           \/ \E id \in Referenced, view \in View : told' = [told EXCEPT ![id] = view]
  <1>1. \A type \in ConnectionEventType : Meaning(type) \in View
    BY DEF ConnectionEventType, Meaning, View
  <1>2. ASSUME NEW type \in ConnectionEventType, NEW id \in Referenced, ReturnConnectionEvent(type, id)
        PROVE  \E i \in Referenced, view \in View : told' = [told EXCEPT ![i] = view]
    BY <1>1, <1>2 DEF ReturnConnectionEvent
  <1>3. CASE Application
    <2>1. ASSUME NEW id \in 1..idCounter, DisconnectConnected(id) \/ DisconnectPending(id)
          PROVE  id \in Referenced /\ told' = [told EXCEPT ![id] = "disconnected"]
      BY <2>1, TypeFacts DEF DisconnectConnected, DisconnectPending
    <2>2. QED
      BY <1>3, <2>1 DEF Application, TryConnect, SendUnreliableMessage, SendReliableMessage, View
  <1>4. CASE UpdatePendingClients
    <2>1. CASE PendingTimeout
      BY <1>2, <2>1, TypeFacts DEF PendingTimeout, ConnectionEventType
    <2>2. QED
      BY <1>4, <2>1 DEF UpdatePendingClients, PendingAttempt, PendingWait
  <1>5. ASSUME NEW id \in todo, UpdateClientStatus(id)
        PROVE  \/ told' = told
               \/ \E i \in Referenced, view \in View : told' = [told EXCEPT ![i] = view]
    <2>1. id \in Referenced
      BY TypeFacts DEF TypeOK
    <2>2. QED
      BY <1>2, <1>5, <2>1 DEF UpdateClientStatus, ConnectionEventType
  <1>6. CASE ReceiveMessages
    <2>1. CASE ProcessConnectionHandshake /\ HandshakeCompletes
      <3>1. Incoming.word \in Referenced
        BY <2>1, TypeFacts DEF HandshakeCompletes
      <3>2. ReturnConnectionEvent("CONNECTION_SUCCESS", Incoming.word)
        BY <2>1 DEF ProcessConnectionHandshake
      <3>3. QED
        BY <1>2, <3>1, <3>2 DEF ConnectionEventType
    <2>2. ASSUME NEW c, ReceiveSigned, FromClient, RefreshClient(c)
          PROVE  \/ told' = told
                 \/ \E i \in Referenced, view \in View : told' = [told EXCEPT ![i] = view]
      <3>1. clientsByAddress[Incoming.src] \in Referenced
        BY <2>2, RefreshHeap
      <3>2. QED
        BY <1>2, <2>2, <3>1 DEF RefreshClient, KeepReceiving, ConnectionEventType
    <2>3. \/ ProcessConnectionHandshake /\ HandshakeCompletes
          \/ \E c : ReceiveSigned /\ FromClient /\ RefreshClient(c)
          \/ told' = told
      BY <1>6
         DEF ReceiveMessages, ReceiveDatagram, ReceiveNothing, ReceiveFails, ReceiveFailsOver,
             ReceiveRefused, ReceiveShort, ReceiveForeign, ReceiveMalformed, Receives,
             ProcessConnectionRequest, ProcessConnectionHandshake, ProcessPing, ProcessPong,
             ProcessUnreliable, ProcessReliableReset, ProcessReliableMessage,
             ProcessReliableHandshake, KeepReceiving, ReturnNothing, ReturnMessage
    <2>4. QED
      BY <2>1, <2>2, <2>3
  <1>7. CASE Environment \/ UNCHANGED vars
    BY <1>7 DEF Environment, vars
  <1>8. QED
    BY <1>3, <1>4, <1>5, <1>6, <1>7 DEF Next, ProcessEvents

\* With honest handshakes every object belongs to an end point that is pending or
\* registered, so no event can be about one that has been disconnected.
LEMMA FinalityStep ==
    ASSUME TypeOK, ViewInv, MapsMatch, [Next]_vars
    PROVE  FinalStep
  <1>1. DOMAIN told = 1..idCounter /\ told \in Seq(View) /\ idCounter \in Nat
    BY DEF TypeOK
  <1>2. \A id \in Referenced : id \in 1..idCounter /\ told[id] # "disconnected"
    <2>1. SUFFICES ASSUME NEW id \in Referenced
                   PROVE  id \in 1..idCounter /\ told[id] # "disconnected"
      OBVIOUS
    <2>2. id \in 1..idCounter
      BY TypeFacts
    <2>3. id \in Range(pendingClients) \/ id \in clientsById
      BY DEF Referenced, MapsMatch, Range, TypeOK
    <2>4. CASE id \in Range(pendingClients)
      BY <2>2, <2>4 DEF ViewInv, Ordered
    <2>5. CASE id \in clientsById
      BY <2>2, <2>5 DEF ViewInv, StatusMatchesEvents
    <2>6. QED
      BY <2>2, <2>3, <2>4, <2>5
  <1>3. QED
    BY <1>1, <1>2, ToldStep DEF FinalStep

\* If handshakes come from where the requests went, then m_clientsById and
\* m_clientsByAddress are inverse to each other at all times.
THEOREM MapsAgree == Spec /\ []HandshakesHonest => []MapsMatch
  <1>1. Init => MapsMatch
    BY DEF Init, MapsMatch
  <1>2. TypeOK /\ ViewInv /\ MapsMatch /\ HandshakesHonest /\ [Next]_vars => MapsMatch'
    BY MapsStep
  <1>3. QED
    BY <1>1, <1>2, TypeCorrect, ViewInvariant, PTL DEF Spec

\* ... and udcDisconnect is final: nothing is ever reported about the end point again,
\* while handshakes, pongs and acknowledgements of it are still on their way.
THEOREM DisconnectFinal == Spec /\ []HandshakesHonest => [][FinalStep]_vars
  <1>1. TypeOK /\ ViewInv /\ MapsMatch /\ [Next]_vars => [FinalStep]_vars
    BY FinalityStep
  <1>2. QED
    BY <1>1, TypeCorrect, ViewInvariant, MapsAgree, PTL DEF Spec

-----------------------------------------------------------------------------
(* What the server sends.                                                   *)

\* The messages whose word is a time stamp.
StampId == MsgId \ {"CONNECTION_REQUEST", "CONNECTION_HANDSHAKE", "UNRELIABLE"}

\* All time stamps in a channel are among the given ones.
Stamped(channel, stamps) ==
    \A i \in DOMAIN channel : channel[i].msgId \in StampId => channel[i].word \in stamps

\* Everything in a channel was sent from one address.
SentBy(channel, address) == \A i \in DOMAIN channel : channel[i].src = address

\* What holds of two channels holds of one after the other.
LEMMA ChannelConcat ==
    ASSUME NEW s \in Seq(Datagram), NEW t \in Seq(Datagram), NEW stamps, NEW address
    PROVE  /\ Stamped(s, stamps) /\ Stamped(t, stamps) => Stamped(s \o t, stamps)
           /\ SentBy(s, address) /\ SentBy(t, address) => SentBy(s \o t, address)
  <1>1. /\ Len(s) \in Nat /\ Len(t) \in Nat
        /\ DOMAIN s = 1..Len(s) /\ DOMAIN t = 1..Len(t) /\ DOMAIN (s \o t) = 1..(Len(s) + Len(t))
    BY LenProperties, ConcatProperties
  <1>2. \A i \in DOMAIN (s \o t) :
           \/ i \in DOMAIN s /\ (s \o t)[i] = s[i]
           \/ i - Len(s) \in DOMAIN t /\ (s \o t)[i] = t[i - Len(s)]
    BY <1>1, ConcatProperties
  <1>3. QED
    BY <1>2 DEF Stamped, SentBy

\* A single datagram is sound if it comes from here and its stamp is one of the given ones.
LEMMA ChannelSingle ==
    ASSUME NEW d \in Datagram, NEW stamps, NEW address,
           d.src = address, d.msgId \in StampId => d.word \in stamps
    PROVE  << d >> \in Seq(Datagram) /\ Stamped(<< d >>, stamps) /\ SentBy(<< d >>, address)
  BY DEF Stamped, SentBy

\* ... and may be appended to a channel.
LEMMA ChannelAppend ==
    ASSUME NEW s \in Seq(Datagram), NEW d \in Datagram, NEW stamps, NEW address,
           Stamped(s, stamps), SentBy(s, address),
           d.src = address, d.msgId \in StampId => d.word \in stamps
    PROVE  Stamped(Append(s, d), stamps) /\ SentBy(Append(s, d), address)
  BY ChannelSingle, ChannelConcat, AppendIsConcat

\* The server sends from its own address.  The time stamps it sends are those of its call's
\* clock and those it has received: an answer carries a stamp exactly if the question did.
LEMMA OutputStep ==
    ASSUME TypeOK, Application \/ ProcessEvents, NEW stamps,
           Stamped(inbox, stamps), Stamped(outbox, stamps), SentBy(outbox, Self),
           call = "status" => TimeStamp(time) \in stamps
    PROVE  Stamped(outbox', stamps) /\ SentBy(outbox', Self)
  <1>1. outbox \in Seq(Datagram) /\ now \in Nat /\ time \in Nat
    BY DEF TypeOK
  <1>2. CASE UNCHANGED outbox
    BY <1>2
  <1>3. ASSUME NEW id \in clientsById, NEW data \in Payload, SendUnreliableMessage(id, data)
        PROVE  Stamped(outbox', stamps) /\ SentBy(outbox', Self)
    <2> DEFINE d == ToClient(clients[id], "UNRELIABLE", 0, data)
    <2>1. clients[id] \in Client
      BY TypeFacts
    <2>2. d \in Datagram
      BY <2>1, ToClientType DEF MsgId
    <2>3. d.src = Self /\ d.msgId \notin StampId
      BY DEF ToClient, Packet, StampId
    <2>4. outbox' = Append(outbox, d)
      BY <1>3 DEF SendUnreliableMessage
    <2> HIDE DEF d
    <2>5. QED
      BY <1>1, <2>2, <2>3, <2>4, ChannelAppend
  <1>4. CASE PendingAttempt
    <2> DEFINE id == Head(pendingClients)
               d  == ToClient(clients[id], "CONNECTION_REQUEST", id, NoData)
    <2>1. id \in Referenced
      BY <1>4, TypeFacts DEF PendingAttempt
    <2>2. id \in Nat /\ clients[id] \in Client
      BY <2>1, TypeFacts
    <2>3. d \in Datagram
      BY <2>2, ToClientType DEF MsgId
    <2>4. d.src = Self /\ d.msgId \notin StampId
      BY DEF ToClient, Packet, StampId
    <2>5. outbox' = Append(outbox, d)
      BY <1>4 DEF PendingAttempt
    <2> HIDE DEF d
    <2>6. QED
      BY <1>1, <2>3, <2>4, <2>5, ChannelAppend
  <1>5. ASSUME NEW id \in todo, UpdateClientStatus(id)
        PROVE  Stamped(outbox', stamps) /\ SentBy(outbox', Self)
    <2> DEFINE c == clients[id]
    <2>1. TimeStamp(time) \in stamps
      BY <1>5 DEF UpdateClientStatus
    <2>2. c \in Client
      BY TypeFacts DEF TypeOK
    <2>3. ReliableTraffic(c) \in Seq(Datagram) /\ PingTraffic(c) \in Seq(Datagram)
      BY <2>2, TrafficTypes
    <2>4. Stamped(ReliableTraffic(c), stamps) /\ SentBy(ReliableTraffic(c), Self)
      BY <2>1 DEF ReliableTraffic, ToClient, Packet, Stamped, SentBy
    <2>5. Stamped(PingTraffic(c), stamps) /\ SentBy(PingTraffic(c), Self)
      BY <2>1 DEF PingTraffic, ToClient, Packet, Stamped, SentBy
    <2>6. outbox' = outbox \o ReliableTraffic(c) \o PingTraffic(c)
      BY <1>5 DEF UpdateClientStatus
    <2> HIDE DEF c
    <2>7. outbox \o ReliableTraffic(c) \in Seq(Datagram)
      BY <1>1, <2>3
    <2>8. QED
      BY <1>1, <2>3, <2>4, <2>5, <2>6, <2>7, ChannelConcat
  <1>6. ASSUME ReceiveSigned, NEW msgId \in MsgId, Reply(msgId),
               msgId \in StampId => Incoming.msgId \in StampId
        PROVE  Stamped(outbox', stamps) /\ SentBy(outbox', Self)
    <2> DEFINE d == Packet(Self, Incoming.src, TRUE, msgId, Incoming.word, NoData)
    <2>1. Incoming \in Datagram /\ inbox # << >> /\ inbox \in Seq(Datagram)
      BY <1>6, ReceiveSignedType DEF TypeOK
    <2>2. 1 \in DOMAIN inbox /\ Incoming = inbox[1]
      BY <2>1 DEF Incoming
    <2>3. d \in Datagram
      BY <2>1, PacketType, ServerAssumption DEF Datagram
    <2>4. d.src = Self /\ d.msgId = msgId /\ d.word = Incoming.word
      BY DEF Packet
    <2>5. outbox' = Append(outbox, d)
      BY <1>6 DEF Reply
    <2> HIDE DEF d
    <2>6. d.msgId \in StampId => d.word \in stamps
      BY <1>6, <2>2, <2>4 DEF Stamped
    <2>7. QED
      BY <1>1, <2>3, <2>4, <2>5, <2>6, ChannelAppend
  <1>7. CASE ReceiveMessages
    <2>1. CASE ProcessConnectionRequest
      BY <1>6, <2>1 DEF ProcessConnectionRequest, Receives, MsgId, StampId
    <2>2. CASE ProcessPing
      BY <1>6, <2>2 DEF ProcessPing, Receives, MsgId, StampId
    <2>3. CASE ProcessReliableReset
      BY <1>6, <2>3 DEF ProcessReliableReset, Receives, MsgId, StampId, ReliableHandshakeId
    <2>4. ASSUME NEW state \in {0, 1}, ProcessReliableMessage(state)
          PROVE  Stamped(outbox', stamps) /\ SentBy(outbox', Self)
      <3>1. ReceiveSigned /\ Incoming.msgId = ReliableId(state) /\ Reply(ReliableHandshakeId(state))
        BY <2>4 DEF ProcessReliableMessage, Receives
      <3>2. ReliableId(state) \in StampId /\ ReliableHandshakeId(state) \in MsgId
        BY DEF ReliableId, ReliableHandshakeId, StampId, MsgId
      <3>3. QED
        BY <1>6, <3>1, <3>2
    <2>5. \/ ProcessConnectionRequest \/ ProcessPing \/ ProcessReliableReset
          \/ \E state \in {0, 1} : ProcessReliableMessage(state)
          \/ UNCHANGED outbox
      BY <1>7
         DEF ReceiveMessages, ReceiveDatagram, ReceiveNothing, ReceiveFails, ReceiveFailsOver,
             ReceiveRefused, ReceiveShort, ReceiveForeign, ReceiveMalformed,
             ProcessConnectionHandshake, ProcessPong, ProcessUnreliable, ProcessReliableHandshake,
             environment
    <2>6. QED
      BY <1>2, <2>1, <2>2, <2>3, <2>4, <2>5
  <1>8. QED
    BY <1>2, <1>3, <1>4, <1>5, <1>7
       DEF Application, ProcessEvents, UpdatePendingClients, TryConnect, DisconnectConnected,
           DisconnectPending, SendReliableMessage, PendingTimeout, PendingWait, environment

-----------------------------------------------------------------------------
(* The frame of a call, the clock and the inbox.                            *)

\* A step of the server does not change the clock.  A call reads it when it begins, and
\* keeps what it has read; it enters the status loop only if there are clients.
LEMMA FrameStep ==
    ASSUME Application \/ ProcessEvents
    PROVE  /\ now' = now
           /\ \/ call' = "idle"
              \/ call = "idle" /\ time' = now /\ (call' = "status" => clientsById # {})
              \/ call # "idle" /\ time' = time /\ (call' = "status" => call = "status")
  <1>1. CASE Application
    BY <1>1 DEF Application, TryConnect, DisconnectConnected, DisconnectPending,
                SendUnreliableMessage, SendReliableMessage, environment, frame
  <1>2. CASE UpdatePendingClients
    BY <1>2 DEF UpdatePendingClients, PendingTimeout, PendingAttempt, PendingWait, EnterStatusLoop,
                ReturnConnectionEvent, EndCall, environment
  <1>3. ASSUME NEW id \in todo, UpdateClientStatus(id)
        PROVE  now' = now /\ (call' = "idle" \/ (call = "status" /\ time' = time))
    BY <1>3 DEF UpdateClientStatus, ReturnConnectionEvent, EndCall
  <1>4. CASE ReceiveMessages
    BY <1>4
       DEF ReceiveMessages, ReceiveDatagram, ReceiveNothing, ReceiveFails, ReceiveFailsOver,
           ReceiveRefused, ReceiveShort, ReceiveForeign, ReceiveSigned, ReceiveMalformed, Receives,
           ProcessConnectionRequest, ProcessConnectionHandshake, ProcessPing, ProcessPong,
           ProcessUnreliable, ProcessReliableReset, ProcessReliableMessage,
           ProcessReliableHandshake, RefreshClient, KeepReceiving, ReturnNothing, ReturnMessage,
           ReturnConnectionEvent, EndCall, environment
  <1>5. QED
    BY <1>1, <1>2, <1>3, <1>4 DEF ProcessEvents

\* A call of udcProcessEvents takes datagrams off the socket from the front, and makes no end
\* points.
LEMMA InboxStep ==
    ASSUME ProcessEvents
    PROVE  /\ idCounter' = idCounter
           /\ inbox' = inbox \/ (inbox # << >> /\ inbox' = Tail(inbox))
  <1>1. CASE UpdatePendingClients
    BY <1>1 DEF UpdatePendingClients, PendingTimeout, PendingAttempt, PendingWait, environment,
                registry
  <1>2. ASSUME NEW id \in todo, UpdateClientStatus(id)
        PROVE  UNCHANGED <<inbox, idCounter>>
    BY <1>2 DEF UpdateClientStatus, registry
  <1>3. CASE ReceiveMessages
    BY <1>3
       DEF ReceiveMessages, ReceiveDatagram, ReceiveNothing, ReceiveFails, ReceiveFailsOver,
           ReceiveRefused, ReceiveShort, ReceiveForeign, ReceiveSigned, ReceiveMalformed, Receives,
           ProcessConnectionRequest, ProcessConnectionHandshake, ProcessPing, ProcessPong,
           ProcessUnreliable, ProcessReliableReset, ProcessReliableMessage,
           ProcessReliableHandshake, environment, registry
  <1>4. QED
    BY <1>1, <1>2, <1>3 DEF ProcessEvents

-----------------------------------------------------------------------------
(* Answers.                                                                 *)

\* What the handlers answer with.
AnswerId == {"CONNECTION_HANDSHAKE", "PONG", "RELIABLE_HANDSHAKE_RESET",
             "RELIABLE_HANDSHAKE_0", "RELIABLE_HANDSHAKE_1"}

\* An answer has the right signature, whatever the buffer held before, and the size of a
\* datagram without data.
Answered(msgIds) ==
    \E d \in Datagram : /\ d.msgId \in msgIds /\ d.signed /\ d.size = WordSize
                        /\ outbox' = Append(outbox, d)

\* A reply is such an answer.
LEMMA ReplyAnswers ==
    ASSUME TypeOK, ReceiveSigned, NEW msgId \in AnswerId, Reply(msgId)
    PROVE  Answered({msgId})
  <1> DEFINE d == Packet(Self, Incoming.src, TRUE, msgId, Incoming.word, NoData)
  <1>1. Incoming \in Datagram
    BY ReceiveSignedType
  <1>2. msgId \in MsgId /\ msgId # "UNRELIABLE"
    BY DEF AnswerId, MsgId
  <1>3. d \in Datagram
    BY <1>1, <1>2, PacketType, ServerAssumption DEF Datagram
  <1>4. d.msgId = msgId /\ d.signed = TRUE /\ d.size = WordSize
    BY <1>2, MessageAssumption DEF Packet, SizeOf, WordSize, HeaderSize, SignatureSize
  <1>5. outbox' = Append(outbox, d)
    BY DEF Reply
  <1> HIDE DEF d
  <1>6. QED
    BY <1>3, <1>4, <1>5 DEF Answered

\* A turn of receiveMessages sends one answer at most.
LEMMA ReceiveOutput ==
    ASSUME TypeOK, ReceiveMessages
    PROVE  outbox' = outbox \/ Answered(AnswerId)
  <1>1. ASSUME ReceiveSigned, NEW msgId \in AnswerId, Reply(msgId)
        PROVE  Answered(AnswerId)
    BY <1>1, ReplyAnswers DEF Answered
  <1>2. CASE ProcessConnectionRequest
    BY <1>1, <1>2 DEF ProcessConnectionRequest, Receives, AnswerId
  <1>3. CASE ProcessPing
    BY <1>1, <1>3 DEF ProcessPing, Receives, AnswerId
  <1>4. CASE ProcessReliableReset
    BY <1>1, <1>4 DEF ProcessReliableReset, Receives, AnswerId, ReliableHandshakeId
  <1>5. ASSUME NEW state \in {0, 1}, ProcessReliableMessage(state)
        PROVE  Answered(AnswerId)
    BY <1>1, <1>5 DEF ProcessReliableMessage, Receives, AnswerId, ReliableHandshakeId
  <1>6. \/ ProcessConnectionRequest \/ ProcessPing \/ ProcessReliableReset
        \/ \E state \in {0, 1} : ProcessReliableMessage(state)
        \/ UNCHANGED outbox
    BY DEF ReceiveMessages, ReceiveDatagram, ReceiveNothing, ReceiveFails, ReceiveFailsOver,
           ReceiveRefused, ReceiveShort, ReceiveForeign, ReceiveMalformed,
           ProcessConnectionHandshake, ProcessPong, ProcessUnreliable, ProcessReliableHandshake,
           environment
  <1>7. QED
    BY <1>2, <1>3, <1>4, <1>5, <1>6

\* A server that never connects anywhere answers requests and pings, and delivers only what
\* processUnreliable and processReliableMessage deliver.
LEMMA ListenerStep ==
    ASSUME TypeOK, idCounter = 0, MaxSockets <= 1, MaxSockets \in Nat, ProcessEvents
    PROVE  \/ /\ outbox' = outbox \/ Answered({"CONNECTION_HANDSHAKE", "PONG"})
              /\ UNCHANGED reliableStates
              /\ call = "receive" /\ call' = "idle" => event' = NoEvent
           \/ ProcessUnreliable
           \/ ProcessReliableReset
           \/ \E state \in {0, 1} : ProcessReliableMessage(state)
  <1> DEFINE Quietly == /\ outbox' = outbox \/ Answered({"CONNECTION_HANDSHAKE", "PONG"})
                        /\ UNCHANGED reliableStates
                        /\ call = "receive" /\ call' = "idle" => event' = NoEvent
  <1>1. pendingClients = << >> /\ todo = {} /\ \A a \in Address : clientsByAddress[a] = NoClient
    <2>1. 1..0 = {} /\ 0..0 = {0}
      OBVIOUS
    <2>2. pendingClients \in Seq({}) /\ todo \subseteq {} /\ clientsByAddress \in [Address -> {0}]
      BY <2>1 DEF TypeOK
    <2>3. QED
      BY <2>2 DEF NoClient
  <1>2. CASE UpdatePendingClients
    BY <1>1, <1>2 DEF UpdatePendingClients, PendingTimeout, PendingAttempt, PendingWait, environment
  <1>3. CASE ReceiveNothing \/ ReceiveFails
    BY <1>3 DEF ReceiveNothing, ReceiveFails, ReceiveRefused, ReturnNothing, EndCall, environment
  <1>4. ~ReceiveFailsOver
    BY DEF ReceiveFailsOver
  <1>5. CASE ReceiveShort \/ ReceiveForeign \/ ReceiveMalformed
    BY <1>5 DEF ReceiveShort, ReceiveForeign, ReceiveMalformed, KeepReceiving
  <1>6. CASE ProcessConnectionRequest
    <2>1. ReceiveSigned /\ Reply("CONNECTION_HANDSHAKE") /\ UNCHANGED <<reliableStates, call>>
          /\ call = "receive"
      BY <1>6 DEF ProcessConnectionRequest, Receives, ReceiveSigned, KeepReceiving
    <2>2. Answered({"CONNECTION_HANDSHAKE"})
      BY <2>1, ReplyAnswers DEF AnswerId
    <2>3. QED
      BY <2>1, <2>2 DEF Answered
  <1>7. CASE ProcessPing
    <2>1. ReceiveSigned /\ Reply("PONG") /\ UNCHANGED <<reliableStates, call>> /\ call = "receive"
      BY <1>7 DEF ProcessPing, Receives, ReceiveSigned, KeepReceiving
    <2>2. Answered({"PONG"})
      BY <2>1, ReplyAnswers DEF AnswerId
    <2>3. QED
      BY <2>1, <2>2 DEF Answered
  <1>8. CASE ProcessConnectionHandshake
    BY <1>1, <1>8 DEF ProcessConnectionHandshake, HandshakeCompletes, KeepReceiving, Receives,
                      ReceiveSigned
  <1>9. ReceiveSigned => ~FromClient
    BY <1>1, ReceiveSignedType DEF FromClient, Datagram
  <1>10. CASE ProcessPong \/ \E state \in {-1, 0, 1} : ProcessReliableHandshake(state)
    BY <1>9, <1>10 DEF ProcessPong, ProcessReliableHandshake, Receives, KeepReceiving, ReceiveSigned
  <1>11. QED
    BY <1>1, <1>2, <1>3, <1>4, <1>5, <1>6, <1>7, <1>8, <1>10
       DEF ProcessEvents, ReceiveMessages, ReceiveDatagram

\* A reliable handshake that fits into the room offered and that comes from a client is not
\* skipped.
LEMMA HandshakeAccepted ==
    ASSUME TypeOK, ReceiveMessages, inbox # << >>, inbox' = Tail(inbox), FromClient,
           NEW state \in {-1, 0, 1}, Incoming.msgId = ReliableHandshakeId(state),
           Incoming.signed, Incoming.size = WordSize, WordSize <= msgSize
    PROVE  Refreshed(clientsByAddress[Incoming.src])
  <1>1. inbox \in Seq(Datagram) /\ msgSize \in Nat
    BY DEF TypeOK
  <1>2. Tail(inbox) # inbox
    <2> DEFINE n == Len(inbox)
               m == Len(Tail(inbox))
    <2>1. m = n - 1 /\ n \in Nat
      BY <1>1
    <2> HIDE DEF n, m
    <2>2. m # n
      BY <2>1
    <2>3. QED
      BY <2>2 DEF n, m
  <1>3. WordSize = 9 /\ HeaderSize = 5
    BY DEF WordSize, HeaderSize, SignatureSize
  <1>4. ~ReceiveNothing /\ ~ReceiveRefused /\ ~ReceiveShort /\ ~ReceiveForeign
    BY <1>1, <1>2, <1>3 DEF ReceiveNothing, ReceiveRefused, ReceiveShort, ReceiveForeign, environment
  <1>5. WellSized(Incoming.msgId, Incoming.size)
    BY DEF WellSized, ReliableHandshakeId
  <1>6. ProcessReliableHandshake(state)
    <2>1. \A other \in {-1, 0, 1} :
             ProcessReliableHandshake(other) => other = state
      BY HandshakeIds DEF ProcessReliableHandshake, Receives
    <2>2. QED
      BY <1>4, <1>5, <2>1
         DEF ReceiveMessages, ReceiveDatagram, ReceiveFails, ReceiveFailsOver, ReceiveMalformed,
             ProcessConnectionRequest, ProcessConnectionHandshake, ProcessPing, ProcessPong,
             ProcessUnreliable, ProcessReliableReset, ProcessReliableMessage, Receives,
             ReliableId, ReliableHandshakeId
  <1> DEFINE id == clientsByAddress[Incoming.src]
             c == clients[id]
             d == IF state = c.reliableState THEN AcknowledgeReliable(c) ELSE c
  <1>7. ReceiveSigned /\ RefreshClient(d)
    BY <1>6 DEF ProcessReliableHandshake, Receives
  <1>8. id \in Referenced /\ clients'[id] = ReceivePong(d, Incoming.word, time)
    BY <1>7, RefreshHeap
  <1>9. c.reliableState \in {-1, 0, 1}
    BY <1>8, TypeFacts DEF Client
  <1>10. Incoming.msgId = ReliableHandshakeId(c.reliableState) <=> state = c.reliableState
    BY <1>9, HandshakeIds
  <1>11. QED
    BY <1>7, <1>8, <1>10 DEF Refreshed

\* Only a turn of receiveMessages takes a datagram.
LEMMA InboxTaken ==
    ASSUME ProcessEvents, inbox' # inbox
    PROVE  ReceiveMessages /\ call = "receive"
  <1>1. ~UpdatePendingClients
    BY DEF UpdatePendingClients, PendingTimeout, PendingAttempt, PendingWait, environment
  <1>2. \A id \in todo : ~UpdateClientStatus(id)
    BY DEF UpdateClientStatus
  <1>3. ReceiveMessages
    BY <1>1, <1>2 DEF ProcessEvents
  <1>4. QED
    BY <1>3 DEF ReceiveMessages, ReceiveDatagram, ReceiveNothing, ReceiveFails, ReceiveFailsOver,
                ReceiveRefused, ReceiveShort, ReceiveForeign, ReceiveSigned, ReceiveMalformed,
                Receives, ProcessConnectionRequest, ProcessConnectionHandshake, ProcessPing,
                ProcessPong, ProcessUnreliable, ProcessReliableReset, ProcessReliableMessage,
                ProcessReliableHandshake

\* The room offered to recvfrom never gets smaller than a datagram without data if nothing
\* smaller arrives.
LEMMA RoomStep ==
    ASSUME Application \/ ProcessEvents, MaxSockets \in Nat, MaxSockets <= 1,
           BufferSize >= WordSize, inbox # << >> => Incoming.size >= WordSize,
           call # "idle" => msgSize >= WordSize
    PROVE  call' # "idle" => msgSize' >= WordSize
  <1>1. CASE Application
    BY <1>1 DEF Application, TryConnect, DisconnectConnected, DisconnectPending,
                SendUnreliableMessage, SendReliableMessage, frame
  <1>2. CASE UpdatePendingClients
    BY <1>2 DEF UpdatePendingClients, PendingTimeout, PendingAttempt, PendingWait, EnterStatusLoop,
                ReturnConnectionEvent, EndCall
  <1>3. ASSUME NEW id \in todo, UpdateClientStatus(id)
        PROVE  call' # "idle" => msgSize' >= WordSize
    BY <1>3 DEF UpdateClientStatus, ReturnConnectionEvent, EndCall
  <1>4. CASE ReceiveMessages
    <2>1. ~ReceiveFailsOver
      BY DEF ReceiveFailsOver
    <2>2. call' = "idle" \/ (inbox # << >> /\ msgSize' = Incoming.size)
      BY <1>4, <2>1
         DEF ReceiveMessages, ReceiveDatagram, ReceiveNothing, ReceiveFails, ReceiveShort,
             ReceiveForeign, ReceiveSigned, ReceiveMalformed, Receives, ProcessConnectionRequest,
             ProcessConnectionHandshake, ProcessPing, ProcessPong, ProcessUnreliable,
             ProcessReliableReset, ProcessReliableMessage, ProcessReliableHandshake,
             RefreshClient, KeepReceiving, ReturnNothing, ReturnMessage, ReturnConnectionEvent,
             EndCall
    <2>3. QED
      BY <2>2
  <1>5. QED
    BY <1>1, <1>2, <1>3, <1>4 DEF ProcessEvents

\* Only udcTryConnect makes a pending client.
LEMMA PendingStep ==
    ASSUME Application \/ ProcessEvents, pendingClients = << >>
    PROVE  \/ pendingClients' = << >>
           \/ \E address \in Address, timeout \in Timeouts : TryConnect(address, timeout)
  <1>1. DOMAIN pendingClients = {}
    OBVIOUS
  <1>2. CASE Application
    BY <1>1, <1>2 DEF Application, DisconnectConnected, DisconnectPending, SendUnreliableMessage,
                      SendReliableMessage, registry
  <1>3. CASE UpdatePendingClients
    BY <1>3 DEF UpdatePendingClients, PendingTimeout, PendingAttempt, PendingWait, registry
  <1>4. ASSUME NEW id \in todo, UpdateClientStatus(id)
        PROVE  UNCHANGED pendingClients
    BY <1>4 DEF UpdateClientStatus, registry
  <1>5. CASE ReceiveMessages
    BY <1>5 DEF ReceiveMessages, ReceiveDatagram, ReceiveNothing, ReceiveFails, ReceiveFailsOver,
                ReceiveRefused, ReceiveShort, ReceiveForeign, ReceiveMalformed,
                ProcessConnectionRequest, ProcessConnectionHandshake, HandshakeCompletes,
                ProcessPing, ProcessPong, ProcessUnreliable, ProcessReliableReset,
                ProcessReliableMessage, ProcessReliableHandshake, registry
  <1>6. QED
    BY <1>2, <1>3, <1>4, <1>5 DEF ProcessEvents

\* A server that never connects anywhere sends nothing but answers.
LEMMA ListenerOutput ==
    ASSUME TypeOK, idCounter = 0, MaxSockets <= 1, MaxSockets \in Nat, ProcessEvents
    PROVE  outbox' = outbox \/ Answered(AnswerId)
  <1>1. CASE outbox' = outbox \/ Answered({"CONNECTION_HANDSHAKE", "PONG"})
    BY <1>1 DEF Answered, AnswerId
  <1>2. CASE ProcessUnreliable \/ ProcessReliableReset
             \/ \E state \in {0, 1} : ProcessReliableMessage(state)
    BY <1>2, ReceiveOutput DEF ReceiveMessages, ReceiveDatagram
  <1>3. QED
    BY <1>1, <1>2, ListenerStep
=============================================================================
