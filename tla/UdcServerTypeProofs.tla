------------------------ MODULE UdcServerTypeProofs ------------------------
(***************************************************************************)
(* The type invariant of UdcServer, proved for every value of the          *)
(* constants.  There is one lemma for each action, and one for each idiom  *)
(* the actions share: returning an event, going on with the receive loop,  *)
(* answering, updating a client object.                                    *)
(***************************************************************************)
EXTENDS UdcServer, ChannelProofs

\* The part of TypeOK that a call of udcProcessEvents sets when it returns.
CallTypeOK ==
    /\ call \in {"idle", "status", "receive"}
    /\ time \in Nat /\ msgSize \in Nat
    /\ event \in Event
    /\ told \in Seq(View) /\ Len(told) = idCounter

\* A well-typed change of the queue, the state and the timer keeps a client well typed.
LEMMA ReliableUpdateType ==
    ASSUME NEW c \in Client, NEW q \in Seq(Payload), NEW st \in {-1, 0, 1}
    PROVE  [c EXCEPT !.reliableMessages = q, !.reliableState = st, !.reliableSentTime = 0]
               \in Client
  BY DEF Client

\* So does a change of the queue alone.
LEMMA QueueUpdateType ==
    ASSUME NEW c \in Client, NEW q \in Seq(Payload)
    PROVE  [c EXCEPT !.reliableMessages = q] \in Client
  BY DEF Client

\* Every member function of UdcClient keeps the object well typed.
LEMMA ClientTypes ==
    ASSUME NEW c \in Client, NEW t \in Nat
    PROVE  /\ StartConnecting(c, t) \in Client
           /\ RetryConnecting(c, t) \in Client
           /\ ReceiveConnectionHandshake(c, t) \in Client
           /\ SetConnectionLost(c) \in Client
           /\ SetSendReliable(c, t) \in Client
           /\ StartReliableReset(c) \in Client
           /\ AcknowledgeReliable(c) \in Client
           /\ \A s \in Nat : ReceivePong(c, s, t) \in Client
  <1>1. StartConnecting(c, t) \in Client
    BY DEF Client, StartConnecting
  <1>2. RetryConnecting(c, t) \in Client
    BY DEF Client, RetryConnecting
  <1>3. ReceiveConnectionHandshake(c, t) \in Client
    BY DEF Client, ReceiveConnectionHandshake
  <1>4. SetConnectionLost(c) \in Client
    BY DEF Client, SetConnectionLost
  <1>5. SetSendReliable(c, t) \in Client
    BY DEF Client, SetSendReliable
  <1>6. StartReliableReset(c) \in Client
    BY DEF Client, StartReliableReset
  <1>7. AcknowledgeReliable(c) \in Client
    <2>1. c.reliableMessages # << >> => Tail(c.reliableMessages) \in Seq(Payload)
      BY DEF Client
    <2>2. QED
      BY <2>1, ReliableUpdateType DEF AcknowledgeReliable, Client
  <1>8. ASSUME NEW s \in Nat PROVE ReceivePong(c, s, t) \in Client
    <2> DEFINE p == t - s
    <2>1. p \in Int
      OBVIOUS
    <2>2. ReceivePong(c, s, t) =
            [c EXCEPT !.ping = p, !.pingLastSetTime = t, !.lastReceivedTime = t,
                      !.isConnected = TRUE]
      BY DEF ReceivePong
    <2> HIDE DEF p
    <2>3. QED
      BY <2>1, <2>2 DEF Client
  <1>9. QED
    BY <1>1, <1>2, <1>3, <1>4, <1>5, <1>6, <1>7, <1>8

\* The client that udcTryConnect constructs is well typed.
LEMMA NewClientType ==
    ASSUME NEW address \in Address, NEW timeout \in Timeouts
    PROVE  NewClient(address, PingPeriodOf(timeout), TimeoutPeriodOf(timeout)) \in Client
  <1>1. timeout \in Nat /\ timeout \div 10 \in Nat
    BY ServerAssumption
  <1>2. QED
    BY <1>1 DEF NewClient, Client, PingPeriodOf, TimeoutPeriodOf

\* A serialized message is a datagram.
LEMMA PacketType ==
    ASSUME NEW src \in Address, NEW dst \in Address, NEW signed \in BOOLEAN, NEW msgId \in MsgId,
           NEW word \in Nat, NEW data \in Payload \cup {NoData}
    PROVE  Packet(src, dst, signed, msgId, word, data) \in Datagram
  <1>1. SizeOf(msgId, data) \in Nat
    BY MessageAssumption DEF SizeOf, HeaderSize, WordSize, SignatureSize
  <1>2. QED
    BY <1>1 DEF Packet, Datagram

\* A truncated time stamp is a natural number.
LEMMA TimeStampType ==
    ASSUME NEW t \in Nat PROVE TimeStamp(t) \in Nat
  BY MessageAssumption DEF TimeStamp

\* The constructor establishes the type invariant.
LEMMA InitTypeOK == ASSUME Init PROVE TypeOK
  BY ServerAssumption DEF Init, TypeOK, Referenced, Range, NoClient, NotInHash, SignatureSize, Event, NoEvent

\* The elements of a queue after push_back, pop_front and erase.
LEMMA SeqRange ==
    ASSUME NEW S, NEW s \in Seq(S)
    PROVE  /\ Range(s) \subseteq S
           /\ \A e : Range(Append(s, e)) = Range(s) \cup {e}
           /\ s # << >> => Head(s) \in Range(s) /\ Range(Tail(s)) \subseteq Range(s)
           /\ \A i \in DOMAIN s : Range(RemoveAt(s, i)) \subseteq Range(s)
  <1>1. Range(s) \subseteq S
    BY DEF Range
  <1>2. ASSUME NEW e PROVE Range(Append(s, e)) = Range(s) \cup {e}
    <2>1. DOMAIN Append(s, e) = 1..(Len(s) + 1) /\ Append(s, e)[Len(s) + 1] = e
      OBVIOUS
    <2>2. \A i \in 1..Len(s) : Append(s, e)[i] = s[i]
      OBVIOUS
    <2>3. QED
      BY <2>1, <2>2 DEF Range
  <1>3. ASSUME s # << >> PROVE Head(s) \in Range(s) /\ Range(Tail(s)) \subseteq Range(s)
    BY <1>3 DEF Range
  <1>4. ASSUME NEW i \in DOMAIN s PROVE Range(RemoveAt(s, i)) \subseteq Range(s)
    <2>1. Len(s) \in Nat /\ i \in 1..Len(s) /\ DOMAIN s = 1..Len(s)
      OBVIOUS
    <2>2. ASSUME NEW k \in 1..(Len(s) - 1) PROVE RemoveAt(s, i)[k] \in Range(s)
      <3>1. k \in DOMAIN s /\ k + 1 \in DOMAIN s
        BY <2>1
      <3>2. RemoveAt(s, i)[k] = s[k] \/ RemoveAt(s, i)[k] = s[k + 1]
        BY RemoveAtFacts
      <3>3. QED
        BY <3>1, <3>2 DEF Range
    <2>3. QED
      BY <2>2, RemoveAtFacts DEF Range
  <1>5. QED
    BY <1>1, <1>2, <1>3, <1>4

\* pop_front removes nothing but the first element.
LEMMA SeqHeadTail ==
    ASSUME NEW S, NEW s \in Seq(S), s # << >>
    PROVE  Range(s) = Range(Tail(s)) \cup {Head(s)}
  <1>1. Len(s) \in Nat /\ Len(s) >= 1 /\ DOMAIN s = 1..Len(s) /\ Head(s) = s[1]
    OBVIOUS
  <1>2. /\ DOMAIN Tail(s) = 1..(Len(s) - 1)
        /\ \A i \in 1..(Len(s) - 1) : Tail(s)[i] = s[i + 1]
    OBVIOUS
  <1>3. ASSUME NEW i \in 1..Len(s), i # 1 PROVE i - 1 \in 1..(Len(s) - 1) /\ Tail(s)[i - 1] = s[i]
    BY <1>1, <1>2, <1>3
  <1>4. ASSUME NEW x \in Range(s) PROVE x \in Range(Tail(s)) \cup {Head(s)}
    <2>1. PICK i \in 1..Len(s) : x = s[i]
      BY <1>1 DEF Range
    <2>2. QED
      BY <1>1, <1>2, <1>3, <2>1 DEF Range
  <1>5. QED
    BY <1>4, SeqRange

\* Consequences of the type invariant that most steps use: every id found in a container
\* of the server names a live client object, and the next datagram is a datagram.
LEMMA TypeFacts ==
    ASSUME TypeOK
    PROVE  /\ \A id \in Referenced : id \in 1..idCounter /\ clients[id] \in Client
           /\ clientsById \subseteq Referenced
           /\ \A a \in Address : clientsByAddress[a] # NoClient => clientsByAddress[a] \in Referenced
           /\ \A i \in DOMAIN pendingClients : pendingClients[i] \in Referenced
           /\ pendingClients # << >> => /\ Head(pendingClients) \in Referenced
                                      /\ Tail(pendingClients) \in Seq(1..idCounter)
                                      /\ Range(Tail(pendingClients)) \subseteq Range(pendingClients)
           /\ inbox # << >> => Incoming \in Datagram /\ Tail(inbox) \in Seq(Datagram)
  <1>1. \A id \in Referenced : id \in 1..idCounter /\ clients[id] \in Client
    <2>1. Range(pendingClients) \subseteq 1..idCounter
      BY SeqRange DEF TypeOK
    <2>2. Range(clientsByAddress) \ {NoClient} \subseteq 1..idCounter
      BY DEF TypeOK, Range, NoClient
    <2>3. QED
      BY <2>1, <2>2 DEF TypeOK, Referenced
  <1>2. clientsById \subseteq Referenced
    BY DEF Referenced
  <1>3. \A a \in Address : clientsByAddress[a] # NoClient => clientsByAddress[a] \in Referenced
    BY DEF TypeOK, Referenced, Range, NoClient
  <1>4. \A i \in DOMAIN pendingClients : pendingClients[i] \in Referenced
    BY DEF TypeOK, Referenced, Range
  <1>5. ASSUME pendingClients # << >>
        PROVE  /\ Head(pendingClients) \in Referenced
               /\ Tail(pendingClients) \in Seq(1..idCounter)
               /\ Range(Tail(pendingClients)) \subseteq Range(pendingClients)
    BY <1>5 DEF TypeOK, Referenced, Range
  <1>6. inbox # << >> => Incoming \in Datagram /\ Tail(inbox) \in Seq(Datagram)
    BY DEF TypeOK, Incoming
  <1>7. QED
    BY <1>1, <1>2, <1>3, <1>4, <1>5, <1>6

\* udcTryConnect preserves the type invariant.
LEMMA TryConnectType ==
    ASSUME TypeOK, NEW address \in Address, NEW timeout \in Timeouts, TryConnect(address, timeout)
    PROVE  TypeOK'
  <1> DEFINE id == idCounter + 1
             new == StartConnecting(
                      NewClient(address, PingPeriodOf(timeout), TimeoutPeriodOf(timeout)), now)
  <1>1. new \in Client
    BY NewClientType, ClientTypes DEF TypeOK
  <1>2. id \in Nat /\ id \in 1..MaxEndPointId
    BY ServerAssumption DEF TryConnect, TypeOK
  <1>3. pendingClients' \in Seq(1..idCounter') /\ Range(pendingClients') = Range(pendingClients) \cup {id}
    <2>1. pendingClients' = Append(pendingClients, id) /\ idCounter' = id
      BY DEF TryConnect
    <2>2. pendingClients \in Seq(1..idCounter)
      BY DEF TypeOK
    <2>3. Append(pendingClients, id) \in Seq(1..id)
      BY <1>2, <2>2 DEF TypeOK
    <2>4. QED
      BY <2>1, <2>2, <2>3, SeqRange
  <1>4. Referenced' = Referenced \cup {id}
    BY <1>3 DEF TryConnect, Referenced
  <1>5. clients' = [i \in Referenced \cup {id} |-> IF i = id THEN new ELSE clients[i]]
    BY DEF TryConnect, TypeOK
  <1>6. clients' \in [Referenced' -> Client]
    <2> HIDE DEF new, id
    <2> QED BY <1>1, <1>4, <1>5, TypeFacts
  <1>7. told' \in Seq(View) /\ Len(told') = idCounter'
    BY <1>2 DEF TryConnect, TypeOK, View
  <1>8. event' \in Event'
    BY <1>2 DEF TryConnect, TypeOK, Event
  <1>9. idCounter' \in 0..MaxEndPointId /\ clientsById' \subseteq 1..idCounter'
        /\ clientsByAddress' \in [Address -> 0..idCounter']
    BY <1>2 DEF TryConnect, TypeOK
  <1>10. QED
    BY <1>3, <1>6, <1>7, <1>8, <1>9 DEF TryConnect, TypeOK, environment, frame

\* Freeing the objects that lost their last reference leaves exactly the referenced ones.
LEMMA RestrictType ==
    ASSUME TypeOK, Referenced' \subseteq Referenced, clients' = Restrict(clients, Referenced')
    PROVE  clients' \in [Referenced' -> Client]
  BY TypeFacts DEF Restrict

\* Updating one live object keeps the heap well typed.
LEMMA UpdateClientType ==
    ASSUME TypeOK, NEW id \in Referenced, NEW c \in Client
    PROVE  [clients EXCEPT ![id] = c] \in [Referenced -> Client]
  BY DEF TypeOK

\* Recording an event about a known end point keeps the history well typed.
LEMMA ToldType ==
    ASSUME TypeOK, NEW id \in 1..idCounter, NEW view \in View
    PROVE  [told EXCEPT ![id] = view] \in Seq(View) /\ Len([told EXCEPT ![id] = view]) = idCounter
  BY DEF TypeOK

\* A message serialized for a client is a datagram.
LEMMA ToClientType ==
    ASSUME TypeOK, NEW c \in Client, NEW msgId \in MsgId, NEW word \in Nat,
           NEW data \in Payload \cup {NoData}
    PROVE  ToClient(c, msgId, word, data) \in Datagram
  <1>1. c.outgoingAddress \in Address /\ Self \in Address /\ (sigDirty = 0) \in BOOLEAN
    BY ServerAssumption DEF Client
  <1>2. QED
    BY <1>1, PacketType DEF ToClient

\* udcDisconnect of a connected end point preserves the type invariant.
LEMMA DisconnectConnectedType ==
    ASSUME TypeOK, NEW id \in 1..idCounter, DisconnectConnected(id)
    PROVE  TypeOK'
  <1>1. id \in Referenced /\ clients[id] \in Client
    BY TypeFacts DEF DisconnectConnected
  <1>2. clientsByAddress' \in [Address -> 0..idCounter]
    <2>1. clients[id].outgoingAddress \in Address /\ NoClient \in 0..idCounter
      BY <1>1 DEF Client, TypeOK, NoClient
    <2>2. QED
      BY <2>1 DEF DisconnectConnected, TypeOK
  <1>3. Range(clientsByAddress') \ {NoClient} \subseteq Range(clientsByAddress)
    BY DEF DisconnectConnected, TypeOK, Range, NoClient
  <1>4. Referenced' \subseteq Referenced
    BY <1>3 DEF DisconnectConnected, Referenced
  <1>5. clients' \in [Referenced' -> Client]
    BY <1>4, RestrictType DEF DisconnectConnected
  <1>6. told' \in Seq(View) /\ Len(told') = idCounter
    BY ToldType DEF DisconnectConnected, View
  <1>7. event' \in Event'
    BY DEF DisconnectConnected, TypeOK, Event
  <1>8. todo' \subseteq clientsById'
    BY DEF DisconnectConnected, TypeOK, frame
  <1>9. QED
    BY <1>2, <1>5, <1>6, <1>7, <1>8 DEF DisconnectConnected, TypeOK, environment, frame

\* udcDisconnect of a pending end point preserves the type invariant.
LEMMA DisconnectPendingType ==
    ASSUME TypeOK, NEW id \in 1..idCounter, DisconnectPending(id)
    PROVE  TypeOK'
  <1>1. pendingClients' \in Seq(1..idCounter) /\ Range(pendingClients') \subseteq Range(pendingClients)
    BY RemoveAtFacts, SeqRange DEF DisconnectPending, TypeOK
  <1>2. Referenced' \subseteq Referenced
    BY <1>1 DEF DisconnectPending, Referenced
  <1>3. clients' \in [Referenced' -> Client]
    BY <1>2, RestrictType DEF DisconnectPending
  <1>4. told' \in Seq(View) /\ Len(told') = idCounter
    BY ToldType DEF DisconnectPending, View
  <1>5. event' \in Event'
    BY DEF DisconnectPending, TypeOK, Event
  <1>6. QED
    BY <1>1, <1>3, <1>4, <1>5 DEF DisconnectPending, TypeOK, environment, frame

\* Sending an unreliable message preserves the type invariant.
LEMMA SendUnreliableType ==
    ASSUME TypeOK, NEW id \in clientsById, NEW data \in Payload, SendUnreliableMessage(id, data)
    PROVE  TypeOK'
  <1>1. clients[id] \in Client
    BY TypeFacts
  <1>2. outbox' \in Seq(Datagram)
    BY <1>1, ToClientType DEF SendUnreliableMessage, TypeOK, MsgId
  <1>3. Referenced' = Referenced /\ Event' = Event
    BY DEF SendUnreliableMessage, registry, Referenced, Event
  <1>4. QED
    BY <1>2, <1>3 DEF SendUnreliableMessage, TypeOK, registry, frame

\* Queueing a reliable message preserves the type invariant.
LEMMA SendReliableType ==
    ASSUME TypeOK, NEW id \in clientsById, NEW data \in Payload, SendReliableMessage(id, data)
    PROVE  TypeOK'
  <1> DEFINE c == [clients[id] EXCEPT !.reliableMessages = Append(@, data)]
  <1>1. id \in Referenced /\ clients[id] \in Client
    BY TypeFacts
  <1>2. c \in Client
    <2>1. Append(clients[id].reliableMessages, data) \in Seq(Payload)
      BY <1>1 DEF Client
    <2>2. QED
      BY <1>1, <2>1, QueueUpdateType
  <1>3. clients' = [clients EXCEPT ![id] = c]
    BY DEF SendReliableMessage
  <1>4. Referenced' = Referenced /\ Event' = Event
    BY DEF SendReliableMessage, registry, Referenced, Event
  <1>5. clients' \in [Referenced -> Client]
    <2> HIDE DEF c
    <2> QED BY <1>1, <1>2, <1>3, UpdateClientType
  <1>6. QED
    BY <1>4, <1>5 DEF SendReliableMessage, TypeOK, registry, frame, environment

\* Every way to return from udcProcessEvents leaves the call record and the event well typed.
LEMMA ReturnTypes ==
    ASSUME TypeOK, idCounter' = idCounter
    PROVE  /\ ReturnNothing => CallTypeOK'
           /\ \A src \in Address, data \in Payload \cup {NoData} :
                 ReturnMessage(src, data) => CallTypeOK'
           /\ \A type \in ConnectionEventType, id \in 1..idCounter :
                 ReturnConnectionEvent(type, id) => CallTypeOK'
  <1>1. ReturnNothing => CallTypeOK'
    BY DEF ReturnNothing, EndCall, CallTypeOK, TypeOK, Event, NoEvent
  <1>2. ASSUME NEW src \in Address, NEW data \in Payload \cup {NoData}, ReturnMessage(src, data)
        PROVE  CallTypeOK'
    <2>1. event' \in Event'
      BY <1>2 DEF ReturnMessage, EndCall, Event
    <2>2. QED
      BY <1>2, <2>1 DEF ReturnMessage, EndCall, CallTypeOK, TypeOK
  <1>3. ASSUME NEW type \in ConnectionEventType, NEW id \in 1..idCounter,
               ReturnConnectionEvent(type, id)
        PROVE  CallTypeOK'
    <2>1. event' \in Event'
      BY <1>3 DEF ReturnConnectionEvent, EndCall, Event
    <2>2. told' \in Seq(View) /\ Len(told') = idCounter
      BY <1>3, ToldType DEF ReturnConnectionEvent, Meaning, View
    <2>3. QED
      BY <1>3, <2>1, <2>2 DEF ReturnConnectionEvent, EndCall, CallTypeOK
  <1>4. QED
    BY <1>1, <1>2, <1>3

\* A connection timeout preserves the type invariant.
LEMMA PendingTimeoutType == ASSUME TypeOK, PendingTimeout PROVE TypeOK'
  <1>1. /\ pendingClients' \in Seq(1..idCounter)
        /\ Range(pendingClients') \subseteq Range(pendingClients)
        /\ Head(pendingClients) \in 1..idCounter
    BY TypeFacts DEF PendingTimeout
  <1>2. Referenced' \subseteq Referenced
    BY <1>1 DEF PendingTimeout, Referenced
  <1>3. clients' \in [Referenced' -> Client]
    BY <1>2, RestrictType DEF PendingTimeout
  <1>4. CallTypeOK'
    BY <1>1, ReturnTypes DEF PendingTimeout, ConnectionEventType
  <1>5. todo' = {}
    BY DEF PendingTimeout, ReturnConnectionEvent, EndCall
  <1>6. QED
    BY <1>1, <1>3, <1>4, <1>5 DEF PendingTimeout, CallTypeOK, TypeOK, environment

\* Entering the status loop: it visits exactly the registered clients.
LEMMA EnterStatusLoopType ==
    ASSUME TypeOK, EnterStatusLoop, UNCHANGED <<registry, told>>
    PROVE  CallTypeOK' /\ todo' \subseteq clientsById' /\ (call' = "idle" => todo' = {})
  BY ServerAssumption DEF EnterStatusLoop, CallTypeOK, TypeOK, Event, NoEvent, registry

\* Sending a connection request preserves the type invariant.
LEMMA PendingAttemptType == ASSUME TypeOK, PendingAttempt PROVE TypeOK'
  <1> DEFINE id == Head(pendingClients)
             c  == clients[id]
  <1>1. id \in Referenced /\ c \in Client /\ now \in Nat /\ id \in Nat
    <2>1. id \in Referenced
      BY TypeFacts DEF PendingAttempt
    <2>2. id \in 1..idCounter /\ c \in Client
      BY <2>1, TypeFacts
    <2>3. now \in Nat /\ idCounter \in Nat
      BY DEF TypeOK
    <2> HIDE DEF id, c
    <2>4. QED
      BY <2>1, <2>2, <2>3
  <1>2. clients' \in [Referenced -> Client]
    BY <1>1, ClientTypes, UpdateClientType DEF PendingAttempt
  <1>3. outbox' \in Seq(Datagram)
    BY <1>1, ToClientType DEF PendingAttempt, TypeOK, MsgId
  <1>4. CallTypeOK' /\ todo' \subseteq clientsById' /\ (call' = "idle" => todo' = {})
    BY EnterStatusLoopType DEF PendingAttempt
  <1>5. Referenced' = Referenced
    BY DEF PendingAttempt, registry, Referenced
  <1>6. QED
    BY <1>2, <1>3, <1>4, <1>5 DEF PendingAttempt, CallTypeOK, TypeOK, registry

\* A call that has no pending work preserves the type invariant.
LEMMA PendingWaitType == ASSUME TypeOK, PendingWait PROVE TypeOK'
  <1>1. CallTypeOK' /\ todo' \subseteq clientsById' /\ (call' = "idle" => todo' = {})
    BY EnterStatusLoopType DEF PendingWait
  <1>2. Referenced' = Referenced
    BY DEF PendingWait, registry, Referenced
  <1>3. QED
    BY <1>1, <1>2 DEF PendingWait, CallTypeOK, TypeOK, registry, environment

\* What one turn of the status loop sends, and what it makes of the client.
LEMMA TrafficTypes ==
    ASSUME TypeOK, NEW c \in Client
    PROVE  /\ ReliableTraffic(c) \in Seq(Datagram)
           /\ PingTraffic(c) \in Seq(Datagram)
           /\ AfterReliableTraffic(c) \in Client
  <1>1. time \in Nat /\ TimeStamp(time) \in Nat
    BY TimeStampType DEF TypeOK
  <1>2. ReliableTraffic(c) \in Seq(Datagram)
    <2>1. CASE ReliableTraffic(c) = << >>
      BY <2>1
    <2>2. CASE ReliableTraffic(c) # << >>
      <3> DEFINE data == IF c.reliableState = -1 THEN NoData ELSE Head(c.reliableMessages)
      <3>1. ReliableTraffic(c) = << ToClient(c, ReliableId(c.reliableState), TimeStamp(time), data) >>
            /\ c.reliableMessages # << >>
        BY <2>2 DEF ReliableTraffic
      <3>2. data \in Payload \cup {NoData}
        BY <3>1 DEF Client
      <3>3. ReliableId(c.reliableState) \in MsgId
        BY DEF ReliableId, MsgId, Client
      <3>4. ToClient(c, ReliableId(c.reliableState), TimeStamp(time), data) \in Datagram
        BY <1>1, <3>2, <3>3, ToClientType
      <3>5. QED
        BY <3>1, <3>4
    <2>3. QED
      BY <2>1, <2>2
  <1>3. PingTraffic(c) \in Seq(Datagram)
    <2>1. ToClient(c, "PING", TimeStamp(time), NoData) \in Datagram
      BY <1>1, ToClientType DEF MsgId
    <2>2. QED
      BY <2>1 DEF PingTraffic
  <1>4. AfterReliableTraffic(c) \in Client
    BY <1>1, ClientTypes DEF AfterReliableTraffic
  <1>5. QED
    BY <1>2, <1>3, <1>4

\* A turn of the status loop preserves the type invariant.
LEMMA UpdateClientStatusType ==
    ASSUME TypeOK, NEW id \in todo, UpdateClientStatus(id) PROVE TypeOK'
  <1> DEFINE c == clients[id]
  <1>1. id \in Referenced /\ id \in 1..idCounter /\ c \in Client
    BY TypeFacts DEF TypeOK
  <1>2. outbox' \in Seq(Datagram)
    <2>1. outbox' = outbox \o ReliableTraffic(c) \o PingTraffic(c)
      BY DEF UpdateClientStatus
    <2>2. QED
      BY <1>1, <2>1, TrafficTypes DEF TypeOK
  <1>3. Referenced' = Referenced /\ Event' = Event
    BY DEF UpdateClientStatus, registry, Referenced, Event
  <1>4. CASE NeedsConnectionLostEvent(c, time)
    <2>1. clients' \in [Referenced -> Client]
      <3>1. SetConnectionLost(AfterReliableTraffic(c)) \in Client
        BY <1>1, TrafficTypes, ClientTypes DEF TypeOK
      <3>2. clients' = [clients EXCEPT ![id] = SetConnectionLost(AfterReliableTraffic(c))]
        BY <1>4 DEF UpdateClientStatus
      <3>3. QED
        BY <1>1, <3>1, <3>2, UpdateClientType
    <2>2. ReturnConnectionEvent("CONNECTION_LOST", id)
      BY <1>4 DEF UpdateClientStatus
    <2>3. CallTypeOK' /\ todo' = {}
      BY <1>1, <2>2, ReturnTypes
         DEF UpdateClientStatus, registry, ConnectionEventType, ReturnConnectionEvent, EndCall
    <2>4. QED
      BY <1>2, <1>3, <2>1, <2>3 DEF UpdateClientStatus, CallTypeOK, TypeOK, registry
  <1>5. CASE ~NeedsConnectionLostEvent(c, time)
    <2>1. clients' \in [Referenced -> Client]
      BY <1>1, <1>5, TrafficTypes, UpdateClientType DEF UpdateClientStatus
    <2>2. todo' \subseteq clientsById /\ call' \in {"status", "receive"}
      BY <1>5 DEF UpdateClientStatus, TypeOK
    <2>3. UNCHANGED <<time, msgSize, event, told, now, inbox, registry, reliableStates, sigDirty>>
      BY <1>5 DEF UpdateClientStatus
    <2>4. QED
      BY <1>2, <1>3, <2>1, <2>2, <2>3 DEF TypeOK, registry
  <1>6. QED
    BY <1>4, <1>5

\* The part all handlers share: the datagram leaves the socket, the buffer is signed.
LEMMA ReceiveSignedType ==
    ASSUME TypeOK, ReceiveSigned
    PROVE  /\ Incoming \in Datagram /\ inbox # << >>
           /\ inbox' \in Seq(Datagram) /\ sigDirty' \in 0..SignatureSize /\ now' \in Nat \ {0}
  <1>1. Incoming \in Datagram /\ Tail(inbox) \in Seq(Datagram)
    BY TypeFacts DEF ReceiveSigned
  <1>2. QED
    BY <1>1 DEF ReceiveSigned, TypeOK, SignatureSize

\* Going on with the receive loop keeps the call record well typed.
LEMMA KeepReceivingType ==
    ASSUME TypeOK, inbox # << >>, KeepReceiving, idCounter' = idCounter
    PROVE  CallTypeOK' /\ todo' = todo /\ call' = call
  <1>1. Incoming.size \in Nat
    BY TypeFacts DEF Datagram
  <1>2. QED
    BY <1>1 DEF KeepReceiving, CallTypeOK, TypeOK, Event

\* An answer made of the received datagram is a datagram.
LEMMA ReplyType ==
    ASSUME TypeOK, Incoming \in Datagram, NEW msgId \in MsgId, Reply(msgId)
    PROVE  outbox' \in Seq(Datagram)
  <1>1. Incoming.src \in Address /\ Incoming.word \in Nat
    BY DEF Datagram
  <1> DEFINE reply == Packet(Self, Incoming.src, TRUE, msgId, Incoming.word, NoData)
  <1>2. reply \in Datagram
    BY <1>1, PacketType, ServerAssumption
  <1>3. outbox \in Seq(Datagram) /\ outbox' = Append(outbox, reply)
    BY DEF TypeOK, Reply
  <1> HIDE DEF reply
  <1>4. QED
    BY <1>2, <1>3

\* Overwriting the buffer damages at most the four signature bytes.
LEMMA SignatureAfterType ==
    ASSUME TypeOK, NEW n \in Nat PROVE SignatureAfter(n) \in 0..SignatureSize
  BY DEF SignatureAfter, TypeOK, SignatureSize

\* What a turn of the receive loop that leaves the containers alone has to show.
LEMMA ReceiveTurnType ==
    ASSUME TypeOK, UNCHANGED registry,
           inbox' \in Seq(Datagram), outbox' \in Seq(Datagram), sigDirty' \in 0..SignatureSize,
           now' \in Nat \ {0}, clients' \in [Referenced -> Client],
           reliableStates' \in [Address -> {NotInHash, 0, 1}],
           CallTypeOK', todo' = {} \/ (todo' = todo /\ call' = call)
    PROVE  TypeOK'
  <1>1. Referenced' = Referenced
    BY DEF registry, Referenced
  <1>2. QED
    BY <1>1 DEF TypeOK, CallTypeOK, registry

\* A datagram that recvfrom takes and refuses leaves the socket and the buffer well typed.
LEMMA ReceiveRefusedType ==
    ASSUME TypeOK, ReceiveRefused
    PROVE  inbox' \in Seq(Datagram) /\ sigDirty' \in 0..SignatureSize
  <1>1. (IF Incoming.size > msgSize THEN msgSize ELSE 0) \in Nat
    BY DEF TypeOK
  <1>2. sigDirty' \in 0..SignatureSize
    BY <1>1, SignatureAfterType DEF ReceiveRefused
  <1>3. QED
    BY <1>2, TypeFacts DEF ReceiveRefused

\* The turns that find no message, or one to skip, preserve the type invariant.
LEMMA ReceiveSkippedType ==
    ASSUME TypeOK,
           \/ ReceiveNothing \/ ReceiveFails \/ ReceiveFailsOver
           \/ ReceiveShort \/ ReceiveForeign \/ ReceiveMalformed
    PROVE  TypeOK'
  <1> USE DEF registry
  <1>1. CASE ReceiveNothing
    <2>1. CallTypeOK' /\ todo' = {}
      BY <1>1, ReturnTypes DEF ReceiveNothing, ReturnNothing, EndCall
    <2>2. QED
      BY <1>1, <2>1, ReceiveTurnType DEF ReceiveNothing, environment, TypeOK
  <1>2. CASE ReceiveFails
    <2>1. CallTypeOK' /\ todo' = {}
      BY <1>2, ReturnTypes DEF ReceiveFails, ReceiveRefused, ReturnNothing, EndCall
    <2>2. QED
      BY <1>2, <2>1, ReceiveRefusedType, ReceiveTurnType DEF ReceiveFails, ReceiveRefused, TypeOK
  <1>3. CASE ReceiveShort
    <2>1. CallTypeOK' /\ todo' = todo /\ call' = call
      BY <1>3, KeepReceivingType DEF ReceiveShort
    <2>2. Incoming.size \in Nat /\ inbox' \in Seq(Datagram)
      BY <1>3, TypeFacts DEF ReceiveShort, Datagram
    <2>3. sigDirty' \in 0..SignatureSize
      BY <1>3, <2>2, SignatureAfterType DEF ReceiveShort
    <2>4. QED
      BY <1>3, <2>1, <2>2, <2>3, ReceiveTurnType DEF ReceiveShort, TypeOK
  <1>4. CASE ReceiveForeign
    <2>1. CallTypeOK' /\ todo' = todo /\ call' = call
      BY <1>4, KeepReceivingType DEF ReceiveForeign
    <2>2. inbox' \in Seq(Datagram) /\ sigDirty' \in 0..SignatureSize
      BY <1>4, TypeFacts DEF ReceiveForeign, SignatureSize
    <2>3. QED
      BY <1>4, <2>1, <2>2, ReceiveTurnType DEF ReceiveForeign, TypeOK
  <1>5. CASE ReceiveMalformed
    <2>1. ReceiveSigned /\ KeepReceiving /\ UNCHANGED <<outbox, registry, clients, reliableStates>>
      BY <1>5 DEF ReceiveMalformed
    <2>2. CallTypeOK' /\ todo' = todo /\ call' = call
      BY <2>1, KeepReceivingType DEF ReceiveSigned
    <2>3. QED
      BY <2>1, <2>2, ReceiveSignedType, ReceiveTurnType DEF TypeOK
  <1>6. CASE ReceiveFailsOver
    <2>1. msgSize' \in Nat /\ UNCHANGED <<call, time, todo, event, told, idCounter>>
      BY <1>6, ServerAssumption DEF ReceiveFailsOver, ReceiveRefused, TypeOK
    <2>2. CallTypeOK'
      BY <2>1 DEF CallTypeOK, TypeOK, Event
    <2>3. QED
      BY <1>6, <2>1, <2>2, ReceiveRefusedType, ReceiveTurnType
         DEF ReceiveFailsOver, ReceiveRefused, TypeOK
  <1>7. QED
    BY <1>1, <1>2, <1>3, <1>4, <1>5, <1>6

\* The handlers that answer and go on: request, ping, reset.
LEMMA ReplyTurnType ==
    ASSUME TypeOK, ReceiveSigned, KeepReceiving, NEW msgId \in MsgId, Reply(msgId),
           UNCHANGED <<registry, clients>>, reliableStates' \in [Address -> {NotInHash, 0, 1}]
    PROVE  TypeOK'
  <1>1. CallTypeOK' /\ todo' = todo /\ call' = call
    BY KeepReceivingType DEF ReceiveSigned, registry
  <1>2. outbox' \in Seq(Datagram)
    BY ReplyType, ReceiveSignedType
  <1>3. QED
    BY <1>1, <1>2, ReceiveSignedType, ReceiveTurnType DEF TypeOK

\* processConnectionHandshake preserves the type invariant.
LEMMA ProcessHandshakeType == ASSUME TypeOK, ProcessConnectionHandshake PROVE TypeOK'
  <1>1. /\ ReceiveSigned
        /\ UNCHANGED <<outbox, reliableStates>>
    BY DEF ProcessConnectionHandshake, Receives
  <1>2. CASE HandshakeCompletes
    <2> DEFINE id == Incoming.word
               c  == ReceiveConnectionHandshake(clients[id], time)
    <2>1. /\ clients' = [clients EXCEPT ![id] = c]
          /\ clientsById' = clientsById \cup {id}
          /\ clientsByAddress' = [clientsByAddress EXCEPT ![Incoming.src] = id]
          /\ pendingClients' = Tail(pendingClients)
          /\ idCounter' = idCounter
          /\ ReturnConnectionEvent("CONNECTION_SUCCESS", id)
      BY <1>2 DEF ProcessConnectionHandshake
    <2>2. pendingClients # << >> /\ Head(pendingClients) = id
      BY <1>2 DEF HandshakeCompletes
    <2>3. id \in Referenced /\ Incoming.src \in Address
      BY <1>1, <2>2, TypeFacts, ReceiveSignedType DEF Datagram
    <2>4. id \in 1..idCounter /\ clients[id] \in Client /\ time \in Nat
      BY <2>3, TypeFacts DEF TypeOK
    <2>5. c \in Client
      BY <2>4, ClientTypes
    <2> HIDE DEF id, c
    <2>6. clients' \in [Referenced -> Client]
      BY <2>1, <2>3, <2>5, UpdateClientType
    <2>7. /\ clientsById' \subseteq 1..idCounter
          /\ clientsByAddress' \in [Address -> 0..idCounter]
          /\ pendingClients' \in Seq(1..idCounter)
      BY <2>1, <2>2, <2>3, <2>4, TypeFacts DEF TypeOK
    <2>8. Referenced' = Referenced
      <3>1. Range(pendingClients) = Range(pendingClients') \cup {id}
        BY <2>1, <2>2, SeqHeadTail DEF TypeOK
      <3>2. id # NoClient
        BY <2>4 DEF NoClient
      <3>3. clientsByAddress[Incoming.src] = NoClient
        BY <1>2 DEF HandshakeCompletes
      <3>4. Range(clientsByAddress') \ {NoClient} = (Range(clientsByAddress) \ {NoClient}) \cup {id}
        BY <2>1, <2>3, <3>2, <3>3 DEF TypeOK, Range
      <3>5. QED
        BY <2>1, <3>1, <3>4 DEF Referenced
    <2>9. CallTypeOK' /\ todo' = {}
      BY <2>1, <2>4, ReturnTypes DEF ConnectionEventType, ReturnConnectionEvent, EndCall
    <2>10. QED
      BY <1>1, <2>1, <2>6, <2>7, <2>8, <2>9, ReceiveSignedType DEF TypeOK, CallTypeOK
  <1>3. CASE ~HandshakeCompletes
    <2>1. KeepReceiving /\ UNCHANGED <<registry, clients>>
      BY <1>3 DEF ProcessConnectionHandshake
    <2>2. CallTypeOK' /\ todo' = todo /\ call' = call
      BY <1>1, <2>1, KeepReceivingType DEF ReceiveSigned, registry
    <2>3. QED
      BY <1>1, <2>1, <2>2, ReceiveSignedType, ReceiveTurnType DEF TypeOK
  <1>4. QED
    BY <1>2, <1>3

\* A pong or reliable handshake of a known client preserves the type invariant.
LEMMA RefreshTurnType ==
    ASSUME TypeOK, ReceiveSigned, FromClient, NEW c \in Client, RefreshClient(c),
           UNCHANGED <<outbox, registry, reliableStates>>
    PROVE  TypeOK'
  <1> DEFINE id == clientsByAddress[Incoming.src]
  <1>1. Incoming.src \in Address /\ Incoming.word \in Nat /\ inbox # << >>
    BY ReceiveSignedType DEF Datagram
  <1>2. id \in Referenced /\ id \in 1..idCounter
    BY <1>1, TypeFacts DEF FromClient
  <1>3. ReceivePong(c, Incoming.word, time) \in Client
    BY <1>1, ClientTypes DEF TypeOK
  <1>4. clients' = [clients EXCEPT ![id] = ReceivePong(c, Incoming.word, time)]
    BY DEF RefreshClient
  <1>5. clients' \in [Referenced -> Client]
    BY <1>2, <1>3, <1>4, UpdateClientType
  <1>6. CallTypeOK' /\ (todo' = {} \/ (todo' = todo /\ call' = call))
    <2>1. CASE KeepReceiving
      BY <1>1, <2>1, KeepReceivingType DEF registry
    <2>2. CASE ReturnConnectionEvent("CONNECTION_REGAINED", id)
      BY <1>2, <2>2, ReturnTypes DEF registry, ConnectionEventType, ReturnConnectionEvent, EndCall
    <2>3. QED
      BY <2>1, <2>2 DEF RefreshClient
  <1>7. QED
    BY <1>5, <1>6, ReceiveSignedType, ReceiveTurnType DEF TypeOK

\* Returning a received message preserves the type invariant.
LEMMA MessageTurnType ==
    ASSUME TypeOK, ReceiveSigned, outbox' \in Seq(Datagram), UNCHANGED <<registry, clients>>,
           reliableStates' \in [Address -> {NotInHash, 0, 1}],
           ReturnMessage(Incoming.src, Incoming.data)
    PROVE  TypeOK'
  <1>1. Incoming.src \in Address /\ Incoming.data \in Payload \cup {NoData}
    BY ReceiveSignedType DEF Datagram
  <1>2. CallTypeOK' /\ todo' = {}
    BY <1>1, ReturnTypes DEF registry, ReturnMessage, EndCall
  <1>3. QED
    BY <1>2, ReceiveSignedType, ReceiveTurnType DEF TypeOK

\* A handler that only returns nullptr preserves the type invariant.
LEMMA IgnoredTurnType ==
    ASSUME TypeOK, ReceiveSigned, KeepReceiving, UNCHANGED <<outbox, registry, clients, reliableStates>>
    PROVE  TypeOK'
  <1>1. CallTypeOK' /\ todo' = todo /\ call' = call
    BY KeepReceivingType DEF ReceiveSigned, registry
  <1>2. QED
    BY <1>1, ReceiveSignedType, ReceiveTurnType DEF TypeOK

\* Every turn of receiveMessages preserves the type invariant.
LEMMA ReceiveMessagesType == ASSUME TypeOK, ReceiveMessages PROVE TypeOK'
  <1>1. CASE \/ ReceiveNothing \/ ReceiveFails \/ ReceiveFailsOver
             \/ ReceiveShort \/ ReceiveForeign \/ ReceiveMalformed
    BY <1>1, ReceiveSkippedType
  <1>2. CASE ProcessConnectionRequest
    BY <1>2, ReplyTurnType DEF ProcessConnectionRequest, Receives, MsgId, TypeOK
  <1>3. CASE ProcessConnectionHandshake
    BY <1>3, ProcessHandshakeType
  <1>4. CASE ProcessPing
    BY <1>4, ReplyTurnType DEF ProcessPing, Receives, MsgId, TypeOK
  <1>5. CASE ProcessPong
    <2>1. ReceiveSigned /\ UNCHANGED <<outbox, registry, reliableStates>>
      BY <1>5 DEF ProcessPong, Receives
    <2>2. CASE FromClient /\ RefreshClient(clients[clientsByAddress[Incoming.src]])
      <3>1. clients[clientsByAddress[Incoming.src]] \in Client
        BY <2>1, <2>2, TypeFacts, ReceiveSignedType DEF FromClient, Datagram
      <3>2. QED
        BY <2>1, <2>2, <3>1, RefreshTurnType
    <2>3. CASE ~FromClient /\ KeepReceiving /\ UNCHANGED clients
      BY <2>1, <2>3, IgnoredTurnType
    <2>4. QED
      BY <1>5, <2>2, <2>3 DEF ProcessPong
  <1>6. CASE ProcessUnreliable
    BY <1>6, MessageTurnType DEF ProcessUnreliable, Receives, TypeOK
  <1>7. CASE ProcessReliableReset
    <2>1. reliableStates' \in [Address -> {NotInHash, 0, 1}]
      BY <1>7 DEF ProcessReliableReset, TypeOK
    <2>2. QED
      BY <1>7, <2>1, ReplyTurnType DEF ProcessReliableReset, Receives, MsgId, ReliableHandshakeId
  <1>8. ASSUME NEW state \in {0, 1}, ProcessReliableMessage(state) PROVE TypeOK'
    <2>1. reliableStates' \in [Address -> {NotInHash, 0, 1}]
      BY <1>8 DEF ProcessReliableMessage, TypeOK
    <2>2. ReliableHandshakeId(state) \in MsgId
      BY DEF ReliableHandshakeId, MsgId
    <2>3. /\ ReceiveSigned /\ Reply(ReliableHandshakeId(state)) /\ UNCHANGED <<registry, clients>>
          /\ ReturnMessage(Incoming.src, Incoming.data) \/ KeepReceiving
      BY <1>8 DEF ProcessReliableMessage, Receives
    <2>4. CASE ReturnMessage(Incoming.src, Incoming.data)
      BY <2>1, <2>2, <2>3, <2>4, MessageTurnType, ReplyType, ReceiveSignedType
    <2>5. CASE KeepReceiving
      BY <2>1, <2>2, <2>3, <2>5, ReplyTurnType
    <2>6. QED
      BY <2>3, <2>4, <2>5
  <1>9. ASSUME NEW state \in {-1, 0, 1}, ProcessReliableHandshake(state) PROVE TypeOK'
    <2> DEFINE c == clients[clientsByAddress[Incoming.src]]
               d == IF state = c.reliableState THEN AcknowledgeReliable(c) ELSE c
    <2>1. ReceiveSigned /\ UNCHANGED <<outbox, registry, reliableStates>>
      BY <1>9 DEF ProcessReliableHandshake, Receives
    <2>2. CASE FromClient /\ RefreshClient(d)
      <3>1. c \in Client
        BY <2>1, <2>2, TypeFacts, ReceiveSignedType DEF FromClient, Datagram
      <3>2. d \in Client
        BY <3>1, ClientTypes DEF TypeOK
      <3> HIDE DEF d
      <3>3. QED
        BY <2>1, <2>2, <3>2, RefreshTurnType
    <2>3. CASE ~FromClient /\ KeepReceiving /\ UNCHANGED clients
      BY <2>1, <2>3, IgnoredTurnType
    <2>4. QED
      BY <1>9, <2>2, <2>3 DEF ProcessReliableHandshake
  <1>10. QED
    BY <1>1, <1>2, <1>3, <1>4, <1>5, <1>6, <1>7, <1>8, <1>9 DEF ReceiveMessages, ReceiveDatagram

\* Every step of the server or its environment preserves the type invariant.
LEMMA TypeStep == ASSUME TypeOK, [Next]_vars PROVE TypeOK'
  <1>1. CASE Application
    BY <1>1, TryConnectType, DisconnectConnectedType, DisconnectPendingType,
       SendUnreliableType, SendReliableType DEF Application
  <1>2. CASE ProcessEvents
    BY <1>2, PendingTimeoutType, PendingAttemptType, PendingWaitType, UpdateClientStatusType,
       ReceiveMessagesType DEF ProcessEvents, UpdatePendingClients
  <1>3. CASE Environment
    <2>1. Referenced' = Referenced /\ Event' = Event
      BY <1>3 DEF Environment, registry, Referenced, Event
    <2>2. QED
      BY <1>3, <2>1 DEF Environment, TypeOK, registry, frame
  <1>4. CASE UNCHANGED vars
    <2>1. Referenced' = Referenced /\ Event' = Event
      BY <1>4 DEF vars, registry, Referenced, Event
    <2>2. QED
      BY <1>4, <2>1 DEF vars, TypeOK, registry, frame, environment
  <1>5. QED
    BY <1>1, <1>2, <1>3, <1>4 DEF Next

\* In every environment, with any number of end points, every variable of the server keeps
\* its type.  In particular every id in the pending queue, in m_clientsById and in
\* m_clientsByAddress names a live UdcClient object, and the status loop of
\* udcProcessEvents only visits registered clients.
THEOREM TypeCorrect == Spec => []TypeOK
  <1>1. Init => TypeOK
    BY InitTypeOK
  <1>2. TypeOK /\ [Next]_vars => TypeOK'
    BY TypeStep
  <1>3. QED
    BY <1>1, <1>2, PTL DEF Spec
=============================================================================
