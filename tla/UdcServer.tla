------------------------------ MODULE UdcServer ------------------------------
(***************************************************************************)
(* One udp-connect server (include/UdcServer.h, src/UdcServer.cpp) behind  *)
(* its C interface (src/udp_connect.cpp), in an arbitrary environment: the *)
(* system clock, the datagrams waiting on its socket (inbox) and the ones  *)
(* it handed to the socket (outbox) belong to the environment, which may   *)
(* lose, duplicate, reorder and invent datagrams and set the clock.        *)
(*                                                                         *)
(* A server is single threaded.  A call of udcProcessEvents is not atomic, *)
(* because datagrams keep arriving while it runs; it is split where the    *)
(* code loops: updatePendingClients, then one step for each client that    *)
(* updateClientConnectionStatus visits, then one step for each datagram    *)
(* that receiveMessages reads.  Every other interface function is one      *)
(* action, enabled between calls of udcProcessEvents.                      *)
(***************************************************************************)
EXTENDS UdcClient, Functions, SequencesExt

CONSTANTS
    Self,            \* source address of the datagrams this server sends
    Timeouts,        \* timeout arguments (ms) the application passes to udcTryConnect
    BufferSize,      \* m_messageBufferSize
    MaxEndPointId,   \* largest UdcEndPointId, 2^32 - 1: the id counter may not wrap
    MaxSockets,      \* sockets the application binds at most
    SocketErrorSize, \* SOCKET_ERROR (-1) stored in a uint32_t, 2^32 - 1
    StartTime        \* clock (ms since the epoch) when the server is created

ASSUME ServerAssumption ==
    /\ Self \in Address
    /\ Timeouts \subseteq Nat
    /\ BufferSize \in Nat /\ BufferSize >= WordSize   \* udcCreateServer checks it
    /\ MaxEndPointId \in Nat
    /\ MaxSockets \in Nat /\ SocketErrorSize \in Nat
    /\ StartTime \in Nat \ {0}

VARIABLES
    now,              \* std::chrono::system_clock, in ms
    inbox,            \* datagrams waiting on the socket, oldest first
    outbox,           \* datagrams given to the socket and not yet carried away
    idCounter,        \* m_idCounter
    pendingClients,   \* m_pendingClients, as end point ids
    clients,          \* the live UdcClient objects by end point id
    clientsById,      \* keys of m_clientsById
    clientsByAddress, \* m_clientsByAddress, as end point ids
    reliableStates,   \* m_reliableStates
    sigDirty,         \* leading bytes of m_messageBuffer that differ from the signature
    call,             \* where a call of udcProcessEvents is
    time,             \* its currentTime
    todo,             \* clients its status loop has not visited yet
    msgSize,          \* msgSize of its receive loop
    event,            \* what the last finished call of udcProcessEvents returned
    told              \* history: what the application knows about each end point

environment == <<now, inbox, outbox>>
registry    == <<idCounter, pendingClients, clientsById, clientsByAddress>>
frame       == <<call, time, todo, msgSize>>
vars == <<environment, registry, clients, reliableStates, sigDirty, frame, event, told>>

NoClient  == 0     \* address not in m_clientsByAddress; ids start at 1
NotInHash == -1    \* address not in m_reliableStates
NoEvent   == [type |-> "NONE"]

ConnectionEventType ==
    {"CONNECTION_SUCCESS", "CONNECTION_TIMEOUT", "CONNECTION_LOST", "CONNECTION_REGAINED"}

\* What a connection event tells the application about its end point.
Meaning(type) ==
    CASE type = "CONNECTION_TIMEOUT" -> "timedOut"
      [] type = "CONNECTION_LOST"    -> "lost"
      [] OTHER                       -> "connected"

View == {"connecting", "connected", "lost", "timedOut", "disconnected"}

Init ==
    /\ now = StartTime /\ inbox = << >> /\ outbox = << >>
    /\ idCounter = 0
    /\ pendingClients = << >>
    /\ clients = << >>
    /\ clientsById = {}
    /\ clientsByAddress = [a \in Address |-> NoClient]
    /\ reliableStates = [a \in Address |-> NotInHash]
    /\ sigDirty = 0
    /\ call = "idle" /\ time = 0 /\ todo = {} /\ msgSize = 0
    /\ event = NoEvent
    /\ told = << >>

\* The end points some container still holds a shared_ptr to.
Referenced ==
    Range(pendingClients) \cup clientsById \cup (Range(clientsByAddress) \ {NoClient})

-----------------------------------------------------------------------------
(* The interface functions that do not process events.                     *)

\* udcTryConnectIPv4/IPv6 construct the client with (timeout, min(500, timeout / 10))
\* where the constructor's parameters are (pingPeriod, timeoutPeriod).
PingPeriodOf(timeout)    == timeout
TimeoutPeriodOf(timeout) == IF timeout \div 10 < 500 THEN timeout \div 10 ELSE 500

TryConnect(address, timeout) ==
    LET id == idCounter + 1
        client == StartConnecting(
                    NewClient(address, PingPeriodOf(timeout), TimeoutPeriodOf(timeout)), now)
    IN  /\ call = "idle"
        /\ timeout # 0
        /\ idCounter < MaxEndPointId
        /\ idCounter' = id
        /\ clients' = [i \in DOMAIN clients \cup {id} |-> IF i = id THEN client ELSE clients[i]]
        /\ pendingClients' = Append(pendingClients, id)
        /\ told' = Append(told, "connecting")
        /\ UNCHANGED <<environment, clientsById, clientsByAddress, reliableStates, sigDirty,
                       frame, event>>

\* Mutant: the entry in m_clientsByAddress is forgotten.
Bug_AddressKept(id) ==
    /\ call = "idle"
    /\ id \in clientsById
    /\ clientsById' = clientsById \ {id}
    /\ UNCHANGED <<idCounter, pendingClients, clientsByAddress>>
    /\ clients' = Restrict(clients, Referenced')
    /\ told' = [told EXCEPT ![id] = "disconnected"]
    /\ UNCHANGED <<environment, reliableStates, sigDirty, frame, event>>

\* disconnectFromClient for an end point in m_clientsById: the address entry is erased
\* under the client's outgoing address.  The object survives if some other entry of
\* m_clientsByAddress still holds it.
DisconnectConnected(id) ==
    /\ call = "idle"
    /\ id \in clientsById
    /\ clientsById' = clientsById \ {id}
    /\ clientsByAddress' = [clientsByAddress EXCEPT ![clients[id].outgoingAddress] = NoClient]
    /\ UNCHANGED <<idCounter, pendingClients>>
    /\ clients' = Restrict(clients, Referenced')
    /\ told' = [told EXCEPT ![id] = "disconnected"]
    /\ UNCHANGED <<environment, reliableStates, sigDirty, frame, event>>

\* disconnectFromClient for an end point that is still pending.  The loop erases every
\* entry with this id; ids are unique, so there is one (proved as Ordered).
DisconnectPending(id) ==
    /\ call = "idle"
    /\ id \notin clientsById
    /\ \E i \in DOMAIN pendingClients :
          /\ pendingClients[i] = id
          /\ pendingClients' = RemoveAt(pendingClients, i)
    /\ UNCHANGED <<idCounter, clientsById, clientsByAddress>>
    /\ clients' = Restrict(clients, Referenced')
    /\ told' = [told EXCEPT ![id] = "disconnected"]
    /\ UNCHANGED <<environment, reliableStates, sigDirty, frame, event>>

\* A datagram serialized into m_messageBuffer: it carries whatever signature bytes the
\* buffer holds.
ToClient(c, msgId, word, data) ==
    Packet(Self, c.outgoingAddress, sigDirty = 0, msgId, word, data)

SendUnreliableMessage(id, data) ==
    /\ call = "idle"
    /\ PayloadSize[data] + HeaderSize <= BufferSize
    /\ id \in clientsById
    /\ clients[id].isConnected
    /\ outbox' = Append(outbox, ToClient(clients[id], "UNRELIABLE", 0, data))
    /\ UNCHANGED <<now, inbox, registry, clients, reliableStates, sigDirty, frame, event, told>>

\* Queues the message; whether the connection is up is not asked.
SendReliableMessage(id, data) ==
    /\ call = "idle"
    /\ PayloadSize[data] + WordSize <= BufferSize
    /\ id \in clientsById
    /\ clients' = [clients EXCEPT ![id].reliableMessages = Append(@, data)]
    /\ UNCHANGED <<environment, registry, reliableStates, sigDirty, frame, event, told>>

\* Mutant: the value is reported as it is stored.
Bug_WidePing(id) ==
    IF id \in clientsById /\ clients[id].isConnected
    THEN {[connected |-> TRUE, ping |-> clients[id].ping]}
    ELSE [connected: {FALSE}, ping: 0..TimeStampModulus - 1]

\* What udcGetStatus may answer: the ping is truncated to 32 bits, and it is the value of an
\* uninitialised variable if the end point is not connected.
GetStatus(id) ==
    IF id \in clientsById /\ clients[id].isConnected
    THEN {[connected |-> TRUE, ping |-> clients[id].ping % TimeStampModulus]}
    ELSE [connected: {FALSE}, ping: 0..TimeStampModulus - 1]

-----------------------------------------------------------------------------
(* Leaving a call of udcProcessEvents.                                      *)

EndCall(result) ==
    /\ call' = "idle" /\ time' = 0 /\ todo' = {} /\ msgSize' = 0
    /\ event' = result

ReturnNothing == EndCall(NoEvent) /\ UNCHANGED told

ReturnMessage(src, data) ==
    EndCall([type |-> "RECEIVE_MESSAGE", address |-> src, data |-> data]) /\ UNCHANGED told

ReturnConnectionEvent(type, id) ==
    /\ EndCall([type |-> type, endPointId |-> id])
    /\ told' = [told EXCEPT ![id] = Meaning(type)]

-----------------------------------------------------------------------------
(* udcProcessEvents, first part: updatePendingClients.  Only the first      *)
(* pending client is looked at.                                             *)

\* On to updateClientConnectionStatus, whose loop is empty without clients, and to
\* receiveMessages, which starts with room for the whole buffer.
EnterStatusLoop ==
    /\ call' = IF clientsById = {} THEN "receive" ELSE "status"
    /\ time' = now /\ todo' = clientsById /\ msgSize' = BufferSize
    /\ event' = NoEvent

\* Mutant: the last pending client is looked at and removed.
Bug_TimeoutFromTheBack ==
    /\ call = "idle"
    /\ pendingClients # << >>
    /\ NeedsConnectionTimeoutEvent(clients[Last(pendingClients)], now)
    /\ pendingClients' = Front(pendingClients)
    /\ UNCHANGED <<idCounter, clientsById, clientsByAddress>>
    /\ clients' = Restrict(clients, Referenced')
    /\ ReturnConnectionEvent("CONNECTION_TIMEOUT", Last(pendingClients))
    /\ UNCHANGED <<environment, reliableStates, sigDirty>>

\* Mutant: the client that timed out stays in the queue.
Bug_TimeoutKeepsPending ==
    /\ call = "idle"
    /\ pendingClients # << >>
    /\ NeedsConnectionTimeoutEvent(clients[Head(pendingClients)], now)
    /\ ReturnConnectionEvent("CONNECTION_TIMEOUT", Head(pendingClients))
    /\ UNCHANGED <<environment, registry, clients, reliableStates, sigDirty>>

PendingTimeout ==
    /\ call = "idle"
    /\ pendingClients # << >>
    /\ NeedsConnectionTimeoutEvent(clients[Head(pendingClients)], now)
    /\ pendingClients' = Tail(pendingClients)
    /\ UNCHANGED <<idCounter, clientsById, clientsByAddress>>
    /\ clients' = Restrict(clients, Referenced')
    /\ ReturnConnectionEvent("CONNECTION_TIMEOUT", Head(pendingClients))
    /\ UNCHANGED <<environment, reliableStates, sigDirty>>

PendingAttempt ==
    /\ call = "idle"
    /\ pendingClients # << >>
    /\ LET id == Head(pendingClients)
           c  == clients[id]
       IN  /\ ~NeedsConnectionTimeoutEvent(c, now)
           /\ NeedsConnectionAttempt(c, now)
           /\ clients' = [clients EXCEPT ![id] = RetryConnecting(c, now)]
           /\ outbox' = Append(outbox, ToClient(c, "CONNECTION_REQUEST", id, NoData))
    /\ EnterStatusLoop
    /\ UNCHANGED <<now, inbox, registry, reliableStates, sigDirty, told>>

PendingWait ==
    /\ call = "idle"
    /\ pendingClients # << >> =>
          LET c == clients[Head(pendingClients)]
          IN  ~NeedsConnectionTimeoutEvent(c, now) /\ ~NeedsConnectionAttempt(c, now)
    /\ EnterStatusLoop
    /\ UNCHANGED <<environment, registry, clients, reliableStates, sigDirty, told>>

UpdatePendingClients == PendingTimeout \/ PendingAttempt \/ PendingWait

-----------------------------------------------------------------------------
(* udcProcessEvents, second part: one turn of the loop of                   *)
(* updateClientConnectionStatus.  The order of the turns is the order of    *)
(* an unordered_map.                                                        *)

\* Reliable traffic of one turn: nothing without a queued message, a reset request in
\* state -1, nothing in the turn that starts a reset, else the first queued message.
ReliableTraffic(c) ==
    IF c.reliableMessages = << >> \/ (c.reliableState # -1 /\ NeedsReliableReset(c, time))
    THEN << >>
    ELSE << ToClient(c, ReliableId(c.reliableState), TimeStamp(time),
                     IF c.reliableState = -1 THEN NoData ELSE Head(c.reliableMessages)) >>

AfterReliableTraffic(c) ==
    IF c.reliableMessages = << >> \/ c.reliableState = -1 THEN c
    ELSE IF NeedsReliableReset(c, time) THEN StartReliableReset(c)
    ELSE SetSendReliable(c, time)

PingTraffic(c) ==
    IF NeedsPing(c, time) THEN << ToClient(c, "PING", TimeStamp(time), NoData) >> ELSE << >>

UpdateClientStatus(id) ==
    LET c == clients[id]
    IN  /\ call = "status"
        /\ id \in todo
        /\ outbox' = outbox \o ReliableTraffic(c) \o PingTraffic(c)
        /\ \/ /\ NeedsConnectionLostEvent(c, time)
              /\ clients' = [clients EXCEPT ![id] = SetConnectionLost(AfterReliableTraffic(c))]
              /\ ReturnConnectionEvent("CONNECTION_LOST", id)
           \/ /\ ~NeedsConnectionLostEvent(c, time)
              /\ clients' = [clients EXCEPT ![id] = AfterReliableTraffic(c)]
              /\ todo' = todo \ {id}
              /\ call' = IF todo = {id} THEN "receive" ELSE "status"
              /\ UNCHANGED <<time, msgSize, event, told>>
        /\ UNCHANGED <<now, inbox, registry, reliableStates, sigDirty>>

-----------------------------------------------------------------------------
(* udcProcessEvents, third part: one turn of the loop of receiveMessages.   *)
(* msgSize is both the room offered to recvfrom and the size it reports, so *)
(* a datagram leaves less room for the next one.                            *)

Incoming == Head(inbox)

\* recvfrom stores the first n bytes of the incoming datagram in the buffer.
SignatureAfter(n) ==
    IF Incoming.signed
    THEN IF n >= sigDirty THEN 0 ELSE sigDirty
    ELSE IF n >= SignatureSize THEN SignatureSize
    ELSE IF n > sigDirty THEN n ELSE sigDirty

KeepReceiving == msgSize' = Incoming.size /\ UNCHANGED <<call, time, todo, event, told>>

\* recvfrom has nothing (WSAEWOULDBLOCK), or reports an error of the socket that takes no
\* datagram off it: receive() is false and receiveMessages returns nullptr.
ReceiveNothing ==
    /\ call = "receive"
    /\ ReturnNothing
    /\ UNCHANGED <<environment, registry, clients, reliableStates, sigDirty>>

\* recvfrom takes the datagram off the socket, but reports an error because it is larger
\* than the room offered (WSAEMSGSIZE), or 0 bytes.
ReceiveRefused ==
    /\ call = "receive"
    /\ inbox # << >>
    /\ Incoming.size = 0 \/ Incoming.size > msgSize
    /\ inbox' = Tail(inbox)
    /\ sigDirty' = SignatureAfter(IF Incoming.size > msgSize THEN msgSize ELSE 0)
    /\ UNCHANGED <<now, outbox, registry, clients, reliableStates>>

\* It was the last socket that receive() tries: receive() is false and receiveMessages
\* returns nullptr.
ReceiveFails == ReceiveRefused /\ ReturnNothing

\* receive() goes on to the next bound socket, with the size that the failed one left.
ReceiveFailsOver ==
    /\ MaxSockets > 1
    /\ ReceiveRefused
    /\ msgSize' = IF Incoming.size > msgSize THEN SocketErrorSize ELSE msgSize
    /\ UNCHANGED <<call, time, todo, event, told>>

\* A datagram shorter than a header is skipped, after it has overwritten the beginning of
\* the buffer.
ReceiveShort ==
    /\ call = "receive"
    /\ inbox # << >>
    /\ Incoming.size > 0 /\ Incoming.size <= msgSize
    /\ Incoming.size < HeaderSize
    /\ inbox' = Tail(inbox)
    /\ sigDirty' = SignatureAfter(Incoming.size)
    /\ KeepReceiving
    /\ UNCHANGED <<now, outbox, registry, clients, reliableStates>>

\* A wrong signature: the right one is written back and the datagram is skipped.
ReceiveForeign ==
    /\ call = "receive"
    /\ inbox # << >>
    /\ Incoming.size >= HeaderSize /\ Incoming.size <= msgSize
    /\ ~Incoming.signed
    /\ inbox' = Tail(inbox)
    /\ sigDirty' = 0
    /\ KeepReceiving
    /\ UNCHANGED <<now, outbox, registry, clients, reliableStates>>

\* What every datagram with the right signature does before its handler is chosen.
ReceiveSigned ==
    /\ call = "receive"
    /\ inbox # << >>
    /\ Incoming.size >= HeaderSize /\ Incoming.size <= msgSize
    /\ Incoming.signed
    /\ inbox' = Tail(inbox)
    /\ sigDirty' = 0
    /\ UNCHANGED now

Receives(msgIds) ==
    ReceiveSigned /\ Incoming.msgId \in msgIds /\ WellSized(Incoming.msgId, Incoming.size)

\* A message of the wrong size for its id (or of an unknown id) is skipped.
ReceiveMalformed ==
    /\ ReceiveSigned
    /\ ~WellSized(Incoming.msgId, Incoming.size)
    /\ KeepReceiving
    /\ UNCHANGED <<outbox, registry, clients, reliableStates>>

\* The handlers answer by changing the message id in the received buffer.
Reply(msgId) ==
    outbox' = Append(outbox, Packet(Self, Incoming.src, TRUE, msgId, Incoming.word, NoData))

ProcessConnectionRequest ==
    /\ Receives({"CONNECTION_REQUEST"})
    /\ Reply("CONNECTION_HANDSHAKE")
    /\ KeepReceiving
    /\ UNCHANGED <<registry, clients, reliableStates>>

\* Mutant: a second connection to an address is not refused.
Bug_AddressNotChecked ==
    pendingClients # << >> /\ Head(pendingClients) = Incoming.word

\* A handshake counts if it carries the id of the first pending client and comes from an
\* address that is not in m_clientsByAddress.
HandshakeCompletes ==
    /\ pendingClients # << >>
    /\ Head(pendingClients) = Incoming.word
    /\ clientsByAddress[Incoming.src] = NoClient

ProcessConnectionHandshake ==
    /\ Receives({"CONNECTION_HANDSHAKE"})
    /\ \/ /\ HandshakeCompletes
          /\ LET id == Incoming.word
             IN  /\ clients' = [clients EXCEPT
                                  ![id] = ReceiveConnectionHandshake(clients[id], time)]
                 /\ clientsById' = clientsById \cup {id}
                 /\ clientsByAddress' = [clientsByAddress EXCEPT ![Incoming.src] = id]
                 /\ pendingClients' = Tail(pendingClients)
                 /\ UNCHANGED idCounter
                 /\ ReturnConnectionEvent("CONNECTION_SUCCESS", id)
       \/ /\ ~HandshakeCompletes
          /\ KeepReceiving
          /\ UNCHANGED <<registry, clients>>
    /\ UNCHANGED <<outbox, reliableStates>>

ProcessPing ==
    /\ Receives({"PING"})
    /\ Reply("PONG")
    /\ KeepReceiving
    /\ UNCHANGED <<registry, clients, reliableStates>>

\* A pong or a reliable handshake from the address of a client, with a time stamp that is
\* not in the future.
FromClient == clientsByAddress[Incoming.src] # NoClient /\ time >= Incoming.word

\* Mutant: a regained connection is not reported.
Bug_SilentRegain(c) ==
    LET id == clientsByAddress[Incoming.src]
    IN  /\ clients' = [clients EXCEPT ![id] = ReceivePong(c, Incoming.word, time)]
        /\ KeepReceiving

\* receivePong on the sender's client, whose object is c by now, and the event that
\* reports a regained connection.
RefreshClient(c) ==
    LET id == clientsByAddress[Incoming.src]
    IN  /\ clients' = [clients EXCEPT ![id] = ReceivePong(c, Incoming.word, time)]
        /\ \/ c.isConnected /\ KeepReceiving
           \/ ~c.isConnected /\ ReturnConnectionEvent("CONNECTION_REGAINED", id)

ProcessPong ==
    /\ Receives({"PONG"})
    /\ \/ FromClient /\ RefreshClient(clients[clientsByAddress[Incoming.src]])
       \/ ~FromClient /\ KeepReceiving /\ UNCHANGED clients
    /\ UNCHANGED <<outbox, registry, reliableStates>>

ProcessUnreliable ==
    /\ Receives({"UNRELIABLE"})
    /\ ReturnMessage(Incoming.src, Incoming.data)
    /\ UNCHANGED <<outbox, registry, clients, reliableStates>>

\* Mutant: a reset is ignored unless a state is known for the address.
Bug_ResetUnanswered ==
    /\ Receives({"RELIABLE_RESET"})
    /\ reliableStates' =
          [reliableStates EXCEPT ![Incoming.src] = IF @ = NotInHash THEN NotInHash ELSE 0]
    /\ IF reliableStates[Incoming.src] = NotInHash
       THEN UNCHANGED outbox
       ELSE Reply(ReliableHandshakeId(-1))
    /\ KeepReceiving
    /\ UNCHANGED <<registry, clients>>

\* processReliableMessage(-1): the expected state goes back to 0 if there is one.
ProcessReliableReset ==
    /\ Receives({"RELIABLE_RESET"})
    /\ reliableStates' =
          [reliableStates EXCEPT ![Incoming.src] = IF @ = NotInHash THEN NotInHash ELSE 0]
    /\ Reply(ReliableHandshakeId(-1))
    /\ KeepReceiving
    /\ UNCHANGED <<registry, clients>>

\* Mutant: the expected state is not compared.
Bug_AlwaysDelivers(state) ==
    /\ Receives({ReliableId(state)})
    /\ reliableStates' = [reliableStates EXCEPT ![Incoming.src] = IF state = 0 THEN 1 ELSE 0]
    /\ Reply(ReliableHandshakeId(state))
    /\ ReturnMessage(Incoming.src, Incoming.data)
    /\ UNCHANGED <<registry, clients>>

\* processReliableMessage(0 or 1): always acknowledged, delivered if the state is the
\* expected one or no state is known for the address.
ProcessReliableMessage(state) ==
    /\ Receives({ReliableId(state)})
    /\ reliableStates' = [reliableStates EXCEPT ![Incoming.src] = IF state = 0 THEN 1 ELSE 0]
    /\ Reply(ReliableHandshakeId(state))
    /\ \/ /\ reliableStates[Incoming.src] \in {NotInHash, state}
          /\ ReturnMessage(Incoming.src, Incoming.data)
       \/ /\ reliableStates[Incoming.src] \notin {NotInHash, state}
          /\ KeepReceiving
    /\ UNCHANGED <<registry, clients>>

\* processReliableHandshake(-1, 0 or 1): a handshake for the client's current state
\* acknowledges; any handshake refreshes the connection.
ProcessReliableHandshake(state) ==
    LET c == clients[clientsByAddress[Incoming.src]]
    IN  /\ Receives({ReliableHandshakeId(state)})
        /\ \/ /\ FromClient
              /\ RefreshClient(IF state = c.reliableState THEN AcknowledgeReliable(c) ELSE c)
           \/ /\ ~FromClient
              /\ KeepReceiving
              /\ UNCHANGED clients
        /\ UNCHANGED <<outbox, registry, reliableStates>>

\* A datagram that recvfrom has accepted.
ReceiveDatagram ==
    \/ ReceiveShort \/ ReceiveForeign \/ ReceiveMalformed
    \/ ProcessConnectionRequest \/ ProcessConnectionHandshake
    \/ ProcessPing \/ ProcessPong
    \/ ProcessUnreliable
    \/ ProcessReliableReset
    \/ \E state \in {0, 1} : ProcessReliableMessage(state)
    \/ \E state \in {-1, 0, 1} : ProcessReliableHandshake(state)

ReceiveMessages == ReceiveNothing \/ ReceiveFails \/ ReceiveFailsOver \/ ReceiveDatagram

-----------------------------------------------------------------------------
(* The server in its environment.                                          *)

Application ==
    \/ \E address \in Address, timeout \in Timeouts : TryConnect(address, timeout)
    \/ \E id \in 1..idCounter : DisconnectConnected(id) \/ DisconnectPending(id)
    \/ \E id \in clientsById, data \in Payload :
          SendUnreliableMessage(id, data) \/ SendReliableMessage(id, data)

ProcessEvents ==
    \/ UpdatePendingClients
    \/ \E id \in todo : UpdateClientStatus(id)
    \/ ReceiveMessages

\* The network and the clock may do anything; the clock reads neither 0 nor less.
Environment ==
    /\ now' \in Nat \ {0}
    /\ inbox' \in Seq(Datagram)
    /\ outbox' \in Seq(Datagram)
    /\ UNCHANGED <<registry, clients, reliableStates, sigDirty, frame, event, told>>

Next == Application \/ ProcessEvents \/ Environment

Spec == Init /\ [][Next]_vars

-----------------------------------------------------------------------------
(* Properties.                                                              *)

Event ==
    {NoEvent}
      \cup [type: ConnectionEventType, endPointId: 1..idCounter]
      \cup [type: {"RECEIVE_MESSAGE"}, address: Address, data: Payload \cup {NoData}]

\* Every variable has its type; the objects are exactly the referenced ones.
TypeOK ==
    /\ now \in Nat \ {0} /\ inbox \in Seq(Datagram) /\ outbox \in Seq(Datagram)
    /\ idCounter \in 0..MaxEndPointId
    /\ pendingClients \in Seq(1..idCounter)
    /\ clientsById \subseteq 1..idCounter
    /\ clientsByAddress \in [Address -> 0..idCounter]
    /\ clients \in [Referenced -> Client]
    /\ reliableStates \in [Address -> {NotInHash, 0, 1}]
    /\ sigDirty \in 0..SignatureSize
    /\ call \in {"idle", "status", "receive"}
    /\ time \in Nat /\ msgSize \in Nat
    /\ todo \subseteq clientsById /\ (call = "idle" => todo = {})
    /\ event \in Event
    /\ told \in Seq(View) /\ Len(told) = idCounter

\* CONNECTION_SUCCESS and CONNECTION_TIMEOUT "happen in the order of udcTryConnect()
\* calls" (include/udp_connect.h:21): while the application still waits for the outcome
\* of one attempt, it has not been told the outcome of a later one.
OutcomesInCallOrder ==
    \A i, j \in 1..idCounter :
        i < j /\ told[i] = "connecting" => told[j] \in {"connecting", "disconnected"}

\* The events the application has seen and what udcGetStatus would tell it agree: a
\* registered end point is reported connected exactly when its last event was
\* CONNECTION_SUCCESS or CONNECTION_REGAINED, and not when it was CONNECTION_LOST.
StatusMatchesEvents ==
    \A id \in clientsById :
        told[id] = IF clients[id].isConnected THEN "connected" ELSE "lost"

\* m_reliableSentTime is 0 unless "the server is awaiting a reliable message handshake"
\* (include/UdcClient.h:131): the reset timer runs only while a message is queued, and not
\* during a reset.  A timer that outlived the last message of the queue would reset the next
\* one as soon as it is sent.
TimerBelongsToMessage ==
    \A id \in DOMAIN clients :
        clients[id].reliableSentTime # 0 =>
            /\ clients[id].reliableMessages # << >>
            /\ clients[id].reliableState # -1

\* How the application's view of an end point may change: LOST is reported only of a
\* connected end point, REGAINED only of a lost one, and nothing follows
\* CONNECTION_TIMEOUT.  REGAINED may also be reported of an end point the application has
\* disconnected: m_clientsByAddress keeps an entry under any address but the outgoing one.
LegalViewChange ==
    {<<"connecting", "connected">>, <<"connecting", "timedOut">>,
     <<"connecting", "disconnected">>, <<"connected", "lost">>,
     <<"connected", "disconnected">>, <<"lost", "connected">>,
     <<"lost", "disconnected">>, <<"disconnected", "connected">>}

EventsFollowProtocol ==
    [][\A id \in DOMAIN told :
          told'[id] # told[id] => <<told[id], told'[id]>> \in LegalViewChange]_vars

-----------------------------------------------------------------------------
(* Statements of the documentation and the comments that the code breaks.   *)

\* "Timeout (milliseconds) represents the amount of time a connection has to establish
\* itself before UDC_EVENT_CONNECTION_TIMEOUT is called" (include/udp_connect.h:131):
\* when the event is reported, the shortest timeout ever asked for has passed.
TimeoutAsRequested ==
    [][\A id \in DOMAIN told :
          told[id] = "connecting" /\ told'[id] = "timedOut" =>
             \E timeout \in Timeouts : now - clients[id].firstConnectAttemptTime >= timeout]_vars

\* CONNECTION_REGAINED means "A connection that was lost has been regained"
\* (include/udp_connect.h:33): its end point is one that the application knows as lost, and
\* not one that it has disconnected.
RegainedWasLost ==
    [][\A id \in DOMAIN told :
          event' = [type |-> "CONNECTION_REGAINED", endPointId |-> id] /\ event' # event
             => told[id] = "lost"]_vars

\* "The ping time (ms) of the connection, or 0 if not connected"
\* (include/udp_connect.h:170), whatever has happened to the end point.
PingIsZeroUnlessConnected ==
    \A id \in 1..idCounter : \A status \in GetStatus(id) :
        status.connected \/ status.ping = 0

\* The signature in the message buffer "is needed by send/recv in every message and only
\* needs to be rewritten if receiving message has incorrect signature"
\* (src/UdcServer.cpp:17-20): every datagram leaves with the signature.
SentWithSignature == \A i \in DOMAIN outbox : outbox[i].signed
=============================================================================
