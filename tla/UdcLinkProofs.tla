--------------------------- MODULE UdcLinkProofs ---------------------------
(***************************************************************************)
(* What two servers and an unreliable network between them keep true,      *)
(* whatever the network loses, repeats, reorders or delays, and however    *)
(* often A connects, disconnects and sends.  The theorems of               *)
(* UdcServerPeerProofs about one server in an arbitrary environment are    *)
(* instantiated for both servers; each is the environment of the other.    *)
(***************************************************************************)
EXTENDS UdcLink, ChannelProofs

\* The instances A and B of UdcLink, with the theorems about a server.
SA == INSTANCE UdcServerPeerProofs WITH
        Address <- {"a", "b"}, Self <- "a", Payload <- Message, PayloadSize <- Size,
        Timeouts <- {Timeout}, MaxEndPointId <- MaxConnects,
        MaxSockets <- 1, SocketErrorSize <- 1000,
        inbox <- ba, outbox <- ab,
        idCounter <- aIdCounter, pendingClients <- aPendingClients, clients <- aClients,
        clientsById <- aClientsById, clientsByAddress <- aClientsByAddress,
        reliableStates <- aReliableStates, sigDirty <- aSigDirty, call <- aCall,
        time <- aTime, todo <- aTodo, msgSize <- aMsgSize, event <- aEvent, told <- aTold

SB == INSTANCE UdcServerPeerProofs WITH
        Address <- {"a", "b"}, Self <- "b", Payload <- Message, PayloadSize <- Size,
        Timeouts <- {}, MaxEndPointId <- 0,
        MaxSockets <- 1, SocketErrorSize <- 1000,
        inbox <- ab, outbox <- ba,
        idCounter <- bIdCounter, pendingClients <- bPendingClients, clients <- bClients,
        clientsById <- bClientsById, clientsByAddress <- bClientsByAddress,
        reliableStates <- bReliableStates, sigDirty <- bSigDirty, call <- bCall,
        time <- bTime, todo <- bTodo, msgSize <- bMsgSize, event <- bEvent, told <- bTold

\* UdcLink and these proofs read the same server: each operation of A is one of SA.
LEMMA SameServerA ==
    /\ A!Init => SA!Init
    /\ A!TryConnect("b", Timeout) => SA!TryConnect("b", Timeout)
    /\ \A id : A!DisconnectConnected(id) => SA!DisconnectConnected(id)
    /\ \A id : A!DisconnectPending(id) => SA!DisconnectPending(id)
    /\ \A id, data : A!SendReliableMessage(id, data) => SA!SendReliableMessage(id, data)
    /\ A!ProcessEvents => SA!ProcessEvents
    /\ \A id : A!GetStatus(id) = SA!GetStatus(id)
    /\ A!NoClient = SA!NoClient
  BY DEF A!SignatureSize, SA!SignatureSize, A!HeaderSize, SA!HeaderSize, A!WordSize, SA!WordSize,
         A!SizeOf, SA!SizeOf, A!WellSized, SA!WellSized, A!TimeStamp, SA!TimeStamp, A!ReliableId,
         SA!ReliableId, A!ReliableHandshakeId, SA!ReliableHandshakeId, A!Packet, SA!Packet,
         A!NewClient, SA!NewClient, A!StartConnecting, SA!StartConnecting, A!RetryConnecting,
         SA!RetryConnecting, A!NeedsConnectionTimeoutEvent, SA!NeedsConnectionTimeoutEvent,
         A!NeedsConnectionAttempt, SA!NeedsConnectionAttempt, A!ReceiveConnectionHandshake,
         SA!ReceiveConnectionHandshake, A!NeedsPing, SA!NeedsPing, A!ReceivePong, SA!ReceivePong,
         A!NeedsConnectionLostEvent, SA!NeedsConnectionLostEvent, A!SetConnectionLost,
         SA!SetConnectionLost, A!SetSendReliable, SA!SetSendReliable, A!NeedsReliableReset,
         SA!NeedsReliableReset, A!StartReliableReset, SA!StartReliableReset, A!AcknowledgeReliable,
         SA!AcknowledgeReliable, A!environment, SA!environment, A!registry, SA!registry, A!frame,
         SA!frame, A!NoClient, SA!NoClient, A!NotInHash, SA!NotInHash, A!NoEvent, SA!NoEvent,
         A!Meaning, SA!Meaning, A!Referenced, SA!Referenced, A!EndCall, SA!EndCall, A!ReturnNothing,
         SA!ReturnNothing, A!ReturnMessage, SA!ReturnMessage, A!ReturnConnectionEvent,
         SA!ReturnConnectionEvent, A!EnterStatusLoop, SA!EnterStatusLoop, A!PendingTimeout,
         SA!PendingTimeout, A!PendingAttempt, SA!PendingAttempt, A!PendingWait, SA!PendingWait,
         A!UpdatePendingClients, SA!UpdatePendingClients, A!ToClient, SA!ToClient,
         A!ReliableTraffic, SA!ReliableTraffic, A!AfterReliableTraffic, SA!AfterReliableTraffic,
         A!PingTraffic, SA!PingTraffic, A!UpdateClientStatus, SA!UpdateClientStatus, A!Incoming,
         SA!Incoming, A!SignatureAfter, SA!SignatureAfter, A!KeepReceiving, SA!KeepReceiving,
         A!ReceiveNothing, SA!ReceiveNothing, A!ReceiveRefused, SA!ReceiveRefused, A!ReceiveFails,
         SA!ReceiveFails, A!ReceiveFailsOver, SA!ReceiveFailsOver, A!ReceiveShort, SA!ReceiveShort,
         A!ReceiveForeign, SA!ReceiveForeign, A!ReceiveSigned, SA!ReceiveSigned, A!Receives,
         SA!Receives, A!ReceiveMalformed, SA!ReceiveMalformed, A!Reply, SA!Reply,
         A!ProcessConnectionRequest, SA!ProcessConnectionRequest, A!HandshakeCompletes,
         SA!HandshakeCompletes, A!ProcessConnectionHandshake, SA!ProcessConnectionHandshake,
         A!ProcessPing, SA!ProcessPing, A!FromClient, SA!FromClient, A!RefreshClient,
         SA!RefreshClient, A!ProcessPong, SA!ProcessPong, A!ProcessUnreliable, SA!ProcessUnreliable,
         A!ProcessReliableReset, SA!ProcessReliableReset, A!ProcessReliableMessage,
         SA!ProcessReliableMessage, A!ProcessReliableHandshake, SA!ProcessReliableHandshake,
         A!ReceiveDatagram, SA!ReceiveDatagram, A!ReceiveMessages, SA!ReceiveMessages,
         A!ProcessEvents, SA!ProcessEvents, A!Init, SA!Init, A!Range, SA!Range, A!Restrict,
         SA!Restrict, A!PingPeriodOf, SA!PingPeriodOf, A!TimeoutPeriodOf, SA!TimeoutPeriodOf,
         A!TryConnect, SA!TryConnect, A!DisconnectConnected, SA!DisconnectConnected,
         A!DisconnectPending, SA!DisconnectPending, A!SendReliableMessage, SA!SendReliableMessage,
         A!GetStatus, SA!GetStatus, A!RemoveAt, SA!RemoveAt

\* ... and each operation of B is one of SB.
LEMMA SameServerB ==
    /\ B!Init => SB!Init
    /\ B!ProcessEvents => SB!ProcessEvents
    /\ B!NotInHash = SB!NotInHash /\ B!NoEvent = SB!NoEvent
  BY DEF B!SignatureSize, SB!SignatureSize, B!HeaderSize, SB!HeaderSize, B!WordSize, SB!WordSize,
         B!SizeOf, SB!SizeOf, B!WellSized, SB!WellSized, B!TimeStamp, SB!TimeStamp, B!ReliableId,
         SB!ReliableId, B!ReliableHandshakeId, SB!ReliableHandshakeId, B!Packet, SB!Packet,
         B!NewClient, SB!NewClient, B!StartConnecting, SB!StartConnecting, B!RetryConnecting,
         SB!RetryConnecting, B!NeedsConnectionTimeoutEvent, SB!NeedsConnectionTimeoutEvent,
         B!NeedsConnectionAttempt, SB!NeedsConnectionAttempt, B!ReceiveConnectionHandshake,
         SB!ReceiveConnectionHandshake, B!NeedsPing, SB!NeedsPing, B!ReceivePong, SB!ReceivePong,
         B!NeedsConnectionLostEvent, SB!NeedsConnectionLostEvent, B!SetConnectionLost,
         SB!SetConnectionLost, B!SetSendReliable, SB!SetSendReliable, B!NeedsReliableReset,
         SB!NeedsReliableReset, B!StartReliableReset, SB!StartReliableReset, B!AcknowledgeReliable,
         SB!AcknowledgeReliable, B!environment, SB!environment, B!registry, SB!registry, B!frame,
         SB!frame, B!NoClient, SB!NoClient, B!NotInHash, SB!NotInHash, B!NoEvent, SB!NoEvent,
         B!Meaning, SB!Meaning, B!Referenced, SB!Referenced, B!EndCall, SB!EndCall, B!ReturnNothing,
         SB!ReturnNothing, B!ReturnMessage, SB!ReturnMessage, B!ReturnConnectionEvent,
         SB!ReturnConnectionEvent, B!EnterStatusLoop, SB!EnterStatusLoop, B!PendingTimeout,
         SB!PendingTimeout, B!PendingAttempt, SB!PendingAttempt, B!PendingWait, SB!PendingWait,
         B!UpdatePendingClients, SB!UpdatePendingClients, B!ToClient, SB!ToClient,
         B!ReliableTraffic, SB!ReliableTraffic, B!AfterReliableTraffic, SB!AfterReliableTraffic,
         B!PingTraffic, SB!PingTraffic, B!UpdateClientStatus, SB!UpdateClientStatus, B!Incoming,
         SB!Incoming, B!SignatureAfter, SB!SignatureAfter, B!KeepReceiving, SB!KeepReceiving,
         B!ReceiveNothing, SB!ReceiveNothing, B!ReceiveRefused, SB!ReceiveRefused, B!ReceiveFails,
         SB!ReceiveFails, B!ReceiveFailsOver, SB!ReceiveFailsOver, B!ReceiveShort, SB!ReceiveShort,
         B!ReceiveForeign, SB!ReceiveForeign, B!ReceiveSigned, SB!ReceiveSigned, B!Receives,
         SB!Receives, B!ReceiveMalformed, SB!ReceiveMalformed, B!Reply, SB!Reply,
         B!ProcessConnectionRequest, SB!ProcessConnectionRequest, B!HandshakeCompletes,
         SB!HandshakeCompletes, B!ProcessConnectionHandshake, SB!ProcessConnectionHandshake,
         B!ProcessPing, SB!ProcessPing, B!FromClient, SB!FromClient, B!RefreshClient,
         SB!RefreshClient, B!ProcessPong, SB!ProcessPong, B!ProcessUnreliable, SB!ProcessUnreliable,
         B!ProcessReliableReset, SB!ProcessReliableReset, B!ProcessReliableMessage,
         SB!ProcessReliableMessage, B!ProcessReliableHandshake, SB!ProcessReliableHandshake,
         B!ReceiveDatagram, SB!ReceiveDatagram, B!ReceiveMessages, SB!ReceiveMessages,
         B!ProcessEvents, SB!ProcessEvents, B!Init, SB!Init, B!Range, SB!Range, B!Restrict,
         SB!Restrict

\* The constants of both servers satisfy what UdcMessage and UdcServer assume of them.
LEMMA ServerConstants ==
    /\ Size \in [Message -> Nat] /\ NoData \notin Message /\ TimeStampModulus \in Nat \ {0}
    /\ {"a", "b"} \subseteq {"a", "b"} /\ {Timeout} \subseteq Nat
    /\ BufferSize \in Nat /\ BufferSize >= SA!WordSize /\ BufferSize >= SB!WordSize
    /\ MaxConnects \in Nat /\ StartTime \in Nat \ {0}
  BY LinkAssumption
     DEF Size, Message, NoData, SA!WordSize, SA!HeaderSize, SA!SignatureSize,
         SB!WordSize, SB!HeaderSize, SB!SignatureSize

-----------------------------------------------------------------------------
(* The invariant.                                                           *)

\* The time stamps that a server can have sent so far.
Stamps == {SA!TimeStamp(t) : t \in StartTime..now}

\* Each channel carries what its end sent, with stamps of the past.
ChannelInv ==
    /\ SA!SentBy(ab, "a") /\ SA!Stamped(ab, Stamps)
    /\ SA!SentBy(ba, "b") /\ SA!Stamped(ba, Stamps)

\* A call of A reads the clock once, and time does not pass for A until it is over.  B has no
\* clients and so never enters the status loop.
ClockInv ==
    /\ now \in Nat /\ StartTime <= now
    /\ aCall # "idle" => aTime = now
    /\ bCall # "status"

\* A's clients were all opened for B, and m_ping is plausible.
ClientInv ==
    \A id \in DOMAIN aClients :
        /\ aClients[id].outgoingAddress = "b"
        /\ aClients[id].pingPeriod = SA!PingPeriodOf(Timeout)
        /\ aClients[id].timeoutPeriod = SA!TimeoutPeriodOf(Timeout)
        /\ aClients[id].ping % TimeStampModulus <= now - StartTime

LinkInv ==
    /\ SA!TypeOK /\ SA!ViewInv /\ SA!MapsMatch
    /\ SB!TypeOK
    /\ ChannelInv /\ ClockInv /\ ClientInv
    /\ accepted \in Nat

\* The instances of UdcServer speak of the same datagrams.
LEMMA SameDatagrams ==
    /\ SA!Datagram = SB!Datagram
    /\ \A channel, stamps : SA!Stamped(channel, stamps) <=> SB!Stamped(channel, stamps)
    /\ \A channel, address : SA!SentBy(channel, address) <=> SB!SentBy(channel, address)
  BY DEF SA!Datagram, SB!Datagram, SA!MsgId, SB!MsgId, SA!Stamped, SB!Stamped, SA!StampId,
         SB!StampId, SA!SentBy, SB!SentBy

-----------------------------------------------------------------------------
(* Channels.                                                                *)

\* What a channel loses, repeats or reorders is still what was sent.
LEMMA WithinSound ==
    ASSUME NEW c, NEW d, Within(d, c), NEW stamps, NEW address,
           SA!Stamped(c, stamps), SA!SentBy(c, address)
    PROVE  SA!Stamped(d, stamps) /\ SA!SentBy(d, address)
  BY DEF Within, SA!Stamped, SA!SentBy

-----------------------------------------------------------------------------
(* The steps of server A.                                                   *)

\* The remainder of a division is unique.
LEMMA Remainder ==
    ASSUME NEW M \in Nat \ {0}, NEW a \in Int, NEW r \in 0..(M - 1)
    PROVE  (M * a + r) % M = r
  <1> DEFINE x == M * a + r
             b == x \div M
             s == x % M
  <1>1. x \in Int
    OBVIOUS
  <1>2. x = M * b + s /\ b \in Int /\ s \in 0..(M - 1)
    BY <1>1
  <1> HIDE DEF b, s
  <1>3. a = b
    <2>1. M * (a - b) = s - r /\ a - b \in Int
      BY <1>2
    <2>2. \A d \in Int : d >= 1 => M * d >= M
      OBVIOUS
    <2>3. \A d \in Int : d <= -1 => M * d <= -M
      OBVIOUS
    <2>4. s - r < M /\ s - r > -M
      BY <1>2
    <2>5. ~(a - b >= 1) /\ ~(a - b <= -1)
      BY <1>2, <2>1, <2>2, <2>3, <2>4
    <2>6. QED
      BY <1>2, <2>5
  <1>4. s = r
    BY <1>2, <1>3
  <1>5. QED
    BY <1>4 DEF s

\* Modular time stamps: the age that is computed from the low bits of a clock reading is,
\* modulo the same modulus, at most the true age.
LEMMA StampAge ==
    ASSUME NEW M \in Nat \ {0}, NEW n \in Nat, NEW t \in Nat, t <= n
    PROVE  (n - (t % M)) % M <= n - t
  <1>1. t = M * (t \div M) + (t % M) /\ t \div M \in Int /\ t % M \in 0..(M - 1)
    OBVIOUS
  <1> DEFINE q == t \div M
             k == n - t
  <1>2. k = M * (k \div M) + (k % M) /\ k \div M \in Int /\ k % M \in 0..(M - 1) /\ k \in Nat
    OBVIOUS
  <1> DEFINE j == k \div M
             x == n - (t % M)
  <1>3. x = M * (q + j) + (k % M) /\ q + j \in Int /\ x \in Int
    BY <1>1, <1>2
  <1>4. x % M = k % M
    BY <1>2, <1>3, Remainder
  <1>5. k % M <= k
    BY <1>2
  <1>6. QED
    BY <1>4, <1>5

\* A handshake that reaches A comes from B, where all of A's requests go.
LEMMA Honest == ASSUME LinkInv PROVE SA!HandshakesHonest
  BY DEF LinkInv, ChannelInv, ClientInv, SA!SentBy, SA!HandshakesHonest

\* A pong or a reliable handshake that A accepts carries a stamp of the past.
LEMMA RefreshedPing ==
    ASSUME LinkInv, NEW id, SA!Refreshed(id)
    PROVE  (aTime - SA!Incoming.word) % TimeStampModulus <= now - StartTime
  <1>1. aCall = "receive" /\ ba # << >>
    BY DEF SA!Refreshed, SA!ReceiveSigned
  <1>2. aTime = now /\ ba \in Seq(SA!Datagram) /\ now \in Nat
    BY <1>1 DEF LinkInv, ClockInv, SA!TypeOK
  <1>3. 1 \in DOMAIN ba /\ SA!Incoming = ba[1] /\ ba[1] \in SA!Datagram
    BY <1>1, <1>2 DEF SA!Incoming
  <1>4. SA!Incoming.msgId \in SA!StampId
    BY <1>3
       DEF SA!Refreshed, SA!StampId, SA!MsgId, SA!Datagram, SA!ReliableHandshakeId
  <1>5. SA!Incoming.word \in Stamps
    BY <1>3, <1>4 DEF LinkInv, ChannelInv, SA!Stamped
  <1>6. PICK t \in StartTime..now : SA!Incoming.word = t % TimeStampModulus
    BY <1>5 DEF Stamps, SA!TimeStamp
  <1>7. t \in Nat /\ t <= now /\ StartTime <= t
    BY <1>2, LinkAssumption
  <1>8. (now - (t % TimeStampModulus)) % TimeStampModulus <= now - t
    BY <1>2, <1>7, LinkAssumption, StampAge
  <1>9. (now - (t % TimeStampModulus)) % TimeStampModulus \in Int
    BY <1>2, <1>7, LinkAssumption
  <1>10. QED
    BY <1>2, <1>6, <1>7, <1>8, <1>9, LinkAssumption

\* What the invariant says about A's own state and channels, in the words of UdcServer.
LEMMA FactsOfA ==
    ASSUME LinkInv
    PROVE  /\ SA!TypeOK /\ SA!ViewInv /\ SA!MapsMatch /\ SA!HandshakesHonest
           /\ now \in Nat \ {0} /\ ab \in Seq(SA!Datagram) /\ ba \in Seq(SA!Datagram)
           /\ SA!TimeStamp(now) \in Stamps
           /\ DOMAIN aClients = SA!Referenced
  <1>1. now \in StartTime..now
    BY LinkAssumption DEF LinkInv, ClockInv
  <1>2. QED
    BY <1>1, Honest DEF LinkInv, SA!TypeOK, Stamps

\* A step that B takes no part in keeps B well typed.
LEMMA OtherThanB ==
    ASSUME SB!TypeOK, UNCHANGED bVars, now' \in Nat \ {0},
           ab' \in Seq(SA!Datagram), ba' \in Seq(SA!Datagram)
    PROVE  SB!TypeOK'
  <1>1. SB!Environment
    BY SameDatagrams DEF SB!Environment, bVars, SB!registry, SB!frame
  <1>2. QED
    BY <1>1, ServerConstants, SB!TypeStep DEF SB!Next

\* A step of A's application or of its call of udcProcessEvents keeps the invariant.
LEMMA StepOfA ==
    ASSUME LinkInv, SA!Application \/ SA!ProcessEvents, UNCHANGED bVars, accepted' \in Nat,
           \A id \in DOMAIN aClients' : SA!Created(id) => aClients'[id].outgoingAddress = "b"
    PROVE  LinkInv'
  <1>1. SA!TypeOK' /\ SA!ViewInv' /\ SA!MapsMatch'
    BY FactsOfA, ServerConstants, SA!TypeStep, SA!ViewStep, SA!MapsStep DEF SA!Next
  <1>2. /\ now' = now
        /\ \/ aCall' = "idle"
           \/ aCall = "idle" /\ aTime' = now
           \/ aCall # "idle" /\ aTime' = aTime
    BY ServerConstants, SA!FrameStep
  <1>3. ba' = ba \/ (ba # << >> /\ ba' = Tail(ba))
    <2>1. CASE SA!Application
      BY <2>1 DEF SA!Application, SA!TryConnect, SA!DisconnectConnected, SA!DisconnectPending,
                  SA!SendUnreliableMessage, SA!SendReliableMessage, SA!environment
    <2>2. QED
      BY <2>1, ServerConstants, SA!InboxStep
  <1>4. SB!TypeOK'
    <2>1. ab' \in Seq(SA!Datagram) /\ ba' \in Seq(SA!Datagram)
      BY <1>1 DEF SA!TypeOK
    <2>2. QED
      BY <1>2, <2>1, FactsOfA, OtherThanB DEF LinkInv
  <1>5. ClockInv'
    BY <1>2 DEF LinkInv, ClockInv, bVars
  <1>6. ChannelInv'
    <2>1. SA!SentBy(ab', "a") /\ SA!Stamped(ab', Stamps)
      <3>1. aCall = "status" => SA!TimeStamp(aTime) \in Stamps
        BY FactsOfA DEF LinkInv, ClockInv
      <3>2. QED
        BY <3>1, FactsOfA, ServerConstants, SA!OutputStep DEF LinkInv, ChannelInv
    <2>2. SA!SentBy(ba', "b") /\ SA!Stamped(ba', Stamps)
      BY <1>3, FactsOfA, TailWithin, WithinSound DEF LinkInv, ChannelInv
    <2>3. Stamps' = Stamps
      BY <1>2 DEF Stamps, SA!TimeStamp
    <2>4. QED
      BY <2>1, <2>2, <2>3 DEF ChannelInv, SA!SentBy, SA!Stamped, SA!StampId
  <1>7. ClientInv'
    <2>1. SUFFICES ASSUME NEW id \in DOMAIN aClients'
                   PROVE  /\ aClients'[id].outgoingAddress = "b"
                          /\ aClients'[id].pingPeriod = SA!PingPeriodOf(Timeout)
                          /\ aClients'[id].timeoutPeriod = SA!TimeoutPeriodOf(Timeout)
                          /\ aClients'[id].ping % TimeStampModulus <= now - StartTime
      BY <1>2 DEF ClientInv, SA!PingPeriodOf, SA!TimeoutPeriodOf
    <2>2. (id \in SA!Referenced /\ SA!ClientStep(id)) \/ SA!Created(id)
      BY FactsOfA, ServerConstants, SA!HeapStep DEF SA!Next
    <2>3. CASE id \in SA!Referenced /\ SA!ClientStep(id)
      <3>1. /\ aClients'[id].outgoingAddress = aClients[id].outgoingAddress
            /\ aClients'[id].pingPeriod = aClients[id].pingPeriod
            /\ aClients'[id].timeoutPeriod = aClients[id].timeoutPeriod
            /\ \/ aClients'[id].ping = aClients[id].ping
               \/ SA!Refreshed(id) /\ aClients'[id].ping = aTime - SA!Incoming.word
        BY <2>3, FactsOfA, ServerConstants, SA!FixedFields
      <3>2. QED
        BY <2>3, <3>1, FactsOfA, RefreshedPing DEF LinkInv, ClientInv
    <2>4. CASE SA!Created(id)
      <3>1. PICK address \in {"a", "b"}, timeout \in {Timeout} :
               aClients'[id] = SA!StartConnecting(
                  SA!NewClient(address, SA!PingPeriodOf(timeout), SA!TimeoutPeriodOf(timeout)), now)
        BY <2>4 DEF SA!Created
      <3>2. /\ aClients'[id].pingPeriod = SA!PingPeriodOf(Timeout)
            /\ aClients'[id].timeoutPeriod = SA!TimeoutPeriodOf(Timeout)
            /\ aClients'[id].ping = 0
        BY <3>1 DEF SA!StartConnecting, SA!NewClient
      <3>3. 0 % TimeStampModulus <= now - StartTime
        BY LinkAssumption DEF LinkInv, ClockInv
      <3>4. QED
        BY <2>4, <3>2, <3>3
    <2>5. QED
      BY <2>2, <2>3, <2>4
  <1>8. QED
    BY <1>1, <1>4, <1>5, <1>6, <1>7 DEF LinkInv

\* AConnects, ADisconnects, ASends and AProcesses are steps of the server A.
LEMMA ActionsOfA ==
    ASSUME LinkInv, AConnects \/ ADisconnects \/ ASends \/ AProcesses
    PROVE  (SA!Application \/ SA!ProcessEvents) /\ LinkInv'
  <1>1. CASE AConnects
    <2>1. SA!TryConnect("b", Timeout) /\ UNCHANGED bVars
      BY <1>1, SameServerA DEF AConnects
    <2>2. SA!Application
      BY <2>1 DEF SA!Application
    <2>3. ASSUME NEW id \in DOMAIN aClients', SA!Created(id)
          PROVE  aClients'[id].outgoingAddress = "b"
      <3>1. id = aIdCounter + 1
        BY <2>3 DEF SA!Created
      <3>2. aClients'[id] = SA!StartConnecting(
              SA!NewClient("b", SA!PingPeriodOf(Timeout), SA!TimeoutPeriodOf(Timeout)), now)
        BY <2>1, <3>1 DEF SA!TryConnect
      <3>3. QED
        BY <3>2 DEF SA!StartConnecting, SA!NewClient
    <2>4. QED
      BY <1>1, <2>1, <2>2, <2>3, StepOfA DEF AConnects, history, LinkInv
  <1>2. ASSUME aIdCounter' = aIdCounter
        PROVE  \A id : ~SA!Created(id)
    BY <1>2, FactsOfA DEF SA!Created, SA!TryConnect, SA!TypeOK
  <1>3. CASE ADisconnects
    <2>1. PICK id \in 1..aIdCounter : SA!DisconnectConnected(id) \/ SA!DisconnectPending(id)
      BY <1>3, SameServerA DEF ADisconnects
    <2>2. SA!Application /\ aIdCounter' = aIdCounter /\ UNCHANGED bVars
      BY <1>3, <2>1 DEF SA!Application, SA!DisconnectConnected, SA!DisconnectPending, ADisconnects
    <2>3. QED
      BY <1>2, <1>3, <2>2, StepOfA DEF ADisconnects, history, LinkInv
  <1>4. CASE ASends
    <2>1. PICK id \in aClientsById : A!SendReliableMessage(id, accepted + 1)
      BY <1>4 DEF ASends
    <2>2. SA!SendReliableMessage(id, accepted + 1) /\ UNCHANGED bVars
      BY <1>4, <2>1, SameServerA DEF ASends
    <2>3. accepted + 1 \in Message
      BY <1>4, LinkAssumption DEF ASends, LinkInv, Message
    <2>4. SA!Application /\ aIdCounter' = aIdCounter
      BY <2>2, <2>3 DEF SA!Application, SA!SendReliableMessage, SA!registry
    <2>5. QED
      BY <1>2, <1>4, <2>2, <2>4, StepOfA DEF ASends, LinkInv
  <1>5. CASE AProcesses
    <2>1. SA!ProcessEvents /\ UNCHANGED bVars
      BY <1>5, SameServerA DEF AProcesses
    <2>2. aIdCounter' = aIdCounter
      BY <2>1, ServerConstants, SA!InboxStep
    <2>3. QED
      BY <1>2, <1>5, <2>1, <2>2, StepOfA DEF AProcesses, LinkInv
  <1>6. QED
    BY <1>1, <1>3, <1>4, <1>5

-----------------------------------------------------------------------------
(* The steps of server B.                                                   *)

\* A step that A takes no part in is a step of A's environment.
LEMMA OtherThanA ==
    ASSUME LinkInv, UNCHANGED aVars, now' \in Nat \ {0},
           ab' \in Seq(SA!Datagram), ba' \in Seq(SA!Datagram)
    PROVE  SA!Environment /\ SA!TypeOK' /\ SA!ViewInv' /\ SA!MapsMatch'
  <1>1. SA!Environment
    BY DEF SA!Environment, aVars, SA!registry, SA!frame
  <1>2. QED
    BY <1>1, FactsOfA, ServerConstants, SA!TypeStep, SA!ViewStep, SA!MapsStep DEF SA!Next

\* B's call of udcProcessEvents keeps the invariant.
LEMMA StepOfB ==
    ASSUME LinkInv, BProcesses
    PROVE  LinkInv' /\ SA!Environment
  <1>1. SB!ProcessEvents /\ UNCHANGED aVars
    BY SameServerB DEF BProcesses
  <1>2. SB!TypeOK'
    BY <1>1, ServerConstants, SB!TypeStep DEF LinkInv, SB!Next
  <1>3. bClientsById = {}
    BY DEF LinkInv, SB!TypeOK
  <1>4. /\ now' = now
        /\ \/ bCall' = "idle"
           \/ bCall' = "status" => bClientsById # {}
           \/ bCall' = "status" => bCall = "status"
    BY <1>1, ServerConstants, SB!FrameStep
  <1>5. ab' = ab \/ (ab # << >> /\ ab' = Tail(ab))
    BY <1>1, ServerConstants, SB!InboxStep
  <1>6. ClockInv'
    BY <1>1, <1>3, <1>4 DEF LinkInv, ClockInv, aVars
  <1>7. ab' \in Seq(SA!Datagram) /\ ba' \in Seq(SA!Datagram)
    BY <1>2, SameDatagrams DEF SB!TypeOK
  <1>8. SA!Environment /\ SA!TypeOK' /\ SA!ViewInv' /\ SA!MapsMatch'
    BY <1>1, <1>4, <1>7, FactsOfA, OtherThanA
  <1>9. ChannelInv'
    <2>1. SA!SentBy(ba', "b") /\ SA!Stamped(ba', Stamps)
      BY <1>1, SameDatagrams, ServerConstants, SB!OutputStep DEF LinkInv, ClockInv, ChannelInv
    <2>2. SA!SentBy(ab', "a") /\ SA!Stamped(ab', Stamps)
      BY <1>5, FactsOfA, TailWithin, WithinSound DEF LinkInv, ChannelInv
    <2>3. Stamps' = Stamps
      BY <1>4 DEF Stamps, SA!TimeStamp
    <2>4. QED
      BY <2>1, <2>2, <2>3 DEF ChannelInv, SA!SentBy, SA!Stamped, SA!StampId
  <1>10. ClientInv'
    BY <1>1, <1>4 DEF LinkInv, ClientInv, aVars, SA!PingPeriodOf, SA!TimeoutPeriodOf
  <1>11. QED
    BY <1>2, <1>6, <1>8, <1>9, <1>10 DEF LinkInv, BProcesses

\* A restart of B keeps the invariant: B has forgotten only what it may forget.
LEMMA RestartOfB ==
    ASSUME LinkInv, BRestarts
    PROVE  LinkInv' /\ UNCHANGED <<now, ab, ba, aVars>>
  <1>1. UNCHANGED <<now, ab, ba, aVars, accepted>>
    BY DEF BRestarts
  <1>2. SA!TypeOK' /\ SA!ViewInv' /\ SA!MapsMatch'
    BY <1>1, FactsOfA, OtherThanA
  <1>3. SB!TypeOK'
    <2>1. bReliableStates' \in [{"a", "b"} -> {SB!NotInHash, 0, 1}] /\ bEvent' = SB!NoEvent
      BY SameServerB DEF BRestarts
    <2>2. SB!Referenced' = SB!Referenced /\ SB!Event' = SB!Event
      BY DEF BRestarts, SB!Referenced, SB!Event, SB!NoEvent, SB!ConnectionEventType
    <2>3. bSigDirty' \in 0..SB!SignatureSize
      BY DEF BRestarts, SB!SignatureSize
    <2>4. SB!Client' = SB!Client /\ SB!NoEvent \in SB!Event
      BY DEF SB!Client, SB!Event
    <2>5. QED
      BY <1>1, <2>1, <2>2, <2>3, <2>4 DEF BRestarts, LinkInv, SB!TypeOK
  <1>4. ClockInv' /\ ClientInv'
    BY <1>1 DEF BRestarts, LinkInv, ClockInv, ClientInv, aVars
  <1>5. Stamps' = Stamps
    BY <1>1 DEF Stamps
  <1>6. ChannelInv'
    BY <1>1, <1>5 DEF LinkInv, ChannelInv
  <1>7. QED
    BY <1>1, <1>2, <1>3, <1>4, <1>6 DEF LinkInv

-----------------------------------------------------------------------------
(* The network and the clock.                                               *)

\* A step of the network changes nothing but the channels, and invents nothing.
NetworkStep ==
    /\ UNCHANGED <<now, aVars, bVars, history>>
    /\ ab' \in Seq(SA!Datagram) /\ Within(ab', ab)
    /\ ba' \in Seq(SA!Datagram) /\ Within(ba', ba)

\* Loss, duplication and reordering are such steps.
LEMMA NetworkActions ==
    ASSUME LinkInv, Lose \/ Duplicate \/ Reorder
    PROVE  NetworkStep
  <1>1. ab \in Seq(SA!Datagram) /\ Within(ab, ab) /\ ba \in Seq(SA!Datagram) /\ Within(ba, ba)
    BY FactsOfA DEF Within
  <1>2. CASE Lose
    BY <1>1, <1>2, TailWithin DEF Lose, NetworkStep
  <1>3. CASE Duplicate
    BY <1>1, <1>3, InsertWithin DEF Duplicate, NetworkStep
  <1>4. CASE Reorder
    BY <1>1, <1>4, RemoveWithin DEF Reorder, NetworkStep
  <1>5. QED
    BY <1>2, <1>3, <1>4

\* ... and keep the invariant.
LEMMA StepOfNetwork ==
    ASSUME LinkInv, NetworkStep
    PROVE  LinkInv' /\ SA!Environment
  <1>1. SA!Environment /\ SA!TypeOK' /\ SA!ViewInv' /\ SA!MapsMatch'
    BY FactsOfA, OtherThanA DEF NetworkStep
  <1>2. SB!TypeOK'
    BY FactsOfA, OtherThanB DEF NetworkStep, LinkInv
  <1>3. ClockInv' /\ ClientInv' /\ accepted' = accepted
    BY DEF NetworkStep, LinkInv, ClockInv, ClientInv, aVars, bVars, history
  <1>4. Stamps' = Stamps
    BY DEF NetworkStep, Stamps
  <1>5. ChannelInv'
    BY <1>4, WithinSound DEF NetworkStep, LinkInv, ChannelInv
  <1>6. QED
    BY <1>1, <1>2, <1>3, <1>5 DEF LinkInv

\* A stamp that grows older where time is endless is still a time.
LEMMA OlderType ==
    ASSUME Endless, NEW stamp \in Nat, NEW period \in Nat, period <= Timeout
    PROVE  Older(stamp, period) \in Nat
  BY LinkAssumption DEF Older

\* Five times of a client change, and nothing else.
LEMMA AgedClient ==
    ASSUME Endless, NEW c \in SA!Client, c.pingPeriod = SA!PingPeriodOf(Timeout),
           c.timeoutPeriod = SA!TimeoutPeriodOf(Timeout)
    PROVE  /\ Aged(c) \in SA!Client
           /\ Aged(c).outgoingAddress = c.outgoingAddress
           /\ Aged(c).pingPeriod = c.pingPeriod /\ Aged(c).timeoutPeriod = c.timeoutPeriod
           /\ Aged(c).isConnected = c.isConnected /\ Aged(c).ping = c.ping
           /\ Aged(c).reliableState = c.reliableState
           /\ Aged(c).reliableMessages = c.reliableMessages
           /\ Aged(c).reliableSentTime = Older(c.reliableSentTime, c.timeoutPeriod)
  <1>1. /\ c.pingPeriod \in Nat /\ c.timeoutPeriod \in Nat /\ c.pingLastSetTime \in Nat
        /\ c.prevConnectAttemptTime \in Nat /\ c.firstConnectAttemptTime \in Nat
        /\ c.lastReceivedTime \in Nat /\ c.reliableSentTime \in Nat
    BY DEF SA!Client
  <1>2. c.pingPeriod <= Timeout
    BY LinkAssumption DEF SA!PingPeriodOf
  <1>3. c.timeoutPeriod <= Timeout
    <2>1. Timeout \div 10 <= Timeout /\ Timeout \div 10 \in Nat
      BY LinkAssumption
    <2>2. QED
      BY <2>1, LinkAssumption DEF SA!TimeoutPeriodOf
  <1> DEFINE t1 == Older(c.pingLastSetTime, c.pingPeriod)
             t2 == Older(c.prevConnectAttemptTime, c.pingPeriod)
             t3 == Older(c.firstConnectAttemptTime, c.timeoutPeriod)
             t4 == Older(c.lastReceivedTime, c.timeoutPeriod)
             t5 == Older(c.reliableSentTime, c.timeoutPeriod)
  <1>4. t1 \in Nat /\ t2 \in Nat /\ t3 \in Nat /\ t4 \in Nat /\ t5 \in Nat
    BY <1>1, <1>2, <1>3, OlderType
  <1>5. Aged(c) = [c EXCEPT !.pingLastSetTime = t1, !.prevConnectAttemptTime = t2,
                            !.firstConnectAttemptTime = t3, !.lastReceivedTime = t4,
                            !.reliableSentTime = t5]
    BY DEF Aged
  <1> HIDE DEF t1, t2, t3, t4, t5
  <1>6. QED
    BY <1>4, <1>5 DEF SA!Client, t5

\* Time passes for both servers and the datagrams on their way.
LEMMA StepOfClock ==
    ASSUME LinkInv, Tick
    PROVE  LinkInv' /\ aTold' = aTold
  <1>1. /\ UNCHANGED <<ab, ba, aTold, bVars, accepted>> /\ aCall' = aCall /\ aCall = "idle"
    BY DEF Tick, history
  <1>2. CASE now' = now + TickSize /\ UNCHANGED aClients
    <2>1. now' \in Nat \ {0} /\ now <= now'
      BY <1>2, FactsOfA, LinkAssumption
    <2>2. UNCHANGED aVars
      BY <1>2 DEF Tick, aVars
    <2>3. SA!TypeOK' /\ SA!ViewInv' /\ SA!MapsMatch'
      BY <1>1, <2>1, <2>2, FactsOfA, OtherThanA
    <2>4. SB!TypeOK'
      BY <1>1, <2>1, FactsOfA, OtherThanB DEF LinkInv
    <2>5. ClockInv'
      BY <1>1, <2>1, LinkAssumption DEF LinkInv, ClockInv, bVars
    <2>6. \A t \in StartTime..now : t \in StartTime..now'
      BY <2>1, LinkAssumption DEF LinkInv, ClockInv
    <2>7. Stamps \subseteq Stamps'
      BY <2>6 DEF Stamps, SA!TimeStamp
    <2>8. ChannelInv'
      BY <1>1, <2>7 DEF LinkInv, ChannelInv, SA!SentBy, SA!Stamped, SA!StampId
    <2>9. \A id \in DOMAIN aClients : aClients[id].ping % TimeStampModulus \in Int
      <3>1. \A id \in DOMAIN aClients : aClients[id].ping \in Int
        BY FactsOfA, ServerConstants, SA!TypeFacts DEF SA!Client
      <3>2. QED
        BY <3>1, LinkAssumption
    <2>10. now - StartTime <= now' - StartTime /\ now - StartTime \in Int /\ now' - StartTime \in Int
      BY <2>1, FactsOfA, LinkAssumption
    <2>11. ClientInv'
      BY <1>2, <2>9, <2>10
         DEF LinkInv, ClientInv, SA!PingPeriodOf, SA!TimeoutPeriodOf
    <2>12. QED
      BY <1>1, <2>3, <2>4, <2>5, <2>8, <2>11 DEF LinkInv
  <1>3. CASE /\ Endless /\ UNCHANGED now
             /\ aClients' = [id \in DOMAIN aClients |-> Aged(aClients[id])]
    <2>1. /\ UNCHANGED <<aIdCounter, aPendingClients, aClientsById, aClientsByAddress,
                         aReliableStates, aSigDirty, aTime, aTodo, aMsgSize, aEvent>>
      BY DEF Tick
    <2>2. \A id \in SA!Referenced :
             /\ aClients[id] \in SA!Client /\ aClients'[id] = Aged(aClients[id])
             /\ aClients[id].pingPeriod = SA!PingPeriodOf(Timeout)
             /\ aClients[id].timeoutPeriod = SA!TimeoutPeriodOf(Timeout)
      BY <1>3, FactsOfA, ServerConstants, SA!TypeFacts DEF LinkInv, ClientInv
    <2>3. \A id \in SA!Referenced :
             /\ aClients'[id] \in SA!Client
             /\ aClients'[id].outgoingAddress = aClients[id].outgoingAddress
             /\ aClients'[id].pingPeriod = aClients[id].pingPeriod
             /\ aClients'[id].timeoutPeriod = aClients[id].timeoutPeriod
             /\ aClients'[id].isConnected = aClients[id].isConnected
             /\ aClients'[id].ping = aClients[id].ping
      BY <1>3, <2>2, AgedClient
    <2>4. DOMAIN aClients' = DOMAIN aClients /\ SA!Referenced' = SA!Referenced
      BY <1>3, <2>1 DEF SA!Referenced
    <2>5. SA!TypeOK'
      <3>1. aClients' \in [SA!Referenced -> SA!Client]
        BY <1>3, <2>3, FactsOfA
      <3>2. SA!Client' = SA!Client /\ SA!Datagram' = SA!Datagram /\ SA!Event' = SA!Event
        BY <2>1 DEF SA!Client, SA!Datagram, SA!Event
      <3>3. QED
        BY <1>1, <1>3, <2>1, <2>4, <3>1, <3>2 DEF LinkInv, SA!TypeOK
    <2>6. SA!ViewInv'
      <3>1. SA!SameConnections
        BY <2>3, <2>4, FactsOfA DEF SA!SameConnections
      <3>2. QED
        BY <1>1, <2>1, <3>1, FactsOfA, ServerConstants, SA!QuietStep DEF SA!registry
    <2>7. SA!MapsMatch'
      <3>1. aClientsById \subseteq SA!Referenced
        BY FactsOfA, ServerConstants, SA!TypeFacts
      <3>2. QED
        BY <2>1, <2>3, <3>1, FactsOfA DEF SA!MapsMatch
    <2>8. SB!TypeOK'
      BY <1>1, <1>3, FactsOfA, OtherThanB DEF LinkInv
    <2>9. ClockInv' /\ ClientInv'
      <3>1. ClockInv'
        BY <1>1, <1>3 DEF LinkInv, ClockInv, bVars
      <3>2. DOMAIN aClients = SA!Referenced /\ ClientInv
        BY FactsOfA DEF LinkInv
      <3>3. ClientInv'
        BY <1>3, <2>3, <2>4, <3>2 DEF ClientInv, SA!PingPeriodOf, SA!TimeoutPeriodOf
      <3>4. QED
        BY <3>1, <3>3
    <2>10. Stamps' = Stamps
      BY <1>3 DEF Stamps
    <2>11. ChannelInv'
      BY <1>1, <2>10 DEF LinkInv, ChannelInv
    <2>12. QED
      BY <1>1, <2>5, <2>6, <2>7, <2>8, <2>9, <2>11 DEF LinkInv
  <1>4. QED
    BY <1>1, <1>2, <1>3 DEF Tick

-----------------------------------------------------------------------------
(* The theorems.                                                            *)

\* Both servers start in the invariant.
LEMMA InitLink == ASSUME Init PROVE LinkInv
  <1>1. SA!Init /\ SB!Init
    BY SameServerA, SameServerB DEF Init
  <1>2. SA!TypeOK /\ SA!ViewInv /\ SB!TypeOK
    BY <1>1, ServerConstants, SA!InitTypeOK, SA!InitView, SB!InitTypeOK
  <1>3. SA!MapsMatch
    BY <1>1 DEF SA!Init, SA!MapsMatch
  <1>4. /\ now = StartTime /\ ab = << >> /\ ba = << >> /\ aClients = << >>
        /\ aCall = "idle" /\ bCall = "idle" /\ accepted = 0
    BY <1>1 DEF SA!Init, SB!Init, Init
  <1>5. ClockInv /\ ClientInv
    BY <1>4, LinkAssumption DEF ClockInv, ClientInv
  <1>6. ChannelInv
    BY <1>4 DEF ChannelInv, SA!SentBy, SA!Stamped
  <1>7. QED
    BY <1>2, <1>3, <1>4, <1>5, <1>6 DEF LinkInv

\* Every step is a step of A, of A's environment, or leaves what A has told its application.
LEMMA LinkStep ==
    ASSUME LinkInv, [Next]_vars
    PROVE  LinkInv' /\ ([SA!Next]_(SA!vars) \/ aTold' = aTold)
  <1>1. CASE AConnects \/ ADisconnects \/ ASends \/ AProcesses
    BY <1>1, ActionsOfA DEF SA!Next
  <1>2. CASE BProcesses
    BY <1>2, StepOfB DEF SA!Next
  <1>3. CASE BRestarts
    BY <1>3, RestartOfB DEF aVars
  <1>4. CASE Lose \/ Duplicate \/ Reorder
    BY <1>4, NetworkActions, StepOfNetwork DEF SA!Next
  <1>5. CASE Tick
    BY <1>5, StepOfClock
  <1>6. CASE UNCHANGED vars
    <2>1. NetworkStep /\ aTold' = aTold
      BY <1>6, FactsOfA DEF vars, aVars, NetworkStep, Within
    <2>2. QED
      BY <2>1, StepOfNetwork
  <1>7. QED
    BY <1>1, <1>2, <1>3, <1>4, <1>5, <1>6 DEF Next

\* In whatever way the network treats the datagrams, both servers stay well typed, A's two
\* maps and its application's view agree, and every channel holds only what its end has sent.
THEOREM LinkInvariant == Spec => []LinkInv
  <1>1. Init => LinkInv
    BY InitLink
  <1>2. LinkInv /\ [Next]_vars => LinkInv'
    BY LinkStep
  <1>3. QED
    BY <1>1, <1>2, PTL DEF Spec

\* m_clientsByAddress stays the inverse of m_clientsById, through reconnects, late and
\* repeated handshakes.
THEOREM AddressMapCorrect == Spec => []AddressMapMatches
  <1>1. LinkInv => AddressMapMatches
    <2>1. ASSUME LinkInv PROVE AddressMapMatches
      BY <2>1, SameServerA DEF LinkInv, SA!MapsMatch, AddressMapMatches
    <2>2. QED
      BY <2>1
  <1>2. QED
    BY <1>1, LinkInvariant, PTL

\* No datagram that is still on its way makes A report on an end point that its application
\* has disconnected.
THEOREM DisconnectsAreFinal == Spec => DisconnectIsFinal
  <1>1. LinkInv /\ [Next]_vars => [SA!FinalStep]_vars
    <2>1. SUFFICES ASSUME LinkInv, [Next]_vars PROVE SA!FinalStep
      OBVIOUS
    <2>2. CASE [SA!Next]_(SA!vars)
      BY <2>1, <2>2, FactsOfA, ServerConstants, SA!FinalityStep
    <2>3. CASE aTold' = aTold
      BY <2>3 DEF SA!FinalStep
    <2>4. QED
      BY <2>1, <2>2, <2>3, LinkStep
  <1>2. QED
    BY <1>1, LinkInvariant, PTL DEF Spec, DisconnectIsFinal, SA!FinalStep

\* The ping that udcGetStatus reports never exceeds the age of the server, although only the
\* low bits of a time stamp travel: whatever the modulus, and however late or often a pong
\* arrives.
THEOREM PingsPlausible == Spec => []PingPlausible
  <1>1. LinkInv => PingPlausible
    <2>1. SUFFICES ASSUME LinkInv, NEW id \in 1..aIdCounter, NEW status \in SA!GetStatus(id),
                          status.connected
                   PROVE  status.ping <= now - StartTime
      BY SameServerA DEF PingPlausible
    <2>2. id \in aClientsById /\ status.ping = aClients[id].ping % TimeStampModulus
      <3>1. CASE id \in aClientsById /\ aClients[id].isConnected
        BY <3>1 DEF SA!GetStatus
      <3>2. CASE ~(id \in aClientsById /\ aClients[id].isConnected)
        BY <2>1, <3>2 DEF SA!GetStatus
      <3>3. QED
        BY <3>1, <3>2
    <2>3. id \in DOMAIN aClients
      BY <2>1, <2>2, FactsOfA, ServerConstants, SA!TypeFacts
    <2>4. QED
      BY <2>1, <2>2, <2>3 DEF LinkInv, ClientInv
  <1>2. QED
    BY <1>1, LinkInvariant, PTL
=============================================================================
