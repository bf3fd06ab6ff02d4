------------------------- MODULE UdcSocketMuxProofs -------------------------
(***************************************************************************)
(* What UdcSocketMux promises, for any sockets bound at any time and any   *)
(* arrivals.  NullptrMeansAllHeard rests on what is known of the sockets   *)
(* that the running scan has passed (PassedAreHeard), OneSourcePerFamily   *)
(* on which socket was used for sending (SentFromFront); both need the     *)
(* types (MuxTypeOK) and that a scan never leaves the list of sockets      *)
(* (ScanInv).  The steps of the server are those of UdcServer by           *)
(* construction, and what the sockets add hands over datagrams, as the     *)
(* environment of UdcServer does: MuxIsServer carries the theorems about   *)
(* UdcServer over.                                                         *)
(***************************************************************************)
EXTENDS UdcSocketMux, UdcServerTypeProofs

\* The variables of the sockets have their types.
MuxTypeOK ==
    /\ socketIPv4 \in Seq({"IPv4"} \X Port)
    /\ socketIPv6 \in Seq({"IPv6"} \X Port)
    /\ waiting \in [Socket -> Seq(Datagram)]
    /\ tried \in Nat
    /\ sentFrom \in [Family -> SUBSET Socket]

\* The running scan is at one of the sockets or behind the last one; between scans it is
\* reset.  recvfrom hands over one datagram at a time, and only to a running scan.
ScanInv ==
    /\ tried <= Len(ScanOrder)
    /\ call # "receive" => tried = 0
    /\ inbox # << >> => call = "receive" /\ tried < Len(ScanOrder) /\ Len(inbox) = 1

\* What was sent to a family left by the socket of that family that was bound first.
SentFromFront == \A f \in Family : sentFrom[f] \subseteq SendingSocket(f)

\* A socket that the running scan has passed holds nothing, unless there is an excuse.
PassedAreHeard ==
    \A i \in 1..tried : waiting[ScanOrder[i]] = << >> \/ ScanOrder[i] \in excused

MuxInv == MuxTypeOK /\ ScanInv /\ SentFromFront

\* Where receive() looks for a datagram is a socket.
LEMMA ScanOrderType ==
    ASSUME MuxTypeOK
    PROVE  /\ ScanOrder \in Seq(Socket)
           /\ Len(ScanOrder) \in Nat
           /\ \A i \in 1..Len(ScanOrder) : ScanOrder[i] \in Socket
           /\ tried < Len(ScanOrder) => Trying \in Socket
  <1>1. socketIPv4 \in Seq(Socket) /\ socketIPv6 \in Seq(Socket)
    BY DEF MuxTypeOK, Socket, Family
  <1>2. ScanOrder \in Seq(Socket)
    BY <1>1 DEF ScanOrder
  <1>3. QED
    BY <1>2 DEF Trying, MuxTypeOK

\* Every step of the server with its sockets is a step of UdcServer or changes none of its
\* variables.
LEMMA MuxStepRefines ==
    ASSUME TypeOK, MuxInv, [MuxNext]_muxVars
    PROVE  [Next]_vars
  <1>1. /\ now \in Nat \ {0} /\ inbox \in Seq(Datagram) /\ outbox \in Seq(Datagram)
        /\ tried \in Nat
    BY DEF TypeOK, MuxInv, MuxTypeOK
  <1>2. CASE Send
    <2>1. outbox' \in Seq(Datagram)
      BY <1>1, <1>2 DEF Send
    <2>2. Environment
      BY <1>1, <1>2, <2>1 DEF Send, Environment
    <2>3. QED
      BY <2>2 DEF Next
  <1>3. CASE Recvfrom
    <2>1. Trying \in Socket
      BY <1>3, ScanOrderType DEF Recvfrom, MuxInv
    <2>2. waiting[Trying] \in Seq(Datagram) /\ waiting[Trying] # << >>
      BY <1>3, <2>1 DEF Recvfrom, MuxInv, MuxTypeOK
    <2>3. inbox' \in Seq(Datagram)
      <3>1. Head(waiting[Trying]) \in Datagram
        BY <2>2
      <3>2. QED
        BY <1>3, <3>1 DEF Recvfrom
    <2>4. Environment
      BY <1>1, <1>3, <2>3 DEF Recvfrom, Environment
    <2>5. QED
      BY <2>4 DEF Next
  <1>4. CASE RecvfromNothing
    BY <1>4 DEF RecvfromNothing
  <1>5. CASE ReceiveOne
    BY <1>5 DEF ReceiveOne, Next, ProcessEvents, ReceiveMessages
  <1>6. CASE ReceiveEnds
    BY <1>6 DEF ReceiveEnds, Next, ProcessEvents, ReceiveMessages
  <1>7. CASE UpdatePendingClients \/ \E id \in todo : UpdateClientStatus(id)
    BY <1>7 DEF Next, ProcessEvents
  <1>8. CASE Application
    BY <1>8 DEF Next
  <1>9. ASSUME NEW port \in Port, TryBindIPv4(port) \/ TryBindIPv6(port) PROVE [Next]_vars
    BY <1>9 DEF TryBindIPv4, TryBindIPv6
  <1>10. ASSUME NEW s \in Socket, NEW d \in Datagram, Arrive(s, d) PROVE [Next]_vars
    BY <1>10 DEF Arrive
  <1>11. ASSUME NEW t \in Nat \ {0}, SetClock(t) PROVE [Next]_vars
    <2>1. Environment
      BY <1>1, <1>11 DEF SetClock, Environment
    <2>2. QED
      BY <2>1 DEF Next
  <1>12. CASE UNCHANGED muxVars
    BY <1>12 DEF muxVars
  <1>13. QED
    BY <1>2, <1>3, <1>4, <1>5, <1>6, <1>7, <1>8, <1>9, <1>10, <1>11, <1>12
       DEF MuxNext, CallStep, Receive, MuxApplication

\* Reading a datagram, whatever comes of it, happens in a scan and takes it off the socket.
LEMMA ReceiveConsumes ==
    /\ ReceiveDatagram => call = "receive" /\ inbox' = Tail(inbox)
    /\ ReceiveFailsOver => call = "receive" /\ inbox' = Tail(inbox) /\ call' = call
    /\ ReceiveFails => call = "receive" /\ inbox' = Tail(inbox)
  <1>1. ReceiveDatagram => call = "receive" /\ inbox' = Tail(inbox)
    BY DEF ReceiveDatagram, ReceiveShort, ReceiveForeign, ReceiveMalformed, ReceiveSigned, Receives,
           ProcessConnectionRequest, ProcessConnectionHandshake, ProcessPing, ProcessPong,
           ProcessUnreliable, ProcessReliableReset, ProcessReliableMessage,
           ProcessReliableHandshake
  <1>2. QED
    BY <1>1 DEF ReceiveFailsOver, ReceiveFails, ReceiveRefused

\* The steps of the server outside a scan leave the inbox alone.
LEMMA OutsideScan ==
    ASSUME Application \/ UpdatePendingClients \/ \E id \in todo : UpdateClientStatus(id)
    PROVE  call # "receive" /\ inbox' = inbox
  BY DEF Application, TryConnect, DisconnectConnected, DisconnectPending, SendUnreliableMessage,
         SendReliableMessage, UpdatePendingClients, PendingTimeout, PendingAttempt, PendingWait,
         UpdateClientStatus, environment

\* push_back does not change what is at the front.
LEMMA AppendFront ==
    ASSUME NEW S, NEW s \in Seq(S), NEW e \in S
    PROVE  /\ Append(s, e) \in Seq(S)
           /\ Append(s, e) # << >>
           /\ s # << >> => Head(Append(s, e)) = Head(s)
  BY AppendProperties, HeadTailAppend

\* A socket that is bound later is behind the ones that were there: the front of each list
\* does not change any more, and the scan order only grows.
LEMMA BindStep ==
    ASSUME MuxInv, NEW port \in Port, TryBindIPv4(port) \/ TryBindIPv6(port)
    PROVE  MuxInv'
  <1>1. /\ socketIPv4 \in Seq({"IPv4"} \X Port) /\ socketIPv6 \in Seq({"IPv6"} \X Port)
        /\ <<"IPv4", port>> \in {"IPv4"} \X Port /\ <<"IPv6", port>> \in {"IPv6"} \X Port
    BY DEF MuxInv, MuxTypeOK
  <1>2. \/ socketIPv4' = Append(socketIPv4, <<"IPv4", port>>) /\ socketIPv6' = socketIPv6
        \/ socketIPv6' = Append(socketIPv6, <<"IPv6", port>>) /\ socketIPv4' = socketIPv4
    BY DEF TryBindIPv4, TryBindIPv6
  <1>3. UNCHANGED <<waiting, tried, sentFrom, call, inbox>> /\ call = "idle"
    BY DEF TryBindIPv4, TryBindIPv6, vars, environment, frame
  <1>4. /\ socketIPv4' \in Seq({"IPv4"} \X Port) /\ socketIPv6' \in Seq({"IPv6"} \X Port)
        /\ socketIPv4 # << >> => socketIPv4' # << >> /\ Head(socketIPv4') = Head(socketIPv4)
        /\ socketIPv6 # << >> => socketIPv6' # << >> /\ Head(socketIPv6') = Head(socketIPv6)
    <2>1. CASE socketIPv4' = Append(socketIPv4, <<"IPv4", port>>) /\ socketIPv6' = socketIPv6
      BY <1>1, <2>1, AppendFront
    <2>2. CASE socketIPv6' = Append(socketIPv6, <<"IPv6", port>>) /\ socketIPv4' = socketIPv4
      BY <1>1, <2>2, AppendFront
    <2>3. QED
      BY <1>2, <2>1, <2>2
  <1>5. MuxTypeOK'
    BY <1>3, <1>4 DEF MuxInv, MuxTypeOK
  <1>6. ScanInv'
    <2>1. (Len(ScanOrder) \in Nat)'
      BY <1>5, ScanOrderType, PTL
    <2>2. QED
      BY <1>3, <2>1 DEF MuxInv, ScanInv
  <1>7. SentFromFront'
    BY <1>3, <1>4 DEF MuxInv, SentFromFront, SendingSocket
  <1>8. QED
    BY <1>5, <1>6, <1>7 DEF MuxInv

\* send() uses the front socket of the family, or none.
LEMMA SendStep == ASSUME TypeOK, MuxInv, Send PROVE MuxInv'
  <1> DEFINE g == FamilyOf[Head(outbox).dst]
  <1>1. /\ sentFrom' = [sentFrom EXCEPT ![g] = @ \cup SendingSocket(g)]
        /\ UNCHANGED <<socketIPv4, socketIPv6, waiting, tried, inbox, call>>
    BY DEF Send, frame
  <1>2. g \in Family
    <2>1. Head(outbox) \in Datagram
      BY DEF Send, TypeOK
    <2>2. QED
      BY <2>1, SocketAssumption DEF Datagram
  <1>3. \A f \in Family : SendingSocket(f) \subseteq Socket
    BY DEF SendingSocket, Family, Socket, MuxInv, MuxTypeOK
  <1> HIDE DEF g
  <1>4. MuxTypeOK'
    BY <1>1, <1>2, <1>3 DEF MuxInv, MuxTypeOK
  <1>5. ScanInv'
    BY <1>1 DEF MuxInv, ScanInv, ScanOrder
  <1>6. SentFromFront'
    <2>1. \A f \in Family : SendingSocket(f)' = SendingSocket(f)
      BY <1>1 DEF SendingSocket
    <2>2. \A f \in Family : sentFrom'[f] \subseteq sentFrom[f] \cup SendingSocket(f)
      BY <1>1, <1>2 DEF MuxInv, MuxTypeOK
    <2>3. QED
      BY <2>1, <2>2 DEF MuxInv, SentFromFront
  <1>7. QED
    BY <1>4, <1>5, <1>6 DEF MuxInv

\* Steps that bind and send nothing.
LEMMA UnboundStep ==
    ASSUME MuxInv, UNCHANGED <<socketIPv4, socketIPv6, sentFrom>>,
           waiting' \in [Socket -> Seq(Datagram)], tried' \in 0..Len(ScanOrder),
           call' # "receive" => tried' = 0,
           inbox' # << >> => call' = "receive" /\ tried' < Len(ScanOrder) /\ Len(inbox') = 1
    PROVE  MuxInv'
  <1>1. ScanOrder' = ScanOrder /\ \A f \in Family : SendingSocket(f)' = SendingSocket(f)
    BY DEF ScanOrder, SendingSocket
  <1>2. Len(ScanOrder) \in Nat
    BY ScanOrderType DEF MuxInv
  <1>3. MuxTypeOK'
    BY <1>2 DEF MuxInv, MuxTypeOK
  <1>4. ScanInv'
    BY <1>1, <1>2 DEF ScanInv
  <1>5. SentFromFront'
    BY <1>1 DEF MuxInv, SentFromFront
  <1>6. QED
    BY <1>3, <1>4, <1>5 DEF MuxInv

\* One socket of a scan: recvfrom finds a datagram, or not; the server handles it, or the
\* scan goes on, or ends.
LEMMA ReceiveStep == ASSUME TypeOK, MuxInv, Receive PROVE MuxInv'
  <1>1. /\ Len(ScanOrder) \in Nat /\ tried \in 0..Len(ScanOrder)
        /\ waiting \in [Socket -> Seq(Datagram)]
    BY ScanOrderType DEF MuxInv, MuxTypeOK, ScanInv
  <1>2. CASE Recvfrom
    <2>1. Trying \in Socket /\ waiting[Trying] # << >>
      BY <1>2, ScanOrderType DEF Recvfrom, MuxInv
    <2>2. waiting' \in [Socket -> Seq(Datagram)]
      BY <1>1, <1>2, <2>1 DEF Recvfrom
    <2>3. tried' = tried /\ call = "receive" /\ call' = call /\ tried < Len(ScanOrder)
          /\ Len(inbox') = 1 /\ UNCHANGED <<socketIPv4, socketIPv6, sentFrom>>
      BY <1>2 DEF Recvfrom, frame
    <2>4. QED
      BY <1>1, <2>2, <2>3, UnboundStep
  <1>3. CASE RecvfromNothing
    <2>1. /\ tried' = tried + 1 /\ tried < Len(ScanOrder) /\ call = "receive" /\ call' = call
          /\ inbox = << >> /\ inbox' = inbox /\ UNCHANGED <<socketIPv4, socketIPv6, waiting, sentFrom>>
      BY <1>3 DEF RecvfromNothing, vars, environment, frame
    <2>2. QED
      BY <1>1, <2>1, UnboundStep
  <1>4. CASE ReceiveOne
    <2>1. inbox # << >> /\ UNCHANGED <<socketIPv4, socketIPv6, waiting, sentFrom>>
      BY <1>4 DEF ReceiveOne
    <2>2. Len(inbox) = 1 /\ tried < Len(ScanOrder)
      BY <2>1 DEF MuxInv, ScanInv
    <2>3. Tail(inbox) = << >>
      <3>1. inbox \in Seq(Datagram)
        BY DEF TypeOK
      <3>2. Tail(inbox) \in Seq(Datagram) /\ Len(Tail(inbox)) = 0
        BY <2>1, <2>2, <3>1, HeadTailProperties
      <3>3. QED
        BY <3>2, EmptySeq
    <2>4. inbox' = << >>
      BY <1>4, <2>3, ReceiveConsumes DEF ReceiveOne
    <2>5. tried' = 0 \/ (tried' = tried + 1 /\ call' = "receive")
      BY <1>4, ReceiveConsumes DEF ReceiveOne
    <2>6. QED
      BY <1>1, <2>1, <2>2, <2>4, <2>5, UnboundStep
  <1>5. CASE ReceiveEnds
    <2>1. /\ tried' = 0 /\ inbox = << >> /\ inbox' = inbox
          /\ UNCHANGED <<socketIPv4, socketIPv6, waiting, sentFrom>>
      BY <1>5 DEF ReceiveEnds, ReceiveNothing, environment
    <2>2. QED
      BY <1>1, <2>1, UnboundStep
  <1>6. QED
    BY <1>2, <1>3, <1>4, <1>5 DEF Receive

\* Every step of the server with its sockets preserves MuxInv.
LEMMA MuxInvStep ==
    ASSUME TypeOK, MuxInv, [MuxNext]_muxVars PROVE MuxInv'
  <1>1. /\ Len(ScanOrder) \in Nat /\ tried \in 0..Len(ScanOrder)
        /\ waiting \in [Socket -> Seq(Datagram)]
    BY ScanOrderType DEF MuxInv, MuxTypeOK, ScanInv
  <1>2. CASE (\/ Application \/ UpdatePendingClients
              \/ \E id \in todo : UpdateClientStatus(id)) /\ UNCHANGED sockets
    <2>1. call # "receive" /\ inbox' = inbox
      BY <1>2, OutsideScan
    <2>2. tried = 0 /\ inbox = << >>
      BY <2>1 DEF MuxInv, ScanInv
    <2>3. QED
      BY <1>1, <1>2, <2>1, <2>2, UnboundStep DEF sockets
  <1>3. ASSUME NEW s \in Socket, NEW d \in Datagram, Arrive(s, d) PROVE MuxInv'
    <2>1. waiting' \in [Socket -> Seq(Datagram)]
      BY <1>1, <1>3 DEF Arrive
    <2>2. UNCHANGED <<socketIPv4, socketIPv6, tried, sentFrom, call, inbox>>
      BY <1>3 DEF Arrive, vars, environment, frame
    <2>3. QED
      BY <1>1, <2>1, <2>2, UnboundStep DEF MuxInv, ScanInv
  <1>4. CASE UNCHANGED <<sockets, call, inbox>>
    BY <1>1, <1>4, UnboundStep DEF sockets, MuxInv, ScanInv
  <1>5. ASSUME NEW t \in Nat \ {0}, SetClock(t) PROVE MuxInv'
    BY <1>4, <1>5 DEF SetClock, frame
  <1>6. CASE UNCHANGED muxVars
    BY <1>4, <1>6 DEF muxVars, vars, frame, environment
  <1>7. QED
    BY <1>2, <1>3, <1>5, <1>6, SendStep, ReceiveStep, BindStep DEF MuxNext, CallStep, MuxApplication

\* Nothing is bound at first.
LEMMA InitMux == ASSUME MuxInit PROVE TypeOK /\ MuxInv
  <1>1. TypeOK
    BY InitTypeOK DEF MuxInit
  <1>2. socketIPv4 \o socketIPv6 = << >> /\ socketIPv6 \o socketIPv4 = << >>
    BY DEF MuxInit
  <1>3. MuxInv
    BY <1>2 DEF MuxInit, Init, MuxInv, MuxTypeOK, ScanInv, ScanOrder, SentFromFront, Family, Socket
  <1>4. QED
    BY <1>1, <1>3

\* The types, the position of the scan and the choice of the sending socket, whatever is
\* bound and whatever arrives.
THEOREM MuxInvariant == MuxSpec => [](TypeOK /\ MuxInv)
  <1>1. MuxInit => TypeOK /\ MuxInv
    BY InitMux
  <1>2. (TypeOK /\ MuxInv) /\ [MuxNext]_muxVars => (TypeOK /\ MuxInv)'
    BY MuxStepRefines, TypeStep, MuxInvStep
  <1>3. QED
    BY <1>1, <1>2, PTL DEF MuxSpec

\* A server with its sockets is a server: what is proved about UdcServer holds whatever is
\* bound, for example that outcomes come in the order of the calls.
LEMMA MuxIsServer == MuxSpec => Spec
  <1>1. MuxInit => Init
    BY DEF MuxInit
  <1>2. TypeOK /\ MuxInv /\ [MuxNext]_muxVars => [Next]_vars
    BY MuxStepRefines
  <1>3. QED
    BY <1>1, <1>2, MuxInvariant, PTL DEF MuxSpec, Spec

\* A datagram that is handled ends the call only with an event.
LEMMA DatagramGivesEvent ==
    ASSUME ReceiveDatagram, call' = "idle"
    PROVE  event' # NoEvent
  <1>1. call = "receive"
    BY ReceiveConsumes
  <1>2. ~KeepReceiving
    BY <1>1 DEF KeepReceiving
  <1>3. \A src, data : ReturnMessage(src, data) => event' # NoEvent
    <2>1. SUFFICES ASSUME NEW src, NEW data, ReturnMessage(src, data) PROVE event' # NoEvent
      OBVIOUS
    <2>2. event'.type = "RECEIVE_MESSAGE"
      BY <2>1 DEF ReturnMessage, EndCall
    <2>3. QED
      BY <2>2 DEF NoEvent
  <1>4. \A type \in ConnectionEventType : \A id :
           ReturnConnectionEvent(type, id) => event' # NoEvent
    <2>1. SUFFICES ASSUME NEW type \in ConnectionEventType, NEW id,
                          ReturnConnectionEvent(type, id)
                   PROVE  event' # NoEvent
      OBVIOUS
    <2>2. event'.type = type
      BY <2>1 DEF ReturnConnectionEvent, EndCall
    <2>3. QED
      BY <2>2 DEF NoEvent, ConnectionEventType
  <1>5. "CONNECTION_SUCCESS" \in ConnectionEventType
        /\ "CONNECTION_REGAINED" \in ConnectionEventType
    BY DEF ConnectionEventType
  <1>6. \A c : RefreshClient(c) => event' # NoEvent
    BY <1>2, <1>4, <1>5 DEF RefreshClient
  <1>7. CASE ReceiveShort \/ ReceiveForeign \/ ReceiveMalformed \/ ProcessConnectionRequest
             \/ ProcessPing \/ ProcessReliableReset
    BY <1>2, <1>7 DEF ReceiveShort, ReceiveForeign, ReceiveMalformed, ProcessConnectionRequest,
                      ProcessPing, ProcessReliableReset
  <1>8. CASE ProcessConnectionHandshake
    BY <1>2, <1>4, <1>5, <1>8 DEF ProcessConnectionHandshake
  <1>9. CASE ProcessPong
    BY <1>2, <1>6, <1>9 DEF ProcessPong
  <1>10. CASE ProcessUnreliable
    BY <1>3, <1>10 DEF ProcessUnreliable
  <1>11. ASSUME NEW state \in {0, 1}, ProcessReliableMessage(state) PROVE event' # NoEvent
    BY <1>2, <1>3, <1>11 DEF ProcessReliableMessage
  <1>12. ASSUME NEW state \in {-1, 0, 1}, ProcessReliableHandshake(state)
         PROVE  event' # NoEvent
    BY <1>2, <1>6, <1>12 DEF ProcessReliableHandshake
  <1>13. QED
    BY <1>7, <1>8, <1>9, <1>10, <1>11, <1>12 DEF ReceiveDatagram

\* Steps that move no socket and take nothing from one that was passed.
LEMMA PassedStable ==
    ASSUME MuxInv, PassedAreHeard, UNCHANGED <<socketIPv4, socketIPv6>>,
           tried' = 0 \/ (tried' = tried /\ UNCHANGED <<waiting, excused>>)
    PROVE  PassedAreHeard'
  <1>1. ScanOrder' = ScanOrder
    BY DEF ScanOrder
  <1>2. QED
    BY <1>1 DEF PassedAreHeard

\* recvfrom takes a datagram off a socket, so it was not a passed one without excuse; a socket
\* that is passed now was empty, or is excused.
LEMMA PassedReceiveStep ==
    ASSUME TypeOK, MuxInv, PassedAreHeard, Receive
    PROVE  PassedAreHeard'
  <1>1. /\ waiting \in [Socket -> Seq(Datagram)] /\ tried \in Nat
        /\ \A i \in 1..Len(ScanOrder) : ScanOrder[i] \in Socket
        /\ tried <= Len(ScanOrder) /\ Len(ScanOrder) \in Nat
    BY ScanOrderType DEF MuxInv, MuxTypeOK, ScanInv
  <1>2. UNCHANGED <<socketIPv4, socketIPv6>>
    BY DEF Receive, Recvfrom, RecvfromNothing, ReceiveOne, ReceiveEnds
  <1>3. ScanOrder' = ScanOrder
    BY <1>2 DEF ScanOrder
  <1>4. CASE Recvfrom
    <2>1. /\ tried' = tried /\ excused' = excused /\ waiting[Trying] # << >>
          /\ waiting' = [waiting EXCEPT ![Trying] = Tail(@)]
      BY <1>4 DEF Recvfrom
    <2>2. SUFFICES ASSUME NEW i \in 1..tried, ScanOrder[i] \notin excused
                   PROVE  waiting'[ScanOrder[i]] = << >>
      BY <1>3, <2>1 DEF PassedAreHeard
    <2>3. waiting[ScanOrder[i]] = << >>
      BY <2>2 DEF PassedAreHeard
    <2>4. ScanOrder[i] # Trying /\ ScanOrder[i] \in Socket
      BY <1>1, <2>1, <2>3
    <2>5. QED
      BY <1>1, <2>1, <2>3, <2>4
  <1>5. CASE tried' = tried + 1 /\ waiting' = waiting
             /\ (excused' = excused \cup {Trying}
                  \/ (waiting[Trying] = << >> /\ excused' = excused))
    <2>1. SUFFICES ASSUME NEW i \in 1..(tried + 1)
                   PROVE  waiting[ScanOrder[i]] = << >> \/ ScanOrder[i] \in excused'
      BY <1>3, <1>5 DEF PassedAreHeard
    <2>2. CASE i \in 1..tried
      BY <1>5, <2>2 DEF PassedAreHeard
    <2>3. CASE i = tried + 1
      BY <1>5, <2>3 DEF Trying
    <2>4. QED
      BY <1>1, <2>1, <2>2, <2>3
  <1>6. CASE tried' = 0
    BY <1>2, <1>6, PassedStable
  <1>7. RecvfromNothing \/ ReceiveOne \/ ReceiveEnds =>
           \/ tried' = 0
           \/ tried' = tried + 1 /\ waiting' = waiting
              /\ (excused' = excused \cup {Trying}
                   \/ (waiting[Trying] = << >> /\ excused' = excused))
    BY DEF RecvfromNothing, ReceiveOne, ReceiveEnds
  <1>8. QED
    BY <1>4, <1>5, <1>6, <1>7 DEF Receive

\* Every step keeps PassedAreHeard: sockets are bound outside of scans, and an arrival on a
\* socket that was passed is an excuse.
LEMMA PassedStep ==
    ASSUME TypeOK, MuxInv, PassedAreHeard, [MuxNext]_muxVars
    PROVE  PassedAreHeard'
  <1>1. CASE UNCHANGED <<socketIPv4, socketIPv6, waiting, tried, excused>>
    BY <1>1, PassedStable
  <1>2. CASE Send
    BY <1>1, <1>2 DEF Send
  <1>3. CASE Receive
    BY <1>3, PassedReceiveStep
  <1>4. CASE UNCHANGED sockets
    BY <1>1, <1>4 DEF sockets
  <1>5. ASSUME NEW port \in Port, TryBindIPv4(port) \/ TryBindIPv6(port)
        PROVE  PassedAreHeard'
    <2>1. tried = 0 /\ tried' = tried
      BY <1>5 DEF TryBindIPv4, TryBindIPv6, MuxInv, ScanInv
    <2>2. QED
      BY <2>1 DEF PassedAreHeard
  <1>6. ASSUME NEW s \in Socket, NEW d \in Datagram, Arrive(s, d) PROVE PassedAreHeard'
    <2>1. /\ tried' = tried /\ UNCHANGED <<socketIPv4, socketIPv6>>
          /\ waiting' = [waiting EXCEPT ![s] = Append(@, d)]
          /\ excused' = IF s \in Passed THEN excused \cup {s} ELSE excused
          /\ waiting \in [Socket -> Seq(Datagram)]
      BY <1>6 DEF Arrive, MuxInv, MuxTypeOK
    <2>2. ScanOrder' = ScanOrder
      BY <2>1 DEF ScanOrder
    <2>3. SUFFICES ASSUME NEW i \in 1..tried
                   PROVE  waiting'[ScanOrder[i]] = << >> \/ ScanOrder[i] \in excused'
      BY <2>1, <2>2 DEF PassedAreHeard
    <2>4. CASE ScanOrder[i] = s
      BY <2>1, <2>4 DEF Passed
    <2>5. CASE ScanOrder[i] # s
      <3>1. waiting'[ScanOrder[i]] = waiting[ScanOrder[i]]
        <4>1. ScanOrder[i] \in Socket
          BY ScanOrderType DEF MuxInv, MuxTypeOK, ScanInv
        <4>2. QED
          BY <2>1, <2>5, <4>1
      <3>2. QED
        BY <2>1, <3>1 DEF PassedAreHeard
    <2>6. QED
      BY <2>4, <2>5
  <1>7. ASSUME NEW t \in Nat \ {0}, SetClock(t) PROVE PassedAreHeard'
    BY <1>4, <1>7 DEF SetClock
  <1>8. CASE UNCHANGED muxVars
    BY <1>4, <1>8 DEF muxVars
  <1>9. QED
    BY <1>2, <1>3, <1>4, <1>5, <1>6, <1>7, <1>8 DEF MuxNext, CallStep, MuxApplication

\* Only the end of a scan returns nullptr: all sockets were passed, or the last one has just
\* refused a datagram.
LEMMA NullptrStep ==
    ASSUME TypeOK, MuxInv, PassedAreHeard, [MuxNext]_muxVars,
           call = "receive", call' = "idle", event' = NoEvent,
           NEW s \in Range(ScanOrder)
    PROVE  waiting[s] = << >> \/ s \in excused \/ (inbox # << >> /\ s = Trying)
  <1>1. PICK i \in 1..Len(ScanOrder) : s = ScanOrder[i]
    BY ScanOrderType DEF Range, MuxInv
  <1>2. tried \in Nat /\ Len(ScanOrder) \in Nat
    BY ScanOrderType DEF MuxInv, MuxTypeOK
  <1>3. CASE ReceiveOne
    <2>1. ReceiveFails /\ LastTried /\ inbox # << >>
      BY <1>3, DatagramGivesEvent, ReceiveConsumes DEF ReceiveOne
    <2>2. i \in 1..tried \/ i = tried + 1
      BY <1>2, <2>1 DEF LastTried
    <2>3. QED
      BY <1>1, <2>1, <2>2 DEF PassedAreHeard, Trying
  <1>4. CASE ReceiveEnds
    <2>1. i \in 1..tried
      BY <1>4 DEF ReceiveEnds
    <2>2. QED
      BY <1>1, <2>1 DEF PassedAreHeard
  <1>5. CASE UNCHANGED frame
    BY <1>5 DEF frame
  <1>6. CASE Application \/ UpdatePendingClients \/ \E id \in todo : UpdateClientStatus(id)
    BY <1>6, OutsideScan
  <1>7. CASE UNCHANGED vars
    BY <1>5, <1>7 DEF vars
  <1>8. Send \/ Recvfrom => UNCHANGED frame
    BY DEF Send, Recvfrom
  <1>9. RecvfromNothing => UNCHANGED vars
    BY DEF RecvfromNothing
  <1>10. \A port \in Port : TryBindIPv4(port) \/ TryBindIPv6(port) => UNCHANGED vars
    BY DEF TryBindIPv4, TryBindIPv6
  <1>11. \A r \in Socket, d \in Datagram : Arrive(r, d) => UNCHANGED vars
    BY DEF Arrive
  <1>12. \A t \in Nat \ {0} : SetClock(t) => UNCHANGED frame
    BY DEF SetClock
  <1>13. QED
    BY <1>3, <1>4, <1>5, <1>6, <1>7, <1>8, <1>9, <1>10, <1>11, <1>12
       DEF MuxNext, CallStep, Receive, MuxApplication, muxVars

\* udcProcessEvents returns nullptr only after it has heard every bound socket, however many
\* are bound, whichever fail or refuse a datagram and whatever arrives meanwhile.
THEOREM AllHeard == MuxSpec => NullptrMeansAllHeard
  <1>1. MuxInit => PassedAreHeard
    BY DEF MuxInit, PassedAreHeard
  <1>2. TypeOK /\ MuxInv /\ PassedAreHeard /\ [MuxNext]_muxVars => PassedAreHeard'
    BY PassedStep
  <1>3. TypeOK /\ MuxInv /\ PassedAreHeard /\ [MuxNext]_muxVars =>
           [call = "receive" /\ call' = "idle" /\ event' = NoEvent =>
              \A s \in Range(ScanOrder) :
                  \/ waiting[s] = << >>
                  \/ s \in excused
                  \/ inbox # << >> /\ s = Trying]_muxVars
    BY NullptrStep
  <1>4. QED
    BY <1>1, <1>2, <1>3, MuxInvariant, PTL DEF MuxSpec, NullptrMeansAllHeard

\* All datagrams to one family leave by one socket, however many are bound before, between
\* and after the sends.
THEOREM OneSource == MuxSpec => []OneSourcePerFamily
  <1>1. MuxInv => OneSourcePerFamily
    BY DEF MuxInv, SentFromFront, SendingSocket, OneSourcePerFamily
  <1>2. QED
    BY <1>1, MuxInvariant, PTL
=============================================================================
