---------------------------- MODULE UdcSocketMux ----------------------------
(***************************************************************************)
(* A server behind several bound sockets (include/UdcSocketMux.h,          *)
(* src/UdcSocketMux.cpp, platform/win32/src/UdcSocket.cpp).  UdcServer     *)
(* leaves open which datagram recvfrom takes next; here the datagrams wait *)
(* on the sockets they were sent to, and receive() tries the sockets one   *)
(* after the other, all IPv6 sockets before the IPv4 ones, from the first  *)
(* one again for every datagram.  The server's inbox holds the datagram    *)
(* that recvfrom is handing over.                                          *)
(***************************************************************************)
EXTENDS UdcServer

CONSTANTS
    Port,       \* local ports
    FamilyOf    \* the family of each address

Family == {"IPv4", "IPv6"}
Socket == Family \X Port

ASSUME SocketAssumption == FamilyOf \in [Address -> Family]

VARIABLES
    socketIPv4,   \* m_socketIPv4: bound sockets in the order of binding
    socketIPv6,   \* m_socketIPv6
    waiting,      \* datagrams the operating system holds for each socket, oldest first
    tried,        \* sockets the running receive() has tried in vain
    sentFrom,     \* history: the sockets that datagrams of each family were sent from
    excused       \* history: sockets that the running receive() has passed and that may hold
                  \* a datagram all the same

sockets == <<socketIPv4, socketIPv6, waiting, tried, sentFrom, excused>>
muxVars == <<vars, sockets>>

MuxInit ==
    /\ Init
    /\ socketIPv4 = << >> /\ socketIPv6 = << >>
    /\ waiting = [s \in Socket |-> << >>]
    /\ tried = 0
    /\ sentFrom = [f \in Family |-> {}]
    /\ excused = {}

\* Mutant: the IPv4 sockets come first.
Bug_IPv4First == socketIPv4 \o socketIPv6

\* The order in which receive() tries the sockets.
ScanOrder == socketIPv6 \o socketIPv4

-----------------------------------------------------------------------------
(* Binding and sending.                                                     *)

\* localBindIPv4 or localBindIPv6 may succeed: a port cannot be bound twice in a family.
\* Whenever it fails, at any of its steps, the new socket is deleted and nothing has changed.
LocalBind(s) == s \notin Range(ScanOrder) /\ Len(ScanOrder) < MaxSockets

TryBindIPv4(port) ==
    /\ call = "idle"
    /\ LocalBind(<<"IPv4", port>>)
    /\ socketIPv4' = Append(socketIPv4, <<"IPv4", port>>)
    /\ UNCHANGED <<vars, socketIPv6, waiting, tried, sentFrom, excused>>

TryBindIPv6(port) ==
    /\ call = "idle"
    /\ LocalBind(<<"IPv6", port>>)
    /\ socketIPv6' = Append(socketIPv6, <<"IPv6", port>>)
    /\ UNCHANGED <<vars, socketIPv4, waiting, tried, sentFrom, excused>>

\* Mutant: the socket that was bound last sends.
Bug_LastSocket(family) ==
    LET bound == IF family = "IPv6" THEN socketIPv6 ELSE socketIPv4
    IN  IF bound = << >> THEN {} ELSE {Last(bound)}

\* The socket that send() uses for a family; without one the datagram is dropped.
SendingSocket(family) ==
    LET bound == IF family = "IPv6" THEN socketIPv6 ELSE socketIPv4
    IN  IF bound = << >> THEN {} ELSE {Head(bound)}

\* send() of the oldest datagram in the outbox.  A sendto that fails is a datagram the
\* network loses.
Send ==
    /\ outbox # << >>
    /\ sentFrom' = [sentFrom EXCEPT ![FamilyOf[Head(outbox).dst]] =
                       @ \cup SendingSocket(FamilyOf[Head(outbox).dst])]
    /\ outbox' = Tail(outbox)
    /\ UNCHANGED <<now, inbox, registry, clients, reliableStates, sigDirty, frame, event, told,
                   socketIPv4, socketIPv6, waiting, tried, excused>>

-----------------------------------------------------------------------------
(* One call of receive().                                                   *)

Trying == ScanOrder[tried + 1]

\* The sockets that the running receive() will not look at again.
Passed == {ScanOrder[i] : i \in 1..tried}

\* Mutant: the datagram stays in the queue (MSG_PEEK).
Bug_Peek ==
    /\ call = "receive" /\ inbox = << >>
    /\ tried < Len(ScanOrder)
    /\ waiting[Trying] # << >>
    /\ inbox' = << Head(waiting[Trying]) >>
    /\ UNCHANGED <<now, outbox, registry, clients, reliableStates, sigDirty, frame, event, told,
                   sockets>>

\* recvfrom on the next socket finds a datagram.
Recvfrom ==
    /\ call = "receive" /\ inbox = << >>
    /\ tried < Len(ScanOrder)
    /\ waiting[Trying] # << >>
    /\ inbox' = << Head(waiting[Trying]) >>
    /\ waiting' = [waiting EXCEPT ![Trying] = Tail(@)]
    /\ UNCHANGED <<now, outbox, registry, clients, reliableStates, sigDirty, frame, event, told,
                   socketIPv4, socketIPv6, tried, sentFrom, excused>>

\* recvfrom on the next socket finds none (0), or fails without taking one (-2).  The length
\* SocketErrorSize, which is -1 to recvfrom, is such a case if the system rejects it.
RecvfromNothing ==
    /\ call = "receive" /\ inbox = << >>
    /\ tried < Len(ScanOrder)
    /\ tried' = tried + 1
    /\ excused' = IF waiting[Trying] = << >> THEN excused ELSE excused \cup {Trying}
    /\ UNCHANGED <<vars, socketIPv4, socketIPv6, waiting, sentFrom>>

LastTried == tried + 1 = Len(ScanOrder)

\* Mutant: a datagram that recvfrom refuses ends the scan.
Bug_RefusalEndsScan ==
    /\ inbox # << >>
    /\ ReceiveDatagram \/ ReceiveFails
    /\ tried' = 0
    /\ excused' = {}
    /\ UNCHANGED <<socketIPv4, socketIPv6, waiting, sentFrom>>

\* receiveMessages handles the datagram, and its next receive() starts with the first
\* socket; or recvfrom refuses it, and receive() tries the next socket or gives up.
ReceiveOne ==
    /\ inbox # << >>
    /\ \/ ReceiveDatagram /\ tried' = 0 /\ excused' = {}
       \/ ReceiveFailsOver /\ ~LastTried /\ tried' = tried + 1 /\ excused' = excused \cup {Trying}
       \/ ReceiveFails /\ LastTried /\ tried' = 0 /\ excused' = {}
    /\ UNCHANGED <<socketIPv4, socketIPv6, waiting, sentFrom>>

\* No socket had a message: receive() returns false.
ReceiveEnds ==
    /\ inbox = << >>
    /\ tried = Len(ScanOrder)
    /\ ReceiveNothing
    /\ tried' = 0
    /\ excused' = {}
    /\ UNCHANGED <<socketIPv4, socketIPv6, waiting, sentFrom>>

Receive == Recvfrom \/ RecvfromNothing \/ ReceiveOne \/ ReceiveEnds

-----------------------------------------------------------------------------
(* The server, the application, the network and the clock.  What the server *)
(* hands to send() leaves before it goes on.                                *)

CallStep ==
    /\ outbox = << >>
    /\ \/ (UpdatePendingClients \/ \E id \in todo : UpdateClientStatus(id)) /\ UNCHANGED sockets
       \/ Receive

MuxApplication ==
    /\ outbox = << >>
    /\ \/ Application /\ UNCHANGED sockets
       \/ \E port \in Port : TryBindIPv4(port) \/ TryBindIPv6(port)

\* A datagram reaches a bound socket of its family.
Arrive(s, d) ==
    /\ s \in Range(ScanOrder)
    /\ FamilyOf[d.src] = s[1]
    /\ waiting' = [waiting EXCEPT ![s] = Append(@, d)]
    /\ excused' = IF s \in Passed THEN excused \cup {s} ELSE excused
    /\ UNCHANGED <<vars, socketIPv4, socketIPv6, tried, sentFrom>>

SetClock(t) ==
    /\ now' = t
    /\ UNCHANGED <<inbox, outbox, registry, clients, reliableStates, sigDirty, frame, event, told,
                   sockets>>

MuxNext ==
    \/ Send \/ CallStep \/ MuxApplication
    \/ \E s \in Socket, d \in Datagram : Arrive(s, d)
    \/ \E t \in Nat \ {0} : SetClock(t)

MuxSpec == MuxInit /\ [][MuxNext]_muxVars

-----------------------------------------------------------------------------
(* Properties.                                                              *)

\* When udcProcessEvents returns nullptr it has heard every socket: a datagram that still
\* waits arrived after its socket was passed, or behind one that recvfrom refused in this
\* scan, or recvfrom failed on it.  An application that calls it "until nullptr is returned"
\* (include/udp_connect.h:187-188) misses nothing that was there, however many sockets are
\* bound and whichever of them fail (UdcSocketMux::receive, UdcServerImpl::receiveMessages).
NullptrMeansAllHeard ==
    [][call = "receive" /\ call' = "idle" /\ event' = NoEvent =>
          \A s \in Range(ScanOrder) :
              \/ waiting[s] = << >>
              \/ s \in excused
              \/ inbox # << >> /\ s = Trying]_muxVars

\* All peers of a family see this server under one address, whatever is bound later: they
\* know a connection and its reliable state by that address (m_clientsByAddress,
\* m_reliableStates), so a change would silently end both.
OneSourcePerFamily == \A f \in Family : \A s, t \in sentFrom[f] : s = t
=============================================================================
