--------------------------- MODULE MCUdcSocketMux ---------------------------
(***************************************************************************)
(* A server with sockets of both families, one peer of each family, and    *)
(* any datagrams of a small set on any socket.  The clock moves between    *)
(* calls and may be set back.  It stops at MaxTime; before its last step   *)
(* every socket has been read, so that what the last instant times out is  *)
(* not refreshed by a datagram that arrived before it.                     *)
(***************************************************************************)
EXTENDS UdcSocketMux

CONSTANTS
    PeersIPv4, PeersIPv6,   \* addresses datagrams come from
    MaxTime,                \* the clock stops here
    MaySetBack,             \* whether the clock may be set back
    MaxWaiting,             \* datagrams waiting on one socket
    ArrivesMidScan          \* whether datagrams may arrive at any point of a scan

Peers == PeersIPv4 \cup PeersIPv6

ASSUME PeersAssumption == Peers \subseteq Address /\ PeersIPv4 \cap PeersIPv6 = {}

NoSizes == [p \in Payload |-> 0]
Families == [a \in Address |-> IF a \in PeersIPv6 THEN "IPv6" ELSE "IPv4"]

FromPeer(src, msgId, word) == Packet(src, Self, TRUE, msgId, word, NoData)

\* Answers to connection attempts and to pings, a message, a datagram shorter than a header
\* and one that is larger than the buffer.
Arrivals(src) ==
    {FromPeer(src, "CONNECTION_HANDSHAKE", id) : id \in 1..idCounter}
      \cup {FromPeer(src, "PONG", 0), FromPeer(src, "UNRELIABLE", 0)}
      \cup {[FromPeer(src, "PONG", 0) EXCEPT !.size = size] :
              size \in {SignatureSize - 1, BufferSize + 1}}

\* Datagrams that arrive between two calls are as good as there when the next scan begins.
\* Those that arrive during a scan, on a socket that was passed or behind a datagram that is
\* being read, are only told apart if ArrivesMidScan.
ArriveSome ==
    /\ call = "receive" /\ outbox = << >>
    /\ ArrivesMidScan \/ (tried = 0 /\ inbox = << >>)
    /\ now < MaxTime
    /\ \E s \in Range(ScanOrder), src \in Peers :
          /\ Len(waiting[s]) < MaxWaiting
          /\ \E d \in Arrivals(src) : Arrive(s, d)

AllRead == \A s \in Socket : waiting[s] = << >>

Tick ==
    /\ call = "idle" /\ outbox = << >>
    /\ now < MaxTime
    /\ now + 1 = MaxTime => AllRead
    /\ SetClock(now + 1)

SetBack ==
    /\ MaySetBack
    /\ call = "idle" /\ outbox = << >>
    /\ StartTime < now /\ now < MaxTime
    /\ SetClock(now - 1)

MCApplication ==
    /\ now < MaxTime
    /\ MuxApplication
    /\ \A id \in DOMAIN clients' : clients'[id].outgoingAddress \in Peers
    /\ \A family \in Family, port \in Port \ {1} :
          <<family, port>> \in Range(ScanOrder') => <<family, port - 1>> \in Range(ScanOrder')

MCNext == Send \/ CallStep \/ MCApplication \/ ArriveSome \/ Tick \/ SetBack

\* The application calls udcProcessEvents again and again ("Main update loop: every frame,
\* call udcProcessEvents()", include/udp_connect.h:187-188) and a call runs to its end; the
\* clock does not stand still; a socket that holds datagrams does not fail every time.
Fairness ==
    /\ WF_muxVars(Send \/ CallStep)
    /\ SF_muxVars(Tick)
    /\ \A s \in Socket : SF_muxVars(Recvfrom /\ Trying = s)

MCMuxSpec == MuxInit /\ [][MCNext]_muxVars /\ Fairness

-----------------------------------------------------------------------------
(* Properties.                                                              *)

\* From some time on, nothing arrives on any of the given sockets.
QuietFrom(some) ==
    <>[][\A s \in some : Len(waiting'[s]) <= Len(waiting[s])]_waiting

\* The clock is set back only finitely often.
ClockSteady == <>[][now' >= now]_now

\* Once datagrams stop arriving, the receive loop of every call comes to its end.
EveryCallReturns == QuietFrom(Socket) => []<>(call = "idle")

\* receive() serves the IPv6 sockets first: they are drained as soon as nothing arrives on
\* them any more, even if IPv4 traffic never ends.  The IPv4 sockets have no such promise:
\* they are drained when all arrivals end.
SocketsDrain ==
    /\ QuietFrom({"IPv6"} \X Port) => <>[](\A port \in Port : waiting[<<"IPv6", port>>] = << >>)
    /\ QuietFrom(Socket) => <>[]AllRead

AwaitsOutcome(id) == id \in DOMAIN told /\ told[id] = "connecting"

\* Every attempt to connect gets an outcome: CONNECTION_SUCCESS or CONNECTION_TIMEOUT is
\* reported, also for attempts that wait behind others, and also if the clock was set back
\* meanwhile.
EveryAttemptEnds ==
    QuietFrom(Socket) /\ ClockSteady =>
        \A id \in 1..MaxEndPointId :
            AwaitsOutcome(id) ~> ~AwaitsOutcome(id)

\* When the peers fall silent, every end point that is still registered is reported lost.
SilenceIsNoticed ==
    QuietFrom(Socket) /\ ClockSteady => <>[](\A id \in clientsById : told[id] = "lost")
=============================================================================
