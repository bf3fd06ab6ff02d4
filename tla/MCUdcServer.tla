---------------------------- MODULE MCUdcServer ----------------------------
(***************************************************************************)
(* A server alone, against a network that owes it nothing: any datagram of *)
(* a small set may arrive at any time, any number of times and in any      *)
(* order, whether the server asked for it or not, and what the server      *)
(* sends is carried away at once.  The clock advances in steps.            *)
(***************************************************************************)
EXTENDS UdcServer

CONSTANTS
    Ticks,      \* clock steps (ms)
    MaxTime,    \* the clock stops here
    MaxInbox,   \* datagrams waiting at once
    MaxQueue,   \* reliable messages queued at once
    Peers,      \* addresses datagrams come from
    StraySizes  \* sizes of the datagrams of other programs

ASSUME PeersAssumption == Peers \subseteq Address /\ StraySizes \subseteq Nat

Sizes == [p \in Payload |-> 3]

FromPeer(src, signed, msgId, word, data) == Packet(src, Self, signed, msgId, word, data)

\* What peers send in answer to this server, whether it asked or not.  A time stamp of 0
\* is an old one, MaxTime + 1 one that is ahead of this server's clock.
Answers ==
    {FromPeer(src, TRUE, "CONNECTION_HANDSHAKE", id, NoData) :
        src \in Peers, id \in 1..idCounter}
      \cup {FromPeer(src, TRUE, msgId, 0, NoData) :
              src \in Peers,
              msgId \in {"PONG", "RELIABLE_HANDSHAKE_RESET", "RELIABLE_HANDSHAKE_0",
                         "RELIABLE_HANDSHAKE_1"}}
      \cup {FromPeer(src, TRUE, "PONG", MaxTime + 1, NoData) : src \in Peers}

\* What peers send of their own accord.
Requests ==
    {FromPeer(src, TRUE, msgId, 0, NoData) :
        src \in Peers, msgId \in {"CONNECTION_REQUEST", "PING", "RELIABLE_RESET"}}
      \cup {FromPeer(src, TRUE, msgId, 0, data) :
              src \in Peers, data \in Payload,
              msgId \in {"UNRELIABLE", "RELIABLE_0", "RELIABLE_1"}}

\* Stray datagrams: of another protocol, and with the signature but shorter than a header or
\* of a wrong size.
Strays ==
    {[FromPeer(src, FALSE, "PING", 0, NoData) EXCEPT !.size = size] :
        src \in Peers, size \in StraySizes}
      \cup {[FromPeer(src, TRUE, "PING", 0, NoData) EXCEPT !.size = size] :
              src \in Peers, size \in {SignatureSize - 1, WordSize + 1}}

ServerState == <<registry, clients, reliableStates, sigDirty, frame, event, told>>

\* A call of udcProcessEvents reads the clock once, when it begins.
Tick ==
    /\ call = "idle"
    /\ \E d \in Ticks : now + d <= MaxTime /\ now' = now + d
    /\ UNCHANGED <<inbox, outbox, ServerState>>

\* Datagrams that arrive earlier wait until the receive loop reads them, so it is enough to
\* let them arrive while it runs.
Deliver ==
    /\ call = "receive"
    /\ Len(inbox) < MaxInbox
    /\ \E d \in Answers \cup Requests \cup Strays : inbox' = Append(inbox, d)
    /\ UNCHANGED <<now, outbox, ServerState>>

Drain ==
    /\ outbox # << >>
    /\ outbox' = << >>
    /\ UNCHANGED <<now, inbox, ServerState>>

QueuesBounded == \A id \in DOMAIN clients' : Len(clients'[id].reliableMessages) <= MaxQueue

\* The application connects to other servers: to peers, and to addresses that datagrams never
\* come from, such as a second port of a peer, which answers from its first.
ConnectsToOthers == \A id \in DOMAIN clients' : clients'[id].outgoingAddress # Self

MCNext ==
    \/ outbox = << >> /\ (ProcessEvents \/ Tick \/ Deliver)
    \/ outbox = << >> /\ Application /\ QueuesBounded /\ ConnectsToOthers
    \/ Drain

MCSpec == Init /\ [][MCNext]_vars
=============================================================================
