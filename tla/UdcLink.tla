------------------------------- MODULE UdcLink -------------------------------
(***************************************************************************)
(* Two servers and the network between them.  Server A connects to server  *)
(* B and sends it reliable messages; B only processes events (it has no    *)
(* clients of its own, so what it runs is receiveMessages).  The outbox of *)
(* each server is the inbox of the other, a channel that may lose,         *)
(* duplicate, reorder and delay datagrams, each as a parameter says.  Both *)
(* servers read one clock: no formula compares times of different servers. *)
(***************************************************************************)
EXTENDS Naturals, Sequences, SequencesExt

CONSTANTS
    MaxConnects,    \* calls of udcTryConnect by A
    MaxSends,       \* reliable messages A's application sends, 1..MaxSends
    MayDisconnect,  \* whether A's application calls udcDisconnect
    MayLose, MayDuplicate, MayReorder,   \* what the network may do to datagrams
    MayFail,        \* whether recvfrom may report an error although a datagram waits
    MayDelay,       \* whether time passes while a datagram or a call is on its way
    MaxRestarts,    \* how often B is deleted and created again
    TickSize,       \* milliseconds by which the clock moves
    Endless,        \* whether time goes on at MaxTime, see Tick
    TimeStampModulus,   \* 2^32 in the code
    Timeout,        \* the timeout argument of A's calls
    MessageSize,    \* bytes of a message; a datagram with any is larger than all others
    BufferSize,     \* m_messageBufferSize of both servers
    Capacity,       \* datagrams a channel holds
    StartTime,      \* the clock when the servers are created
    MaxTime         \* the clock stops here, unless time is endless

\* The buffer has room for a time stamp behind the header, as udcCreateServer demands.  Where
\* time is endless, a stamp stays positive while it still counts, see Older.
ASSUME LinkAssumption ==
    /\ MaxConnects \in Nat /\ MaxSends \in Nat
    /\ TickSize \in Nat /\ Timeout \in Nat /\ MessageSize \in Nat
    /\ BufferSize \in Nat /\ BufferSize >= 9
    /\ TimeStampModulus \in Nat \ {0} /\ StartTime \in Nat \ {0} /\ MaxTime \in Nat
    /\ Endless => Timeout + TickSize <= MaxTime

Message == 1..MaxSends
NoData  == 0
Size    == [m \in Message |-> MessageSize]

VARIABLES
    now, ab, ba,       \* the clock, the channels from A to B and from B to A
    \* server A
    aIdCounter, aPendingClients, aClients, aClientsById, aClientsByAddress, aReliableStates,
    aSigDirty, aCall, aTime, aTodo, aMsgSize, aEvent, aTold,
    \* server B
    bIdCounter, bPendingClients, bClients, bClientsById, bClientsByAddress, bReliableStates,
    bSigDirty, bCall, bTime, bTodo, bMsgSize, bEvent, bTold,
    \* history of the reliable messages from A to B, see ReliableDelivery
    accepted, delivered, acked, repeated, forgot,
    restarts           \* history: how often B was restarted

A == INSTANCE UdcServer WITH
        Address <- {"a", "b"}, Self <- "a", Payload <- Message, PayloadSize <- Size,
        Timeouts <- {Timeout}, MaxEndPointId <- MaxConnects,
        MaxSockets <- 1, SocketErrorSize <- 1000,
        inbox <- ba, outbox <- ab,
        idCounter <- aIdCounter, pendingClients <- aPendingClients, clients <- aClients,
        clientsById <- aClientsById, clientsByAddress <- aClientsByAddress,
        reliableStates <- aReliableStates, sigDirty <- aSigDirty, call <- aCall,
        time <- aTime, todo <- aTodo, msgSize <- aMsgSize, event <- aEvent, told <- aTold

B == INSTANCE UdcServer WITH
        Address <- {"a", "b"}, Self <- "b", Payload <- Message, PayloadSize <- Size,
        Timeouts <- {}, MaxEndPointId <- 0,
        MaxSockets <- 1, SocketErrorSize <- 1000,
        inbox <- ab, outbox <- ba,
        idCounter <- bIdCounter, pendingClients <- bPendingClients, clients <- bClients,
        clientsById <- bClientsById, clientsByAddress <- bClientsByAddress,
        reliableStates <- bReliableStates, sigDirty <- bSigDirty, call <- bCall,
        time <- bTime, todo <- bTodo, msgSize <- bMsgSize, event <- bEvent, told <- bTold

aVars == <<aIdCounter, aPendingClients, aClients, aClientsById, aClientsByAddress,
           aReliableStates, aSigDirty, aCall, aTime, aTodo, aMsgSize, aEvent, aTold>>
bVars == <<bIdCounter, bPendingClients, bClients, bClientsById, bClientsByAddress,
           bReliableStates, bSigDirty, bCall, bTime, bTodo, bMsgSize, bEvent, bTold>>
history == <<accepted, delivered, acked, repeated, forgot, restarts>>
vars == <<now, ab, ba, aVars, bVars, history>>

Init ==
    /\ A!Init /\ B!Init
    /\ accepted = 0 /\ delivered = 0 /\ acked = 0 /\ repeated = FALSE /\ forgot = FALSE
    /\ restarts = 0

-----------------------------------------------------------------------------
(* Server A.                                                                *)

AConnects == A!TryConnect("b", Timeout) /\ UNCHANGED <<bVars, history>>

ADisconnects ==
    /\ MayDisconnect
    /\ \E id \in 1..aIdCounter : A!DisconnectConnected(id) \/ A!DisconnectPending(id)
    /\ UNCHANGED <<bVars, history>>

ASends ==
    /\ accepted < MaxSends
    /\ \E id \in aClientsById : A!SendReliableMessage(id, accepted + 1)
    /\ accepted' = accepted + 1
    /\ UNCHANGED <<bVars, delivered, acked, repeated, forgot, restarts>>

\* The message that a step of A has removed from a queue, or the last one so removed.
Acknowledged ==
    LET popped == {id \in aClientsById :
                     Len(aClients'[id].reliableMessages) < Len(aClients[id].reliableMessages)}
    IN  IF popped = {} THEN acked
        ELSE Head(aClients[CHOOSE id \in popped : TRUE].reliableMessages)

AProcesses ==
    /\ A!ProcessEvents
    /\ MayFail \/ (A!ReceiveNothing => ba = << >>)
    /\ Len(ab') <= Capacity
    /\ acked' = Acknowledged
    /\ UNCHANGED <<bVars, accepted, delivered, repeated, forgot, restarts>>

-----------------------------------------------------------------------------
(* Server B.                                                                *)

\* B's call of udcProcessEvents returns a message to the application.
BDelivers == bCall = "receive" /\ bCall' = "idle" /\ bEvent'.type = "RECEIVE_MESSAGE"

\* ... and it is one that the application already has.
BRepeats == BDelivers /\ bEvent'.data <= delivered

BProcesses ==
    /\ B!ProcessEvents
    /\ MayFail \/ (B!ReceiveNothing => ab = << >>)
    /\ Len(ba') <= Capacity
    /\ delivered' = IF BDelivers THEN bEvent'.data ELSE delivered
    /\ repeated' = (repeated \/ BRepeats)
    /\ forgot' = (forgot /\ ~BDelivers)
    /\ UNCHANGED <<aVars, accepted, acked, restarts>>

\* udcDeleteServer, then udcCreateServer with the same port: B, which has no clients, has
\* forgotten the reliable states.
BRestarts ==
    /\ restarts < MaxRestarts
    /\ bCall = "idle"
    /\ bReliableStates' = [addr \in {"a", "b"} |-> B!NotInHash]
    /\ bSigDirty' = 0 /\ bEvent' = B!NoEvent
    /\ UNCHANGED <<bIdCounter, bPendingClients, bClients, bClientsById, bClientsByAddress,
                   bCall, bTime, bTodo, bMsgSize, bTold>>
    /\ forgot' = TRUE /\ restarts' = restarts + 1
    /\ UNCHANGED <<now, ab, ba, aVars, accepted, delivered, acked, repeated>>

-----------------------------------------------------------------------------
(* The network and the clock.                                               *)

\* A datagram that gets lost might as well get lost when it would have been received, or
\* when both channels are too full for anyone to go on.
Lose ==
    /\ MayLose
    /\ \/ /\ bCall = "receive" /\ ab # << >>
          /\ Len(ba) < Capacity \/ aCall = "status"
          /\ ab' = Tail(ab) /\ UNCHANGED ba
       \/ /\ aCall = "receive" /\ ba # << >>
          /\ ba' = Tail(ba) /\ UNCHANGED ab
    /\ UNCHANGED <<now, aVars, bVars, history>>

Duplicate ==
    /\ MayDuplicate
    /\ \/ Len(ab) < Capacity /\ \E i \in DOMAIN ab : ab' = InsertAt(ab, i, ab[i]) /\ UNCHANGED ba
       \/ Len(ba) < Capacity /\ \E i \in DOMAIN ba : ba' = InsertAt(ba, i, ba[i]) /\ UNCHANGED ab
    /\ UNCHANGED <<now, aVars, bVars, history>>

Reorder ==
    /\ MayReorder
    /\ \/ \E i \in DOMAIN ab : ab' = Append(RemoveAt(ab, i), ab[i]) /\ UNCHANGED ba
       \/ \E i \in DOMAIN ba : ba' = Append(RemoveAt(ba, i), ba[i]) /\ UNCHANGED ab
    /\ UNCHANGED <<now, aVars, bVars, history>>

Quiet == ab = << >> /\ ba = << >> /\ aCall = "idle" /\ bCall = "idle"

\* A stamp one tick later, if all that counts is whether a period has passed since.
Older(stamp, period) == IF stamp > MaxTime - period THEN stamp - TickSize ELSE stamp

Aged(c) ==
    [c EXCEPT !.pingLastSetTime = Older(@, c.pingPeriod),
              !.prevConnectAttemptTime = Older(@, c.pingPeriod),
              !.firstConnectAttemptTime = Older(@, c.timeoutPeriod),
              !.lastReceivedTime = Older(@, c.timeoutPeriod),
              !.reliableSentTime = Older(@, c.timeoutPeriod)]

\* A call of udcProcessEvents reads the clock once, when it begins.  Where time is endless,
\* the clock stays at MaxTime and the stamps grow older instead: the code compares
\* differences with periods, and nothing else.
Tick ==
    /\ MayDelay \/ Quiet
    /\ aCall = "idle"
    /\ \/ now < MaxTime /\ now' = now + TickSize /\ UNCHANGED aClients
       \/ Endless /\ now = MaxTime /\ UNCHANGED now
             /\ aClients' = [id \in DOMAIN aClients |-> Aged(aClients[id])]
    /\ UNCHANGED <<ab, ba, aIdCounter, aPendingClients, aClientsById, aClientsByAddress,
                   aReliableStates, aSigDirty, aCall, aTime, aTodo, aMsgSize, aEvent, aTold,
                   bVars, history>>

Next ==
    \/ AConnects \/ ADisconnects \/ ASends \/ AProcesses
    \/ BProcesses \/ BRestarts
    \/ Lose \/ Duplicate \/ Reorder \/ Tick

Spec == Init /\ [][Next]_vars

\* A step in which A or B accepts a datagram of one of these kinds.
AAccepts(msgIds) ==
    ba # << >> /\ Head(ba).msgId \in msgIds /\ ba' = Tail(ba) /\ AProcesses
BAccepts(msgIds) ==
    /\ ab # << >> /\ Head(ab).msgId \in msgIds /\ Head(ab).size <= bMsgSize
    /\ ab' = Tail(ab) /\ BProcesses

\* Both applications keep calling udcProcessEvents and the clock does not stand still.  The
\* network does not lose, and the socket does not refuse, every copy of a reset or of a
\* handshake that is sent again and again.  Of the messages, nothing is said here.
Fairness ==
    /\ WF_vars(AProcesses) /\ WF_vars(BProcesses) /\ []<><<Tick>>_vars
    /\ SF_vars(BAccepts({"RELIABLE_RESET"}))
    /\ SF_vars(AAccepts({"RELIABLE_HANDSHAKE_0", "RELIABLE_HANDSHAKE_1"}))
    /\ SF_vars(AAccepts({"RELIABLE_HANDSHAKE_RESET"}))

FairSpec == Spec /\ Fairness

-----------------------------------------------------------------------------
(* Properties.                                                              *)

\* A message that the sender removed from its queue as acknowledged has been given to
\* the receiving application.
AckedWasDelivered == acked <= delivered

\* The messages reach the receiving application in the order in which they were accepted,
\* without a gap.
NoGap == [][delivered' \in {delivered, delivered + 1}]_vars

InOrder == INSTANCE ReliableDelivery WITH AtLeastOnce <- TRUE
ExactlyOnce == INSTANCE ReliableDelivery WITH AtLeastOnce <- FALSE

\* The channel keeps every message, in order, and repeats only the one in flight.
DeliversInOrder == InOrder!Spec

\* The same, and nothing is repeated.
DeliversExactlyOnce == ExactlyOnce!Spec

\* "Reliable packets are guaranteed to arrive" (include/udp_connect.h:50-51): every message
\* that udcSendMessage accepted is acknowledged in the end, unless the application
\* disconnects.
EveryMessageAcked ==
    acked < accepted ~> acked = accepted \/ aClientsById = {}

\* If messages are on their way again and again, B's socket accepts one again and again: the
\* network does not lose every copy, and not every copy comes behind a datagram of the same
\* receive loop that leaves too little room for it.
MessagesAccepted ==
    []<>(\E i \in DOMAIN ab : ab[i].msgId \in {"RELIABLE_0", "RELIABLE_1"})
        => []<><<BAccepts({"RELIABLE_0", "RELIABLE_1"})>>_vars

\* If B's socket does not refuse messages for ever, every message is acknowledged in the end,
\* through lost and repeated datagrams, refused copies, resets and restarts of the receiver.
\* To accept a message is not to acknowledge it: it may be of the wrong state or come after
\* a reset, and its handshake may be lost or late.
AckedUnlessRefused == MessagesAccepted => EveryMessageAcked

\* What udcGetStatus reports as the ping of a connected end point is no more than the time
\* that the server has existed, although time stamps travel as the low bits of the clock.
PingPlausible ==
    \A id \in 1..aIdCounter : \A status \in A!GetStatus(id) :
        status.connected => status.ping <= now - StartTime

\* m_clientsByAddress is the inverse of m_clientsById: no entry survives udcDisconnect,
\* and no connected client is without one.
AddressMapMatches ==
    /\ \A id \in aClientsById : aClientsByAddress[aClients[id].outgoingAddress] = id
    /\ \A addr \in {"a", "b"} :
          aClientsByAddress[addr] \in aClientsById \cup {A!NoClient}

\* udcDisconnect is final: no event reaches the application about an end point that it
\* has disconnected, whatever datagrams are still on their way.
DisconnectIsFinal ==
    [][\A id \in DOMAIN aTold : aTold[id] = "disconnected" => aTold'[id] = "disconnected"]_vars
=============================================================================
