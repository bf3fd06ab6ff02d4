----------------------- MODULE UdcLinkDeliveryProofs -----------------------
(***************************************************************************)
(* The reliable channel from A to B implements ReliableDelivery, for any   *)
(* number of messages, losses, repetitions, socket errors and restarts of  *)
(* B, on a network that keeps the order and lets nothing linger while time *)
(* passes; if it also loses nothing and B is not restarted, every message  *)
(* is delivered exactly once.  Every step of UdcLink is put into the words *)
(* of the protocol (what A's client, the two channels and B's entry do),   *)
(* and the lemmas of ReliableProtocolProofs say what follows.              *)
(***************************************************************************)
EXTENDS UdcLinkProofs, ReliableProtocolProofs

\* One connection, a network that keeps the order, no datagram older than a clock tick, and a
\* timeout that is at least one millisecond after udcTryConnect has divided it by 10.
PromptNetwork == MaxConnects <= 1 /\ ~MayReorder /\ ~MayDelay /\ Timeout >= 10

\* The client's next visit would start a reset.
Overdue(c) ==
    /\ c.reliableState # -1 /\ c.reliableSentTime # 0
    /\ now - c.reliableSentTime >= c.timeoutPeriod

\* The protocol is in state s, and so is A's client.
InState(s) ==
    /\ Protocol(s, bReliableStates["a"], ab, ba, accepted, delivered, acked, forgot)
    /\ \A id \in DOMAIN aClients : aClients[id].reliableState = s
    /\ aIdCounter = 0 => s = 0 /\ accepted = 0

\* A's client holds what is not acknowledged, and gives up only when nothing is on its way.
QueueInv ==
    \A id \in DOMAIN aClients :
        /\ aClients[id].reliableMessages = Queue(accepted, acked)
        /\ Overdue(aClients[id]) => ~Has(ab, Requests) /\ ~Has(ba, Answers)

DeliveryInv ==
    /\ LinkInv /\ repeated \in BOOLEAN /\ forgot \in BOOLEAN
    /\ \E s \in {-1, 0, 1} : InState(s)
    /\ QueueInv

\* A has at most one client.
LEMMA OneClient ==
    ASSUME PromptNetwork, LinkInv
    PROVE  /\ aIdCounter \in {0, 1} /\ DOMAIN aClients \subseteq {1}
           /\ aIdCounter = 0 => DOMAIN aClients = {}
           /\ aClientsById \subseteq DOMAIN aClients
           /\ \A id \in DOMAIN aClients : aClients[id] \in SA!Client
  <1>1. aIdCounter \in 0..MaxConnects
    BY DEF LinkInv, SA!TypeOK
  <1>2. aIdCounter \in {0, 1}
    BY <1>1, LinkAssumption DEF PromptNetwork
  <1>3. /\ DOMAIN aClients \subseteq 1..aIdCounter /\ aClientsById \subseteq DOMAIN aClients
        /\ \A id \in DOMAIN aClients : aClients[id] \in SA!Client
    BY FactsOfA, ServerConstants, SA!TypeFacts
  <1>4. QED
    BY <1>2, <1>3

-----------------------------------------------------------------------------
(* The steps in the words of the protocol.                                  *)

\* The channel d is c after losses and repetitions, or with a message of another kind.
Passes(c, d, ids) ==
    \/ Thinned(d, c)
    \/ \E m \in SA!Datagram : m.msgId \notin ids /\ d = Append(c, m)

\* The reliable members of A's client are left alone.
SameReliable(id) ==
    /\ aClients'[id].reliableState = aClients[id].reliableState
    /\ aClients'[id].reliableMessages = aClients[id].reliableMessages
    /\ aClients'[id].reliableSentTime = aClients[id].reliableSentTime
    /\ aClients'[id].timeoutPeriod = aClients[id].timeoutPeriod

delivery == <<accepted, delivered, acked, repeated, forgot>>

\* Nothing happens to the protocol.
OtherStep ==
    /\ UNCHANGED <<now, aIdCounter, delivery>>
    /\ bReliableStates'["a"] = bReliableStates["a"]
    /\ DOMAIN aClients' \subseteq DOMAIN aClients
    /\ \A id \in DOMAIN aClients' : SameReliable(id)
    /\ Passes(ab, ab', Requests \cup {"UNRELIABLE"})
    /\ Passes(ba, ba', Answers)

\* B takes a message of this kind from its channel, and answers it.
Answer(msgId, answer) ==
    /\ ab # << >> /\ Head(ab).msgId = msgId /\ ab' = Tail(ab)
    /\ \E m \in SA!Datagram : m.msgId = answer /\ ba' = Append(ba, m)
    /\ UNCHANGED <<now, aIdCounter, aClients, accepted, acked>>

ResetStep ==
    /\ Answer("RELIABLE_RESET", "RELIABLE_HANDSHAKE_RESET")
    /\ bReliableStates'["a"] = IF bReliableStates["a"] = -1 THEN -1 ELSE 0
    /\ UNCHANGED delivery

MessageStep(t) ==
    /\ Answer(Reliable(t), Handshake(t))
    /\ bReliableStates'["a"] = 1 - t
    /\ \/ /\ bReliableStates["a"] \in {-1, t}
          /\ delivered' = Head(ab).data
          /\ repeated' = (repeated \/ Head(ab).data <= delivered)
          /\ forgot' = FALSE
       \/ /\ bReliableStates["a"] \notin {-1, t}
          /\ UNCHANGED <<delivered, repeated, forgot>>

\* B's call of udcProcessEvents.
LEMMA EventsOfB ==
    ASSUME DeliveryInv, BProcesses
    PROVE  OtherStep \/ ResetStep \/ \E t \in {0, 1} : MessageStep(t)
  <1>1. SB!ProcessEvents /\ UNCHANGED <<aVars, accepted, acked>> /\ SB!TypeOK
    BY SameServerB DEF BProcesses, DeliveryInv, LinkInv
  <1>2. /\ delivered' = (IF BDelivers THEN bEvent'.data ELSE delivered)
        /\ repeated' = (repeated \/ BRepeats)
        /\ forgot' = (forgot /\ ~BDelivers)
        /\ repeated \in BOOLEAN /\ forgot \in BOOLEAN
    BY DEF BProcesses, DeliveryInv
  <1>3. now' = now /\ (ab' = ab \/ (ab # << >> /\ ab' = Tail(ab)))
    BY <1>1, ServerConstants, SB!FrameStep, SB!InboxStep
  <1>4. bIdCounter = 0 /\ bReliableStates \in [{"a", "b"} -> {-1, 0, 1}]
    BY <1>1 DEF SB!TypeOK, SB!NotInHash
  <1>5. ab \in Seq(SA!Datagram) /\ ba \in Seq(SA!Datagram) /\ SA!Datagram = SB!Datagram
    BY FactsOfA, SameDatagrams DEF DeliveryInv
  <1>6. /\ DOMAIN ab \subseteq Nat /\ DOMAIN ba \subseteq Nat
        /\ Thinned(ab, ab) /\ Thinned(ba, ba) /\ (ab # << >> => Thinned(Tail(ab), ab))
    <2>1. DOMAIN ab \subseteq Nat /\ DOMAIN ba \subseteq Nat
      BY <1>5
    <2>2. QED
      BY <1>5, <2>1, SameThinned, TailThinned
  <1>7. ab # << >> => /\ SB!Incoming = Head(ab) /\ Head(ab).src = "a"
                      /\ Head(ab).msgId # "UNRELIABLE"
    <2>1. SUFFICES ASSUME ab # << >> PROVE Head(ab).src = "a" /\ Head(ab).msgId # "UNRELIABLE"
      BY DEF SB!Incoming
    <2>2. 1 \in DOMAIN ab /\ Head(ab) = ab[1]
      BY <1>5, <2>1, HeadBefore
    <2>3. Head(ab).src = "a"
      BY <2>2 DEF DeliveryInv, LinkInv, ChannelInv, SA!SentBy
    <2>4. Head(ab).msgId # "UNRELIABLE"
      BY <2>2 DEF DeliveryInv, InState, Protocol, Sending, Sent, Resetting, Has
    <2>5. QED
      BY <2>3, <2>4
  <1>8. ~SB!ProcessUnreliable
    BY <1>7 DEF SB!ProcessUnreliable, SB!Receives, SB!ReceiveSigned
  <1>9. CASE /\ ba' = ba \/ SB!Answered({"CONNECTION_HANDSHAKE", "PONG"})
             /\ UNCHANGED bReliableStates
             /\ bCall = "receive" /\ bCall' = "idle" => bEvent' = SB!NoEvent
    <2>1. ~BDelivers
      BY <1>9 DEF BDelivers, SB!NoEvent
    <2>2. UNCHANGED <<delivered, repeated, forgot>>
      BY <1>2, <2>1 DEF BRepeats
    <2>3. Passes(ba, ba', Answers)
      BY <1>5, <1>6, <1>9 DEF Passes, SB!Answered, Answers
    <2>4. Passes(ab, ab', Requests \cup {"UNRELIABLE"})
      BY <1>3, <1>6 DEF Passes
    <2>5. OtherStep
      BY <1>1, <1>3, <1>9, <2>2, <2>3, <2>4 DEF OtherStep, SameReliable, aVars, delivery
    <2>6. QED
      BY <2>5
  <1>10. ASSUME NEW answer, answer \in SB!AnswerId, SB!ReceiveSigned, SB!Reply(answer)
         PROVE  Answer(Head(ab).msgId, answer)
    <2>1. ab # << >> /\ ab' = Tail(ab)
      BY <1>10 DEF SB!ReceiveSigned
    <2>2. SB!Answered({answer})
      BY <1>1, <1>10, ServerConstants, SB!ReplyAnswers
    <2>3. QED
      BY <1>1, <1>3, <1>5, <2>1, <2>2 DEF Answer, SB!Answered, aVars
  <1>11. CASE SB!ProcessReliableReset
    <2>1. /\ SB!ReceiveSigned /\ Head(ab).msgId = "RELIABLE_RESET"
          /\ SB!Reply("RELIABLE_HANDSHAKE_RESET") /\ bCall' = bCall
          /\ bReliableStates' =
                [bReliableStates EXCEPT ![Head(ab).src] = IF @ = -1 THEN -1 ELSE 0]
      BY <1>11 DEF SB!ProcessReliableReset, SB!Receives, SB!Incoming, SB!ReliableHandshakeId,
                   SB!KeepReceiving, SB!NotInHash
    <2>2. Answer("RELIABLE_RESET", "RELIABLE_HANDSHAKE_RESET") /\ ab # << >>
      BY <1>10, <2>1 DEF SB!AnswerId, SB!ReceiveSigned
    <2>3. bReliableStates'["a"] = IF bReliableStates["a"] = -1 THEN -1 ELSE 0
      BY <1>4, <1>7, <2>1, <2>2
    <2>4. UNCHANGED <<delivered, repeated, forgot>>
      BY <1>2, <2>1 DEF BDelivers, BRepeats
    <2>5. QED
      BY <1>1, <2>2, <2>3, <2>4 DEF ResetStep, delivery
  <1>12. ASSUME NEW t \in {0, 1}, SB!ProcessReliableMessage(t)
         PROVE  MessageStep(t)
    <2>1. /\ SB!ReceiveSigned /\ Head(ab).msgId = Reliable(t)
          /\ SB!Reply(Handshake(t))
          /\ bReliableStates' = [bReliableStates EXCEPT ![Head(ab).src] = IF t = 0 THEN 1 ELSE 0]
      BY <1>12 DEF SB!ProcessReliableMessage, SB!Receives, SB!Incoming, SB!ReliableHandshakeId,
                   SB!ReliableId, Reliable, Handshake
    <2>2. Answer(Reliable(t), Handshake(t)) /\ ab # << >>
      BY <1>10, <2>1 DEF SB!AnswerId, SB!ReceiveSigned, Handshake
    <2>3. bReliableStates'["a"] = 1 - t
      BY <1>4, <1>7, <2>1, <2>2
    <2>4. CASE bReliableStates["a"] \in {-1, t}
      <3>1. /\ bCall = "receive" /\ bCall' = "idle"
            /\ bEvent' = [type |-> "RECEIVE_MESSAGE", address |-> "a", data |-> Head(ab).data]
        BY <1>7, <1>12, <2>2, <2>4
           DEF SB!ProcessReliableMessage, SB!ReturnMessage, SB!EndCall, SB!NotInHash,
               SB!Receives, SB!ReceiveSigned
      <3>2. BDelivers /\ bEvent'.data = Head(ab).data
        BY <3>1 DEF BDelivers
      <3>3. QED
        BY <1>2, <2>2, <2>3, <2>4, <3>2 DEF MessageStep, BRepeats
    <2>5. CASE bReliableStates["a"] \notin {-1, t}
      <3>1. bCall' = bCall
        BY <1>7, <1>12, <2>2, <2>5
           DEF SB!ProcessReliableMessage, SB!KeepReceiving, SB!NotInHash
      <3>2. UNCHANGED <<delivered, repeated, forgot>>
        BY <1>2, <3>1 DEF BDelivers, BRepeats
      <3>3. QED
        BY <2>2, <2>3, <2>5, <3>2 DEF MessageStep
    <2>6. QED
      BY <2>4, <2>5
  <1>13. QED
    BY <1>1, <1>4, <1>8, <1>9, <1>11, <1>12, ServerConstants, SB!ListenerStep

-----------------------------------------------------------------------------
(* The steps of A.                                                          *)

\* What a step of A leaves alone.
ByA == UNCHANGED <<now, aIdCounter, bReliableStates, delivered, repeated, forgot>>

\* udcTryConnect makes A's only client.
ConnectStep ==
    /\ aIdCounter = 0 /\ aIdCounter' = 1
    /\ UNCHANGED <<now, ab, ba, bReliableStates, delivery>>
    /\ \A id \in DOMAIN aClients' :
          /\ aClients'[id].reliableState = 0 /\ aClients'[id].reliableMessages = << >>
          /\ aClients'[id].reliableSentTime = 0

\* udcSendMessage queues a message.
AcceptStep ==
    /\ ByA /\ UNCHANGED <<ab, ba, acked>> /\ accepted' = accepted + 1
    /\ DOMAIN aClients # {} /\ DOMAIN aClients' = DOMAIN aClients
    /\ \A id \in DOMAIN aClients :
          /\ aClients'[id].reliableState = aClients[id].reliableState
          /\ aClients'[id].reliableSentTime = aClients[id].reliableSentTime
          /\ aClients'[id].timeoutPeriod = aClients[id].timeoutPeriod
          /\ aClients'[id].reliableMessages = Append(aClients[id].reliableMessages, accepted + 1)

\* processReliableHandshake gets the answer that the client waits for.
AnswerStep(id) ==
    LET c == aClients[id]
        d == aClients'[id]
    IN  /\ ByA /\ UNCHANGED accepted /\ DOMAIN aClients' = DOMAIN aClients
        /\ ba # << >> /\ ba' = Tail(ba) /\ Passes(ab, ab', Requests \cup {"UNRELIABLE"})
        /\ Head(ba).msgId = SA!ReliableHandshakeId(c.reliableState)
        /\ d.reliableState = IF c.reliableState = 0 THEN 1 ELSE 0
        /\ d.reliableSentTime = 0
        /\ \/ /\ c.reliableState # -1 /\ c.reliableMessages # << >>
              /\ d.reliableMessages = Tail(c.reliableMessages)
              /\ acked' = Head(c.reliableMessages)
           \/ /\ c.reliableState = -1 \/ c.reliableMessages = << >>
              /\ UNCHANGED acked /\ d.reliableMessages = c.reliableMessages

\* updateClientConnectionStatus visits the client: the channel is z before a ping is sent.
VisitStep(id) ==
    LET c == aClients[id]
        d == aClients'[id]
    IN  /\ ByA /\ UNCHANGED <<ba, accepted, acked>> /\ DOMAIN aClients' = DOMAIN aClients
        /\ d.reliableMessages = c.reliableMessages /\ d.timeoutPeriod = c.timeoutPeriod
        /\ \E z \in Seq(SA!Datagram) :
              /\ Passes(z, ab', Requests \cup {"UNRELIABLE"})
              /\ \/ /\ c.reliableMessages = << >> /\ z = ab
                    /\ d.reliableState = c.reliableState
                    /\ d.reliableSentTime = c.reliableSentTime
                 \/ /\ c.reliableMessages # << >> /\ Overdue(c) /\ z = ab
                    /\ d.reliableState = -1
                 \/ /\ c.reliableState = -1 /\ d.reliableState = -1
                    /\ \E m \in SA!Datagram : m.msgId = "RELIABLE_RESET" /\ z = Append(ab, m)
                 \/ /\ c.reliableState # -1 /\ c.reliableMessages # << >> /\ ~Overdue(c)
                    /\ d.reliableState = c.reliableState
                    /\ d.reliableSentTime =
                          IF c.reliableSentTime = 0 THEN now ELSE c.reliableSentTime
                    /\ \E m \in SA!Datagram :
                          /\ m.msgId = Reliable(c.reliableState)
                          /\ m.data = Head(c.reliableMessages)
                          /\ z = Append(ab, m)

\* The calls of udcTryConnect, udcDisconnect and udcSendMessage.
LEMMA CallsOfA ==
    ASSUME PromptNetwork, DeliveryInv, AConnects \/ ADisconnects \/ ASends
    PROVE  OtherStep \/ ConnectStep \/ AcceptStep
  <1>1. LinkInv /\ SA!TypeOK /\ DOMAIN aClients = SA!Referenced
    BY FactsOfA DEF DeliveryInv
  <1>2. Passes(ab, ab, Requests \cup {"UNRELIABLE"}) /\ Passes(ba, ba, Answers)
    <2>1. DOMAIN ab \subseteq Nat /\ DOMAIN ba \subseteq Nat
      BY <1>1, FactsOfA
    <2>2. QED
      BY <2>1, SameThinned DEF Passes
  <1>3. CASE AConnects
    <2>1. SA!TryConnect("b", Timeout) /\ UNCHANGED <<bVars, history>>
      BY <1>3, SameServerA DEF AConnects
    <2>2. aIdCounter < MaxConnects /\ aIdCounter' = aIdCounter + 1 /\ UNCHANGED <<now, ab, ba>>
      BY <2>1 DEF SA!TryConnect, SA!environment
    <2>3. aIdCounter = 0 /\ aIdCounter' = 1 /\ DOMAIN aClients = {}
      BY <1>1, <2>2, LinkAssumption, OneClient DEF PromptNetwork
    <2>4. \A id \in DOMAIN aClients' : aClients'[id] = SA!StartConnecting(
             SA!NewClient("b", SA!PingPeriodOf(Timeout), SA!TimeoutPeriodOf(Timeout)), now)
      BY <2>1, <2>3 DEF SA!TryConnect
    <2>5. \A id \in DOMAIN aClients' :
             /\ aClients'[id].reliableState = 0 /\ aClients'[id].reliableMessages = << >>
             /\ aClients'[id].reliableSentTime = 0
      BY <2>4 DEF SA!StartConnecting, SA!NewClient
    <2>6. ConnectStep
      BY <2>1, <2>2, <2>3, <2>5 DEF ConnectStep, bVars, history, delivery
    <2>7. QED
      BY <2>6
  <1>4. CASE ADisconnects
    <2>1. PICK id \in 1..aIdCounter : SA!DisconnectConnected(id) \/ SA!DisconnectPending(id)
      BY <1>4, SameServerA DEF ADisconnects
    <2>2. /\ UNCHANGED <<now, ab, ba, aIdCounter>>
          /\ aClients' = SA!Restrict(aClients, SA!Referenced')
      BY <2>1 DEF SA!DisconnectConnected, SA!DisconnectPending, SA!environment
    <2>3. LinkInv' /\ UNCHANGED <<bVars, history>>
      BY <1>1, <1>4, ActionsOfA DEF ADisconnects
    <2>4. /\ DOMAIN aClients' \subseteq DOMAIN aClients
          /\ \A i \in DOMAIN aClients' : aClients'[i] = aClients[i]
      <3>1. \A i \in DOMAIN aClients' : (i \in SA!Referenced /\ SA!ClientStep(i)) \/ SA!Created(i)
        BY <1>1, <1>4, <2>1, ActionsOfA, ServerConstants, SA!HeapStep DEF SA!Next
      <3>2. \A i : ~SA!Created(i)
        BY <1>1, <2>2 DEF SA!Created, SA!TryConnect, SA!TypeOK
      <3>3. QED
        BY <1>1, <2>2, <3>1, <3>2 DEF SA!Restrict
    <2>5. OtherStep
      BY <1>2, <2>2, <2>3, <2>4 DEF OtherStep, SameReliable, bVars, history, delivery
    <2>6. QED
      BY <2>5
  <1>5. CASE ASends
    <2>1. PICK id \in aClientsById : A!SendReliableMessage(id, accepted + 1)
      BY <1>5 DEF ASends
    <2>2. /\ SA!SendReliableMessage(id, accepted + 1)
          /\ accepted' = accepted + 1
          /\ UNCHANGED <<bVars, delivered, acked, repeated, forgot>>
      BY <1>5, <2>1, SameServerA DEF ASends
    <2>3. /\ UNCHANGED <<now, ab, ba, aIdCounter>>
          /\ aClients' = [aClients EXCEPT ![id].reliableMessages = Append(@, accepted + 1)]
      BY <2>2 DEF SA!SendReliableMessage, SA!environment, SA!registry
    <2>4. DOMAIN aClients = {1} /\ id = 1 /\ aClients[1] \in SA!Client
      BY <1>1, <2>1, OneClient
    <2>5. /\ DOMAIN aClients' = {1}
          /\ aClients'[1] = [aClients[1] EXCEPT !.reliableMessages = Append(@, accepted + 1)]
      BY <2>3, <2>4
    <2>6. /\ aClients'[1].reliableState = aClients[1].reliableState
          /\ aClients'[1].reliableSentTime = aClients[1].reliableSentTime
          /\ aClients'[1].timeoutPeriod = aClients[1].timeoutPeriod
          /\ aClients'[1].reliableMessages = Append(aClients[1].reliableMessages, accepted + 1)
      BY <2>4, <2>5 DEF SA!Client
    <2>7. AcceptStep
      BY <2>2, <2>3, <2>4, <2>5, <2>6 DEF AcceptStep, ByA, bVars
    <2>8. QED
      BY <2>7
  <1>6. QED
    BY <1>3, <1>4, <1>5

\* A step of A's call of udcProcessEvents that removes nothing from the queue.
LEMMA NothingAcknowledged ==
    ASSUME AProcesses,
           \A id \in aClientsById :
              /\ aClients[id].reliableMessages \in Seq(Message)
              /\ aClients'[id].reliableMessages = aClients[id].reliableMessages
    PROVE  acked' = acked
  <1>1. \A id \in aClientsById :
           ~(Len(aClients'[id].reliableMessages) < Len(aClients[id].reliableMessages))
    <2>1. SUFFICES ASSUME NEW id \in aClientsById
                   PROVE  ~(Len(aClients'[id].reliableMessages) < Len(aClients[id].reliableMessages))
      OBVIOUS
    <2>2. Len(aClients[id].reliableMessages) \in Nat
      OBVIOUS
    <2>3. QED
      BY <2>2
  <1>2. QED
    BY <1>1 DEF AProcesses, Acknowledged

\* A turn of updateClientConnectionStatus.
LEMMA VisitOfA ==
    ASSUME PromptNetwork, DeliveryInv, AProcesses, NEW id \in aTodo, SA!UpdateClientStatus(id)
    PROVE  id \in DOMAIN aClients /\ VisitStep(id)
  <1> DEFINE c == aClients[id]
             d == aClients'[id]
  <1>1. LinkInv /\ SA!TypeOK /\ DOMAIN aClients = SA!Referenced /\ DOMAIN aClients \subseteq {1}
        /\ ab \in Seq(SA!Datagram)
    BY FactsOfA, OneClient DEF DeliveryInv
  <1>2. id \in DOMAIN aClients /\ c \in SA!Client /\ DOMAIN aClients = {id}
    BY <1>1, OneClient DEF SA!TypeOK
  <1>3. /\ aCall = "status" /\ aTime = now
        /\ ab' = ab \o SA!ReliableTraffic(c) \o SA!PingTraffic(c)
        /\ UNCHANGED <<now, ba, aIdCounter>>
        /\ \/ aClients' = [aClients EXCEPT ![id] = SA!SetConnectionLost(SA!AfterReliableTraffic(c))]
           \/ aClients' = [aClients EXCEPT ![id] = SA!AfterReliableTraffic(c)]
    BY <1>1 DEF SA!UpdateClientStatus, LinkInv, ClockInv, SA!registry
  <1>4. /\ DOMAIN aClients' = DOMAIN aClients
        /\ d = SA!SetConnectionLost(SA!AfterReliableTraffic(c)) \/ d = SA!AfterReliableTraffic(c)
    BY <1>2, <1>3
  <1>5. SA!AfterReliableTraffic(c) \in SA!Client
    BY <1>1, <1>2, ServerConstants, SA!TrafficTypes
  <1>6. /\ d.reliableState = SA!AfterReliableTraffic(c).reliableState
        /\ d.reliableMessages = SA!AfterReliableTraffic(c).reliableMessages
        /\ d.reliableSentTime = SA!AfterReliableTraffic(c).reliableSentTime
        /\ d.timeoutPeriod = SA!AfterReliableTraffic(c).timeoutPeriod
    BY <1>4, <1>5 DEF SA!SetConnectionLost, SA!Client
  <1>7. /\ d.reliableMessages = c.reliableMessages /\ d.timeoutPeriod = c.timeoutPeriod
        /\ (c.reliableMessages = << >> \/ c.reliableState = -1) =>
              /\ d.reliableState = c.reliableState /\ d.reliableSentTime = c.reliableSentTime
        /\ (c.reliableMessages # << >> /\ c.reliableState # -1 /\ SA!NeedsReliableReset(c, aTime)) =>
              d.reliableState = -1
        /\ (c.reliableMessages # << >> /\ c.reliableState # -1 /\ ~SA!NeedsReliableReset(c, aTime)) =>
              /\ d.reliableState = c.reliableState
              /\ d.reliableSentTime = IF c.reliableSentTime = 0 THEN aTime ELSE c.reliableSentTime
    BY <1>2, <1>6
       DEF SA!AfterReliableTraffic, SA!StartReliableReset, SA!SetSendReliable, SA!Client
  <1>8. (c.reliableState # -1 /\ SA!NeedsReliableReset(c, aTime)) <=> Overdue(c)
    BY <1>3 DEF SA!NeedsReliableReset, Overdue
  <1>9. ByA /\ UNCHANGED <<accepted, acked>>
    <2>1. \A i \in aClientsById :
             /\ aClients[i].reliableMessages \in Seq(Message)
             /\ aClients'[i].reliableMessages = aClients[i].reliableMessages
      BY <1>1, <1>2, <1>7, OneClient DEF SA!Client
    <2>2. QED
      BY <1>3, <2>1, NothingAcknowledged DEF AProcesses, ByA, bVars
  <1>10. c.reliableState \in {-1, 0, 1} /\ c.reliableMessages \in Seq(Message)
    BY <1>2 DEF SA!Client
  <1>11. /\ SA!ReliableTraffic(c) \in Seq(SA!Datagram) /\ SA!PingTraffic(c) \in Seq(SA!Datagram)
         /\ ab \o SA!ReliableTraffic(c) \in Seq(SA!Datagram)
    BY <1>1, <1>2, ServerConstants, SA!TrafficTypes
  <1> DEFINE z == ab \o SA!ReliableTraffic(c)
  <1>12. Passes(z, ab', Requests \cup {"UNRELIABLE"})
    <2>1. CASE SA!PingTraffic(c) = << >>
      <3>1. ab' = z
        BY <1>3, <1>11, <2>1, ConcatEmptySeq
      <3>2. DOMAIN z \subseteq Nat
        BY <1>11
      <3>3. QED
        BY <3>1, <3>2, SameThinned DEF Passes
    <2>2. CASE SA!PingTraffic(c) # << >>
      <3> DEFINE m == SA!ToClient(c, "PING", SA!TimeStamp(aTime), NoData)
      <3>1. SA!PingTraffic(c) = << m >> /\ m.msgId = "PING"
        BY <2>2 DEF SA!PingTraffic, SA!ToClient, SA!Packet
      <3> HIDE DEF m
      <3>2. m \in SA!Datagram
        <4>1. << m >>[1] = m /\ 1 \in DOMAIN << m >>
          OBVIOUS
        <4>2. QED
          BY <1>11, <3>1, <4>1
      <3>3. ab' = Append(z, m)
        BY <1>3, <1>11, <3>1, <3>2, AppendIsConcat
      <3>4. QED
        BY <3>1, <3>2, <3>3 DEF Passes, Requests
    <2>3. QED
      BY <2>1, <2>2
  <1>13. CASE c.reliableMessages = << >> \/ Overdue(c)
    <2>1. SA!ReliableTraffic(c) = << >>
      BY <1>8, <1>13 DEF SA!ReliableTraffic
    <2>2. z = ab
      BY <1>1, <2>1, ConcatEmptySeq
    <2>3. CASE c.reliableMessages = << >>
      BY <1>2, <1>3, <1>4, <1>7, <1>9, <1>11, <1>12, <2>2, <2>3 DEF VisitStep
    <2>4. CASE c.reliableMessages # << >>
      <3>1. Overdue(c) /\ d.reliableState = -1
        BY <1>7, <1>8, <1>13, <2>4 DEF Overdue
      <3>2. QED
        BY <1>2, <1>3, <1>4, <1>7, <1>9, <1>11, <1>12, <2>2, <2>4, <3>1 DEF VisitStep
    <2>5. QED
      BY <2>3, <2>4
  <1>14. CASE c.reliableMessages # << >> /\ ~Overdue(c)
    <2> DEFINE m == SA!ToClient(c, SA!ReliableId(c.reliableState), SA!TimeStamp(aTime),
                       IF c.reliableState = -1 THEN NoData ELSE Head(c.reliableMessages))
    <2>1. SA!ReliableTraffic(c) = << m >>
      BY <1>8, <1>14 DEF SA!ReliableTraffic
    <2>2. /\ m.msgId = SA!ReliableId(c.reliableState)
          /\ m.data = IF c.reliableState = -1 THEN NoData ELSE Head(c.reliableMessages)
      BY DEF SA!ToClient, SA!Packet
    <2> HIDE DEF m
    <2>3. m \in SA!Datagram
      <3>1. << m >>[1] = m /\ 1 \in DOMAIN << m >>
        OBVIOUS
      <3>2. QED
        BY <1>11, <2>1, <3>1
    <2>4. z = Append(ab, m)
      BY <1>1, <2>1, <2>3, AppendIsConcat
    <2>5. CASE c.reliableState = -1
      <3>1. m.msgId = "RELIABLE_RESET" /\ d.reliableState = -1
        BY <1>7, <2>2, <2>5 DEF SA!ReliableId
      <3>2. QED
        BY <1>2, <1>3, <1>4, <1>7, <1>9, <1>11, <1>12, <2>3, <2>4, <2>5, <3>1 DEF VisitStep
    <2>6. CASE c.reliableState # -1
      <3>1. m.msgId = Reliable(c.reliableState) /\ m.data = Head(c.reliableMessages)
        BY <1>10, <2>2, <2>6 DEF SA!ReliableId, Reliable
      <3>2. /\ d.reliableState = c.reliableState
            /\ d.reliableSentTime = IF c.reliableSentTime = 0 THEN now ELSE c.reliableSentTime
        BY <1>3, <1>7, <1>8, <1>14, <2>6
      <3>3. QED
        BY <1>2, <1>3, <1>4, <1>7, <1>9, <1>11, <1>12, <1>14, <2>3, <2>4, <2>6, <3>1, <3>2
           DEF VisitStep
    <2>7. QED
      BY <2>5, <2>6
  <1>15. QED
    BY <1>13, <1>14

\* A turn of receiveMessages: only the answer that the client waits for matters.
LEMMA ReceiptOfA ==
    ASSUME PromptNetwork, DeliveryInv, AProcesses, SA!ReceiveMessages
    PROVE  OtherStep \/ \E id \in DOMAIN aClients : AnswerStep(id)
  <1>1. LinkInv /\ SA!TypeOK /\ DOMAIN aClients = SA!Referenced
        /\ ab \in Seq(SA!Datagram) /\ ba \in Seq(SA!Datagram)
    BY FactsOfA DEF DeliveryInv
  <1>2. /\ now' = now /\ aIdCounter' = aIdCounter
        /\ ba' = ba \/ (ba # << >> /\ ba' = Tail(ba))
    BY ServerConstants, SA!FrameStep, SA!InboxStep DEF SA!ProcessEvents
  <1>3. ByA /\ UNCHANGED accepted
    BY <1>2 DEF ByA, AProcesses, bVars
  <1>4. DOMAIN aClients' = DOMAIN aClients /\ \A id \in DOMAIN aClients : SA!ClientStep(id)
    BY <1>1, ServerConstants, SA!ReceiveHeap
  <1>5. Passes(ab, ab', Requests \cup {"UNRELIABLE"})
    <2>1. CASE ab' = ab
      <3>1. DOMAIN ab \subseteq Nat
        BY <1>1
      <3>2. QED
        BY <2>1, <3>1, SameThinned DEF Passes
    <2>2. CASE SA!Answered(SA!AnswerId)
      BY <2>2 DEF Passes, SA!Answered, SA!AnswerId, Requests
    <2>3. QED
      BY <1>1, <2>1, <2>2, ServerConstants, SA!ReceiveOutput
  <1>6. Passes(ba, ba', Answers)
    <2>1. DOMAIN ba \subseteq Nat
      BY <1>1
    <2>2. QED
      BY <1>1, <1>2, <2>1, SameThinned, TailThinned DEF Passes
  <1>7. aCall = "receive"
    BY DEF SA!ReceiveMessages, SA!ReceiveDatagram, SA!ReceiveNothing, SA!ReceiveFails,
           SA!ReceiveFailsOver, SA!ReceiveRefused, SA!ReceiveShort, SA!ReceiveForeign,
           SA!ReceiveSigned, SA!ReceiveMalformed, SA!Receives, SA!ProcessConnectionRequest,
           SA!ProcessConnectionHandshake, SA!ProcessPing, SA!ProcessPong, SA!ProcessUnreliable,
           SA!ProcessReliableReset, SA!ProcessReliableMessage, SA!ProcessReliableHandshake
  <1>8. \A id \in DOMAIN aClients :
           \/ aClients'[id] = aClients[id]
           \/ aClients'[id] = SA!ReceiveConnectionHandshake(aClients[id], aTime)
           \/ SA!Refreshed(id)
    BY <1>4, <1>7 DEF SA!ClientStep, SA!PendingAttempt, SA!SendReliableMessage, SA!Visited,
                      SA!UpdateClientStatus
  <1>9. \A id \in DOMAIN aClients : aClients[id] \in SA!Client
    BY <1>1, OneClient
  <1>10. \A c \in SA!Client : \A word :
            LET d == SA!ReceivePong(c, word, aTime)
            IN  /\ d.reliableState = c.reliableState /\ d.reliableMessages = c.reliableMessages
                /\ d.reliableSentTime = c.reliableSentTime /\ d.timeoutPeriod = c.timeoutPeriod
    BY DEF SA!ReceivePong, SA!Client
  <1>11. CASE \A id \in DOMAIN aClients : SameReliable(id)
    <2>1. \A id \in aClientsById :
             /\ aClients[id].reliableMessages \in Seq(Message)
             /\ aClients'[id].reliableMessages = aClients[id].reliableMessages
      BY <1>1, <1>9, <1>11, OneClient DEF SameReliable, SA!Client
    <2>2. acked' = acked
      BY <2>1, NothingAcknowledged
    <2>3. OtherStep
      BY <1>3, <1>4, <1>5, <1>6, <1>11, <2>2 DEF OtherStep, ByA, delivery
    <2>4. QED
      BY <2>3
  <1>12. ASSUME NEW id \in DOMAIN aClients, ~SameReliable(id)
         PROVE  AnswerStep(id)
    <2> DEFINE c == aClients[id]
               d == aClients'[id]
               e == SA!AcknowledgeReliable(c)
    <2>1. SA!Refreshed(id) /\ c \in SA!Client
      <3>1. c \in SA!Client
        BY <1>9
      <3>2. aClients'[id] # aClients[id]
        BY <1>12 DEF SameReliable
      <3>3. d # SA!ReceiveConnectionHandshake(c, aTime)
        <4>1. LET f == SA!ReceiveConnectionHandshake(c, aTime)
              IN  /\ f.reliableState = c.reliableState /\ f.reliableMessages = c.reliableMessages
                  /\ f.reliableSentTime = c.reliableSentTime /\ f.timeoutPeriod = c.timeoutPeriod
          BY <3>1 DEF SA!ReceiveConnectionHandshake, SA!Client
        <4>2. QED
          BY <1>12, <4>1 DEF SameReliable
      <3>4. QED
        BY <1>8, <3>1, <3>2, <3>3
    <2>2. d # SA!ReceivePong(c, SA!Incoming.word, aTime)
      BY <1>10, <1>12, <2>1 DEF SameReliable
    <2>3. /\ SA!ReceiveSigned /\ SA!FromClient /\ id = aClientsByAddress[SA!Incoming.src]
          /\ SA!Incoming.msgId = SA!ReliableHandshakeId(c.reliableState)
          /\ d = SA!ReceivePong(e, SA!Incoming.word, aTime)
      BY <2>1, <2>2 DEF SA!Refreshed
    <2>4. ba # << >> /\ ba' = Tail(ba) /\ SA!Incoming = Head(ba) /\ SA!Incoming.src \in {"a", "b"}
      <3>1. ba # << >> /\ ba' = Tail(ba) /\ SA!Incoming = Head(ba)
        BY <2>3 DEF SA!ReceiveSigned, SA!Incoming
      <3>2. Head(ba) \in SA!Datagram
        BY <1>1, <3>1
      <3>3. QED
        BY <3>1, <3>2 DEF SA!Datagram
    <2>5. id \in aClientsById /\ aClientsById = {id}
      <3>1. aClientsByAddress[SA!Incoming.src] \in aClientsById
        BY <2>3, <2>4, FactsOfA DEF DeliveryInv, SA!MapsMatch, SA!FromClient
      <3>2. QED
        BY <1>1, <2>3, <3>1, OneClient
    <2>6. /\ e.reliableState = (IF c.reliableState = 0 THEN 1 ELSE 0)
          /\ e.reliableMessages = (IF c.reliableState # -1 /\ c.reliableMessages # << >>
                                   THEN Tail(c.reliableMessages) ELSE c.reliableMessages)
          /\ e.reliableSentTime = 0
      BY <2>1 DEF SA!AcknowledgeReliable, SA!Client
    <2>7. e \in SA!Client
      BY <2>1, ServerConstants, SA!ClientTypes
    <2>8. /\ d.reliableState = e.reliableState /\ d.reliableMessages = e.reliableMessages
          /\ d.reliableSentTime = e.reliableSentTime
      BY <1>10, <2>3, <2>7
    <2>9. c.reliableMessages \in Seq(Message)
      BY <2>1 DEF SA!Client
    <2>10. CASE c.reliableState # -1 /\ c.reliableMessages # << >>
      <3>1. d.reliableMessages = Tail(c.reliableMessages)
        BY <2>6, <2>8, <2>10
      <3>2. Len(d.reliableMessages) < Len(c.reliableMessages)
        BY <2>9, <2>10, <3>1
      <3>3. {i \in aClientsById :
               Len(aClients'[i].reliableMessages) < Len(aClients[i].reliableMessages)} = {id}
        BY <2>5, <3>2
      <3>4. acked' = Head(c.reliableMessages)
        BY <3>3 DEF AProcesses, Acknowledged
      <3>5. QED
        BY <1>3, <1>4, <1>5, <2>3, <2>4, <2>6, <2>8, <2>10, <3>1, <3>4 DEF AnswerStep
    <2>11. CASE ~(c.reliableState # -1 /\ c.reliableMessages # << >>)
      <3>1. d.reliableMessages = c.reliableMessages
        BY <2>6, <2>8, <2>11
      <3>2. acked' = acked
        BY <2>5, <2>9, <3>1, NothingAcknowledged
      <3>3. QED
        BY <1>3, <1>4, <1>5, <2>3, <2>4, <2>6, <2>8, <2>11, <3>1, <3>2 DEF AnswerStep
    <2>12. QED
      BY <2>10, <2>11
  <1>13. QED
    BY <1>11, <1>12

\* A's call of udcProcessEvents.
LEMMA EventsOfA ==
    ASSUME PromptNetwork, DeliveryInv, AProcesses
    PROVE  OtherStep \/ \E id \in DOMAIN aClients : AnswerStep(id) \/ VisitStep(id)
  <1>1. LinkInv /\ SA!TypeOK /\ DOMAIN aClients = SA!Referenced /\ SA!ProcessEvents
    BY FactsOfA, SameServerA DEF DeliveryInv, AProcesses
  <1>2. Passes(ab, ab, Requests \cup {"UNRELIABLE"}) /\ Passes(ba, ba, Answers)
    <2>1. DOMAIN ab \subseteq Nat /\ DOMAIN ba \subseteq Nat
      BY <1>1, FactsOfA
    <2>2. QED
      BY <2>1, SameThinned DEF Passes
  <1>3. \A id \in DOMAIN aClients : aClients[id] \in SA!Client
    BY <1>1, OneClient
  <1>4. ASSUME UNCHANGED <<now, ba, aIdCounter>>,
               aClientsById \subseteq DOMAIN aClients',
               DOMAIN aClients' \subseteq DOMAIN aClients,
               \A id \in DOMAIN aClients' : SameReliable(id),
               Passes(ab, ab', Requests \cup {"UNRELIABLE"})
        PROVE  OtherStep
    <2>1. \A id \in aClientsById :
             /\ aClients[id].reliableMessages \in Seq(Message)
             /\ aClients'[id].reliableMessages = aClients[id].reliableMessages
      BY <1>3, <1>4 DEF SameReliable, SA!Client
    <2>2. acked' = acked
      BY <2>1, NothingAcknowledged
    <2>3. QED
      BY <1>2, <1>4, <2>2 DEF OtherStep, AProcesses, bVars, delivery
  <1>5. CASE SA!PendingTimeout
    <2>1. /\ UNCHANGED <<now, ab, ba, aIdCounter, aClientsById>>
          /\ aClients' = SA!Restrict(aClients, SA!Referenced')
      BY <1>5 DEF SA!PendingTimeout, SA!environment
    <2>2. LinkInv'
      BY <1>1, ActionsOfA
    <2>3. DOMAIN aClients' = SA!Referenced' /\ aClientsById' \subseteq SA!Referenced'
      BY <2>2, FactsOfA DEF LinkInv, SA!TypeOK, SA!Referenced
    <2>4. \A i \in DOMAIN aClients' : (i \in SA!Referenced /\ SA!ClientStep(i)) \/ SA!Created(i)
      BY <1>1, ServerConstants, SA!HeapStep DEF SA!Next
    <2>5. \A i : ~SA!Created(i)
      BY <1>1, <2>1 DEF SA!Created, SA!TryConnect, SA!TypeOK
    <2>6. DOMAIN aClients' \subseteq DOMAIN aClients /\ \A i \in DOMAIN aClients' : aClients'[i] = aClients[i]
      BY <1>1, <2>1, <2>4, <2>5 DEF SA!Restrict
    <2>7. OtherStep
      BY <1>2, <1>4, <2>1, <2>3, <2>6 DEF SameReliable
    <2>8. QED
      BY <2>7
  <1>6. CASE SA!PendingAttempt
    <2> DEFINE id == Head(aPendingClients)
               m  == SA!ToClient(aClients[id], "CONNECTION_REQUEST", id, NoData)
    <2>1. /\ UNCHANGED <<now, ba, aIdCounter, aClientsById>> /\ aPendingClients # << >>
          /\ aClients' = [aClients EXCEPT ![id] = SA!RetryConnecting(aClients[id], now)]
          /\ ab' = Append(ab, m)
      BY <1>6 DEF SA!PendingAttempt, SA!registry
    <2>2. id \in DOMAIN aClients /\ id \in Nat
      BY <1>1, <2>1, ServerConstants, SA!TypeFacts
    <2>3. m \in SA!Datagram /\ m.msgId = "CONNECTION_REQUEST"
      <3>1. m \in SA!Datagram
        BY <1>1, <1>3, <2>2, ServerConstants, SA!ToClientType DEF SA!MsgId
      <3>2. QED
        BY <3>1 DEF SA!ToClient, SA!Packet
    <2> HIDE DEF m
    <2>4. Passes(ab, ab', Requests \cup {"UNRELIABLE"})
      BY <2>1, <2>3 DEF Passes, Requests
    <2>5. /\ DOMAIN aClients' = DOMAIN aClients
          /\ \A i \in DOMAIN aClients : i # id => aClients'[i] = aClients[i]
          /\ aClients'[id] = SA!RetryConnecting(aClients[id], now)
      BY <2>1, <2>2
    <2>6. SameReliable(id)
      BY <1>3, <2>2, <2>5 DEF SameReliable, SA!RetryConnecting, SA!Client
    <2>7. \A i \in DOMAIN aClients' : SameReliable(i)
      BY <2>5, <2>6 DEF SameReliable
    <2>8. OtherStep
      BY <1>1, <1>4, <2>1, <2>4, <2>5, <2>7, OneClient
    <2>9. QED
      BY <2>8
  <1>7. CASE SA!PendingWait
    <2>1. UNCHANGED <<now, ab, ba, aIdCounter, aClientsById, aClients>>
      BY <1>7 DEF SA!PendingWait, SA!environment, SA!registry
    <2>2. OtherStep
      BY <1>1, <1>2, <1>4, <2>1, OneClient DEF SameReliable
    <2>3. QED
      BY <2>2
  <1>8. QED
    BY <1>1, <1>5, <1>6, <1>7, VisitOfA, ReceiptOfA DEF SA!ProcessEvents, SA!UpdatePendingClients

-----------------------------------------------------------------------------
(* The network and the clock.                                               *)

\* Losses and repetitions keep the order.
LEMMA NetworkPasses ==
    ASSUME PromptNetwork, DeliveryInv, Lose \/ Duplicate \/ Reorder \/ UNCHANGED vars
    PROVE  OtherStep
  <1>1. /\ ab \in Seq(SA!Datagram) /\ ba \in Seq(SA!Datagram)
        /\ DOMAIN ab \subseteq Nat /\ DOMAIN ba \subseteq Nat
    BY FactsOfA DEF DeliveryInv
  <1>2. Thinned(ab, ab) /\ Thinned(ba, ba)
    BY <1>1, SameThinned
  <1>3. ~Reorder
    BY DEF PromptNetwork, Reorder
  <1>4. UNCHANGED <<now, aIdCounter, aClients, bReliableStates, delivery>>
    BY DEF Lose, Duplicate, Reorder, vars, aVars, bVars, history, delivery
  <1>5. Thinned(ab', ab) /\ Thinned(ba', ba)
    <2>1. CASE Lose
      BY <1>1, <1>2, <2>1, TailThinned DEF Lose
    <2>2. CASE Duplicate
      BY <1>1, <1>2, <2>2, InsertThinned DEF Duplicate
    <2>3. CASE UNCHANGED vars
      BY <1>2, <2>3 DEF vars
    <2>4. QED
      BY <1>3, <2>1, <2>2, <2>3
  <1>6. QED
    BY <1>4, <1>5 DEF OtherStep, SameReliable, Passes

\* Time passes when nothing is on its way.
LEMMA ClockPasses ==
    ASSUME PromptNetwork, DeliveryInv, Tick
    PROVE  /\ ab = << >> /\ ba = << >> /\ UNCHANGED <<ab, ba, aIdCounter, bReliableStates, delivery>>
           /\ DOMAIN aClients' = DOMAIN aClients
           /\ \A id \in DOMAIN aClients :
                 /\ aClients'[id].reliableState = aClients[id].reliableState
                 /\ aClients'[id].reliableMessages = aClients[id].reliableMessages
  <1>1. /\ ab = << >> /\ ba = << >> /\ UNCHANGED <<ab, ba, aIdCounter, bReliableStates, delivery>>
    BY DEF PromptNetwork, Tick, Quiet, bVars, history, delivery
  <1>2. CASE UNCHANGED aClients
    BY <1>1, <1>2
  <1>3. CASE Endless /\ aClients' = [id \in DOMAIN aClients |-> Aged(aClients[id])]
    <2>1. \A id \in DOMAIN aClients :
             /\ aClients[id] \in SA!Client /\ aClients'[id] = Aged(aClients[id])
             /\ aClients[id].pingPeriod = SA!PingPeriodOf(Timeout)
             /\ aClients[id].timeoutPeriod = SA!TimeoutPeriodOf(Timeout)
      BY <1>3, OneClient DEF DeliveryInv, LinkInv, ClientInv
    <2>2. QED
      BY <1>1, <1>3, <2>1, AgedClient
  <1>4. QED
    BY <1>2, <1>3 DEF Tick

-----------------------------------------------------------------------------
(* The invariant.                                                           *)

\* What a channel may let pass keeps the protocol and leaves nothing on its way that was not.
LEMMA PassingRequests ==
    ASSUME NEW s, NEW e, NEW x \in Seq(SA!Datagram), NEW u \in Seq(SA!Datagram), NEW y,
           NEW acc, NEW del, NEW ack, NEW fgt, DOMAIN y \subseteq Nat,
           Passes(x, u, Requests \cup {"UNRELIABLE"}), Protocol(s, e, x, y, acc, del, ack, fgt)
    PROVE  Protocol(s, e, u, y, acc, del, ack, fgt) /\ (Has(u, Requests) => Has(x, Requests))
  <1>1. DOMAIN x \subseteq Nat /\ DOMAIN u \subseteq Nat /\ Thinned(y, y)
    BY SameThinned
  <1>2. CASE Thinned(u, x)
    BY <1>1, <1>2, ThinnedProtocol, ThinnedChannel
  <1>3. ASSUME NEW m \in SA!Datagram, m.msgId \notin Requests \cup {"UNRELIABLE"}, u = Append(x, m)
        PROVE  Protocol(s, e, u, y, acc, del, ack, fgt) /\ (Has(u, Requests) => Has(x, Requests))
    BY <1>3, OtherRequest, AppendChannel
  <1>4. QED
    BY <1>2, <1>3 DEF Passes

\* The same for the channel back.
LEMMA PassingAnswers ==
    ASSUME NEW s, NEW e, NEW x, NEW y \in Seq(SA!Datagram), NEW v \in Seq(SA!Datagram),
           NEW acc, NEW del, NEW ack, NEW fgt, DOMAIN x \subseteq Nat,
           Passes(y, v, Answers), Protocol(s, e, x, y, acc, del, ack, fgt)
    PROVE  Protocol(s, e, x, v, acc, del, ack, fgt) /\ (Has(v, Answers) => Has(y, Answers))
  <1>1. DOMAIN y \subseteq Nat /\ DOMAIN v \subseteq Nat /\ Thinned(x, x)
    BY SameThinned
  <1>2. CASE Thinned(v, y)
    BY <1>1, <1>2, ThinnedProtocol, ThinnedChannel
  <1>3. ASSUME NEW m \in SA!Datagram, m.msgId \notin Answers, v = Append(y, m)
        PROVE  Protocol(s, e, x, v, acc, del, ack, fgt) /\ (Has(v, Answers) => Has(y, Answers))
    BY <1>3, OtherAnswer, AppendChannel
  <1>4. QED
    BY <1>2, <1>3 DEF Passes

\* The types of the channels, which every step starts from.
LEMMA ChannelFacts ==
    ASSUME LinkInv
    PROVE  /\ ab \in Seq(SA!Datagram) /\ DOMAIN ab \subseteq Nat
           /\ ba \in Seq(SA!Datagram) /\ DOMAIN ba \subseteq Nat
  BY FactsOfA

\* ... and arrives at.
LEMMA NextChannels ==
    ASSUME LinkInv'
    PROVE  /\ ab' \in Seq(SA!Datagram) /\ DOMAIN ab' \subseteq Nat
           /\ ba' \in Seq(SA!Datagram) /\ DOMAIN ba' \subseteq Nat
  <1>1. ab' \in Seq(SA!Datagram) /\ ba' \in Seq(SA!Datagram)
    BY DEF LinkInv, SA!TypeOK
  <1>2. QED
    BY <1>1

\* The numbers of the messages.
LEMMA CountFacts ==
    ASSUME NEW s, InState(s)
    PROVE  /\ accepted \in Nat /\ acked \in Nat /\ delivered \in Nat /\ acked <= accepted
           /\ bReliableStates["a"] \in {-1, 0, 1}
  BY DEF InState, Protocol, Counts

\* A step that the protocol does not notice.
LEMMA OtherKeeps ==
    ASSUME DeliveryInv, LinkInv', OtherStep
    PROVE  DeliveryInv' /\ UNCHANGED InOrder!delivery
  <1>1. PICK s \in {-1, 0, 1} : InState(s)
    BY DEF DeliveryInv
  <1>2. /\ ab \in Seq(SA!Datagram) /\ DOMAIN ab \subseteq Nat
        /\ ba \in Seq(SA!Datagram) /\ DOMAIN ba \subseteq Nat
        /\ ab' \in Seq(SA!Datagram) /\ DOMAIN ab' \subseteq Nat
        /\ ba' \in Seq(SA!Datagram) /\ DOMAIN ba' \subseteq Nat
    BY ChannelFacts, NextChannels DEF DeliveryInv
  <1> DEFINE e == bReliableStates["a"]
  <1>3. /\ Protocol(s, e, ab', ba, accepted, delivered, acked, forgot)
        /\ Has(ab', Requests) => Has(ab, Requests)
    <2>1. Protocol(s, e, ab, ba, accepted, delivered, acked, forgot)
      BY <1>1 DEF InState
    <2>2. Passes(ab, ab', Requests \cup {"UNRELIABLE"})
      BY DEF OtherStep
    <2>3. QED
      BY <1>2, <2>1, <2>2, PassingRequests
  <1>4. /\ Protocol(s, e, ab', ba', accepted, delivered, acked, forgot)
        /\ Has(ba', Answers) => Has(ba, Answers)
    BY <1>2, <1>3, PassingAnswers DEF OtherStep
  <1>5. UNCHANGED <<now, aIdCounter, accepted, delivered, acked, repeated, forgot>>
        /\ bReliableStates'["a"] = e
    BY DEF OtherStep, delivery
  <1>6. InState(s)'
    BY <1>1, <1>4, <1>5 DEF InState, OtherStep, SameReliable
  <1>7. ASSUME NEW id \in DOMAIN aClients'
        PROVE  /\ aClients'[id].reliableMessages = Queue(accepted, acked)
               /\ Overdue(aClients[id])' => ~Has(ab', Requests) /\ ~Has(ba', Answers)
    <2>1. id \in DOMAIN aClients /\ SameReliable(id)
      BY <1>7 DEF OtherStep
    <2>2. Overdue(aClients[id])' => Overdue(aClients[id])
      BY <1>5, <2>1 DEF Overdue, SameReliable
    <2>3. QED
      BY <1>3, <1>4, <2>1, <2>2 DEF DeliveryInv, QueueInv, SameReliable
  <1>8. QueueInv'
    BY <1>5, <1>7 DEF QueueInv
  <1>9. QED
    BY <1>5, <1>6, <1>8 DEF DeliveryInv, InOrder!delivery

\* B answers, and the protocol goes on: while a request was on its way, A had not given up.
LEMMA AnswerOfB ==
    ASSUME DeliveryInv, LinkInv', NEW msgId \in Requests, NEW answer, Answer(msgId, answer),
           NEW s \in {-1, 0, 1}, InState(s), repeated' \in BOOLEAN, forgot' \in BOOLEAN,
           Protocol(s, bReliableStates'["a"], ab', ba', accepted, delivered', acked, forgot')
    PROVE  DeliveryInv'
  <1>1. UNCHANGED <<now, aIdCounter, aClients, accepted, acked>>
    BY DEF Answer
  <1>2. Has(ab, Requests)
    <2>1. ab \in Seq(SA!Datagram) /\ ab # << >> /\ Head(ab).msgId \in Requests
      BY ChannelFacts DEF Answer, DeliveryInv
    <2>2. QED
      BY <2>1, HeadBefore
  <1>3. InState(s)'
    BY <1>1 DEF InState
  <1>4. QueueInv'
    BY <1>1, <1>2 DEF DeliveryInv, QueueInv, Overdue
  <1>5. QED
    BY <1>3, <1>4 DEF DeliveryInv

\* B gets a request to reset.
LEMMA ResetKeeps ==
    ASSUME DeliveryInv, LinkInv', ResetStep
    PROVE  DeliveryInv' /\ UNCHANGED InOrder!delivery
  <1>1. PICK s \in {-1, 0, 1} : InState(s)
    BY DEF DeliveryInv
  <1>2. PICK m \in SA!Datagram : m.msgId = "RELIABLE_HANDSHAKE_RESET" /\ ba' = Append(ba, m)
    BY DEF ResetStep, Answer
  <1>3. /\ ab # << >> /\ Head(ab).msgId = "RELIABLE_RESET" /\ ab' = Tail(ab)
        /\ bReliableStates'["a"] = IF bReliableStates["a"] = -1 THEN -1 ELSE 0
        /\ UNCHANGED <<accepted, delivered, acked, repeated, forgot>>
    BY DEF ResetStep, Answer, delivery
  <1>4. Protocol(s, bReliableStates["a"], ab, ba, accepted, delivered, acked, forgot)
    BY <1>1 DEF InState
  <1>5. ab \in Seq(SA!Datagram) /\ ba \in Seq(SA!Datagram)
    BY ChannelFacts DEF DeliveryInv
  <1>6. Protocol(s, bReliableStates'["a"], ab', ba', accepted, delivered, acked, forgot)
    BY <1>2, <1>3, <1>4, <1>5, ResetReceived
  <1>7. "RELIABLE_RESET" \in Requests /\ repeated' \in BOOLEAN /\ forgot' \in BOOLEAN
    BY <1>3 DEF Requests, DeliveryInv
  <1>8. QED
    BY <1>1, <1>3, <1>6, <1>7, AnswerOfB DEF ResetStep, InOrder!delivery

\* B gets a message.
LEMMA MessageKeeps ==
    ASSUME DeliveryInv, LinkInv', NEW t \in {0, 1}, MessageStep(t)
    PROVE  DeliveryInv' /\ [InOrder!Next]_(InOrder!delivery)
  <1>1. PICK s \in {-1, 0, 1} : InState(s)
    BY DEF DeliveryInv
  <1>2. PICK m \in SA!Datagram : m.msgId = Handshake(t) /\ ba' = Append(ba, m)
    BY DEF MessageStep, Answer
  <1>3. /\ ab # << >> /\ Head(ab).msgId = Reliable(t) /\ ab' = Tail(ab)
        /\ bReliableStates'["a"] = 1 - t /\ UNCHANGED <<accepted, acked>>
    BY DEF MessageStep, Answer
  <1>4. Protocol(s, bReliableStates["a"], ab, ba, accepted, delivered, acked, forgot)
    BY <1>1 DEF InState
  <1>5. ab \in Seq(SA!Datagram) /\ ba \in Seq(SA!Datagram)
    BY ChannelFacts DEF DeliveryInv
  <1> DEFINE e == bReliableStates["a"]
             d == Head(ab).data
  <1>6. /\ e \in {-1, t} =>
              /\ NextOrAgain(d, accepted, delivered, acked, forgot)
              /\ Protocol(s, 1 - t, Tail(ab), Append(ba, m), accepted, d, acked, FALSE)
        /\ e \notin {-1, t} =>
              Protocol(s, 1 - t, Tail(ab), Append(ba, m), accepted, delivered, acked, forgot)
    <2>1. ab # << >> /\ Head(ab).msgId = Reliable(t) /\ m.msgId = Handshake(t)
      BY <1>2, <1>3
    <2>2. Protocol(s, e, ab, ba, accepted, delivered, acked, forgot)
      BY <1>4
    <2> HIDE DEF e
    <2>3. QED
      BY <1>5, <2>1, <2>2, MessageReceived
  <1>7. Reliable(t) \in Requests /\ repeated \in BOOLEAN /\ forgot \in BOOLEAN
    BY DEF Requests, Reliable, DeliveryInv
  <1>8. delivered \in Nat /\ acked \in Nat /\ accepted \in Nat
    BY <1>1, CountFacts
  <1>9. Answer(Reliable(t), Handshake(t))
    BY DEF MessageStep
  <1>10. CASE e \in {-1, t}
    <2>1. delivered' = d /\ repeated' = (repeated \/ d <= delivered) /\ forgot' = FALSE
      BY <1>10 DEF MessageStep
    <2>2. DeliveryInv'
      <3>1. Protocol(s, bReliableStates'["a"], ab', ba', accepted, delivered', acked, forgot')
        BY <1>2, <1>3, <1>6, <1>10, <2>1
      <3>2. repeated' \in BOOLEAN /\ forgot' \in BOOLEAN
        BY <1>7, <2>1
      <3>3. QED
        BY <1>1, <1>7, <1>9, <3>1, <3>2, AnswerOfB
    <2>3. CASE d = delivered + 1 /\ delivered = acked /\ delivered < accepted
      <3>1. repeated' = repeated
        BY <1>7, <1>8, <2>1, <2>3
      <3>2. InOrder!Deliver
        BY <1>3, <2>1, <2>3, <3>1 DEF InOrder!Deliver
      <3>3. QED
        BY <2>2, <3>2 DEF InOrder!Next
    <2>4. CASE d = delivered /\ delivered > 0 /\ (delivered = acked + 1 \/ forgot)
      <3>1. d <= delivered
        BY <1>8, <2>4
      <3>2. repeated' = TRUE
        BY <2>1, <3>1
      <3>3. InOrder!DeliverAgain
        BY <1>3, <2>1, <2>4, <3>2 DEF InOrder!DeliverAgain
      <3>4. QED
        BY <2>2, <3>3 DEF InOrder!Next
    <2>5. QED
      BY <1>6, <1>10, <2>3, <2>4 DEF NextOrAgain
  <1>11. CASE e \notin {-1, t}
    <2>1. UNCHANGED <<delivered, repeated, forgot>>
      BY <1>11 DEF MessageStep
    <2>2. DeliveryInv'
      <3>1. Protocol(s, bReliableStates'["a"], ab', ba', accepted, delivered', acked, forgot')
        BY <1>2, <1>3, <1>6, <1>11, <2>1
      <3>2. QED
        BY <1>1, <1>7, <1>9, <2>1, <3>1, AnswerOfB
    <2>3. QED
      BY <1>3, <2>1, <2>2 DEF InOrder!delivery
  <1>12. QED
    BY <1>10, <1>11

\* B is restarted.
LEMMA RestartKeeps ==
    ASSUME DeliveryInv, LinkInv', BRestarts
    PROVE  DeliveryInv' /\ [InOrder!Next]_(InOrder!delivery)
  <1>1. PICK s \in {-1, 0, 1} : InState(s)
    BY DEF DeliveryInv
  <1>2. /\ UNCHANGED <<now, ab, ba, aIdCounter, aClients, accepted, delivered, acked, repeated>>
        /\ forgot' = TRUE /\ bReliableStates'["a"] = -1
    BY SameServerB DEF BRestarts, aVars, SB!NotInHash
  <1>3. Protocol(s, -1, ab, ba, accepted, delivered, acked, TRUE)
    BY <1>1, ReceiverRestarted DEF InState
  <1>4. InState(s)' /\ QueueInv'
    BY <1>1, <1>2, <1>3 DEF DeliveryInv, InState, QueueInv, Overdue
  <1>5. InOrder!Forget
    BY <1>2 DEF InOrder!Forget
  <1>6. QED
    BY <1>2, <1>4, <1>5 DEF DeliveryInv, InOrder!Next

\* A connects.
LEMMA ConnectKeeps ==
    ASSUME DeliveryInv, LinkInv', ConnectStep
    PROVE  DeliveryInv' /\ UNCHANGED InOrder!delivery
  <1>1. PICK s \in {-1, 0, 1} : InState(s)
    BY DEF DeliveryInv
  <1>2. s = 0 /\ accepted = 0 /\ acked = 0
    BY <1>1, CountFacts DEF InState, ConnectStep
  <1>3. Queue(accepted, acked) = << >>
    BY <1>2, QueueFacts
  <1>4. UNCHANGED <<now, ab, ba, bReliableStates, accepted, delivered, acked, repeated, forgot>>
        /\ aIdCounter' = 1
    BY DEF ConnectStep, delivery
  <1>5. InState(s)'
    BY <1>1, <1>2, <1>4 DEF InState, ConnectStep
  <1>6. QueueInv'
    BY <1>3, <1>4 DEF QueueInv, ConnectStep, Overdue
  <1>7. QED
    BY <1>4, <1>5, <1>6 DEF DeliveryInv, InOrder!delivery

\* A's application sends a message.
LEMMA AcceptKeeps ==
    ASSUME PromptNetwork, DeliveryInv, LinkInv', AcceptStep
    PROVE  DeliveryInv' /\ [InOrder!Next]_(InOrder!delivery)
  <1>1. PICK s \in {-1, 0, 1} : InState(s)
    BY DEF DeliveryInv
  <1>2. UNCHANGED <<now, aIdCounter, bReliableStates, delivered, repeated, forgot, ab, ba, acked>>
        /\ accepted' = accepted + 1 /\ DOMAIN aClients' = DOMAIN aClients /\ DOMAIN aClients # {}
    BY DEF AcceptStep, ByA
  <1>3. Protocol(s, bReliableStates["a"], ab, ba, accepted + 1, delivered, acked, forgot)
    BY <1>1, MessageAccepted DEF InState
  <1>4. aIdCounter # 0
    BY <1>2, OneClient DEF DeliveryInv
  <1>5. InState(s)'
    BY <1>1, <1>2, <1>3, <1>4 DEF InState, AcceptStep
  <1>6. Append(Queue(accepted, acked), accepted + 1) = Queue(accepted + 1, acked)
    BY <1>1, CountFacts, QueueFacts
  <1>7. QueueInv'
    BY <1>2, <1>6 DEF DeliveryInv, QueueInv, AcceptStep, Overdue
  <1>8. InOrder!Accept
    BY <1>2 DEF InOrder!Accept
  <1>9. QED
    BY <1>2, <1>5, <1>7, <1>8 DEF DeliveryInv, InOrder!Next

\* A gets the answer that its client waits for.
LEMMA AnswerKeeps ==
    ASSUME PromptNetwork, DeliveryInv, LinkInv', NEW id \in DOMAIN aClients, AnswerStep(id)
    PROVE  DeliveryInv' /\ [InOrder!Next]_(InOrder!delivery)
  <1> DEFINE e == bReliableStates["a"]
             c == aClients[id]
  <1>1. PICK s \in {-1, 0, 1} : InState(s)
    BY DEF DeliveryInv
  <1>2. /\ Protocol(s, e, ab, ba, accepted, delivered, acked, forgot)
        /\ c.reliableState = s /\ c.reliableMessages = Queue(accepted, acked)
    BY <1>1 DEF InState, DeliveryInv, QueueInv
  <1>3. /\ UNCHANGED <<now, aIdCounter, bReliableStates, accepted, delivered, repeated, forgot>>
        /\ DOMAIN aClients' = DOMAIN aClients
        /\ ba # << >> /\ ba' = Tail(ba) /\ Passes(ab, ab', Requests \cup {"UNRELIABLE"})
        /\ Head(ba).msgId = SA!ReliableHandshakeId(s)
        /\ aClients'[id].reliableState = IF s = 0 THEN 1 ELSE 0
        /\ aClients'[id].reliableSentTime = 0
    BY <1>2 DEF AnswerStep, ByA
  <1>4. DOMAIN aClients' = {id} /\ aIdCounter' # 0
    BY <1>3, OneClient DEF DeliveryInv
  <1>5. /\ ab \in Seq(SA!Datagram) /\ DOMAIN ab \subseteq Nat /\ ba \in Seq(SA!Datagram)
        /\ ab' \in Seq(SA!Datagram) /\ DOMAIN ba' \subseteq Nat
    BY ChannelFacts, NextChannels DEF DeliveryInv
  <1>6. accepted \in Nat /\ acked \in Nat /\ acked <= accepted
    BY <1>1, CountFacts
  <1>7. ASSUME NEW r \in {0, 1}, aClients'[id].reliableState = r,
               Protocol(r, e, ab, ba', accepted, delivered, acked', forgot),
               aClients'[id].reliableMessages = Queue(accepted, acked')
        PROVE  DeliveryInv'
    <2>1. Protocol(r, e, ab', ba', accepted, delivered, acked', forgot)
      <3>1. Passes(ab, ab', Requests \cup {"UNRELIABLE"})
        BY <1>3
      <3>2. Protocol(r, e, ab, ba', accepted, delivered, acked', forgot)
        BY <1>7
      <3> HIDE DEF e
      <3>3. QED
        BY <1>5, <3>1, <3>2, PassingRequests
    <2>2. InState(r)'
      BY <1>3, <1>4, <1>7, <2>1 DEF InState
    <2>3. QueueInv'
      BY <1>3, <1>4, <1>7 DEF QueueInv, Overdue
    <2>4. QED
      BY <1>3, <2>2, <2>3 DEF DeliveryInv
  <1>8. CASE s \in {0, 1}
    <2>1. Head(ba).msgId = Handshake(s) /\ 1 - s \in {0, 1} /\ aClients'[id].reliableState = 1 - s
      BY <1>3, <1>8 DEF SA!ReliableHandshakeId, Handshake
    <2>2. /\ acked < delivered /\ acked < accepted
          /\ Protocol(1 - s, e, ab, Tail(ba), accepted, delivered, acked + 1, forgot)
      <3> HIDE DEF e
      <3>1. QED
        BY <1>2, <1>3, <1>5, <1>8, <2>1, MessageAnswered
    <2>3. c.reliableMessages # << >> /\ s # -1
      BY <1>2, <1>6, <1>8, <2>2, QueueFacts
    <2>4. acked' = acked + 1 /\ aClients'[id].reliableMessages = Queue(accepted, acked + 1)
      <3>1. /\ acked' = Head(Queue(accepted, acked))
            /\ aClients'[id].reliableMessages = Tail(Queue(accepted, acked))
        BY <1>2, <2>3 DEF AnswerStep
      <3>2. QED
        BY <1>6, <2>2, <3>1, QueueFacts
    <2>5. DeliveryInv'
      BY <1>3, <1>7, <2>1, <2>2, <2>4
    <2>6. InOrder!Acknowledge
      BY <1>3, <2>2, <2>4 DEF InOrder!Acknowledge
    <2>7. QED
      BY <2>5, <2>6 DEF InOrder!Next
  <1>9. CASE s = -1
    <2>1. Head(ba).msgId = "RELIABLE_HANDSHAKE_RESET" /\ aClients'[id].reliableState = 0
      BY <1>3, <1>9 DEF SA!ReliableHandshakeId
    <2>2. acked' = acked /\ aClients'[id].reliableMessages = Queue(accepted, acked')
      BY <1>2, <1>9 DEF AnswerStep
    <2>3. Protocol(0, e, ab, Tail(ba), accepted, delivered, acked, forgot)
      <3>1. Protocol(-1, e, ab, ba, accepted, delivered, acked, forgot)
        BY <1>2, <1>9
      <3> HIDE DEF e
      <3>2. QED
        BY <1>3, <1>5, <2>1, <3>1, ResetAnswered
    <2>4. DeliveryInv'
      BY <1>3, <1>7, <2>1, <2>2, <2>3
    <2>5. QED
      BY <1>3, <2>2, <2>4 DEF InOrder!delivery
  <1>10. QED
    BY <1>8, <1>9

\* A visits its client: it waits, gives up, asks for a reset or sends the first message.
LEMMA VisitKeeps ==
    ASSUME PromptNetwork, DeliveryInv, LinkInv', NEW id \in DOMAIN aClients, VisitStep(id)
    PROVE  DeliveryInv' /\ UNCHANGED InOrder!delivery
  <1> DEFINE e == bReliableStates["a"]
             c == aClients[id]
             d == aClients'[id]
  <1>1. PICK s \in {-1, 0, 1} : InState(s)
    BY DEF DeliveryInv
  <1>2. /\ Protocol(s, e, ab, ba, accepted, delivered, acked, forgot)
        /\ c.reliableState = s /\ c.reliableMessages = Queue(accepted, acked)
        /\ Overdue(c) => ~Has(ab, Requests) /\ ~Has(ba, Answers)
    BY <1>1 DEF InState, DeliveryInv, QueueInv
  <1>3. /\ UNCHANGED <<now, aIdCounter, bReliableStates, ba, accepted, delivered, acked,
                       repeated, forgot>>
        /\ DOMAIN aClients' = DOMAIN aClients
        /\ d.reliableMessages = c.reliableMessages /\ d.timeoutPeriod = c.timeoutPeriod
    BY DEF VisitStep, ByA
  <1>4. DOMAIN aClients' = {id} /\ aIdCounter' # 0
    BY <1>3, OneClient DEF DeliveryInv
  <1>5. /\ ab \in Seq(SA!Datagram) /\ DOMAIN ba \subseteq Nat /\ ab' \in Seq(SA!Datagram)
    BY ChannelFacts, NextChannels DEF DeliveryInv
  <1>6. accepted \in Nat /\ acked \in Nat /\ acked <= accepted
    BY <1>1, CountFacts
  <1>7. PICK z \in Seq(SA!Datagram) :
              /\ Passes(z, ab', Requests \cup {"UNRELIABLE"})
              /\ \/ /\ c.reliableMessages = << >> /\ z = ab
                    /\ d.reliableState = s
                    /\ d.reliableSentTime = c.reliableSentTime
                 \/ /\ c.reliableMessages # << >> /\ Overdue(c) /\ z = ab
                    /\ d.reliableState = -1
                 \/ /\ s = -1 /\ d.reliableState = -1
                    /\ \E m \in SA!Datagram : m.msgId = "RELIABLE_RESET" /\ z = Append(ab, m)
                 \/ /\ s # -1 /\ c.reliableMessages # << >> /\ ~Overdue(c)
                    /\ d.reliableState = s
                    /\ d.reliableSentTime =
                          IF c.reliableSentTime = 0 THEN now ELSE c.reliableSentTime
                    /\ \E m \in SA!Datagram :
                          /\ m.msgId = Reliable(s) /\ m.data = Head(c.reliableMessages)
                          /\ z = Append(ab, m)
    BY <1>2 DEF VisitStep
  <1>8. ASSUME NEW r \in {-1, 0, 1}, d.reliableState = r,
               Protocol(r, e, z, ba, accepted, delivered, acked, forgot),
               (r # -1 /\ d.reliableSentTime # 0 /\ now - d.reliableSentTime >= d.timeoutPeriod)
                  => ~Has(z, Requests) /\ ~Has(ba, Answers)
        PROVE  DeliveryInv'
    <2>1. /\ Protocol(r, e, ab', ba, accepted, delivered, acked, forgot)
          /\ Has(ab', Requests) => Has(z, Requests)
      <3>1. Passes(z, ab', Requests \cup {"UNRELIABLE"})
        BY <1>7
      <3>2. Protocol(r, e, z, ba, accepted, delivered, acked, forgot)
        BY <1>8
      <3> HIDE DEF e
      <3>3. QED
        BY <1>5, <3>1, <3>2, PassingRequests
    <2>2. InState(r)'
      BY <1>3, <1>4, <1>8, <2>1 DEF InState
    <2>3. QueueInv'
      BY <1>2, <1>3, <1>4, <1>8, <2>1 DEF QueueInv, Overdue
    <2>4. QED
      BY <1>3, <2>2, <2>3 DEF DeliveryInv
  <1>9. c.reliableMessages # << >> => acked < accepted /\ Head(c.reliableMessages) = acked + 1
    <2>1. Queue(accepted, acked) = << >> <=> acked = accepted
      BY <1>6, QueueFacts
    <2>2. acked < accepted => Head(Queue(accepted, acked)) = acked + 1
      BY <1>6, QueueFacts
    <2>3. acked # accepted => acked < accepted
      BY <1>6
    <2>4. QED
      BY <1>2, <2>1, <2>2, <2>3
  <1>10. CASE c.reliableMessages = << >> /\ z = ab /\ d.reliableState = s
             /\ d.reliableSentTime = c.reliableSentTime
    BY <1>2, <1>3, <1>8, <1>10 DEF Overdue, InOrder!delivery
  <1>11. CASE c.reliableMessages # << >> /\ Overdue(c) /\ z = ab /\ d.reliableState = -1
    <2>1. acked < accepted
      BY <1>11, <1>9
    <2>2. s \in {0, 1} /\ ~Has(ab, Requests) /\ ~Has(ba, Answers)
      BY <1>2, <1>11 DEF Overdue
    <2>3. Protocol(-1, e, ab, ba, accepted, delivered, acked, forgot)
      <3> HIDE DEF e
      <3>1. QED
        BY <1>2, <2>1, <2>2, AnswerOverdue
    <2>4. QED
      BY <1>3, <1>8, <1>11, <2>3 DEF InOrder!delivery
  <1>12. ASSUME s = -1, d.reliableState = -1, NEW m \in SA!Datagram,
                m.msgId = "RELIABLE_RESET", z = Append(ab, m)
         PROVE  DeliveryInv' /\ UNCHANGED InOrder!delivery
    <2>1. Protocol(-1, e, Append(ab, m), ba, accepted, delivered, acked, forgot)
      <3>1. Protocol(-1, e, ab, ba, accepted, delivered, acked, forgot)
        BY <1>2, <1>12
      <3> HIDE DEF e
      <3>2. QED
        BY <1>5, <1>12, <3>1, ResetSent
    <2>2. QED
      BY <1>3, <1>8, <1>12, <2>1 DEF InOrder!delivery
  <1>13. ASSUME s # -1, c.reliableMessages # << >>, ~Overdue(c), d.reliableState = s,
                d.reliableSentTime = (IF c.reliableSentTime = 0 THEN now ELSE c.reliableSentTime),
                NEW m \in SA!Datagram, m.msgId = Reliable(s),
                m.data = Head(c.reliableMessages), z = Append(ab, m)
         PROVE  DeliveryInv' /\ UNCHANGED InOrder!delivery
    <2>1. acked < accepted /\ m.data = acked + 1
      BY <1>13, <1>9
    <2>2. Protocol(s, e, Append(ab, m), ba, accepted, delivered, acked, forgot)
      <3> HIDE DEF e
      <3>1. QED
        BY <1>2, <1>5, <1>13, <2>1, MessageSent
    <2>3. now \in Nat /\ d.timeoutPeriod \in Nat /\ d.timeoutPeriod >= 1
      <3>1. d.timeoutPeriod = SA!TimeoutPeriodOf(Timeout) /\ now \in Nat
        BY <1>3 DEF DeliveryInv, LinkInv, ClockInv, ClientInv
      <3>2. Timeout \in Nat /\ Timeout >= 10
        BY LinkAssumption DEF PromptNetwork
      <3>3. Timeout \div 10 \in Nat /\ Timeout \div 10 >= 1
        BY <3>2
      <3>4. QED
        BY <3>1, <3>3 DEF SA!TimeoutPeriodOf
    <2>4. ~(d.reliableSentTime # 0 /\ now - d.reliableSentTime >= d.timeoutPeriod)
      <3>1. CASE c.reliableSentTime = 0
        BY <1>13, <2>3, <3>1
      <3>2. CASE c.reliableSentTime # 0
        BY <1>2, <1>3, <1>13, <3>2 DEF Overdue
      <3>3. QED
        BY <3>1, <3>2
    <2>5. QED
      BY <1>3, <1>8, <1>13, <2>2, <2>4 DEF InOrder!delivery
  <1>14. QED
    BY <1>7, <1>10, <1>11, <1>12, <1>13

\* Time passes.
LEMMA ClockKeeps ==
    ASSUME PromptNetwork, DeliveryInv, LinkInv', Tick
    PROVE  DeliveryInv' /\ UNCHANGED InOrder!delivery
  <1>1. PICK s \in {-1, 0, 1} : InState(s)
    BY DEF DeliveryInv
  <1>2. /\ ab = << >> /\ ba = << >> /\ ab' = ab /\ ba' = ba
        /\ UNCHANGED <<aIdCounter, bReliableStates, accepted, delivered, acked, repeated, forgot>>
        /\ DOMAIN aClients' = DOMAIN aClients
        /\ \A id \in DOMAIN aClients :
              /\ aClients'[id].reliableState = aClients[id].reliableState
              /\ aClients'[id].reliableMessages = aClients[id].reliableMessages
    BY ClockPasses DEF delivery
  <1>3. InState(s)'
    BY <1>1, <1>2 DEF InState
  <1>4. ~Has(ab', Requests) /\ ~Has(ba', Answers)
    <2>1. DOMAIN << >> = {}
      OBVIOUS
    <2>2. QED
      BY <1>2, <2>1 DEF Has
  <1>5. QueueInv'
    BY <1>2, <1>4 DEF DeliveryInv, QueueInv
  <1>6. QED
    BY <1>2, <1>3, <1>5 DEF DeliveryInv, InOrder!delivery

\* Every step of the two servers, the network and the clock keeps the invariant and is a step
\* of ReliableDelivery, or none.
LEMMA DeliveryStep ==
    ASSUME PromptNetwork, DeliveryInv, [Next]_vars
    PROVE  DeliveryInv' /\ [InOrder!Next]_(InOrder!delivery)
  <1>1. LinkInv'
    BY LinkStep DEF DeliveryInv
  <1>2. CASE OtherStep
    BY <1>1, <1>2, OtherKeeps
  <1>3. CASE AConnects \/ ADisconnects \/ ASends
    BY <1>1, <1>2, <1>3, CallsOfA, ConnectKeeps, AcceptKeeps
  <1>4. CASE AProcesses
    BY <1>1, <1>2, <1>4, EventsOfA, AnswerKeeps, VisitKeeps
  <1>5. CASE BProcesses
    BY <1>1, <1>2, <1>5, EventsOfB, ResetKeeps, MessageKeeps
  <1>6. CASE BRestarts
    BY <1>1, <1>6, RestartKeeps
  <1>7. CASE Lose \/ Duplicate \/ Reorder \/ UNCHANGED vars
    BY <1>2, <1>7, NetworkPasses
  <1>8. CASE Tick
    BY <1>1, <1>8, ClockKeeps
  <1>9. QED
    BY <1>3, <1>4, <1>5, <1>6, <1>7, <1>8 DEF Next

\* Nothing has been sent at the beginning.
LEMMA InitDelivery == ASSUME Init PROVE DeliveryInv /\ InOrder!Init
  <1>1. LinkInv /\ SA!Init /\ SB!Init
    BY InitLink, SameServerA, SameServerB DEF Init
  <1>2. /\ ab = << >> /\ ba = << >> /\ DOMAIN aClients = {} /\ bReliableStates["a"] = -1
        /\ accepted = 0 /\ delivered = 0 /\ acked = 0 /\ repeated = FALSE /\ forgot = FALSE
    BY <1>1 DEF Init, SA!Init, SB!Init, SB!NotInHash
  <1>3. Counts(-1, 0, 0, 0, FALSE)
    BY DEF Counts
  <1>4. \A ids : ~Has(<< >>, ids)
    BY DEF Has
  <1>5. Sending(0, -1, << >>, << >>, 0, 0, 0)
    BY <1>4 DEF Sending, Sent, Open, Before
  <1>6. InState(0)
    BY <1>2, <1>3, <1>5 DEF InState, Protocol
  <1>7. QueueInv
    BY <1>2 DEF QueueInv
  <1>8. QED
    BY <1>1, <1>2, <1>6, <1>7 DEF DeliveryInv, InOrder!Init

-----------------------------------------------------------------------------
(* Exactly once.                                                            *)

\* The network loses nothing (it may still repeat) and B is never restarted.
LosslessNetwork == PromptNetwork /\ ~MayLose /\ MaxRestarts = 0

\* While B has delivered a message that is not acknowledged, it expects the other state, and
\* nothing that is on its way to B can change that; the answer is on its way to A.
AnswerOnItsWay ==
    LET e == bReliableStates["a"]
    IN  delivered = acked + 1 =>
           /\ e \in {0, 1} /\ ~Has(ab, {"RELIABLE_RESET", Reliable(e)})
           /\ \A id \in DOMAIN aClients :
                 aClients[id].reliableState = 1 - e /\ Has(ba, {Handshake(1 - e)})

\* No answer is refused or skipped by A: it fits into the room that receiveMessages offers,
\* and A is connected to B.
NothingSkipped ==
    /\ accepted # 0 => aPendingClients = << >>
    /\ aCall # "idle" => aMsgSize >= SA!WordSize
    /\ \A i \in DOMAIN ba : ba[i].signed /\ ba[i].size = SA!WordSize

OnceInv ==
    /\ DeliveryInv /\ repeated = FALSE /\ forgot = FALSE /\ restarts = 0
    /\ AnswerOnItsWay /\ NothingSkipped

\* An answer to the message in flight stays on its way to a client that waits for it.
AnswersStay ==
    \A t \in {0, 1} :
        /\ DOMAIN aClients' # {} /\ accepted # 0
        /\ \A id \in DOMAIN aClients : aClients[id].reliableState = t
        /\ Has(ba, {Handshake(t)})
        => Has(ba', {Handshake(t)})

\* A does not skip the answer that its client waits for.
LEMMA AnswerNotSkipped ==
    ASSUME LosslessNetwork, OnceInv, AProcesses, OtherStep
    PROVE  AnswersStay
  <1>1. /\ LinkInv /\ SA!TypeOK /\ DOMAIN aClients = SA!Referenced /\ SA!ProcessEvents
        /\ ba \in Seq(SA!Datagram) /\ SA!MapsMatch /\ PromptNetwork
    BY FactsOfA, SameServerA DEF OnceInv, DeliveryInv, AProcesses, LosslessNetwork
  <1>2. SUFFICES ASSUME NEW t \in {0, 1}, DOMAIN aClients' # {}, accepted # 0,
                        \A id \in DOMAIN aClients : aClients[id].reliableState = t,
                        Has(ba, {Handshake(t)}), ba' # ba
                 PROVE  Has(ba', {Handshake(t)})
    BY DEF AnswersStay
  <1>3. /\ SA!ReceiveMessages /\ aCall = "receive" /\ ba # << >> /\ ba' = Tail(ba)
    BY <1>1, <1>2, ServerConstants, SA!InboxTaken, SA!InboxStep
  <1>4. SUFFICES ASSUME Head(ba).msgId = Handshake(t) PROVE FALSE
    BY <1>1, <1>2, <1>3, TailHas
  <1>5. PICK id \in DOMAIN aClients' : TRUE
    BY <1>2
  <1>6. id \in DOMAIN aClients /\ SameReliable(id)
    BY <1>5 DEF OtherStep
  <1>7. id \in aClientsById
    <2>1. SA!Range(aPendingClients) = {}
      BY <1>2 DEF OnceInv, NothingSkipped, SA!Range
    <2>2. SA!Range(aClientsByAddress) \ {SA!NoClient} \subseteq aClientsById
      BY <1>1 DEF SA!MapsMatch, SA!Range, SA!TypeOK
    <2>3. QED
      BY <1>1, <1>6, <2>1, <2>2 DEF SA!Referenced
  <1>8. aClients[id] \in SA!Client /\ aClients[id].outgoingAddress = "b"
        /\ aClientsByAddress["b"] = id
    BY <1>1, <1>6, <1>7, OneClient DEF LinkInv, ClientInv, SA!MapsMatch
  <1>9. /\ SA!Incoming = Head(ba) /\ 1 \in DOMAIN ba /\ Head(ba) = ba[1]
        /\ Head(ba).src = "b" /\ Head(ba).signed /\ Head(ba).size = SA!WordSize
        /\ Head(ba).word \in Stamps
    <2>1. SA!Incoming = Head(ba) /\ 1 \in DOMAIN ba /\ Head(ba) = ba[1]
      BY <1>1, <1>3, HeadBefore DEF SA!Incoming
    <2>2. Handshake(t) \in SA!StampId
      BY DEF Handshake, SA!StampId, SA!MsgId
    <2>3. QED
      BY <1>1, <1>4, <2>1, <2>2
         DEF LinkInv, ChannelInv, SA!SentBy, SA!Stamped, OnceInv, NothingSkipped
  <1>10. SA!FromClient
    <2>1. aTime = now /\ now \in Nat
      BY <1>1, <1>3 DEF LinkInv, ClockInv
    <2>2. PICK u \in StartTime..now : Head(ba).word = u % TimeStampModulus
      BY <1>9 DEF Stamps, SA!TimeStamp
    <2>3. u \in Nat /\ u <= now /\ u % TimeStampModulus <= u
      BY <2>1, <2>2, LinkAssumption
    <2>4. aTime >= Head(ba).word
      BY <2>1, <2>2, <2>3, LinkAssumption
    <2>5. id # SA!NoClient
      BY <1>1, <1>6, OneClient DEF SA!NoClient
    <2>6. QED
      BY <1>8, <1>9, <2>4, <2>5 DEF SA!FromClient
  <1>11. Head(ba).msgId = SA!ReliableHandshakeId(t) /\ aMsgSize >= SA!WordSize /\ aMsgSize \in Nat
    BY <1>1, <1>3, <1>4 DEF Handshake, SA!ReliableHandshakeId, OnceInv, NothingSkipped, SA!TypeOK
  <1>12. SA!WordSize <= aMsgSize
    BY <1>11 DEF SA!WordSize, SA!HeaderSize, SA!SignatureSize
  <1>13. SA!Refreshed(id)
    BY <1>1, <1>3, <1>8, <1>9, <1>10, <1>11, <1>12, ServerConstants, SA!HandshakeAccepted
  <1>14. SA!ReliableHandshakeId(t) # "PONG"
    BY DEF SA!ReliableHandshakeId
  <1>15. aClients'[id] = SA!ReceivePong(SA!AcknowledgeReliable(aClients[id]), SA!Incoming.word, aTime)
    BY <1>2, <1>6, <1>9, <1>11, <1>13, <1>14 DEF SA!Refreshed
  <1>16. aClients'[id].reliableState # t
    <2>1. SA!AcknowledgeReliable(aClients[id]).reliableState = IF t = 0 THEN 1 ELSE 0
      BY <1>2, <1>6, <1>8 DEF SA!AcknowledgeReliable, SA!Client
    <2>2. SA!AcknowledgeReliable(aClients[id]) \in SA!Client
      BY <1>8, ServerConstants, SA!ClientTypes
    <2>3. aClients'[id].reliableState = IF t = 0 THEN 1 ELSE 0
      BY <1>15, <2>1, <2>2 DEF SA!ReceivePong, SA!Client
    <2>4. QED
      BY <2>3
  <1>17. QED
    BY <1>2, <1>6, <1>16 DEF SameReliable

\* Nobody else takes one.
LEMMA AnswerStays ==
    ASSUME LosslessNetwork, OnceInv, LinkInv',
           \/ AConnects \/ ADisconnects \/ ASends \/ BProcesses
           \/ Lose \/ Duplicate \/ Reorder \/ UNCHANGED vars
    PROVE  AnswersStay
  <1>1. LinkInv /\ ba \in Seq(SA!Datagram) /\ PromptNetwork
    BY FactsOfA DEF OnceInv, DeliveryInv, LosslessNetwork
  <1>2. CASE ba' = ba
    BY <1>2 DEF AnswersStay
  <1>3. CASE AConnects \/ ADisconnects \/ ASends
    <2>1. ba' = ba
      BY <1>3, SameServerA
         DEF AConnects, ADisconnects, ASends, SA!TryConnect, SA!DisconnectConnected,
             SA!DisconnectPending, SA!SendReliableMessage, SA!environment
    <2>2. QED
      BY <1>2, <2>1
  <1>4. CASE BProcesses
    <2>1. SB!ProcessEvents /\ SB!TypeOK /\ bIdCounter = 0
      BY <1>1, <1>4, SameServerB DEF BProcesses, LinkInv, SB!TypeOK
    <2>2. ba' = ba \/ SB!Answered(SB!AnswerId)
      BY <2>1, ServerConstants, SB!ListenerOutput
    <2>3. ASSUME NEW m \in SB!Datagram, ba' = Append(ba, m)
          PROVE  AnswersStay
      <3>1. m \in SA!Datagram
        BY <2>3, SameDatagrams
      <3>2. QED
        BY <1>1, <2>3, <3>1, AppendChannel DEF AnswersStay
    <2>4. QED
      BY <1>2, <2>2, <2>3 DEF SB!Answered
  <1>5. CASE Duplicate
    <2>1. ASSUME NEW i \in DOMAIN ba, ba' = InsertAt(ba, i, ba[i])
          PROVE  AnswersStay
      BY <1>1, <2>1, InsertHas DEF AnswersStay
    <2>2. QED
      BY <1>2, <1>5, <2>1 DEF Duplicate
  <1>6. ~Lose /\ ~Reorder
    BY DEF LosslessNetwork, PromptNetwork, Lose, Reorder
  <1>7. CASE UNCHANGED vars
    BY <1>2, <1>7 DEF vars
  <1>8. QED
    BY <1>3, <1>4, <1>5, <1>6, <1>7

\* A stays connected to B, and its receive loop keeps enough room.
LEMMA SkippedByA ==
    ASSUME LosslessNetwork, OnceInv, AConnects \/ ADisconnects \/ ASends \/ AProcesses
    PROVE  NothingSkipped'
  <1>1. /\ LinkInv /\ SA!TypeOK /\ SA!ViewInv /\ DOMAIN aClients = SA!Referenced
        /\ ba \in Seq(SA!Datagram) /\ PromptNetwork
    BY FactsOfA DEF OnceInv, DeliveryInv, LosslessNetwork
  <1>2. SA!Application \/ SA!ProcessEvents
    <2>1. CASE AConnects
      BY <2>1, SameServerA DEF AConnects, SA!Application
    <2>2. CASE ADisconnects
      BY <2>2, SameServerA DEF ADisconnects, SA!Application
    <2>3. CASE ASends
      <3>1. accepted \in Nat /\ accepted < MaxSends /\ MaxSends \in Nat
        BY <1>1, <2>3, LinkAssumption DEF ASends, LinkInv
      <3>2. accepted + 1 \in Message
        BY <3>1 DEF Message
      <3>3. QED
        BY <2>3, <3>2, SameServerA DEF ASends, SA!Application
    <2>4. CASE AProcesses
      BY <2>4, SameServerA DEF AProcesses
    <2>5. QED
      BY <2>1, <2>2, <2>3, <2>4
  <1>3. aCall' # "idle" => aMsgSize' >= SA!WordSize
    <2>1. ba # << >> => SA!Incoming.size >= SA!WordSize
      <3>1. ba # << >> => SA!Incoming = ba[1] /\ 1 \in DOMAIN ba
        BY <1>1, HeadBefore DEF SA!Incoming
      <3>2. SA!WordSize >= SA!WordSize
        BY DEF SA!WordSize, SA!HeaderSize, SA!SignatureSize
      <3>3. QED
        BY <3>1, <3>2 DEF OnceInv, NothingSkipped
    <2>2. aCall # "idle" => aMsgSize >= SA!WordSize
      BY DEF OnceInv, NothingSkipped
    <2>3. QED
      BY <1>2, <2>1, <2>2, ServerConstants, SA!RoomStep
  <1>4. \A i \in DOMAIN ba' : ba'[i].signed /\ ba'[i].size = SA!WordSize
    <2>1. Within(ba', ba)
      <3>1. CASE ba' = ba
        BY <3>1 DEF Within
      <3>2. CASE ba # << >> /\ ba' = Tail(ba)
        BY <1>1, <3>2, TailWithin
      <3>3. ba' = ba \/ SA!ProcessEvents
        BY <1>2 DEF SA!Application, SA!TryConnect, SA!DisconnectConnected, SA!DisconnectPending,
                    SA!SendReliableMessage, SA!SendUnreliableMessage, SA!environment
      <3>4. QED
        BY <3>1, <3>2, <3>3, ServerConstants, SA!InboxStep
    <2>2. QED
      BY <2>1 DEF Within, OnceInv, NothingSkipped
  <1>5. ASSUME accepted' # 0 PROVE aPendingClients' = << >>
    <2>1. CASE ASends
      <3>1. aClientsById # {} /\ aPendingClients' = aPendingClients
        BY <2>1, SameServerA DEF ASends, SA!SendReliableMessage, SA!registry
      <3>2. aClientsById = {1} /\ aIdCounter = 1
        BY <1>1, <3>1, OneClient
      <3>3. aPendingClients \in Seq({1}) /\ 1 \in 1..1 /\ 1..1 = {1}
        BY <1>1, <3>2 DEF SA!TypeOK
      <3>4. 1 \notin SA!Range(aPendingClients)
        <4>1. 1 \in SA!Registered
          BY <3>2 DEF SA!Registered
        <4>2. QED
          BY <1>1, <4>1 DEF SA!ViewInv, SA!Ordered
      <3>5. aPendingClients = << >>
        BY <3>3, <3>4 DEF SA!Range
      <3>6. QED
        BY <3>1, <3>5
    <2>2. CASE ~ASends
      <3>1. accepted # 0
        BY <1>5, <2>2 DEF AConnects, ADisconnects, AProcesses, history
      <3>2. aPendingClients = << >> /\ aIdCounter = 1
        BY <1>1, <3>1, OneClient DEF OnceInv, NothingSkipped, DeliveryInv, InState
      <3>3. \A address, timeout : ~SA!TryConnect(address, timeout)
        BY <3>2, LinkAssumption DEF SA!TryConnect, LosslessNetwork, PromptNetwork
      <3>4. QED
        BY <1>2, <3>2, <3>3, SA!PendingStep, ServerConstants
    <2>3. QED
      BY <2>1, <2>2
  <1>6. QED
    BY <1>3, <1>4, <1>5 DEF NothingSkipped

\* B's answers have the size of a header and a word.
LEMMA SkippedByOthers ==
    ASSUME LosslessNetwork, OnceInv,
           BProcesses \/ BRestarts \/ Lose \/ Duplicate \/ Reorder \/ Tick \/ UNCHANGED vars
    PROVE  NothingSkipped'
  <1>1. LinkInv /\ ba \in Seq(SA!Datagram)
    BY FactsOfA DEF OnceInv, DeliveryInv
  <1>2. UNCHANGED <<aPendingClients, aCall, aMsgSize, accepted>>
    BY DEF BProcesses, BRestarts, Lose, Duplicate, Reorder, Tick, vars, aVars, history
  <1>3. \A i \in DOMAIN ba' : ba'[i].signed /\ ba'[i].size = SA!WordSize
    <2>1. CASE Within(ba', ba)
      BY <2>1 DEF Within, OnceInv, NothingSkipped
    <2>2. CASE BProcesses
      <3>1. SB!ProcessEvents /\ SB!TypeOK /\ bIdCounter = 0
        BY <1>1, <2>2, SameServerB DEF BProcesses, LinkInv, SB!TypeOK
      <3>2. ba' = ba \/ SB!Answered(SB!AnswerId)
        BY <3>1, ServerConstants, SB!ListenerOutput
      <3>3. ASSUME NEW m \in SB!Datagram, m.signed, m.size = SB!WordSize, ba' = Append(ba, m)
            PROVE  \A i \in DOMAIN ba' : ba'[i].signed /\ ba'[i].size = SA!WordSize
        <4>1. m \in SA!Datagram /\ SA!WordSize = SB!WordSize
          BY <3>3, SameDatagrams
             DEF SA!WordSize, SA!HeaderSize, SA!SignatureSize, SB!WordSize, SB!HeaderSize,
                 SB!SignatureSize
        <4>2. QED
          BY <1>1, <3>3, <4>1, AppendChannel DEF OnceInv, NothingSkipped
      <3>4. ba' = ba => Within(ba', ba)
        BY DEF Within
      <3>5. QED
        BY <2>1, <3>2, <3>3, <3>4 DEF SB!Answered
    <2>3. CASE BRestarts \/ Tick \/ UNCHANGED vars
      <3>1. ba' = ba
        BY <2>3 DEF BRestarts, Tick, vars
      <3>2. QED
        BY <2>1, <3>1 DEF Within
    <2>4. CASE Lose \/ Duplicate \/ Reorder
      BY <1>1, <2>1, <2>4, NetworkActions DEF NetworkStep
    <2>5. QED
      BY <2>2, <2>3, <2>4
  <1>4. QED
    BY <1>2, <1>3 DEF OnceInv, NothingSkipped

\* The message in flight has been accepted.
LEMMA InFlight ==
    ASSUME DeliveryInv
    PROVE  /\ acked \in Nat /\ accepted \in Nat /\ delivered \in {acked, acked + 1}
           /\ delivered <= accepted
           /\ delivered = acked + 1 => accepted # 0 /\ acked < accepted
           /\ aIdCounter = 0 => accepted = 0
  <1>1. PICK s \in {-1, 0, 1} : InState(s)
    BY DEF DeliveryInv
  <1>2. acked \in Nat /\ accepted \in Nat /\ delivered \in {acked, acked + 1} /\ delivered <= accepted
    BY <1>1 DEF InState, Protocol, Counts
  <1>3. QED
    BY <1>1, <1>2 DEF InState

\* A step that the protocol does not notice leaves the answer on its way.
LEMMA OtherOnce ==
    ASSUME OnceInv, LinkInv', OtherStep, AnswersStay
    PROVE  AnswerOnItsWay' /\ UNCHANGED <<repeated, forgot>>
  <1> DEFINE e == bReliableStates["a"]
  <1>1. /\ UNCHANGED <<accepted, delivered, acked, repeated, forgot>>
        /\ bReliableStates'["a"] = e
    BY DEF OtherStep, delivery
  <1>2. SUFFICES ASSUME delivered = acked + 1
                 PROVE  /\ e \in {0, 1} /\ ~Has(ab', {"RELIABLE_RESET", Reliable(e)})
                        /\ \A id \in DOMAIN aClients' :
                              /\ aClients'[id].reliableState = 1 - e
                              /\ Has(ba', {Handshake(1 - e)})
    BY <1>1 DEF AnswerOnItsWay
  <1>3. /\ e \in {0, 1} /\ ~Has(ab, {"RELIABLE_RESET", Reliable(e)})
        /\ \A id \in DOMAIN aClients :
              aClients[id].reliableState = 1 - e /\ Has(ba, {Handshake(1 - e)})
    BY <1>2 DEF OnceInv, AnswerOnItsWay
  <1>4. /\ ab \in Seq(SA!Datagram) /\ DOMAIN ab \subseteq Nat /\ DOMAIN ab' \subseteq Nat
    BY ChannelFacts, NextChannels DEF OnceInv, DeliveryInv
  <1>5. {"RELIABLE_RESET", Reliable(e)} \subseteq Requests
    BY <1>3 DEF Requests, Reliable
  <1>6. ~Has(ab', {"RELIABLE_RESET", Reliable(e)})
    <2>1. CASE Thinned(ab', ab)
      BY <1>3, <1>4, <2>1, ThinnedChannel
    <2>2. ASSUME NEW m \in SA!Datagram, m.msgId \notin Requests \cup {"UNRELIABLE"},
                 ab' = Append(ab, m)
          PROVE  ~Has(ab', {"RELIABLE_RESET", Reliable(e)})
      <3>1. m.msgId \notin {"RELIABLE_RESET", Reliable(e)}
        BY <1>5, <2>2
      <3>2. QED
        BY <1>3, <1>4, <2>2, <3>1, AppendChannel
    <2>3. QED
      BY <2>1, <2>2 DEF OtherStep, Passes
  <1>7. ASSUME NEW id \in DOMAIN aClients'
        PROVE  aClients'[id].reliableState = 1 - e /\ Has(ba', {Handshake(1 - e)})
    <2>1. id \in DOMAIN aClients /\ SameReliable(id)
      BY <1>7 DEF OtherStep
    <2>2. accepted # 0 /\ 1 - e \in {0, 1}
      BY <1>2, <1>3, InFlight DEF OnceInv
    <2>3. QED
      BY <1>3, <1>7, <2>1, <2>2 DEF AnswersStay, SameReliable
  <1>8. QED
    BY <1>3, <1>6, <1>7

\* B gets a request to reset: no message is in flight.
LEMMA ResetOnce ==
    ASSUME OnceInv, ResetStep
    PROVE  AnswerOnItsWay' /\ UNCHANGED <<repeated, forgot>>
  <1>1. /\ ab # << >> /\ Head(ab).msgId = "RELIABLE_RESET"
        /\ UNCHANGED <<delivered, acked, repeated, forgot>>
    BY DEF ResetStep, Answer, delivery
  <1>2. Has(ab, {"RELIABLE_RESET", Reliable(bReliableStates["a"])})
    BY <1>1, ChannelFacts, HeadBefore DEF OnceInv, DeliveryInv
  <1>3. QED
    BY <1>1, <1>2 DEF OnceInv, AnswerOnItsWay

\* B gets a message: one that is in flight already is not delivered again.
LEMMA MessageOnce ==
    ASSUME OnceInv, NEW t \in {0, 1}, MessageStep(t)
    PROVE  AnswerOnItsWay' /\ UNCHANGED <<repeated, forgot>>
  <1> DEFINE e == bReliableStates["a"]
             d == Head(ab).data
  <1>1. PICK s \in {-1, 0, 1} : InState(s)
    BY DEF OnceInv, DeliveryInv
  <1>2. PICK m \in SA!Datagram : m.msgId = Handshake(t) /\ ba' = Append(ba, m)
    BY DEF MessageStep, Answer
  <1>3. /\ ab # << >> /\ Head(ab).msgId = Reliable(t) /\ ab' = Tail(ab)
        /\ bReliableStates'["a"] = 1 - t /\ UNCHANGED <<accepted, acked, aClients>>
    BY DEF MessageStep, Answer
  <1>4. /\ ab \in Seq(SA!Datagram) /\ DOMAIN ab \subseteq Nat /\ ba \in Seq(SA!Datagram)
        /\ Tail(ab) \in Seq(SA!Datagram) /\ DOMAIN Tail(ab) \subseteq Nat
    <2>1. ab \in Seq(SA!Datagram) /\ DOMAIN ab \subseteq Nat /\ ba \in Seq(SA!Datagram)
      BY ChannelFacts DEF OnceInv, DeliveryInv
    <2>2. Tail(ab) \in Seq(SA!Datagram)
      BY <1>3, <2>1
    <2>3. QED
      BY <2>1, <2>2
  <1>5. /\ \A ids : Has(Tail(ab), ids) => Has(ab, ids)
        /\ \A ids : Reliable(t) \in ids => Has(ab, ids)
        /\ \A X, Y : Before(ab, X, Y) /\ Reliable(t) \in Y => ~Has(ab, X)
        /\ \A ids : Has(ba', ids) <=> Has(ba, ids) \/ m.msgId \in ids
        /\ 1 \in DOMAIN ab /\ Head(ab) = ab[1]
    <2>1. Thinned(Tail(ab), ab)
      BY <1>3, <1>4, TailThinned
    <2>2. \A ids : Has(Tail(ab), ids) => Has(ab, ids)
      BY <1>4, <2>1, ThinnedChannel
    <2>3. QED
      BY <1>2, <1>3, <1>4, <2>2, HeadBefore, AppendChannel
  <1>6. CASE delivered = acked + 1
    <2>1. /\ e \in {0, 1} /\ ~Has(ab, {"RELIABLE_RESET", Reliable(e)})
          /\ \A id \in DOMAIN aClients :
                aClients[id].reliableState = 1 - e /\ Has(ba, {Handshake(1 - e)})
      BY <1>6 DEF OnceInv, AnswerOnItsWay
    <2>2. t # e /\ e = 1 - t
      BY <1>5, <2>1
    <2>3. UNCHANGED <<delivered, repeated, forgot>>
      BY <2>1, <2>2 DEF MessageStep
    <2>4. ~Has(ab', {"RELIABLE_RESET", Reliable(e)})
      BY <1>3, <1>5, <2>1
    <2>5. QED
      BY <1>3, <1>5, <1>6, <2>1, <2>2, <2>3, <2>4 DEF AnswerOnItsWay
  <1>7. CASE delivered = acked /\ e \in {-1, t}
    <2>1. acked \in Nat /\ delivered \in Nat
      BY <1>7, InFlight DEF OnceInv
    <2>2. Protocol(s, e, ab, ba, accepted, delivered, acked, forgot) /\ forgot = FALSE
      BY <1>1 DEF InState, OnceInv
    <2>3. Sending(s, e, ab, ba, accepted, delivered, acked) /\ Counts(e, accepted, delivered, acked, FALSE)
      <3>1. Has(ab, {"RELIABLE_0", "RELIABLE_1", "UNRELIABLE"})
        BY <1>5 DEF Reliable
      <3>2. QED
        BY <2>2, <3>1 DEF Protocol, Resetting
    <2>4. s \in {0, 1}
      BY <2>3 DEF Sending
    <2>5. t = s
      <3>1. ASSUME t # s PROVE FALSE
        <4>1. t = 1 - s
          BY <2>4, <3>1
        <4>2. Has(ab, {Reliable(1 - s)}) /\ Has(ab, {"RELIABLE_RESET", Reliable(1 - s)})
          BY <1>5, <4>1
        <4>3. Open(s, e, ab, ba, delivered, acked)
          BY <2>3, <4>2 DEF Sending, Done
        <4>4. acked > 0 /\ e \in {s, -1}
          BY <4>2, <4>3 DEF Open
        <4>5. e = -1
          BY <1>7, <2>4, <4>1, <4>4
        <4>6. delivered = 0
          BY <2>3, <4>5 DEF Counts
        <4>7. QED
          BY <1>7, <2>1, <4>4, <4>6
      <3>2. QED
        BY <3>1
    <2>6. d = acked + 1
      BY <1>3, <1>5, <2>3, <2>5 DEF Sending, Sent
    <2>7. delivered' = acked + 1 /\ forgot' = FALSE /\ repeated' = (repeated \/ d <= delivered)
      BY <1>7, <2>6 DEF MessageStep
    <2>8. repeated' = FALSE
      <3>1. ~(d <= delivered)
        BY <1>7, <2>1, <2>6
      <3>2. QED
        BY <2>7, <3>1 DEF OnceInv
    <2>9. ~Has(ab', {"RELIABLE_RESET", Reliable(1 - t)})
      BY <1>3, <1>5, <2>3, <2>5 DEF Sending
    <2>10. \A id \in DOMAIN aClients' : aClients'[id].reliableState = t /\ Has(ba', {Handshake(t)})
      BY <1>1, <1>2, <1>3, <1>5, <2>5 DEF InState
    <2>11. 1 - t \in {0, 1} /\ 1 - (1 - t) = t
      OBVIOUS
    <2>12. AnswerOnItsWay'
      BY <1>3, <2>9, <2>10, <2>11 DEF AnswerOnItsWay
    <2>13. QED
      BY <2>7, <2>8, <2>12 DEF OnceInv
  <1>8. CASE delivered = acked /\ e \notin {-1, t}
    <2>1. UNCHANGED <<delivered, repeated, forgot>> /\ acked \in Nat
      BY <1>8, InFlight DEF MessageStep, OnceInv
    <2>2. delivered' # acked' + 1
      BY <1>3, <1>8, <2>1
    <2>3. QED
      BY <2>1, <2>2 DEF AnswerOnItsWay
  <1>9. QED
    BY <1>6, <1>7, <1>8, InFlight DEF OnceInv

\* A connects, or its application sends a message: no answer is concerned.
LEMMA CallOnce ==
    ASSUME PromptNetwork, OnceInv, ConnectStep \/ AcceptStep
    PROVE  AnswerOnItsWay' /\ UNCHANGED <<repeated, forgot>>
  <1>1. CASE ConnectStep
    <2>1. UNCHANGED <<delivered, acked, repeated, forgot>> /\ delivered # acked + 1
      BY <1>1, InFlight DEF ConnectStep, delivery, OnceInv
    <2>2. QED
      BY <2>1 DEF AnswerOnItsWay
  <1>2. CASE AcceptStep
    <2>1. /\ UNCHANGED <<bReliableStates, delivered, acked, repeated, forgot, ab, ba>>
          /\ DOMAIN aClients' = DOMAIN aClients
          /\ \A id \in DOMAIN aClients :
                aClients'[id].reliableState = aClients[id].reliableState
      BY <1>2 DEF AcceptStep, ByA
    <2>2. QED
      BY <2>1 DEF OnceInv, AnswerOnItsWay
  <1>3. QED
    BY <1>1, <1>2

\* A gets the answer that its client waits for: nothing is in flight any more.
LEMMA AnswerOnce ==
    ASSUME OnceInv, NEW id \in DOMAIN aClients, AnswerStep(id)
    PROVE  AnswerOnItsWay' /\ UNCHANGED <<repeated, forgot>>
  <1> DEFINE c == aClients[id]
  <1>1. /\ acked \in Nat /\ accepted \in Nat /\ delivered \in {acked, acked + 1}
        /\ delivered <= accepted /\ acked <= accepted
        /\ c.reliableMessages = Queue(accepted, acked)
    <2>1. acked \in Nat /\ accepted \in Nat /\ delivered \in {acked, acked + 1} /\ delivered <= accepted
      BY InFlight DEF OnceInv
    <2>2. QED
      BY <2>1 DEF OnceInv, DeliveryInv, QueueInv
  <1>2. UNCHANGED <<delivered, repeated, forgot>>
    BY DEF AnswerStep, ByA
  <1>3. delivered' # acked' + 1
    <2>1. CASE c.reliableState # -1 /\ c.reliableMessages # << >>
      <3>1. acked < accepted
        <4>1. acked # accepted
          BY <1>1, <2>1, QueueFacts
        <4>2. QED
          BY <1>1, <4>1
      <3>2. acked' = acked + 1
        <4>1. acked' = Head(Queue(accepted, acked))
          BY <1>1, <2>1 DEF AnswerStep
        <4>2. QED
          BY <1>1, <3>1, <4>1, QueueFacts
      <3>3. QED
        BY <1>1, <1>2, <3>2
    <2>2. CASE c.reliableState = -1
      <3>1. delivered # acked + 1
        <4>1. SUFFICES ASSUME delivered = acked + 1 PROVE FALSE
          OBVIOUS
        <4>2. bReliableStates["a"] \in {0, 1} /\ c.reliableState = 1 - bReliableStates["a"]
          BY <4>1 DEF OnceInv, AnswerOnItsWay
        <4>3. QED
          BY <2>2, <4>2
      <3>2. acked' = acked
        BY <2>2 DEF AnswerStep
      <3>3. QED
        BY <1>2, <3>1, <3>2
    <2>3. CASE c.reliableState # -1 /\ c.reliableMessages = << >>
      <3>1. acked = accepted
        BY <1>1, <2>3, QueueFacts
      <3>2. acked' = acked
        BY <2>3 DEF AnswerStep
      <3>3. QED
        BY <1>1, <1>2, <3>1, <3>2
    <2>4. QED
      BY <2>1, <2>2, <2>3
  <1>4. QED
    BY <1>2, <1>3 DEF AnswerOnItsWay

\* A visits its client: it does not give up while the answer is on its way.
LEMMA VisitOnce ==
    ASSUME PromptNetwork, OnceInv, LinkInv', NEW id \in DOMAIN aClients, VisitStep(id)
    PROVE  AnswerOnItsWay' /\ UNCHANGED <<repeated, forgot>>
  <1> DEFINE e == bReliableStates["a"]
             c == aClients[id]
             d == aClients'[id]
  <1>1. /\ UNCHANGED <<bReliableStates, ba, delivered, acked, repeated, forgot>>
        /\ DOMAIN aClients' = DOMAIN aClients
    BY DEF VisitStep, ByA
  <1>2. DOMAIN aClients' = {id}
    BY <1>1, OneClient DEF OnceInv, DeliveryInv
  <1>3. SUFFICES ASSUME delivered = acked + 1
                 PROVE  /\ e \in {0, 1} /\ ~Has(ab', {"RELIABLE_RESET", Reliable(e)})
                        /\ d.reliableState = 1 - e /\ Has(ba, {Handshake(1 - e)})
    BY <1>1, <1>2 DEF AnswerOnItsWay
  <1>4. /\ e \in {0, 1} /\ ~Has(ab, {"RELIABLE_RESET", Reliable(e)})
        /\ c.reliableState = 1 - e /\ Has(ba, {Handshake(1 - e)})
    BY <1>3 DEF OnceInv, AnswerOnItsWay
  <1>5. ~Overdue(c)
    <2>1. {Handshake(1 - e)} \subseteq Answers
      BY <1>4 DEF Handshake, Answers
    <2>2. Has(ba, Answers)
      BY <1>4, <2>1 DEF Has
    <2>3. QED
      BY <2>2 DEF OnceInv, DeliveryInv, QueueInv
  <1>6. c.reliableState # -1
    BY <1>4
  <1>7. PICK z \in Seq(SA!Datagram) :
              /\ Passes(z, ab', Requests \cup {"UNRELIABLE"})
              /\ d.reliableState = c.reliableState
              /\ \/ z = ab
                 \/ \E m \in SA!Datagram :
                       m.msgId = Reliable(c.reliableState) /\ z = Append(ab, m)
    BY <1>5, <1>6 DEF VisitStep
  <1>8. /\ ab \in Seq(SA!Datagram) /\ DOMAIN ab' \subseteq Nat /\ DOMAIN z \subseteq Nat
    BY ChannelFacts, NextChannels DEF OnceInv, DeliveryInv
  <1>9. ~Has(z, {"RELIABLE_RESET", Reliable(e)})
    <2>1. ASSUME NEW m \in SA!Datagram, m.msgId = Reliable(c.reliableState), z = Append(ab, m)
          PROVE  ~Has(z, {"RELIABLE_RESET", Reliable(e)})
      <3>1. m.msgId \notin {"RELIABLE_RESET", Reliable(e)}
        BY <1>4, <2>1 DEF Reliable
      <3>2. QED
        BY <1>4, <1>8, <2>1, <3>1, AppendChannel
    <2>2. QED
      BY <1>4, <1>7, <2>1
  <1>10. ~Has(ab', {"RELIABLE_RESET", Reliable(e)})
    <2>1. CASE Thinned(ab', z)
      BY <1>8, <1>9, <2>1, ThinnedChannel
    <2>2. ASSUME NEW m \in SA!Datagram, m.msgId \notin Requests \cup {"UNRELIABLE"},
                 ab' = Append(z, m)
          PROVE  ~Has(ab', {"RELIABLE_RESET", Reliable(e)})
      <3>1. m.msgId \notin {"RELIABLE_RESET", Reliable(e)}
        BY <1>4, <2>2 DEF Requests, Reliable
      <3>2. QED
        BY <1>9, <2>2, <3>1, AppendChannel
    <2>3. QED
      BY <1>7, <2>1, <2>2 DEF Passes
  <1>11. QED
    BY <1>4, <1>7, <1>10

\* Time passes: no answer is on its way, so nothing is in flight, or A has disconnected.
LEMMA ClockOnce ==
    ASSUME PromptNetwork, OnceInv, Tick
    PROVE  AnswerOnItsWay' /\ UNCHANGED <<repeated, forgot>>
  <1>1. /\ ab = << >> /\ ba = << >> /\ ab' = ab
        /\ UNCHANGED <<bReliableStates, delivered, acked, repeated, forgot>>
        /\ DOMAIN aClients' = DOMAIN aClients
    BY ClockPasses DEF OnceInv, delivery
  <1>2. \A ids : ~Has(<< >>, ids)
    BY DEF Has
  <1>3. delivered = acked + 1 => DOMAIN aClients = {}
    BY <1>1, <1>2 DEF OnceInv, AnswerOnItsWay
  <1>4. QED
    BY <1>1, <1>2, <1>3 DEF OnceInv, AnswerOnItsWay

\* Every step keeps the invariant, and none delivers a message again.
LEMMA OnceStep ==
    ASSUME LosslessNetwork, OnceInv, [Next]_vars
    PROVE  OnceInv' /\ [ExactlyOnce!Next]_(ExactlyOnce!delivery)
  <1>1. PromptNetwork /\ DeliveryInv /\ LinkInv /\ MaxRestarts = 0 /\ restarts = 0
    BY DEF LosslessNetwork, OnceInv, DeliveryInv
  <1>2. DeliveryInv' /\ LinkInv' /\ [InOrder!Next]_(InOrder!delivery)
    BY <1>1, DeliveryStep DEF DeliveryInv
  <1>3. ~BRestarts
    BY <1>1 DEF BRestarts
  <1>4. restarts' = 0
    BY <1>1, <1>3
       DEF Next, AConnects, ADisconnects, ASends, AProcesses, BProcesses, Lose, Duplicate, Reorder,
           Tick, vars, history
  <1>5. NothingSkipped'
    BY <1>3, SkippedByA, SkippedByOthers DEF Next
  <1>6. AnswerOnItsWay' /\ UNCHANGED <<repeated, forgot>>
    <2>1. CASE AConnects \/ ADisconnects \/ ASends
      <3>1. AnswersStay
        BY <1>2, <2>1, AnswerStays
      <3>2. QED
        BY <1>1, <1>2, <2>1, <3>1, CallsOfA, OtherOnce, CallOnce
    <2>2. CASE AProcesses
      <3>1. CASE OtherStep
        BY <1>2, <2>2, <3>1, AnswerNotSkipped, OtherOnce
      <3>2. CASE ~OtherStep
        BY <1>1, <1>2, <2>2, <3>2, EventsOfA, AnswerOnce, VisitOnce
      <3>3. QED
        BY <3>1, <3>2
    <2>3. CASE BProcesses
      <3>1. AnswersStay
        BY <1>2, <2>3, AnswerStays
      <3>2. QED
        BY <1>1, <1>2, <2>3, <3>1, EventsOfB, OtherOnce, ResetOnce, MessageOnce
    <2>4. CASE Lose \/ Duplicate \/ Reorder \/ UNCHANGED vars
      <3>1. AnswersStay /\ OtherStep
        BY <1>1, <1>2, <2>4, AnswerStays, NetworkPasses
      <3>2. QED
        BY <1>2, <3>1, OtherOnce
    <2>5. CASE Tick
      BY <1>1, <2>5, ClockOnce
    <2>6. QED
      BY <1>3, <2>1, <2>2, <2>3, <2>4, <2>5 DEF Next
  <1>7. repeated' = FALSE /\ forgot' = FALSE
    BY <1>6 DEF OnceInv
  <1>8. [ExactlyOnce!Next]_(ExactlyOnce!delivery)
    BY <1>2, <1>7
       DEF InOrder!Next, InOrder!Accept, InOrder!Deliver, InOrder!DeliverAgain, InOrder!Acknowledge,
           InOrder!Forget, InOrder!delivery, ExactlyOnce!Next, ExactlyOnce!Accept,
           ExactlyOnce!Deliver, ExactlyOnce!Acknowledge, ExactlyOnce!Forget, ExactlyOnce!delivery
  <1>9. QED
    BY <1>2, <1>4, <1>5, <1>6, <1>7, <1>8 DEF OnceInv

\* Nothing is in flight at the beginning.
LEMMA InitOnce == ASSUME Init PROVE OnceInv /\ ExactlyOnce!Init
  <1>1. DeliveryInv /\ InOrder!Init /\ SA!Init
    BY InitDelivery, SameServerA DEF Init
  <1>2. /\ delivered = 0 /\ acked = 0 /\ accepted = 0 /\ repeated = FALSE /\ forgot = FALSE
        /\ restarts = 0 /\ ba = << >> /\ aCall = "idle"
    BY <1>1 DEF Init, SA!Init
  <1>3. DOMAIN << >> = {}
    OBVIOUS
  <1>4. QED
    BY <1>1, <1>2, <1>3
       DEF OnceInv, AnswerOnItsWay, NothingSkipped, InOrder!Init, ExactlyOnce!Init

-----------------------------------------------------------------------------
(* The theorems.                                                            *)

\* The invariant of the channel.
THEOREM DeliveryInvariant == ASSUME PromptNetwork PROVE Spec => []DeliveryInv
  <1>1. Init => DeliveryInv
    BY InitDelivery
  <1>2. DeliveryInv /\ [Next]_vars => DeliveryInv'
    BY DeliveryStep
  <1>3. QED
    BY <1>1, <1>2, PTL DEF Spec

\* Whatever is lost, repeated or refused, and however often B is restarted, the messages that
\* udcSendMessage accepted reach B's application in order and without a gap, and only the last
\* one may come again: the two servers implement ReliableDelivery.
THEOREM LinkDeliversInOrder == ASSUME PromptNetwork PROVE Spec => DeliversInOrder
  <1>1. Init => InOrder!Init
    BY InitDelivery
  <1>2. DeliveryInv /\ [Next]_vars => [InOrder!Next]_(InOrder!delivery)
    BY DeliveryStep
  <1>3. QED
    BY <1>1, <1>2, DeliveryInvariant, PTL DEF Spec, DeliversInOrder, InOrder!Spec

\* So the sender never drops a message that was not delivered, and the receiver never gets one
\* before its turn: what a second connection or a reordering network can break.
THEOREM LinkSkipsNothing == ASSUME PromptNetwork PROVE Spec => []AckedWasDelivered /\ NoGap
  <1>1. DeliveryInv => AckedWasDelivered
    <2>1. ASSUME DeliveryInv PROVE AckedWasDelivered
      BY <2>1, InFlight DEF AckedWasDelivered
    <2>2. QED
      BY <2>1
  <1>2. DeliveryInv /\ [Next]_vars => [delivered' \in {delivered, delivered + 1}]_vars
    <2>1. ASSUME DeliveryInv, [Next]_vars PROVE delivered' \in {delivered, delivered + 1}
      BY <2>1, DeliveryStep
         DEF InOrder!Next, InOrder!Accept, InOrder!Deliver, InOrder!DeliverAgain,
             InOrder!Acknowledge, InOrder!Forget, InOrder!delivery
    <2>2. QED
      BY <2>1
  <1>3. QED
    BY <1>1, <1>2, DeliveryInvariant, PTL DEF Spec, NoGap

\* If nothing is lost and B is not restarted, every message is delivered exactly once, though
\* datagrams may be repeated and recvfrom may fail: A never gives up an answer that is on its
\* way.
THEOREM LinkDeliversExactlyOnce == ASSUME LosslessNetwork PROVE Spec => DeliversExactlyOnce
  <1>1. Init => OnceInv /\ ExactlyOnce!Init
    BY InitOnce
  <1>2. OnceInv /\ [Next]_vars => OnceInv' /\ [ExactlyOnce!Next]_(ExactlyOnce!delivery)
    BY OnceStep
  <1>3. QED
    BY <1>1, <1>2, PTL DEF Spec, DeliversExactlyOnce, ExactlyOnce!Spec
=============================================================================
