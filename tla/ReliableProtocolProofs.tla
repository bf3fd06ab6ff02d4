----------------------- MODULE ReliableProtocolProofs -----------------------
(***************************************************************************)
(* The alternating bit protocol of the reliable channel, apart from the    *)
(* servers that run it: s is m_reliableState of the sender's client, e the *)
(* state that m_reliableStates expects at the receiver (-1 if it has no    *)
(* entry), x and y are the channels to the receiver and back, acc, del and *)
(* ack count the messages accepted, delivered and acknowledged, and fgt    *)
(* says that the receiver was restarted and has delivered nothing since.   *)
(* The predicate Protocol relates them; each lemma says that one thing     *)
(* that a server or the network may do keeps it, and what is delivered.    *)
(* The channels lose and repeat messages, but do not reorder them.         *)
(***************************************************************************)
EXTENDS ChannelProofs

Reliable(s)  == IF s = 0 THEN "RELIABLE_0" ELSE "RELIABLE_1"
Handshake(s) == IF s = 0 THEN "RELIABLE_HANDSHAKE_0" ELSE "RELIABLE_HANDSHAKE_1"

Requests == {"RELIABLE_RESET", "RELIABLE_0", "RELIABLE_1"}
Answers  == {"RELIABLE_HANDSHAKE_RESET", "RELIABLE_HANDSHAKE_0", "RELIABLE_HANDSHAKE_1"}

\* Stop and wait: at most one message is delivered and not yet acknowledged.
Counts(e, acc, del, ack, fgt) ==
    /\ e \in {-1, 0, 1} /\ acc \in Nat /\ ack \in Nat
    /\ del \in {ack, ack + 1} /\ del <= acc
    /\ e = -1 => fgt \/ del = 0

\* What the sender has sent: the first message of its queue in its state, the one before it
\* in the other state.
Sent(s, x, acc, ack) ==
    \A i \in DOMAIN x :
        /\ x[i].msgId # "UNRELIABLE"
        /\ x[i].msgId = Reliable(s) => x[i].data = ack + 1 /\ ack < acc
        /\ x[i].msgId = Reliable(1 - s) => x[i].data = ack

\* The receiver has not seen the state s since the sender entered it.
Open(s, e, x, y, del, ack) ==
    /\ e \in {s, -1} /\ ~Has(y, {Handshake(s)})
    /\ Has(x, {Reliable(1 - s)}) => del = ack /\ ack > 0
    /\ Has(x, {"RELIABLE_RESET"}) => s = 0

\* The receiver has seen it.
Done(s, e, x, del, ack) ==
    /\ e \in {1 - s, -1} /\ del = ack + 1
    /\ ~Has(x, {"RELIABLE_RESET", Reliable(1 - s)})

\* The sender sends messages, or has nothing to send.
Sending(s, e, x, y, acc, del, ack) ==
    /\ s \in {0, 1} /\ Sent(s, x, acc, ack)
    /\ Before(x, {"RELIABLE_RESET", Reliable(1 - s)}, {Reliable(s)})
    /\ Before(y, {"RELIABLE_HANDSHAKE_RESET", Handshake(1 - s)}, {Handshake(s)})
    /\ Open(s, e, x, y, del, ack) \/ Done(s, e, x, del, ack)

\* The sender has had no answer for too long and asks for a reset.
Resetting(s, e, x, y, acc, ack) ==
    /\ s = -1 /\ ack < acc
    /\ ~Has(x, {"RELIABLE_0", "RELIABLE_1", "UNRELIABLE"})
    /\ ~Has(y, {"RELIABLE_HANDSHAKE_0", "RELIABLE_HANDSHAKE_1"})
    /\ Has(y, {"RELIABLE_HANDSHAKE_RESET"}) => e \in {0, -1}

Protocol(s, e, x, y, acc, del, ack, fgt) ==
    /\ Counts(e, acc, del, ack, fgt)
    /\ Sending(s, e, x, y, acc, del, ack) \/ Resetting(s, e, x, y, acc, ack)

-----------------------------------------------------------------------------
(* The network.                                                             *)

\* Losses and repetitions in both channels keep the protocol.
LEMMA ThinnedProtocol ==
    ASSUME NEW s, NEW e, NEW x, NEW y, NEW acc, NEW del, NEW ack, NEW fgt, NEW u, NEW v,
           DOMAIN x \subseteq Nat, DOMAIN u \subseteq Nat, Thinned(u, x),
           DOMAIN y \subseteq Nat, DOMAIN v \subseteq Nat, Thinned(v, y),
           Protocol(s, e, x, y, acc, del, ack, fgt)
    PROVE  Protocol(s, e, u, v, acc, del, ack, fgt)
  <1>1. /\ \A i \in DOMAIN u : \E j \in DOMAIN x : u[i] = x[j]
        /\ \A ids : Has(u, ids) => Has(x, ids)
        /\ \A X, Y : X \cap Y = {} /\ Before(x, X, Y) => Before(u, X, Y)
    BY ThinnedChannel DEF Within
  <1>2. /\ \A ids : Has(v, ids) => Has(y, ids)
        /\ \A X, Y : X \cap Y = {} /\ Before(y, X, Y) => Before(v, X, Y)
    BY ThinnedChannel
  <1>3. ASSUME Resetting(s, e, x, y, acc, ack) PROVE Resetting(s, e, u, v, acc, ack)
    BY <1>1, <1>2, <1>3 DEF Resetting
  <1>4. ASSUME Sending(s, e, x, y, acc, del, ack) PROVE Sending(s, e, u, v, acc, del, ack)
    <2>1. s \in {0, 1}
      BY <1>4 DEF Sending
    <2>2. Sent(s, u, acc, ack)
      BY <1>1, <1>4 DEF Sending, Sent
    <2>3. Before(u, {"RELIABLE_RESET", Reliable(1 - s)}, {Reliable(s)})
      <3>1. {"RELIABLE_RESET", Reliable(1 - s)} \cap {Reliable(s)} = {}
        BY <2>1 DEF Reliable
      <3>2. QED
        BY <1>1, <1>4, <3>1 DEF Sending
    <2>4. Before(v, {"RELIABLE_HANDSHAKE_RESET", Handshake(1 - s)}, {Handshake(s)})
      <3>1. {"RELIABLE_HANDSHAKE_RESET", Handshake(1 - s)} \cap {Handshake(s)} = {}
        BY <2>1 DEF Handshake
      <3>2. QED
        BY <1>2, <1>4, <3>1 DEF Sending
    <2>5. Open(s, e, u, v, del, ack) \/ Done(s, e, u, del, ack)
      BY <1>1, <1>2, <1>4 DEF Sending, Open, Done
    <2>6. QED
      BY <2>1, <2>2, <2>3, <2>4, <2>5 DEF Sending
  <1>5. QED
    BY <1>3, <1>4 DEF Protocol

-----------------------------------------------------------------------------
(* Messages that have nothing to do with the protocol.                      *)

\* The sender sends one.
LEMMA OtherRequest ==
    ASSUME NEW s, NEW e, NEW S, NEW x \in Seq(S), NEW y, NEW acc, NEW del, NEW ack, NEW fgt,
           NEW m \in S, m.msgId \notin Requests \cup {"UNRELIABLE"},
           Protocol(s, e, x, y, acc, del, ack, fgt)
    PROVE  Protocol(s, e, Append(x, m), y, acc, del, ack, fgt)
  <1> DEFINE u == Append(x, m)
  <1>1. /\ \A i \in DOMAIN u : (i \in DOMAIN x /\ u[i] = x[i]) \/ (i = Len(x) + 1 /\ u[i] = m)
        /\ \A ids : Has(u, ids) <=> Has(x, ids) \/ m.msgId \in ids
        /\ \A X, Y : (Before(x, X, Y) /\ (m.msgId \in X => m.msgId \notin Y /\ ~Has(x, Y)))
                        => Before(u, X, Y)
    BY AppendChannel
  <1> HIDE DEF u
  <1>2. ASSUME Resetting(s, e, x, y, acc, ack) PROVE Resetting(s, e, u, y, acc, ack)
    BY <1>1, <1>2 DEF Resetting, Requests
  <1>3. ASSUME Sending(s, e, x, y, acc, del, ack) PROVE Sending(s, e, u, y, acc, del, ack)
    <2>1. s \in {0, 1} /\ m.msgId # Reliable(s) /\ m.msgId # Reliable(1 - s)
      BY <1>3 DEF Sending, Reliable, Requests
    <2>2. m.msgId # "RELIABLE_RESET" /\ m.msgId # "UNRELIABLE"
      BY DEF Requests
    <2>3. Sent(s, u, acc, ack)
      BY <1>1, <1>3, <2>1, <2>2 DEF Sending, Sent
    <2>4. Before(u, {"RELIABLE_RESET", Reliable(1 - s)}, {Reliable(s)})
      BY <1>1, <1>3, <2>1, <2>2 DEF Sending
    <2>5. Open(s, e, u, y, del, ack) \/ Done(s, e, u, del, ack)
      BY <1>1, <1>3, <2>1, <2>2 DEF Sending, Open, Done
    <2>6. QED
      BY <1>3, <2>3, <2>4, <2>5 DEF Sending
  <1>4. QED
    BY <1>2, <1>3 DEF Protocol, u

\* The receiver sends one.
LEMMA OtherAnswer ==
    ASSUME NEW s, NEW e, NEW x, NEW S, NEW y \in Seq(S), NEW acc, NEW del, NEW ack, NEW fgt,
           NEW m \in S, m.msgId \notin Answers,
           Protocol(s, e, x, y, acc, del, ack, fgt)
    PROVE  Protocol(s, e, x, Append(y, m), acc, del, ack, fgt)
  <1> DEFINE v == Append(y, m)
  <1>1. /\ \A ids : Has(v, ids) <=> Has(y, ids) \/ m.msgId \in ids
        /\ \A X, Y : (Before(y, X, Y) /\ (m.msgId \in X => m.msgId \notin Y /\ ~Has(y, Y)))
                        => Before(v, X, Y)
    BY AppendChannel
  <1> HIDE DEF v
  <1>2. ASSUME Resetting(s, e, x, y, acc, ack) PROVE Resetting(s, e, x, v, acc, ack)
    BY <1>1, <1>2 DEF Resetting, Answers
  <1>3. ASSUME Sending(s, e, x, y, acc, del, ack) PROVE Sending(s, e, x, v, acc, del, ack)
    <2>1. s \in {0, 1} /\ m.msgId # Handshake(s) /\ m.msgId # Handshake(1 - s)
      BY <1>3 DEF Sending, Handshake, Answers
    <2>2. m.msgId # "RELIABLE_HANDSHAKE_RESET"
      BY DEF Answers
    <2>3. Before(v, {"RELIABLE_HANDSHAKE_RESET", Handshake(1 - s)}, {Handshake(s)})
      BY <1>1, <1>3, <2>1, <2>2 DEF Sending
    <2>4. Open(s, e, x, v, del, ack) \/ Done(s, e, x, del, ack)
      BY <1>1, <1>3, <2>1, <2>2 DEF Sending, Open, Done
    <2>5. QED
      BY <1>3, <2>3, <2>4 DEF Sending
  <1>4. QED
    BY <1>2, <1>3 DEF Protocol, v

-----------------------------------------------------------------------------
(* The receiver.                                                            *)

\* What the receiver takes from x and adds to y.
LEMMA AnswerChannels ==
    ASSUME NEW s, NEW e, NEW S, NEW x \in Seq(S), NEW y \in Seq(S), NEW m \in S,
           NEW acc, NEW del, NEW ack, NEW fgt, x # << >>,
           Protocol(s, e, x, y, acc, del, ack, fgt)
    PROVE  /\ Protocol(s, e, Tail(x), y, acc, del, ack, fgt)
           /\ \A ids : Has(Tail(x), ids) => Has(x, ids)
           /\ \A ids : Head(x).msgId \in ids => Has(x, ids)
           /\ \A X, Y : Before(x, X, Y) /\ Head(x).msgId \in Y => ~Has(x, X)
           /\ \A ids : Has(Append(y, m), ids) <=> Has(y, ids) \/ m.msgId \in ids
           /\ \A X, Y : (Before(y, X, Y) /\ (m.msgId \in X => m.msgId \notin Y /\ ~Has(y, Y)))
                           => Before(Append(y, m), X, Y)
           /\ 1 \in DOMAIN x /\ Head(x) = x[1]
  <1>1. DOMAIN x \subseteq Nat /\ DOMAIN y \subseteq Nat /\ DOMAIN Tail(x) \subseteq Nat
    BY HeadBefore, TailWithin
  <1>2. Thinned(Tail(x), x) /\ Thinned(y, y)
    BY <1>1, TailThinned, SameThinned
  <1>3. QED
    BY <1>1, <1>2, ThinnedProtocol, ThinnedChannel, HeadBefore, AppendChannel

\* It gets a request to reset: the expected state goes back to 0 if there is one.
LEMMA ResetReceived ==
    ASSUME NEW s, NEW e, NEW S, NEW x \in Seq(S), NEW y \in Seq(S), NEW m \in S,
           NEW acc, NEW del, NEW ack, NEW fgt, x # << >>, Head(x).msgId = "RELIABLE_RESET",
           m.msgId = "RELIABLE_HANDSHAKE_RESET", Protocol(s, e, x, y, acc, del, ack, fgt)
    PROVE  Protocol(s, IF e = -1 THEN -1 ELSE 0, Tail(x), Append(y, m), acc, del, ack, fgt)
  <1> DEFINE u == Tail(x)
             v == Append(y, m)
             f == IF e = -1 THEN -1 ELSE 0
  <1>1. /\ Protocol(s, e, u, y, acc, del, ack, fgt)
        /\ \A ids : Head(x).msgId \in ids => Has(x, ids)
        /\ \A ids : Has(v, ids) <=> Has(y, ids) \/ m.msgId \in ids
        /\ \A X, Y : (Before(y, X, Y) /\ (m.msgId \in X => m.msgId \notin Y /\ ~Has(y, Y)))
                        => Before(v, X, Y)
    BY AnswerChannels
  <1> HIDE DEF u, v
  <1>2. Has(x, {"RELIABLE_RESET"}) /\ \A id : Has(x, {"RELIABLE_RESET", id})
    BY <1>1
  <1>3. Counts(f, acc, del, ack, fgt)
    BY DEF Protocol, Counts
  <1>4. ASSUME Resetting(s, e, u, y, acc, ack) PROVE Resetting(s, f, u, v, acc, ack)
    BY <1>1, <1>4 DEF Resetting
  <1>5. ASSUME Sending(s, e, u, y, acc, del, ack), Sending(s, e, x, y, acc, del, ack)
        PROVE  Sending(s, f, u, v, acc, del, ack)
    <2>1. Open(s, e, x, y, del, ack)
      BY <1>2, <1>5 DEF Sending, Done
    <2>2. s = 0 /\ e \in {0, -1} /\ ~Has(y, {Handshake(s)}) /\ f = e
      BY <1>2, <2>1 DEF Open
    <2>3. Before(v, {"RELIABLE_HANDSHAKE_RESET", Handshake(1 - s)}, {Handshake(s)})
      BY <1>1, <1>5, <2>2 DEF Sending, Handshake
    <2>4. ~Has(v, {Handshake(s)})
      BY <1>1, <2>2 DEF Handshake
    <2>5. QED
      BY <1>5, <2>2, <2>3, <2>4 DEF Sending, Open
  <1>6. CASE s = -1
    BY <1>1, <1>3, <1>4, <1>6 DEF Protocol, Sending, u, v
  <1>7. CASE s # -1
    BY <1>1, <1>3, <1>5, <1>7 DEF Protocol, Resetting, u, v
  <1>8. QED
    BY <1>6, <1>7

\* What may be delivered: the next message, or the last one again, either not yet acknowledged
\* or after a restart.
NextOrAgain(d, acc, del, ack, fgt) ==
    \/ d = del + 1 /\ del = ack /\ del < acc
    \/ d = del /\ del > 0 /\ (del = ack + 1 \/ fgt)

\* It gets a message in state t: it is delivered if t is the expected state or there is none.
LEMMA MessageReceived ==
    ASSUME NEW s, NEW e, NEW S, NEW x \in Seq(S), NEW y \in Seq(S), NEW m \in S,
           NEW acc, NEW del, NEW ack, NEW fgt, NEW t \in {0, 1}, x # << >>,
           Head(x).msgId = Reliable(t), m.msgId = Handshake(t),
           Protocol(s, e, x, y, acc, del, ack, fgt)
    PROVE  LET d == Head(x).data
           IN  /\ e \in {-1, t} =>
                     /\ NextOrAgain(d, acc, del, ack, fgt)
                     /\ Protocol(s, 1 - t, Tail(x), Append(y, m), acc, d, ack, FALSE)
               /\ e \notin {-1, t} =>
                     Protocol(s, 1 - t, Tail(x), Append(y, m), acc, del, ack, fgt)
  <1> DEFINE u == Tail(x)
             v == Append(y, m)
             d == Head(x).data
  <1>1. /\ Protocol(s, e, u, y, acc, del, ack, fgt)
        /\ \A ids : Has(u, ids) => Has(x, ids)
        /\ \A ids : Head(x).msgId \in ids => Has(x, ids)
        /\ \A X, Y : Before(x, X, Y) /\ Head(x).msgId \in Y => ~Has(x, X)
        /\ \A ids : Has(v, ids) <=> Has(y, ids) \/ m.msgId \in ids
        /\ \A X, Y : (Before(y, X, Y) /\ (m.msgId \in X => m.msgId \notin Y /\ ~Has(y, Y)))
                        => Before(v, X, Y)
        /\ 1 \in DOMAIN x /\ Head(x) = x[1]
    BY AnswerChannels
  <1> HIDE DEF u, v
  <1>2. Has(x, {"RELIABLE_0", "RELIABLE_1", "UNRELIABLE"})
    BY <1>1 DEF Reliable
  <1>3. Sending(s, e, x, y, acc, del, ack) /\ s \in {0, 1}
    BY <1>2 DEF Protocol, Resetting, Sending
  <1>4. Sending(s, e, u, y, acc, del, ack)
    BY <1>1, <1>3 DEF Protocol, Resetting
  <1>5. Counts(e, acc, del, ack, fgt) /\ acc \in Nat /\ ack \in Nat /\ del \in Nat
    BY DEF Protocol, Counts
  <1>6. Handshake(s) # Handshake(1 - s) /\ Reliable(s) # Reliable(1 - s)
    BY <1>3 DEF Handshake, Reliable
  <1>7. CASE t = s
    <2>1. d = ack + 1 /\ ack < acc
      BY <1>1, <1>3, <1>7 DEF Sending, Sent
    <2>2. ~Has(x, {"RELIABLE_RESET", Reliable(1 - s)})
      BY <1>1, <1>3, <1>7 DEF Sending
    <2>3. Before(v, {"RELIABLE_HANDSHAKE_RESET", Handshake(1 - s)}, {Handshake(s)})
      <3>1. m.msgId \notin {"RELIABLE_HANDSHAKE_RESET", Handshake(1 - s)}
        BY <1>6, <1>7 DEF Handshake
      <3>2. QED
        BY <1>1, <1>3, <3>1 DEF Sending
    <2>4. Done(s, 1 - s, u, ack + 1, ack)
      BY <1>1, <2>2 DEF Done
    <2>5. Sending(s, 1 - s, u, v, acc, ack + 1, ack)
      BY <1>4, <2>3, <2>4 DEF Sending
    <2>6. e \notin {-1, t} => del = ack + 1
      BY <1>3, <1>7 DEF Sending, Open, Done
    <2>7. ack + 1 \in {ack, ack + 1} /\ ack + 1 <= acc /\ 1 - t \in {0, 1}
      BY <1>5, <2>1
    <2>8. Counts(1 - t, acc, ack + 1, ack, FALSE) /\ Counts(1 - t, acc, ack + 1, ack, fgt)
      BY <1>5, <2>7 DEF Counts
    <2>9. Protocol(s, 1 - t, u, v, acc, ack + 1, ack, FALSE)
          /\ Protocol(s, 1 - t, u, v, acc, ack + 1, ack, fgt)
      BY <1>7, <2>5, <2>8 DEF Protocol
    <2>10. del = ack \/ (del = ack + 1 /\ del > 0)
      BY <1>5 DEF Counts
    <2>11. NextOrAgain(d, acc, del, ack, fgt)
      BY <1>5, <2>1, <2>10 DEF NextOrAgain
    <2>12. QED
      BY <2>1, <2>6, <2>9, <2>11 DEF u, v
  <1>8. CASE t # s
    <2>1. t = 1 - s /\ 1 - t = s
      BY <1>3, <1>8
    <2>2. Has(x, {Reliable(1 - s)}) /\ Has(x, {"RELIABLE_RESET", Reliable(1 - s)})
      BY <1>1, <2>1
    <2>3. Open(s, e, x, y, del, ack) /\ Open(s, e, u, y, del, ack)
      BY <1>1, <1>3, <2>2 DEF Sending, Open, Done
    <2>4. d = ack /\ del = ack /\ ack > 0 /\ e \in {s, -1}
      <3>1. d = ack
        BY <1>1, <1>3, <2>1 DEF Sending, Sent
      <3>2. QED
        BY <2>2, <2>3, <3>1 DEF Open
    <2>5. Before(v, {"RELIABLE_HANDSHAKE_RESET", Handshake(1 - s)}, {Handshake(s)})
      BY <1>1, <1>3, <1>6, <2>1, <2>3 DEF Sending, Open
    <2>6. ~Has(v, {Handshake(s)})
      BY <1>1, <1>6, <2>1, <2>3 DEF Open
    <2>7. Sending(s, s, u, v, acc, del, ack)
      BY <1>4, <2>3, <2>5, <2>6 DEF Sending, Open
    <2>8. Counts(s, acc, del, ack, FALSE) /\ Counts(s, acc, del, ack, fgt)
      BY <1>3, <1>5 DEF Counts
    <2>9. Protocol(s, s, u, v, acc, del, ack, FALSE) /\ Protocol(s, s, u, v, acc, del, ack, fgt)
      BY <2>7, <2>8 DEF Protocol
    <2>10. e = -1 => fgt
      BY <1>5, <2>4 DEF Counts
    <2>11. e = -1 => NextOrAgain(d, acc, del, ack, fgt)
      BY <2>4, <2>10 DEF NextOrAgain
    <2>12. QED
      BY <1>3, <1>8, <2>1, <2>4, <2>9, <2>11 DEF u, v
  <1>9. QED
    BY <1>7, <1>8

\* It is restarted and has forgotten the expected state.
LEMMA ReceiverRestarted ==
    ASSUME NEW s, NEW e, NEW x, NEW y, NEW acc, NEW del, NEW ack, NEW fgt,
           Protocol(s, e, x, y, acc, del, ack, fgt)
    PROVE  Protocol(s, -1, x, y, acc, del, ack, TRUE)
  BY DEF Protocol, Counts, Sending, Resetting, Open, Done

-----------------------------------------------------------------------------
(* The sender.                                                              *)

\* It gets the answer to its current message, which has been delivered.
LEMMA MessageAnswered ==
    ASSUME NEW s, NEW e, NEW x, NEW S, NEW y \in Seq(S), NEW acc, NEW del, NEW ack, NEW fgt,
           DOMAIN x \subseteq Nat,
           s \in {0, 1}, y # << >>, Head(y).msgId = Handshake(s),
           Protocol(s, e, x, y, acc, del, ack, fgt)
    PROVE  ack < del /\ ack < acc /\ Protocol(1 - s, e, x, Tail(y), acc, del, ack + 1, fgt)
  <1> DEFINE v == Tail(y)
  <1>1. /\ \A ids : Has(v, ids) => Has(y, ids)
        /\ \A ids : Head(y).msgId \in ids => Has(y, ids)
        /\ \A X, Y : Before(y, X, Y) /\ Head(y).msgId \in Y => ~Has(y, X)
    <2>1. DOMAIN y \subseteq Nat /\ DOMAIN Tail(y) \subseteq Nat
      BY HeadBefore, TailWithin
    <2>2. QED
      BY <2>1, TailThinned, ThinnedChannel, HeadBefore
  <1> HIDE DEF v
  <1>2. Sending(s, e, x, y, acc, del, ack)
    BY DEF Protocol, Resetting
  <1>3. Done(s, e, x, del, ack)
    BY <1>1, <1>2 DEF Sending, Open
  <1>4. ~Has(y, {"RELIABLE_HANDSHAKE_RESET", Handshake(1 - s)})
    BY <1>1, <1>2 DEF Sending
  <1>5. 1 - s \in {0, 1} /\ 1 - (1 - s) = s
    OBVIOUS
  <1>6. acc \in Nat /\ ack \in Nat /\ del = ack + 1 /\ del <= acc /\ Counts(e, acc, del, ack, fgt)
    BY <1>3 DEF Protocol, Counts, Done
  <1>7. ~Has(x, {Reliable(1 - s)}) /\ ~Has(x, {"RELIABLE_RESET"})
    BY <1>3 DEF Done, Has
  <1>8. ~Has(v, {Handshake(1 - s)})
    BY <1>1, <1>4 DEF Has
  <1>9. Sent(1 - s, x, acc, ack + 1)
    BY <1>2, <1>5, <1>7 DEF Sending, Sent, Has
  <1>10. Before(x, {"RELIABLE_RESET", Reliable(s)}, {Reliable(1 - s)})
    BY <1>7 DEF Before, Has
  <1>11. Before(v, {"RELIABLE_HANDSHAKE_RESET", Handshake(s)}, {Handshake(1 - s)})
    BY <1>8 DEF Before, Has
  <1>12. Open(1 - s, e, x, v, del, ack + 1)
    BY <1>3, <1>5, <1>6, <1>7, <1>8 DEF Open, Done
  <1>13. Sending(1 - s, e, x, v, acc, del, ack + 1)
    BY <1>5, <1>9, <1>10, <1>11, <1>12 DEF Sending
  <1>14. Counts(e, acc, del, ack + 1, fgt)
    BY <1>6 DEF Counts
  <1>15. QED
    BY <1>6, <1>13, <1>14 DEF Protocol, v

\* It gets the answer to its request to reset.
LEMMA ResetAnswered ==
    ASSUME NEW e, NEW x, NEW S, NEW y \in Seq(S), NEW acc, NEW del, NEW ack, NEW fgt,
           DOMAIN x \subseteq Nat,
           y # << >>, Head(y).msgId = "RELIABLE_HANDSHAKE_RESET",
           Protocol(-1, e, x, y, acc, del, ack, fgt)
    PROVE  Protocol(0, e, x, Tail(y), acc, del, ack, fgt)
  <1> DEFINE v == Tail(y)
  <1>1. (\A ids : Has(v, ids) => Has(y, ids)) /\ Has(y, {"RELIABLE_HANDSHAKE_RESET"})
    <2>1. DOMAIN y \subseteq Nat /\ DOMAIN Tail(y) \subseteq Nat
      BY HeadBefore, TailWithin
    <2>2. QED
      BY <2>1, TailThinned, ThinnedChannel, HeadBefore
  <1> HIDE DEF v
  <1>2. Resetting(-1, e, x, y, acc, ack)
    BY DEF Protocol, Sending
  <1>3. e \in {0, -1} /\ ack < acc
    BY <1>1, <1>2 DEF Resetting
  <1>4. \A i \in DOMAIN x : x[i].msgId \notin {"RELIABLE_0", "RELIABLE_1", "UNRELIABLE"}
    BY <1>2 DEF Resetting, Has
  <1>5. ~Has(v, {"RELIABLE_HANDSHAKE_0"})
    BY <1>1, <1>2 DEF Resetting, Has
  <1>6. Reliable(0) = "RELIABLE_0" /\ Reliable(1) = "RELIABLE_1" /\ 1 - 0 = 1
        /\ Handshake(0) = "RELIABLE_HANDSHAKE_0"
    BY DEF Reliable, Handshake
  <1>7. Sent(0, x, acc, ack)
    BY <1>4, <1>6 DEF Sent
  <1>8. Before(x, {"RELIABLE_RESET", Reliable(1 - 0)}, {Reliable(0)})
    BY <1>4, <1>6 DEF Before
  <1>9. Before(v, {"RELIABLE_HANDSHAKE_RESET", Handshake(1 - 0)}, {Handshake(0)})
    BY <1>5, <1>6 DEF Before, Has
  <1>10. Open(0, e, x, v, del, ack)
    BY <1>3, <1>4, <1>5, <1>6 DEF Open, Has
  <1>11. QED
    BY <1>7, <1>8, <1>9, <1>10 DEF Protocol, Sending, v

\* It waits no longer for an answer, when nothing is on its way.
LEMMA AnswerOverdue ==
    ASSUME NEW s, NEW e, NEW x, NEW y, NEW acc, NEW del, NEW ack, NEW fgt,
           s \in {0, 1}, ack < acc, ~Has(x, Requests), ~Has(y, Answers),
           Protocol(s, e, x, y, acc, del, ack, fgt)
    PROVE  Protocol(-1, e, x, y, acc, del, ack, fgt)
  <1>1. Sending(s, e, x, y, acc, del, ack)
    BY DEF Protocol, Resetting
  <1>2. ~Has(x, {"RELIABLE_0", "RELIABLE_1", "UNRELIABLE"})
    BY <1>1 DEF Sending, Sent, Has, Requests
  <1>3. /\ ~Has(y, {"RELIABLE_HANDSHAKE_0", "RELIABLE_HANDSHAKE_1"})
        /\ ~Has(y, {"RELIABLE_HANDSHAKE_RESET"})
    BY DEF Has, Answers
  <1>4. QED
    BY <1>2, <1>3 DEF Protocol, Resetting

\* It sends the first message of its queue, again or for the first time.
LEMMA MessageSent ==
    ASSUME NEW s, NEW e, NEW S, NEW x \in Seq(S), NEW y, NEW acc, NEW del, NEW ack, NEW fgt,
           NEW m \in S, s \in {0, 1}, m.msgId = Reliable(s), m.data = ack + 1, ack < acc,
           Protocol(s, e, x, y, acc, del, ack, fgt)
    PROVE  Protocol(s, e, Append(x, m), y, acc, del, ack, fgt)
  <1> DEFINE u == Append(x, m)
  <1>1. /\ \A i \in DOMAIN u : (i \in DOMAIN x /\ u[i] = x[i]) \/ (i = Len(x) + 1 /\ u[i] = m)
        /\ \A ids : Has(u, ids) <=> Has(x, ids) \/ m.msgId \in ids
        /\ \A X, Y : (Before(x, X, Y) /\ (m.msgId \in X => m.msgId \notin Y /\ ~Has(x, Y)))
                        => Before(u, X, Y)
    BY AppendChannel
  <1> HIDE DEF u
  <1>2. Sending(s, e, x, y, acc, del, ack)
    BY DEF Protocol, Resetting
  <1>3. m.msgId \notin {"RELIABLE_RESET", Reliable(1 - s), "UNRELIABLE"}
    BY DEF Reliable
  <1>4. Sent(s, u, acc, ack)
    BY <1>1, <1>2, <1>3 DEF Sending, Sent
  <1>5. Before(u, {"RELIABLE_RESET", Reliable(1 - s)}, {Reliable(s)})
    BY <1>1, <1>2, <1>3 DEF Sending
  <1>6. Open(s, e, u, y, del, ack) \/ Done(s, e, u, del, ack)
    BY <1>1, <1>2, <1>3 DEF Sending, Open, Done
  <1>7. QED
    BY <1>2, <1>4, <1>5, <1>6 DEF Protocol, Sending, u

\* It asks for a reset.
LEMMA ResetSent ==
    ASSUME NEW e, NEW S, NEW x \in Seq(S), NEW y, NEW acc, NEW del, NEW ack, NEW fgt,
           NEW m \in S, m.msgId = "RELIABLE_RESET", Protocol(-1, e, x, y, acc, del, ack, fgt)
    PROVE  Protocol(-1, e, Append(x, m), y, acc, del, ack, fgt)
  <1>1. \A ids : Has(Append(x, m), ids) <=> Has(x, ids) \/ m.msgId \in ids
    BY AppendChannel
  <1>2. Resetting(-1, e, x, y, acc, ack)
    BY DEF Protocol, Sending
  <1>3. Resetting(-1, e, Append(x, m), y, acc, ack)
    BY <1>1, <1>2 DEF Resetting
  <1>4. QED
    BY <1>3 DEF Protocol

\* Its application sends one more message.
LEMMA MessageAccepted ==
    ASSUME NEW s, NEW e, NEW x, NEW y, NEW acc, NEW del, NEW ack, NEW fgt,
           Protocol(s, e, x, y, acc, del, ack, fgt)
    PROVE  Protocol(s, e, x, y, acc + 1, del, ack, fgt)
  <1>1. acc \in Nat /\ ack \in Nat /\ del \in Nat
    BY DEF Protocol, Counts
  <1>2. Counts(e, acc + 1, del, ack, fgt)
    BY DEF Protocol, Counts
  <1>3. Sent(s, x, acc, ack) => Sent(s, x, acc + 1, ack)
    BY <1>1 DEF Sent
  <1>4. QED
    BY <1>1, <1>2, <1>3 DEF Protocol, Sending, Resetting

-----------------------------------------------------------------------------
(* The sender's queue.                                                      *)

\* The messages accepted and not yet acknowledged, by number.
Queue(acc, ack) == [i \in 1..(acc - ack) |-> ack + i]

\* Its length, and what it looks like when a message is acknowledged or accepted.
LEMMA QueueFacts ==
    ASSUME NEW acc \in Nat, NEW ack \in Nat, ack <= acc
    PROVE  /\ Queue(acc, ack) \in Seq(Nat) /\ Len(Queue(acc, ack)) = acc - ack
           /\ Queue(acc, ack) = << >> <=> ack = acc
           /\ Append(Queue(acc, ack), acc + 1) = Queue(acc + 1, ack)
           /\ ack < acc => /\ Head(Queue(acc, ack)) = ack + 1
                           /\ Tail(Queue(acc, ack)) = Queue(acc, ack + 1)
  <1>1. ASSUME NEW a \in Nat, NEW b \in Nat, b <= a
        PROVE  Queue(a, b) \in Seq(Nat) /\ Len(Queue(a, b)) = a - b
               /\ \A i \in 1..(a - b) : Queue(a, b)[i] = b + i
    <2>1. a - b \in Nat /\ \A i \in 1..(a - b) : b + i \in Nat
      BY <1>1
    <2>2. QED
      BY <2>1 DEF Queue
  <1> DEFINE q == Queue(acc, ack)
  <1>2. q \in Seq(Nat) /\ Len(q) = acc - ack /\ \A i \in 1..(acc - ack) : q[i] = ack + i
    BY <1>1
  <1>3. /\ Queue(acc + 1, ack) \in Seq(Nat) /\ Len(Queue(acc + 1, ack)) = acc + 1 - ack
        /\ \A i \in 1..(acc + 1 - ack) : Queue(acc + 1, ack)[i] = ack + i
    BY <1>1
  <1> HIDE DEF q
  <1>4. q = << >> <=> ack = acc
    BY <1>2, EmptySeq
  <1>5. Append(q, acc + 1) = Queue(acc + 1, ack)
    <2>1. /\ Append(q, acc + 1) \in Seq(Nat) /\ Len(Append(q, acc + 1)) = acc - ack + 1
          /\ \A i \in 1..(acc - ack) : Append(q, acc + 1)[i] = q[i]
          /\ Append(q, acc + 1)[acc - ack + 1] = acc + 1
      BY <1>2, AppendProperties
    <2>2. ASSUME NEW i \in 1..(acc + 1 - ack)
          PROVE  Append(q, acc + 1)[i] = Queue(acc + 1, ack)[i]
      <3>1. CASE i \in 1..(acc - ack)
        BY <1>2, <1>3, <2>1, <3>1
      <3>2. CASE i = acc - ack + 1
        BY <1>3, <2>1, <3>2
      <3>3. i \in 1..(acc - ack) \/ i = acc - ack + 1
        OBVIOUS
      <3>4. QED
        BY <3>1, <3>2, <3>3
    <2>3. acc + 1 - ack = acc - ack + 1
      OBVIOUS
    <2>4. QED
      BY <1>3, <2>1, <2>2, <2>3, SeqEqual
  <1>6. ASSUME ack < acc PROVE Head(q) = ack + 1 /\ Tail(q) = Queue(acc, ack + 1)
    <2>1. q # << >> /\ 1 \in 1..(acc - ack)
      BY <1>4, <1>6
    <2>2. /\ Queue(acc, ack + 1) \in Seq(Nat) /\ Len(Queue(acc, ack + 1)) = acc - (ack + 1)
          /\ \A i \in 1..(acc - (ack + 1)) : Queue(acc, ack + 1)[i] = ack + 1 + i
      BY <1>1, <1>6
    <2>3. /\ Head(q) = q[1] /\ Tail(q) \in Seq(Nat) /\ Len(Tail(q)) = Len(q) - 1
          /\ \A i \in 1..(Len(q) - 1) : Tail(q)[i] = q[i + 1]
      BY <1>2, <2>1, HeadTailProperties
    <2>4. ASSUME NEW i \in 1..(acc - ack - 1)
          PROVE  Tail(q)[i] = Queue(acc, ack + 1)[i]
      <3>1. i + 1 \in 1..(acc - ack) /\ i \in 1..(acc - (ack + 1))
        OBVIOUS
      <3>2. QED
        BY <1>2, <2>2, <2>3, <3>1
    <2>5. Len(Tail(q)) = acc - ack - 1 /\ Len(Queue(acc, ack + 1)) = acc - ack - 1
      BY <1>2, <2>2, <2>3
    <2>6. Tail(q) = Queue(acc, ack + 1)
      BY <2>2, <2>3, <2>4, <2>5, SeqEqual
    <2>7. QED
      BY <1>2, <2>1, <2>3, <2>6
  <1>7. QED
    BY <1>2, <1>4, <1>5, <1>6 DEF q
=============================================================================
