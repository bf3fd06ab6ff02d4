------------------------------ MODULE UdcClient ------------------------------
(***************************************************************************)
(* One remote end point as a server sees it (include/UdcClient.h,          *)
(* src/UdcClient.cpp).  A UdcClient object is a record; each member        *)
(* function is an operator on it.  Two constructor arguments feed five     *)
(* periods in the code: pingPeriod is also the connection attempt period,  *)
(* timeoutPeriod is also the connection lost period and the reliable       *)
(* timeout period.  m_incomingAddress is never assigned or read and is     *)
(* left out.  A time of 0 means "never", as in the code.                   *)
(***************************************************************************)
EXTENDS UdcMessage

Client ==
    [outgoingAddress: Address, pingPeriod: Nat, timeoutPeriod: Nat,
     isConnected: BOOLEAN, reliableState: {-1, 0, 1}, reliableMessages: Seq(Payload),
     ping: Int, pingLastSetTime: Nat, lastReceivedTime: Nat, reliableSentTime: Nat,
     firstConnectAttemptTime: Nat, prevConnectAttemptTime: Nat]

NewClient(outgoingAddress, pingPeriod, timeoutPeriod) ==
    [outgoingAddress |-> outgoingAddress, pingPeriod |-> pingPeriod,
     timeoutPeriod |-> timeoutPeriod,
     isConnected |-> FALSE, reliableState |-> 0, reliableMessages |-> << >>,
     ping |-> 0, pingLastSetTime |-> 0, lastReceivedTime |-> 0, reliableSentTime |-> 0,
     firstConnectAttemptTime |-> 0, prevConnectAttemptTime |-> 0]

StartConnecting(c, t) ==
    [c EXCEPT !.firstConnectAttemptTime = t, !.prevConnectAttemptTime = 0]

RetryConnecting(c, t) == [c EXCEPT !.prevConnectAttemptTime = t]

NeedsConnectionTimeoutEvent(c, t) == t - c.firstConnectAttemptTime >= c.timeoutPeriod

NeedsConnectionAttempt(c, t) == t - c.prevConnectAttemptTime >= c.pingPeriod

ReceiveConnectionHandshake(c, t) ==
    [c EXCEPT !.isConnected = TRUE, !.lastReceivedTime = t]

NeedsPing(c, t) == t - c.pingLastSetTime >= c.pingPeriod

\* receivePong returns true when this is the pong that regains the connection.
\* receiveReliableHandshake is the same function.
ReceivePong(c, sentTime, t) ==
    [c EXCEPT !.ping = t - sentTime, !.pingLastSetTime = t, !.lastReceivedTime = t,
              !.isConnected = TRUE]

\* Mutant: the time since the last pong counts, and there may never have been one.
Bug_LostAfterPong(c, t) ==
    c.isConnected /\ c.pingLastSetTime # 0 /\ t - c.pingLastSetTime >= c.timeoutPeriod

NeedsConnectionLostEvent(c, t) ==
    c.isConnected /\ t - c.lastReceivedTime >= c.timeoutPeriod

SetConnectionLost(c) == [c EXCEPT !.isConnected = FALSE]

\* The reliable timer starts at the first transmission of a message only.
SetSendReliable(c, t) ==
    [c EXCEPT !.reliableSentTime = IF @ = 0 THEN t ELSE @]

NeedsReliableReset(c, t) ==
    c.reliableSentTime # 0 /\ t - c.reliableSentTime >= c.timeoutPeriod

\* setReliableState(-1) and resetSendReliable(), as updateClientConnectionStatus
\* does them together when the handshake has been outstanding for too long.
StartReliableReset(c) == [c EXCEPT !.reliableState = -1, !.reliableSentTime = 0]

\* Mutant: the state counts on instead of alternating.
Bug_CountingState(c) ==
    [c EXCEPT
        !.reliableMessages = IF c.reliableState # -1 /\ @ # << >> THEN Tail(@) ELSE @,
        !.reliableState = @ + 1,
        !.reliableSentTime = 0]

\* Mutant: the timer of the acknowledged message keeps running.
Bug_TimerKeepsRunning(c) ==
    [c EXCEPT
        !.reliableMessages = IF c.reliableState # -1 /\ @ # << >> THEN Tail(@) ELSE @,
        !.reliableState = IF @ = 0 THEN 1 ELSE 0]

\* Mutant: the handshake of a reset pops a message, too.
Bug_ResetPops(c) ==
    [c EXCEPT
        !.reliableMessages = IF @ # << >> THEN Tail(@) ELSE @,
        !.reliableState = IF @ = 0 THEN 1 ELSE 0,
        !.reliableSentTime = 0]

\* What processReliableHandshake does to the client when the handshake matches
\* its state: pop the acknowledged message, -1 -> 0, 0 -> 1, 1 -> 0, stop the timer.
AcknowledgeReliable(c) ==
    [c EXCEPT
        !.reliableMessages = IF c.reliableState # -1 /\ @ # << >> THEN Tail(@) ELSE @,
        !.reliableState = IF @ = 0 THEN 1 ELSE 0,
        !.reliableSentTime = 0]
=============================================================================
