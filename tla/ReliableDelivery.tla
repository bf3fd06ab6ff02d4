-------------------------- MODULE ReliableDelivery --------------------------
(***************************************************************************)
(* What the reliable channel of udp-connect promises, from one sending     *)
(* application to one receiving application.  Messages are numbered in the *)
(* order udcSendMessage accepted them.  include/udp_connect.h:50-51 says   *)
(* that they "arrive in order and arrive exactly once"; with               *)
(* AtLeastOnce = TRUE a message may arrive again until the sender has seen *)
(* it acknowledged, but never after a later one, and none is ever skipped. *)
(* A receiver that is restarted forgets what it has delivered and may      *)
(* deliver the last message once more, acknowledged or not.                *)
(***************************************************************************)
EXTENDS Naturals

CONSTANT AtLeastOnce

VARIABLES
    accepted,    \* messages udcSendMessage has accepted
    delivered,   \* the last message given to the receiving application
    acked,       \* the last message the sender has removed from its queue
    repeated,    \* whether some message was given to the application twice
    forgot       \* the receiver was restarted and has delivered nothing since

delivery == <<accepted, delivered, acked, repeated, forgot>>

Init == accepted = 0 /\ delivered = 0 /\ acked = 0 /\ repeated = FALSE /\ forgot = FALSE

Accept == accepted' = accepted + 1 /\ UNCHANGED <<delivered, acked, repeated, forgot>>

\* Stop and wait: a message is delivered when all earlier ones are acknowledged.
Deliver ==
    /\ delivered = acked /\ delivered < accepted
    /\ delivered' = delivered + 1
    /\ forgot' = FALSE
    /\ UNCHANGED <<accepted, acked, repeated>>

DeliverAgain ==
    /\ AtLeastOnce
    /\ delivered = acked + 1 \/ (forgot /\ delivered > 0)
    /\ repeated' = TRUE
    /\ forgot' = FALSE
    /\ UNCHANGED <<accepted, delivered, acked>>

Acknowledge ==
    /\ acked < delivered
    /\ acked' = acked + 1
    /\ UNCHANGED <<accepted, delivered, repeated, forgot>>

Forget == forgot' = TRUE /\ UNCHANGED <<accepted, delivered, acked, repeated>>

Next == Accept \/ Deliver \/ DeliverAgain \/ Acknowledge \/ Forget

Spec == Init /\ [][Next]_delivery
=============================================================================
