----------------------------- MODULE UdcMessage -----------------------------
(***************************************************************************)
(* The wire format of udp-connect (include/UdcMessage.h,                   *)
(* src/UdcMessage.cpp).  A datagram is a record of the fields a server     *)
(* reads from it: who sent it and to whom, whether its first four bytes    *)
(* are the signature the server expects, the message id, the 32-bit word   *)
(* behind the header (an end point id or a time stamp), the payload, and   *)
(* the number of bytes recvfrom reports.  Sizes are the code's sizes in    *)
(* bytes, because receiveMessages compares them.                           *)
(***************************************************************************)
EXTENDS Integers, Sequences

CONSTANTS
    Address,           \* UdcAddressMux values: family, address and port
    Payload,           \* application messages
    PayloadSize,       \* their sizes in bytes
    NoData,            \* what a datagram without application data carries
    TimeStampModulus   \* 2^32: time stamps travel as uint32_t

ASSUME MessageAssumption ==
    /\ PayloadSize \in [Payload -> Nat]
    /\ NoData \notin Payload
    /\ TimeStampModulus \in Nat \ {0}

MsgId ==
    {"CONNECTION_REQUEST", "CONNECTION_HANDSHAKE", "PING", "PONG", "UNRELIABLE",
     "RELIABLE_RESET", "RELIABLE_0", "RELIABLE_1",
     "RELIABLE_HANDSHAKE_RESET", "RELIABLE_HANDSHAKE_0", "RELIABLE_HANDSHAKE_1"}

SignatureSize == 4                \* sizeof(UdcSignature::bytes)
HeaderSize    == SignatureSize + 1 \* msgHeader::SIZE
WordSize      == HeaderSize + 4   \* msgConnection, msgPingPong, msgReliable::SIZE

\* Size in bytes of the datagram the server builds for a message.
SizeOf(msgId, data) ==
    LET length == IF data \in Payload THEN PayloadSize[data] ELSE 0
    IN  (IF msgId = "UNRELIABLE" THEN HeaderSize ELSE WordSize) + length

\* The size test that receiveMessages makes before it calls a handler.
WellSized(msgId, size) ==
    CASE msgId = "UNRELIABLE"                 -> size >= HeaderSize
      [] msgId \in {"RELIABLE_0", "RELIABLE_1"} -> size >= WordSize
      [] OTHER                                -> size = WordSize

\* serializeTimeStamp takes a uint32_t: the int64 clock value is truncated.
TimeStamp(t) == t % TimeStampModulus

\* The message ids of the three reliable states -1, 0 and 1.
ReliableId(state) ==
    CASE state = -1 -> "RELIABLE_RESET"
      [] state = 0  -> "RELIABLE_0"
      [] OTHER      -> "RELIABLE_1"

ReliableHandshakeId(state) ==
    CASE state = -1 -> "RELIABLE_HANDSHAKE_RESET"
      [] state = 0  -> "RELIABLE_HANDSHAKE_0"
      [] OTHER      -> "RELIABLE_HANDSHAKE_1"

Datagram ==
    [src: Address, dst: Address, signed: BOOLEAN, msgId: MsgId, word: Nat,
     data: Payload \cup {NoData}, size: Nat]

\* A datagram as the server serializes it into m_messageBuffer and sends it.
Packet(src, dst, signed, msgId, word, data) ==
    [src |-> src, dst |-> dst, signed |-> signed, msgId |-> msgId, word |-> word,
     data |-> data, size |-> SizeOf(msgId, data)]
=============================================================================
