# udp-connect in TLA+

A formal model of udp-connect (connection-based UDP messaging behind a C interface), the
TLC runs that check it and TLAPS proofs about it. File names below are relative to the
repository.

## The system

| Part | State | Operations | Hard to get right |
| --- | --- | --- | --- |
| `UdcClient` | periods, connected flag, reliable state -1/0/1, queue of reliable messages, seven times | timers, pong, handshakes, lost, reset | timers that outlive what they time; a time of 0 means "never" |
| `UdcServer` | id counter, pending queue, clients by id, clients by address, reliable state per address, one message buffer | connect, disconnect, send, `updatePendingClients`, `updateClientConnectionStatus`, `receiveMessages` and a handler per message id | late and duplicated answers; two maps that must agree; one event per call; a buffer shared by sending and receiving |
| `UdcMessage` | none | serialize, deserialize | sizes, signature, 32-bit time stamps |
| C interface (`udp_connect`) | none | `udcTryConnect`, `udcDisconnect`, `udcSendMessage`, `udcProcessEvents`, `udcGetStatus`, `udcTryBind` | argument order, values left uninitialised |
| Reliable channel | a state at each end, one message in flight | message, handshake, reset, reset handshake | loss, duplication, reordering, delay, reconnecting |
| `UdcSocketMux`, `UdcSocket` | bound sockets | bind, send from the front socket, scan to receive | the size argument is both input and output; which socket is heard when several have datagrams; a socket that fails in the middle of a scan; a peer with several ports answers from its first |
| address map, parsing, logger, C# wrapper | none of the protocol's | - | - |

Servers interact only by datagrams. A server is single threaded: the application calls
`udcProcessEvents` in a loop, and each call returns at most one event. What is concurrent
is everything outside: the peer, the network and the clock.

What makes the parts correct:

- the application sees outcomes in the order of its calls, then LOST and REGAINED
  alternately, and nothing about an end point that timed out;
- events and status agree; the registry's two maps agree; a disconnected end point is gone;
- the reset timer runs only for a message in flight;
- reliable messages arrive in order, once, are acknowledged only after they arrived, and
  are acknowledged in the end;
- every attempt gets an outcome, silence is noticed, every call returns, every socket is
  read.

## Modules

| Module | Models |
| --- | --- |
| `UdcMessage` | wire format: a datagram is a record with source, destination, "is the signature right", id, 32-bit word, payload and size in bytes |
| `UdcClient` | a client object as a record, its member functions as operators |
| `UdcServer` | one server in an arbitrary environment; actions below; the safety properties |
| `MCUdcServer` | TLC instance: a small network that may deliver any datagram at any time |
| `UdcSocketMux` | `UdcServer` behind several bound sockets: binding, the scan of `receive()`, the socket that sends |
| `MCUdcSocketMux` | TLC instance with a peer of each family, a clock that may be set back, fairness and the liveness properties of one server |
| `ReliableDelivery` | the abstract channel: accept, deliver, acknowledge, deliver again (as a parameter), and a receiver that forgets |
| `UdcLink` | two instances of `UdcServer` joined by two channels with selectable faults, restarts and fairness; history variables map it to `ReliableDelivery` |
| `UdcServerTypeProofs`, `UdcServerProofs` | theorems about `UdcServer` in any environment |
| `UdcServerPeerProofs` | theorems about `UdcServer` whose peers answer from where they were asked, and what a step of it may do to its queues, clients and outbox |
| `UdcSocketMuxProofs` | theorems about `UdcSocketMux` for any sockets and arrivals |
| `UdcLinkProofs` | theorems about `UdcLink` on any network; instantiates `UdcServerPeerProofs` for both servers |
| `ChannelProofs`, `ReliableProtocolProofs` | lemmas about channels that lose and repeat, and about the alternating bit protocol apart from the servers that run it |
| `UdcLinkDeliveryProofs` | `UdcLink` implements `ReliableDelivery` |

State of `UdcServer` and the code: `idCounter`, `pendingClients`, `clientsById`,
`clientsByAddress`, `reliableStates` are the members of the same name, with end point ids
in place of `shared_ptr`s; `clients` holds the objects some container still references.
`sigDirty` counts the leading bytes of `m_messageBuffer` that differ from the signature.
`call`, `time`, `todo`, `msgSize` are the locals of a running `udcProcessEvents`. `now`,
`inbox` and `outbox` belong to the environment. `event` is what the last call returned
and `told` the history of what events have told the application.

`udcProcessEvents` is split where the code loops, because datagrams keep arriving while it
runs: `UpdatePendingClients` (`PendingTimeout`, `PendingAttempt`, `PendingWait`), one
`UpdateClientStatus` per visited client, in any order (the code iterates over an
`unordered_map`), and one receive action per datagram. `ReceiveNothing` also stands for an
error of the socket that takes no datagram off it. `ReceiveRefused` is a datagram that is
empty or larger than the room offered: it is gone, and the call ends (`ReceiveFails`) or
goes on with the next socket (`ReceiveFailsOver`) and with the size that the failed one
left, which is `SOCKET_ERROR` as an unsigned number. A failing `sendto` is a lost datagram.
The other interface functions are one action each; `udcGetStatus` changes nothing and is
the operator `GetStatus`, whose answer is arbitrary where the code leaves it uninitialised.

`UdcSocketMux` adds the bound sockets in the order of binding, the datagrams that wait on
each and the position of the running scan. The server's `inbox` is then the one datagram
that `recvfrom` is handing over and `outbox` what `send()` is about to send; the handlers
are the actions of `UdcServer`. `excused` is a history variable: the sockets that the
running scan has passed although they may hold a datagram, because `recvfrom` failed on
them, because it refused one and another may wait behind it, or because one arrived later.
A bind that fails changes nothing and is no step.

In `UdcLink`, `BRestarts` is `udcDeleteServer` followed by `udcCreateServer` on the same
port: the receiver has no clients, so what it forgets is `m_reliableStates`.

Data is abstract: addresses and payloads are model values; sizes, time stamps, ids and
signature bytes are kept where the code compares them.

## Runs

Passing:

- `server` (`MCUdcServer.cfg`): two end points, one peer, an address that never answers,
  timeout argument 10 (period 1 ms), three clock values, one datagram waiting at a time. The peer may send handshakes
  of either id, pongs and reliable handshakes it was never asked for, time stamps ahead of
  the clock, requests, messages, and stray datagrams: empty, short, foreign, of a wrong
  size, oversized. Two end points are what an order needs; three clock values let a timer
  start, expire and expire again; one waiting datagram is enough, because any sequence of
  datagrams can pass one after the other (a datagram can arrive between any two turns of
  the receive loop). Datagrams arrive only while the receive loop runs and the clock only
  moves between calls: nothing else reads them, so no behaviour of the server is lost.
  Deadlock is checked: the server always has a next step.
- `link_perfect`: implements `ReliableDelivery` without repetition: one connection, three
  messages (both states are used, one of them twice), a network that only transports, no
  time passing while datagrams are on their way. The application may disconnect and
  sockets may fail.
- `link_lossy`: implements `ReliableDelivery` with repetition of the message in flight, and
  every accepted message is acknowledged in the end unless B's socket refuses every copy:
  two messages, both states, loss (but not of every copy), duplication and a restart of the
  receiver, through any number of resets (time is endless, see below). Messages are larger
  than all other datagrams, so that refused ones are among the behaviours; errors of the
  socket that take no datagram are left out (`MayFail`). These, more messages and a sender
  that disconnects meanwhile are left to the theorem `LinkDeliversInOrder`.
- `link_chaos`: two connections to one peer, all network faults at once: registry maps,
  finality of `udcDisconnect`, and the ping that `udcGetStatus` reports. Time stamps have
  three bits here and the clock starts beyond them, as the real one does with 32: the
  stored ping is far too large, and truncating the answer makes it at most the age of the
  server.
- `sockets`: up to two sockets out of two ports of each family, bound while the server
  runs, a peer of each family, one datagram waiting per socket: one sending socket per
  family, liveness of the receive loop, and what `nullptr` tells the application
  (`NullptrMeansAllHeard`): every socket was heard, although some may fail or refuse a
  datagram in the middle of the scan. Datagrams arrive at any point of a scan
  (`ArrivesMidScan`), since one that arrives on a socket already passed is the exception
  that the property has to name; two sockets suffice for a failing one before another. The
  IPv6-first scan is visible in `SocketsDrain`: IPv6 sockets are drained whatever arrives
  on IPv4, and not the other way round.
- `attempts`: two end points, one socket, a clock that may be set back: every attempt gets
  an outcome and silence is noticed.

Where the code and its documentation disagree (each is a finding in `PROJECT.json`, with
the quoted line):

- `timeout_as_requested`: timeouts are a tenth of the argument, because `udcTryConnect*`
  passes its two periods in exchanged order.
- `signature`: a short datagram damages the signature of the next one sent.
- `regained_after_disconnect`: a peer that answers from another address than the one asked
  leaves an entry in `m_clientsByAddress` behind, through which an end point that was lost
  and then disconnected is reported as regained.
- `ping_unless_connected`: `udcGetStatus` gives an uninitialised ping where the header
  promises 0.
- `link_reconnect`: the first message after `udcDisconnect` and `udcTryConnect` is
  acknowledged and not delivered, because the receiver remembers the state of the old
  connection. No network fault is needed.
- `link_refused`: a message is never delivered over a network without any fault. The size
  of one datagram is the room for the next one of the same call, so a message that follows
  a reset or a ping into the same receive loop is refused, and under an unlucky schedule
  every copy is.

Together with the passing runs these delimit the promise of the reliable channel: it holds
for one connection over a path that keeps the order and answers within the reliable
timeout, as long as no message is refused for ever; exactly once needs a path without loss
as well. What happens beyond that border can be seen by changing constants:

- Reordering: `UdcLink_perfect.cfg` with `MayReorder = TRUE`, `MayDisconnect` and `MayFail`
  `FALSE`, violates `NoGap`. A delayed retransmission of an old message is taken for the
  expected one, which one bit cannot tell apart.
- A round trip longer than the reliable timeout: `UdcLink_perfect.cfg` with `MayDelay = TRUE`,
  `MayDisconnect` and `MayFail` `FALSE`, `MaxSends = 2` and `MessageSize = 0` violates
  `AckedWasDelivered`. A second handshake of one reset concludes the next one, whose
  request then meets a message sent in state 1.
- The same for ever: `UdcLink_refused.cfg` with `MayDelay = TRUE`, `TickSize = 1` and
  `StartTime = MaxTime = 12` violates `<>[][~BRepeats]_vars`: every message is reset before
  its handshake arrives and delivered again, and no later one is sent.

In the last two, both channels may fill up, so `CHECK_DEADLOCK` has to be `FALSE`.

Bounds: `MaxEndPointId`, `MaxConnects` (calls of `udcTryConnect`), `MaxTime`, `MaxInbox`,
`MaxQueue`, `MaxWaiting` (datagrams on a socket), `MaxSockets`, `MaxSends`, `MaxRestarts`,
`Capacity` (datagrams in a channel). `BufferSize` 16 admits every message of the instance
and rejects the oversized stray; `SocketErrorSize` is only larger than every datagram.
`TimeStampModulus` is 1 in the runs where time stamps need not carry information, since
with real clock values a 32-bit stamp is never ahead of the clock; only in `server` do peers
send stamps that are. `StraySizes` are the lengths of stray datagrams: empty, shorter than a header, of no
message's size and too long; in the violation runs only those that matter there. In
`UdcLink` a server does not process events while its outgoing channel is full. Where
datagrams may be lost, or are never delayed, TLC finds no deadlock, so this never stops
both.

Endless time: a clock with a bound cannot show that something happens in the end, or that
it goes well through any number of resets. With `Endless` the clock of `UdcLink` stays at
`MaxTime` and `Tick` moves the stamps of A's clients into the past instead, each no further
than its own period (`Aged`). The code only compares the age of a stamp with that period,
so older stamps behave alike, and a finite graph holds behaviours of any length;
`LinkAssumption` asks that `MaxTime` leave room for the longest period and a tick more, so
that an aged stamp never becomes 0, which means "never". `Tick` needs A to be between calls
because a call reads the clock once. `TickSize` is 1 ms, and
5 ms in `link_lossy` and `link_refused`: the timeout period of 1 ms is over after one tick
either way, and the ping period of 10 ms after two.

## Fairness

- Both applications call `udcProcessEvents` again and again and calls run to their end
  (weak fairness of the steps of a call): the header asks for it ("Main update loop: every
  frame, call udcProcessEvents()", include/udp_connect.h:187-188), and no step blocks, since
  the sockets are non-blocking.
- The clock does not stand still: strong fairness of `Tick` in `MCUdcSocketMux`, where a
  call may be running at any moment; infinitely many `Tick`s in `UdcLink`, which without
  `MayDelay` also says that the network is prompt, because `Tick` waits until nothing is on
  its way.
- A fair-lossy network: of the copies of resets and handshakes that could be accepted again
  and again, one is accepted (strong fairness of `BAccepts` and `AAccepts`); a socket that
  holds datagrams does not fail every time. Nothing is assumed of messages, which the code
  itself refuses: that B's socket accepts one again and again is the premise
  `MessagesAccepted` of `AckedUnlessRefused`. `link_refused` has no such premise.
- Premises of single properties, not of the specification: datagrams stop arriving
  (`QuietFrom`), the clock is not set back for ever (`ClockSteady`). `EveryCallReturns` needs
  the first: the receive loop has no limit, so a call lasts as long as datagrams keep
  coming that need no event.

## Proofs

Every theorem holds for every value of the constants that satisfies the named assumptions:
`MessageAssumption` (payloads have sizes), `ServerAssumption` (the buffer has the size
`udcCreateServer` demands, the clock starts after 0), `SocketAssumption` (an address has a
family) and `LinkAssumption` (the types of the parameters of `UdcLink`, and the room below
`MaxTime` if time is endless). `TryConnect` is enabled only below `MaxEndPointId`: the
theorems are about servers with fewer than 2^32 calls of `udcTryConnect`, after which ids
would repeat. `Environment` keeps the clock positive, since the code takes the time 0 for
"never".

### One server, any environment

For any number of end points, any clock (also one that jumps) and any network,
`UdcServer!Spec` satisfies

- `TypeCorrect`: `TypeOK`;
- `OutcomesOrdered`: `OutcomesInCallOrder`;
- `StatusCorrect`: `StatusMatchesEvents`;
- `ProtocolFollowed`: the action property `EventsFollowProtocol`;
- `TimersCorrect`: `TimerBelongsToMessage`.

`TypeOK` is inductive by itself; its hard part is that the objects of `clients` are exactly
the referenced ones through every container update. The properties about events are not
inductive. `ViewInv` strengthens them: the pending queue increases, holds exactly the
attempts without an outcome, and lies above every id that was connected, lost or timed out
(`Ordered`); an object that only `m_clientsByAddress` still holds belongs to a disconnected
end point, or one that reported REGAINED since (`OrphansDisconnected`). Without the order,
a handshake could complete an attempt before an earlier one; without the orphans, a stray
pong could change the view of an end point that timed out. The lemma `ViewStep` proves that
every action preserves `ViewInv` and makes a legal step, one lemma per action.
`TimersCorrect` needs a timer invariant over the client operators (`TimerUpdates`).

`MapsAgree` (the two maps are inverse to each other) and `DisconnectFinal` (no event about
a disconnected end point) have a premise about the peers, `HandshakesHonest`: a handshake
comes from the address its request went to. It is not there for convenience. The code
enters the new client under the address that the handshake came from, while
`disconnectFromClient` removes it under the one it was opened for; a peer with several addresses
leaves an entry behind, as `regained_after_disconnect` shows, and `OrphansDisconnected` is
what is true then. Between two
servers the premise always holds, which is part of `AddressMapCorrect` below.

### Several sockets

`AllHeard` proves `NullptrMeansAllHeard`. The inductive invariant is `PassedAreHeard`: a
socket that the running scan has passed holds no datagram, or is `excused`. It is kept
because `recvfrom` only takes a datagram off a socket that holds one, because each passed
socket was found empty or is excused, and because sockets are bound between scans only
(`ScanInv`). Of the handlers the proof needs that one that ends the call returns an event
(`DatagramGivesEvent`), so that only the end of a scan returns `nullptr`. `OneSource` proves
`OneSourcePerFamily` from what the property leaves out: what was sent to a family left by
the socket that was bound first (`SentFromFront`), and binding only appends. The lemma
`MuxIsServer` carries the theorems about one server over to any number of sockets; it holds
because the module is built from the actions of `UdcServer`.

### Two servers, any network

Whatever the network loses, repeats, reorders or delays, and however often A connects and
disconnects, `UdcLink!Spec` satisfies

- `AddressMapCorrect`: `AddressMapMatches`;
- `DisconnectsAreFinal`: `DisconnectIsFinal`;
- `PingsPlausible`: `PingPlausible`.

The inductive invariant is `LinkInv`. Each server is the environment of the other, so the
lemmas of `UdcServerPeerProofs` are instantiated twice (`SA`, `SB`; `SameServerA` and
`SameServerB` say that they and `UdcLink` read the same server). `ChannelInv` discharges
`HandshakesHonest`: what is in a channel comes from the server at its end, and all clients
of A were opened for B (`ClientInv`). For the ping, every stamp in a channel is the
truncation of a time between `StartTime` and now (`Stamped`), B returns stamps unchanged, and A
subtracts the untruncated clock. The difference itself may be huge, and the invariant does
not say otherwise: what stays below the age of the server is the difference modulo
`TimeStampModulus`, and `udcGetStatus` truncates to that. The clock of a running call
is the clock of the channel (`ClockInv`), or a stamp could lie ahead of the time it is
compared with.

### The reliable channel

- `LinkDeliversInOrder`: `DeliversInOrder`, the refinement of `ReliableDelivery` with
  repetition of the last message, and `LinkSkipsNothing`: `AckedWasDelivered` and `NoGap`;
- `LinkDeliversExactlyOnce`: `DeliversExactlyOnce`, the refinement without repetition;

for any number of messages, of any size, any capacity of the channels, any number of
losses, repetitions, socket errors, resets and restarts of the receiver, bounded or endless
time, with or without `udcDisconnect`. The premise is `PromptNetwork`: one call of
`udcTryConnect`, a network that keeps the order, no time passing while something is on its
way, and a timeout argument of at least 10, since a tenth of less is a period of 0.
`link_reconnect` shows what happens without the first part, the changes of constants given
above what happens without the second and the third. `LosslessNetwork` adds, for exactly
once, that nothing is lost and B is not restarted; repeated datagrams remain, which
`link_perfect` does not have.

The argument is an alternating bit protocol with resets, kept apart from the servers in
`ReliableProtocolProofs`. `Protocol(s, e, x, y, ...)` relates A's state `s`, the state `e`
that B expects (-1 after a restart), the channels and the counts of accepted, delivered and
acknowledged messages: A is `Sending`, and B has either not seen the message of this state
(`Open`) or delivered it (`Done`); or A is `Resetting`, and nothing of the time before is
left in either channel. The order within a channel matters, so `Sending` also says that
messages of the other state and resets are ahead of those of the current one (`Before`).
One lemma per event of the protocol says that it is kept and what it delivers.
`UdcLinkDeliveryProofs` then shows that every step of `UdcLink` is one of these events:
`EventsOfB` and `EventsOfA` take the actions of the servers apart, the `...Keeps` lemmas
put them together again.

`DeliveryInv` adds to `Protocol` what the client needs: its queue holds exactly the
messages that are not acknowledged, and its timer runs out only when no request and no
answer is on its way (`QueueInv`). That is where promptness enters: a reset starts with
empty channels, so its handshakes cannot be taken for those of the next one. `OnceInv`
adds what makes a reset impossible once B has delivered: the answer is on its way
(`AnswerOnItsWay`) and A will not skip it (`NothingSkipped`: it fits the room that the
datagram before it left, it is signed, and A's client is registered).

### Only model-checked

Liveness and everything that rests on fairness or `ENABLED`: `AckedUnlessRefused`,
`EveryAttemptEnds`, `SilenceIsNoticed`, `EveryCallReturns`, `SocketsDrain`. These are out of
the prover's reach. The violation runs show counterexamples and need no proof. Every safety
property of a passing run is a theorem.

## Not modelled

Payload bytes and byte order, so also what a send does to the bytes a message event refers
to; memory past the buffer; creating sockets and setting their options, which are
operating system calls without protocol state; address parsing (`getaddrinfo`); the hash
function; the getters that copy fields out of an event; the packet log; the C# wrapper;
reliable traffic in both directions at once, which would use two pairs of states that
share nothing but the connection's timers. The hazards in `PROJECT.json` without a property
say why.

## Plan

Done: the server, its clients and the wire format; several sockets; two servers and the
abstract channel; the proofs that no socket is missed, that the maps agree and that the
channel is what `ReliableDelivery` says.

Left:

1. Proof that what the fields of a client may do in one step bounds when CONNECTION_LOST
   and CONNECTION_TIMEOUT are reported: not before the period has passed without an answer.
2. A weaker premise than `PromptNetwork` for `LinkDeliversInOrder`: time may pass while
   something is on its way, but less than the timeout period.
