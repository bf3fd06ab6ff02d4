-------------------------- MODULE UdcServerProofs --------------------------
(***************************************************************************)
(* What a server tells its application, proved for every value of the      *)
(* constants and every environment.  The properties of UdcServer are not   *)
(* inductive by themselves; ViewInv is.  It adds to them that the queue of *)
(* pending clients holds exactly the attempts without an outcome, in the   *)
(* order of their ids and above every id that was ever registered or       *)
(* reported (Ordered), and that an object which only m_clientsByAddress    *)
(* still holds belongs to a disconnected end point (OrphansDisconnected).  *)
(***************************************************************************)
EXTENDS UdcServerTypeProofs

Increasing(s) == \A i, j \in DOMAIN s : i < j => s[i] < s[j]

\* The end points that are or were connected and still have an object.
Registered == clientsById \cup (Range(clientsByAddress) \ {NoClient})

\* The pending queue and the history of outcomes, see above.
Ordered ==
    /\ Increasing(pendingClients)
    /\ \A id \in 1..idCounter : told[id] = "connecting" <=> id \in Range(pendingClients)
    /\ \A id \in 1..idCounter, p \in Range(pendingClients) :
          told[id] \in {"connected", "lost", "timedOut"} => id < p
    /\ \A id \in Registered, p \in Range(pendingClients) : id < p

\* An entry of m_clientsByAddress that outlived its entry in m_clientsById.  Its object may
\* have reported REGAINED since, and then stays connected: no status loop visits it.
OrphansDisconnected ==
    \A id \in Registered \ clientsById :
        \/ told[id] = "disconnected"
        \/ told[id] = "connected" /\ clients[id].isConnected

\* pop_front of an increasing queue: the first element is below all others.
LEMMA IncreasingTail ==
    ASSUME NEW s \in Seq(Nat), s # << >>, Increasing(s)
    PROVE  /\ Increasing(Tail(s))
           /\ Range(Tail(s)) = Range(s) \ {Head(s)}
           /\ \A p \in Range(Tail(s)) : Head(s) < p
  <1>1. Len(s) \in Nat /\ Len(s) >= 1 /\ DOMAIN s = 1..Len(s) /\ Head(s) = s[1]
    OBVIOUS
  <1>2. /\ DOMAIN Tail(s) = 1..(Len(s) - 1)
        /\ \A i \in 1..(Len(s) - 1) : Tail(s)[i] = s[i + 1]
    OBVIOUS
  <1>3. Increasing(Tail(s))
    BY <1>1, <1>2 DEF Increasing
  <1>4. \A p \in Range(Tail(s)) : Head(s) < p
    BY <1>1, <1>2 DEF Increasing, Range
  <1>5. \A i \in 1..Len(s) : s[i] \in Nat
    BY <1>1
  <1>6. Head(s) \notin Range(Tail(s))
    BY <1>1, <1>4, <1>5
  <1>7. QED
    BY <1>3, <1>4, <1>6, SeqHeadTail

\* erase keeps an increasing queue increasing and removes one element only.
LEMMA IncreasingRemoveAt ==
    ASSUME NEW s \in Seq(Nat), NEW i \in DOMAIN s, Increasing(s)
    PROVE  Increasing(RemoveAt(s, i)) /\ Range(RemoveAt(s, i)) = Range(s) \ {s[i]}
  <1>1. Len(s) \in Nat /\ DOMAIN s = 1..Len(s) /\ i \in 1..Len(s) /\ \A k \in 1..Len(s) : s[k] \in Nat
    OBVIOUS
  <1> DEFINE r == RemoveAt(s, i)
  <1>2. /\ DOMAIN r = 1..(Len(s) - 1)
        /\ \A k \in 1..(Len(s) - 1) : r[k] = IF k < i THEN s[k] ELSE s[k + 1]
    BY RemoveAtFacts
  <1> HIDE DEF r
  <1>3. Increasing(r)
    <2>1. SUFFICES ASSUME NEW j \in 1..(Len(s) - 1), NEW k \in 1..(Len(s) - 1), j < k
                   PROVE  r[j] < r[k]
      BY <1>2 DEF Increasing
    <2>2. /\ j \in DOMAIN s /\ j + 1 \in DOMAIN s /\ k \in DOMAIN s /\ k + 1 \in DOMAIN s
          /\ j < k + 1 /\ j + 1 < k + 1
      BY <1>1, <2>1
    <2>3. s[j] < s[k] /\ s[j] < s[k + 1] /\ s[j + 1] < s[k + 1]
      BY <2>1, <2>2 DEF Increasing
    <2>4. ~(j < i) => ~(k < i)
      BY <1>1, <2>1
    <2>5. QED
      BY <1>2, <2>3, <2>4
  <1>4. \A k \in 1..Len(s) : k # i => s[k] # s[i]
    BY <1>1 DEF Increasing
  <1>5. ASSUME NEW x \in Range(r) PROVE x \in Range(s) \ {s[i]}
    <2>1. PICK k \in 1..(Len(s) - 1) : x = r[k]
      BY <1>2 DEF Range
    <2>2. CASE k < i
      <3>1. k \in 1..Len(s) /\ k # i
        BY <1>1, <2>2
      <3>2. x = s[k]
        BY <1>2, <2>1, <2>2
      <3>3. QED
        BY <1>1, <1>4, <3>1, <3>2 DEF Range
    <2>3. CASE ~(k < i)
      <3>1. k + 1 \in 1..Len(s) /\ k + 1 # i
        BY <1>1, <2>3
      <3>2. QED
        BY <1>1, <1>2, <1>4, <2>1, <2>3, <3>1 DEF Range
    <2>4. QED
      BY <2>2, <2>3
  <1>6. ASSUME NEW x \in Range(s) \ {s[i]} PROVE x \in Range(r)
    <2>1. PICK k \in 1..Len(s) : x = s[k] /\ k # i
      BY <1>1 DEF Range
    <2>2. CASE k < i
      <3>1. k \in DOMAIN r /\ r[k] = x
        BY <1>1, <1>2, <2>1, <2>2
      <3>2. QED
        BY <3>1 DEF Range
    <2>3. CASE k > i
      <3>1. k - 1 \in DOMAIN r /\ r[k - 1] = x
        BY <1>1, <1>2, <2>1, <2>3
      <3>2. QED
        BY <3>1 DEF Range
    <2>4. QED
      BY <1>1, <2>1, <2>2, <2>3
  <1>7. QED
    BY <1>3, <1>5, <1>6 DEF r

\* A pending client leaves the queue with an outcome, or by udcDisconnect from anywhere.
LEMMA OrderedDrop ==
    ASSUME TypeOK, Ordered, NEW id \in Range(pendingClients), NEW view \in View \ {"connecting"},
           idCounter' = idCounter, told' = [told EXCEPT ![id] = view],
           Increasing(pendingClients'), Range(pendingClients') = Range(pendingClients) \ {id},
           Registered' \subseteq Registered \cup {id},
           \/ \A p \in Range(pendingClients') : id < p
           \/ view = "disconnected" /\ Registered' \subseteq Registered
    PROVE  Ordered'
  <1>1. Range(pendingClients) \subseteq 1..idCounter /\ DOMAIN told = 1..idCounter
    BY SeqRange DEF TypeOK
  <1>2. told'[id] = view /\ \A i \in 1..idCounter : i # id => told'[i] = told[i]
    BY <1>1
  <1>3. \A i \in 1..idCounter : told'[i] = "connecting" <=> i \in Range(pendingClients')
    BY <1>1, <1>2 DEF Ordered
  <1>4. \A i \in 1..idCounter, p \in Range(pendingClients') :
           told'[i] \in {"connected", "lost", "timedOut"} => i < p
    BY <1>1, <1>2 DEF Ordered
  <1>5. \A i \in Registered', p \in Range(pendingClients') : i < p
    BY DEF Ordered
  <1>6. QED
    BY <1>3, <1>4, <1>5 DEF Ordered

\* Steps that leave the queue alone and report only on registered end points.
LEMMA OrderedFrame ==
    ASSUME TypeOK, Ordered, idCounter' = idCounter, pendingClients' = pendingClients,
           Registered' \subseteq Registered,
           \/ told' = told
           \/ \E id \in Registered, view \in View \ {"connecting", "timedOut"} :
                 told' = [told EXCEPT ![id] = view]
    PROVE  Ordered'
  <1>1. \A i \in Registered', p \in Range(pendingClients') : i < p
    BY DEF Ordered
  <1>2. CASE told' = told
    BY <1>1, <1>2 DEF Ordered
  <1>3. ASSUME NEW id \in Registered, NEW view \in View \ {"connecting", "timedOut"},
               told' = [told EXCEPT ![id] = view]
        PROVE  Ordered'
    <2>1. Range(pendingClients) \subseteq 1..idCounter /\ DOMAIN told = 1..idCounter
      BY SeqRange DEF TypeOK
    <2>2. id \in 1..idCounter
      BY TypeFacts DEF Registered, Referenced
    <2>3. told'[id] = view /\ \A i \in 1..idCounter : i # id => told'[i] = told[i]
      BY <1>3, <2>1, <2>2
    <2>4. id \notin Range(pendingClients)
      BY <2>1, <2>2 DEF Ordered, TypeOK
    <2>5. \A i \in 1..idCounter : told'[i] = "connecting" <=> i \in Range(pendingClients)
      BY <2>3, <2>4 DEF Ordered
    <2>6. \A i \in 1..idCounter, p \in Range(pendingClients) :
             told'[i] \in {"connected", "lost", "timedOut"} => i < p
      BY <2>3 DEF Ordered
    <2>7. QED
      BY <1>1, <2>5, <2>6 DEF Ordered
  <1>4. QED
    BY <1>2, <1>3

\* The inductive invariant.
ViewInv == Ordered /\ StatusMatchesEvents /\ OrphansDisconnected

\* The action of EventsFollowProtocol.
ProtocolStep ==
    \A id \in DOMAIN told : told'[id] # told[id] => <<told[id], told'[id]>> \in LegalViewChange

SameConnections == \A id \in Referenced : clients'[id].isConnected = clients[id].isConnected

\* Steps that report nothing and neither connect nor lose a client.
LEMMA QuietStep ==
    ASSUME TypeOK, ViewInv, UNCHANGED <<registry, told>>, SameConnections
    PROVE  ViewInv' /\ ProtocolStep
  <1>1. Registered' = Registered
    BY DEF registry, Registered
  <1>2. Ordered'
    BY <1>1, OrderedFrame DEF ViewInv, registry
  <1>3. Registered \subseteq Referenced /\ clientsById \subseteq Referenced
    BY DEF Registered, Referenced
  <1>4. StatusMatchesEvents'
    BY <1>3 DEF ViewInv, StatusMatchesEvents, SameConnections, registry
  <1>5. OrphansDisconnected'
    BY <1>1, <1>3 DEF ViewInv, OrphansDisconnected, SameConnections, registry
  <1>6. ProtocolStep
    BY DEF ProtocolStep
  <1>7. QED
    BY <1>2, <1>4, <1>5, <1>6 DEF ViewInv

\* CONNECTION_LOST and CONNECTION_REGAINED.
LEMMA ReportStep ==
    ASSUME TypeOK, ViewInv, UNCHANGED registry, NEW id \in Registered, NEW d \in Client, NEW view,
           clients' = [clients EXCEPT ![id] = d], told' = [told EXCEPT ![id] = view],
           \/ id \in clientsById /\ clients[id].isConnected /\ ~d.isConnected /\ view = "lost"
           \/ ~clients[id].isConnected /\ d.isConnected /\ view = "connected"
    PROVE  ViewInv' /\ ProtocolStep
  <1>1. Registered' = Registered
    BY DEF registry, Registered
  <1>2. Registered \subseteq Referenced /\ clientsById \subseteq Registered
    BY DEF Registered, Referenced
  <1>3. id \in 1..idCounter /\ DOMAIN told = 1..idCounter /\ DOMAIN clients = Referenced
        /\ clientsById \subseteq 1..idCounter /\ Registered \subseteq 1..idCounter
    BY <1>2, TypeFacts DEF TypeOK
  <1>4. told'[id] = view /\ \A i \in 1..idCounter : i # id => told'[i] = told[i]
    BY <1>3
  <1>5. clients'[id] = d /\ \A i \in Referenced : i # id => clients'[i] = clients[i]
    BY <1>2, <1>3
  <1>6. Ordered'
    BY <1>1, OrderedFrame DEF ViewInv, registry, View
  <1>7. StatusMatchesEvents'
    BY <1>2, <1>3, <1>4, <1>5 DEF ViewInv, StatusMatchesEvents, registry
  <1>8. OrphansDisconnected'
    BY <1>1, <1>2, <1>3, <1>4, <1>5 DEF ViewInv, OrphansDisconnected, registry
  <1>9. <<told[id], view>> \in LegalViewChange
    BY <1>2 DEF ViewInv, StatusMatchesEvents, OrphansDisconnected, LegalViewChange
  <1>10. ProtocolStep
    BY <1>3, <1>4, <1>9 DEF ProtocolStep
  <1>11. QED
    BY <1>6, <1>7, <1>8, <1>10 DEF ViewInv

\* udcTryConnect: the new id is larger than every id in use.
LEMMA TryConnectStep ==
    ASSUME TypeOK, ViewInv, NEW address \in Address, NEW timeout \in Timeouts,
           TryConnect(address, timeout)
    PROVE  ViewInv' /\ ProtocolStep
  <1> DEFINE id == idCounter + 1
  <1>1. /\ idCounter \in Nat /\ idCounter' = id
        /\ pendingClients \in Seq(1..idCounter) /\ pendingClients' = Append(pendingClients, id)
        /\ told \in Seq(View) /\ Len(told) = idCounter /\ told' = Append(told, "connecting")
    BY DEF TryConnect, TypeOK
  <1>2. Registered' = Registered /\ clientsById' = clientsById
    BY DEF TryConnect, Registered
  <1>3. Range(pendingClients) \subseteq 1..idCounter
        /\ Range(pendingClients') = Range(pendingClients) \cup {id}
    BY <1>1, SeqRange
  <1>4. DOMAIN told = 1..idCounter /\ told'[id] = "connecting"
        /\ \A i \in 1..idCounter : told'[i] = told[i]
    BY <1>1
  <1>5. Registered \subseteq 1..idCounter /\ clientsById \subseteq Registered
        /\ Registered \subseteq Referenced
    BY TypeFacts DEF Registered, Referenced
  <1>6. \A i \in Referenced : clients'[i] = clients[i]
    <2>1. DOMAIN clients = Referenced /\ id \notin Referenced
      BY <1>1, TypeFacts DEF TypeOK
    <2>2. QED
      BY <2>1 DEF TryConnect
  <1>7. Ordered'
    <2>1. Increasing(pendingClients')
      <3>1. DOMAIN pendingClients' = 1..(Len(pendingClients) + 1)
            /\ pendingClients'[Len(pendingClients) + 1] = id
        BY <1>1
      <3>2. \A i \in 1..Len(pendingClients) :
               pendingClients'[i] = pendingClients[i] /\ pendingClients[i] \in 1..idCounter
        BY <1>1
      <3>3. Len(pendingClients) \in Nat /\ DOMAIN pendingClients = 1..Len(pendingClients)
        BY <1>1
      <3>4. Increasing(pendingClients)
        BY DEF ViewInv, Ordered
      <3>5. QED
        BY <1>1, <3>1, <3>2, <3>3, <3>4 DEF Increasing
    <2>2. \A i \in 1..idCounter' : told'[i] = "connecting" <=> i \in Range(pendingClients')
      BY <1>1, <1>3, <1>4 DEF ViewInv, Ordered
    <2>3. \A i \in 1..idCounter', p \in Range(pendingClients') :
             told'[i] \in {"connected", "lost", "timedOut"} => i < p
      BY <1>1, <1>3, <1>4 DEF ViewInv, Ordered
    <2>4. \A i \in Registered', p \in Range(pendingClients') : i < p
      BY <1>1, <1>2, <1>3, <1>5 DEF ViewInv, Ordered
    <2>5. QED
      BY <2>1, <2>2, <2>3, <2>4 DEF Ordered
  <1>8. StatusMatchesEvents'
    BY <1>2, <1>4, <1>5, <1>6 DEF ViewInv, StatusMatchesEvents
  <1>9. OrphansDisconnected'
    BY <1>2, <1>4, <1>5, <1>6 DEF ViewInv, OrphansDisconnected
  <1>10. ProtocolStep
    BY <1>4 DEF ProtocolStep
  <1>11. QED
    BY <1>7, <1>8, <1>9, <1>10 DEF ViewInv

\* udcDisconnect of a connected end point.
LEMMA DisconnectConnectedStep ==
    ASSUME TypeOK, ViewInv, NEW id \in 1..idCounter, DisconnectConnected(id)
    PROVE  ViewInv' /\ ProtocolStep
  <1>1. /\ id \in clientsById /\ clientsById' = clientsById \ {id}
        /\ told' = [told EXCEPT ![id] = "disconnected"]
        /\ idCounter' = idCounter /\ pendingClients' = pendingClients
    BY DEF DisconnectConnected
  <1>2. Range(clientsByAddress') \ {NoClient} \subseteq Range(clientsByAddress)
    BY DEF DisconnectConnected, TypeOK, Range, NoClient
  <1>3. Registered' \subseteq Registered /\ Registered \subseteq Referenced
        /\ clientsById \subseteq Registered /\ Registered' \subseteq Referenced'
    BY <1>1, <1>2 DEF Registered, Referenced
  <1>4. DOMAIN told = 1..idCounter /\ Registered \subseteq 1..idCounter
    BY <1>3, TypeFacts DEF TypeOK
  <1>5. told'[id] = "disconnected" /\ \A i \in 1..idCounter : i # id => told'[i] = told[i]
    BY <1>1, <1>4
  <1>6. \A i \in Registered' : clients'[i] = clients[i]
    BY <1>3 DEF DisconnectConnected, Restrict
  <1>7. Ordered'
    BY <1>1, <1>3, OrderedFrame DEF ViewInv, View
  <1>8. StatusMatchesEvents'
    <2>1. clientsById' \subseteq Registered'
      BY DEF Registered
    <2>2. QED
      BY <1>1, <1>3, <1>4, <1>5, <1>6, <2>1 DEF ViewInv, StatusMatchesEvents
  <1>9. OrphansDisconnected'
    BY <1>1, <1>3, <1>4, <1>5, <1>6 DEF ViewInv, OrphansDisconnected
  <1>10. <<told[id], "disconnected">> \in LegalViewChange
    BY <1>1 DEF ViewInv, StatusMatchesEvents, LegalViewChange
  <1>11. ProtocolStep
    BY <1>4, <1>5, <1>10 DEF ProtocolStep
  <1>12. QED
    BY <1>7, <1>8, <1>9, <1>11 DEF ViewInv

\* A client leaves the queue without becoming registered: udcDisconnect or a timeout.
LEMMA LeaveQueueStep ==
    ASSUME TypeOK, ViewInv, NEW id \in Range(pendingClients),
           NEW view \in {"disconnected", "timedOut"},
           UNCHANGED <<idCounter, clientsById, clientsByAddress>>,
           clients' = Restrict(clients, Referenced'), told' = [told EXCEPT ![id] = view],
           Increasing(pendingClients'), Range(pendingClients') = Range(pendingClients) \ {id},
           view = "disconnected" \/ \A p \in Range(pendingClients') : id < p
    PROVE  ViewInv' /\ ProtocolStep
  <1>1. Registered' = Registered /\ Registered \subseteq Referenced' /\ Registered \subseteq Referenced
        /\ clientsById \subseteq Registered
    BY DEF Registered, Referenced
  <1>2. Range(pendingClients) \subseteq 1..idCounter /\ DOMAIN told = 1..idCounter
        /\ Registered \subseteq 1..idCounter
    BY <1>1, SeqRange, TypeFacts DEF TypeOK
  <1>3. told'[id] = view /\ \A i \in 1..idCounter : i # id => told'[i] = told[i]
    BY <1>2
  <1>4. \A i \in Registered : clients'[i] = clients[i]
    BY <1>1 DEF Restrict
  <1>5. id \notin Registered
    BY <1>2 DEF ViewInv, Ordered
  <1>6. Ordered'
    BY <1>1, OrderedDrop DEF ViewInv, View
  <1>7. StatusMatchesEvents'
    BY <1>1, <1>2, <1>3, <1>4, <1>5 DEF ViewInv, StatusMatchesEvents
  <1>8. OrphansDisconnected'
    BY <1>1, <1>2, <1>3, <1>4, <1>5 DEF ViewInv, OrphansDisconnected
  <1>9. told[id] = "connecting"
    BY <1>2 DEF ViewInv, Ordered
  <1>10. ProtocolStep
    BY <1>2, <1>3, <1>9 DEF ProtocolStep, LegalViewChange
  <1>11. QED
    BY <1>6, <1>7, <1>8, <1>10 DEF ViewInv

\* udcDisconnect of a pending end point, at any place of the queue.
LEMMA DisconnectPendingStep ==
    ASSUME TypeOK, ViewInv, NEW id \in 1..idCounter, DisconnectPending(id)
    PROVE  ViewInv' /\ ProtocolStep
  <1>1. PICK i \in DOMAIN pendingClients :
          pendingClients[i] = id /\ pendingClients' = RemoveAt(pendingClients, i)
    BY DEF DisconnectPending
  <1>2. pendingClients \in Seq(Nat) /\ Increasing(pendingClients)
    BY DEF TypeOK, ViewInv, Ordered
  <1>3. Increasing(pendingClients') /\ Range(pendingClients') = Range(pendingClients) \ {id}
    BY <1>1, <1>2, IncreasingRemoveAt
  <1>4. id \in Range(pendingClients)
    BY <1>1 DEF Range
  <1>5. QED
    BY <1>3, <1>4, LeaveQueueStep DEF DisconnectPending

\* The first pending client has the smallest pending id.
LEMMA QueueHead ==
    ASSUME TypeOK, ViewInv, pendingClients # << >>
    PROVE  /\ Head(pendingClients) \in Range(pendingClients)
           /\ Increasing(Tail(pendingClients))
           /\ Range(Tail(pendingClients)) = Range(pendingClients) \ {Head(pendingClients)}
           /\ \A p \in Range(Tail(pendingClients)) : Head(pendingClients) < p
  <1>1. pendingClients \in Seq(Nat) /\ Increasing(pendingClients)
    BY DEF TypeOK, ViewInv, Ordered
  <1>2. QED
    BY <1>1, IncreasingTail, SeqRange

\* CONNECTION_TIMEOUT.
LEMMA PendingTimeoutStep == ASSUME TypeOK, ViewInv, PendingTimeout PROVE ViewInv' /\ ProtocolStep
  <1>1. told' = [told EXCEPT ![Head(pendingClients)] = "timedOut"]
    BY DEF PendingTimeout, ReturnConnectionEvent, Meaning
  <1>2. QED
    BY <1>1, QueueHead, LeaveQueueStep DEF PendingTimeout

\* CONNECTION_SUCCESS.
LEMMA HandshakeStep ==
    ASSUME TypeOK, ViewInv, ProcessConnectionHandshake, HandshakeCompletes
    PROVE  ViewInv' /\ ProtocolStep
  <1> DEFINE id == Incoming.word
             c  == ReceiveConnectionHandshake(clients[id], time)
  <1>1. /\ clients' = [clients EXCEPT ![id] = c]
        /\ clientsById' = clientsById \cup {id}
        /\ clientsByAddress' = [clientsByAddress EXCEPT ![Incoming.src] = id]
        /\ pendingClients' = Tail(pendingClients) /\ idCounter' = idCounter
        /\ told' = [told EXCEPT ![id] = "connected"]
    BY DEF ProcessConnectionHandshake, ReturnConnectionEvent, Meaning
  <1>2. pendingClients # << >> /\ Head(pendingClients) = id /\ ReceiveSigned
    BY DEF HandshakeCompletes, ProcessConnectionHandshake, Receives
  <1>3. /\ id \in Range(pendingClients) /\ Increasing(pendingClients')
        /\ Range(pendingClients') = Range(pendingClients) \ {id}
        /\ \A p \in Range(pendingClients') : id < p
    BY <1>1, <1>2, QueueHead
  <1>4. /\ id \in 1..idCounter /\ id \in Referenced /\ clients[id] \in Client
        /\ DOMAIN told = 1..idCounter /\ DOMAIN clients = Referenced
    <2>1. id \in Referenced
      BY <1>2, TypeFacts
    <2>2. id \in 1..idCounter /\ clients[id] \in Client
      BY <2>1, TypeFacts
    <2>3. DOMAIN told = 1..idCounter /\ DOMAIN clients = Referenced
      BY DEF TypeOK
    <2>4. QED
      BY <2>1, <2>2, <2>3
  <1>5. c.isConnected
    BY <1>4 DEF ReceiveConnectionHandshake, Client
  <1>6. Registered' = Registered \cup {id}
    <2>1. Incoming.src \in Address
      BY <1>2, ReceiveSignedType DEF Datagram
    <2>2. id # NoClient
      BY <1>4 DEF NoClient
    <2>3. clientsByAddress[Incoming.src] = NoClient
      BY DEF HandshakeCompletes
    <2> HIDE DEF id
    <2>4. Range(clientsByAddress') \ {NoClient} = (Range(clientsByAddress) \ {NoClient}) \cup {id}
      BY <1>1, <2>1, <2>2, <2>3 DEF TypeOK, Range
    <2>5. QED
      BY <1>1, <2>4 DEF Registered
  <1> HIDE DEF id, c
  <1>7. told'[id] = "connected" /\ \A i \in 1..idCounter : i # id => told'[i] = told[i]
    BY <1>1, <1>4
  <1>8. clients'[id] = c /\ \A i \in Referenced : i # id => clients'[i] = clients[i]
    BY <1>1, <1>4
  <1>9. /\ Registered \subseteq Referenced /\ clientsById \subseteq Registered
        /\ Registered \subseteq 1..idCounter
    BY TypeFacts DEF Registered, Referenced
  <1>10. Ordered'
    BY <1>1, <1>3, <1>6, OrderedDrop DEF ViewInv, View
  <1>11. StatusMatchesEvents'
    BY <1>1, <1>5, <1>7, <1>8, <1>9 DEF ViewInv, StatusMatchesEvents
  <1>12. OrphansDisconnected'
    BY <1>1, <1>6, <1>7, <1>8, <1>9 DEF ViewInv, OrphansDisconnected
  <1>13. told[id] = "connecting"
    BY <1>3, <1>4 DEF ViewInv, Ordered
  <1>14. ProtocolStep
    BY <1>4, <1>7, <1>13 DEF ProtocolStep, LegalViewChange
  <1>15. QED
    BY <1>10, <1>11, <1>12, <1>14 DEF ViewInv

\* An update that keeps m_isConnected keeps the connections.
LEMMA SameConnectionsUpdate ==
    ASSUME TypeOK, NEW id \in Referenced, NEW d, d.isConnected = clients[id].isConnected,
           clients' = [clients EXCEPT ![id] = d]
    PROVE  SameConnections
  BY DEF TypeOK, SameConnections

\* Reliable traffic does not touch m_isConnected.
LEMMA TrafficConnection ==
    ASSUME NEW c \in Client
    PROVE  AfterReliableTraffic(c).isConnected = c.isConnected
  BY DEF AfterReliableTraffic, StartReliableReset, SetSendReliable, Client

\* A turn of the status loop.
LEMMA UpdateClientStatusStep ==
    ASSUME TypeOK, ViewInv, NEW id \in todo, UpdateClientStatus(id)
    PROVE  ViewInv' /\ ProtocolStep
  <1> DEFINE c == clients[id]
             d == AfterReliableTraffic(c)
  <1>1. id \in clientsById /\ id \in Referenced /\ id \in Registered /\ c \in Client
    BY TypeFacts DEF TypeOK, Registered
  <1>2. d \in Client /\ d.isConnected = c.isConnected
    BY <1>1, TrafficTypes, TrafficConnection
  <1>3. CASE NeedsConnectionLostEvent(c, time)
    <2>1. SetConnectionLost(d) \in Client /\ ~SetConnectionLost(d).isConnected
      BY <1>2, ClientTypes DEF SetConnectionLost, Client, TypeOK
    <2>2. c.isConnected
      BY <1>3 DEF NeedsConnectionLostEvent
    <2>3. /\ clients' = [clients EXCEPT ![id] = SetConnectionLost(d)]
          /\ told' = [told EXCEPT ![id] = "lost"]
          /\ UNCHANGED registry
      BY <1>3 DEF UpdateClientStatus, ReturnConnectionEvent, Meaning
    <2> HIDE DEF d
    <2>4. QED
      BY <1>1, <2>1, <2>2, <2>3, ReportStep
  <1>4. CASE ~NeedsConnectionLostEvent(c, time)
    <2>1. clients' = [clients EXCEPT ![id] = d] /\ UNCHANGED <<registry, told>>
      BY <1>4 DEF UpdateClientStatus
    <2> HIDE DEF d
    <2>2. QED
      BY <1>1, <1>2, <2>1, SameConnectionsUpdate, QuietStep
  <1>5. QED
    BY <1>3, <1>4

\* A pong or reliable handshake of a known client.
LEMMA RefreshStep ==
    ASSUME TypeOK, ViewInv, ReceiveSigned, FromClient, NEW c \in Client, RefreshClient(c),
           c.isConnected = clients[clientsByAddress[Incoming.src]].isConnected,
           UNCHANGED registry
    PROVE  ViewInv' /\ ProtocolStep
  <1> DEFINE id == clientsByAddress[Incoming.src]
             d  == ReceivePong(c, Incoming.word, time)
  <1>1. Incoming.src \in Address /\ Incoming.word \in Nat /\ time \in Nat
    BY ReceiveSignedType DEF Datagram, TypeOK
  <1>2. id \in Registered /\ id \in Referenced
    <2>1. id # NoClient
      BY DEF FromClient
    <2>2. id \in Range(clientsByAddress)
      BY <1>1 DEF Range, TypeOK
    <2>3. QED
      BY <2>1, <2>2 DEF Registered, Referenced
  <1>3. d \in Client /\ d.isConnected
    <2>1. d \in Client
      BY <1>1, ClientTypes
    <2>2. d.isConnected
      BY DEF ReceivePong, Client
    <2>3. QED
      BY <2>1, <2>2
  <1>4. clients' = [clients EXCEPT ![id] = d]
    BY DEF RefreshClient
  <1>5. CASE c.isConnected /\ KeepReceiving
    <2>1. UNCHANGED told /\ clients[id].isConnected
      BY <1>5 DEF KeepReceiving
    <2>2. d.isConnected = clients[id].isConnected
      <3>1. clients[id] \in Client
        BY <1>2, TypeFacts
      <3>2. d.isConnected = TRUE /\ clients[id].isConnected = TRUE
        BY <1>3, <2>1, <3>1 DEF Client
      <3>3. QED
        BY <3>2
    <2> HIDE DEF id, d
    <2>3. QED
      BY <1>2, <1>4, <2>1, <2>2, SameConnectionsUpdate, QuietStep
  <1>6. CASE ~c.isConnected /\ ReturnConnectionEvent("CONNECTION_REGAINED", id)
    <2>1. told' = [told EXCEPT ![id] = "connected"] /\ ~clients[id].isConnected
      BY <1>6 DEF ReturnConnectionEvent, Meaning
    <2> HIDE DEF id, d
    <2>2. QED
      BY <1>2, <1>3, <1>4, <2>1, ReportStep
  <1>7. QED
    BY <1>5, <1>6 DEF RefreshClient

\* Steps that touch no client, no container and no history.
LEMMA QuietProcessing ==
    ASSUME TypeOK, ViewInv, UNCHANGED <<registry, clients, told>>
    PROVE  ViewInv' /\ ProtocolStep
  BY QuietStep DEF SameConnections

\* Every turn of receiveMessages.
LEMMA ReceiveMessagesStep ==
    ASSUME TypeOK, ViewInv, ReceiveMessages PROVE ViewInv' /\ ProtocolStep
  <1>1. CASE \/ ReceiveNothing \/ ReceiveFails \/ ReceiveFailsOver
             \/ ReceiveShort \/ ReceiveForeign \/ ReceiveMalformed
             \/ ProcessConnectionRequest \/ ProcessPing \/ ProcessUnreliable \/ ProcessReliableReset
    BY <1>1, QuietProcessing
       DEF ReceiveNothing, ReceiveFails, ReceiveFailsOver, ReceiveRefused,
           ReceiveShort, ReceiveForeign, ReceiveMalformed,
           ProcessConnectionRequest, ProcessPing, ProcessUnreliable, ProcessReliableReset,
           ReturnNothing, ReturnMessage, KeepReceiving
  <1>2. CASE ProcessConnectionHandshake
    <2>1. CASE HandshakeCompletes
      BY <1>2, <2>1, HandshakeStep
    <2>2. CASE ~HandshakeCompletes
      BY <1>2, <2>2, QuietProcessing DEF ProcessConnectionHandshake, KeepReceiving
    <2>3. QED
      BY <2>1, <2>2
  <1>3. CASE ProcessPong
    <2>1. ReceiveSigned /\ UNCHANGED registry
      BY <1>3 DEF ProcessPong, Receives
    <2>2. CASE FromClient /\ RefreshClient(clients[clientsByAddress[Incoming.src]])
      <3>1. clients[clientsByAddress[Incoming.src]] \in Client
        BY <2>1, <2>2, TypeFacts, ReceiveSignedType DEF FromClient, Datagram
      <3>2. QED
        BY <2>1, <2>2, <3>1, RefreshStep
    <2>3. CASE ~FromClient /\ KeepReceiving /\ UNCHANGED clients
      BY <2>1, <2>3, QuietProcessing DEF KeepReceiving
    <2>4. QED
      BY <1>3, <2>2, <2>3 DEF ProcessPong
  <1>4. ASSUME NEW state \in {0, 1}, ProcessReliableMessage(state) PROVE ViewInv' /\ ProtocolStep
    BY <1>4, QuietProcessing DEF ProcessReliableMessage, ReturnMessage, KeepReceiving
  <1>5. ASSUME NEW state \in {-1, 0, 1}, ProcessReliableHandshake(state)
        PROVE  ViewInv' /\ ProtocolStep
    <2> DEFINE c == clients[clientsByAddress[Incoming.src]]
               d == IF state = c.reliableState THEN AcknowledgeReliable(c) ELSE c
    <2>1. ReceiveSigned /\ UNCHANGED registry
      BY <1>5 DEF ProcessReliableHandshake, Receives
    <2>2. CASE FromClient /\ RefreshClient(d)
      <3>1. c \in Client
        BY <2>1, <2>2, TypeFacts, ReceiveSignedType DEF FromClient, Datagram
      <3>2. d \in Client
        BY <3>1, ClientTypes DEF TypeOK
      <3>3. AcknowledgeReliable(c).isConnected = c.isConnected
        BY <3>1 DEF AcknowledgeReliable, Client
      <3>4. d.isConnected = c.isConnected
        BY <3>3
      <3> HIDE DEF d
      <3>5. QED
        BY <2>1, <2>2, <3>2, <3>4, RefreshStep
    <2>3. CASE ~FromClient /\ KeepReceiving /\ UNCHANGED clients
      BY <2>1, <2>3, QuietProcessing DEF KeepReceiving
    <2>4. QED
      BY <1>5, <2>2, <2>3 DEF ProcessReliableHandshake
  <1>6. QED
    BY <1>1, <1>2, <1>3, <1>4, <1>5 DEF ReceiveMessages, ReceiveDatagram

\* Queueing a reliable message.
LEMMA SendReliableStep ==
    ASSUME TypeOK, ViewInv, NEW id \in clientsById, NEW data \in Payload, SendReliableMessage(id, data)
    PROVE  ViewInv' /\ ProtocolStep
  <1> DEFINE d == [clients[id] EXCEPT !.reliableMessages = Append(@, data)]
  <1>1. id \in Referenced /\ clients[id] \in Client
    BY TypeFacts
  <1>2. d.isConnected = clients[id].isConnected
    BY <1>1 DEF Client
  <1>3. clients' = [clients EXCEPT ![id] = d] /\ UNCHANGED <<registry, told>>
    BY DEF SendReliableMessage
  <1> HIDE DEF d
  <1>4. QED
    BY <1>1, <1>2, <1>3, SameConnectionsUpdate, QuietStep

\* Sending a connection request.
LEMMA PendingAttemptStep == ASSUME TypeOK, ViewInv, PendingAttempt PROVE ViewInv' /\ ProtocolStep
  <1> DEFINE id == Head(pendingClients)
             d  == RetryConnecting(clients[id], now)
  <1>1. id \in Referenced
    BY TypeFacts DEF PendingAttempt
  <1>2. clients[id] \in Client
    BY <1>1, TypeFacts
  <1>3. d.isConnected = clients[id].isConnected
    BY <1>2 DEF RetryConnecting, Client
  <1>4. clients' = [clients EXCEPT ![id] = d] /\ UNCHANGED <<registry, told>>
    BY DEF PendingAttempt
  <1> HIDE DEF d, id
  <1>5. QED
    BY <1>1, <1>3, <1>4, SameConnectionsUpdate, QuietStep

\* Every step of the server or its environment preserves ViewInv and is a legal change of
\* the view of the application.
LEMMA ViewStep ==
    ASSUME TypeOK, ViewInv, [Next]_vars PROVE ViewInv' /\ ProtocolStep
  <1>1. CASE Application
    <2>1. ASSUME NEW id \in clientsById, NEW data \in Payload, SendUnreliableMessage(id, data)
          PROVE  ViewInv' /\ ProtocolStep
      BY <2>1, QuietProcessing DEF SendUnreliableMessage
    <2>2. QED
      BY <1>1, <2>1, TryConnectStep, DisconnectConnectedStep, DisconnectPendingStep,
         SendReliableStep DEF Application
  <1>2. CASE ProcessEvents
    <2>1. CASE PendingWait
      BY <2>1, QuietProcessing DEF PendingWait
    <2>2. QED
      BY <1>2, <2>1, PendingTimeoutStep, PendingAttemptStep, UpdateClientStatusStep,
         ReceiveMessagesStep DEF ProcessEvents, UpdatePendingClients
  <1>3. CASE Environment
    BY <1>3, QuietProcessing DEF Environment
  <1>4. CASE UNCHANGED vars
    BY <1>4, QuietProcessing DEF vars
  <1>5. QED
    BY <1>1, <1>2, <1>3, <1>4 DEF Next

\* The constructor establishes ViewInv.
LEMMA InitView == ASSUME Init PROVE ViewInv
  BY DEF Init, ViewInv, Ordered, Increasing, StatusMatchesEvents, OrphansDisconnected, Registered,
         Range, NoClient

\* The containers, the client objects and what the application has been told always agree
\* as ViewInv says, whatever datagrams arrive and whenever the application calls.
THEOREM ViewInvariant == Spec => []ViewInv
  <1>1. Init => ViewInv
    BY InitView
  <1>2. TypeOK /\ ViewInv /\ [Next]_vars => ViewInv'
    BY ViewStep
  <1>3. QED
    BY <1>1, <1>2, TypeCorrect, PTL DEF Spec

\* The outcomes of udcTryConnect calls are reported in the order of the calls
\* (include/udp_connect.h:21 and 25), for any number of calls, disconnects and datagrams.
THEOREM OutcomesOrdered == Spec => []OutcomesInCallOrder
  <1>1. ASSUME TypeOK, ViewInv PROVE OutcomesInCallOrder
    <2>1. SUFFICES ASSUME NEW i \in 1..idCounter, NEW j \in 1..idCounter, i < j,
                          told[i] = "connecting"
                   PROVE  told[j] \in {"connecting", "disconnected"}
      BY DEF OutcomesInCallOrder
    <2>2. i \in Range(pendingClients)
      BY <1>1, <2>1 DEF ViewInv, Ordered
    <2>3. told[j] \notin {"connected", "lost", "timedOut"}
      <3>1. ~(j < i)
        BY <2>1
      <3>2. QED
        BY <1>1, <2>2, <3>1 DEF ViewInv, Ordered
    <2>4. told[j] \in View
      BY <1>1 DEF TypeOK
    <2>5. QED
      BY <2>3, <2>4 DEF View
  <1>2. QED
    BY <1>1, TypeCorrect, ViewInvariant, PTL

\* udcGetStatus of a registered end point always agrees with the last connection event
\* the application has seen about it.
THEOREM StatusCorrect == Spec => []StatusMatchesEvents
  <1>1. ViewInv => StatusMatchesEvents
    BY DEF ViewInv
  <1>2. QED
    BY <1>1, ViewInvariant, PTL

\* Connection events follow their protocol: TIMEOUT and SUCCESS only of a pending end
\* point, LOST only of a connected one, REGAINED never of a connected or timed-out one.
THEOREM ProtocolFollowed == Spec => EventsFollowProtocol
  <1>1. TypeOK /\ ViewInv /\ [Next]_vars => [ProtocolStep]_vars
    BY ViewStep
  <1>2. QED
    BY <1>1, TypeCorrect, ViewInvariant, PTL DEF Spec, EventsFollowProtocol, ProtocolStep

TimerOK(c) == c.reliableSentTime # 0 => c.reliableMessages # << >> /\ c.reliableState # -1

\* No member function of UdcClient leaves the reliable timer running without its message.
LEMMA TimerUpdates ==
    ASSUME NEW c \in Client, TimerOK(c), NEW t \in Nat
    PROVE  /\ TimerOK(RetryConnecting(c, t))
           /\ TimerOK(ReceiveConnectionHandshake(c, t))
           /\ TimerOK(SetConnectionLost(c))
           /\ TimerOK(AcknowledgeReliable(c))
           /\ TimerOK(AfterReliableTraffic(c))
           /\ \A s \in Nat : TimerOK(ReceivePong(c, s, t))
           /\ \A m \in Payload : TimerOK([c EXCEPT !.reliableMessages = Append(@, m)])
  <1>1. TimerOK(RetryConnecting(c, t))
    BY DEF TimerOK, Client, RetryConnecting
  <1>2. TimerOK(ReceiveConnectionHandshake(c, t))
    BY DEF TimerOK, Client, ReceiveConnectionHandshake
  <1>3. TimerOK(SetConnectionLost(c))
    BY DEF TimerOK, Client, SetConnectionLost
  <1>4. TimerOK(AcknowledgeReliable(c))
    BY DEF TimerOK, Client, AcknowledgeReliable
  <1>5. TimerOK(AfterReliableTraffic(c))
    BY DEF TimerOK, Client, AfterReliableTraffic, StartReliableReset, SetSendReliable
  <1>6. ASSUME NEW s \in Nat PROVE TimerOK(ReceivePong(c, s, t))
    BY DEF TimerOK, Client, ReceivePong
  <1>7. ASSUME NEW m \in Payload PROVE TimerOK([c EXCEPT !.reliableMessages = Append(@, m)])
    BY DEF TimerOK, Client
  <1>8. QED
    BY <1>1, <1>2, <1>3, <1>4, <1>5, <1>6, <1>7

\* How the timers follow from the shape of a heap update.
LEMMA TimerFrame ==
    ASSUME TypeOK, TimerBelongsToMessage
    PROVE  /\ \A id \in Referenced : clients[id] \in Client /\ TimerOK(clients[id])
           /\ UNCHANGED clients => TimerBelongsToMessage'
           /\ Referenced' \subseteq Referenced /\ clients' = Restrict(clients, Referenced')
                 => TimerBelongsToMessage'
           /\ \A id \in Referenced, d \in Client :
                 clients' = [clients EXCEPT ![id] = d] /\ TimerOK(d) => TimerBelongsToMessage'
  <1>1. DOMAIN clients = Referenced
    BY DEF TypeOK
  <1>2. \A id \in Referenced : clients[id] \in Client /\ TimerOK(clients[id])
    BY <1>1, TypeFacts DEF TimerBelongsToMessage, TimerOK
  <1>3. UNCHANGED clients => TimerBelongsToMessage'
    BY DEF TimerBelongsToMessage
  <1>4. ASSUME Referenced' \subseteq Referenced, clients' = Restrict(clients, Referenced')
        PROVE  TimerBelongsToMessage'
    <2>1. DOMAIN clients' = Referenced' /\ \A id \in Referenced' : clients'[id] = clients[id]
      BY <1>4 DEF Restrict
    <2>2. QED
      BY <1>2, <1>4, <2>1 DEF TimerBelongsToMessage, TimerOK
  <1>5. ASSUME NEW id \in Referenced, NEW d \in Client, clients' = [clients EXCEPT ![id] = d],
               TimerOK(d)
        PROVE  TimerBelongsToMessage'
    <2>1. DOMAIN clients' = Referenced /\ clients'[id] = d
          /\ \A i \in Referenced : i # id => clients'[i] = clients[i]
      BY <1>1, <1>5
    <2>2. QED
      BY <1>2, <1>5, <2>1 DEF TimerBelongsToMessage, TimerOK
  <1>6. QED
    BY <1>2, <1>3, <1>4, <1>5

\* A pong or reliable handshake of a known client.
LEMMA TimerRefresh ==
    ASSUME TypeOK, TimerBelongsToMessage, ReceiveSigned, FromClient, NEW c \in Client, TimerOK(c),
           RefreshClient(c)
    PROVE  TimerBelongsToMessage'
  <1> DEFINE d == ReceivePong(c, Incoming.word, time)
             id == clientsByAddress[Incoming.src]
  <1>1. Incoming.src \in Address /\ Incoming.word \in Nat /\ time \in Nat
    BY ReceiveSignedType DEF Datagram, TypeOK
  <1>2. id \in Referenced
    BY <1>1, TypeFacts DEF FromClient
  <1>3. d \in Client /\ TimerOK(d)
    BY <1>1, ClientTypes, TimerUpdates
  <1>4. clients' = [clients EXCEPT ![id] = d]
    BY DEF RefreshClient
  <1> HIDE DEF d, id
  <1>5. QED
    BY <1>2, <1>3, <1>4, TimerFrame

\* Every step preserves TimerBelongsToMessage.
LEMMA TimerStep ==
    ASSUME TypeOK, TimerBelongsToMessage, [Next]_vars PROVE TimerBelongsToMessage'
  <1>1. ASSUME NEW address \in Address, NEW timeout \in Timeouts, TryConnect(address, timeout)
        PROVE  TimerBelongsToMessage'
    <2> DEFINE new == StartConnecting(
                        NewClient(address, PingPeriodOf(timeout), TimeoutPeriodOf(timeout)), now)
    <2>1. clients' = [i \in DOMAIN clients \cup {idCounter + 1} |->
                        IF i = idCounter + 1 THEN new ELSE clients[i]]
      BY <1>1 DEF TryConnect
    <2>2. TimerOK(new)
      BY DEF TimerOK, StartConnecting, NewClient
    <2> HIDE DEF new
    <2>3. QED
      BY <2>1, <2>2 DEF TimerBelongsToMessage, TimerOK
  <1>2. ASSUME NEW id \in 1..idCounter, DisconnectConnected(id) \/ DisconnectPending(id)
        PROVE  TimerBelongsToMessage'
    <2>1. Referenced' \subseteq Referenced
      <3>1. CASE DisconnectConnected(id)
        <4>1. Range(clientsByAddress') \ {NoClient} \subseteq Range(clientsByAddress)
          BY <3>1 DEF DisconnectConnected, TypeOK, Range, NoClient
        <4>2. QED
          BY <3>1, <4>1 DEF DisconnectConnected, Referenced
      <3>2. CASE DisconnectPending(id)
        <4>1. Range(pendingClients') \subseteq Range(pendingClients)
          BY <3>2, SeqRange DEF DisconnectPending, TypeOK
        <4>2. QED
          BY <3>2, <4>1 DEF DisconnectPending, Referenced
      <3>3. QED
        BY <1>2, <3>1, <3>2
    <2>2. QED
      BY <1>2, <2>1, TimerFrame DEF DisconnectConnected, DisconnectPending
  <1>3. ASSUME NEW id \in clientsById, NEW data \in Payload, SendReliableMessage(id, data)
        PROVE  TimerBelongsToMessage'
    <2> DEFINE d == [clients[id] EXCEPT !.reliableMessages = Append(@, data)]
    <2>1. id \in Referenced /\ clients[id] \in Client
      BY TypeFacts
    <2>2. Append(clients[id].reliableMessages, data) \in Seq(Payload)
      BY <2>1 DEF Client
    <2>3. d \in Client /\ TimerOK(d)
      BY <2>1, <2>2, QueueUpdateType, TimerFrame, TimerUpdates DEF TypeOK
    <2>4. clients' = [clients EXCEPT ![id] = d]
      BY <1>3 DEF SendReliableMessage
    <2> HIDE DEF d
    <2>5. QED
      BY <2>1, <2>3, <2>4, TimerFrame
  <1>4. CASE PendingTimeout
    <2>1. Range(pendingClients') \subseteq Range(pendingClients)
      BY <1>4, TypeFacts DEF PendingTimeout
    <2>2. Referenced' \subseteq Referenced
      BY <1>4, <2>1 DEF PendingTimeout, Referenced
    <2>3. QED
      BY <1>4, <2>2, TimerFrame DEF PendingTimeout
  <1>5. CASE PendingAttempt
    <2> DEFINE id == Head(pendingClients)
               d  == RetryConnecting(clients[id], now)
    <2>1. id \in Referenced /\ now \in Nat
      BY <1>5, TypeFacts DEF PendingAttempt, TypeOK
    <2>2. d \in Client /\ TimerOK(d)
      BY <2>1, TimerFrame, ClientTypes, TimerUpdates
    <2>3. clients' = [clients EXCEPT ![id] = d]
      BY <1>5 DEF PendingAttempt
    <2> HIDE DEF d, id
    <2>4. QED
      BY <2>1, <2>2, <2>3, TimerFrame
  <1>6. ASSUME NEW id \in todo, UpdateClientStatus(id) PROVE TimerBelongsToMessage'
    <2> DEFINE c == clients[id]
               d == AfterReliableTraffic(c)
    <2>1. id \in Referenced
      BY TypeFacts DEF TypeOK
    <2>2. c \in Client /\ TimerOK(c)
      BY <2>1, TimerFrame
    <2>3. d \in Client /\ TimerOK(d)
      BY <2>2, TrafficTypes, TimerUpdates DEF TypeOK
    <2>4. SetConnectionLost(d) \in Client /\ TimerOK(SetConnectionLost(d))
      BY <2>3, ClientTypes, TimerUpdates DEF TypeOK
    <2>5. \/ clients' = [clients EXCEPT ![id] = SetConnectionLost(d)]
          \/ clients' = [clients EXCEPT ![id] = d]
      BY <1>6 DEF UpdateClientStatus
    <2> HIDE DEF d
    <2>6. QED
      BY <2>1, <2>3, <2>4, <2>5, TimerFrame
  <1>7. CASE ReceiveMessages
    <2>1. CASE ProcessConnectionHandshake /\ HandshakeCompletes
      <3> DEFINE id == Incoming.word
                 d  == ReceiveConnectionHandshake(clients[id], time)
      <3>1. id \in Referenced /\ time \in Nat
        BY <2>1, TypeFacts DEF HandshakeCompletes, TypeOK
      <3>2. d \in Client /\ TimerOK(d)
        BY <3>1, TimerFrame, ClientTypes, TimerUpdates
      <3>3. clients' = [clients EXCEPT ![id] = d]
        BY <2>1 DEF ProcessConnectionHandshake
      <3> HIDE DEF d, id
      <3>4. QED
        BY <3>1, <3>2, <3>3, TimerFrame
    <2> DEFINE c == clients[clientsByAddress[Incoming.src]]
    <2>2. ASSUME ReceiveSigned, FromClient PROVE c \in Client /\ TimerOK(c)
      BY <2>2, TypeFacts, ReceiveSignedType, TimerFrame DEF FromClient, Datagram
    <2>3. CASE ProcessPong /\ FromClient
      <3>1. ReceiveSigned /\ RefreshClient(c)
        BY <2>3 DEF ProcessPong, Receives
      <3> HIDE DEF c
      <3>2. QED
        BY <2>2, <2>3, <3>1, TimerRefresh
    <2>4. ASSUME NEW state \in {-1, 0, 1}, ProcessReliableHandshake(state), FromClient
          PROVE  TimerBelongsToMessage'
      <3> DEFINE d == IF state = c.reliableState THEN AcknowledgeReliable(c) ELSE c
      <3>1. ReceiveSigned /\ RefreshClient(d)
        BY <2>4 DEF ProcessReliableHandshake, Receives
      <3>2. c \in Client /\ TimerOK(c)
        BY <2>2, <2>4, <3>1
      <3>3. d \in Client /\ TimerOK(d)
        BY <3>2, ClientTypes, TimerUpdates DEF TypeOK
      <3> HIDE DEF d
      <3>4. QED
        BY <2>4, <3>1, <3>3, TimerRefresh
    <2>5. CASE UNCHANGED clients
      BY <2>5, TimerFrame
    <2>6. \/ ProcessConnectionHandshake /\ HandshakeCompletes
          \/ ProcessPong /\ FromClient
          \/ \E state \in {-1, 0, 1} : ProcessReliableHandshake(state) /\ FromClient
          \/ UNCHANGED clients
      BY <1>7
         DEF ReceiveMessages, ReceiveDatagram, ReceiveNothing, ReceiveFails, ReceiveFailsOver,
             ReceiveRefused, ReceiveShort, ReceiveForeign, ReceiveMalformed,
             ProcessConnectionRequest, ProcessConnectionHandshake, ProcessPing, ProcessPong,
             ProcessUnreliable, ProcessReliableReset, ProcessReliableMessage,
             ProcessReliableHandshake
    <2>7. QED
      BY <2>1, <2>3, <2>4, <2>5, <2>6
  <1>8. CASE UNCHANGED clients
    BY <1>8, TimerFrame
  <1>9. QED
    BY <1>1, <1>2, <1>3, <1>4, <1>5, <1>6, <1>7, <1>8
       DEF Next, Application, SendUnreliableMessage, ProcessEvents, UpdatePendingClients,
           PendingWait, Environment, vars

\* A running reliable timer always belongs to a queued message sent in state 0 or 1, so
\* needsReliableReset never resets on behalf of a message that is already acknowledged.
THEOREM TimersCorrect == Spec => []TimerBelongsToMessage
  <1>1. Init => TimerBelongsToMessage
    BY DEF Init, TimerBelongsToMessage
  <1>2. TypeOK /\ TimerBelongsToMessage /\ [Next]_vars => TimerBelongsToMessage'
    BY TimerStep
  <1>3. QED
    BY <1>1, <1>2, TypeCorrect, PTL DEF Spec
=============================================================================
