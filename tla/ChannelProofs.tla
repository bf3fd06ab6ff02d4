--------------------------- MODULE ChannelProofs ---------------------------
(***************************************************************************)
(* Lemmas about the sequences of datagrams between two servers: what it    *)
(* means for a channel when the receiver or the network takes a datagram   *)
(* from its front, the network repeats one or puts one at the end, or the  *)
(* sender adds some.                                                       *)
(***************************************************************************)
EXTENDS Integers, Sequences, SequencesExt, SequenceTheorems, TLAPS

\* What RemoveAt, the model of deque::erase, returns.
LEMMA RemoveAtFacts ==
    ASSUME NEW S, NEW s \in Seq(S), NEW i \in DOMAIN s
    PROVE  /\ RemoveAt(s, i) \in Seq(S)
           /\ Len(RemoveAt(s, i)) = Len(s) - 1
           /\ DOMAIN RemoveAt(s, i) = 1..(Len(s) - 1)
           /\ \A k \in 1..(Len(s) - 1) : RemoveAt(s, i)[k] = IF k < i THEN s[k] ELSE s[k + 1]
  <1> DEFINE u == SubSeq(s, 1, i - 1)
             v == SubSeq(s, i + 1, Len(s))
  <1>1. i \in 1..Len(s) /\ Len(s) \in Nat
    OBVIOUS
  <1>2. u \in Seq(S) /\ Len(u) = i - 1 /\ \A k \in 1..(i - 1) : u[k] = s[k]
    BY <1>1
  <1>3. v \in Seq(S) /\ Len(v) = Len(s) - i /\ \A k \in 1..(Len(s) - i) : v[k] = s[k + i]
    BY <1>1
  <1>4. RemoveAt(s, i) = u \o v
    BY DEF RemoveAt
  <1> HIDE DEF u, v
  <1>5. /\ u \o v \in Seq(S)
        /\ Len(u \o v) = Len(s) - 1
        /\ \A k \in 1..(Len(s) - 1) :
              (u \o v)[k] = IF k <= i - 1 THEN u[k] ELSE v[k - (i - 1)]
    <2>1. /\ u \o v \in Seq(S)
          /\ Len(u \o v) = Len(u) + Len(v)
          /\ \A k \in 1..(Len(u) + Len(v)) :
                (u \o v)[k] = IF k <= Len(u) THEN u[k] ELSE v[k - Len(u)]
      BY <1>2, <1>3, ConcatProperties
    <2>2. Len(u) + Len(v) = Len(s) - 1
      BY <1>1, <1>2, <1>3
    <2>3. QED
      BY <1>2, <2>1, <2>2
  <1>6. DOMAIN (u \o v) = 1..(Len(s) - 1)
    BY <1>5
  <1>7. ASSUME NEW k \in 1..(Len(s) - 1)
        PROVE  (u \o v)[k] = IF k < i THEN s[k] ELSE s[k + 1]
    <2>1. CASE k < i
      BY <1>1, <1>2, <1>5, <2>1
    <2>2. CASE ~(k < i)
      <3>1. k - (i - 1) \in 1..(Len(s) - i) /\ k - (i - 1) + i = k + 1
        BY <1>1, <2>2
      <3>2. v[k - (i - 1)] = s[k + 1]
        BY <1>3, <3>1
      <3>3. (u \o v)[k] = v[k - (i - 1)]
        <4>1. ~(k <= i - 1)
          BY <1>1, <2>2
        <4>2. (u \o v)[k] = IF k <= i - 1 THEN u[k] ELSE v[k - (i - 1)]
          BY <1>5
        <4>3. QED
          BY <4>1, <4>2
      <3>4. QED
        BY <2>2, <3>2, <3>3
    <2>3. QED
      BY <2>1, <2>2
  <1>8. QED
    BY <1>4, <1>5, <1>6, <1>7

\* Nothing is in channel d that is not in channel c.
Within(d, c) == \A i \in DOMAIN d : \E j \in DOMAIN c : d[i] = c[j]

\* The first datagram is taken.
LEMMA TailWithin ==
    ASSUME NEW S, NEW c \in Seq(S), c # << >>
    PROVE  Tail(c) \in Seq(S) /\ Within(Tail(c), c)
  BY DEF Within

\* A datagram is overtaken by all later ones.
LEMMA RemoveWithin ==
    ASSUME NEW S, NEW c \in Seq(S), NEW i \in DOMAIN c
    PROVE  LET d == Append(RemoveAt(c, i), c[i]) IN d \in Seq(S) /\ Within(d, c)
  <1> DEFINE r == RemoveAt(c, i)
  <1>1. Len(c) \in Nat /\ DOMAIN c = 1..Len(c) /\ i \in 1..Len(c) /\ \A k \in 1..Len(c) : c[k] \in S
    OBVIOUS
  <1>2. r \in Seq(S) /\ DOMAIN r = 1..(Len(c) - 1) /\ Len(r) = Len(c) - 1
        /\ \A k \in 1..(Len(c) - 1) : r[k] = IF k < i THEN c[k] ELSE c[k + 1]
    BY RemoveAtFacts
  <1> HIDE DEF r
  <1>3. /\ Append(r, c[i]) \in Seq(S) /\ Len(Append(r, c[i])) = Len(r) + 1
        /\ \A k \in 1..Len(r) : Append(r, c[i])[k] = r[k]
        /\ Append(r, c[i])[Len(r) + 1] = c[i]
    <2>1. r \in Seq(S) /\ c[i] \in S
      BY <1>1, <1>2
    <2>2. QED
      BY <2>1, AppendProperties
  <1>4. DOMAIN Append(r, c[i]) = 1..(Len(r) + 1)
    BY <1>3
  <1>5. Len(r) + 1 = Len(c)
    BY <1>1, <1>2
  <1>6. ASSUME NEW k \in 1..Len(c) PROVE \E j \in 1..Len(c) : Append(r, c[i])[k] = c[j]
    <2>1. CASE k = Len(c)
      BY <1>1, <1>3, <1>5, <2>1
    <2>2. CASE k # Len(c)
      <3>1. k \in 1..(Len(c) - 1) /\ k + 1 \in 1..Len(c)
        <4>1. \A n \in Nat : \A m \in 1..n : m # n => m \in 1..(n - 1) /\ m + 1 \in 1..n
          OBVIOUS
        <4>2. QED
          BY <1>1, <2>2, <4>1
      <3>2. Append(r, c[i])[k] = IF k < i THEN c[k] ELSE c[k + 1]
        BY <1>2, <1>3, <3>1
      <3>3. QED
        BY <3>1, <3>2
    <2>3. QED
      BY <2>1, <2>2
  <1>7. Within(Append(r, c[i]), c)
    BY <1>1, <1>4, <1>5, <1>6 DEF Within
  <1>8. QED
    BY <1>3, <1>7 DEF r

\* A datagram is repeated.
LEMMA InsertWithin ==
    ASSUME NEW S, NEW c \in Seq(S), NEW i \in DOMAIN c
    PROVE  LET d == InsertAt(c, i, c[i])
           IN  /\ d \in Seq(S) /\ Len(d) = Len(c) + 1 /\ DOMAIN d = 1..(Len(c) + 1)
               /\ \A k \in 1..(Len(c) + 1) : d[k] = IF k <= i THEN c[k] ELSE c[k - 1]
               /\ Within(d, c)
  <1> DEFINE p == SubSeq(c, 1, i - 1)
             q == SubSeq(c, i, Len(c))
             d == InsertAt(c, i, c[i])
  <1>1. Len(c) \in Nat /\ DOMAIN c = 1..Len(c) /\ i \in 1..Len(c) /\ \A k \in 1..Len(c) : c[k] \in S
    OBVIOUS
  <1>2. p \in Seq(S) /\ Len(p) = i - 1 /\ \A k \in 1..(i - 1) : p[k] = c[k]
    BY <1>1
  <1>3. q \in Seq(S) /\ Len(q) = Len(c) - i + 1 /\ \A k \in 1..(Len(c) - i + 1) : q[k] = c[i + k - 1]
    BY <1>1
  <1>4. d = p \o << c[i] >> \o q
    BY DEF InsertAt
  <1> HIDE DEF p, q, d
  <1>5. << c[i] >> \in Seq(S) /\ Len(<< c[i] >>) = 1 /\ << c[i] >>[1] = c[i]
    BY <1>1
  <1>6. /\ p \o << c[i] >> \in Seq(S) /\ Len(p \o << c[i] >>) = i
        /\ \A k \in 1..i : (p \o << c[i] >>)[k] = c[k]
    BY <1>1, <1>2, <1>5
  <1>7. /\ d \in Seq(S) /\ Len(d) = i + Len(q) /\ DOMAIN d = 1..(i + Len(q))
        /\ \A k \in 1..(i + Len(q)) :
              d[k] = IF k <= i THEN (p \o << c[i] >>)[k] ELSE q[k - i]
    <2> DEFINE u == p \o << c[i] >>
    <2>1. u \in Seq(S) /\ Len(u) = i /\ q \in Seq(S) /\ d = u \o q
      BY <1>3, <1>4, <1>6
    <2> HIDE DEF u
    <2>2. /\ d \in Seq(S) /\ Len(d) = i + Len(q)
          /\ \A k \in 1..(i + Len(q)) : d[k] = IF k <= i THEN u[k] ELSE q[k - i]
      BY <2>1, ConcatProperties
    <2>3. DOMAIN d = 1..(i + Len(q))
      BY <2>2
    <2>4. QED
      BY <2>2, <2>3 DEF u
  <1>8. i + Len(q) = Len(c) + 1
    BY <1>1, <1>3
  <1>9. ASSUME NEW k \in 1..(Len(c) + 1)
        PROVE  d[k] = (IF k <= i THEN c[k] ELSE c[k - 1]) /\ \E j \in 1..Len(c) : d[k] = c[j]
    <2>1. CASE k <= i
      <3>1. k \in 1..i /\ k \in 1..Len(c)
        BY <1>1, <2>1
      <3>2. QED
        BY <1>6, <1>7, <1>8, <2>1, <3>1
    <2>2. CASE ~(k <= i)
      <3>1. /\ k - i \in 1..(Len(c) - i + 1) /\ i + (k - i) - 1 = k - 1
            /\ k - 1 \in 1..Len(c)
        BY <1>1, <2>2
      <3>2. q[k - i] = c[k - 1]
        BY <1>3, <3>1
      <3>3. d[k] = q[k - i]
        BY <1>7, <1>8, <2>2
      <3>4. QED
        BY <2>2, <3>1, <3>2, <3>3
    <2>3. QED
      BY <2>1, <2>2
  <1>10. Within(d, c)
    BY <1>1, <1>7, <1>8, <1>9 DEF Within
  <1>11. QED
    BY <1>7, <1>8, <1>9, <1>10 DEF d

-----------------------------------------------------------------------------
(* Kinds of messages in a channel, and their order.                         *)

\* Some message of these kinds is on its way.
Has(x, ids) == \E i \in DOMAIN x : x[i].msgId \in ids

\* All messages of the kinds X are before those of the kinds Y.
Before(x, X, Y) == \A i, j \in DOMAIN x : x[i].msgId \in X /\ x[j].msgId \in Y => i < j

\* Channel y is channel x after losses and repetitions that keep the order.
Thinned(y, x) ==
    \E f \in [DOMAIN y -> DOMAIN x] :
        /\ \A i \in DOMAIN y : y[i] = x[f[i]]
        /\ \A i, j \in DOMAIN y : i < j => f[i] <= f[j]

\* Such a channel has no other messages, and keeps the order of any two kinds.
LEMMA ThinnedChannel ==
    ASSUME NEW x, NEW y, DOMAIN x \subseteq Nat, DOMAIN y \subseteq Nat, Thinned(y, x)
    PROVE  /\ Within(y, x)
           /\ \A ids : Has(y, ids) => Has(x, ids)
           /\ \A X, Y : X \cap Y = {} /\ Before(x, X, Y) => Before(y, X, Y)
  <1>1. PICK f \in [DOMAIN y -> DOMAIN x] :
           /\ \A i \in DOMAIN y : y[i] = x[f[i]]
           /\ \A i, j \in DOMAIN y : i < j => f[i] <= f[j]
    BY DEF Thinned
  <1>2. Within(y, x) /\ \A ids : Has(y, ids) => Has(x, ids)
    BY <1>1 DEF Within, Has
  <1>3. ASSUME NEW X, NEW Y, X \cap Y = {}, Before(x, X, Y),
               NEW i \in DOMAIN y, NEW j \in DOMAIN y, y[i].msgId \in X, y[j].msgId \in Y
        PROVE  i < j
    <2>1. f[i] \in DOMAIN x /\ f[j] \in DOMAIN x /\ f[i] \in Nat /\ f[j] \in Nat
      BY <1>1
    <2>2. f[i] < f[j]
      BY <1>1, <1>3, <2>1 DEF Before
    <2>3. i # j /\ ~(j < i)
      BY <1>1, <2>1, <2>2
    <2>4. QED
      BY <2>3
  <1>4. QED
    BY <1>2, <1>3 DEF Before

\* Nothing happens to the channel.
LEMMA SameThinned ==
    ASSUME NEW x, DOMAIN x \subseteq Nat
    PROVE  Thinned(x, x)
  <1> DEFINE f == [i \in DOMAIN x |-> i]
  <1>1. /\ f \in [DOMAIN x -> DOMAIN x] /\ \A i \in DOMAIN x : x[i] = x[f[i]]
        /\ \A i, j \in DOMAIN x : i < j => f[i] <= f[j]
    OBVIOUS
  <1> HIDE DEF f
  <1>2. QED
    BY <1>1 DEF Thinned

\* The first datagram is taken or lost.
LEMMA TailThinned ==
    ASSUME NEW S, NEW x \in Seq(S), x # << >>
    PROVE  Thinned(Tail(x), x)
  <1> DEFINE f == [i \in DOMAIN Tail(x) |-> i + 1]
  <1>1. Len(x) \in Nat /\ Len(x) >= 1 /\ DOMAIN x = 1..Len(x) /\ DOMAIN Tail(x) = 1..(Len(x) - 1)
    OBVIOUS
  <1>2. \A i \in 1..(Len(x) - 1) : i + 1 \in 1..Len(x) /\ Tail(x)[i] = x[i + 1]
    BY <1>1
  <1>3. f \in [DOMAIN Tail(x) -> DOMAIN x] /\ \A i \in DOMAIN Tail(x) : Tail(x)[i] = x[f[i]]
    BY <1>1, <1>2
  <1>4. \A i, j \in DOMAIN Tail(x) : i < j => f[i] <= f[j]
    BY <1>1
  <1> HIDE DEF f
  <1>5. QED
    BY <1>3, <1>4 DEF Thinned

\* A datagram is repeated, right behind itself.
LEMMA InsertThinned ==
    ASSUME NEW S, NEW x \in Seq(S), NEW k \in DOMAIN x
    PROVE  Thinned(InsertAt(x, k, x[k]), x)
  <1> DEFINE y == InsertAt(x, k, x[k])
             f == [i \in DOMAIN y |-> IF i <= k THEN i ELSE i - 1]
  <1>1. Len(x) \in Nat /\ DOMAIN x = 1..Len(x) /\ k \in 1..Len(x)
    OBVIOUS
  <1>2. /\ DOMAIN y = 1..(Len(x) + 1)
        /\ \A i \in 1..(Len(x) + 1) : y[i] = IF i <= k THEN x[i] ELSE x[i - 1]
    BY InsertWithin
  <1> HIDE DEF y
  <1>3. \A i \in 1..(Len(x) + 1) : /\ (IF i <= k THEN i ELSE i - 1) \in 1..Len(x)
                                 /\ y[i] = x[IF i <= k THEN i ELSE i - 1]
    BY <1>1, <1>2
  <1>4. f \in [DOMAIN y -> DOMAIN x] /\ \A i \in DOMAIN y : y[i] = x[f[i]]
    BY <1>1, <1>2, <1>3
  <1>5. \A i, j \in DOMAIN y : i < j => f[i] <= f[j]
    BY <1>1, <1>2
  <1> HIDE DEF f
  <1>6. QED
    BY <1>4, <1>5 DEF Thinned, y

\* What a datagram at the end adds.
LEMMA AppendChannel ==
    ASSUME NEW S, NEW x \in Seq(S), NEW m \in S
    PROVE  /\ Append(x, m) \in Seq(S)
           /\ \A i \in DOMAIN Append(x, m) :
                 (i \in DOMAIN x /\ Append(x, m)[i] = x[i]) \/ (i = Len(x) + 1 /\ Append(x, m)[i] = m)
           /\ \A ids : Has(Append(x, m), ids) <=> Has(x, ids) \/ m.msgId \in ids
           /\ \A X, Y :
                 (Before(x, X, Y) /\ (m.msgId \in X => m.msgId \notin Y /\ ~Has(x, Y)))
                    => Before(Append(x, m), X, Y)
  <1> DEFINE y == Append(x, m)
  <1>1. Len(x) \in Nat /\ DOMAIN x = 1..Len(x) /\ y \in Seq(S) /\ Len(y) = Len(x) + 1
    BY AppendProperties
  <1>2. DOMAIN y = 1..(Len(x) + 1)
    BY <1>1
  <1>3. y[Len(x) + 1] = m /\ \A i \in 1..Len(x) : y[i] = x[i]
    BY AppendProperties
  <1> HIDE DEF y
  <1>4. \A i \in DOMAIN y : (i \in DOMAIN x /\ y[i] = x[i]) \/ (i = Len(x) + 1 /\ y[i] = m)
    BY <1>1, <1>2, <1>3
  <1>5. DOMAIN x \subseteq DOMAIN y /\ Len(x) + 1 \in DOMAIN y
    BY <1>1, <1>2
  <1>6. \A ids : Has(y, ids) <=> Has(x, ids) \/ m.msgId \in ids
    <2>1. ASSUME NEW ids, Has(y, ids) PROVE Has(x, ids) \/ m.msgId \in ids
      BY <1>4, <2>1 DEF Has
    <2>2. ASSUME NEW ids, Has(x, ids) \/ m.msgId \in ids PROVE Has(y, ids)
      BY <1>1, <1>3, <1>5, <2>2 DEF Has
    <2>3. QED
      BY <2>1, <2>2
  <1>7. ASSUME NEW X, NEW Y, Before(x, X, Y), m.msgId \in X => m.msgId \notin Y /\ ~Has(x, Y),
               NEW i \in DOMAIN y, NEW j \in DOMAIN y, y[i].msgId \in X, y[j].msgId \in Y
        PROVE  i < j
    <2>1. CASE i \in DOMAIN x /\ y[i] = x[i]
      <3>1. CASE j \in DOMAIN x /\ y[j] = x[j]
        BY <1>7, <2>1, <3>1 DEF Before
      <3>2. CASE j = Len(x) + 1
        BY <1>1, <2>1, <3>2
      <3>3. QED
        BY <1>4, <3>1, <3>2
    <2>2. CASE i = Len(x) + 1 /\ y[i] = m
      BY <1>4, <1>7, <2>2 DEF Has
    <2>3. QED
      BY <1>4, <2>1, <2>2
  <1>8. QED
    BY <1>1, <1>4, <1>6, <1>7 DEF Before, y

\* If a message of a later kind is first, there is none of an earlier kind.
LEMMA HeadBefore ==
    ASSUME NEW S, NEW x \in Seq(S), x # << >>
    PROVE  /\ 1 \in DOMAIN x /\ Head(x) = x[1] /\ DOMAIN x \subseteq Nat
           /\ \A X, Y : Before(x, X, Y) /\ Head(x).msgId \in Y => ~Has(x, X)
           /\ \A ids : Head(x).msgId \in ids => Has(x, ids)
  <1>1. 1 \in DOMAIN x /\ Head(x) = x[1] /\ DOMAIN x = 1..Len(x) /\ Len(x) \in Nat
    OBVIOUS
  <1>2. QED
    BY <1>1 DEF Before, Has

\* Taking the first message leaves those of other kinds.
LEMMA TailHas ==
    ASSUME NEW S, NEW x \in Seq(S), x # << >>, NEW ids, Has(x, ids), Head(x).msgId \notin ids
    PROVE  Has(Tail(x), ids)
  <1>1. /\ Len(x) \in Nat /\ DOMAIN x = 1..Len(x) /\ DOMAIN Tail(x) = 1..(Len(x) - 1)
        /\ Head(x) = x[1] /\ \A k \in 1..(Len(x) - 1) : Tail(x)[k] = x[k + 1]
    OBVIOUS
  <1>2. PICK i \in DOMAIN x : x[i].msgId \in ids
    BY DEF Has
  <1>3. i - 1 \in 1..(Len(x) - 1) /\ (i - 1) + 1 = i
    <2>1. i # 1
      BY <1>1, <1>2
    <2>2. QED
      BY <1>1, <2>1
  <1>4. Tail(x)[i - 1] = x[i]
    BY <1>1, <1>3
  <1>5. QED
    BY <1>1, <1>2, <1>3, <1>4 DEF Has

\* A repetition removes nothing.
LEMMA InsertHas ==
    ASSUME NEW S, NEW x \in Seq(S), NEW k \in DOMAIN x, NEW ids, Has(x, ids)
    PROVE  Has(InsertAt(x, k, x[k]), ids)
  <1> DEFINE y == InsertAt(x, k, x[k])
  <1>1. /\ Len(x) \in Nat /\ DOMAIN x = 1..Len(x) /\ DOMAIN y = 1..(Len(x) + 1)
        /\ \A j \in 1..(Len(x) + 1) : y[j] = IF j <= k THEN x[j] ELSE x[j - 1]
    BY InsertWithin
  <1> HIDE DEF y
  <1>2. PICK i \in DOMAIN x : x[i].msgId \in ids
    BY DEF Has
  <1>3. \E j \in DOMAIN y : y[j] = x[i]
    <2>1. CASE i <= k
      BY <1>1, <2>1
    <2>2. CASE ~(i <= k)
      <3>1. i + 1 \in 1..(Len(x) + 1) /\ ~(i + 1 <= k) /\ (i + 1) - 1 = i
        BY <1>1, <2>2
      <3>2. y[i + 1] = x[i]
        BY <1>1, <3>1
      <3>3. QED
        BY <1>1, <3>1, <3>2
    <2>3. QED
      BY <2>1, <2>2
  <1>4. Has(y, ids)
    BY <1>2, <1>3 DEF Has
  <1>5. QED
    BY <1>4 DEF y
=============================================================================
