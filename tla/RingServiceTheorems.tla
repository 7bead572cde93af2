------------------------ MODULE RingServiceTheorems ------------------------
(***************************************************************************)
(* What the operations of RingService do to the place a request is at. The *)
(* proofs about the two event loops rest on the five lemmas at the end:    *)
(* they speak of OneInRing, InSQ and InKernel and not of sequences.        *)
(***************************************************************************)
EXTENDS RingService, Integers, TLAPS

(* The reserved user data are no nonces. *)
LEMMA RingConstants ==
    /\ MaxNonce \in Nat /\ SQEntries \in Nat \ {0} /\ BatchSize \in Nat \ {0}
    /\ timeoutNonce \notin Nonce /\ cancelNonce \notin Nonce /\ timeoutNonce # cancelNonce
    /\ 0 \notin Nonce
BY RingAssumption DEF Nonce, timeoutNonce, cancelNonce

(* Sequences of one and of two elements. *)
LEMMA Pairs ==
    ASSUME NEW S, NEW a \in S, NEW b \in S
    PROVE  /\ <<a>> \in Seq(S) /\ Len(<<a>>) = 1 /\ <<a>>[1] = a
           /\ <<a, b>> \in Seq(S) /\ Len(<<a, b>>) = 2 /\ <<a, b>>[1] = a /\ <<a, b>>[2] = b
OBVIOUS

(* What the event loops queue for user data u: an SQE with u, and perhaps  *)
(* one of a timeout.                                                       *)
Shape(s, u) ==
    /\ s \in Seq(SQE) /\ (Len(s) = 1 \/ Len(s) = 2)
    /\ s[1].ud = u
    /\ Len(s) = 2 => s[2].ud = timeoutNonce

LEMMA Shapes ==
    ASSUME NEW n \in Nonce
    PROVE  /\ Shape(Operation(n), n) /\ Shape(OperationWithTimeout(n), n)
           /\ Shape(Cancellation(n), cancelNonce)
<1> DEFINE plain == [ud |-> n, link |-> FALSE, target |-> 0]
           linked == [ud |-> n, link |-> TRUE, target |-> 0]
           timeout == [ud |-> timeoutNonce, link |-> FALSE, target |-> 0]
           cancel == [ud |-> cancelNonce, link |-> FALSE, target |-> n]
<1>1. plain \in SQE /\ linked \in SQE /\ timeout \in SQE /\ cancel \in SQE
  BY DEF SQE, UserData
<1>2. plain.ud = n /\ linked.ud = n /\ timeout.ud = timeoutNonce /\ cancel.ud = cancelNonce
  OBVIOUS
<1>3. Operation(n) = <<plain>> /\ OperationWithTimeout(n) = <<linked, timeout>>
      /\ Cancellation(n) = <<cancel>>
  BY DEF Operation, OperationWithTimeout, Cancellation
<1> HIDE DEF plain, linked, timeout, cancel
<1>4. Shape(<<plain>>, n)
  BY <1>1, <1>2, Pairs DEF Shape
<1>5. Shape(<<linked, timeout>>, n)
  BY <1>1, <1>2, Pairs DEF Shape
<1>6. Shape(<<cancel>>, cancelNonce)
  BY <1>1, <1>2, Pairs DEF Shape
<1> QED BY <1>3, <1>4, <1>5, <1>6

LEMMA SQEsTyped ==
    ASSUME NEW n \in Nonce
    PROVE  {Operation(n), OperationWithTimeout(n), Cancellation(n)} \subseteq Seq(SQE)
BY Shapes DEF Shape

(* How many of l = 1 or 2 entries fit into r. *)
LEMMA Fitting ==
    ASSUME NEW l \in Nat, NEW r \in Nat, l = 1 \/ l = 2, NEW m \in Nat,
           l < r => m = l, ~(l < r) => m = r
    PROVE  (r = 0 => m = 0) /\ (r > 0 => (m = 1 \/ m = 2)) /\ m <= l /\ m <= r
OBVIOUS

(* QueueSQE appends what fits. *)
LEMMA QueueAppends ==
    ASSUME RingTypeOK, NEW s, NEW u, Shape(s, u), QueueUpTo(s)
    PROVE  /\ sq' \in Seq(SQE) /\ Len(sq') <= SQEntries
           /\ (Room = 0 => Len(sq') = Len(sq))
           /\ Room > 0 => sq'[Len(sq) + 1].ud = u
           /\ \A i \in 1 .. Len(sq) : sq'[i] = sq[i]
           /\ \A i \in Len(sq) + 2 .. Len(sq') : sq'[i].ud \notin Nonce
<1> DEFINE k == IF Len(s) < Room THEN Len(s) ELSE Room
<1>1. sq \in Seq(SQE) /\ Len(sq) <= SQEntries
  BY DEF RingTypeOK
<1>2. /\ s \in Seq(SQE) /\ (Len(s) = 1 \/ Len(s) = 2) /\ s[1].ud = u
      /\ Len(s) = 2 => s[2].ud = timeoutNonce
  BY DEF Shape
<1>3. Len(sq) \in Nat /\ SQEntries \in Nat /\ Room \in Nat
  BY <1>1, RingConstants DEF Room
<1>4. k \in 0 .. Len(s) /\ k <= Room
  BY <1>2, <1>3
<1>5. /\ SubSeq(s, 1, k) \in Seq(SQE) /\ Len(SubSeq(s, 1, k)) = k
      /\ \A i \in 1 .. k : SubSeq(s, 1, k)[i] = s[i]
  BY <1>2, <1>4
<1>6. sq' = sq \o SubSeq(s, 1, k)
  BY DEF QueueUpTo
<1> HIDE DEF k
<1>7. /\ sq' \in Seq(SQE) /\ Len(sq') = Len(sq) + k
      /\ \A i \in 1 .. Len(sq) : sq'[i] = sq[i]
      /\ \A i \in Len(sq) + 1 .. Len(sq') : sq'[i] = SubSeq(s, 1, k)[i - Len(sq)]
  BY <1>1, <1>5, <1>6
<1>8. (Len(s) = 1 \/ Len(s) = 2) /\ Len(sq') = Len(sq) + k /\ k \in Nat
  BY <1>2, <1>4, <1>7
<1>9. (Room = 0 => k = 0) /\ (Room > 0 => (k = 1 \/ k = 2)) /\ k <= Len(s) /\ k <= Room
  <2>1. Len(s) \in Nat /\ (Len(s) < Room => k = Len(s)) /\ (~(Len(s) < Room) => k = Room)
    BY <1>2 DEF k
  <2>2. Len(s) = 1 \/ Len(s) = 2
    BY <1>2
  <2> HIDE DEF Room
  <2> QED BY <1>3, <1>8, <2>1, <2>2, Fitting, Zenon
<1>10. \A i \in Len(sq) + 1 .. Len(sq') : sq'[i] = s[i - Len(sq)]
  BY <1>3, <1>4, <1>5, <1>7
<1>11. ASSUME NEW i \in Len(sq) + 2 .. Len(sq')
       PROVE  sq'[i].ud \notin Nonce
  <2>1. i = Len(sq) + 2 /\ Len(s) = 2 /\ i - Len(sq) = 2
    <3>1. Len(sq') \in Nat /\ i \in Int /\ Len(sq) + 2 <= i /\ i <= Len(sq) + k
      BY <1>3, <1>8
    <3>2. k >= 2 /\ k \in Nat
      BY <1>3, <1>8, <3>1
    <3>3. k = 2 /\ Len(s) = 2
      <4>1. k <= Len(s)
        BY <1>9
      <4>2. CASE Len(s) = 1
        BY <3>2, <4>1, <4>2
      <4>3. CASE Len(s) = 2
        BY <3>2, <4>1, <4>3
      <4> QED BY <1>2, <4>2, <4>3
    <3>4. i \in Int /\ Len(sq) \in Nat /\ Len(sq) + 2 <= i /\ i <= Len(sq) + 2
      BY <1>3, <3>1, <3>3
    <3> QED BY <3>3, <3>4
  <2>2. sq'[i] = s[2]
    BY <1>3, <1>10, <2>1
  <2> QED BY <1>2, <2>1, <2>2, RingConstants
<1>12. Room > 0 => sq'[Len(sq) + 1].ud = u
  <2>1. Room > 0 => Len(sq) + 1 \in Len(sq) + 1 .. Len(sq') /\ (Len(sq) + 1) - Len(sq) = 1
    BY <1>3, <1>8, <1>9
  <2>2. Room > 0 => sq'[Len(sq) + 1] = s[1]
    BY <1>10, <2>1
  <2> QED BY <1>2, <2>2
<1>13. Len(sq') <= SQEntries /\ (Room = 0 => Len(sq') = Len(sq))
  BY <1>3, <1>8, <1>9 DEF Room
<1> QED BY <1>7, <1>11, <1>12, <1>13

(* The SQEs after QueueSQE, one by one. *)
LEMMA QueueEntries ==
    ASSUME RingTypeOK, NEW s, NEW u, Shape(s, u), QueueUpTo(s), NEW i \in 1 .. Len(sq')
    PROVE  \/ i \in 1 .. Len(sq) /\ sq'[i] = sq[i]
           \/ i = Len(sq) + 1 /\ Room > 0 /\ sq'[i].ud = u
           \/ sq'[i].ud \notin Nonce
<1>1. /\ sq' \in Seq(SQE) /\ (Room > 0 => sq'[Len(sq) + 1].ud = u)
      /\ (Room = 0 => Len(sq') = Len(sq))
      /\ \A j \in 1 .. Len(sq) : sq'[j] = sq[j]
      /\ \A j \in Len(sq) + 2 .. Len(sq') : sq'[j].ud \notin Nonce
  BY QueueAppends
<1>2. Len(sq) \in Nat /\ Len(sq') \in Nat /\ (Room = 0 \/ Room > 0)
  BY <1>1, RingConstants DEF Room, RingTypeOK
<1>3. \/ i \in 1 .. Len(sq)
      \/ i = Len(sq) + 1 /\ Len(sq') # Len(sq)
      \/ i \in Len(sq) + 2 .. Len(sq')
  BY <1>2
<1>4. CASE i \in 1 .. Len(sq)
  BY <1>1, <1>4
<1>5. CASE i = Len(sq) + 1 /\ Len(sq') # Len(sq)
  BY <1>1, <1>2, <1>5
<1>6. CASE i \in Len(sq) + 2 .. Len(sq')
  BY <1>1, <1>6
<1> QED BY <1>3, <1>4, <1>5, <1>6

(* The kernel takes the oldest SQE. *)
LEMMA TakeShortens ==
    ASSUME sq \in Seq(SQE), TakeOne
    PROVE  /\ sq' \in Seq(SQE) /\ Len(sq) \in Nat \ {0} /\ Len(sq') = Len(sq) - 1
           /\ \A i \in 1 .. Len(sq') : i + 1 \in 1 .. Len(sq) /\ sq'[i] = sq[i + 1]
           /\ Head(sq) = sq[1] /\ Head(sq) \in SQE
BY DEF TakeOne

(* CQEs of a request: one with its nonce, and perhaps one of its timeout. *)
LEMMA CQEsAppended ==
    ASSUME NEW q \in Seq(UserData), NEW n \in Nonce
    PROVE  LET r == q \o CQEsOf(n)
           IN  /\ r \in Seq(UserData) /\ (Len(r) = Len(q) + 1 \/ Len(r) = Len(q) + 2)
               /\ \A i \in 1 .. Len(q) : r[i] = q[i]
               /\ r[Len(q) + 1] = n
               /\ \A i \in Len(q) + 2 .. Len(r) : r[i] \notin Nonce
<1> DEFINE t == CQEsOf(n)
<1>1. /\ t \in Seq(UserData) /\ (Len(t) = 1 \/ Len(t) = 2) /\ t[1] = n
      /\ Len(t) = 2 => t[2] = timeoutNonce
  <2>1. n \in UserData /\ timeoutNonce \in UserData
    BY DEF UserData
  <2>2. /\ <<n>> \in Seq(UserData) /\ Len(<<n>>) = 1 /\ <<n>>[1] = n
        /\ <<n, timeoutNonce>> \in Seq(UserData) /\ Len(<<n, timeoutNonce>>) = 2
        /\ <<n, timeoutNonce>>[1] = n /\ <<n, timeoutNonce>>[2] = timeoutNonce
    BY <2>1, Pairs
  <2> QED BY <2>2 DEF CQEsOf
<1> HIDE DEF t
<1>2. /\ (q \o t) \in Seq(UserData) /\ Len(q \o t) = Len(q) + Len(t)
      /\ \A i \in 1 .. Len(q) : (q \o t)[i] = q[i]
      /\ \A i \in Len(q) + 1 .. Len(q \o t) : (q \o t)[i] = t[i - Len(q)]
  BY <1>1
<1>3. \A i \in Len(q) + 2 .. Len(q \o t) : (q \o t)[i] = timeoutNonce
  BY <1>1, <1>2
<1>4. Len(q) \in Nat /\ Len(q) + 1 \in Len(q) + 1 .. Len(q \o t) /\ (Len(q) + 1) - Len(q) = 1
  BY <1>1, <1>2
<1>5. (q \o t)[Len(q) + 1] = n
  BY <1>1, <1>2, <1>4
<1>6. Len(q \o t) = Len(q) + 1 \/ Len(q \o t) = Len(q) + 2
  BY <1>1, <1>2, <1>4
<1>7. \A i \in Len(q) + 2 .. Len(q \o t) : (q \o t)[i] \notin Nonce
  BY <1>3, RingConstants
<1> QED BY <1>2, <1>5, <1>6, <1>7 DEF t

(* What CQEs of one kernel step add to cq: at most one with a nonce, the   *)
(* first of them, of a request that is no longer in flight.                *)
Posted ==
    /\ cq' \in Seq(UserData) /\ Len(cq') \in Nat /\ Len(cq) <= Len(cq')
    /\ \A i \in 1 .. Len(cq) : cq'[i] = cq[i]
    /\ \A i \in Len(cq) + 1 .. Len(cq') :
          cq'[i] \in Nonce => i = Len(cq) + 1 /\ cq'[i] \in inflight /\ cq'[i] \notin inflight'

(* A CQE without a nonce is appended. *)
LEMMA AppendReserved ==
    ASSUME NEW q \in Seq(UserData), NEW u \in {timeoutNonce, cancelNonce}
    PROVE  /\ Append(q, u) \in Seq(UserData) /\ Len(Append(q, u)) = Len(q) + 1 /\ Len(q) \in Nat
           /\ \A i \in 1 .. Len(q) : Append(q, u)[i] = q[i]
           /\ Append(q, u)[Len(q) + 1] \notin Nonce
           /\ q \o <<u>> = Append(q, u)
<1>1. u \in UserData /\ u \notin Nonce
  BY RingConstants DEF UserData
<1> HIDE DEF UserData
<1> QED BY <1>1

(* A request completes. *)
LEMMA CompletePosts ==
    ASSUME RingTypeOK, NEW n \in Nonce, CompleteRequest(n)
    PROVE  Posted
<1>1. /\ cq \in Seq(UserData) /\ n \in inflight /\ n \notin inflight' /\ cq' = cq \o CQEsOf(n)
  BY DEF RingTypeOK, CompleteRequest
<1>2. /\ cq' \in Seq(UserData) /\ (Len(cq') = Len(cq) + 1 \/ Len(cq') = Len(cq) + 2)
      /\ \A i \in 1 .. Len(cq) : cq'[i] = cq[i]
      /\ cq'[Len(cq) + 1] = n
      /\ \A i \in Len(cq) + 2 .. Len(cq') : cq'[i] \notin Nonce
  BY <1>1, CQEsAppended
<1>3. Len(cq) \in Nat /\ Len(cq') \in Nat
  BY <1>1, <1>2
<1>4. \A i \in Len(cq) + 1 .. Len(cq') : i = Len(cq) + 1 \/ i \in Len(cq) + 2 .. Len(cq')
  BY <1>3
<1> QED BY <1>1, <1>2, <1>3, <1>4 DEF Posted

(* The kernel takes an SQE: only a cancel request completes another one. *)
LEMMA TakePosts ==
    ASSUME RingTypeOK, TakeOne
    PROVE  Posted
<1>1. cq \in Seq(UserData) /\ inflight \subseteq Nonce /\ Head(sq) \in SQE
  BY TakeShortens DEF RingTypeOK
<1> DEFINE e == Head(sq)
<1>2. ASSUME cq' = cq PROVE Posted
  BY <1>1, <1>2 DEF Posted
<1>3. ASSUME NEW u \in {timeoutNonce, cancelNonce}, cq' = Append(cq, u) PROVE Posted
  <2>1. /\ cq' \in Seq(UserData) /\ Len(cq') = Len(cq) + 1 /\ Len(cq) \in Nat
        /\ \A i \in 1 .. Len(cq) : cq'[i] = cq[i]
        /\ cq'[Len(cq) + 1] \notin Nonce
    BY <1>1, <1>3, AppendReserved
  <2>2. \A i \in Len(cq) + 1 .. Len(cq') : i = Len(cq) + 1
    BY <2>1
  <2> QED BY <2>1, <2>2 DEF Posted
<1>4. CASE TakeOperation(e)
  BY <1>2, <1>4 DEF TakeOperation
<1>5. CASE TakeTimeout(e)
  BY <1>2, <1>3, <1>5 DEF TakeTimeout
<1>6. CASE TakeCancel(e) /\ e.target \notin inflight
  BY <1>3, <1>6 DEF TakeCancel
<1>7. CASE TakeCancel(e) /\ e.target \in inflight
  <2> DEFINE n == e.target
             q == cq \o CQEsOf(n)
  <2>1. n \in Nonce /\ n \in inflight /\ n \notin inflight' /\ cq' = q \o <<cancelNonce>>
    BY <1>1, <1>7 DEF TakeCancel
  <2> HIDE DEF n
  <2>2. /\ q \in Seq(UserData) /\ (Len(q) = Len(cq) + 1 \/ Len(q) = Len(cq) + 2)
        /\ \A i \in 1 .. Len(cq) : q[i] = cq[i]
        /\ q[Len(cq) + 1] = n
        /\ \A i \in Len(cq) + 2 .. Len(q) : q[i] \notin Nonce
    BY <1>1, <2>1, CQEsAppended
  <2> HIDE DEF q
  <2>3. /\ cq' \in Seq(UserData) /\ Len(cq') = Len(q) + 1 /\ Len(q) \in Nat
        /\ \A i \in 1 .. Len(q) : cq'[i] = q[i]
        /\ cq'[Len(q) + 1] \notin Nonce
    BY <2>1, <2>2, AppendReserved
  <2>4. Len(cq) \in Nat
    BY <1>1
  <2>5. \A i \in 1 .. Len(cq) : i \in 1 .. Len(q)
    BY <2>2, <2>3, <2>4
  <2>6. \A i \in Len(cq) + 1 .. Len(cq') :
            \/ i = Len(cq) + 1 /\ i \in 1 .. Len(q)
            \/ i \in Len(cq) + 2 .. Len(q) /\ i \in 1 .. Len(q)
            \/ i = Len(q) + 1
    BY <2>2, <2>3, <2>4
  <2>7. Len(cq') \in Nat /\ Len(cq) <= Len(cq')
    BY <2>2, <2>3, <2>4
  <2>8. \A i \in 1 .. Len(cq) : cq'[i] = cq[i]
    BY <2>2, <2>3, <2>5
  <2>9. \A i \in Len(cq) + 1 .. Len(cq') :
            cq'[i] \in Nonce => i = Len(cq) + 1 /\ cq'[i] \in inflight /\ cq'[i] \notin inflight'
    BY <2>1, <2>2, <2>3, <2>6
  <2> QED BY <2>3, <2>7, <2>8, <2>9 DEF Posted
<1> QED BY <1>4, <1>5, <1>6, <1>7 DEF TakeOne

(* The CQEs after such a step, one by one. *)
LEMMA PostedEntries ==
    ASSUME cq \in Seq(UserData), Posted, NEW i \in 1 .. Len(cq')
    PROVE  \/ i \in 1 .. Len(cq) /\ cq'[i] = cq[i]
           \/ i = Len(cq) + 1 /\ cq'[i] \in inflight /\ cq'[i] \notin inflight'
           \/ cq'[i] \notin Nonce
<1>1. Len(cq) \in Nat
  OBVIOUS
<1>2. i \in 1 .. Len(cq) \/ i \in Len(cq) + 1 .. Len(cq')
  BY <1>1 DEF Posted
<1>3. CASE i \in 1 .. Len(cq)
  BY <1>3 DEF Posted
<1>4. CASE i \in Len(cq) + 1 .. Len(cq')
  BY <1>4 DEF Posted
<1> QED BY <1>2, <1>3, <1>4

(* AdvanceCQ removes the front of cq. *)
LEMMA AdvanceShortens ==
    ASSUME cq \in Seq(UserData), NEW k \in Nat, k <= Len(cq), Advance(k)
    PROVE  /\ cq' \in Seq(UserData) /\ Len(cq') \in Nat /\ Len(cq') = Len(cq) - k
           /\ \A i \in 1 .. Len(cq') : i + k \in 1 .. Len(cq) /\ cq'[i] = cq[i + k]
BY DEF Advance

-----------------------------------------------------------------------------
(* The five lemmas about places.                                           *)

(* QueueSQE: what was not in the ring is now in sq, if there was room. *)
LEMMA QueuePlaces ==
    ASSUME RingTypeOK, OneInRing, NEW s, NEW u, Shape(s, u), u \in Nonce => ~InRing(u),
           QueueUpTo(s)
    PROVE  /\ RingTypeOK' /\ OneInRing' /\ UNCHANGED <<inflight, cq>>
           /\ \A n \in Nonce : InSQ(n)' => InSQ(n) \/ (n = u /\ Room > 0)
<1>1. UNCHANGED <<inflight, armed, chain, cq>>
  BY DEF QueueUpTo
<1>2. RingTypeOK'
  BY <1>1, QueueAppends DEF RingTypeOK
<1>3. ASSUME NEW i \in 1 .. Len(sq')
      PROVE  \/ i \in 1 .. Len(sq) /\ sq'[i] = sq[i]
             \/ i = Len(sq) + 1 /\ Room > 0 /\ sq'[i].ud = u
             \/ sq'[i].ud \notin Nonce
  BY QueueEntries
<1>4. \A n \in Nonce : InSQ(n)' => InSQ(n) \/ (n = u /\ Room > 0)
  BY <1>3 DEF InSQ
<1>5. u \in Nonce => ~InSQ(u) /\ ~InKernel(u, 0)
  BY DEF InRing
<1>6. OneSQE'
  BY <1>3, <1>5 DEF OneInRing, OneSQE, InSQ
<1>7. \A n \in Nonce : InKernel(n, 0)' <=> InKernel(n, 0)
  BY <1>1 DEF InKernel
<1>8. \A n \in Nonce : InSQ(n)' => ~InKernel(n, 0)'
  BY <1>4, <1>5, <1>7 DEF OneInRing
<1>9. (\A i \in 1 .. Len(cq') : cq'[i] \notin inflight') /\ OneCQE'
  BY <1>1 DEF OneInRing, OneCQE
<1> QED BY <1>1, <1>2, <1>4, <1>6, <1>8, <1>9 DEF OneInRing

(* What the kernel posts was in flight. *)
LEMMA PostedPlaces ==
    ASSUME RingTypeOK, OneInRing, Posted, NEW n \in Nonce, NEW k \in 0 .. Len(cq),
           \E i \in k + 1 .. Len(cq') : cq'[i] = n
    PROVE  InKernel(n, k)
<1>1. PICK i \in k + 1 .. Len(cq') : cq'[i] = n
  OBVIOUS
<1>2. cq \in Seq(UserData) /\ Len(cq) \in Nat /\ Len(cq') \in Nat
  BY DEF RingTypeOK, Posted
<1>3. i \in 1 .. Len(cq') /\ (i \in 1 .. Len(cq) => i \in k + 1 .. Len(cq))
  BY <1>1, <1>2
<1>4. CASE i \in 1 .. Len(cq) /\ cq'[i] = cq[i]
  BY <1>1, <1>3, <1>4 DEF InKernel
<1>5. CASE cq'[i] \in inflight /\ cq'[i] \notin inflight'
  BY <1>1, <1>5 DEF InKernel
<1>6. \/ i \in 1 .. Len(cq) /\ cq'[i] = cq[i]
      \/ cq'[i] \in inflight /\ cq'[i] \notin inflight'
      \/ cq'[i] \notin Nonce
  BY <1>2, <1>3, PostedEntries
<1> QED BY <1>1, <1>4, <1>5, <1>6

(* A request completes: it stays with the kernel. *)
LEMMA CompletePlaces ==
    ASSUME RingTypeOK, OneInRing, NEW m \in Nonce, CompleteRequest(m)
    PROVE  /\ RingTypeOK' /\ OneInRing' /\ UNCHANGED sq
           /\ Len(cq) <= Len(cq') /\ \A i \in 1 .. Len(cq) : cq'[i] = cq[i]
           /\ \A n \in Nonce, k \in 0 .. Len(cq) : InKernel(n, k)' => InKernel(n, k)
<1>1. Posted
  BY CompletePosts
<1>2. UNCHANGED <<sq, chain>> /\ inflight' = inflight \ {m} /\ armed' = armed \ {m} /\ m # chain
  BY DEF CompleteRequest
<1>3. RingTypeOK'
  BY <1>1, <1>2 DEF RingTypeOK, Posted
<1>4. ASSUME NEW n \in Nonce, NEW k \in 0 .. Len(cq), InKernel(n, k)'
      PROVE  InKernel(n, k)
  <2>1. CASE n \in inflight'
    BY <1>2, <2>1 DEF InKernel
  <2>2. CASE \E i \in k + 1 .. Len(cq') : cq'[i] = n
    BY <1>1, <2>2, PostedPlaces
  <2> QED BY <1>4, <2>1, <2>2 DEF InKernel
<1>5. 0 \in 0 .. Len(cq)
  BY DEF RingTypeOK
<1>6. \A n \in Nonce : InSQ(n)' => ~InKernel(n, 0)'
  BY <1>2, <1>4, <1>5 DEF OneInRing, InSQ
<1>7. ASSUME NEW i \in 1 .. Len(cq')
      PROVE  \/ i \in 1 .. Len(cq) /\ cq'[i] = cq[i]
             \/ i = Len(cq) + 1 /\ cq'[i] \in inflight /\ cq'[i] \notin inflight'
             \/ cq'[i] \notin Nonce
  BY <1>1, PostedEntries DEF RingTypeOK
<1>8. \A i \in 1 .. Len(cq') : cq'[i] \notin inflight'
  BY <1>2, <1>7 DEF OneInRing, RingTypeOK
<1>9. OneCQE'
  BY <1>7 DEF OneInRing, OneCQE
<1>10. OneSQE'
  BY <1>2 DEF OneInRing, OneSQE
<1>11. Len(cq) <= Len(cq') /\ \A i \in 1 .. Len(cq) : cq'[i] = cq[i]
  BY <1>1 DEF Posted
<1> QED BY <1>2, <1>3, <1>4, <1>6, <1>8, <1>9, <1>10, <1>11 DEF OneInRing

(* The kernel takes an SQE: its request leaves sq and is with the kernel. *)
LEMMA TakePlaces ==
    ASSUME RingTypeOK, OneInRing, TakeOne
    PROVE  /\ RingTypeOK' /\ OneInRing'
           /\ Len(cq) <= Len(cq') /\ \A i \in 1 .. Len(cq) : cq'[i] = cq[i]
           /\ \A n \in Nonce : InSQ(n)' => InSQ(n)
           /\ \A n \in Nonce, k \in 0 .. Len(cq) : InKernel(n, k)' => InKernel(n, k) \/ InSQ(n)
<1>0. /\ sq \in Seq(SQE) /\ cq \in Seq(UserData) /\ inflight \subseteq Nonce
      /\ Len(sq) \in Nat /\ Len(cq) \in Nat /\ 0 \in 0 .. Len(cq)
  BY DEF RingTypeOK
<1>1. Posted
  BY TakePosts
<1>2. /\ sq' \in Seq(SQE) /\ Len(sq') = Len(sq) - 1 /\ Head(sq) = sq[1] /\ 1 \in 1 .. Len(sq)
      /\ \A i \in 1 .. Len(sq') : i + 1 \in 1 .. Len(sq) /\ i + 1 # 1 /\ sq'[i] = sq[i + 1]
  BY <1>0, TakeShortens
<1>3. RingTypeOK'
  <2>1. cq' \in Seq(UserData)
    BY <1>1 DEF Posted
  <2>2. Len(sq') <= SQEntries
    BY <1>0, <1>2, RingConstants DEF RingTypeOK
  <2>3. inflight' \subseteq Nonce /\ armed' \subseteq inflight' /\ chain' \in inflight' \cup {0}
    BY DEF TakeOne, TakeOperation, TakeTimeout, TakeCancel, RingTypeOK
  <2> QED BY <1>2, <2>1, <2>2, <2>3 DEF RingTypeOK
<1>4. \A n \in Nonce : InSQ(n)' => InSQ(n)
  BY <1>2 DEF InSQ
<1>5. \/ inflight' \subseteq inflight
      \/ inflight' = inflight \cup {sq[1].ud} /\ sq[1].ud \in Nonce /\ cq' = cq
  BY <1>2 DEF TakeOne, TakeOperation, TakeTimeout, TakeCancel
<1>6. ASSUME NEW n \in Nonce, NEW k \in 0 .. Len(cq), InKernel(n, k)'
      PROVE  InKernel(n, k) \/ (n = sq[1].ud /\ n \in inflight')
  <2>1. CASE n \in inflight'
    BY <1>5, <2>1 DEF InKernel
  <2>2. CASE \E i \in k + 1 .. Len(cq') : cq'[i] = n
    BY <1>1, <2>2, PostedPlaces
  <2> QED BY <1>6, <2>1, <2>2 DEF InKernel
<1>7. OneSQE'
  <2> SUFFICES ASSUME NEW i \in 1 .. Len(sq'), NEW j \in 1 .. Len(sq'),
                      sq'[i].ud \in Nonce, sq'[i].ud = sq'[j].ud
               PROVE  i = j
    BY DEF OneSQE
  <2>1. /\ i + 1 \in 1 .. Len(sq) /\ j + 1 \in 1 .. Len(sq)
        /\ sq[i + 1].ud \in Nonce /\ sq[i + 1].ud = sq[j + 1].ud
    BY <1>2
  <2>2. i + 1 = j + 1
    BY <2>1 DEF OneInRing, OneSQE
  <2> QED BY <2>2
<1>8. \A n \in Nonce : InSQ(n)' => n # sq[1].ud
  BY <1>2 DEF InSQ, OneInRing, OneSQE
<1>9. \A n \in Nonce : InSQ(n)' => ~InKernel(n, 0)'
  BY <1>0, <1>4, <1>6, <1>8 DEF OneInRing
<1>10. ASSUME NEW i \in 1 .. Len(cq')
       PROVE  \/ i \in 1 .. Len(cq) /\ cq'[i] = cq[i]
              \/ i = Len(cq) + 1 /\ cq'[i] \in inflight /\ cq'[i] \notin inflight'
              \/ cq'[i] \notin Nonce
  BY <1>0, <1>1, PostedEntries
<1>11. sq[1].ud \in Nonce => \A i \in 1 .. Len(cq) : cq[i] # sq[1].ud
  <2>1. InSQ(sq[1].ud)
    BY <1>2 DEF InSQ
  <2>2. \A i \in 1 .. Len(cq) : i \in 0 + 1 .. Len(cq)
    BY <1>0
  <2> QED BY <2>1, <2>2 DEF OneInRing, InKernel
<1>12. \A i \in 1 .. Len(cq') : cq'[i] \notin inflight'
  <2>1. CASE inflight' \subseteq inflight
    BY <1>0, <1>10, <2>1 DEF OneInRing
  <2>2. CASE inflight' = inflight \cup {sq[1].ud} /\ sq[1].ud \in Nonce /\ cq' = cq
    BY <1>11, <2>2 DEF OneInRing
  <2> QED BY <1>5, <2>1, <2>2
<1>13. OneCQE'
  BY <1>10 DEF OneInRing, OneCQE
<1>14. Len(cq) <= Len(cq') /\ \A i \in 1 .. Len(cq) : cq'[i] = cq[i]
  BY <1>1 DEF Posted
<1>15. \A n \in Nonce, k \in 0 .. Len(cq) : InKernel(n, k)' => InKernel(n, k) \/ InSQ(n)
  BY <1>2, <1>6 DEF InSQ
<1> QED BY <1>3, <1>4, <1>7, <1>9, <1>12, <1>13, <1>14, <1>15 DEF OneInRing

(* AdvanceCQ takes the first k CQEs away. *)
LEMMA AdvancePlaces ==
    ASSUME RingTypeOK, OneInRing, NEW k \in Nat, k <= Len(cq), Advance(k)
    PROVE  /\ RingTypeOK' /\ OneInRing' /\ UNCHANGED sq
           /\ \A n \in Nonce : InKernel(n, 0)' => InKernel(n, k) /\ InKernel(n, 0)
<1>0. cq \in Seq(UserData) /\ Len(cq) \in Nat
  BY DEF RingTypeOK
<1>1. /\ cq' \in Seq(UserData) /\ Len(cq') \in Nat /\ Len(cq') = Len(cq) - k
      /\ \A i \in 1 .. Len(cq') : i + k \in 1 .. Len(cq) /\ cq'[i] = cq[i + k]
  BY <1>0, AdvanceShortens
<1>2. UNCHANGED <<sq, inflight, armed, chain>>
  BY DEF Advance
<1>3. RingTypeOK'
  BY <1>1, <1>2 DEF RingTypeOK
<1>4. \A i \in 0 + 1 .. Len(cq') : i \in 1 .. Len(cq') /\ i + k \in k + 1 .. Len(cq)
                                   /\ i + k \in 0 + 1 .. Len(cq)
  BY <1>0, <1>1
<1>5. \A n \in Nonce : InKernel(n, 0)' => InKernel(n, k) /\ InKernel(n, 0)
  BY <1>1, <1>2, <1>4 DEF InKernel
<1>6. \A n \in Nonce : InSQ(n)' => ~InKernel(n, 0)'
  BY <1>2, <1>5 DEF OneInRing, InSQ
<1>7. OneCQE'
  <2> SUFFICES ASSUME NEW i \in 1 .. Len(cq'), NEW j \in 1 .. Len(cq'),
                      cq'[i] \in Nonce, cq'[i] = cq'[j]
               PROVE  i = j
    BY DEF OneCQE
  <2>1. i + k = j + k
    BY <1>1, Zenon DEF OneInRing, OneCQE
  <2> QED BY <2>1
<1>8. (\A i \in 1 .. Len(cq') : cq'[i] \notin inflight') /\ OneSQE'
  BY <1>1, <1>2 DEF OneInRing, OneSQE
<1> QED BY <1>2, <1>3, <1>5, <1>6, <1>7, <1>8 DEF OneInRing

(* The CQE after the first k is the last trace of its request. *)
LEMMA CurrentPlaces ==
    ASSUME RingTypeOK, OneInRing, NEW k \in Nat, k + 1 <= Len(cq), cq[k + 1] \in Nonce
    PROVE  /\ ~InSQ(cq[k + 1]) /\ InKernel(cq[k + 1], k) /\ InRing(cq[k + 1])
           /\ \A n \in Nonce : InKernel(n, k + 1) => InKernel(n, k) /\ n # cq[k + 1]
<1> DEFINE m == cq[k + 1]
<1>1. Len(cq) \in Nat /\ k + 1 \in k + 1 .. Len(cq) /\ k + 1 \in 0 + 1 .. Len(cq)
      /\ k + 1 \in 1 .. Len(cq)
  BY DEF RingTypeOK
<1>2. \A i \in k + 1 + 1 .. Len(cq) : i \in k + 1 .. Len(cq) /\ i \in 1 .. Len(cq) /\ i # k + 1
  BY <1>1
<1>3. InKernel(m, k) /\ InKernel(m, 0) /\ m \notin inflight
  BY <1>1 DEF InKernel, OneInRing
<1>4. ASSUME NEW n \in Nonce, InKernel(n, k + 1) PROVE InKernel(n, k) /\ n # m
  <2>1. CASE n \in inflight
    BY <1>3, <2>1 DEF InKernel
  <2>2. CASE \E i \in k + 1 + 1 .. Len(cq) : cq[i] = n
    BY <1>1, <1>2, <2>2 DEF InKernel, OneInRing, OneCQE
  <2> QED BY <1>4, <2>1, <2>2 DEF InKernel
<1> QED BY <1>3, <1>4 DEF OneInRing, InRing

(* Nothing moves when the ring is left alone. *)
LEMMA SamePlaces ==
    ASSUME UNCHANGED <<sq, inflight, cq>>
    PROVE  /\ OneInRing <=> OneInRing'
           /\ \A n : InSQ(n)' <=> InSQ(n)
           /\ \A n, k : InKernel(n, k)' <=> InKernel(n, k)
BY DEF OneInRing, OneSQE, OneCQE, InSQ, InKernel
=============================================================================
