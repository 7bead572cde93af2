------------------------- MODULE NetEventLoopProofs -------------------------
(***************************************************************************)
(* Safety of an event loop of NetworkReactor for every number of clients   *)
(* and of requests, every capacity of reqBuss and every size of the ring   *)
(* and of the batch. The inductive invariant is IInv of NetEventLoop. What *)
(* the steps do to the ring is the subject of RingServiceTheorems.         *)
(***************************************************************************)
EXTENDS NetEventLoop, RingServiceTheorems

LEMMA Constants ==
    /\ MaxNonce \in Nat /\ MaxCancels \in Nat /\ BusCap \in Nat
    /\ timeoutNonce \notin Nonce /\ cancelNonce \notin Nonce /\ 0 \notin Nonce
    /\ cancelNonce # 0 /\ NoRequest.id = 0
    /\ \A m \in 0 .. MaxNonce : m < MaxNonce => m + 1 \in Nonce /\ m + 1 \in 0 .. MaxNonce
BY RingAssumption, RingConstants, NetAssumption DEF NoRequest, Nonce, cancelNonce

(* What Queue and Cancel send. *)
LEMMA RequestTyped ==
    ASSUME NEW n \in Nonce
    PROVE  /\ \A r \in Requests(n) : r \in Request /\ r.id = n /\ r # NoRequest /\ Shape(r.sqes, n)
           /\ LET r == [id |-> cancelNonce, sqes |-> Cancellation(n)]
              IN  r \in Request /\ r # NoRequest /\ r.id = cancelNonce /\ Shape(r.sqes, cancelNonce)
<1>1. /\ Shape(Operation(n), n) /\ Shape(OperationWithTimeout(n), n)
      /\ Shape(Cancellation(n), cancelNonce)
  BY Shapes
<1>2. \A s, u : Shape(s, u) => s \in Seq(SQE)
  BY DEF Shape
<1>3. ASSUME NEW u \in Nonce \cup {cancelNonce}, NEW s, Shape(s, u)
      PROVE  LET r == [id |-> u, sqes |-> s]
             IN  r \in Request /\ r.id = u /\ r.sqes = s /\ r # NoRequest
  BY <1>2, <1>3, Constants DEF Request
<1>4. \A r \in Requests(n) : r \in Request /\ r.id = n /\ r # NoRequest /\ Shape(r.sqes, n)
  <2> SUFFICES ASSUME NEW s \in {Operation(n), OperationWithTimeout(n)}
               PROVE  LET r == [id |-> n, sqes |-> s]
                      IN  r \in Request /\ r.id = n /\ r # NoRequest /\ Shape(r.sqes, n)
    BY DEF Requests
  <2> QED BY <1>1, <1>3
<1> QED BY <1>1, <1>3, <1>4

LEMMA SoundTyped ==
    ASSUME NEW r, NEW m \in 0 .. MaxNonce, Sound(r, m)
    PROVE  r \in Request /\ Shape(r.sqes, r.id)
<1>1. 1 .. m \subseteq Nonce
  BY RingConstants DEF Nonce
<1>2. CASE r.id \in 1 .. m /\ r \in Requests(r.id)
  <2>1. r.id \in Nonce
    BY <1>1, <1>2
  <2> QED BY <1>2, <2>1, RequestTyped
<1>3. ASSUME NEW n \in Nonce, r = [id |-> cancelNonce, sqes |-> Cancellation(n)]
      PROVE  r \in Request /\ Shape(r.sqes, r.id)
  BY <1>3, RequestTyped
<1> QED BY <1>2, <1>3 DEF Sound

LEMMA SoundStays ==
    ASSUME NEW r, NEW m \in Nat, NEW k \in Nat, m <= k, Sound(r, m)
    PROVE  Sound(r, k)
<1>1. 1 .. m \subseteq 1 .. k
  OBVIOUS
<1> QED BY <1>1 DEF Sound

(* reqBuss. *)
LEMMA BusAppend ==
    ASSUME reqBuss \in Seq(Request), NEW r \in Request, reqBuss' = Append(reqBuss, r)
    PROVE  /\ reqBuss' \in Seq(Request) /\ Len(reqBuss') = Len(reqBuss) + 1 /\ Len(reqBuss) \in Nat
           /\ \A i \in 1 .. Len(reqBuss) : i \in 1 .. Len(reqBuss') /\ reqBuss'[i] = reqBuss[i]
           /\ \A i \in 1 .. Len(reqBuss') :
                 i \in 1 .. Len(reqBuss) \/ i = Len(reqBuss) + 1
           /\ reqBuss'[Len(reqBuss) + 1] = r
           /\ \A n : OnBus(n)' => OnBus(n) \/ n = r.id
<1>1. /\ reqBuss' \in Seq(Request) /\ Len(reqBuss') = Len(reqBuss) + 1 /\ Len(reqBuss) \in Nat
      /\ \A i \in 1 .. Len(reqBuss) : i \in 1 .. Len(reqBuss') /\ reqBuss'[i] = reqBuss[i]
      /\ \A i \in 1 .. Len(reqBuss') :
            i \in 1 .. Len(reqBuss) \/ i = Len(reqBuss) + 1
      /\ reqBuss'[Len(reqBuss) + 1] = r
  <2>1. /\ reqBuss' \in Seq(Request) /\ Len(reqBuss') = Len(reqBuss) + 1 /\ Len(reqBuss) \in Nat
    OBVIOUS
  <2>2. /\ reqBuss'[Len(reqBuss) + 1] = r
        /\ \A i \in 1 .. Len(reqBuss) : reqBuss'[i] = reqBuss[i]
    OBVIOUS
  <2>3. \A i \in 1 .. Len(reqBuss) : i \in 1 .. Len(reqBuss')
    BY <2>1
  <2>4. \A i \in 1 .. Len(reqBuss') : i \in 1 .. Len(reqBuss) \/ i = Len(reqBuss) + 1
    BY <2>1
  <2> QED BY <2>1, <2>2, <2>3, <2>4, Zenon
<1> QED BY <1>1 DEF OnBus

LEMMA BusTail ==
    ASSUME reqBuss \in Seq(Request), reqBuss # << >>, reqBuss' = Tail(reqBuss)
    PROVE  /\ reqBuss' \in Seq(Request) /\ Len(reqBuss') = Len(reqBuss) - 1
           /\ Len(reqBuss) \in Nat \ {0}
           /\ \A i \in 1 .. Len(reqBuss') : i + 1 \in 1 .. Len(reqBuss) /\ reqBuss'[i] = reqBuss[i + 1]
           /\ Head(reqBuss) = reqBuss[1] /\ 1 \in 1 .. Len(reqBuss) /\ Head(reqBuss) \in Request
           /\ OnBus(Head(reqBuss).id)
           /\ \A n : OnBus(n)' => OnBus(n)
<1>1. /\ reqBuss' \in Seq(Request) /\ Len(reqBuss') = Len(reqBuss) - 1
      /\ Len(reqBuss) \in Nat \ {0}
      /\ \A i \in 1 .. Len(reqBuss') : i + 1 \in 1 .. Len(reqBuss) /\ reqBuss'[i] = reqBuss[i + 1]
      /\ Head(reqBuss) = reqBuss[1] /\ 1 \in 1 .. Len(reqBuss) /\ Head(reqBuss) \in Request
  OBVIOUS
<1> QED BY <1>1 DEF OnBus

(* The publisher takes an id off the bus. *)
LEMMA HeadLeaves ==
    ASSUME reqBuss \in Seq(Request), reqBuss # << >>, reqBuss' = Tail(reqBuss), OneRequest,
           NEW n \in Nonce, OnBus(n)'
    PROVE  n # Head(reqBuss).id
<1>1. PICK i \in 1 .. Len(reqBuss') : reqBuss'[i].id = n
  BY DEF OnBus
<1>2. i + 1 \in 1 .. Len(reqBuss) /\ reqBuss[i + 1].id = n /\ i + 1 # 1
  BY <1>1, BusTail
<1> QED BY <1>2, BusTail DEF OneRequest

-----------------------------------------------------------------------------
(* Steps that neither move a request nor touch its callback. *)
Quiet ==
    /\ UNCHANGED <<sq, inflight, armed, cq, registry, dropped, client, nextID, reqBuss, sending>>
    /\ chain' \in {chain, 0}
    /\ \/ UNCHANGED <<consumer, batch>>
       \/ {consumer, consumer'} \cap {"handle", "callback"} = {}

LEMMA Effects ==
    ASSUME [Next]_vars
    PROVE  \/ \E c \in Clients : CallQueue(c) \/ (\E n \in Nonce : CallCancel(c, n)) \/ Send(c)
           \/ Receive \/ Signal \/ TakeSQE \/ SkipReserved \/ RunCallback \/ CallbackSends
           \/ AdvanceCQ \/ (\E n \in Nonce : Complete(n))
           \/ Quiet
<1> USE DEF Quiet, ringVars, table, clients, cons, pub
<1>1. CASE SwapSubmitAllowed
  BY <1>1 DEF SwapSubmitAllowed
<1>2. CASE SubmitAll \/ SubmitRefused \/ SubmitNotRetried
  BY <1>2 DEF SubmitAll, SubmitRefused, SubmitNotRetried, SubmitReturn, EndSubmit
<1>3. CASE StopPublisher
  BY <1>3 DEF StopPublisher
<1>4. CASE WaitSucceeds \/ WaitFails \/ Continue
  BY <1>4 DEF WaitSucceeds, WaitFails, Continue, ConsumerGoto
<1>5. CASE StopConsumer
  BY <1>5 DEF StopConsumer
<1>6. CASE CancelContext
  BY <1>6 DEF CancelContext
<1>7. Crash => Quiet
  BY DEF Crash
<1>8. CASE UNCHANGED vars
  BY <1>8 DEF vars
<1> HIDE DEF Quiet, ringVars, table, clients, cons, pub
<1> QED BY <1>1, <1>2, <1>3, <1>4, <1>5, <1>6, <1>7, <1>8
        DEF Next, PublisherStep, ConsumerStep, SendPanics, NilCallback

-----------------------------------------------------------------------------
(* The parts of IInv, each kept by every step.                             *)

(* Run stops the consumer before the publisher. *)
LEMMA StopStep ==
    ASSUME IInv, [Next]_vars
    PROVE  StopOrder'
<1>0. StopOrder
  BY DEF IInv
<1> USE DEF StopOrder, cons, pub
<1>1. ASSUME UNCHANGED <<consumer, publisher, run>> PROVE StopOrder'
  BY <1>0, <1>1
<1>2. ASSUME NEW c \in Clients, NEW n \in Nonce, CallQueue(c) \/ CallCancel(c, n) \/ Send(c)
      PROVE  UNCHANGED <<consumer, publisher, run>>
  BY <1>2 DEF CallQueue, CallCancel, Send
<1>3. CASE Crash
  BY <1>0, <1>3 DEF Crash
<1>4. ASSUME Receive \/ TakeSQE \/ SkipReserved PROVE UNCHANGED <<consumer, publisher, run>>
  BY <1>4 DEF Receive, TakeSQE, SkipReserved
<1>5. CASE Signal
  BY <1>0, <1>5 DEF Signal
<1>6. CASE SwapSubmitAllowed
  BY <1>0, <1>6 DEF SwapSubmitAllowed
<1>7. CASE SubmitAll \/ SubmitRefused \/ SubmitNotRetried
  BY <1>0, <1>7 DEF SubmitAll, SubmitRefused, SubmitNotRetried, SubmitReturn
<1>8. CASE StopPublisher
  BY <1>0, <1>8 DEF StopPublisher
<1>9. CASE WaitSucceeds \/ WaitFails \/ Continue
  BY <1>0, <1>9 DEF WaitSucceeds, WaitFails, Continue, ConsumerGoto
<1>10. CASE RunCallback
  BY <1>0, <1>10 DEF RunCallback, Handling
<1>11. CASE CallbackSends
  BY <1>0, <1>11 DEF CallbackSends
<1>12. CASE AdvanceCQ
  BY <1>0, <1>12 DEF AdvanceCQ
<1>13. CASE StopConsumer
  BY <1>0, <1>13 DEF StopConsumer
<1>14. CASE CancelContext
  BY <1>0, <1>14 DEF CancelContext
<1>15. ASSUME NEW n \in Nonce, Complete(n) PROVE UNCHANGED <<consumer, publisher, run>>
  BY <1>15 DEF Complete
<1>16. CASE UNCHANGED vars
  BY <1>1, <1>16 DEF vars
<1>17. \E n \in Nonce : TRUE
  BY RingAssumption DEF Nonce
<1> HIDE DEF StopOrder, cons, pub
<1> QED BY <1>1, <1>2, <1>3, <1>4, <1>5, <1>6, <1>7, <1>8, <1>9, <1>10, <1>11, <1>12, <1>13,
           <1>14, <1>15, <1>16, <1>17
        DEF Next, PublisherStep, ConsumerStep, SendPanics, NilCallback

(* Only a callback sends in the consumer. *)
LEMMA SendingStep ==
    ASSUME IInv, [Next]_vars
    PROVE  CallbackSending'
<1>0. CallbackSending /\ nextID \in 0 .. MaxNonce
  BY DEF IInv, TypeOK
<1>1. ASSUME UNCHANGED <<consumer, sending>> PROVE CallbackSending'
  BY <1>0, <1>1 DEF CallbackSending
<1>2. ASSUME NEW c \in Clients, NEW n \in Nonce, CallQueue(c) \/ CallCancel(c, n) \/ Send(c)
      PROVE  UNCHANGED <<consumer, sending>>
  BY <1>2 DEF CallQueue, CallCancel, Send, cons
<1>3. ASSUME Receive \/ TakeSQE \/ SkipReserved PROVE UNCHANGED <<consumer, sending>>
  BY <1>3 DEF Receive, TakeSQE, SkipReserved, cons
<1>4. CASE Signal
  BY <1>0, <1>4 DEF Signal, PeekBatch, CallbackSending
<1>5. CASE RunCallback
  <2>1. CASE UNCHANGED <<nextID, consumer, sending>>
    BY <1>1, <2>1
  <2>2. CASE nextID < MaxNonce /\ sending' \in Requests(nextID + 1) /\ consumer' = "callback"
    <3>1. nextID + 1 \in Nonce
      BY <1>0, <2>2, Constants
    <3> QED BY <2>2, <3>1, RequestTyped DEF CallbackSending
  <2> QED BY <1>5, <2>1, <2>2 DEF RunCallback
<1>6. CASE CallbackSends
  BY <1>6 DEF CallbackSends, CallbackSending
<1>7. CASE AdvanceCQ
  BY <1>0, <1>7 DEF AdvanceCQ, PeekBatch, CallbackSending
<1>8. ASSUME NEW n \in Nonce, Complete(n) PROVE UNCHANGED <<consumer, sending>>
  BY <1>8 DEF Complete, cons
<1>9. CASE Quiet
  BY <1>0, <1>9 DEF Quiet, CallbackSending
<1>10. \E n \in Nonce : TRUE
  BY RingAssumption DEF Nonce
<1> QED BY <1>1, <1>2, <1>3, <1>4, <1>5, <1>6, <1>7, <1>8, <1>9, <1>10, Effects

(* The ring. *)
LEMMA RingStep ==
    ASSUME IInv, [Next]_vars
    PROVE  RingTypeOK' /\ OneInRing'
<1>0. RingTypeOK /\ OneInRing /\ reqBuss \in Seq(Request)
  BY DEF IInv, TypeOK
<1>1. CASE Receive
  <2> DEFINE r == Head(reqBuss)
  <2>1. /\ reqBuss # << >> /\ reqBuss' = Tail(reqBuss) /\ QueueUpTo(r.sqes)
    BY <1>1 DEF Receive
  <2>2. r = reqBuss[1] /\ 1 \in 1 .. Len(reqBuss) /\ OnBus(r.id)
    BY <1>0, <2>1, BusTail
  <2>3. Sound(r, nextID) /\ nextID \in 0 .. MaxNonce
    BY <2>2 DEF IInv, TypeOK, AllSound
  <2>4. r.id \in Nonce => ~InRing(r.id)
    BY <2>2 DEF IInv, NotQueued
  <2>5. Shape(r.sqes, r.id)
    BY <2>3, SoundTyped
  <2> HIDE DEF r
  <2> QED BY <1>0, <2>1, <2>4, <2>5, QueuePlaces
<1>2. ASSUME NEW n \in Nonce, Complete(n) PROVE RingTypeOK' /\ OneInRing'
  BY <1>0, <1>2, CompletePlaces DEF Complete
<1>3. CASE TakeSQE
  BY <1>0, <1>3, TakePlaces DEF TakeSQE
<1>4. CASE AdvanceCQ
  BY <1>0, <1>4, AdvancePlaces DEF AdvanceCQ, IInv, TypeOK, BatchInside
<1>5. ASSUME UNCHANGED <<sq, inflight, armed, cq>>, chain' \in {chain, 0}
      PROVE  RingTypeOK' /\ OneInRing'
  BY <1>0, <1>5, SamePlaces DEF RingTypeOK
<1>6. ASSUME NEW c \in Clients, NEW n \in Nonce, CallQueue(c) \/ CallCancel(c, n) \/ Send(c)
      PROVE  UNCHANGED ringVars
  BY <1>6 DEF CallQueue, CallCancel, Send
<1>7. ASSUME Signal \/ SkipReserved \/ RunCallback \/ CallbackSends PROVE UNCHANGED ringVars
  BY <1>7 DEF Signal, SkipReserved, RunCallback, CallbackSends
<1>8. UNCHANGED ringVars => RingTypeOK' /\ OneInRing'
  BY <1>5 DEF ringVars
<1>9. Quiet => RingTypeOK' /\ OneInRing'
  BY <1>5 DEF Quiet
<1>10. \E n \in Nonce : TRUE
  BY RingAssumption DEF Nonce
<1> QED BY <1>1, <1>2, <1>3, <1>4, <1>6, <1>7, <1>8, <1>9, <1>10, Effects

(* The batch stays at the front of cq. *)
LEMMA BatchStep ==
    ASSUME IInv, [Next]_vars
    PROVE  BatchInside'
<1>0. /\ RingTypeOK /\ RingTypeOK' /\ OneInRing /\ BatchInside
      /\ Len(cq) \in Nat /\ Len(cq') \in Nat /\ batch \in [left : Nat, size : Nat]
  BY RingStep DEF IInv, TypeOK, RingTypeOK
<1>1. ASSUME UNCHANGED <<consumer, batch>>, Len(cq) <= Len(cq') PROVE BatchInside'
  BY <1>0, <1>1 DEF BatchInside
<1>2. ASSUME PeekBatch(cq') PROVE BatchInside'
  <2>1. BatchCount(cq') \in Nat /\ BatchCount(cq') <= Len(cq')
    BY <1>0, RingConstants DEF BatchCount
  <2> QED BY <1>2, <2>1 DEF BatchInside, PeekBatch
<1>3. ASSUME NEW c \in Clients, NEW n \in Nonce, CallQueue(c) \/ CallCancel(c, n) \/ Send(c)
      PROVE  UNCHANGED <<consumer, batch, cq>>
  BY <1>3 DEF CallQueue, CallCancel, Send, cons, ringVars
<1>4. ASSUME NEW n \in Nonce, Complete(n) PROVE BatchInside'
  BY <1>0, <1>1, <1>4, CompletePlaces DEF Complete, cons
<1>5. CASE TakeSQE
  BY <1>0, <1>1, <1>5, TakePlaces DEF TakeSQE, cons
<1>6. CASE AdvanceCQ
  BY <1>2, <1>6 DEF AdvanceCQ
<1>7. CASE Signal
  <2>1. CASE consumer' = "wait"
    BY <2>1 DEF BatchInside
  <2> QED BY <1>2, <1>7, <2>1 DEF Signal, ringVars
<1>8. CASE SkipReserved \/ RunCallback
  <2>1. /\ consumer = "handle" /\ UNCHANGED cq /\ batch.left > 0
        /\ batch'.left = batch.left - 1 /\ batch'.size = batch.size
    BY <1>0, <1>8 DEF SkipReserved, RunCallback, Handling, HandleNext, ringVars
  <2> QED BY <1>0, <2>1 DEF BatchInside
<1>9. CASE CallbackSends
  BY <1>0, <1>9 DEF CallbackSends, BatchInside, ringVars
<1>10. CASE Quiet
  BY <1>0, <1>10 DEF Quiet, BatchInside
<1>11. \E n \in Nonce : TRUE
  BY RingAssumption DEF Nonce
<1>12. UNCHANGED <<consumer, batch, cq>> => BatchInside'
  BY <1>0 DEF BatchInside
<1>13. CASE Receive
  BY <1>12, <1>13 DEF Receive, QueueUpTo, cons
<1> QED BY <1>3, <1>4, <1>5, <1>6, <1>7, <1>8, <1>9, <1>10, <1>11, <1>12, <1>13, Effects

(* Types. *)
LEMMA TypeStep ==
    ASSUME IInv, [Next]_vars
    PROVE  TypeOK'
<1>0. TypeOK /\ RingTypeOK' /\ AllSound
  BY RingStep DEF IInv
<1> USE <1>0, Constants DEF TypeOK, table, clients, cons, pub
<1>1. ASSUME NEW c \in Clients, CallQueue(c) PROVE TypeOK'
  <2>1. nextID' \in Nonce /\ nextID' \in 0 .. MaxNonce
    BY <1>1 DEF CallQueue
  <2>2. PICK r \in Requests(nextID') : client' = [client EXCEPT ![c] = r]
    BY <1>1 DEF CallQueue
  <2>3. client' \in [Clients -> Request \cup {NoRequest}]
    BY <2>1, <2>2, RequestTyped
  <2> QED BY <1>1, <2>1, <2>3 DEF CallQueue
<1>2. ASSUME NEW c \in Clients, NEW n \in Nonce, CallCancel(c, n) PROVE TypeOK'
  <2>1. client' \in [Clients -> Request \cup {NoRequest}]
    BY <1>2, RequestTyped DEF CallCancel
  <2>2. cancels' \in 0 .. MaxCancels
    BY <1>2 DEF CallCancel
  <2> QED BY <1>2, <2>1, <2>2 DEF CallCancel
<1>3. ASSUME NEW c \in Clients, Send(c) PROVE TypeOK'
  <2>1. client[c] \in Request /\ reqBuss' = Append(reqBuss, client[c]) /\ Len(reqBuss) < BusCap
    BY <1>3 DEF Send, CanSend
  <2>2. reqBuss' \in Seq(Request) /\ Len(reqBuss') <= BusCap
    BY <2>1, BusAppend
  <2>3. client' \in [Clients -> Request \cup {NoRequest}]
    BY <1>3 DEF Send
  <2> QED BY <1>3, <2>2, <2>3 DEF Send
<1>4. CASE Crash
  BY <1>4 DEF Crash
<1>5. CASE Receive
  <2>1. reqBuss' \in Seq(Request) /\ Len(reqBuss') <= BusCap
    BY <1>5, BusTail DEF Receive
  <2>2. registry' \subseteq Nonce /\ dropped' \subseteq Nonce
    BY <1>5 DEF Receive
  <2> QED BY <1>5, <2>1, <2>2 DEF Receive
<1>6. BatchCount(cq) \in Nat /\ BatchCount(cq') \in Nat
  BY RingConstants DEF BatchCount, RingTypeOK
<1>7. CASE Signal
  <2>1. /\ batch' \in [left : Nat, size : Nat]
        /\ consumer' \in {"wait", "check", "handle"}
    BY <1>6, <1>7 DEF Signal, PeekBatch
  <2> QED BY <1>7, <2>1 DEF Signal
<1>8. CASE SwapSubmitAllowed
  BY <1>8 DEF SwapSubmitAllowed
<1>9. CASE TakeSQE
  BY <1>9 DEF TakeSQE
<1>10. CASE SubmitAll \/ SubmitRefused \/ SubmitNotRetried
  BY <1>10 DEF SubmitAll, SubmitRefused, SubmitNotRetried, SubmitReturn
<1>11. CASE StopPublisher
  BY <1>11 DEF StopPublisher
<1>12. CASE WaitSucceeds \/ WaitFails \/ Continue
  BY <1>12 DEF WaitSucceeds, WaitFails, Continue, ConsumerGoto
<1>13. ASSUME Handling, HandleNext PROVE batch' \in [left : Nat, size : Nat]
  BY <1>13 DEF Handling, HandleNext
<1>14. CASE SkipReserved
  BY <1>13, <1>14 DEF SkipReserved
<1>15. CASE RunCallback
  <2>1. batch' \in [left : Nat, size : Nat] /\ CurrentCQE \in Nonce
    BY <1>13, <1>15 DEF RunCallback
  <2>2. CASE registry' = registry \ {CurrentCQE} /\ UNCHANGED <<nextID, consumer, sending>>
    BY <1>15, <2>1, <2>2 DEF RunCallback
  <2>3. CASE /\ nextID < MaxNonce /\ nextID' = nextID + 1 /\ consumer' = "callback"
             /\ registry' = (registry \ {CurrentCQE}) \cup {nextID'}
             /\ sending' \in Requests(nextID')
    <3>1. nextID' \in Nonce /\ nextID' \in 0 .. MaxNonce
      BY <2>3
    <3>2. sending' \in Request /\ registry' \subseteq Nonce
      BY <2>3, <3>1, RequestTyped
    <3> QED BY <1>15, <2>1, <2>3, <3>1, <3>2 DEF RunCallback
  <2> QED BY <1>15, <2>2, <2>3 DEF RunCallback
<1>16. CASE CallbackSends
  <2>1. sending \in Request /\ reqBuss' = Append(reqBuss, sending) /\ Len(reqBuss) < BusCap
    BY <1>16 DEF CallbackSends, CanSend, IInv, CallbackSending
  <2>2. reqBuss' \in Seq(Request) /\ Len(reqBuss') = Len(reqBuss) + 1 /\ Len(reqBuss) \in Nat
    BY <2>1, BusAppend
  <2>3. Len(reqBuss') <= BusCap
    BY <2>1, <2>2
  <2> QED BY <1>16, <2>2, <2>3 DEF CallbackSends
<1>17. CASE AdvanceCQ
  <2>1. batch' \in [left : Nat, size : Nat] /\ consumer' \in {"check", "handle"}
    BY <1>6, <1>17 DEF AdvanceCQ, PeekBatch
  <2> QED BY <1>17, <2>1 DEF AdvanceCQ
<1>18. CASE StopConsumer
  BY <1>18 DEF StopConsumer
<1>19. CASE CancelContext
  BY <1>19 DEF CancelContext
<1>20. ASSUME NEW n \in Nonce, Complete(n) PROVE TypeOK'
  BY <1>20 DEF Complete
<1>21. CASE UNCHANGED vars
  BY <1>21 DEF vars
<1> HIDE DEF TypeOK, table, clients, cons, pub
<1> QED BY <1>1, <1>2, <1>3, <1>4, <1>5, <1>7, <1>8, <1>9, <1>10, <1>11, <1>12, <1>14, <1>15,
           <1>16, <1>17, <1>18, <1>19, <1>20, <1>21
        DEF Next, PublisherStep, ConsumerStep, SendPanics, NilCallback

(* What is on its way was made by Queue or by Cancel. *)
LEMMA SoundStep ==
    ASSUME IInv, [Next]_vars
    PROVE  AllSound'
<1>0. /\ AllSound /\ nextID \in 0 .. MaxNonce /\ reqBuss \in Seq(Request)
      /\ client \in [Clients -> Request \cup {NoRequest}] /\ sending \in Request \cup {NoRequest}
  BY DEF IInv, TypeOK
<1>1. ASSUME UNCHANGED <<client, nextID, reqBuss, sending>> PROVE AllSound'
  BY <1>0, <1>1 DEF AllSound
<1>2. ASSUME NEW r, Sound(r, nextID), nextID' = nextID + 1 PROVE Sound(r, nextID')
  BY <1>0, <1>2, SoundStays
<1>3. ASSUME nextID < MaxNonce, NEW r \in Requests(nextID + 1) PROVE Sound(r, nextID + 1)
  <2>1. nextID + 1 \in Nonce /\ nextID + 1 \in 1 .. nextID + 1
    BY <1>0, <1>3, Constants
  <2>2. r.id = nextID + 1
    BY <2>1, RequestTyped
  <2> QED BY <2>1, <2>2 DEF Sound
<1>4. ASSUME NEW c \in Clients, CallQueue(c) PROVE AllSound'
  <2>1. /\ nextID < MaxNonce /\ nextID' = nextID + 1 /\ UNCHANGED <<reqBuss, sending>>
        /\ client'[c] \in Requests(nextID + 1)
        /\ \A d \in Clients : d # c => client'[d] = client[d]
    BY <1>0, <1>4 DEF CallQueue, cons
  <2>2. Sound(client'[c], nextID')
    BY <1>3, <2>1
  <2> QED BY <1>0, <1>2, <2>1, <2>2 DEF AllSound
<1>5. ASSUME NEW c \in Clients, NEW n \in Nonce, CallCancel(c, n) PROVE AllSound'
  <2>1. /\ UNCHANGED <<nextID, reqBuss, sending>>
        /\ client'[c] = [id |-> cancelNonce, sqes |-> Cancellation(n)]
        /\ \A d \in Clients : d # c => client'[d] = client[d]
    BY <1>0, <1>5 DEF CallCancel, cons
  <2>2. Sound(client'[c], nextID')
    BY <2>1 DEF Sound
  <2> QED BY <1>0, <2>1, <2>2 DEF AllSound
<1>6. ASSUME NEW r \in Request, Sound(r, nextID), reqBuss' = Append(reqBuss, r), UNCHANGED nextID
      PROVE  \A i \in 1 .. Len(reqBuss') : Sound(reqBuss'[i], nextID')
  BY <1>0, <1>6, BusAppend DEF AllSound
<1>7. ASSUME NEW c \in Clients, Send(c) PROVE AllSound'
  <2>1. /\ client[c] # NoRequest /\ reqBuss' = Append(reqBuss, client[c])
        /\ UNCHANGED <<nextID, sending>> /\ client'[c] = NoRequest
        /\ \A d \in Clients : d # c => client'[d] = client[d]
    BY <1>0, <1>7 DEF Send, cons
  <2>2. client[c] \in Request /\ Sound(client[c], nextID)
    BY <1>0, <2>1 DEF AllSound
  <2> QED BY <1>0, <1>6, <2>1, <2>2 DEF AllSound
<1>8. CASE CallbackSends
  <2>1. /\ reqBuss' = Append(reqBuss, sending) /\ UNCHANGED <<nextID, client>>
        /\ sending' = NoRequest /\ sending # NoRequest
    BY <1>8 DEF CallbackSends, clients, IInv, CallbackSending
  <2>2. sending \in Request /\ Sound(sending, nextID)
    BY <1>0, <2>1 DEF AllSound
  <2> QED BY <1>0, <1>6, <2>1, <2>2 DEF AllSound
<1>9. CASE Receive
  <2>1. /\ reqBuss # << >> /\ reqBuss' = Tail(reqBuss) /\ UNCHANGED <<client, nextID, sending>>
    BY <1>9 DEF Receive, clients, cons
  <2>2. \A i \in 1 .. Len(reqBuss') : i + 1 \in 1 .. Len(reqBuss) /\ reqBuss'[i] = reqBuss[i + 1]
    BY <1>0, <2>1, BusTail
  <2>3. \A i \in 1 .. Len(reqBuss') : Sound(reqBuss'[i], nextID)
    BY <1>0, <2>2 DEF AllSound
  <2> QED BY <1>0, <2>1, <2>3 DEF AllSound
<1>10. CASE RunCallback
  <2>1. CASE UNCHANGED <<nextID, sending>>
    BY <1>1, <1>10, <2>1 DEF RunCallback
  <2>2. CASE nextID < MaxNonce /\ nextID' = nextID + 1 /\ sending' \in Requests(nextID')
    <3>1. Sound(sending', nextID') /\ UNCHANGED <<client, reqBuss>>
      BY <1>3, <1>10, <2>2 DEF RunCallback
    <3> QED BY <1>0, <1>2, <2>2, <3>1 DEF AllSound
  <2> QED BY <1>10, <2>1, <2>2 DEF RunCallback
<1>11. ASSUME Signal \/ TakeSQE \/ SkipReserved \/ AdvanceCQ \/ Quiet
       PROVE  UNCHANGED <<client, nextID, reqBuss, sending>>
  BY <1>11 DEF Signal, TakeSQE, SkipReserved, AdvanceCQ, Quiet, clients, cons
<1>12. ASSUME NEW n \in Nonce, Complete(n) PROVE UNCHANGED <<client, nextID, reqBuss, sending>>
  BY <1>12 DEF Complete, clients, cons
<1> QED BY <1>1, <1>4, <1>5, <1>7, <1>8, <1>9, <1>10, <1>11, <1>12, Effects

(* The id that Queue gets next is nowhere yet. *)
LEMMA FreshID ==
    ASSUME IInv, nextID < MaxNonce
    PROVE  /\ nextID + 1 \in Nonce /\ nextID + 1 <= nextID + 1
           /\ ~Sending(nextID + 1) /\ ~OnBus(nextID + 1) /\ ~InRing(nextID + 1)
           /\ \A n \in Nonce : n <= nextID => n <= nextID + 1
<1>1. nextID \in 0 .. MaxNonce /\ nextID \in Nat /\ HandedOut
  BY Constants DEF IInv, TypeOK
<1>2. nextID + 1 \in Nonce /\ nextID + 1 <= nextID + 1 /\ ~(nextID + 1 <= nextID)
  BY <1>1, Constants
<1>3. \A n \in Nonce : n <= nextID => n <= nextID + 1
  BY <1>1 DEF Nonce
<1> QED BY <1>1, <1>2, <1>3 DEF HandedOut

(* No id is at two places on the way to the ring, or there and in it. *)
LEMMA PlaceStep ==
    ASSUME IInv, [Next]_vars
    PROVE  OneRequest' /\ NotQueued' /\ HandedOut'
<1>0. /\ RingTypeOK /\ OneInRing /\ OneRequest /\ NotQueued /\ HandedOut
      /\ client \in [Clients -> Request \cup {NoRequest}]
      /\ sending \in Request \cup {NoRequest} /\ reqBuss \in Seq(Request)
      /\ 0 \in 0 .. Len(cq)
  BY DEF IInv, TypeOK, RingTypeOK
<1>a. ASSUME UNCHANGED <<sq, inflight, cq>>, NEW n PROVE InRing(n)' <=> InRing(n)
  BY <1>a, SamePlaces DEF InRing
<1>b. ASSUME UNCHANGED <<client, sending, reqBuss, nextID>>, \A n \in Nonce : InRing(n)' => InRing(n)
      PROVE  OneRequest' /\ NotQueued' /\ HandedOut'
  <2>1. \A n : (Sending(n)' <=> Sending(n)) /\ (OnBus(n)' <=> OnBus(n))
    BY <1>b DEF Sending, OnBus
  <2>2. OneRequest'
    BY <1>0, <1>b, <2>1 DEF OneRequest
  <2> QED BY <1>0, <1>b, <2>1, <2>2 DEF NotQueued, HandedOut
(* What is left to show when the ring stays and the ids there are the old ones and u. *)
<1>c. ASSUME NEW u, UNCHANGED <<sq, inflight, cq>>, OneRequest',
             u \in Nonce => ~InRing(u) /\ u <= nextID',
             \A n \in Nonce : n <= nextID => n <= nextID',
             \A n \in Nonce : Sending(n)' \/ OnBus(n)' => Sending(n) \/ OnBus(n) \/ n = u
      PROVE  OneRequest' /\ NotQueued' /\ HandedOut'
  <2>1. NotQueued'
    BY <1>0, <1>a, <1>c DEF NotQueued
  <2>2. HandedOut'
    BY <1>0, <1>a, <1>c DEF HandedOut
  <2> QED BY <1>c, <2>1, <2>2
<1>1. ASSUME NEW c \in Clients, CallQueue(c) PROVE OneRequest' /\ NotQueued' /\ HandedOut'
  <2> DEFINE u == nextID + 1
  <2>1. /\ UNCHANGED <<sq, inflight, cq, reqBuss, sending>>
        /\ nextID < MaxNonce /\ nextID' = u /\ client'[c] \in Requests(u)
        /\ \A d \in Clients : d # c => client'[d] = client[d]
    BY <1>0, <1>1 DEF CallQueue, ringVars, cons
  <2>2. /\ u \in Nonce /\ u <= u /\ ~Sending(u) /\ ~OnBus(u) /\ ~InRing(u)
        /\ \A n \in Nonce : n <= nextID => n <= u
    BY <2>1, FreshID
  <2> HIDE DEF u
  <2>3. client'[c].id = u /\ u <= nextID'
    BY <2>1, <2>2, RequestTyped
  <2>4. \A n : (Sending(n)' => Sending(n) \/ n = u) /\ (OnBus(n)' <=> OnBus(n))
    BY <2>1, <2>3 DEF Sending, OnBus
  <2>5. \A d \in Clients : client[d].id # u
    BY <2>2 DEF Sending
  <2>6. OneRequest'
    <3>1. \A d, e \in Clients : client'[d].id \in Nonce /\ client'[d].id = client'[e].id => d = e
      BY <1>0, <2>1, <2>3, <2>5 DEF OneRequest
    <3>2. \A d \in Clients : client'[d].id \in Nonce => client'[d].id # sending'.id
      BY <1>0, <2>1, <2>2, <2>3 DEF OneRequest, Sending
    <3>3. \A n \in Nonce : Sending(n)' => ~OnBus(n)'
      BY <1>0, <2>2, <2>4 DEF OneRequest
    <3> QED BY <1>0, <2>1, <3>1, <3>2, <3>3 DEF OneRequest
  <2> QED BY <1>c, <2>1, <2>2, <2>3, <2>4, <2>6
<1>2. ASSUME NEW c \in Clients, NEW m \in Nonce, CallCancel(c, m)
      PROVE  OneRequest' /\ NotQueued' /\ HandedOut'
  <2>1. /\ UNCHANGED <<sq, inflight, cq, reqBuss, sending, nextID>> /\ client'[c].id \notin Nonce
        /\ \A d \in Clients : d # c => client'[d] = client[d]
    BY <1>0, <1>2, Constants DEF CallCancel, ringVars, cons
  <2>2. \A n \in Nonce : (Sending(n)' => Sending(n)) /\ (OnBus(n)' <=> OnBus(n))
    BY <2>1 DEF Sending, OnBus
  <2>3. OneRequest'
    BY <1>0, <2>1, <2>2 DEF OneRequest
  <2> QED BY <1>c, <2>1, <2>2, <2>3, Constants
(* A request that was with a client or the callback, and only there, is put on the bus. *)
<1>d. ASSUME NEW r \in Request, reqBuss' = Append(reqBuss, r), Sending(r.id),
             UNCHANGED <<sq, inflight, cq, nextID>>,
             \A n \in Nonce : Sending(n)' => Sending(n) /\ n # r.id,
             \A d \in Clients : client'[d].id \in Nonce => client'[d] = client[d],
             sending'.id \in Nonce => sending' = sending
      PROVE  OneRequest' /\ NotQueued' /\ HandedOut'
  <2>1. \A n : OnBus(n)' => OnBus(n) \/ n = r.id
    BY <1>0, <1>d, BusAppend
  <2>2. \A d, e \in Clients : client'[d].id \in Nonce /\ client'[d].id = client'[e].id => d = e
    BY <1>0, <1>d DEF OneRequest
  <2>3. \A d \in Clients : client'[d].id \in Nonce => client'[d].id # sending'.id
    BY <1>0, <1>d DEF OneRequest
  <2>4. \A n \in Nonce : Sending(n)' => ~OnBus(n)'
    BY <1>0, <1>d, <2>1 DEF OneRequest
  <2>5. \A i, j \in 1 .. Len(reqBuss') :
           reqBuss'[i].id \in Nonce /\ reqBuss'[i].id = reqBuss'[j].id => i = j
    <3>1. r.id \in Nonce => ~OnBus(r.id)
      BY <1>0, <1>d DEF OneRequest
    <3>2. /\ \A i \in 1 .. Len(reqBuss) : reqBuss'[i] = reqBuss[i]
          /\ \A i \in 1 .. Len(reqBuss') : i \in 1 .. Len(reqBuss) \/ i = Len(reqBuss) + 1
          /\ reqBuss'[Len(reqBuss) + 1] = r
      BY <1>0, <1>d, BusAppend
    <3>3. \A i \in 1 .. Len(reqBuss) : r.id \in Nonce => reqBuss[i].id # r.id
      BY <3>1 DEF OnBus
    <3>4. \A i, j \in 1 .. Len(reqBuss) :
             reqBuss[i].id \in Nonce /\ reqBuss[i].id = reqBuss[j].id => i = j
      BY <1>0 DEF OneRequest
    <3> QED BY <3>2, <3>3, <3>4
  <2>6. OneRequest'
    BY <2>2, <2>3, <2>4, <2>5 DEF OneRequest
  <2>7. \A n \in Nonce : Sending(n)' \/ OnBus(n)' => Sending(n) \/ OnBus(n)
    BY <1>d, <2>1
  <2> QED BY <1>c, <1>d, <2>6, <2>7, Constants
<1>3. ASSUME NEW c \in Clients, Send(c) PROVE OneRequest' /\ NotQueued' /\ HandedOut'
  <2>1. /\ UNCHANGED <<sq, inflight, cq, sending, nextID>> /\ client[c] \in Request
        /\ reqBuss' = Append(reqBuss, client[c]) /\ client'[c].id \notin Nonce
        /\ \A d \in Clients : d # c => client'[d] = client[d]
    BY <1>0, <1>3, Constants DEF Send, ringVars, cons
  <2>2. Sending(client[c].id)
    BY DEF Sending
  <2>3. \A n \in Nonce : Sending(n)' => Sending(n) /\ n # client[c].id
    BY <1>0, <2>1 DEF Sending, OneRequest
  <2> QED BY <1>d, <2>1, <2>2, <2>3
<1>4. CASE CallbackSends
  <2>1. /\ UNCHANGED <<sq, inflight, cq, client, nextID>> /\ sending \in Request
        /\ reqBuss' = Append(reqBuss, sending) /\ sending'.id \notin Nonce
    BY <1>0, <1>4, Constants DEF CallbackSends, ringVars, clients, IInv, CallbackSending
  <2>2. Sending(sending.id)
    BY DEF Sending
  <2>3. \A n \in Nonce : Sending(n)' => Sending(n) /\ n # sending.id
    BY <1>0, <2>1 DEF Sending, OneRequest
  <2> QED BY <1>d, <2>1, <2>2, <2>3
<1>5. CASE Receive
  <2> DEFINE r == Head(reqBuss)
  <2>1. /\ reqBuss # << >> /\ reqBuss' = Tail(reqBuss) /\ QueueUpTo(r.sqes)
        /\ UNCHANGED <<client, nextID, sending>>
    BY <1>5 DEF Receive, clients, cons
  <2>2. /\ r = reqBuss[1] /\ 1 \in 1 .. Len(reqBuss) /\ OnBus(r.id)
        /\ \A n : OnBus(n)' => OnBus(n)
        /\ \A i \in 1 .. Len(reqBuss') : i + 1 \in 1 .. Len(reqBuss) /\ reqBuss'[i] = reqBuss[i + 1]
    BY <1>0, <2>1, BusTail
  <2>3. \A n \in Nonce : OnBus(n)' => n # r.id
    BY <1>0, <2>1, HeadLeaves
  <2>4. Sound(r, nextID) /\ nextID \in 0 .. MaxNonce
    BY <2>2 DEF IInv, TypeOK, AllSound
  <2>5. Shape(r.sqes, r.id)
    BY <2>4, SoundTyped
  <2>6. r.id \in Nonce => ~InRing(r.id) /\ ~Sending(r.id) /\ r.id <= nextID
    BY <1>0, <2>2 DEF NotQueued, OneRequest, HandedOut
  <2> HIDE DEF r
  <2>7. /\ UNCHANGED <<inflight, cq>>
        /\ \A n \in Nonce : InSQ(n)' => InSQ(n) \/ n = r.id
    BY <1>0, <2>1, <2>5, <2>6, QueuePlaces
  <2>8. \A n \in Nonce : InRing(n)' => InRing(n) \/ n = r.id
    BY <2>7 DEF InRing, InKernel
  <2>9. \A n : Sending(n)' <=> Sending(n)
    BY <2>1 DEF Sending
  <2>10. OneRequest'
    <3>0. \A i, j \in 1 .. Len(reqBuss) :
             reqBuss[i].id \in Nonce /\ reqBuss[i].id = reqBuss[j].id => i = j
      BY <1>0 DEF OneRequest
    <3>1. \A i, j \in 1 .. Len(reqBuss') :
             reqBuss'[i].id \in Nonce /\ reqBuss'[i].id = reqBuss'[j].id => i + 1 = j + 1
      BY <2>2, <3>0
    <3>2. \A i, j \in 1 .. Len(reqBuss') :
             reqBuss'[i].id \in Nonce /\ reqBuss'[i].id = reqBuss'[j].id => i = j
      BY <3>1
    <3>3. \A n \in Nonce : Sending(n)' => ~OnBus(n)'
      BY <1>0, <2>2, <2>9 DEF OneRequest
    <3> QED BY <1>0, <2>1, <3>2, <3>3 DEF OneRequest
  <2>11. NotQueued'
    BY <1>0, <2>2, <2>3, <2>6, <2>8, <2>9 DEF NotQueued
  <2>12. HandedOut'
    BY <1>0, <2>1, <2>2, <2>6, <2>8, <2>9 DEF HandedOut
  <2> QED BY <2>10, <2>11, <2>12
<1>6. CASE RunCallback
  <2>1. CASE UNCHANGED <<nextID, sending>>
    BY <1>6, <1>a, <1>b, <2>1 DEF RunCallback, ringVars
  <2>2. CASE nextID < MaxNonce /\ nextID' = nextID + 1 /\ sending' \in Requests(nextID')
    <3> DEFINE u == nextID + 1
    <3>1. /\ UNCHANGED <<sq, inflight, cq, reqBuss, client>> /\ sending.id \notin Nonce
      BY <1>6, Constants DEF RunCallback, Handling, ringVars, IInv, CallbackSending
    <3>2. /\ u \in Nonce /\ u <= u /\ ~Sending(u) /\ ~OnBus(u) /\ ~InRing(u)
          /\ \A n \in Nonce : n <= nextID => n <= u
      BY <2>2, FreshID
    <3>3. nextID' = u /\ sending' \in Requests(u)
      BY <2>2
    <3> HIDE DEF u
    <3>4. sending'.id = u /\ u <= nextID'
      BY <3>2, <3>3, RequestTyped
    <3>5. \A n : (Sending(n)' => Sending(n) \/ n = u) /\ (OnBus(n)' <=> OnBus(n))
      BY <3>1, <3>4 DEF Sending, OnBus
    <3>6. OneRequest'
      <4>1. \A d \in Clients : client'[d].id # sending'.id
        BY <3>1, <3>2, <3>4 DEF Sending
      <4>2. \A n \in Nonce : Sending(n)' => ~OnBus(n)'
        BY <1>0, <3>2, <3>5 DEF OneRequest
      <4> QED BY <1>0, <3>1, <4>1, <4>2 DEF OneRequest
    <3>7. \A n \in Nonce : n <= nextID => n <= nextID'
      BY <3>2, <3>3
    <3> QED BY <1>c, <3>1, <3>2, <3>4, <3>5, <3>6, <3>7
  <2> QED BY <1>6, <2>1, <2>2 DEF RunCallback
<1>7. ASSUME NEW m \in Nonce, Complete(m) PROVE OneRequest' /\ NotQueued' /\ HandedOut'
  <2>1. UNCHANGED <<client, sending, reqBuss, nextID>> /\ CompleteRequest(m)
    BY <1>7 DEF Complete, clients, cons
  <2>2. UNCHANGED sq /\ \A n \in Nonce : InKernel(n, 0)' => InKernel(n, 0)
    BY <1>0, <2>1, CompletePlaces
  <2> QED BY <1>b, <2>1, <2>2 DEF InRing, InSQ
<1>8. CASE TakeSQE
  <2>1. UNCHANGED <<client, sending, reqBuss, nextID>> /\ TakeOne
    BY <1>8 DEF TakeSQE, clients, cons
  <2>2. \A m \in Nonce : (InSQ(m)' => InSQ(m)) /\ (InKernel(m, 0)' => InKernel(m, 0) \/ InSQ(m))
    BY <1>0, <2>1, TakePlaces
  <2> QED BY <1>b, <2>1, <2>2 DEF InRing
<1>9. CASE AdvanceCQ
  <2>1. /\ UNCHANGED <<client, sending, reqBuss, nextID>> /\ Advance(batch.size)
        /\ batch.size \in Nat /\ batch.size <= Len(cq)
    BY <1>9 DEF AdvanceCQ, clients, IInv, TypeOK, BatchInside
  <2>2. UNCHANGED sq /\ \A m \in Nonce : InKernel(m, 0)' => InKernel(m, 0)
    BY <1>0, <2>1, AdvancePlaces
  <2> QED BY <1>b, <2>1, <2>2 DEF InRing, InSQ
<1>10. ASSUME Signal \/ SkipReserved \/ Quiet
       PROVE  UNCHANGED <<sq, inflight, cq, client, sending, reqBuss, nextID>>
  BY <1>10 DEF Signal, SkipReserved, Quiet, ringVars, clients
<1> QED BY <1>1, <1>2, <1>3, <1>4, <1>5, <1>6, <1>7, <1>8, <1>9, <1>10, <1>a, <1>b, Effects

(* A request on its way has its callback. *)
LEMMA RegisteredStep ==
    ASSUME IInv, [Next]_vars
    PROVE  Registered'
<1>0. /\ RingTypeOK /\ OneInRing /\ Registered /\ NotQueued /\ BatchInside
      /\ Len(cq) \in Nat /\ batch \in [left : Nat, size : Nat] /\ reqBuss \in Seq(Request)
      /\ client \in [Clients -> Request \cup {NoRequest}] /\ sending \in Request \cup {NoRequest}
  BY DEF IInv, TypeOK, RingTypeOK
<1>1. Handled \in 0 .. Len(cq)
  BY <1>0 DEF Handled, BatchInside
<1>a. ASSUME registry \subseteq registry', dropped \subseteq dropped',
             \A n \in Nonce : Sending(n)' \/ OnBus(n)' => Sending(n) \/ OnBus(n) \/ n \in registry',
             \A n \in Nonce : InSQ(n)' \/ InKernel(n, Handled)' => InSQ(n) \/ InKernel(n, Handled)
      PROVE  Registered'
  BY <1>0, <1>a DEF Registered
<1>b. ASSUME UNCHANGED <<sq, inflight, cq>>, Handled' = Handled, NEW n
      PROVE  (InSQ(n)' <=> InSQ(n)) /\ (InKernel(n, Handled)' <=> InKernel(n, Handled))
  BY <1>b DEF InSQ, InKernel
<1>c. ASSUME UNCHANGED <<client, sending, reqBuss>>, NEW n
      PROVE  (Sending(n)' <=> Sending(n)) /\ (OnBus(n)' <=> OnBus(n))
  BY <1>c DEF Sending, OnBus
<1>2. ASSUME NEW c \in Clients, CallQueue(c) PROVE Registered'
  <2>1. /\ UNCHANGED <<sq, inflight, cq, reqBuss, sending, consumer, batch, dropped>>
        /\ nextID < MaxNonce /\ nextID' = nextID + 1 /\ client'[c] \in Requests(nextID')
        /\ registry' = registry \cup {nextID'}
        /\ \A d \in Clients : d # c => client'[d] = client[d]
    BY <1>0, <1>2 DEF CallQueue, ringVars, cons
  <2>2. nextID' \in Nonce
    BY <2>1, FreshID
  <2>3. client'[c].id = nextID'
    BY <2>1, <2>2, RequestTyped
  <2>4. \A n : (Sending(n)' => Sending(n) \/ n = nextID') /\ (OnBus(n)' <=> OnBus(n))
    BY <2>1, <2>3 DEF Sending, OnBus
  <2>5. Handled' = Handled
    BY <2>1 DEF Handled
  <2> QED BY <1>a, <1>b, <2>1, <2>4, <2>5
<1>3. ASSUME NEW c \in Clients, NEW m \in Nonce, CallCancel(c, m) PROVE Registered'
  <2>1. /\ UNCHANGED <<sq, inflight, cq, reqBuss, sending, consumer, batch, registry, dropped>>
        /\ client'[c].id \notin Nonce
        /\ \A d \in Clients : d # c => client'[d] = client[d]
    BY <1>0, <1>3, Constants DEF CallCancel, ringVars, cons, table
  <2>2. \A n \in Nonce : (Sending(n)' => Sending(n)) /\ (OnBus(n)' <=> OnBus(n))
    BY <2>1 DEF Sending, OnBus
  <2>3. Handled' = Handled
    BY <2>1 DEF Handled
  <2> QED BY <1>a, <1>b, <2>1, <2>2, <2>3
<1>4. ASSUME NEW c \in Clients, Send(c) PROVE Registered'
  <2>1. /\ UNCHANGED <<sq, inflight, cq, sending, consumer, batch, registry, dropped>>
        /\ client[c] \in Request /\ reqBuss' = Append(reqBuss, client[c])
        /\ client'[c].id \notin Nonce
        /\ \A d \in Clients : d # c => client'[d] = client[d]
    BY <1>0, <1>4, Constants DEF Send, ringVars, cons, table
  <2>2. \A n : OnBus(n)' => OnBus(n) \/ n = client[c].id
    BY <1>0, <2>1, BusAppend
  <2>3. \A n \in Nonce : Sending(n)' => Sending(n)
    BY <2>1 DEF Sending
  <2>4. Sending(client[c].id)
    BY DEF Sending
  <2>5. Handled' = Handled
    BY <2>1 DEF Handled
  <2> QED BY <1>a, <1>b, <2>1, <2>2, <2>3, <2>4, <2>5
<1>5. CASE CallbackSends
  <2>1. /\ UNCHANGED <<sq, inflight, cq, client, batch, registry, dropped>>
        /\ sending \in Request /\ reqBuss' = Append(reqBuss, sending)
        /\ sending'.id \notin Nonce /\ consumer = "callback" /\ consumer' = "handle"
    BY <1>0, <1>5, Constants DEF CallbackSends, ringVars, clients, table, IInv, CallbackSending
  <2>2. \A n : OnBus(n)' => OnBus(n) \/ n = sending.id
    BY <1>0, <2>1, BusAppend
  <2>3. \A n \in Nonce : Sending(n)' => Sending(n)
    BY <2>1 DEF Sending
  <2>4. Sending(sending.id)
    BY DEF Sending
  <2>5. Handled' = Handled
    BY <2>1 DEF Handled
  <2> QED BY <1>a, <1>b, <2>1, <2>2, <2>3, <2>4, <2>5
<1>6. CASE Receive
  <2> DEFINE r == Head(reqBuss)
  <2>1. /\ reqBuss # << >> /\ reqBuss' = Tail(reqBuss) /\ QueueUpTo(r.sqes)
        /\ UNCHANGED <<client, nextID, sending, consumer, batch>>
    BY <1>6 DEF Receive, clients, cons
  <2>2. /\ registry \ {r.id} \subseteq registry'
        /\ registry \cup dropped \subseteq registry' \cup dropped'
    BY <1>6 DEF Receive, Dropped, IInv, TypeOK
  <2>3. r = reqBuss[1] /\ 1 \in 1 .. Len(reqBuss) /\ OnBus(r.id) /\ \A n : OnBus(n)' => OnBus(n)
    BY <1>0, <2>1, BusTail
  <2>4. \A n \in Nonce : OnBus(n)' => n # r.id
    BY <1>0, <2>1, HeadLeaves DEF IInv
  <2>5. Shape(r.sqes, r.id)
    BY <2>3, SoundTyped DEF IInv, TypeOK, AllSound
  <2>6. r.id \in Nonce => ~InRing(r.id) /\ ~Sending(r.id) /\ r.id \in registry
    BY <1>0, <2>3 DEF NotQueued, Registered, IInv, OneRequest
  <2> HIDE DEF r
  <2>7. /\ UNCHANGED <<inflight, cq>>
        /\ \A n \in Nonce : InSQ(n)' => InSQ(n) \/ n = r.id
    BY <1>0, <2>1, <2>5, <2>6, QueuePlaces
  <2>8. \A n : (Sending(n)' <=> Sending(n)) /\ (InKernel(n, Handled)' <=> InKernel(n, Handled))
    BY <2>1, <2>7 DEF Sending, InKernel, Handled
  <2>9. ASSUME NEW n \in Nonce, Sending(n)' \/ OnBus(n)' PROVE n \in registry'
    BY <1>0, <2>2, <2>3, <2>4, <2>6, <2>8, <2>9 DEF Registered
  <2>10. ASSUME NEW n \in Nonce, InSQ(n)' \/ InKernel(n, Handled)' PROVE n \in registry' \cup dropped'
    BY <1>0, <2>2, <2>6, <2>7, <2>8, <2>10 DEF Registered
  <2> QED BY <2>9, <2>10 DEF Registered
<1>7. ASSUME NEW m \in Nonce, Complete(m) PROVE Registered'
  <2>1. /\ UNCHANGED <<client, sending, reqBuss, registry, dropped, consumer, batch>>
        /\ CompleteRequest(m)
    BY <1>7 DEF Complete, table, clients, cons
  <2>2. UNCHANGED sq /\ \A n \in Nonce, k \in 0 .. Len(cq) : InKernel(n, k)' => InKernel(n, k)
    BY <1>0, <2>1, CompletePlaces
  <2>3. \A n \in Nonce : (InKernel(n, Handled)' => InKernel(n, Handled)) /\ (InSQ(n)' <=> InSQ(n))
    BY <1>1, <2>1, <2>2 DEF InKernel, Handled, InSQ
  <2> QED BY <1>a, <1>c, <2>1, <2>3
<1>8. CASE TakeSQE
  <2>1. /\ UNCHANGED <<client, sending, reqBuss, registry, dropped, consumer, batch>> /\ TakeOne
    BY <1>8 DEF TakeSQE, table, clients, cons
  <2>2. /\ \A n \in Nonce : InSQ(n)' => InSQ(n)
        /\ \A n \in Nonce, k \in 0 .. Len(cq) : InKernel(n, k)' => InKernel(n, k) \/ InSQ(n)
    BY <1>0, <2>1, TakePlaces
  <2>3. \A n \in Nonce : InKernel(n, Handled)' => InKernel(n, Handled) \/ InSQ(n)
    BY <1>1, <2>1, <2>2 DEF InKernel, Handled
  <2> QED BY <1>a, <1>c, <2>1, <2>2, <2>3
<1>9. CASE AdvanceCQ
  <2>1. /\ UNCHANGED <<client, sending, reqBuss, registry, dropped>> /\ Advance(batch.size)
        /\ PeekBatch(cq') /\ batch.size \in Nat /\ batch.size <= Len(cq) /\ Handled = batch.size
    BY <1>0, <1>9 DEF AdvanceCQ, table, clients, BatchInside, Handled
  <2>2. UNCHANGED sq /\ \A n \in Nonce : InKernel(n, 0)' => InKernel(n, batch.size)
    BY <1>0, <2>1, AdvancePlaces
  <2>3. BatchCount(cq') \in Nat
    BY RingStep, RingConstants DEF BatchCount, RingTypeOK
  <2>4. Handled' = 0
    BY <2>1, <2>3 DEF PeekBatch, Handled
  <2>5. \A n \in Nonce : (InKernel(n, Handled)' => InKernel(n, Handled)) /\ (InSQ(n)' <=> InSQ(n))
    BY <2>1, <2>2, <2>4 DEF InKernel, InSQ
  <2> QED BY <1>a, <1>c, <2>1, <2>5
<1>10. CASE Signal
  <2>1. /\ UNCHANGED <<sq, inflight, cq, client, sending, reqBuss, registry, dropped>> /\ Handled = 0
        /\ consumer' = "wait" \/ PeekBatch(cq)
    BY <1>10 DEF Signal, table, clients, ringVars, Handled
  <2>2. BatchCount(cq) \in Nat
    BY <1>0, RingConstants DEF BatchCount, RingTypeOK
  <2>3. Handled' = Handled
    BY <2>1, <2>2 DEF PeekBatch, Handled
  <2> QED BY <1>a, <1>b, <1>c, <2>1, <2>3
<1>11. CASE Quiet
  <2>1. Handled' = Handled
    BY <1>11 DEF Quiet, Handled
  <2> QED BY <1>a, <1>b, <1>c, <1>11, <2>1 DEF Quiet
<1>12. CASE SkipReserved \/ RunCallback
  <2> DEFINE k == batch.size - batch.left
  <2>1. /\ UNCHANGED <<sq, inflight, cq, reqBuss, dropped, client>> /\ consumer = "handle"
        /\ consumer' \in {"handle", "callback"} /\ batch.left > 0
        /\ batch'.size = batch.size /\ batch'.left = batch.left - 1
    BY <1>0, <1>12 DEF SkipReserved, RunCallback, Handling, HandleNext, table, clients, ringVars
  <2>2. k \in Nat /\ k + 1 \in 1 .. Len(cq) /\ k + 1 <= Len(cq) /\ Handled = k /\ Handled' = k + 1
    BY <1>0, <2>1 DEF Handled, BatchInside
  <2>3. CurrentCQE = cq[k + 1]
    BY DEF CurrentCQE
  <2> HIDE DEF k
  <2>4. \A n \in Nonce : (InKernel(n, Handled)' => InKernel(n, k + 1)) /\ (InSQ(n)' <=> InSQ(n))
    BY <2>1, <2>2 DEF InKernel, InSQ
  <2>5. CASE SkipReserved
    <3>1. \A i \in k + 1 + 1 .. Len(cq) : i \in k + 1 .. Len(cq)
      BY <1>0, <2>2
    <3>2. \A n \in Nonce : InKernel(n, k + 1) => InKernel(n, Handled)
      BY <2>2, <3>1 DEF InKernel
    <3>3. UNCHANGED <<registry, sending>>
      BY <2>5 DEF SkipReserved, table
    <3> QED BY <1>a, <1>c, <2>1, <2>4, <3>2, <3>3
  <2>6. CASE RunCallback
    <3> DEFINE q == cq[k + 1]
    <3>1. q \in Nonce /\ registry \ {q} \subseteq registry'
      BY <2>3, <2>6 DEF RunCallback
    <3>2. /\ ~InSQ(q) /\ InRing(q)
          /\ \A n \in Nonce : InKernel(n, k + 1) => InKernel(n, k) /\ n # q
      BY <1>0, <2>2, <3>1, CurrentPlaces
    <3> HIDE DEF q
    <3>3. ~Sending(q) /\ ~OnBus(q)
      BY <1>0, <3>1, <3>2 DEF NotQueued
    <3>4. \A n \in Nonce : OnBus(n)' => OnBus(n)
      BY <2>1 DEF OnBus
    <3>5. \A n \in Nonce : Sending(n)' => Sending(n) \/ n \in registry'
      <4>1. CASE UNCHANGED sending
        BY <2>1, <4>1 DEF Sending
      <4>2. CASE nextID < MaxNonce /\ nextID' = nextID + 1 /\ sending' \in Requests(nextID')
                 /\ nextID' \in registry'
        <5>1. nextID' \in Nonce
          BY <4>2, FreshID
        <5>2. sending'.id = nextID'
          BY <4>2, <5>1, RequestTyped
        <5> QED BY <2>1, <4>2, <5>2 DEF Sending
      <4> QED BY <2>6, <4>1, <4>2 DEF RunCallback
    <3>6. ASSUME NEW n \in Nonce, Sending(n)' \/ OnBus(n)' PROVE n \in registry'
      BY <1>0, <3>1, <3>3, <3>4, <3>5, <3>6 DEF Registered
    <3>7. ASSUME NEW n \in Nonce, InSQ(n)' \/ InKernel(n, Handled)' PROVE n \in registry' \cup dropped'
      BY <1>0, <2>1, <2>2, <2>4, <3>1, <3>2, <3>7 DEF Registered
    <3> QED BY <3>6, <3>7 DEF Registered
  <2> QED BY <1>12, <2>5, <2>6
<1> QED BY <1>2, <1>3, <1>4, <1>5, <1>6, <1>7, <1>8, <1>9, <1>10, <1>11, <1>12, Effects

-----------------------------------------------------------------------------
(* The invariant holds at the start, every step keeps it, so it always     *)
(* holds.                                                                  *)
LEMMA InitIInv == Init => IInv
<1> SUFFICES ASSUME Init PROVE IInv
  OBVIOUS
<1>1. /\ sq \in Seq(SQE) /\ cq \in Seq(UserData) /\ Len(sq) = 0 /\ Len(cq) = 0
      /\ inflight = {} /\ reqBuss \in Seq(Request) /\ Len(reqBuss) = 0
  BY DEF Init, RingInit
<1>2. TypeOK
  <2>1. client \in [Clients -> Request \cup {NoRequest}] /\ sending \in Request \cup {NoRequest}
    BY DEF Init
  <2>2. RingTypeOK
    BY <1>1, RingConstants DEF Init, RingInit, RingTypeOK
  <2>3. /\ batch \in [left : Nat, size : Nat] /\ nextID \in 0 .. MaxNonce
        /\ cancels \in 0 .. MaxCancels /\ Len(reqBuss) <= BusCap
    BY <1>1, Constants DEF Init
  <2> QED BY <1>1, <2>1, <2>2, <2>3 DEF Init, TypeOK
<1>3. sending = NoRequest /\ \A c \in Clients : client[c] = NoRequest
  BY DEF Init
<1>4. StopOrder /\ CallbackSending /\ BatchInside
  BY <1>3 DEF Init, StopOrder, CallbackSending, BatchInside
<1>5. Handled = 0
  BY DEF Init, Handled
<1>6. \A n : ~InSQ(n) /\ ~InKernel(n, 0)
  BY <1>1 DEF InSQ, InKernel
<1>7. \A n \in Nonce : ~Sending(n) /\ ~OnBus(n)
  BY <1>1, <1>3, Constants DEF Sending, OnBus
<1>8. OneInRing
  <2>1. OneSQE
    BY <1>1 DEF OneSQE
  <2>2. OneCQE
    BY <1>1 DEF OneCQE
  <2>3. \A i \in 1 .. Len(cq) : cq[i] \notin inflight
    BY <1>1
  <2> QED BY <1>6, <2>1, <2>2, <2>3, Zenon DEF OneInRing
<1>9. OneRequest
  <2>1. \A c \in Clients : client[c].id \notin Nonce
    BY <1>3, Constants
  <2>2. 1 .. Len(reqBuss) = {}
    BY <1>1
  <2> QED BY <1>7, <2>1, <2>2, Zenon DEF OneRequest
<1>10. AllSound
  BY <1>1, <1>3 DEF AllSound
<1>11. NotQueued /\ HandedOut /\ Registered
  BY <1>5, <1>6, <1>7 DEF NotQueued, HandedOut, Registered, InRing
<1> QED BY <1>2, <1>4, <1>8, <1>9, <1>10, <1>11 DEF IInv

LEMMA StepIInv == IInv /\ [Next]_vars => IInv'
BY StopStep, SendingStep, TypeStep, SoundStep, RingStep, BatchStep, PlaceStep, RegisteredStep
   DEF IInv

LEMMA Invariance == Spec => []IInv
BY InitIInv, StepIInv, PTL DEF Spec

(* Whatever is on reqBuss, queued, in flight or completed and not handled  *)
(* has its callback in the registry, unless the publisher dropped it for   *)
(* want of room: runConsumer calls nil for no other request.               *)
THEOREM CallbackKept == Spec => []RequestHasCallback
<1>1. ASSUME IInv PROVE RequestHasCallback
  <2>0. /\ Registered /\ inflight \subseteq Nonce /\ cq \in Seq(UserData) /\ BatchInside
        /\ batch \in [left : Nat, size : Nat]
    BY <1>1 DEF IInv, TypeOK, RingTypeOK
  <2>1. \A i \in 1 .. Len(reqBuss) : reqBuss[i].id \in Nonce => reqBuss[i].id \in registry
    BY <2>0 DEF Registered, OnBus
  <2>2. \A i \in 1 .. Len(sq) : sq[i].ud \in Nonce => sq[i].ud \in registry \cup dropped
    BY <2>0 DEF Registered, InSQ
  <2>3. inflight \subseteq registry \cup dropped
    BY <2>0 DEF Registered, InKernel
  <2>4. ASSUME NEW i \in 1 .. Len(cq), cq[i] \in Nonce,
               consumer \in {"handle", "callback"} => i > batch.size - batch.left
        PROVE  cq[i] \in registry \cup dropped
    <3>1. i \in Handled + 1 .. Len(cq)
      BY <2>0, <2>4 DEF Handled, BatchInside
    <3> QED BY <2>0, <2>4, <3>1 DEF Registered, InKernel
  <2> QED BY <2>1, <2>2, <2>3, <2>4 DEF RequestHasCallback
<1> QED BY <1>1, Invariance, PTL

(* runConsumer, and a callback it runs, never send on a channel that       *)
(* runPublisher closed: Run stops the consumer first.                      *)
THEOREM SignalNeverClosed == Spec => []NoSendOnClosed
<1>1. IInv => NoSendOnClosed
  BY DEF IInv, StopOrder, NoSendOnClosed
<1> QED BY <1>1, Invariance, PTL
=============================================================================
