-------------------------- MODULE EventLoopProofs --------------------------
(***************************************************************************)
(* Safety of the event loop of Reactor for every number of clients, every  *)
(* number of requests and every size of the ring and of the batch. The     *)
(* inductive invariant is IInv of EventLoop. What the steps do to the ring *)
(* is the subject of RingServiceTheorems.                                  *)
(***************************************************************************)
EXTENDS EventLoop, RingServiceTheorems

(* No client is mistaken for a goroutine of the loop. *)
LEMMA Constants ==
    /\ MaxNonce \in Nat /\ MaxCancels \in Nat
    /\ timeoutNonce \notin Nonce /\ cancelNonce \notin Nonce /\ 0 \notin Nonce
    /\ Consumer \in Callers
    /\ Free \notin Callers /\ Publisher \notin Callers /\ Free # Publisher
BY RingConstants, LoopAssumption DEF Callers, Free, Publisher, Consumer

(* A caller that moves on keeps its type. *)
LEMMA AtTyped ==
    ASSUME NEW r \in CallerState, NEW a \in {"idle", "lock", "queue", "callback"}
    PROVE  [r EXCEPT !.at = a] \in CallerState
BY DEF CallerState

(* What a caller queues. *)
LEMMA CallerShape ==
    ASSUME CallerQueues, NEW c \in Callers, caller[c].at # "idle", currentNonce \in 0 .. MaxNonce
    PROVE  Shape(caller[c].sqes, caller[c].ud)
<1>1. ASSUME caller[c].ud \in 1 .. currentNonce PROVE caller[c].ud \in Nonce
  BY <1>1, RingConstants DEF Nonce
<1> QED BY <1>1, Shapes DEF CallerQueues

(* A nonce that a caller holds was handed out. *)
LEMMA CallerNonce ==
    ASSUME CallerQueues, currentNonce \in Nat,
           NEW c \in Callers, caller[c].at # "idle", caller[c].ud \in Nonce
    PROVE  caller[c].ud <= currentNonce
BY RingConstants DEF CallerQueues

(* Steps that neither move a request nor touch its callback. *)
Quiet ==
    /\ UNCHANGED <<sq, inflight, armed, cq, caller, currentNonce, callbacks>>
    /\ chain' \in {chain, 0}
    /\ \/ UNCHANGED <<consumer, batch>>
       \/ {consumer, consumer'} \cap {"handle", "callback"} = {}

LEMMA Effects ==
    ASSUME [Next]_vars
    PROVE  \/ \E c \in Callers :
                 \/ CallQueue(c) \/ (\E n \in Nonce : CallCancel(c, n))
                 \/ LockQueue(c) \/ QueueSQEs(c) \/ Register(c)
           \/ (\E n \in Nonce : Complete(n)) \/ TakeSQE \/ AdvanceCQ
           \/ WaitSucceeds \/ SkipReserved \/ LockCallback \/ RunCallback
           \/ Quiet
<1> USE DEF Quiet, ringVars, locks, table, counters, cons, pub
<1>1. CASE Signal
  BY <1>1 DEF Signal
<1>2. CASE SwapNeedSubmit
  BY <1>2 DEF SwapNeedSubmit
<1>3. CASE LockSubmit
  BY <1>3 DEF LockSubmit
<1>4. CASE SubmitReturn
  BY <1>4 DEF SubmitReturn, EndSubmit
<1>5. CASE StopPublisher
  BY <1>5 DEF StopPublisher
<1>6. CASE WaitFails
  BY <1>6 DEF WaitFails, ConsumerGoto
<1>7. CASE Continue
  BY <1>7 DEF Continue, ConsumerGoto
<1>8. CASE StopConsumer
  BY <1>8 DEF StopConsumer
<1>9. CASE CancelContext
  BY <1>9 DEF CancelContext
<1>10. CASE UNCHANGED vars
  BY <1>10 DEF vars
<1> HIDE DEF Quiet, ringVars, locks, table, counters, cons, pub
<1> QED BY <1>1, <1>2, <1>3, <1>4, <1>5, <1>6, <1>7, <1>8, <1>9, <1>10
        DEF Next, CallerStep, PublisherStep, ConsumerStep

-----------------------------------------------------------------------------
(* The parts of IInv, each kept by every step.                             *)

(* Run stops the consumer before the publisher. *)
LEMMA StopStep ==
    ASSUME IInv, [Next]_vars
    PROVE  StopOrder' /\ NoSendOnClosed'
<1> USE DEF IInv, TypeOK, StopOrder, NoSendOnClosed, locks, table, counters, cons, pub
<1>1. ASSUME NEW c \in Callers, CallQueue(c) PROVE StopOrder' /\ NoSendOnClosed'
  BY <1>1 DEF CallQueue, Call
<1>2. ASSUME NEW c \in Callers, NEW n \in Nonce, CallCancel(c, n)
      PROVE  StopOrder' /\ NoSendOnClosed'
  BY <1>2 DEF CallCancel, Call
<1>3. ASSUME NEW c \in Callers, LockQueue(c) PROVE StopOrder' /\ NoSendOnClosed'
  BY <1>3 DEF LockQueue
<1>4. ASSUME NEW c \in Callers, QueueSQEs(c) PROVE StopOrder' /\ NoSendOnClosed'
  BY <1>4 DEF QueueSQEs, LockAfterQueue
<1>5. ASSUME NEW c \in Callers, Register(c) PROVE StopOrder' /\ NoSendOnClosed'
  BY <1>5 DEF Register
<1>6. ASSUME NEW n \in Nonce, Complete(n) PROVE StopOrder' /\ NoSendOnClosed'
  BY <1>6 DEF Complete
<1>7. CASE Signal
  BY <1>7 DEF Signal
<1>8. CASE SwapNeedSubmit
  BY <1>8 DEF SwapNeedSubmit, MustSubmit
<1>9. CASE LockSubmit
  BY <1>9 DEF LockSubmit
<1>10. CASE TakeSQE
  BY <1>10 DEF TakeSQE
<1>11. CASE SubmitReturn
  BY <1>11 DEF SubmitReturn
<1>12. CASE StopPublisher
  BY <1>12 DEF StopPublisher
<1>13. CASE WaitSucceeds
  BY <1>13 DEF WaitSucceeds, PeekBatch
<1>14. CASE WaitFails
  BY <1>14 DEF WaitFails, ConsumerGoto
<1>15. CASE SkipReserved
  BY <1>15 DEF SkipReserved
<1>16. CASE LockCallback
  BY <1>16 DEF LockCallback
<1>17. CASE RunCallback
  BY <1>17 DEF RunCallback
<1>18. CASE AdvanceCQ
  BY <1>18 DEF AdvanceCQ, PeekBatch
<1>19. CASE Continue
  BY <1>19 DEF Continue, ConsumerGoto
<1>20. CASE StopConsumer
  BY <1>20 DEF StopConsumer
<1>21. CASE CancelContext
  BY <1>21 DEF CancelContext
<1>22. CASE UNCHANGED vars
  BY <1>22 DEF vars
<1> HIDE DEF IInv, TypeOK, StopOrder, NoSendOnClosed, locks, table, counters, cons, pub
<1> QED BY <1>1, <1>2, <1>3, <1>4, <1>5, <1>6, <1>7, <1>8, <1>9, <1>10, <1>11, <1>12,
           <1>13, <1>14, <1>15, <1>16, <1>17, <1>18, <1>19, <1>20, <1>21, <1>22 DEF
           Next, CallerStep, PublisherStep, ConsumerStep

(* queueSQELock, needSubmit and the publisher. *)
LEMMA LockStep ==
    ASSUME IInv, [Next]_vars
    PROVE  LockHeld' /\ SubmitPending' /\ NoLostSubmit'
<1> USE Constants DEF IInv, TypeOK, LockHeld, SubmitPending, NoLostSubmit, Idle,
           locks, table, counters, cons, pub, ringVars
<1>1. ASSUME NEW c \in Callers, CallQueue(c) PROVE LockHeld' /\ SubmitPending' /\ NoLostSubmit'
  BY <1>1 DEF CallQueue, Call, MayCall, CallerState
<1>2. ASSUME NEW c \in Callers, NEW n \in Nonce, CallCancel(c, n)
      PROVE  LockHeld' /\ SubmitPending' /\ NoLostSubmit'
  BY <1>2 DEF CallCancel, Call, MayCall, CallerState
<1>3. ASSUME NEW c \in Callers, LockQueue(c) PROVE LockHeld' /\ SubmitPending' /\ NoLostSubmit'
  BY <1>3 DEF LockQueue, CallerState
<1>4. ASSUME NEW c \in Callers, QueueSQEs(c) PROVE LockHeld' /\ SubmitPending' /\ NoLostSubmit'
  BY <1>4 DEF QueueSQEs, LockAfterQueue, QueueUpTo, CallerState
<1>5. ASSUME NEW c \in Callers, Register(c) PROVE LockHeld' /\ SubmitPending' /\ NoLostSubmit'
  BY <1>5 DEF Register, CallerState
<1>6. ASSUME NEW n \in Nonce, Complete(n) PROVE LockHeld' /\ SubmitPending' /\ NoLostSubmit'
  BY <1>6 DEF Complete, CompleteRequest
<1>7. CASE Signal
  BY <1>7 DEF Signal
<1>8. CASE SwapNeedSubmit
  BY <1>8 DEF SwapNeedSubmit, MustSubmit
<1>9. CASE LockSubmit
  BY <1>9 DEF LockSubmit
<1>10. CASE TakeSQE
  BY <1>10 DEF TakeSQE
<1>11. CASE SubmitReturn
  BY <1>11, Zenon DEF SubmitReturn, EndSubmit
<1>12. CASE StopPublisher
  BY <1>12 DEF StopPublisher
<1>13. CASE WaitSucceeds
  BY <1>13 DEF WaitSucceeds, PeekBatch
<1>14. CASE WaitFails
  BY <1>14 DEF WaitFails, ConsumerGoto
<1>15. CASE SkipReserved
  BY <1>15 DEF SkipReserved
<1>16. CASE LockCallback
  BY <1>16 DEF LockCallback
<1>17. CASE RunCallback
  BY <1>17 DEF RunCallback
<1>18. CASE AdvanceCQ
  BY <1>18 DEF AdvanceCQ, PeekBatch, Advance
<1>19. CASE Continue
  BY <1>19 DEF Continue, ConsumerGoto
<1>20. CASE StopConsumer
  BY <1>20 DEF StopConsumer
<1>21. CASE CancelContext
  BY <1>21 DEF CancelContext
<1>22. CASE UNCHANGED vars
  BY <1>22 DEF vars
<1> HIDE DEF IInv, TypeOK, LockHeld, SubmitPending, NoLostSubmit, Idle, locks, table,
             counters, cons, pub, ringVars
<1> QED BY <1>1, <1>2, <1>3, <1>4, <1>5, <1>6, <1>7, <1>8, <1>9, <1>10, <1>11, <1>12,
           <1>13, <1>14, <1>15, <1>16, <1>17, <1>18, <1>19, <1>20, <1>21, <1>22 DEF
           Next, CallerStep, PublisherStep, ConsumerStep

(* A caller queues what belongs to the nonce it got. *)
LEMMA QueuesStep ==
    ASSUME IInv, [Next]_vars
    PROVE  CallerQueues'
<1>0. caller \in [Callers -> CallerState] /\ currentNonce \in Nat /\ CallerQueues
  BY DEF IInv, TypeOK
<1>1. ASSUME NEW c \in Callers, CallQueue(c) PROVE CallerQueues'
  <2>1. /\ currentNonce' \in 1 .. currentNonce' /\ currentNonce' = currentNonce + 1
        /\ \A u \in 1 .. currentNonce : u \in 1 .. currentNonce'
    BY <1>0, <1>1 DEF CallQueue
  <2>2. \A d \in Callers : d # c => caller'[d] = caller[d]
    BY <1>0, <1>1 DEF CallQueue, Call
  <2>3. /\ caller'[c].ud = currentNonce'
        /\ caller'[c].sqes \in {Operation(currentNonce'), OperationWithTimeout(currentNonce')}
    BY <1>0, <1>1 DEF CallQueue, Call
  <2> QED BY <1>0, <2>1, <2>2, <2>3 DEF CallerQueues
<1>2. ASSUME NEW c \in Callers, NEW n \in Nonce, CallCancel(c, n) PROVE CallerQueues'
  BY <1>0, <1>2 DEF CallCancel, Call, CallerQueues
<1>3. ASSUME NEW c \in Callers, LockQueue(c) PROVE CallerQueues'
  BY <1>0, <1>3 DEF LockQueue, CallerState, CallerQueues, counters
<1>4. ASSUME NEW c \in Callers, QueueSQEs(c) PROVE CallerQueues'
  BY <1>0, <1>4 DEF QueueSQEs, CallerState, CallerQueues, Idle, counters
<1>5. ASSUME NEW c \in Callers, Register(c) PROVE CallerQueues'
  BY <1>0, <1>5 DEF Register, CallerState, CallerQueues, Idle, counters
<1>6. ASSUME UNCHANGED <<caller, currentNonce>> PROVE CallerQueues'
  BY <1>0, <1>6 DEF CallerQueues
<1>7. ASSUME NEW n \in Nonce, Complete(n) PROVE UNCHANGED <<caller, currentNonce>>
  BY <1>7 DEF Complete, counters
<1>8. ASSUME TakeSQE \/ AdvanceCQ \/ WaitSucceeds PROVE UNCHANGED <<caller, currentNonce>>
  BY <1>8 DEF TakeSQE, AdvanceCQ, WaitSucceeds, counters
<1>9. ASSUME SkipReserved \/ LockCallback \/ RunCallback PROVE UNCHANGED <<caller, currentNonce>>
  BY <1>9 DEF SkipReserved, LockCallback, RunCallback, counters
<1>10. Quiet => UNCHANGED <<caller, currentNonce>>
  BY DEF Quiet
<1> QED BY <1>1, <1>2, <1>3, <1>4, <1>5, <1>6, <1>7, <1>8, <1>9, <1>10, Effects

(* The ring. *)
LEMMA RingStep ==
    ASSUME IInv, [Next]_vars
    PROVE  RingTypeOK' /\ OneInRing'
<1>0. RingTypeOK /\ OneInRing
  BY DEF IInv, TypeOK
<1>1. ASSUME NEW c \in Callers, QueueSQEs(c) PROVE RingTypeOK' /\ OneInRing'
  <2>1. Shape(caller[c].sqes, caller[c].ud) /\ caller[c].at = "queue"
    BY <1>1, CallerShape DEF QueueSQEs, IInv, TypeOK
  <2>2. caller[c].ud \in Nonce => ~InRing(caller[c].ud)
    BY <2>1 DEF IInv, NotQueued
  <2> QED BY <1>0, <1>1, <2>1, <2>2, QueuePlaces DEF QueueSQEs
<1>2. ASSUME NEW n \in Nonce, Complete(n) PROVE RingTypeOK' /\ OneInRing'
  BY <1>0, <1>2, CompletePlaces DEF Complete
<1>3. CASE TakeSQE
  BY <1>0, <1>3, TakePlaces DEF TakeSQE
<1>4. CASE AdvanceCQ
  BY <1>0, <1>4, AdvancePlaces DEF AdvanceCQ, IInv, TypeOK, BatchInside
<1>5. ASSUME UNCHANGED <<sq, inflight, armed, cq>>, chain' \in {chain, 0}
      PROVE  RingTypeOK' /\ OneInRing'
  BY <1>0, <1>5, SamePlaces DEF RingTypeOK
<1>6. ASSUME NEW c \in Callers, NEW n \in Nonce,
             CallQueue(c) \/ CallCancel(c, n) \/ LockQueue(c) \/ Register(c)
      PROVE  UNCHANGED ringVars
  BY <1>6 DEF CallQueue, CallCancel, Call, LockQueue, Register
<1>7. ASSUME WaitSucceeds \/ SkipReserved \/ LockCallback \/ RunCallback
      PROVE  UNCHANGED ringVars
  BY <1>7 DEF WaitSucceeds, SkipReserved, LockCallback, RunCallback
<1>8. UNCHANGED ringVars => RingTypeOK' /\ OneInRing'
  BY <1>5 DEF ringVars
<1>9. Quiet => RingTypeOK' /\ OneInRing'
  BY <1>5 DEF Quiet
<1>10. \E n \in Nonce : TRUE
  BY RingAssumption DEF Nonce
<1> QED BY <1>1, <1>2, <1>3, <1>4, <1>6, <1>7, <1>8, <1>9, <1>10, Effects

(* Types. *)
LEMMA TypeStep ==
    ASSUME IInv, [Next]_vars
    PROVE  TypeOK'
<1>0. \A n \in Nonce : /\ Operation(n) \in Seq(SQE) /\ OperationWithTimeout(n) \in Seq(SQE)
                      /\ Cancellation(n) \in Seq(SQE)
  BY SQEsTyped
<1> USE Constants, RingStep DEF IInv, TypeOK, Idle, locks, table, counters, cons, pub
<1>1. ASSUME NEW c \in Callers, CallQueue(c) PROVE TypeOK'
  <2>1. currentNonce' \in Nonce /\ currentNonce' \in 0 .. MaxNonce
    BY <1>1 DEF CallQueue, Nonce
  <2>2. /\ Operation(currentNonce') \in Seq(SQE)
        /\ OperationWithTimeout(currentNonce') \in Seq(SQE)
    BY <1>0, <2>1, Zenon
  <2>3. PICK s \in Seq(SQE) :
            caller' = [caller EXCEPT ![c] = [at |-> "lock", ud |-> currentNonce', sqes |-> s]]
    BY <1>1, <2>2 DEF CallQueue, Call
  <2>4. [at |-> "lock", ud |-> currentNonce', sqes |-> s] \in CallerState
    BY <2>1 DEF CallerState
  <2>5. caller' \in [Callers -> CallerState]
    BY <2>3, <2>4
  <2> QED BY <1>1, <2>1, <2>5 DEF CallQueue, Call
<1>2. ASSUME NEW c \in Callers, NEW n \in Nonce, CallCancel(c, n) PROVE TypeOK'
  <2>1. Cancellation(n) \in Seq(SQE)
    BY <1>0, Zenon
  <2>2. [at |-> "lock", ud |-> cancelNonce, sqes |-> Cancellation(n)] \in CallerState
    BY <2>1 DEF CallerState
  <2>3. caller' \in [Callers -> CallerState]
    BY <1>2, <2>2 DEF CallCancel, Call
  <2>4. cancels' \in 0 .. MaxCancels
    BY <1>2 DEF CallCancel
  <2>5. UNCHANGED <<queueSQELock, callbacksLock, needSubmit, leftover, callbacks, served,
                    currentNonce, consumer, batch, publisher, run>>
    BY <1>2 DEF CallCancel, Call
  <2> QED BY <2>3, <2>4, <2>5
<1>3. ASSUME NEW c \in Callers, LockQueue(c) PROVE TypeOK'
  <2>1. caller' \in [Callers -> CallerState]
    <3>1. [caller[c] EXCEPT !.at = "queue"] \in CallerState
      BY AtTyped, Zenon
    <3> QED BY <1>3, <3>1 DEF LockQueue
  <2> QED BY <1>3, <2>1, Zenon DEF LockQueue
<1>4. ASSUME NEW c \in Callers, QueueSQEs(c) PROVE TypeOK'
  <2>1. caller' \in [Callers -> CallerState]
    <3>1. [caller[c] EXCEPT !.at = "callback"] \in CallerState
      BY AtTyped, Zenon
    <3>2. << >> \in Seq(SQE)
      OBVIOUS
    <3>3. Idle \in CallerState
      BY <3>2 DEF CallerState
    <3> HIDE DEF Idle
    <3> QED BY <1>4, <3>1, <3>3 DEF QueueSQEs
  <2> QED BY <1>4, <2>1 DEF QueueSQEs, LockAfterQueue
<1>5. ASSUME NEW c \in Callers, Register(c) PROVE TypeOK'
  <2>1. << >> \in Seq(SQE)
    OBVIOUS
  <2>2. caller' \in [Callers -> CallerState] /\ caller[c].ud \in Nonce \cup {cancelNonce}
    BY <1>5, <2>1 DEF Register, CallerState
  <2> QED BY <1>5, <2>2 DEF Register
<1>6. ASSUME NEW n \in Nonce, Complete(n) PROVE TypeOK'
  BY <1>6 DEF Complete
<1>7. CASE Signal
  BY <1>7 DEF Signal
<1>8. CASE SwapNeedSubmit
  BY <1>8 DEF SwapNeedSubmit, MustSubmit
<1>9. CASE LockSubmit
  BY <1>9 DEF LockSubmit
<1>10. CASE TakeSQE
  BY <1>10 DEF TakeSQE
<1>11. CASE SubmitReturn
  BY <1>11 DEF SubmitReturn
<1>12. CASE StopPublisher
  BY <1>12 DEF StopPublisher
<1>13. CASE WaitSucceeds
  <2>1. BatchCount(cq) \in Nat
    BY RingConstants DEF BatchCount, RingTypeOK
  <2>2. batch' \in [left : Nat, size : Nat]
    BY <1>13, <2>1 DEF WaitSucceeds, PeekBatch
  <2> QED BY <1>13, <2>2 DEF WaitSucceeds, PeekBatch
<1>14. CASE WaitFails
  BY <1>14 DEF WaitFails, ConsumerGoto
<1>15. CASE SkipReserved
  <2>1. batch.left - 1 \in Nat
    BY <1>15 DEF SkipReserved
  <2>2. batch' \in [left : Nat, size : Nat]
    BY <1>15, <2>1 DEF SkipReserved
  <2> QED BY <1>15, <2>2 DEF SkipReserved
<1>16. CASE LockCallback
  BY <1>16 DEF LockCallback
<1>17. CASE RunCallback
  <2>1. CurrentCQE \in Nonce /\ batch.left - 1 \in Nat
    BY <1>17 DEF RunCallback, BatchInside
  <2>2. batch' \in [left : Nat, size : Nat]
    BY <1>17, <2>1 DEF RunCallback
  <2> QED BY <1>17, <2>1, <2>2 DEF RunCallback
<1>18. CASE AdvanceCQ
  <2>1. BatchCount(cq') \in Nat
    BY RingConstants DEF BatchCount, RingTypeOK
  <2> QED BY <1>18, <2>1 DEF AdvanceCQ, PeekBatch
<1>19. CASE Continue
  BY <1>19 DEF Continue, ConsumerGoto
<1>20. CASE StopConsumer
  BY <1>20 DEF StopConsumer
<1>21. CASE CancelContext
  BY <1>21 DEF CancelContext
<1>22. CASE UNCHANGED vars
  BY <1>22 DEF vars
<1> HIDE DEF IInv, TypeOK, Idle, locks, table, counters, cons, pub
<1> QED BY <1>1, <1>2, <1>3, <1>4, <1>5, <1>6, <1>7, <1>8, <1>9, <1>10, <1>11, <1>12,
           <1>13, <1>14, <1>15, <1>16, <1>17, <1>18, <1>19, <1>20, <1>21, <1>22 DEF
           Next, CallerStep, PublisherStep, ConsumerStep

(* The batch stays at the front of cq. *)
LEMMA BatchStep ==
    ASSUME IInv, [Next]_vars
    PROVE  BatchInside'
<1>0. /\ RingTypeOK /\ RingTypeOK' /\ OneInRing /\ BatchInside
      /\ Len(cq) \in Nat /\ Len(cq') \in Nat /\ batch \in [left : Nat, size : Nat]
  BY RingStep DEF IInv, TypeOK, RingTypeOK
<1>1. ASSUME UNCHANGED <<consumer, batch>>, Len(cq) <= Len(cq'),
             \A i \in 1 .. Len(cq) : cq'[i] = cq[i]
      PROVE  BatchInside'
  <2>1. consumer = "callback" => batch.size - batch.left + 1 \in 1 .. Len(cq)
    BY <1>0 DEF BatchInside
  <2>2. consumer = "callback" => CurrentCQE' = CurrentCQE
    BY <1>1, <2>1 DEF CurrentCQE
  <2>3. consumer \in {"handle", "callback"} => batch.size <= Len(cq')
    BY <1>0, <1>1 DEF BatchInside
  <2> QED BY <1>0, <1>1, <2>2, <2>3 DEF BatchInside
<1>2. UNCHANGED <<consumer, batch, cq>> => BatchInside'
  BY <1>0 DEF BatchInside, CurrentCQE
<1>3. ASSUME PeekBatch(cq') PROVE BatchInside'
  <2>1. BatchCount(cq') \in Nat /\ BatchCount(cq') <= Len(cq')
    BY <1>0, RingConstants DEF BatchCount
  <2>2. /\ consumer' # "callback" /\ batch'.left = BatchCount(cq')
        /\ batch'.size = BatchCount(cq')
    BY <1>3 DEF PeekBatch
  <2> QED BY <2>1, <2>2 DEF BatchInside
<1>4. ASSUME NEW c \in Callers, NEW n \in Nonce,
             \/ CallQueue(c) \/ CallCancel(c, n) \/ LockQueue(c) \/ QueueSQEs(c) \/ Register(c)
      PROVE  UNCHANGED <<consumer, batch, cq>>
  BY <1>4 DEF CallQueue, CallCancel, Call, LockQueue, QueueSQEs, QueueUpTo, Register,
              cons, ringVars
<1>5. ASSUME NEW n \in Nonce, Complete(n) PROVE BatchInside'
  BY <1>0, <1>1, <1>5, CompletePlaces DEF Complete, cons
<1>6. CASE TakeSQE
  BY <1>0, <1>1, <1>6, TakePlaces DEF TakeSQE, cons
<1>7. CASE AdvanceCQ \/ WaitSucceeds
  BY <1>3, <1>7 DEF AdvanceCQ, WaitSucceeds, ringVars
<1>8. CASE SkipReserved
  BY <1>0, <1>8 DEF SkipReserved, BatchInside, ringVars
<1>9. CASE LockCallback
  BY <1>0, <1>9 DEF LockCallback, BatchInside, CurrentCQE, ringVars
<1>10. CASE RunCallback
  BY <1>0, <1>10 DEF RunCallback, BatchInside, ringVars
<1>11. CASE Quiet
  BY <1>2, <1>11 DEF Quiet, BatchInside
<1>12. \E n \in Nonce : TRUE
  BY RingAssumption DEF Nonce
<1> QED BY <1>2, <1>4, <1>5, <1>6, <1>7, <1>8, <1>9, <1>10, <1>11, <1>12, Effects

(* No nonce is at two places, and what is in the ring was handed out. *)
LEMMA PlaceStep ==
    ASSUME IInv, [Next]_vars
    PROVE  OneCaller' /\ NotQueued' /\ HandedOut'
<1>0. /\ RingTypeOK /\ OneInRing /\ caller \in [Callers -> CallerState] /\ currentNonce \in Nat
      /\ OneCaller /\ NotQueued /\ HandedOut /\ CallerQueues /\ 0 \in 0 .. Len(cq)
  BY DEF IInv, TypeOK, RingTypeOK
<1>a. ASSUME UNCHANGED <<sq, inflight, cq>>, NEW n PROVE InRing(n)' <=> InRing(n)
  BY <1>a, SamePlaces DEF InRing
<1>b. ASSUME UNCHANGED <<caller, currentNonce>>, \A n \in Nonce : InRing(n)' => InRing(n)
      PROVE  OneCaller' /\ NotQueued' /\ HandedOut'
  BY <1>0, <1>b DEF OneCaller, NotQueued, HandedOut
<1>1. ASSUME NEW c \in Callers, CallQueue(c) PROVE OneCaller' /\ NotQueued' /\ HandedOut'
  <2>1. /\ UNCHANGED <<sq, inflight, cq>> /\ caller[c].at = "idle"
        /\ currentNonce' = currentNonce + 1 /\ caller'[c].ud = currentNonce'
        /\ \A d \in Callers : d # c => caller'[d] = caller[d]
    BY <1>0, <1>1 DEF CallQueue, Call, MayCall, ringVars
  <2>2. \A n \in Nonce : n <= currentNonce => n <= currentNonce' /\ n # currentNonce'
    BY <1>0, <2>1 DEF Nonce
  <2>3. \A d \in Callers :
            caller[d].at # "idle" /\ caller[d].ud \in Nonce => caller[d].ud # currentNonce'
    BY <1>0, <2>2, CallerNonce, Zenon
  <2>4. OneCaller'
    <3> SUFFICES ASSUME NEW d \in Callers, NEW e \in Callers, d # e,
                        caller'[d].at # "idle", caller'[e].at # "idle",
                        caller'[d].ud = caller'[e].ud, caller'[d].ud \in Nonce
                 PROVE  FALSE
      BY Zenon DEF OneCaller
    <3>1. CASE d = c
      BY <2>1, <2>3, <3>1
    <3>2. CASE e = c
      BY <2>1, <2>3, <3>2
    <3>3. CASE d # c /\ e # c
      BY <1>0, <2>1, <3>3 DEF OneCaller
    <3> QED BY <3>1, <3>2, <3>3
  <2>5. NotQueued'
    BY <1>0, <1>a, <2>1, <2>2 DEF NotQueued, HandedOut
  <2>6. HandedOut'
    BY <1>0, <1>a, <2>1, <2>2 DEF HandedOut
  <2> QED BY <2>4, <2>5, <2>6
<1>2. ASSUME NEW c \in Callers, NEW n \in Nonce, CallCancel(c, n)
      PROVE  OneCaller' /\ NotQueued' /\ HandedOut'
  <2>1. /\ UNCHANGED <<sq, inflight, cq, currentNonce>> /\ caller'[c].ud = cancelNonce
        /\ \A d \in Callers : d # c => caller'[d] = caller[d]
    BY <1>0, <1>2 DEF CallCancel, Call, ringVars
  <2>2. OneCaller'
    BY <1>0, <2>1, Constants DEF OneCaller
  <2>3. NotQueued'
    BY <1>0, <1>a, <2>1, Constants DEF NotQueued
  <2>4. HandedOut'
    BY <1>0, <1>a, <2>1 DEF HandedOut
  <2> QED BY <2>2, <2>3, <2>4
<1>3. ASSUME NEW c \in Callers, LockQueue(c) PROVE OneCaller' /\ NotQueued' /\ HandedOut'
  <2>1. /\ UNCHANGED <<sq, inflight, cq, currentNonce>>
        /\ caller[c].at = "lock" /\ caller'[c].ud = caller[c].ud
        /\ \A d \in Callers : d # c => caller'[d] = caller[d]
    BY <1>0, <1>3 DEF LockQueue, CallerState, ringVars, counters
  <2>2. OneCaller'
    BY <1>0, <2>1 DEF OneCaller
  <2>3. NotQueued'
    BY <1>0, <1>a, <2>1 DEF NotQueued
  <2>4. HandedOut'
    BY <1>0, <1>a, <2>1 DEF HandedOut
  <2> QED BY <2>2, <2>3, <2>4
<1>4. ASSUME NEW c \in Callers, QueueSQEs(c) PROVE OneCaller' /\ NotQueued' /\ HandedOut'
  <2> DEFINE u == caller[c].ud
  <2>1. /\ UNCHANGED currentNonce /\ caller[c].at = "queue" /\ QueueUpTo(caller[c].sqes)
        /\ caller'[c].at = "idle" \/ (caller'[c].at = "callback" /\ caller'[c].ud = u)
        /\ \A d \in Callers : d # c => caller'[d] = caller[d]
    BY <1>0, <1>4 DEF QueueSQEs, CallerState, Idle, counters
  <2>2. /\ Shape(caller[c].sqes, u)
        /\ u \in Nonce => ~InRing(u) /\ u <= currentNonce
    <3>1. Shape(caller[c].sqes, u)
      BY <1>0, <2>1, CallerShape DEF IInv, TypeOK
    <3>2. u \in Nonce => ~InRing(u)
      BY <1>0, <2>1 DEF NotQueued
    <3>3. u \in Nonce => u <= currentNonce
      BY <1>0, <2>1, CallerNonce
    <3> QED BY <3>1, <3>2, <3>3
  <2>3. UNCHANGED <<inflight, cq>> /\ \A n \in Nonce : InSQ(n)' => InSQ(n) \/ n = u
    BY <1>0, <2>1, <2>2, QueuePlaces
  <2>4. \A n \in Nonce : InRing(n)' => InRing(n) \/ n = u
    BY <2>3 DEF InRing, InKernel
  <2>5. \A d \in Callers : d # c /\ caller[d].at # "idle" /\ u \in Nonce => caller[d].ud # u
    BY <1>0, <2>1 DEF OneCaller
  <2> HIDE DEF u
  <2>6. OneCaller'
    BY <1>0, <2>1, <2>5 DEF OneCaller, u
  <2>7. NotQueued'
    BY <1>0, <2>1, <2>4, <2>5 DEF NotQueued
  <2>8. HandedOut'
    BY <1>0, <2>1, <2>2, <2>4 DEF HandedOut
  <2> QED BY <2>6, <2>7, <2>8
<1>5. ASSUME NEW c \in Callers, Register(c) PROVE OneCaller' /\ NotQueued' /\ HandedOut'
  <2>1. /\ UNCHANGED <<sq, inflight, cq, currentNonce>> /\ caller'[c].at = "idle"
        /\ \A d \in Callers : d # c => caller'[d] = caller[d]
    BY <1>0, <1>5 DEF Register, Idle, ringVars, counters
  <2>2. OneCaller'
    BY <1>0, <2>1 DEF OneCaller
  <2>3. NotQueued'
    BY <1>0, <1>a, <2>1 DEF NotQueued
  <2>4. HandedOut'
    BY <1>0, <1>a, <2>1 DEF HandedOut
  <2> QED BY <2>2, <2>3, <2>4
<1>6. ASSUME NEW n \in Nonce, Complete(n) PROVE OneCaller' /\ NotQueued' /\ HandedOut'
  <2>1. UNCHANGED <<caller, currentNonce, sq>>
        /\ \A m \in Nonce : InKernel(m, 0)' => InKernel(m, 0)
    BY <1>0, <1>6, CompletePlaces DEF Complete, counters
  <2> QED BY <1>b, <2>1 DEF InRing, InSQ
<1>7. CASE TakeSQE
  <2>1. UNCHANGED <<caller, currentNonce>>
    BY <1>7 DEF TakeSQE, counters
  <2>2. \A m \in Nonce : (InSQ(m)' => InSQ(m)) /\ (InKernel(m, 0)' => InKernel(m, 0) \/ InSQ(m))
    BY <1>0, <1>7, TakePlaces DEF TakeSQE
  <2> QED BY <1>b, <2>1, <2>2 DEF InRing
<1>8. CASE AdvanceCQ
  <2>1. /\ UNCHANGED <<caller, currentNonce, sq>>
        /\ \A m \in Nonce : InKernel(m, 0)' => InKernel(m, 0)
    BY <1>0, <1>8, AdvancePlaces DEF AdvanceCQ, counters, IInv, TypeOK, BatchInside
  <2> QED BY <1>b, <2>1 DEF InRing, InSQ
<1>9. ASSUME WaitSucceeds \/ SkipReserved \/ LockCallback \/ RunCallback \/ Quiet
      PROVE  UNCHANGED <<sq, inflight, cq, caller, currentNonce>>
  BY <1>9 DEF WaitSucceeds, SkipReserved, LockCallback, RunCallback, Quiet, ringVars, counters
<1> QED BY <1>1, <1>2, <1>3, <1>4, <1>5, <1>6, <1>7, <1>8, <1>9, <1>a, <1>b, Effects

(* What is in the ring has, or gets, its callback. *)
LEMMA RegisteredStep ==
    ASSUME IInv, [Next]_vars
    PROVE  Registered'
<1>0. /\ RingTypeOK /\ OneInRing /\ caller \in [Callers -> CallerState] /\ Registered
      /\ Len(cq) \in Nat /\ batch.left \in Nat /\ batch.size \in Nat /\ BatchInside
      /\ batch \in [left : Nat, size : Nat]
  BY DEF IInv, TypeOK, RingTypeOK
<1>1. Handled \in 0 .. Len(cq)
  BY <1>0 DEF Handled, BatchInside
<1>a. ASSUME UNCHANGED <<sq, inflight, cq>>, Handled' = Handled, callbacks \subseteq callbacks',
             \A c \in Callers : caller[c].at = "callback" =>
                 caller'[c] = caller[c] \/ caller[c].ud \in callbacks'
      PROVE  Registered'
  <2>1. \A n : (InSQ(n)' <=> InSQ(n)) /\ (InKernel(n, Handled)' <=> InKernel(n, Handled))
    BY <1>a DEF InSQ, InKernel
  <2>2. ASSUME NEW n \in Nonce, InSQ(n)', n \notin callbacks'
        PROVE  \E d \in Callers : caller'[d].at = "callback" /\ caller'[d].ud = n
    <3>1. PICK d \in Callers : caller[d].at = "callback" /\ caller[d].ud = n
      BY <1>0, <1>a, <2>1, <2>2 DEF Registered
    <3> QED BY <1>a, <2>2, <3>1
  <2>3. \A n \in Nonce : InKernel(n, Handled)' => n \in callbacks'
    BY <1>0, <1>a, <2>1 DEF Registered
  <2> QED BY <2>2, <2>3 DEF Registered
<1>2. ASSUME NEW c \in Callers, NEW n \in Nonce, CallQueue(c) \/ CallCancel(c, n) \/ LockQueue(c)
      PROVE  Registered'
  <2>1. /\ UNCHANGED <<sq, inflight, cq, consumer, batch, callbacks>>
        /\ caller[c].at # "callback" /\ \A d \in Callers : d # c => caller'[d] = caller[d]
    BY <1>0, <1>2 DEF CallQueue, CallCancel, Call, MayCall, LockQueue, ringVars, cons, table
  <2> QED BY <1>a, <2>1 DEF Handled
<1>3. ASSUME NEW c \in Callers, QueueSQEs(c) PROVE Registered'
  <2> DEFINE u == caller[c].ud
  <2>1. /\ UNCHANGED <<callbacks, consumer, batch>> /\ caller[c].at = "queue"
        /\ QueueUpTo(caller[c].sqes)
        /\ Room > 0 => caller'[c].at = "callback" /\ caller'[c].ud = u
        /\ \A d \in Callers : d # c => caller'[d] = caller[d]
    BY <1>0, <1>3 DEF QueueSQEs, CallerState, table, cons
  <2>2. Shape(caller[c].sqes, u) /\ (u \in Nonce => ~InRing(u))
    BY <2>1, CallerShape DEF IInv, TypeOK, NotQueued
  <2>3. /\ UNCHANGED <<inflight, cq>>
        /\ \A n \in Nonce : InSQ(n)' => InSQ(n) \/ (n = u /\ Room > 0)
    BY <1>0, <2>1, <2>2, QueuePlaces
  <2>4. \A n \in Nonce : InKernel(n, Handled)' <=> InKernel(n, Handled)
    BY <2>1, <2>3 DEF InKernel, Handled
  <2> HIDE DEF u
  <2>5. ASSUME NEW n \in Nonce, InSQ(n)', n \notin callbacks'
        PROVE  \E d \in Callers : caller'[d].at = "callback" /\ caller'[d].ud = n
    <3>1. CASE InSQ(n)
      <4>1. PICK d \in Callers : caller[d].at = "callback" /\ caller[d].ud = n
        BY <1>0, <2>1, <2>5, <3>1 DEF Registered
      <4>2. d # c
        BY <2>1, <4>1
      <4> QED BY <2>1, <4>1, <4>2
    <3>2. CASE n = u /\ Room > 0
      BY <2>1, <3>2
    <3> QED BY <2>3, <2>5, <3>1, <3>2
  <2> QED BY <1>0, <2>1, <2>4, <2>5 DEF Registered
<1>4. ASSUME NEW c \in Callers, Register(c) PROVE Registered'
  <2>1. /\ UNCHANGED <<sq, inflight, cq, consumer, batch>>
        /\ callbacks' = callbacks \cup {caller[c].ud}
        /\ \A d \in Callers : d # c => caller'[d] = caller[d]
    BY <1>0, <1>4 DEF Register, ringVars, cons
  <2> QED BY <1>a, <2>1 DEF Handled
<1>5. ASSUME NEW m \in Nonce, Complete(m) PROVE Registered'
  <2>1. UNCHANGED <<caller, callbacks, consumer, batch>> /\ CompleteRequest(m)
    BY <1>5 DEF Complete, table, cons
  <2>2. UNCHANGED sq /\ \A n \in Nonce, k \in 0 .. Len(cq) : InKernel(n, k)' => InKernel(n, k)
    BY <1>0, <2>1, CompletePlaces
  <2>3. \A n \in Nonce : InKernel(n, Handled)' => InKernel(n, Handled)
    BY <1>1, <2>1, <2>2 DEF InKernel, Handled
  <2> QED BY <1>0, <2>1, <2>2, <2>3 DEF Registered, InSQ
<1>6. CASE TakeSQE
  <2>1. /\ UNCHANGED <<caller, callbacks, consumer, batch>> /\ TakeOne
        /\ queueSQELock = Publisher
    BY <1>6 DEF TakeSQE, table, cons, IInv, LockHeld
  <2>2. \A d \in Callers : caller[d].at # "callback"
    BY <2>1, Constants DEF IInv, LockHeld
  <2>3. /\ \A n \in Nonce : InSQ(n)' => InSQ(n)
        /\ \A n \in Nonce, k \in 0 .. Len(cq) : InKernel(n, k)' => InKernel(n, k) \/ InSQ(n)
    BY <1>0, <2>1, TakePlaces
  <2>4. \A n \in Nonce : InKernel(n, Handled)' => InKernel(n, Handled) \/ InSQ(n)
    BY <1>1, <2>1, <2>3 DEF InKernel, Handled
  <2> QED BY <1>0, <2>1, <2>2, <2>3, <2>4 DEF Registered
<1>7. CASE AdvanceCQ
  <2>1. /\ UNCHANGED <<caller, callbacks>> /\ Advance(batch.size) /\ PeekBatch(cq')
        /\ batch.size <= Len(cq) /\ Handled = batch.size
    BY <1>0, <1>7 DEF AdvanceCQ, table, BatchInside, Handled
  <2>2. UNCHANGED sq /\ \A n \in Nonce : InKernel(n, 0)' => InKernel(n, batch.size)
    BY <1>0, <2>1, AdvancePlaces
  <2>3. BatchCount(cq') \in Nat
    BY RingStep, RingConstants DEF BatchCount, RingTypeOK
  <2>4. Handled' = 0
    BY <2>1, <2>3 DEF PeekBatch, Handled
  <2>5. \A n \in Nonce : InKernel(n, Handled)' => InKernel(n, Handled)
    BY <2>1, <2>2, <2>4 DEF InKernel
  <2> QED BY <1>0, <2>1, <2>2, <2>5 DEF Registered, InSQ
<1>8. CASE WaitSucceeds
  <2>1. /\ UNCHANGED <<sq, inflight, cq, caller, callbacks>> /\ PeekBatch(cq) /\ Handled = 0
    BY <1>8 DEF WaitSucceeds, table, ringVars, Handled
  <2>2. BatchCount(cq) \in Nat
    BY <1>0, RingConstants DEF BatchCount, RingTypeOK
  <2>3. Handled' = 0
    BY <2>1, <2>2 DEF PeekBatch, Handled
  <2> QED BY <1>a, <2>1, <2>3
<1>9. CASE SkipReserved \/ RunCallback
  <2> DEFINE k == batch.size - batch.left
  <2>1. /\ UNCHANGED <<sq, inflight, cq, caller>>
        /\ consumer \in {"handle", "callback"} /\ consumer' = "handle"
        /\ batch'.size = batch.size /\ batch'.left = batch.left - 1 /\ batch.left > 0
    BY <1>0, <1>9 DEF SkipReserved, RunCallback, ringVars, BatchInside
  <2>2. k \in Nat /\ k + 1 \in 1 .. Len(cq) /\ k + 1 <= Len(cq) /\ Handled = k /\ Handled' = k + 1
    BY <1>0, <2>1 DEF Handled, BatchInside
  <2>3. \/ callbacks' = callbacks /\ cq[k + 1] \notin Nonce
        \/ callbacks' = callbacks \ {cq[k + 1]} /\ cq[k + 1] \in Nonce
    BY <1>0, <1>9, Constants DEF SkipReserved, RunCallback, CurrentCQE, table, BatchInside
  <2> HIDE DEF k
  <2>4. \A n \in Nonce : InKernel(n, Handled)' => InKernel(n, k + 1)
    BY <2>1, <2>2 DEF InKernel
  <2>5. CASE callbacks' = callbacks /\ cq[k + 1] \notin Nonce
    <3>1. \A i \in k + 1 + 1 .. Len(cq) : i \in k + 1 .. Len(cq)
      BY <1>0, <2>2
    <3>2. \A n \in Nonce : InKernel(n, k + 1) => InKernel(n, k)
      BY <3>1 DEF InKernel
    <3> QED BY <1>0, <2>1, <2>2, <2>4, <2>5, <3>2 DEF Registered, InSQ
  <2>6. CASE callbacks' = callbacks \ {cq[k + 1]} /\ cq[k + 1] \in Nonce
    <3>1. /\ ~InSQ(cq[k + 1])
          /\ \A n \in Nonce : InKernel(n, k + 1) => InKernel(n, k) /\ n # cq[k + 1]
      BY <1>0, <2>2, <2>6, CurrentPlaces
    <3>2. \A n \in Nonce : InSQ(n)' => InSQ(n) /\ n # cq[k + 1]
      BY <2>1, <3>1 DEF InSQ
    <3> QED BY <1>0, <2>1, <2>2, <2>4, <2>6, <3>1, <3>2 DEF Registered
  <2> QED BY <2>3, <2>5, <2>6
<1>10. CASE LockCallback
  BY <1>a, <1>10 DEF LockCallback, ringVars, table, Handled
<1>11. CASE Quiet
  <2>1. Handled' = Handled
    BY <1>11 DEF Quiet, Handled
  <2> QED BY <1>a, <1>11, <2>1 DEF Quiet
<1>12. \E n \in Nonce : TRUE
  BY RingAssumption DEF Nonce
<1> QED BY <1>2, <1>3, <1>4, <1>5, <1>6, <1>7, <1>8, <1>9, <1>10, <1>11, <1>12, Effects

-----------------------------------------------------------------------------
(* The invariant holds at the start, every step keeps it, so it always     *)
(* holds.                                                                  *)
LEMMA InitIInv == Init => IInv
<1> SUFFICES ASSUME Init PROVE IInv
  OBVIOUS
<1>1. /\ sq \in Seq(SQE) /\ cq \in Seq(UserData) /\ Len(sq) = 0 /\ Len(cq) = 0
      /\ inflight = {} /\ << >> \in Seq(SQE)
  BY DEF Init, RingInit
<1>2. Idle \in CallerState
  BY <1>1 DEF Idle, CallerState
<1>3. TypeOK
  <2>1. caller \in [Callers -> CallerState]
    BY <1>2 DEF Init
  <2>2. RingTypeOK
    BY <1>1, RingConstants DEF Init, RingInit, RingTypeOK
  <2>3. batch \in [left : Nat, size : Nat] /\ 0 \in 0 .. MaxNonce /\ 0 \in 0 .. MaxCancels
    BY Constants, RingConstants DEF Init
  <2> QED BY <2>1, <2>2, <2>3, Zenon DEF Init, TypeOK
<1>4. \A c \in Callers : caller[c].at = "idle"
  BY DEF Init, Idle
<1>5. LockHeld /\ SubmitPending /\ StopOrder /\ NoSendOnClosed /\ NoLostSubmit
  BY <1>4 DEF Init, RingInit, LockHeld, SubmitPending, StopOrder, NoSendOnClosed, NoLostSubmit
<1>6. CallerQueues /\ OneCaller /\ NotQueued
  BY <1>4 DEF CallerQueues, OneCaller, NotQueued
<1>7. BatchInside /\ Handled = 0
  BY DEF Init, BatchInside, Handled
<1>8. \A n : ~InSQ(n) /\ ~InKernel(n, 0)
  BY <1>1 DEF InSQ, InKernel
<1>9. OneInRing
  <2>1. OneSQE
    BY <1>1 DEF OneSQE
  <2>2. OneCQE
    BY <1>1 DEF OneCQE
  <2>3. \A i \in 1 .. Len(cq) : cq[i] \notin inflight
    BY <1>1
  <2> QED BY <1>8, <2>1, <2>2, <2>3, Zenon DEF OneInRing
<1>10. HandedOut /\ Registered
  BY <1>7, <1>8 DEF HandedOut, Registered, InRing
<1> QED BY <1>3, <1>5, <1>6, <1>7, <1>9, <1>10 DEF IInv

LEMMA StepIInv == IInv /\ [Next]_vars => IInv'
BY StopStep, LockStep, TypeStep, QueuesStep, RingStep, BatchStep, PlaceStep, RegisteredStep
   DEF IInv

LEMMA Invariance == Spec => []IInv
BY InitIInv, StepIInv, PTL DEF Spec

(* The publisher never sleeps on SQEs that Queue put into the ring, with   *)
(* any number of callers and requests (reactor.go:230-277).                *)
THEOREM SubmitNeverLost == Spec => []NoLostSubmit
<1>1. IInv => NoLostSubmit
  BY DEF IInv
<1> QED BY <1>1, Invariance, PTL

(* runConsumer finds the callback of every CQE it handles, so it never     *)
(* calls a nil function (reactor.go:180-195 against 230-252).              *)
THEOREM CallbackAlwaysPresent == Spec => []CallbackPresent
<1>1. ASSUME IInv PROVE CallbackPresent
  <2>1. Len(cq) \in Nat /\ batch.left \in Nat /\ batch.size \in Nat /\ BatchInside /\ Registered
    BY <1>1 DEF IInv, TypeOK, RingTypeOK
  <2>2. ASSUME NEW i \in 1 .. Len(cq), cq[i] \in Nonce,
               consumer \in {"handle", "callback"} => i > batch.size - batch.left
        PROVE  cq[i] \in callbacks
    <3>1. i \in Handled + 1 .. Len(cq)
      BY <2>1, <2>2 DEF Handled, BatchInside
    <3>2. InKernel(cq[i], Handled)
      BY <3>1 DEF InKernel
    <3> QED BY <2>1, <2>2, <3>2 DEF Registered
  <2> QED BY <2>2 DEF CallbackPresent
<1> QED BY <1>1, Invariance, PTL

(* The consumer never sends on the channel that the publisher closes when  *)
(* it stops (reactor.go:79-91, 164, 257).                                  *)
THEOREM SignalNeverClosed == Spec => []NoSendOnClosed
<1>1. IInv => NoSendOnClosed
  BY DEF IInv
<1> QED BY <1>1, Invariance, PTL
=============================================================================
