----------------------------- MODULE EventLoop -----------------------------
(***************************************************************************)
(* One event loop of Reactor (reactor/reactor.go, ringEventLoop) with the  *)
(* goroutines that share it: the clients that call Queue,                  *)
(* QueueWithDeadline and Cancel, the consumer that waits for CQEs and runs *)
(* callbacks, the publisher that submits, and Run, which stops them. A     *)
(* callback runs in the consumer and may itself call the reactor. The ring *)
(* is the pair of queues that SubmissionQueue and CompletionQueue          *)
(* implement.                                                              *)
(*                                                                         *)
(* Steps are cut where another goroutine can see or change what they use:  *)
(* at the two mutexes, at the atomic needSubmit and at the channels. What  *)
(* is done under a mutex that the step takes and gives back is one step.   *)
(***************************************************************************)
EXTENDS RingService

CONSTANTS Clients,       \* goroutines that use the reactor
          MaxCancels     \* bound: how often they call Cancel altogether

Free == "free"
Publisher == "publisher"
Consumer == "consumer"

ASSUME LoopAssumption ==
    /\ MaxCancels \in Nat
    /\ {Free, Publisher, Consumer} \cap Clients = {}

(* Who calls the reactor: the clients, and a callback in the consumer. *)
Callers == Clients \cup {Consumer}

VARIABLES
    queueSQELock,   \* who holds loop.queueSQELock
    callbacksLock,  \* who holds loop.callbacksLock
    needSubmit,     \* loop.needSubmit
    leftover,       \* the last Submit did not take everything, and no Queue came since
    callbacks,      \* keys of loop.callbacks
    served,         \* requests whose callback was called
    currentNonce,   \* r.currentNonce
    cancels,        \* calls of Cancel so far
    caller,         \* per caller: where it is in Queue, and what it queues
    consumer,       \* where runConsumer is
    batch,          \* runConsumer's n and i: CQEs of the batch not handled, and its size
    publisher,      \* where runPublisher is
    run             \* where Run is

locks == <<queueSQELock, callbacksLock>>
table == <<callbacks, served>>
counters == <<currentNonce, cancels>>
cons == <<consumer, batch>>
pub == <<publisher, needSubmit, leftover>>
vars == <<locks, table, counters, ringVars, caller, cons, pub, run>>

CallerState ==
    [at : {"idle", "lock", "queue", "callback"},
     ud : Nonce \cup {cancelNonce}, sqes : Seq(SQE)]

TypeOK ==
    /\ queueSQELock \in Callers \cup {Publisher, Free}
    /\ callbacksLock \in {Consumer, Free}
    /\ needSubmit \in {0, 1} /\ leftover \in BOOLEAN
    /\ callbacks \subseteq Nonce \cup {cancelNonce} /\ served \subseteq Nonce
    /\ currentNonce \in 0 .. MaxNonce /\ cancels \in 0 .. MaxCancels
    /\ RingTypeOK
    /\ caller \in [Callers -> CallerState]
    /\ consumer \in {"signal", "wait", "handle", "callback", "check", "stopped"}
    /\ batch \in [left : Nat, size : Nat]
    /\ publisher \in {"select", "swap", "lock", "submit", "stopped"}
    /\ run \in {"running", "stopConsumer", "stopPublisher", "returned"}

Idle == [at |-> "idle", ud |-> cancelNonce, sqes |-> << >>]

Init ==
    /\ queueSQELock = Free /\ callbacksLock = Free
    /\ needSubmit = 0 /\ leftover = FALSE
    /\ callbacks = {} /\ served = {}
    /\ currentNonce = 0 /\ cancels = 0
    /\ RingInit
    /\ caller = [c \in Callers |-> Idle]
    /\ consumer = "signal" /\ batch = [left |-> 0, size |-> 0]
    /\ publisher = "select"
    /\ run = "running"

-----------------------------------------------------------------------------
(* Queue, QueueWithDeadline and Cancel. nextNonce skips the two reserved   *)
(* values; in a model with MaxNonce requests it never gets there.          *)

MayCall(c) == caller[c].at = "idle" /\ (c = Consumer => consumer = "callback")

Call(c, ud, sqes) ==
    /\ caller' = [caller EXCEPT ![c] = [at |-> "lock", ud |-> ud, sqes |-> sqes]]
    /\ UNCHANGED <<locks, table, ringVars, cons, pub, run>>

(* With a deadline the operation is linked to a timeout. *)
CallQueue(c) ==
    /\ MayCall(c)
    /\ currentNonce < MaxNonce
    /\ currentNonce' = currentNonce + 1
    /\ \E sqes \in {Operation(currentNonce'), OperationWithTimeout(currentNonce')} :
          Call(c, currentNonce', sqes)
    /\ UNCHANGED cancels

(* A caller knows the nonces that Queue returned. *)
CallCancel(c, n) ==
    /\ MayCall(c)
    /\ cancels < MaxCancels
    /\ cancels' = cancels + 1
    /\ n \in Nonce \cap (callbacks \cup served)
    /\ Call(c, cancelNonce, Cancellation(n))
    /\ UNCHANGED currentNonce

LockQueue(c) ==
    /\ caller[c].at = "lock"
    /\ queueSQELock = Free
    /\ queueSQELock' = c
    /\ needSubmit' = 1
    /\ leftover' = FALSE
    /\ caller' = [caller EXCEPT ![c].at = "queue"]
    /\ UNCHANGED <<callbacksLock, table, counters, ringVars, cons, publisher, run>>

(* Mutant: the lock is given up before the callback is registered. *)
LockAfterQueueFree(c) == Free

LockAfterQueue(c) == IF Room > 0 THEN c ELSE Free

(* If there is no room for the operation Queue returns the error. If there *)
(* is none for the timeout, that error is dropped and the operation stays  *)
(* queued.                                                                 *)
QueueSQEs(c) ==
    /\ caller[c].at = "queue"
    /\ QueueUpTo(caller[c].sqes)
    /\ caller' = [caller EXCEPT ![c] = IF Room > 0 THEN [@ EXCEPT !.at = "callback"] ELSE Idle]
    /\ queueSQELock' = LockAfterQueue(c)
    /\ UNCHANGED <<callbacksLock, table, counters, cons, pub, run>>

(* Mutant: queueSQELock stays locked. *)
RegisterKeepsLock(c) ==
    /\ caller[c].at = "callback"
    /\ callbacksLock = Free
    /\ callbacks' = callbacks \cup {caller[c].ud}
    /\ caller' = [caller EXCEPT ![c] = Idle]
    /\ UNCHANGED <<locks, served, counters, ringVars, cons, pub, run>>

Register(c) ==
    /\ caller[c].at = "callback"
    /\ callbacksLock = Free
    /\ callbacks' = callbacks \cup {caller[c].ud}
    /\ queueSQELock' = Free
    /\ caller' = [caller EXCEPT ![c] = Idle]
    /\ UNCHANGED <<callbacksLock, served, counters, ringVars, cons, pub, run>>

-----------------------------------------------------------------------------
(* The kernel's side: requests complete at any time, and SQEs are taken    *)
(* while the publisher is in Submit.                                       *)

Complete(n) ==
    /\ CompleteRequest(n)
    /\ UNCHANGED <<locks, table, counters, caller, cons, pub, run>>

TakeSQE ==
    /\ publisher = "submit"
    /\ TakeOne
    /\ UNCHANGED <<locks, table, counters, caller, cons, pub, run>>

-----------------------------------------------------------------------------
(* runPublisher. Receiving from the unbuffered submitSignal is one step    *)
(* with the consumer's send.                                               *)

Signal ==
    /\ consumer = "signal" /\ publisher = "select"
    /\ consumer' = "wait"
    /\ publisher' = "swap"
    /\ UNCHANGED <<locks, table, counters, ringVars, caller, batch, needSubmit, leftover, run>>

(* Mutant: the publisher only tries the lock, with the flag cleared already. *)
MustSubmitTry == needSubmit = 1 /\ queueSQELock = Free

MustSubmit == needSubmit = 1

SwapNeedSubmit ==
    /\ publisher = "swap"
    /\ publisher' = IF MustSubmit THEN "lock" ELSE "select"
    /\ needSubmit' = 0
    /\ UNCHANGED <<locks, table, counters, ringVars, caller, cons, leftover, run>>

LockSubmit ==
    /\ publisher = "lock"
    /\ queueSQELock = Free
    /\ queueSQELock' = Publisher
    /\ publisher' = "submit"
    /\ UNCHANGED <<callbacksLock, table, counters, ringVars, caller, cons, needSubmit,
                   leftover, run>>

(* Submit may fail (EBUSY, EAGAIN) or take a part only. Its error is       *)
(* logged; a short count is not looked at.                                 *)
SubmitReturn ==
    /\ publisher = "submit"
    /\ queueSQELock' = Free
    /\ publisher' = "select"
    /\ leftover' = (sq # << >>)
    /\ EndSubmit
    /\ UNCHANGED <<callbacksLock, table, counters, caller, cons, needSubmit, run>>

-----------------------------------------------------------------------------
(* runConsumer. WaitCQEventsWithTimeout(1, tick) returns a CQE if there is *)
(* one; otherwise it may return an error (ETIME, EINTR) at any time.       *)

ConsumerGoto(from, to) ==
    /\ consumer = from
    /\ consumer' = to
    /\ UNCHANGED <<locks, table, counters, ringVars, caller, batch, pub, run>>

(* Mutant: after a timeout the stop channel is not looked at. *)
WaitFailsNoCheck == cq = << >> /\ ConsumerGoto("wait", "signal")

WaitFails == cq = << >> /\ ConsumerGoto("wait", "check")

(* PeekCQEventBatch into a buffer of BatchSize, of what is in the ring.   *)
PeekBatch(events) ==
    LET n == BatchCount(events)
    IN  /\ batch' = [left |-> n, size |-> n]
        /\ consumer' = IF n = 0 THEN "check" ELSE "handle"

WaitSucceeds ==
    /\ consumer = "wait" /\ cq # << >>
    /\ PeekBatch(cq)
    /\ UNCHANGED <<locks, table, counters, ringVars, caller, pub, run>>

CurrentCQE == cq[batch.size - batch.left + 1]

SkipReserved ==
    /\ consumer = "handle" /\ batch.left > 0
    /\ CurrentCQE \in {timeoutNonce, cancelNonce}
    /\ batch' = [batch EXCEPT !.left = @ - 1]
    /\ UNCHANGED <<locks, table, counters, ringVars, caller, consumer, pub, run>>

LockCallback ==
    /\ consumer = "handle" /\ batch.left > 0
    /\ CurrentCQE \in Nonce
    /\ callbacksLock = Free
    /\ callbacksLock' = Consumer
    /\ consumer' = "callback"
    /\ UNCHANGED <<queueSQELock, table, counters, ringVars, caller, batch, pub, run>>

(* The callback returns, and is forgotten, with callbacksLock held. *)
RunCallback ==
    /\ consumer = "callback" /\ caller[Consumer] = Idle
    /\ served' = served \cup {CurrentCQE}
    /\ callbacks' = callbacks \ {CurrentCQE}
    /\ callbacksLock' = Free
    /\ batch' = [batch EXCEPT !.left = @ - 1]
    /\ consumer' = "handle"
    /\ UNCHANGED <<queueSQELock, counters, ringVars, caller, pub, run>>

(* AdvanceCQ, and the next batch. *)
AdvanceCQ ==
    /\ consumer = "handle" /\ batch.left = 0
    /\ Advance(batch.size)
    /\ PeekBatch(cq')
    /\ UNCHANGED <<locks, table, counters, caller, pub, run>>

(* The select with a default branch: the stop request is taken if Run is   *)
(* at its send.                                                            *)
Continue == run # "stopConsumer" /\ ConsumerGoto("check", "signal")

-----------------------------------------------------------------------------
(* Run stops the consumer, then the publisher: a send that the goroutine   *)
(* receives, and a receive that returns when it closes the channel. The    *)
(* publisher closes submitSignal as it returns.                            *)

CancelContext ==
    /\ run = "running"
    /\ run' = "stopConsumer"
    /\ UNCHANGED <<locks, table, counters, ringVars, caller, cons, pub>>

(* Mutant: the consumer acknowledges the stop request but does not return. *)
StopConsumerStays ==
    /\ run = "stopConsumer" /\ consumer = "check"
    /\ consumer' = "signal"
    /\ run' = "stopPublisher"
    /\ UNCHANGED <<locks, table, counters, ringVars, caller, batch, pub>>

StopConsumer ==
    /\ run = "stopConsumer" /\ consumer = "check"
    /\ consumer' = "stopped"
    /\ run' = "stopPublisher"
    /\ UNCHANGED <<locks, table, counters, ringVars, caller, batch, pub>>

StopPublisher ==
    /\ run = "stopPublisher" /\ publisher = "select"
    /\ publisher' = "stopped"
    /\ run' = "returned"
    /\ UNCHANGED <<locks, table, counters, ringVars, caller, cons, needSubmit, leftover>>

-----------------------------------------------------------------------------
CallerStep(c) == LockQueue(c) \/ QueueSQEs(c) \/ Register(c)

ConsumerStep ==
    \/ WaitSucceeds \/ WaitFails \/ SkipReserved \/ LockCallback \/ RunCallback
    \/ AdvanceCQ \/ Continue \/ StopConsumer

PublisherStep == SwapNeedSubmit \/ LockSubmit \/ TakeSQE \/ SubmitReturn \/ StopPublisher

Next ==
    \/ \E c \in Callers :
          \/ CallQueue(c)
          \/ \E n \in Nonce : CallCancel(c, n)
          \/ CallerStep(c)
    \/ \E n \in Nonce : Complete(n)
    \/ Signal
    \/ PublisherStep
    \/ ConsumerStep
    \/ CancelContext

Spec == Init /\ [][Next]_vars

(* Goroutines are scheduled, a mutex is not withheld for ever from a       *)
(* goroutine that waits for it (Go's starvation mode), and a linked        *)
(* timeout expires. Nothing says that an operation completes.              *)
FairSpec ==
    /\ Spec
    /\ \A c \in Callers : SF_vars(CallerStep(c))
    /\ WF_vars(Signal)
    /\ SF_vars(PublisherStep)
    /\ SF_vars(ConsumerStep)
    /\ \A n \in Nonce : WF_vars(n \in armed /\ Complete(n))

-----------------------------------------------------------------------------
(* Properties *)

(* A callback is inside Queue or Cancel. It runs with callbacksLock held,  *)
(* which Queue wants in the end, so this blocks the loop for good.         *)
Reentered == caller[Consumer] # Idle

(* Submit left the request in the ring, and no Queue has come since to     *)
(* make the publisher submit again.                                        *)
LeftBehind(n) == leftover /\ \E i \in 1 .. Len(sq) : sq[i].ud = n

(* No SQE is forgotten: if Queue left one in the ring, then needSubmit is  *)
(* set or the publisher has cleared it and is on its way to Submit. (Queue *)
(* sets it before it queues, the publisher clears it before it submits.)   *)
(* The exception is what a refused or short Submit left there.             *)
NoLostSubmit ==
    sq # << >> => needSubmit = 1 \/ publisher \in {"lock", "submit"} \/ leftover

(* A CQE never finds its callback missing: runConsumer would call a nil    *)
(* function. In particular no request is answered twice, and the callback  *)
(* is registered before the ring can have seen the SQE.                    *)
CallbackPresent ==
    \A i \in 1 .. Len(cq) :
        (cq[i] \in Nonce /\ (consumer \in {"handle", "callback"} => i > batch.size - batch.left))
            => cq[i] \in callbacks

(* The consumer never sends on submitSignal after the publisher closed it. *)
NoSendOnClosed == consumer = "signal" => publisher # "stopped"

(* Every request that Queue accepted has its callback called, also when    *)
(* only its deadline ends it, unless the reactor is stopped. What the loop *)
(* can do nothing about is an operation in flight without a timeout; what  *)
(* it does nothing about is a request that Submit left behind.             *)
Served ==
    \A n \in Nonce :
        (n \in callbacks) ~> (\/ n \in served \/ run # "running" \/ Reentered
                              \/ n \in inflight \ armed \/ LeftBehind(n))

(* Queue and Cancel return: neither the two locks nor a publisher that     *)
(* submits, a consumer that runs callbacks or a stopped reactor block them *)
(* for ever, unless a callback has called them.                            *)
QueueReturns ==
    \A c \in Clients : (caller[c].at # "idle") ~> (caller[c].at = "idle" \/ Reentered)

(* Run returns once its context is cancelled, whatever the clients and the *)
(* kernel do, unless a callback is blocked in the reactor.                 *)
RunReturns == (run # "running") ~> (run = "returned" \/ Reentered)

(* What the code does not keep (see README.md).                            *)


(* Queue may be called from a callback.                                    *)
CallbackReturns == Reentered ~> ~Reentered

-----------------------------------------------------------------------------
(* The inductive invariant behind NoLostSubmit, CallbackPresent and        *)
(* NoSendOnClosed (EventLoopProofs).                                       *)

(* Who is in a critical section of queueSQELock holds it. *)
LockHeld ==
    /\ \A c \in Callers : caller[c].at \in {"queue", "callback"} => queueSQELock = c
    /\ publisher = "submit" => queueSQELock = Publisher

(* A caller that is about to queue has set needSubmit. *)
SubmitPending ==
    (\E c \in Callers : caller[c].at = "queue") =>
        needSubmit = 1 \/ publisher \in {"lock", "submit"}

(* Run stops the consumer first. *)
StopOrder ==
    /\ run \in {"stopPublisher", "returned"} => consumer = "stopped"
    /\ publisher = "stopped" => run = "returned"

(* What a caller queues belongs to the nonce it got. *)
CallerQueues ==
    \A c \in Callers :
        caller[c].at # "idle" =>
            \/ caller[c].ud \in 1 .. currentNonce
               /\ caller[c].sqes \in {Operation(caller[c].ud), OperationWithTimeout(caller[c].ud)}
            \/ caller[c].ud = cancelNonce /\ \E n \in Nonce : caller[c].sqes = Cancellation(n)

(* The batch is at the front of cq. *)
BatchInside ==
    consumer \in {"handle", "callback"} =>
        /\ batch.left <= batch.size /\ batch.size <= Len(cq)
        /\ consumer = "callback" => batch.left > 0 /\ CurrentCQE \in Nonce

(* A nonce is with one caller; one that the caller has not queued is not   *)
(* in the ring.                                                            *)
OneCaller ==
    \A c, d \in Callers :
        /\ caller[c].at # "idle" /\ caller[d].at # "idle"
        /\ caller[c].ud = caller[d].ud /\ caller[c].ud \in Nonce
        => c = d

NotQueued ==
    \A c \in Callers, n \in Nonce :
        caller[c].at \in {"lock", "queue"} /\ caller[c].ud = n => ~InRing(n)

(* What is in the ring was handed out, and its callback is registered, or  *)
(* about to be by the caller that holds queueSQELock.                      *)
HandedOut == \A n \in Nonce : InRing(n) => n <= currentNonce

Handled == IF consumer \in {"handle", "callback"} THEN batch.size - batch.left ELSE 0

Registered ==
    \A n \in Nonce :
        /\ InSQ(n) => \/ n \in callbacks
                      \/ \E c \in Callers : caller[c].at = "callback" /\ caller[c].ud = n
        /\ InKernel(n, Handled) => n \in callbacks

IInv ==
    /\ TypeOK
    /\ LockHeld /\ SubmitPending /\ NoLostSubmit /\ StopOrder /\ NoSendOnClosed
    /\ CallerQueues /\ BatchInside
    /\ OneInRing /\ OneCaller /\ NotQueued /\ HandedOut /\ Registered
=============================================================================
