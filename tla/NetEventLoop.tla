---------------------------- MODULE NetEventLoop ----------------------------
(***************************************************************************)
(* One event loop of NetworkReactor (reactor/net.go, ringNetEventLoop).    *)
(* Unlike EventLoop, only the publisher touches the submission queue:      *)
(* clients register their callback, which gives the request its id, and    *)
(* send the request to the publisher over the buffered channel reqBuss.    *)
(* Callbacks run without a lock held and may queue the next request.       *)
(*                                                                         *)
(* The callback registry appears as what Registry implements: a map from   *)
(* ids, each handed out once, to callbacks.                                *)
(***************************************************************************)
EXTENDS RingService

CONSTANTS Clients,         \* goroutines that use the reactor
          BusCap,          \* capacity of reqBuss
          MaxCancels       \* bound: how often clients call Cancel altogether

ASSUME NetAssumption == BusCap \in Nat \ {0} /\ MaxCancels \in Nat

VARIABLES
    registry,       \* ids with a registered callback
    served,         \* requests whose callback was called
    dropped,        \* requests the publisher popped for want of room
    nextID,         \* requests made so far
    cancels,        \* calls of Cancel so far
    reqBuss,        \* the channel's contents, oldest first
    client,         \* per client: the request it is sending, if any
    consumer,       \* where runConsumer is
    batch,          \* CQEs of the batch not handled yet, and its size
    sending,        \* the request a callback is sending
    publisher,      \* where runPublisher is
    submitAllowed,  \* loop.submitAllowed
    took,           \* the Submit under way took an SQE
    leftover,       \* a Submit that is not retried left SQEs, and no request came since
    run             \* where Run is

table == <<registry, served, dropped>>
clients == <<client, nextID, cancels>>
cons == <<consumer, batch, sending>>
pub == <<publisher, submitAllowed, took, leftover>>
vars == <<ringVars, table, clients, reqBuss, cons, pub, run>>

(* subSqeRequest: what to queue, and for which id. *)
Request == [id : Nonce \cup {cancelNonce}, sqes : Seq(SQE)]

NoRequest == [id |-> 0, sqes |-> << >>]

TypeOK ==
    /\ RingTypeOK
    /\ registry \subseteq Nonce /\ served \subseteq Nonce /\ dropped \subseteq Nonce
    /\ nextID \in 0 .. MaxNonce /\ cancels \in 0 .. MaxCancels
    /\ reqBuss \in Seq(Request) /\ Len(reqBuss) <= BusCap
    /\ client \in [Clients -> Request \cup {NoRequest}]
    /\ consumer \in {"signal", "wait", "signal2", "handle", "callback", "check", "stopped"}
    /\ batch \in [left : Nat, size : Nat]
    /\ sending \in Request \cup {NoRequest}
    /\ publisher \in {"select", "swap", "submit", "stopped"}
    /\ submitAllowed \in {0, 1} /\ took \in BOOLEAN /\ leftover \in BOOLEAN
    /\ run \in {"running", "stopConsumer", "stopPublisher", "returned", "crashed"}

Init ==
    /\ RingInit
    /\ registry = {} /\ served = {} /\ dropped = {}
    /\ nextID = 0 /\ cancels = 0
    /\ reqBuss = << >>
    /\ client = [c \in Clients |-> NoRequest]
    /\ consumer = "signal" /\ batch = [left |-> 0, size |-> 0] /\ sending = NoRequest
    /\ publisher = "select" /\ submitAllowed = 0 /\ took = FALSE /\ leftover = FALSE
    /\ run = "running"

-----------------------------------------------------------------------------
(* Clients. Queue registers the callback, then sends the request. *)

Requests(id) ==
    {[id |-> id, sqes |-> sqes] : sqes \in {Operation(id), OperationWithTimeout(id)}}

CallQueue(c) ==
    /\ client[c] = NoRequest
    /\ nextID < MaxNonce
    /\ nextID' = nextID + 1
    /\ registry' = registry \cup {nextID'}
    /\ \E r \in Requests(nextID') : client' = [client EXCEPT ![c] = r]
    /\ UNCHANGED <<ringVars, served, dropped, cancels, reqBuss, cons, pub, run>>

(* A client knows the ids that Queue returned. *)
CallCancel(c, n) ==
    /\ client[c] = NoRequest
    /\ cancels < MaxCancels
    /\ n \in 1 .. nextID
    /\ sending.id # n /\ \A d \in Clients : client[d].id # n
    /\ cancels' = cancels + 1
    /\ client' = [client EXCEPT ![c] = [id |-> cancelNonce, sqes |-> Cancellation(n)]]
    /\ UNCHANGED <<ringVars, table, nextID, reqBuss, cons, pub, run>>

CanSend == Len(reqBuss) < BusCap /\ publisher # "stopped"

Send(c) ==
    /\ client[c] # NoRequest
    /\ CanSend
    /\ reqBuss' = Append(reqBuss, client[c])
    /\ client' = [client EXCEPT ![c] = NoRequest]
    /\ UNCHANGED <<ringVars, table, nextID, cancels, cons, pub, run>>

Crash ==
    /\ run' = "crashed"
    /\ UNCHANGED <<ringVars, table, clients, reqBuss, cons, pub>>

(* The publisher closes reqBuss when it stops: a client that sends, or is  *)
(* blocked sending, panics, and the process with it.                       *)
SendPanics(c) == client[c] # NoRequest /\ publisher = "stopped" /\ Crash

-----------------------------------------------------------------------------
(* runPublisher *)

(* Mutant: the callback is dropped when the request takes the last entry.  *)
DroppedLast(r) == IF Len(r.sqes) < Room THEN {} ELSE {r.id} \cap Nonce

(* If the operation or its timeout finds no room, the callback is dropped. *)
(* A cancel request has no callback: its user data names none.             *)
Dropped(r) == IF Len(r.sqes) <= Room THEN {} ELSE {r.id} \cap Nonce

Receive ==
    /\ publisher = "select"
    /\ reqBuss # << >>
    /\ reqBuss' = Tail(reqBuss)
    /\ submitAllowed' = 1
    /\ leftover' = FALSE
    /\ QueueUpTo(Head(reqBuss).sqes)
    /\ registry' = registry \ Dropped(Head(reqBuss))
    /\ dropped' = IF Len(Head(reqBuss).sqes) <= Room THEN dropped
                  ELSE dropped \cup ({Head(reqBuss).id} \cap Nonce)
    /\ UNCHANGED <<served, clients, cons, publisher, took, run>>

(* The consumer's two sends on the unbuffered submitSignal; after the      *)
(* second it peeks.                                                        *)
PeekBatch(events) ==
    LET n == BatchCount(events)
    IN  /\ batch' = [left |-> n, size |-> n]
        /\ consumer' = IF n = 0 THEN "check" ELSE "handle"

Signal ==
    /\ publisher = "select"
    /\ \/ consumer = "signal" /\ consumer' = "wait" /\ UNCHANGED batch
       \/ consumer = "signal2" /\ PeekBatch(cq)
    /\ publisher' = "swap"
    /\ UNCHANGED <<ringVars, table, clients, reqBuss, sending, took, submitAllowed,
                   leftover, run>>

SwapSubmitAllowed ==
    /\ publisher = "swap"
    /\ publisher' = IF submitAllowed = 1 THEN "submit" ELSE "select"
    /\ submitAllowed' = 0
    /\ took' = FALSE
    /\ UNCHANGED <<ringVars, table, clients, reqBuss, cons, leftover, run>>

TakeSQE ==
    /\ publisher = "submit"
    /\ TakeOne
    /\ took' = TRUE
    /\ UNCHANGED <<table, clients, reqBuss, cons, publisher, submitAllowed, leftover, run>>

SubmitReturn(allowed, left) ==
    /\ publisher = "submit"
    /\ publisher' = "select"
    /\ submitAllowed' = allowed
    /\ leftover' = left
    /\ EndSubmit
    /\ UNCHANGED <<table, clients, reqBuss, cons, took, run>>

SubmitAll == sq = << >> /\ SubmitReturn(submitAllowed, FALSE)

(* Mutant: a refusal is not retried. *)
SubmitRefusedDropped == sq # << >> /\ ~took /\ SubmitReturn(submitAllowed, FALSE)

(* EBUSY and EAGAIN, when no SQE was taken, are retried at the next tick.  *)
SubmitRefused == sq # << >> /\ ~took /\ SubmitReturn(1, FALSE)

(* Any other error is logged; a short count is a success. Neither is       *)
(* retried.                                                                *)
SubmitNotRetried == sq # << >> /\ SubmitReturn(submitAllowed, TRUE)

-----------------------------------------------------------------------------
(* runConsumer *)

ConsumerGoto(from, to) ==
    /\ consumer = from
    /\ consumer' = to
    /\ UNCHANGED <<ringVars, table, clients, reqBuss, batch, sending, pub, run>>

WaitSucceeds == cq # << >> /\ ConsumerGoto("wait", "signal2")

(* Mutant: after a timeout the stop channel is not looked at. *)
WaitFailsNoCheck == cq = << >> /\ ConsumerGoto("wait", "signal")

WaitFails == cq = << >> /\ ConsumerGoto("wait", "check")

Handling == consumer = "handle" /\ batch.left > 0

CurrentCQE == cq[batch.size - batch.left + 1]

HandleNext == batch' = [batch EXCEPT !.left = @ - 1]

SkipReserved ==
    /\ Handling /\ CurrentCQE \in {timeoutNonce, cancelNonce}
    /\ HandleNext
    /\ UNCHANGED <<ringVars, table, clients, reqBuss, consumer, sending, pub, run>>

(* The callback is taken out of the registry, then called. It may queue a  *)
(* request, which it then sends.                                           *)
RunCallback ==
    /\ Handling /\ CurrentCQE \in Nonce \cap registry
    /\ served' = served \cup {CurrentCQE}
    /\ HandleNext
    /\ \/ /\ registry' = registry \ {CurrentCQE}
          /\ UNCHANGED <<nextID, consumer, sending>>
       \/ /\ nextID < MaxNonce
          /\ nextID' = nextID + 1
          /\ registry' = (registry \ {CurrentCQE}) \cup {nextID'}
          /\ sending' \in Requests(nextID')
          /\ consumer' = "callback"
    /\ UNCHANGED <<ringVars, dropped, client, cancels, reqBuss, pub, run>>

(* pop returns nil for an id that is not registered, and calling it        *)
(* panics.                                                                 *)
NilCallback == Handling /\ CurrentCQE \in Nonce \ registry /\ Crash

CallbackSends ==
    /\ consumer = "callback"
    /\ CanSend
    /\ reqBuss' = Append(reqBuss, sending)
    /\ sending' = NoRequest
    /\ consumer' = "handle"
    /\ UNCHANGED <<ringVars, table, clients, batch, pub, run>>

(* AdvanceCQ, and the next batch. *)
AdvanceCQ ==
    /\ consumer = "handle" /\ batch.left = 0
    /\ Advance(batch.size)
    /\ PeekBatch(cq')
    /\ UNCHANGED <<table, clients, reqBuss, sending, pub, run>>

Continue == run # "stopConsumer" /\ ConsumerGoto("check", "signal")

-----------------------------------------------------------------------------
(* Run, as in EventLoop. The publisher closes submitSignal and reqBuss as  *)
(* it returns.                                                             *)

CancelContext ==
    /\ run = "running"
    /\ run' = "stopConsumer"
    /\ UNCHANGED <<ringVars, table, clients, reqBuss, cons, pub>>

(* Mutant: the consumer acknowledges the stop request but does not return. *)
StopConsumerStays ==
    /\ run = "stopConsumer" /\ consumer = "check"
    /\ consumer' = "signal"
    /\ run' = "stopPublisher"
    /\ UNCHANGED <<ringVars, table, clients, reqBuss, batch, sending, pub>>

StopConsumer ==
    /\ run = "stopConsumer" /\ consumer = "check"
    /\ consumer' = "stopped"
    /\ run' = "stopPublisher"
    /\ UNCHANGED <<ringVars, table, clients, reqBuss, batch, sending, pub>>

StopPublisher ==
    /\ run = "stopPublisher" /\ publisher = "select"
    /\ publisher' = "stopped"
    /\ run' = "returned"
    /\ UNCHANGED <<ringVars, table, clients, reqBuss, cons, took, submitAllowed, leftover>>

Complete(n) ==
    /\ CompleteRequest(n)
    /\ UNCHANGED <<table, clients, reqBuss, cons, pub, run>>

-----------------------------------------------------------------------------
ConsumerStep ==
    \/ WaitSucceeds \/ WaitFails \/ SkipReserved \/ RunCallback \/ NilCallback
    \/ CallbackSends \/ AdvanceCQ \/ Continue \/ StopConsumer

PublisherStep ==
    \/ SwapSubmitAllowed \/ SubmitAll \/ SubmitRefused \/ SubmitNotRetried \/ StopPublisher

Next ==
    /\ run # "crashed"
    /\ \/ \E c \in Clients :
            \/ CallQueue(c)
            \/ \E n \in Nonce : CallCancel(c, n)
            \/ Send(c) \/ SendPanics(c)
       \/ Receive \/ Signal \/ TakeSQE \/ PublisherStep
       \/ ConsumerStep
       \/ \E n \in Nonce : Complete(n)
       \/ CancelContext

Spec == Init /\ [][Next]_vars

Alive(A) == run # "crashed" /\ A

(* Goroutines are scheduled; a goroutine blocked on a channel gets its     *)
(* turn (channels keep their waiters in order), and select chooses among   *)
(* its ready cases at random, so none is passed over for ever; the kernel  *)
(* does not refuse SQEs for ever, and a linked timeout expires. Nothing    *)
(* says that an operation completes.                                       *)
FairSpec ==
    /\ Spec
    /\ \A c \in Clients : SF_vars(Alive(Send(c)))
    /\ SF_vars(Alive(Receive)) /\ SF_vars(Alive(Signal)) /\ SF_vars(Alive(TakeSQE))
    /\ WF_vars(Alive(PublisherStep))
    /\ SF_vars(Alive(ConsumerStep))
    /\ \A n \in Nonce : WF_vars(Alive(n \in armed /\ Complete(n)))

-----------------------------------------------------------------------------
(* Properties *)

(* A request on its way has its callback: whatever is on the bus, queued,  *)
(* in flight or completed can still be answered, and only once; else       *)
(* runConsumer would call nil. The exception is an operation whose timeout *)
(* alone found no room: its callback was dropped and it was submitted.     *)
RequestHasCallback ==
    LET kept == registry \cup dropped
    IN  /\ \A i \in 1 .. Len(reqBuss) : reqBuss[i].id \in Nonce => reqBuss[i].id \in registry
        /\ \A i \in 1 .. Len(sq) : sq[i].ud \in Nonce => sq[i].ud \in kept
        /\ inflight \subseteq kept
        /\ \A i \in 1 .. Len(cq) :
              (cq[i] \in Nonce
                  /\ (consumer \in {"handle", "callback"} => i > batch.size - batch.left))
              => cq[i] \in kept

(* The consumer never sends on a channel that the publisher closed.        *)
NoSendOnClosed ==
    consumer \in {"signal", "signal2", "callback"} => publisher # "stopped"

(* Submit left the request in the ring, and it is not retried.             *)
LeftBehind(n) == leftover /\ \E i \in 1 .. Len(sq) : sq[i].ud = n

(* Every request gets its callback called, also when only its deadline     *)
(* ends it and when the kernel refuses submissions for a while, unless the *)
(* reactor is stopped. What the loop can do nothing about is an operation  *)
(* in flight without a timeout; what it does nothing about is a request    *)
(* that found no room, or that a short or failed Submit left behind.       *)
Served ==
    \A n \in Nonce :
        (n \in registry) ~> (\/ n \in served \/ n \in dropped \/ run # "running"
                             \/ n \in inflight \ armed \/ LeftBehind(n))

(* Run returns once its context is cancelled, also when a callback is      *)
(* blocked sending a request on the full bus, unless a client that still   *)
(* uses the reactor, or a dropped callback, brings the process down.       *)
RunReturns == (run # "running") ~> (run \in {"returned", "crashed"})

(* What the code does not keep (see README.md).                            *)

(* No completion finds its callback gone.                                  *)
NoNilCallback == Handling /\ CurrentCQE \in Nonce => CurrentCQE \in registry

(* A request that Queue took is not dropped.                               *)
NothingDropped == dropped = {}

(* A client may use the reactor while it is being stopped.                 *)
NoSendPanic == \A c \in Clients : client[c] # NoRequest => publisher # "stopped"

-----------------------------------------------------------------------------
(* The inductive invariant behind RequestHasCallback and NoSendOnClosed    *)
(* (NetEventLoopProofs).                                                   *)

(* Run stops the consumer first. *)
StopOrder ==
    run \in {"stopPublisher", "returned"} \/ publisher = "stopped" => consumer = "stopped"

(* A callback sends a request, and only a callback does in the consumer. *)
CallbackSending == consumer = "callback" <=> sending # NoRequest

(* A request is an operation with an id Queue got, or a cancel request.    *)
Sound(r, last) ==
    \/ r.id \in 1 .. last /\ r \in Requests(r.id)
    \/ \E n \in Nonce : r = [id |-> cancelNonce, sqes |-> Cancellation(n)]

AllSound ==
    /\ \A c \in Clients : client[c] # NoRequest => Sound(client[c], nextID)
    /\ sending # NoRequest => Sound(sending, nextID)
    /\ \A i \in 1 .. Len(reqBuss) : Sound(reqBuss[i], nextID)

(* The batch is at the front of cq. *)
BatchInside ==
    consumer \in {"handle", "callback"} => batch.left <= batch.size /\ batch.size <= Len(cq)

(* An id is with one client or the callback, or at one place of the bus.   *)
Sending(n) == sending.id = n \/ \E c \in Clients : client[c].id = n

OnBus(n) == \E i \in 1 .. Len(reqBuss) : reqBuss[i].id = n

OneRequest ==
    /\ \A c, d \in Clients : client[c].id \in Nonce /\ client[c].id = client[d].id => c = d
    /\ \A c \in Clients : client[c].id \in Nonce => client[c].id # sending.id
    /\ \A n \in Nonce : Sending(n) => ~OnBus(n)
    /\ \A i, j \in 1 .. Len(reqBuss) :
          reqBuss[i].id \in Nonce /\ reqBuss[i].id = reqBuss[j].id => i = j

(* Until the publisher queues it, it is not in the ring. *)
NotQueued == \A n \in Nonce : Sending(n) \/ OnBus(n) => ~InRing(n)

HandedOut == \A n \in Nonce : Sending(n) \/ OnBus(n) \/ InRing(n) => n <= nextID

(* Its callback is registered until it is called, or dropped.              *)
Handled == IF consumer \in {"handle", "callback"} THEN batch.size - batch.left ELSE 0

Registered ==
    \A n \in Nonce :
        /\ Sending(n) \/ OnBus(n) => n \in registry
        /\ InSQ(n) \/ InKernel(n, Handled) => n \in registry \cup dropped

IInv ==
    /\ TypeOK
    /\ StopOrder /\ CallbackSending /\ AllSound /\ BatchInside
    /\ OneInRing /\ OneRequest /\ NotQueued /\ HandedOut /\ Registered
=============================================================================
