-------------------------- MODULE CompletionQueue --------------------------
(***************************************************************************)
(* The completion side of a ring (uring/ring.go): the kernel posts CQEs to *)
(* a ring of Entries slots, or to a backlog when the ring is full, and one *)
(* goroutine reads them with PeekCQE, WaitCQEvents,                        *)
(* WaitCQEventsWithTimeout, SubmitAndWaitCQEvents or PeekCQEventBatch and  *)
(* gives the slots back with SeenCQE or AdvanceCQ. The first four are one  *)
(* loop, getCQEvents, with different parameters.                           *)
(*                                                                         *)
(* The submission queue appears as what SubmissionQueue implements, a      *)
(* bounded first-in first-out queue. A request is identified by its user   *)
(* data, which the program may use again once it is done with the CQE.     *)
(***************************************************************************)
EXTENDS RingCounters, Sequences, FiniteSets

CONSTANTS Requests,    \* user data of the program's requests
          Timers,      \* the library's own timeout requests (libUserDataTimeout)
          NoRequest,   \* what the program has read before its first CQE
          Entries,     \* *cqRing.kRingEntries
          SQEntries,   \* *sqRing.kRingEntries
          ExtArg,      \* Params.ExtArgFeature()
          Calls,       \* the calls of getCQEvents the program makes
          MaxWait,     \* bound on cnt
          BatchSize    \* len(cqeBuff)

CallKinds == {"Wait", "WaitTimeout", "SubmitAndWait"}

ASSUME CQAssumption ==
    /\ Entries \in Nat \ {0}
    /\ Modulus % Entries = 0
    /\ Entries + 1 < Modulus
    /\ SQEntries \in Nat \ {0}
    /\ ExtArg \in BOOLEAN
    /\ Calls \subseteq CallKinds
    /\ MaxWait \in Nat
    /\ BatchSize \in Nat \ {0}
    /\ Requests \cap Timers = {}
    /\ NoRequest \notin Requests \cup Timers

Events == Requests \cup Timers

VARIABLES
    sq,        \* queued SQEs, oldest first
    inflight,  \* requests the kernel has taken and not completed
    cHead,     \* *cqRing.kHead
    cTail,     \* *cqRing.kTail
    cqes,      \* the CQE slots
    backlog,   \* completions that found the ring full
    pc,        \* where the consumer is
    kind,      \* which function called getCQEvents
    waitNr,    \* params.waitNr
    submit,    \* params.submit
    avail,     \* getCQEvents' local `available`
    cqe,       \* cqe # nil; it then points to the slot of cHead
    err,       \* err
    getEvents, \* the enter under way has IORING_ENTER_GETEVENTS
    consumed,  \* SQEs the enter under way has taken
    timedOut,  \* a timeout request completed during the enter under way
    held,      \* CQE pointers the program holds, from cHead on
    read,      \* how many of them it has read
    last       \* the last event it read

ring == <<cHead, cTail, cqes, backlog>>
locals == <<kind, waitNr, submit, avail, cqe, err, getEvents, consumed, timedOut>>
program == <<held, read, last>>
vars == <<sq, inflight, ring, pc, locals, program>>

Slot == 0 .. (Entries - 1)

SlotOf(c) == Mask(c, Entries)

Ready == Sub(cTail, cHead)

(* sqRing.cqNeedFlush: the kernel keeps the bit while it has a backlog.    *)
NeedFlush == backlog # << >>

Errs == {"nil", "EAGAIN", "EINTR", "ETIME", "EBUSY"}

PCs == {"idle", "peek", "decide", "enter", "wait", "after", "returned",
        "flush", "rebatch", "reading"}

TypeOK ==
    /\ sq \in Seq(Events) /\ Len(sq) <= SQEntries
    /\ inflight \subseteq Events
    /\ cHead \in Counter /\ cTail \in Counter
    /\ cqes \in [Slot -> Events \cup {NoRequest}]
    /\ backlog \in Seq(Events)
    /\ pc \in PCs
    /\ kind \in CallKinds
    /\ waitNr \in 0 .. MaxWait
    /\ submit \in 0 .. SQEntries
    /\ avail \in 0 .. Entries
    /\ cqe \in BOOLEAN
    /\ err \in Errs
    /\ getEvents \in BOOLEAN
    /\ consumed \in 0 .. SQEntries
    /\ timedOut \in BOOLEAN
    /\ held \in 0 .. Entries
    /\ read \in 0 .. held
    /\ last \in Events \cup {NoRequest}

Init ==
    /\ sq = << >> /\ inflight = {}
    /\ cHead = 0 /\ cTail = 0
    /\ cqes = [i \in Slot |-> NoRequest]
    /\ backlog = << >>
    /\ pc = "idle"
    /\ kind = "Wait" /\ waitNr = 0 /\ submit = 0 /\ avail = 0
    /\ cqe = FALSE /\ err = "nil"
    /\ getEvents = FALSE /\ consumed = 0 /\ timedOut = FALSE
    /\ held = 0 /\ read = 0 /\ last = NoRequest

(* Requests whose user data is in use. *)
InRing == {cqes[SlotOf(Add(cHead, i))] : i \in 0 .. (Ready - 1)}

Elems(s) == {s[i] : i \in DOMAIN s}

Busy == Elems(sq) \cup inflight \cup InRing \cup Elems(backlog)

-----------------------------------------------------------------------------
(* The kernel and the submitting goroutine. *)

QueueSQE(r) ==
    /\ submit = 0
    /\ Len(sq) < SQEntries
    /\ r \notin Busy
    /\ sq' = Append(sq, r)
    /\ UNCHANGED <<inflight, ring, pc, locals, program>>

TakeSQE ==
    /\ sq # << >>
    /\ inflight' = inflight \cup {Head(sq)}
    /\ sq' = Tail(sq)

(* The other goroutine's Submit. A caller of SubmitAndWaitCQEvents, or of  *)
(* WaitCQEventsWithTimeout on an old kernel, is itself the submitter.      *)
Submit ==
    /\ submit = 0
    /\ TakeSQE
    /\ UNCHANGED <<ring, pc, locals, program>>

(* With IORING_FEAT_NODROP a completion that finds no room, or others that *)
(* wait for room before it, goes to the backlog.                           *)
Complete(r) ==
    /\ r \in inflight
    /\ inflight' = inflight \ {r}
    /\ timedOut' = (timedOut \/ (pc = "wait" /\ r \in Timers))
    /\ IF Ready < Entries /\ backlog = << >>
       THEN /\ cqes' = [cqes EXCEPT ![SlotOf(cTail)] = r]
            /\ cTail' = Add(cTail, 1)
            /\ UNCHANGED backlog
       ELSE /\ backlog' = Append(backlog, r)
            /\ UNCHANGED <<cqes, cTail>>
    /\ UNCHANGED <<sq, cHead, pc, kind, waitNr, submit, avail, cqe, err, getEvents, consumed, program>>

(* An enter with GETEVENTS moves the backlog to the ring as far as there   *)
(* is room.                                                                *)
FlushBacklog ==
    LET room == Entries - Ready
        n == IF Len(backlog) < room THEN Len(backlog) ELSE room
    IN  /\ cqes' = [s \in Slot |->
                      IF \E i \in 1 .. n : s = SlotOf(Add(cTail, i - 1))
                      THEN backlog[CHOOSE i \in 1 .. n : s = SlotOf(Add(cTail, i - 1))]
                      ELSE cqes[s]]
        /\ cTail' = Add(cTail, n)
        /\ backlog' = SubSeq(backlog, n + 1, Len(backlog))
        /\ UNCHANGED cHead

-----------------------------------------------------------------------------
(* getCQEvents *)

Begin(k, cnt) ==
    /\ pc = "idle"
    /\ kind' = k
    /\ waitNr' = cnt
    /\ cqe' = FALSE /\ err' = "nil" /\ timedOut' = FALSE
    /\ pc' = "peek"
    /\ UNCHANGED <<ring, avail, getEvents, consumed, program>>

(* WaitCQEvents, and PeekCQE when cnt = 0. *)
WaitCQEvents(cnt) ==
    /\ "Wait" \in Calls
    /\ Begin("Wait", cnt)
    /\ submit' = 0
    /\ UNCHANGED <<sq, inflight>>

SubmitAndWaitCQEvents(cnt) ==
    /\ "SubmitAndWait" \in Calls
    /\ Begin("SubmitAndWait", cnt)
    /\ submit' = Len(sq)
    /\ UNCHANGED <<sq, inflight>>

(* With the extended argument the timeout goes to the kernel with the      *)
(* wait. Otherwise it is a timeout request of its own, queued behind the   *)
(* program's and submitted with them. When the queue is full the code      *)
(* submits first; if that takes nothing it fails and so does the call.     *)
WaitCQEventsWithTimeout(cnt) ==
    /\ "WaitTimeout" \in Calls
    /\ ExtArg
    /\ Begin("WaitTimeout", cnt)
    /\ submit' = 0
    /\ UNCHANGED <<sq, inflight>>


(* flushSQ's result: everything queued, the timeout request included. *)
ToSubmit == Len(sq')

QueueTimeout(cnt, taken) ==
    /\ "WaitTimeout" \in Calls
    /\ ~ExtArg
    /\ Len(sq) = SQEntries <=> taken > 0
    /\ Begin("WaitTimeout", cnt)
    /\ inflight' = inflight \cup Elems(SubSeq(sq, 1, taken))
    /\ \E t \in Timers \ Busy : sq' = Append(SubSeq(sq, taken + 1, Len(sq)), t)
    /\ submit' = ToSubmit

QueueTimeoutFails ==
    /\ "WaitTimeout" \in Calls
    /\ ~ExtArg
    /\ pc = "idle"
    /\ Len(sq) = SQEntries
    /\ cqe' = FALSE /\ err' = "EBUSY"
    /\ pc' = "returned"
    /\ UNCHANGED <<sq, inflight, ring, kind, waitNr, submit, avail, getEvents,
                   consumed, timedOut, program>>

(* peekCQEvent. The library's own timeout requests are consumed here, and  *)
(* since their result is never positive they always end the call.          *)
Peek ==
    /\ pc = "peek"
    /\ avail' = Ready
    /\ IF Ready = 0
       THEN cqe' = FALSE /\ pc' = "decide" /\ UNCHANGED <<cHead, err>>
       ELSE IF ~ExtArg /\ cqes[SlotOf(cHead)] \in Timers
       THEN cqe' = FALSE /\ err' = "ETIME" /\ cHead' = Add(cHead, 1) /\ pc' = "returned"
       ELSE cqe' = TRUE /\ pc' = "decide" /\ UNCHANGED <<cHead, err>>
    /\ UNCHANGED <<sq, inflight, cTail, cqes, backlog, kind, waitNr, submit, getEvents,
                   consumed, timedOut, program>>

NothingAsked == ~cqe /\ waitNr = 0 /\ submit = 0

DecideAgain ==
    /\ pc = "decide"
    /\ NothingAsked /\ ~NeedFlush
    /\ err' = "EAGAIN"
    /\ pc' = "returned"
    /\ UNCHANGED <<sq, inflight, ring, kind, waitNr, submit, avail, cqe, getEvents,
                   consumed, timedOut, program>>


WantsEvents == waitNr > avail \/ NothingAsked

DecideEnter ==
    /\ pc = "decide"
    /\ ~(NothingAsked /\ ~NeedFlush)
    /\ getEvents' = WantsEvents
    /\ pc' = IF WantsEvents \/ submit # 0 THEN "enter" ELSE "returned"
    /\ consumed' = 0
    /\ timedOut' = FALSE
    /\ UNCHANGED <<sq, inflight, ring, kind, waitNr, submit, avail, cqe, err, program>>

(* io_uring_enter: takes SQEs; returns if it could not take all it was     *)
(* asked to take, with an error when it took none; then flushes and waits. *)
EnterTake ==
    /\ pc = "enter"
    /\ consumed < submit
    /\ TakeSQE
    /\ consumed' = consumed + 1
    /\ UNCHANGED <<ring, pc, kind, waitNr, submit, avail, cqe, err, getEvents, timedOut, program>>

EnterPartial ==
    /\ pc = "enter"
    /\ consumed < submit
    /\ err' = IF consumed = 0 THEN "EBUSY" ELSE "nil"
    /\ pc' = "after"
    /\ UNCHANGED <<sq, inflight, ring, kind, waitNr, submit, avail, cqe, getEvents,
                   consumed, timedOut, program>>

EnterAll ==
    /\ pc = "enter"
    /\ consumed = submit
    /\ IF getEvents
       THEN pc' = "wait" /\ FlushBacklog
       ELSE pc' = "after" /\ UNCHANGED ring
    /\ UNCHANGED <<sq, inflight, locals, program>>

Enough == Ready >= waitNr \/ Ready >= Entries \/ timedOut

EnterWaited ==
    /\ pc = "wait"
    /\ Enough
    /\ pc' = "after"
    /\ UNCHANGED <<sq, inflight, ring, locals, program>>

(* A signal, or the timeout of the extended argument. The call reports it  *)
(* only if it has no SQEs to report.                                       *)
EnterInterrupted ==
    /\ pc = "wait"
    /\ ~Enough
    /\ \E e \in {"EINTR"} \cup (IF kind = "WaitTimeout" /\ ExtArg THEN {"ETIME"} ELSE {}) :
          err' = IF consumed = 0 THEN e ELSE "nil"
    /\ pc' = "after"
    /\ UNCHANGED <<sq, inflight, ring, kind, waitNr, submit, avail, cqe, getEvents,
                   consumed, timedOut, program>>

AfterEnter ==
    /\ pc = "after"
    /\ IF err # "nil"
       THEN pc' = "returned" /\ UNCHANGED submit
       ELSE /\ submit' = submit - consumed
            /\ pc' = IF cqe THEN "returned" ELSE "peek"
    /\ UNCHANGED <<sq, inflight, ring, kind, waitNr, avail, cqe, err, getEvents,
                   consumed, timedOut, program>>

(* Back in the program, which may use the CQE it got or leave it. *)
Returned(use) ==
    /\ pc = "returned"
    /\ use => cqe
    /\ held' = IF use THEN 1 ELSE 0
    /\ pc' = IF use THEN "reading" ELSE "idle"
    /\ submit' = 0
    /\ UNCHANGED <<sq, inflight, ring, kind, waitNr, avail, cqe, err, getEvents,
                   consumed, timedOut, read, last>>

-----------------------------------------------------------------------------
(* PeekCQEventBatch *)

(* Mutant: more than is ready is filled. *)
BatchCountMax == IF Ready = 0 THEN 0 ELSE IF BatchSize < Entries THEN BatchSize ELSE Entries

BatchCount == IF Ready < BatchSize THEN Ready ELSE BatchSize

PeekBatch(from, onEmpty) ==
    /\ pc = from
    /\ held' = BatchCount
    /\ pc' = IF BatchCount > 0 THEN "reading" ELSE onEmpty
    /\ UNCHANGED <<sq, inflight, ring, locals, read, last>>

PeekCQEventBatch == PeekBatch("idle", "flush")

(* Mutant: an empty ring is taken to mean that there are no completions. *)
BatchFlushNever ==
    /\ pc = "flush"
    /\ pc' = "idle"
    /\ UNCHANGED <<sq, inflight, ring, locals, program>>

BatchFlush ==
    /\ pc = "flush"
    /\ IF NeedFlush
       THEN FlushBacklog /\ pc' = "rebatch"
       ELSE UNCHANGED ring /\ pc' = "idle"
    /\ UNCHANGED <<sq, inflight, locals, program>>

PeekAgain == PeekBatch("rebatch", "idle")

(* The program follows the pointers it was given, then frees the slots. *)
ReadCQE ==
    /\ pc = "reading"
    /\ read < held
    /\ last' = cqes[SlotOf(Add(cHead, read))]
    /\ read' = read + 1
    /\ UNCHANGED <<sq, inflight, ring, pc, locals, held>>

(* Mutant: the slots are given back before the CQEs are read. *)
AdvanceCQEarly(n) ==
    /\ pc = "reading"
    /\ cHead' = Add(cHead, n)
    /\ held' = 0 /\ read' = 0
    /\ pc' = "idle"
    /\ UNCHANGED <<sq, inflight, cTail, cqes, backlog, locals, last>>

AdvanceCQ(n) ==
    /\ pc = "reading"
    /\ read = held
    /\ cHead' = Add(cHead, n)
    /\ held' = 0 /\ read' = 0
    /\ pc' = "idle"
    /\ UNCHANGED <<sq, inflight, cTail, cqes, backlog, locals, last>>

-----------------------------------------------------------------------------
Call(cnt) ==
    \/ WaitCQEvents(cnt)
    \/ SubmitAndWaitCQEvents(cnt)
    \/ WaitCQEventsWithTimeout(cnt)
    \/ \E taken \in 0 .. SQEntries : QueueTimeout(cnt, taken)

Enter == EnterTake \/ EnterPartial \/ EnterAll \/ EnterWaited \/ EnterInterrupted

GetCQEvents == Peek \/ DecideAgain \/ DecideEnter \/ AfterEnter

Use == Returned(TRUE) \/ ReadCQE \/ AdvanceCQ(held)

Next ==
    \/ \E r \in Requests : QueueSQE(r)
    \/ Submit
    \/ \E r \in Events : Complete(r)
    \/ \E cnt \in 0 .. MaxWait : Call(cnt)
    \/ QueueTimeoutFails
    \/ Enter
    \/ GetCQEvents
    \/ Returned(FALSE)
    \/ Use
    \/ PeekCQEventBatch \/ BatchFlush \/ PeekAgain

Spec == Init /\ [][Next]_vars

(* A call that can go on does, the program deals with what it got, and it  *)
(* keeps calling PeekCQEventBatch, whatever else it calls in between, as   *)
(* runConsumer does. Nothing is assumed of the requests: they may never    *)
(* complete, and a wait may never be interrupted.                          *)
FairSpec ==
    /\ Spec
    /\ WF_vars(GetCQEvents)
    /\ WF_vars(EnterTake \/ EnterPartial \/ EnterAll \/ EnterWaited)
    /\ WF_vars(Returned(FALSE) \/ Use)
    /\ SF_vars(PeekCQEventBatch)
    /\ WF_vars(BatchFlush \/ PeekAgain)

(* On an old kernel the timeout requests, once taken, expire. *)
FairTimerSpec == FairSpec /\ \A t \in Timers : WF_vars(Complete(t))

-----------------------------------------------------------------------------
(* Properties *)

(* Completions the program has not read, oldest first. *)
Unread ==
    [i \in 1 .. (Ready - read) |-> cqes[SlotOf(Add(cHead, read + i - 1))]] \o backlog

EventQueue ==
    INSTANCE BoundedQueue WITH Ops <- Requests, Capacity <- Cardinality(Requests),
                               queue <- Unread, taken <- last

(* Every completion is read exactly once and in the order of completion:   *)
(* with a ring that fills up, a backlog that is flushed only when the      *)
(* library asks for it, wrapping counters, single and batch reads, the CQ  *)
(* is a first-in first-out queue that never refuses a completion.          *)
EventFIFO == EventQueue!Spec

(* The CQE pointers getCQEvents and PeekCQEventBatch return stay good      *)
(* until SeenCQE or AdvanceCQ: the kernel posts to no slot the program     *)
(* still holds.                                                            *)
HeldStable ==
    [][pc = "reading" /\ pc' = "reading" =>
          \A i \in 0 .. (held - 1) :
             cqes'[SlotOf(Add(cHead, i))] = cqes[SlotOf(Add(cHead, i))]]_vars

(* WaitCQEvents and WaitCQEventsWithTimeout return without an error only   *)
(* with a CQE, and only once the cnt CQEs they were asked for are there    *)
(* (or a full ring of them, which is all there can be).                    *)
Honoured ==
    cqe /\ (Ready >= waitNr \/ Ready >= Entries)


(* A completion, posted to the ring or to the backlog, is eventually read. *)
EventuallyRead ==
    \A r \in Requests : (r \in Elems(Unread)) ~> (r \notin Elems(Unread))


(* "SubmitAndWaitCQEvents submit new SQEs in SQE and wait cnt CQEs in CQ." *)
(* (uring/ring.go:396): a call that succeeds leaves no fewer than cnt CQEs *)
(* in the queue.                                                           *)
SubmitAndWaitHonoured ==
    (pc = "returned" /\ err = "nil" /\ kind = "SubmitAndWait") => Honoured

(* "PeekCQE return first available CQE from CQ." (uring/ring.go:406): when *)
(* the program's CQEs are in the ring, peekCQEvent returns one.            *)
PeekReturnsFirst ==
    [][pc = "peek" /\ pc' # "peek" /\ InRing \cap Requests # {} => cqe']_vars
=============================================================================
