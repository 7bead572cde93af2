-------------------------- MODULE SubmissionQueue --------------------------
(***************************************************************************)
(* The submission queue of an io_uring instance (uring/ring.go): one       *)
(* goroutine queues operations with QueueSQE and publishes them with       *)
(* Submit, while the kernel takes them either inside io_uring_enter or, on *)
(* a ring made WithSQPoll, from a kernel thread of its own that falls      *)
(* asleep when it has nothing to do.                                       *)
(*                                                                         *)
(* Ring memory shared with the kernel: kHead, kTail, kArray, sqes and the  *)
(* NEED_WAKEUP bit of kFlags. Private to the process: sqeHead, sqeTail and *)
(* the locals of the function being executed. The rings' users serialise   *)
(* the calls (queueSQELock in Reactor, the publisher goroutine in          *)
(* NetworkReactor), so there is one submitter.                             *)
(***************************************************************************)
EXTENDS RingCounters, Sequences

CONSTANTS Ops,         \* what an SQE can ask for (operation and user data)
          ZeroSQE,     \* a slot of the mapped SQE array nobody wrote yet
          Entries,     \* *kRingEntries
          SQPoll,      \* Params.flags & setupSQPoll # 0
          MovAtomics   \* built with the tag amd64_atomic

ASSUME SQAssumption ==
    /\ Entries \in Nat \ {0}
    /\ Modulus % Entries = 0
    /\ Entries + 1 < Modulus
    /\ SQPoll \in BOOLEAN
    /\ MovAtomics \in BOOLEAN
    /\ ZeroSQE \notin Ops

VARIABLES
    kHead,       \* next entry the kernel takes
    kTail,       \* end of the entries the kernel may take
    kArray,      \* ring of indices into sqes
    sqes,        \* the SQE slots
    needWakeup,  \* kFlags & sqNeedWakeup # 0
    sqeHead,     \* first SQE not yet moved to kArray
    sqeTail,     \* next SQE slot to hand out
    pc,          \* where the submitter is
    sqe,         \* what the QueueSQE call under way writes to its slot
    tail,        \* flushSQ's local
    flushed,     \* flushSQ's result, Submit's local
    tailStore,   \* the submitter's last store to kTail
    thread,      \* the kernel's SQ poll thread
    taken        \* the last SQE the kernel took

memory == <<kHead, kTail, kArray, sqes, needWakeup>>
private == <<sqeHead, sqeTail, sqe, tail, flushed>>
kernel == <<thread, taken>>
vars == <<memory, private, kernel, pc, tailStore>>

Slot == 0 .. (Entries - 1)

SlotOf(c) == Mask(c, Entries)

PCs == {"idle", "PrepSQE", "flush", "publish", "count", "needsEnter", "enter"}

TypeOK ==
    /\ kHead \in Counter /\ kTail \in Counter
    /\ kArray \in [Slot -> Slot]
    /\ sqes \in [Slot -> Ops \cup {ZeroSQE}]
    /\ needWakeup \in BOOLEAN
    /\ sqeHead \in Counter /\ sqeTail \in Counter
    /\ pc \in PCs
    /\ sqe \in Ops \cup {ZeroSQE}
    /\ tail \in Counter /\ flushed \in Counter /\ tailStore \in Counter
    /\ thread \in {"running", "parking", "asleep"}
    /\ taken \in Ops \cup {ZeroSQE}

(* allocRing: the kernel hands out zeroed pages, and its poll thread, when *)
(* there is one, is running.                                               *)
Init ==
    /\ kHead = 0 /\ kTail = 0
    /\ kArray = [i \in Slot |-> 0]
    /\ sqes = [i \in Slot |-> ZeroSQE]
    /\ needWakeup = FALSE
    /\ sqeHead = 0 /\ sqeTail = 0
    /\ pc = "idle"
    /\ sqe = ZeroSQE
    /\ tail = 0 /\ flushed = 0 /\ tailStore = 0
    /\ thread = "running"
    /\ taken = ZeroSQE

-----------------------------------------------------------------------------
(* QueueSQE. NextSQE reserves a slot if the kernel's head leaves one free  *)
(* (otherwise it returns ErrSQOverflow and nothing changes); PrepSQE and   *)
(* the two assignments after it then write the slot.                       *)

(* Mutant: the slot about to be handed out is not counted. *)
HasRoomOffByOne(head) == Sub(sqeTail, head) <= Entries

HasRoom(head) == Sub(Add(sqeTail, 1), head) <= Entries

NextSQE(op) ==
    /\ pc = "idle"
    /\ HasRoom(kHead)
    /\ sqeTail' = Add(sqeTail, 1)
    /\ sqe' = op
    /\ pc' = "PrepSQE"
    /\ UNCHANGED <<memory, sqeHead, tail, flushed, tailStore, kernel>>

PrepSQE ==
    /\ pc = "PrepSQE"
    /\ sqes' = [sqes EXCEPT ![SlotOf(Sub(sqeTail, 1))] = sqe]
    /\ pc' = "idle"
    /\ UNCHANGED <<kHead, kTail, kArray, needWakeup, private, tailStore, kernel>>

-----------------------------------------------------------------------------
(* Submit. flushSQ copies the reserved entries to kArray one by one, then  *)
(* stores kTail once, then counts what the kernel has not taken yet.       *)

(* Mutant: kTail is stored before the entries are in kArray. *)
FlushSQTailFirst ==
    /\ pc = "idle"
    /\ tail' = tailStore
    /\ kTail' = sqeTail
    /\ pc' = IF sqeTail = sqeHead THEN "count" ELSE "flush"
    /\ UNCHANGED <<kHead, kArray, sqes, needWakeup, sqeHead, sqeTail, sqe, flushed, tailStore, kernel>>

FlushSQ ==
    /\ pc = "idle"
    /\ tail' = tailStore
    /\ pc' = IF sqeTail = sqeHead THEN "count" ELSE "flush"
    /\ UNCHANGED <<memory, sqeHead, sqeTail, sqe, flushed, tailStore, kernel>>

ArrayEntry == SlotOf(sqeHead)

FlushEntry ==
    /\ pc = "flush"
    /\ kArray' = [kArray EXCEPT ![SlotOf(tail)] = ArrayEntry]
    /\ tail' = Add(tail, 1)
    /\ sqeHead' = Add(sqeHead, 1)
    /\ pc' = IF sqeHead' = sqeTail THEN "publish" ELSE "flush"
    /\ UNCHANGED <<kHead, kTail, sqes, needWakeup, sqeTail, sqe, flushed, tailStore, kernel>>

(* SmpStoreReleaseUint32(kTail, tail). An atomic store is in memory at     *)
(* once. A plain MOV waits in the processor's store buffer, where only the *)
(* submitter sees it, until Drain.                                         *)
StoreTail ==
    /\ pc = "publish"
    /\ tailStore' = tail
    /\ kTail' = IF MovAtomics THEN kTail ELSE tail
    /\ pc' = "count"
    /\ UNCHANGED <<kHead, kArray, sqes, needWakeup, private, kernel>>

Drain ==
    /\ kTail # tailStore
    /\ kTail' = tailStore
    /\ UNCHANGED <<kHead, kArray, sqes, needWakeup, private, kernel, pc, tailStore>>

Pending == Sub(tail, kHead)

CountPending ==
    /\ pc = "count"
    /\ flushed' = Pending
    /\ pc' = "needsEnter"
    /\ UNCHANGED <<memory, sqeHead, sqeTail, sqe, tail, tailStore, kernel>>

(* needsEnter: always without SQPOLL, otherwise only to wake the thread.   *)
(* Mutant: the wakeup bit is not looked at. *)
NeedsEnterNoWakeup ==
    /\ pc = "needsEnter"
    /\ pc' = IF ~SQPoll THEN "enter" ELSE "idle"
    /\ UNCHANGED <<memory, private, tailStore, kernel>>

NeedsEnter ==
    /\ pc = "needsEnter"
    /\ pc' = IF ~SQPoll \/ needWakeup THEN "enter" ELSE "idle"
    /\ UNCHANGED <<memory, private, tailStore, kernel>>

-----------------------------------------------------------------------------
(* The kernel. io_uring_enter without SQPOLL takes up to `flushed` entries *)
(* in the caller's context and may stop early (no memory for a request, a  *)
(* malformed request, a full completion backlog). With SQPOLL it wakes the *)
(* thread. A system call starts with the caller's stores in memory.        *)

TakeSQE ==
    /\ kHead # kTail
    /\ taken' = sqes[kArray[SlotOf(kHead)]]
    /\ kHead' = Add(kHead, 1)
    /\ UNCHANGED <<kTail, kArray, sqes>>

InEnter == pc = "enter" /\ kTail = tailStore

EnterTake ==
    /\ InEnter /\ ~SQPoll
    /\ flushed > 0
    /\ TakeSQE
    /\ flushed' = flushed - 1
    /\ UNCHANGED <<needWakeup, sqeHead, sqeTail, sqe, tail, thread, pc, tailStore>>

EnterReturn ==
    /\ InEnter /\ ~SQPoll
    /\ pc' = "idle"
    /\ UNCHANGED <<memory, private, tailStore, kernel>>

EnterWakeup ==
    /\ InEnter /\ SQPoll
    /\ thread' = "running"
    /\ needWakeup' = FALSE
    /\ pc' = "idle"
    /\ UNCHANGED <<kHead, kTail, kArray, sqes, private, tailStore, taken>>

(* The poll thread takes entries while there are any. Idle for longer than *)
(* sqThreadIdle, it raises NEED_WAKEUP, looks at the tail once more, and   *)
(* only then sleeps.                                                       *)
ThreadTake ==
    /\ SQPoll /\ thread = "running"
    /\ TakeSQE
    /\ UNCHANGED <<needWakeup, private, thread, pc, tailStore>>

ThreadIdle ==
    /\ SQPoll /\ thread = "running"
    /\ kHead = kTail
    /\ thread' = "parking"
    /\ needWakeup' = TRUE
    /\ UNCHANGED <<kHead, kTail, kArray, sqes, private, taken, pc, tailStore>>

ThreadPark ==
    /\ thread = "parking"
    /\ IF kHead = kTail
       THEN thread' = "asleep" /\ UNCHANGED needWakeup
       ELSE thread' = "running" /\ needWakeup' = FALSE
    /\ UNCHANGED <<kHead, kTail, kArray, sqes, private, taken, pc, tailStore>>

-----------------------------------------------------------------------------
SubmitStep == PrepSQE \/ FlushEntry \/ StoreTail \/ CountPending \/ NeedsEnter

KernelStep ==
    Drain \/ EnterTake \/ EnterReturn \/ EnterWakeup
          \/ ThreadTake \/ ThreadIdle \/ ThreadPark

Next ==
    \/ \E op \in Ops : NextSQE(op)
    \/ FlushSQ
    \/ SubmitStep
    \/ KernelStep

Spec == Init /\ [][Next]_vars

(* A call that was started finishes, the poll thread is scheduled while it *)
(* is not asleep, and a store leaves the store buffer. Nothing makes the   *)
(* program call QueueSQE or Submit.                                        *)
FairSpec ==
    /\ Spec
    /\ WF_vars(SubmitStep)
    /\ WF_vars(EnterReturn)
    /\ WF_vars(EnterWakeup)
    /\ WF_vars(ThreadTake)
    /\ WF_vars(ThreadPark)
    /\ WF_vars(Drain)

-----------------------------------------------------------------------------
(* Properties *)

(* The operations QueueSQE has accepted and the kernel has not taken, in   *)
(* the order of their slots. A slot NextSQE reserved counts once PrepSQE   *)
(* has written it.                                                         *)
Written == IF pc = "PrepSQE" THEN Sub(sqeTail, 1) ELSE sqeTail

Queued == [i \in 1 .. Sub(Written, kHead) |-> sqes[SlotOf(Add(kHead, i - 1))]]

BQ == INSTANCE BoundedQueue WITH Capacity <- Entries, queue <- Queued

(* The two-level ring (kArray over sqes) with wrapping counters, a kernel  *)
(* that takes entries at any moment and a submitter that reads a head that *)
(* may be stale (NextSQE, flushSQ) implements a first-in first-out queue   *)
(* of *kRingEntries operations: nothing is lost, duplicated, reordered or  *)
(* overwritten before the kernel took it.                                  *)
FIFO == BQ!Spec

(* The entries between kHead and kTail belong to the kernel: while one is  *)
(* there, neither its index in kArray nor the SQE it points to changes,    *)
(* whatever QueueSQE and flushSQ do for later entries.                     *)
Published(c) == Sub(c, kHead) < Sub(kTail, kHead)

PublishedStable ==
    [][\A c \in Counter :
          Published(c) /\ Published(c)' =>
              /\ kArray'[SlotOf(c)] = kArray[SlotOf(c)]
              /\ sqes'[kArray[SlotOf(c)]] = sqes[kArray[SlotOf(c)]]]_vars

(* The four counters keep their order around the ring: what the kernel may *)
(* take, what was stored to kTail, what flushSQ moved to kArray and what   *)
(* NextSQE handed out are nested stretches starting at kHead, and the last *)
(* is never longer than the ring, however often the counters wrapped.      *)
IndexOrder ==
    /\ Sub(kTail, kHead) <= Sub(tailStore, kHead)
    /\ Sub(tailStore, kHead) <= Sub(sqeHead, kHead)
    /\ Sub(sqeHead, kHead) <= Sub(sqeTail, kHead)
    /\ Sub(sqeTail, kHead) <= Entries

(* flushSQ's result counts entries the kernel has still to take: it is at  *)
(* most the ring size even when the poll thread took entries meanwhile     *)
(* (the unsigned difference tail - kHead never wraps below zero).          *)
FlushedBounded == flushed <= Entries

(* Submit and the poll thread agree on who acts: when the thread is asleep *)
(* with entries to take, the submitter is still in the part of Submit that *)
(* looks at NEED_WAKEUP and enters the kernel.                             *)
NoLostWakeup ==
    (thread = "asleep" /\ kHead # kTail) => pc \in {"count", "needsEnter", "enter"}

(* Submit "submits": an entry once published on an SQPOLL ring is taken by *)
(* the kernel without any further call of the program.                     *)
EventuallyTaken ==
    \A c \in Counter : (tailStore = c /\ kHead # c) ~> (kHead = c)

-----------------------------------------------------------------------------
(* The inductive invariant behind the safety properties. *)

FlushLocals ==
    /\ pc \notin {"flush", "publish"} => tailStore = sqeHead
    /\ pc \notin {"idle", "PrepSQE"} => tail = sqeHead
    /\ pc \in {"flush", "PrepSQE"} => sqeHead # sqeTail
    /\ pc = "publish" => sqeHead = sqeTail
    /\ pc = "PrepSQE" => sqe \in Ops

ArrayIdentity ==
    \A c \in Counter :
        Sub(c, kHead) < Sub(sqeHead, kHead) => kArray[SlotOf(c)] = SlotOf(c)

WakeupProtocol ==
    /\ thread # "running" => SQPoll /\ needWakeup
    /\ ~MovAtomics => kTail = tailStore /\ NoLostWakeup

IInv ==
    /\ TypeOK
    /\ IndexOrder
    /\ FlushLocals
    /\ ArrayIdentity
    /\ FlushedBounded
    /\ WakeupProtocol
=============================================================================
