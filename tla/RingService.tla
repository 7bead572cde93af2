---------------------------- MODULE RingService ----------------------------
(***************************************************************************)
(* A ring as the event loops of package reactor see it: a submission queue *)
(* and a completion queue, first-in first-out and exactly once (what       *)
(* SubmissionQueue and CompletionQueue establish), and a kernel that works *)
(* on the requests in between. Requests are told apart by their user data. *)
(***************************************************************************)
EXTENDS Naturals, Sequences, FiniteSets

CONSTANTS MaxNonce,      \* bound: requests the clients queue altogether
          SQEntries,     \* size of the submission ring
          BatchSize      \* cqeBuffSize

ASSUME RingAssumption ==
    /\ MaxNonce \in Nat \ {0}
    /\ SQEntries \in Nat \ {0}
    /\ BatchSize \in Nat \ {0}

VARIABLES
    sq,             \* SQEs in the submission ring, oldest first
    inflight,       \* requests the kernel works on
    armed,          \* those of them with a linked timeout
    chain,          \* the linked operation whose next SQE is not taken yet
    cq              \* CQEs in the completion ring, oldest first

ringVars == <<sq, inflight, armed, chain, cq>>

Nonce == 1 .. MaxNonce

(* User data that names no request: math.MaxUint64 and math.MaxUint64 - 1. *)
timeoutNonce == MaxNonce + 2
cancelNonce == MaxNonce + 1

UserData == Nonce \cup {timeoutNonce, cancelNonce}

SQE == [ud : UserData, link : BOOLEAN, target : Nonce \cup {0}]

RingTypeOK ==
    /\ sq \in Seq(SQE) /\ Len(sq) <= SQEntries
    /\ inflight \subseteq Nonce
    /\ armed \subseteq inflight
    /\ chain \in inflight \cup {0}
    /\ cq \in Seq(UserData)

RingInit ==
    /\ sq = << >>
    /\ inflight = {} /\ armed = {} /\ chain = 0
    /\ cq = << >>

-----------------------------------------------------------------------------
(* What the event loops queue. *)

Operation(n) == <<[ud |-> n, link |-> FALSE, target |-> 0]>>

OperationWithTimeout(n) ==
    <<[ud |-> n, link |-> TRUE, target |-> 0],
      [ud |-> timeoutNonce, link |-> FALSE, target |-> 0]>>

Cancellation(n) == <<[ud |-> cancelNonce, link |-> FALSE, target |-> n]>>

Room == SQEntries - Len(sq)

(* QueueSQE for each SQE in turn, up to the first that finds no room. *)
QueueUpTo(sqes) ==
    /\ sq' = sq \o SubSeq(sqes, 1, IF Len(sqes) < Room THEN Len(sqes) ELSE Room)
    /\ UNCHANGED <<inflight, armed, chain, cq>>

-----------------------------------------------------------------------------
(* The kernel takes SQEs one by one. An operation with the link flag       *)
(* starts only when the SQE after it is taken too, or the system call      *)
(* ends; that SQE is its timeout, or none. A cancel request completes the  *)
(* request it names if that is in flight. Linked timeouts and cancel       *)
(* requests post CQEs too.                                                 *)

CQEsOf(n) == IF n \in armed THEN <<n, timeoutNonce>> ELSE <<n>>

CompleteRequest(n) ==
    /\ n \in inflight \ {chain}
    /\ cq' = cq \o CQEsOf(n)
    /\ inflight' = inflight \ {n}
    /\ armed' = armed \ {n}
    /\ UNCHANGED <<sq, chain>>

TakeOperation(e) ==
    /\ e.ud \in Nonce
    /\ inflight' = inflight \cup {e.ud}
    /\ chain' = IF e.link THEN e.ud ELSE 0
    /\ UNCHANGED <<armed, cq>>

TakeTimeout(e) ==
    /\ e.ud = timeoutNonce
    /\ armed' = armed \cup ({chain} \ {0})
    /\ cq' = IF chain = 0 THEN Append(cq, timeoutNonce) ELSE cq
    /\ chain' = 0
    /\ UNCHANGED inflight

TakeCancel(e) ==
    /\ e.ud = cancelNonce
    /\ cq' = IF e.target \in inflight
             THEN (cq \o CQEsOf(e.target)) \o <<cancelNonce>>
             ELSE Append(cq, cancelNonce)
    /\ inflight' = inflight \ {e.target}
    /\ armed' = armed \ {e.target}
    /\ chain' = 0

TakeOne ==
    /\ sq # << >>
    /\ TakeOperation(Head(sq)) \/ TakeTimeout(Head(sq)) \/ TakeCancel(Head(sq))
    /\ sq' = Tail(sq)

EndSubmit == chain' = 0 /\ UNCHANGED <<sq, inflight, armed, cq>>

-----------------------------------------------------------------------------
(* PeekCQEventBatch and AdvanceCQ. *)

BatchCount(events) == IF Len(events) < BatchSize THEN Len(events) ELSE BatchSize

Advance(n) ==
    /\ cq' = SubSeq(cq, n + 1, Len(cq))
    /\ UNCHANGED <<sq, inflight, armed, chain>>

-----------------------------------------------------------------------------
(* Where a request is, for the invariants of the event loops: queued, or   *)
(* with the kernel, that is in flight or completed and not among the first *)
(* k CQEs.                                                                 *)

InSQ(n) == \E i \in 1 .. Len(sq) : sq[i].ud = n

InKernel(n, k) == n \in inflight \/ \E i \in k + 1 .. Len(cq) : cq[i] = n

InRing(n) == InSQ(n) \/ InKernel(n, 0)

(* A request is at one place of sq, in flight, or at one place of cq. *)
OneSQE == \A i, j \in 1 .. Len(sq) : sq[i].ud \in Nonce /\ sq[i].ud = sq[j].ud => i = j

OneCQE == \A i, j \in 1 .. Len(cq) : cq[i] \in Nonce /\ cq[i] = cq[j] => i = j

OneInRing ==
    /\ OneSQE
    /\ \A n \in Nonce : InSQ(n) => ~InKernel(n, 0)
    /\ \A i \in 1 .. Len(cq) : cq[i] \notin inflight
    /\ OneCQE
=============================================================================
