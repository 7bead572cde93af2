-------------------------------- MODULE Conn --------------------------------
(***************************************************************************)
(* A connection of package net (net/netconn.go): Read, Write, the deadline *)
(* setters and Close, called by several goroutines. Read and Write are the *)
(* same code on two sets of fields; a side is one of the two sets.         *)
(*                                                                         *)
(* The event loop that serves the connection appears as NetEventLoop       *)
(* describes it: requests are published in the order in which they were    *)
(* sent to it, and its consumer runs callbacks one after the other. All    *)
(* requests of a connection have the same descriptor, so they go to the    *)
(* same loop.                                                              *)
(***************************************************************************)
EXTENDS Naturals, Sequences, FiniteSets

CONSTANTS Goroutines, Nobody,
          Sides,         \* sides in use
          Deadlines,     \* deadlines the setters are called with
          MaxRequests,   \* bound: calls of Read and Write
          MaxSets,       \* bound: calls of the setters
          Closable       \* Close may be called

(* A deadline is none (the zero time), past, or future; or it is now, the  *)
(* instant at which time.Until is 0.                                       *)
Times == {"none", "past", "now", "future"}

ASSUME ConnAssumption ==
    /\ Nobody \notin Goroutines
    /\ Sides \subseteq {"read", "write"}
    /\ Deadlines \subseteq Times
    /\ MaxRequests \in Nat /\ MaxSets \in Nat
    /\ Closable \in BOOLEAN

VARIABLES
    pc,         \* per goroutine: where it is, with its arguments
    lock,       \* per side: holder of readLock, writeLock
    buffer,     \* per side: whose buffer readOp, sendOp point to
    lastOpID,   \* per side: lastReadOpID, lastWriteOpID
    deadline,   \* per side: readDeadline, writeDeadline
    open,       \* the descriptor is open
    calls,      \* calls of Read and Write
    ids,        \* request ids handed out
    sets,       \* calls of the setters
    bus,        \* requests sent to the event loop and not published
    inflight,   \* operations published and not completed
    events,     \* completions whose callback did not finish, oldest first
    got         \* per goroutine: the event its last operation received

conn == <<lock, buffer, lastOpID, deadline, open>>
reactor == <<bus, inflight, events>>
counts == <<calls, ids, sets>>
vars == <<pc, conn, reactor, counts, got>>

ID == 0 .. MaxRequests

Request == [kind : {"op", "cancel"}, id : ID, side : Sides, timed : BOOLEAN]

Published == [id : ID, side : Sides, timed : BOOLEAN, buf : Goroutines \cup {Nobody}]

Event == [id : ID, side : Sides, buf : Goroutines \cup {Nobody},
          res : {"data", "eof", "error", "canceled"}]

State == [at : {"idle", "lock", "queue", "assign", "receive", "cancel", "set"},
          sides : Seq(Sides), id : ID, when : Times]

At(at, sides, id, when) == [at |-> at, sides |-> sides, id |-> id, when |-> when]

Idle == At("idle", << >>, 0, "none")

TypeOK ==
    /\ pc \in [Goroutines -> State]
    /\ lock \in [Sides -> Goroutines \cup {Nobody}]
    /\ buffer \in [Sides -> Goroutines \cup {Nobody}]
    /\ lastOpID \in [Sides -> ID]
    /\ deadline \in [Sides -> Times]
    /\ open \in BOOLEAN
    /\ calls \in ID /\ ids \in ID /\ sets \in 0 .. MaxSets
    /\ bus \in Seq(Request)
    /\ inflight \subseteq Published
    /\ \A s \in Sides : Cardinality({p \in inflight : p.side = s}) <= 1
    /\ events \in Seq(Event)
    /\ got \in [Goroutines -> [wanted : ID, id : ID, buf : Goroutines \cup {Nobody}]]

Init ==
    /\ pc = [g \in Goroutines |-> Idle]
    /\ lock = [s \in Sides |-> Nobody]
    /\ buffer = [s \in Sides |-> Nobody]
    /\ lastOpID = [s \in Sides |-> 0]
    /\ deadline = [s \in Sides |-> "none"]
    /\ open = TRUE
    /\ calls = 0 /\ ids = 0 /\ sets = 0
    /\ bus = << >> /\ inflight = {} /\ events = << >>
    /\ got = [g \in Goroutines |-> [wanted |-> 0, id |-> 0, buf |-> g]]

Side(g) == Head(pc[g].sides)

-----------------------------------------------------------------------------
(* Read and Write *)

CallOp(g, s) ==
    /\ pc[g] = Idle
    /\ calls < MaxRequests
    /\ calls' = calls + 1
    /\ pc' = [pc EXCEPT ![g] = At("lock", <<s>>, 0, "none")]
    /\ UNCHANGED <<conn, reactor, ids, sets, got>>

(* Mutant: the lock is not taken. *)
LockUnguarded(g) ==
    /\ pc[g].at = "lock"
    /\ lock' = [lock EXCEPT ![Side(g)] = g]
    /\ buffer' = [buffer EXCEPT ![Side(g)] = g]
    /\ pc' = [pc EXCEPT ![g].at = "queue"]
    /\ UNCHANGED <<lastOpID, deadline, open, reactor, counts, got>>

Lock(g) ==
    /\ pc[g].at = "lock"
    /\ lock[Side(g)] = Nobody
    /\ lock' = [lock EXCEPT ![Side(g)] = g]
    /\ buffer' = [buffer EXCEPT ![Side(g)] = g]
    /\ pc' = [pc EXCEPT ![g].at = "queue"]
    /\ UNCHANGED <<lastOpID, deadline, open, reactor, counts, got>>


(* QueueWithDeadline: no deadline, and a timeout of 0, mean no timeout.    *)
Timed(when) == when \notin {"none", "now"}

(* The field is read without a lock. The id is returned when the request   *)
(* is on its way.                                                          *)
QueueOp(g) ==
    /\ pc[g].at = "queue"
    /\ ids' = ids + 1
    /\ bus' = Append(bus, [kind |-> "op", id |-> ids', side |-> Side(g),
                           timed |-> Timed(deadline[Side(g)])])
    /\ pc' = [pc EXCEPT ![g].at = "assign", ![g].id = ids']
    /\ UNCHANGED <<conn, inflight, events, calls, sets, got>>

AssignOpID(g) ==
    /\ pc[g].at = "assign"
    /\ lastOpID' = [lastOpID EXCEPT ![Side(g)] = pc[g].id]
    /\ pc' = [pc EXCEPT ![g].at = "receive"]
    /\ UNCHANGED <<lock, buffer, deadline, open, reactor, counts, got>>

(* The callback's send on the unbuffered channel of its side meets the     *)
(* receive of a goroutine, which unlocks and returns.                      *)
ReceiveEvent(g) ==
    /\ pc[g].at = "receive"
    /\ events # << >> /\ Head(events).side = Side(g)
    /\ got' = [got EXCEPT ![g] = [wanted |-> pc[g].id, id |-> Head(events).id,
                                  buf |-> Head(events).buf]]
    /\ events' = Tail(events)
    /\ lock' = [lock EXCEPT ![Side(g)] = Nobody]
    /\ pc' = [pc EXCEPT ![g] = Idle]
    /\ UNCHANGED <<buffer, lastOpID, deadline, open, bus, inflight, counts>>

-----------------------------------------------------------------------------
(* SetReadDeadline, SetWriteDeadline and SetDeadline, which calls both.    *)
(* None of them takes a lock.                                              *)

SideSeqs == {<<s>> : s \in Sides} \cup (IF Sides = {"read", "write"} THEN {<<"read", "write">>} ELSE {})

FirstStep(when) == IF when = "past" THEN "cancel" ELSE "set"

CallSetDeadline(g, sides, when) ==
    /\ pc[g] = Idle
    /\ sets < MaxSets
    /\ sets' = sets + 1
    /\ pc' = [pc EXCEPT ![g] = At(FirstStep(when), sides, 0, when)]
    /\ UNCHANGED <<conn, reactor, calls, ids, got>>

(* Mutant: the deadline is only recorded. *)
CancelLastSkipped(g) ==
    /\ pc[g].at = "cancel"
    /\ pc' = [pc EXCEPT ![g].at = "set"]
    /\ UNCHANGED <<conn, reactor, counts, got>>

CancelLast(g) ==
    /\ pc[g].at = "cancel"
    /\ bus' = Append(bus, [kind |-> "cancel", id |-> lastOpID[Side(g)], side |-> Side(g),
                           timed |-> FALSE])
    /\ pc' = [pc EXCEPT ![g].at = "set"]
    /\ UNCHANGED <<conn, inflight, events, counts, got>>

SetField(g) ==
    /\ pc[g].at = "set"
    /\ deadline' = [deadline EXCEPT ![Side(g)] = pc[g].when]
    /\ pc' = [pc EXCEPT ![g] =
                 IF Len(pc[g].sides) > 1
                 THEN At(FirstStep(pc[g].when), Tail(pc[g].sides), 0, pc[g].when)
                 ELSE Idle]
    /\ UNCHANGED <<lock, buffer, lastOpID, open, reactor, counts, got>>

(* Close closes the descriptor and leaves everything else alone. *)
Close ==
    /\ Closable /\ open
    /\ open' = FALSE
    /\ UNCHANGED <<pc, lock, buffer, lastOpID, deadline, reactor, counts, got>>

-----------------------------------------------------------------------------
(* The event loop and the kernel *)

EventOf(p, res) == [id |-> p.id, side |-> p.side, buf |-> p.buf, res |-> res]

(* The publisher prepares the SQE: this is when the operation's buffer is  *)
(* read.                                                                   *)
PublishOp ==
    /\ bus # << >> /\ Head(bus).kind = "op"
    /\ bus' = Tail(bus)
    /\ LET p == [id |-> Head(bus).id, side |-> Head(bus).side, timed |-> Head(bus).timed,
                 buf |-> buffer[Head(bus).side]]
       IN  IF open
           THEN inflight' = inflight \cup {p} /\ UNCHANGED events
           ELSE events' = Append(events, EventOf(p, "error")) /\ UNCHANGED inflight
    /\ UNCHANGED <<pc, conn, counts, got>>

PublishCancel ==
    /\ bus # << >> /\ Head(bus).kind = "cancel"
    /\ bus' = Tail(bus)
    /\ LET target == {p \in inflight : p.id = Head(bus).id}
       IN  IF target = {}
           THEN UNCHANGED <<inflight, events>>
           ELSE \E p \in target :
                   /\ inflight' = inflight \ {p}
                   /\ events' = Append(events, EventOf(p, "canceled"))
    /\ UNCHANGED <<pc, conn, counts, got>>

Finish(p, res) ==
    /\ p \in inflight
    /\ inflight' = inflight \ {p}
    /\ events' = Append(events, EventOf(p, res))
    /\ UNCHANGED <<pc, conn, bus, counts, got>>

(* Data, the peer or an error completes an operation. *)
Complete == \E p \in inflight, res \in {"data", "eof", "error"} : Finish(p, res)

(* A linked timeout expires. *)
Expire == \E p \in inflight : p.timed /\ Finish(p, "canceled")

-----------------------------------------------------------------------------
OpStep(g) == QueueOp(g) \/ AssignOpID(g) \/ CancelLast(g) \/ SetField(g)

Next ==
    \/ \E g \in Goroutines :
          \/ \E s \in Sides : CallOp(g, s)
          \/ \E sides \in SideSeqs, when \in Deadlines : CallSetDeadline(g, sides, when)
          \/ Lock(g) \/ ReceiveEvent(g) \/ OpStep(g)
    \/ Close
    \/ PublishOp \/ PublishCancel
    \/ Complete \/ Expire

Spec == Init /\ [][Next]_vars

(* Goroutines are scheduled, a mutex does not pass over a waiter for ever  *)
(* (Go's become first-in first-out under contention), the event loop runs, *)
(* and timeouts expire. Data need not arrive.                              *)
FairSpec ==
    /\ Spec
    /\ \A g \in Goroutines :
          SF_vars(Lock(g)) /\ WF_vars(OpStep(g)) /\ WF_vars(ReceiveEvent(g))
    /\ WF_vars(PublishOp \/ PublishCancel)
    /\ WF_vars(Expire)

-----------------------------------------------------------------------------
(* Properties *)

(* Read and Write return the result of their own request, done with their  *)
(* own buffer, although all of them share one channel and one operation    *)
(* per side, and the operation's buffer is read by another goroutine after *)
(* QueueWithDeadline has returned.                                         *)
OwnResult ==
    \A g \in Goroutines : got[g].id = got[g].wanted /\ got[g].buf = g

(* A callback never blocks the event loop for good: for every completion   *)
(* there is one goroutine that is about to receive it.                     *)
EventAwaited ==
    \A i \in 1 .. Len(events) :
        \E g \in Goroutines :
            /\ pc[g].at \in {"assign", "receive"}
            /\ pc[g].id = events[i].id
            /\ Side(g) = events[i].side

(* SetReadDeadline with a time in the past makes a Read that waits for its *)
(* event return even if nothing ever arrives.                              *)
SetterInterrupts ==
    \A g, h \in Goroutines, s \in Sides :
        (pc[g].at = "receive" /\ Side(g) = s /\ pc[h].at = "cancel" /\ Side(h) = s)
        ~> (pc[g] = Idle)

(* A goroutine blocked in an operation of side s. *)
Blocked(g, s) == pc[g].at \in {"assign", "receive"} /\ Side(g) = s

(* The net.Conn interface: a deadline applies to pending operations too,   *)
(* so once SetReadDeadline with a time in the past has returned, no Read   *)
(* stays blocked.                                                          *)
PastDeadlineInterrupts ==
    \A g \in Goroutines, s \in Sides :
        (Blocked(g, s) /\ deadline[s] = "past") ~> (pc[g] = Idle \/ deadline[s] # "past")


(* The net.Conn interface: Close unblocks pending operations. *)
CloseUnblocks ==
    \A g \in Goroutines, s \in Sides : (Blocked(g, s) /\ ~open) ~> (pc[g] = Idle)

-----------------------------------------------------------------------------
(* The inductive invariant behind OwnResult and EventAwaited (ConnProofs). *)

(* Whoever does something has a side left to do it for. *)
SidesLeft == \A g \in Goroutines : pc[g].at # "idle" => pc[g].sides # << >>

(* The lock of a side is held from the call of QueueWithDeadline to the    *)
(* event, and the side's operation points to the holder's buffer.          *)
Holds(g, s) == pc[g].at \in {"queue", "assign", "receive"} /\ Side(g) = s

LockHeld ==
    \A s \in Sides :
        /\ \A g \in Goroutines : lock[s] = g <=> Holds(g, s)
        /\ lock[s] # Nobody => buffer[s] = lock[s]

(* Operations that did not get an id yet are the calls without one.        *)
Pending == {g \in Goroutines : pc[g].at \in {"lock", "queue"}}

Accounted == IsFiniteSet(Pending) /\ calls = ids + Cardinality(Pending)

(* An operation of side s with id n is on the bus, in flight, or completed *)
(* and not received; the last two with buffer b.                           *)
OnBus(s, n) == \E i \in 1 .. Len(bus) : bus[i].kind = "op" /\ bus[i].side = s /\ bus[i].id = n

InFlight(s, n, b) == \E p \in inflight : p.side = s /\ p.id = n /\ p.buf = b

Completed(s, n, b) ==
    \E i \in 1 .. Len(events) : events[i].side = s /\ events[i].id = n /\ events[i].buf = b

(* It is the one whose id and buffer the holder of the lock waits with.    *)
Awaited(s, n) ==
    /\ lock[s] \in Goroutines
    /\ pc[lock[s]].at \in {"assign", "receive"} /\ pc[lock[s]].id = n

Belongs ==
    \A s \in Sides, n \in ID :
        /\ OnBus(s, n) => Awaited(s, n)
        /\ \A b \in Goroutines \cup {Nobody} :
              InFlight(s, n, b) \/ Completed(s, n, b) => Awaited(s, n) /\ b = lock[s]

(* It is at one place only. *)
OneOp ==
    /\ \A i, j \in 1 .. Len(bus) :
          bus[i].kind = "op" /\ bus[j].kind = "op" /\ bus[i].side = bus[j].side => i = j
    /\ \A p, q \in inflight : p.side = q.side => p = q
    /\ \A i, j \in 1 .. Len(events) : events[i].side = events[j].side => i = j
    /\ \A i \in 1 .. Len(bus), p \in inflight : bus[i].kind = "op" => bus[i].side # p.side
    /\ \A i \in 1 .. Len(bus), j \in 1 .. Len(events) :
          bus[i].kind = "op" => bus[i].side # events[j].side
    /\ \A p \in inflight, i \in 1 .. Len(events) : p.side # events[i].side

IInv ==
    /\ TypeOK
    /\ SidesLeft /\ LockHeld /\ Accounted /\ Belongs /\ OneOp
    /\ OwnResult
=============================================================================
