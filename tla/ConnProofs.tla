----------------------------- MODULE ConnProofs -----------------------------
(***************************************************************************)
(* Safety of Read and Write of a connection, for every number of           *)
(* goroutines and of calls: whoever receives an event gets the one of its  *)
(* own request. The inductive invariant is IInv of Conn.                   *)
(***************************************************************************)
EXTENDS Conn, FiniteSetTheorems, TLAPS

LEMMA Constants ==
    /\ Nobody \notin Goroutines /\ MaxRequests \in Nat /\ MaxSets \in Nat /\ 0 \in ID
    /\ "none" \in Times /\ Deadlines \subseteq Times
BY ConnAssumption DEF ID, Times

(* Sequences. *)
LEMMA AppendFacts ==
    ASSUME NEW S, NEW q \in Seq(S), NEW x \in S
    PROVE  /\ Append(q, x) \in Seq(S) /\ Len(q) \in Nat
           /\ \A i \in 1 .. Len(q) : i \in 1 .. Len(Append(q, x)) /\ Append(q, x)[i] = q[i]
           /\ Len(q) + 1 \in 1 .. Len(Append(q, x)) /\ Append(q, x)[Len(q) + 1] = x
           /\ \A i \in 1 .. Len(Append(q, x)) : i \in 1 .. Len(q) \/ i = Len(q) + 1
OBVIOUS

LEMMA TailFacts ==
    ASSUME NEW S, NEW q \in Seq(S), q # << >>
    PROVE  /\ Tail(q) \in Seq(S) /\ Len(q) \in Nat
           /\ Head(q) = q[1] /\ q[1] \in S /\ 1 \in 1 .. Len(q)
           /\ \A i \in 1 .. Len(Tail(q)) : /\ i \in Nat /\ i + 1 \in 1 .. Len(q) /\ i + 1 # 1
                                           /\ Tail(q)[i] = q[i + 1]
OBVIOUS

LEMMA ElementOf ==
    ASSUME NEW S, NEW q \in Seq(S), NEW i \in 1 .. Len(q)
    PROVE  q[i] \in S
OBVIOUS

LEMMA LongTail ==
    ASSUME NEW S, NEW q \in Seq(S), Len(q) > 1
    PROVE  Tail(q) \in Seq(S) /\ Tail(q) # << >>
<1>1. Tail(q) \in Seq(S) /\ Len(Tail(q)) = Len(q) - 1 /\ Len(q) \in Nat
  OBVIOUS
<1>2. Len(Tail(q)) # 0
  BY <1>1
<1>3. Len(<< >>) = 0
  OBVIOUS
<1> QED BY <1>1, <1>2, <1>3, Zenon

(* What the setters work off. *)
LEMMA SideSeqsTyped == \A sides \in SideSeqs : sides \in Seq(Sides) /\ sides # << >>
<1>1. \A s \in Sides : <<s>> \in Seq(Sides) /\ Len(<<s>>) = 1
  OBVIOUS
<1>2. Sides = {"read", "write"} =>
         <<"read", "write">> \in Seq(Sides) /\ Len(<<"read", "write">>) = 2
  OBVIOUS
<1>3. Len(<< >>) = 0
  OBVIOUS
<1>4. ASSUME NEW sides \in SideSeqs PROVE sides \in Seq(Sides) /\ Len(sides) # 0
  <2>1. CASE \E s \in Sides : sides = <<s>>
    BY <1>1, <2>1
  <2>2. CASE Sides = {"read", "write"} /\ sides = <<"read", "write">>
    BY <1>2, <2>2
  <2> QED BY <2>1, <2>2 DEF SideSeqs
<1> QED BY <1>3, <1>4

(* The side a goroutine works for. *)
LEMMA SideTyped ==
    ASSUME pc \in [Goroutines -> State], SidesLeft, NEW g \in Goroutines, pc[g].at # "idle"
    PROVE  Side(g) \in Sides
<1>1. pc[g].sides \in Seq(Sides) /\ pc[g].sides # << >>
  BY DEF SidesLeft, State
<1> QED BY <1>1 DEF Side

-----------------------------------------------------------------------------
(* A step of a goroutine that holds no lock, before or after. *)
Outside(g) ==
    /\ pc[g].at \notin {"queue", "assign", "receive"}
    /\ pc'[g].at \notin {"queue", "assign", "receive"}
    /\ \A h \in Goroutines : h # g => pc'[h] = pc[h]
    /\ UNCHANGED <<lock, buffer, bus, inflight, events, got>>

Quiet == UNCHANGED <<pc, lock, buffer, bus, inflight, events, got>>

LEMMA Effects ==
    ASSUME TypeOK, [Next]_vars
    PROVE  \/ \E g \in Goroutines :
                 Outside(g) \/ Lock(g) \/ QueueOp(g) \/ AssignOpID(g) \/ CancelLast(g) \/ ReceiveEvent(g)
           \/ PublishOp \/ PublishCancel
           \/ \E p \in inflight, res \in {"data", "eof", "error", "canceled"} : Finish(p, res)
           \/ Quiet
<1>0. pc \in [Goroutines -> State]
  BY DEF TypeOK
<1>1. ASSUME NEW g \in Goroutines, NEW s \in Sides, CallOp(g, s) PROVE Outside(g)
  BY <1>0, <1>1 DEF CallOp, Outside, Idle, At, conn, reactor
<1>2. ASSUME NEW g \in Goroutines, NEW sides, NEW when, CallSetDeadline(g, sides, when)
      PROVE  Outside(g)
  BY <1>0, <1>2 DEF CallSetDeadline, Outside, Idle, At, FirstStep, conn, reactor
<1>3. ASSUME NEW g \in Goroutines, SetField(g) PROVE Outside(g)
  <2>1. pc'[g].at \in {"cancel", "set", "idle"}
    BY <1>0, <1>3 DEF SetField, Idle, At, FirstStep
  <2> QED BY <1>0, <1>3, <2>1 DEF SetField, Outside, reactor
<1>4. Close => Quiet
  BY DEF Close, Quiet, reactor
<1>5. UNCHANGED vars => Quiet
  BY DEF vars, Quiet, conn, reactor
<1>6. Complete \/ Expire =>
         \E p \in inflight, res \in {"data", "eof", "error", "canceled"} : Finish(p, res)
  BY DEF Complete, Expire
<1> QED BY <1>1, <1>2, <1>3, <1>4, <1>5, <1>6 DEF Next, OpStep

-----------------------------------------------------------------------------
(* The parts of IInv, each kept by every step.                             *)

(* Sides are worked off one by one. *)
LEMMA SidesStep ==
    ASSUME IInv, [Next]_vars
    PROVE  SidesLeft'
<1>0. pc \in [Goroutines -> State] /\ SidesLeft
  BY DEF IInv, TypeOK
<1>1. ASSUME NEW g \in Goroutines, NEW s \in Sides, CallOp(g, s) PROVE SidesLeft'
  BY <1>0, <1>1 DEF CallOp, At, SidesLeft
<1>2. ASSUME NEW g \in Goroutines, NEW sides \in SideSeqs, NEW when, CallSetDeadline(g, sides, when)
      PROVE  SidesLeft'
  <2>1. sides # << >>
    BY SideSeqsTyped
  <2> QED BY <1>0, <1>2, <2>1 DEF CallSetDeadline, At, SidesLeft
<1>3. ASSUME NEW g \in Goroutines, SetField(g) PROVE SidesLeft'
  <2>1. pc[g].sides \in Seq(Sides)
    BY <1>0 DEF State
  <2>2. Len(pc[g].sides) > 1 => Tail(pc[g].sides) # << >>
    BY <2>1, LongTail
  <2>3. pc'[g].at # "idle" => pc'[g].sides # << >>
    BY <1>0, <1>3, <2>2 DEF SetField, Idle, At
  <2> QED BY <1>0, <1>3, <2>3 DEF SetField, SidesLeft
<1>4. ASSUME NEW g \in Goroutines, Lock(g) \/ QueueOp(g) \/ AssignOpID(g) \/ CancelLast(g)
      PROVE  SidesLeft'
  <2>1. /\ pc[g].at # "idle" /\ pc'[g].sides = pc[g].sides
        /\ \A h \in Goroutines : h # g => pc'[h] = pc[h]
    BY <1>0, <1>4 DEF Lock, QueueOp, AssignOpID, CancelLast, State
  <2> QED BY <1>0, <2>1 DEF SidesLeft
<1>5. ASSUME NEW g \in Goroutines, ReceiveEvent(g) PROVE SidesLeft'
  BY <1>0, <1>5 DEF ReceiveEvent, Idle, At, SidesLeft
<1>6. UNCHANGED pc => SidesLeft'
  BY <1>0 DEF SidesLeft
<1>7. Close \/ PublishOp \/ PublishCancel \/ Complete \/ Expire => UNCHANGED pc
  BY DEF Close, PublishOp, PublishCancel, Complete, Expire, Finish
<1>8. UNCHANGED vars => UNCHANGED pc
  BY DEF vars
<1> QED BY <1>1, <1>2, <1>3, <1>4, <1>5, <1>6, <1>7, <1>8 DEF Next, OpStep

(* Whoever holds the lock. *)
LEMMA LockStep ==
    ASSUME IInv, [Next]_vars
    PROVE  LockHeld'
<1>0. /\ pc \in [Goroutines -> State] /\ SidesLeft /\ LockHeld /\ TypeOK
      /\ lock \in [Sides -> Goroutines \cup {Nobody}] /\ buffer \in [Sides -> Goroutines \cup {Nobody}]
  BY DEF IInv, TypeOK
<1>1. ASSUME NEW g \in Goroutines, Outside(g) PROVE LockHeld'
  <2>1. \A h \in Goroutines, s \in Sides : Holds(h, s)' <=> Holds(h, s)
    BY <1>1 DEF Outside, Holds, Side
  <2> QED BY <1>0, <1>1, <2>1 DEF LockHeld, Outside
<1>2. ASSUME NEW g \in Goroutines, Lock(g) PROVE LockHeld'
  <2> DEFINE t == Side(g)
  <2>1. /\ t \in Sides /\ lock[t] = Nobody /\ pc[g].at = "lock"
        /\ lock' = [lock EXCEPT ![t] = g] /\ buffer' = [buffer EXCEPT ![t] = g]
    BY <1>0, <1>2, SideTyped DEF Lock
  <2>2. /\ pc'[g].at = "queue" /\ Side(g)' = t
        /\ \A h \in Goroutines : h # g => pc'[h] = pc[h]
    BY <1>0, <1>2 DEF Lock, State, Side
  <2> HIDE DEF t
  <2>3. \A h \in Goroutines, s \in Sides : h # g => (Holds(h, s)' <=> Holds(h, s))
    BY <2>2 DEF Holds, Side
  <2>4. \A s \in Sides : (Holds(g, s)' <=> s = t) /\ ~Holds(g, s)
    BY <2>1, <2>2 DEF Holds
  <2> QED BY <1>0, <2>1, <2>3, <2>4, Constants DEF LockHeld
<1>3. ASSUME NEW g \in Goroutines, QueueOp(g) \/ AssignOpID(g) \/ CancelLast(g) PROVE LockHeld'
  <2>1. /\ UNCHANGED <<lock, buffer>> /\ pc'[g].sides = pc[g].sides
        /\ \/ {pc[g].at, pc'[g].at} \subseteq {"queue", "assign", "receive"}
           \/ {pc[g].at, pc'[g].at} \cap {"queue", "assign", "receive"} = {}
        /\ \A h \in Goroutines : h # g => pc'[h] = pc[h]
    BY <1>0, <1>3 DEF QueueOp, AssignOpID, CancelLast, State, conn
  <2>2. \A h \in Goroutines, s \in Sides : Holds(h, s)' <=> Holds(h, s)
    BY <2>1 DEF Holds, Side
  <2> QED BY <1>0, <2>1, <2>2 DEF LockHeld
<1>4. ASSUME NEW g \in Goroutines, ReceiveEvent(g) PROVE LockHeld'
  <2> DEFINE t == Side(g)
  <2>1. /\ t \in Sides /\ pc[g].at = "receive" /\ lock' = [lock EXCEPT ![t] = Nobody]
        /\ UNCHANGED buffer /\ pc'[g].at = "idle"
        /\ \A h \in Goroutines : h # g => pc'[h] = pc[h]
    BY <1>0, <1>4, SideTyped DEF ReceiveEvent, Idle, At
  <2>2. \A s \in Sides : ~Holds(g, s)' /\ (Holds(g, s) <=> s = t)
    BY <2>1 DEF Holds
  <2> HIDE DEF t
  <2>3. \A h \in Goroutines, s \in Sides : h # g => (Holds(h, s)' <=> Holds(h, s))
    BY <2>1 DEF Holds, Side
  <2> QED BY <1>0, <2>1, <2>2, <2>3, Constants DEF LockHeld
<1>5. ASSUME UNCHANGED <<pc, lock, buffer>> PROVE LockHeld'
  BY <1>0, <1>5 DEF LockHeld, Holds, Side
<1>6. PublishOp \/ PublishCancel \/ Quiet => UNCHANGED <<pc, lock, buffer>>
  BY DEF PublishOp, PublishCancel, Quiet, conn
<1>7. ASSUME NEW p, NEW res, Finish(p, res) PROVE UNCHANGED <<pc, lock, buffer>>
  BY <1>7 DEF Finish, conn
<1> QED BY <1>0, <1>1, <1>2, <1>3, <1>4, <1>5, <1>6, <1>7, Effects

(* Calls that wait for an id are counted. *)
LEMMA AccountStep ==
    ASSUME IInv, [Next]_vars
    PROVE  Accounted'
<1>0. /\ pc \in [Goroutines -> State] /\ calls \in Nat /\ ids \in Nat
      /\ IsFiniteSet(Pending) /\ calls = ids + Cardinality(Pending)
  BY Constants DEF IInv, TypeOK, Accounted, ID
<1>1. ASSUME NEW g \in Goroutines, NEW s \in Sides, CallOp(g, s) PROVE Accounted'
  <2>1. calls' = calls + 1 /\ ids' = ids
    BY <1>1 DEF CallOp
  <2>2. Pending' = Pending \cup {g} /\ g \notin Pending
    BY <1>0, <1>1 DEF CallOp, Pending, Idle, At
  <2>3. IsFiniteSet(Pending') /\ Cardinality(Pending') = Cardinality(Pending) + 1
    BY <1>0, <2>2, FS_AddElement
  <2> QED BY <1>0, <2>1, <2>3, FS_CardinalityType DEF Accounted
<1>2. ASSUME NEW g \in Goroutines, QueueOp(g) PROVE Accounted'
  <2>1. calls' = calls /\ ids' = ids + 1
    BY <1>2 DEF QueueOp
  <2>2. Pending' = Pending \ {g} /\ g \in Pending
    BY <1>0, <1>2 DEF QueueOp, Pending, State
  <2>3. IsFiniteSet(Pending') /\ Cardinality(Pending') = Cardinality(Pending) - 1
    BY <1>0, <2>2, FS_RemoveElement
  <2> QED BY <1>0, <2>1, <2>3, FS_CardinalityType DEF Accounted
<1>3. ASSUME UNCHANGED <<calls, ids>>, NEW g \in Goroutines,
             pc'[g].at \in {"lock", "queue"} <=> pc[g].at \in {"lock", "queue"},
             \A h \in Goroutines : h # g => pc'[h] = pc[h]
      PROVE  Accounted'
  <2>1. Pending' = Pending
    BY <1>3 DEF Pending
  <2> QED BY <1>0, <1>3, <2>1 DEF Accounted
<1>4. ASSUME NEW g \in Goroutines, NEW sides, NEW when, CallSetDeadline(g, sides, when)
      PROVE  Accounted'
  BY <1>0, <1>3, <1>4 DEF CallSetDeadline, Idle, At, FirstStep
<1>5. ASSUME NEW g \in Goroutines, SetField(g) PROVE Accounted'
  <2>1. pc'[g].at \in {"cancel", "set", "idle"}
    BY <1>0, <1>5 DEF SetField, Idle, At, FirstStep
  <2> QED BY <1>0, <1>3, <1>5, <2>1 DEF SetField, counts
<1>6. ASSUME NEW g \in Goroutines, Lock(g) \/ AssignOpID(g) \/ CancelLast(g) \/ ReceiveEvent(g)
      PROVE  Accounted'
  <2>1. UNCHANGED <<calls, ids>> /\ \A h \in Goroutines : h # g => pc'[h] = pc[h]
    BY <1>0, <1>6 DEF Lock, AssignOpID, CancelLast, ReceiveEvent, counts
  <2>2. pc'[g].at \in {"lock", "queue"} <=> pc[g].at \in {"lock", "queue"}
    BY <1>0, <1>6 DEF Lock, AssignOpID, CancelLast, ReceiveEvent, State, Idle, At
  <2> QED BY <1>3, <2>1, <2>2
<1>7. UNCHANGED <<pc, calls, ids>> => Accounted'
  BY <1>0 DEF Accounted, Pending
<1>8. Close \/ PublishOp \/ PublishCancel \/ Complete \/ Expire => UNCHANGED <<pc, calls, ids>>
  BY DEF Close, PublishOp, PublishCancel, Complete, Expire, Finish, counts
<1>9. UNCHANGED vars => UNCHANGED <<pc, calls, ids>>
  BY DEF vars, counts
<1> QED BY <1>1, <1>2, <1>4, <1>5, <1>6, <1>7, <1>8, <1>9 DEF Next, OpStep

(* So there is an id for whoever asks for one. *)
LEMMA NextID ==
    ASSUME IInv, NEW g \in Goroutines, QueueOp(g)
    PROVE  ids + 1 \in ID
<1>1. /\ calls \in 0 .. MaxRequests /\ ids \in Nat /\ g \in Pending
      /\ IsFiniteSet(Pending) /\ calls = ids + Cardinality(Pending)
  BY Constants DEF IInv, TypeOK, Accounted, ID, QueueOp, Pending
<1>2. Cardinality(Pending) \in Nat /\ Cardinality(Pending) # 0
  BY <1>1, FS_CardinalityType, FS_EmptySet
<1> QED BY <1>1, <1>2, Constants DEF ID

(* Everything that is somewhere is awaited with its own id and buffer. *)
LEMMA Owners ==
    ASSUME IInv
    PROVE  /\ \A i \in 1 .. Len(bus) :
                 bus[i].kind = "op" => bus[i].side \in Sides /\ Awaited(bus[i].side, bus[i].id)
           /\ \A p \in inflight : p.side \in Sides /\ Awaited(p.side, p.id) /\ p.buf = lock[p.side]
           /\ \A i \in 1 .. Len(events) :
                 /\ events[i].side \in Sides /\ Awaited(events[i].side, events[i].id)
                 /\ events[i].buf = lock[events[i].side]
<1>0. bus \in Seq(Request) /\ inflight \subseteq Published /\ events \in Seq(Event) /\ Belongs
  BY DEF IInv, TypeOK
<1>1. ASSUME NEW i \in 1 .. Len(bus), bus[i].kind = "op"
      PROVE  bus[i].side \in Sides /\ Awaited(bus[i].side, bus[i].id)
  <2>0. bus[i] \in Request
    BY <1>0, ElementOf
  <2>1. bus[i].side \in Sides /\ bus[i].id \in ID
    BY <2>0 DEF Request
  <2>2. OnBus(bus[i].side, bus[i].id)
    BY <1>1 DEF OnBus
  <2> QED BY <1>0, <2>1, <2>2 DEF Belongs
<1>2. ASSUME NEW p \in inflight
      PROVE  p.side \in Sides /\ Awaited(p.side, p.id) /\ p.buf = lock[p.side]
  <2>1. p.side \in Sides /\ p.id \in ID /\ p.buf \in Goroutines \cup {Nobody}
    BY <1>0 DEF Published
  <2>2. InFlight(p.side, p.id, p.buf)
    BY DEF InFlight
  <2> QED BY <1>0, <2>1, <2>2 DEF Belongs
<1>3. ASSUME NEW i \in 1 .. Len(events)
      PROVE  /\ events[i].side \in Sides /\ Awaited(events[i].side, events[i].id)
             /\ events[i].buf = lock[events[i].side]
  <2>0. events[i] \in Event
    BY <1>0, ElementOf
  <2>1. events[i].side \in Sides /\ events[i].id \in ID /\ events[i].buf \in Goroutines \cup {Nobody}
    BY <2>0 DEF Event
  <2>2. Completed(events[i].side, events[i].id, events[i].buf)
    BY DEF Completed
  <2> QED BY <1>0, <2>1, <2>2 DEF Belongs
<1> QED BY <1>1, <1>2, <1>3

(* Nothing of a side is anywhere unless its holder waits for it. *)
LEMMA NothingThere ==
    ASSUME IInv, NEW s \in Sides,
           lock[s] \in Goroutines => pc[lock[s]].at \notin {"assign", "receive"}
    PROVE  /\ \A i \in 1 .. Len(bus) : bus[i].kind = "op" => bus[i].side # s
           /\ \A p \in inflight : p.side # s
           /\ \A i \in 1 .. Len(events) : events[i].side # s
BY Owners DEF Awaited

(* The bus loses its first k requests, if any, and an operation completes, *)
(* if any.                                                                 *)
LEMMA CompletedOnce ==
    ASSUME OneOp, events \in Seq(Event), NEW k \in {0, 1},
           \A i \in 1 .. Len(bus') : i \in Nat /\ i + k \in 1 .. Len(bus) /\ bus'[i] = bus[i + k],
           \/ UNCHANGED <<inflight, events>>
           \/ \E p \in inflight, e \in Event :
                 e.side = p.side /\ inflight' = inflight \ {p} /\ events' = Append(events, e)
    PROVE  OneOp'
<1>1. ASSUME NEW i \in 1 .. Len(bus'), NEW j \in 1 .. Len(bus'),
             bus'[i].kind = "op", bus'[j].kind = "op", bus'[i].side = bus'[j].side
      PROVE  i = j
  <2>1. /\ i + k \in 1 .. Len(bus) /\ bus'[i] = bus[i + k] /\ i \in Nat
        /\ j + k \in 1 .. Len(bus) /\ bus'[j] = bus[j + k] /\ j \in Nat
    BY Zenon
  <2>2. i + k = j + k
    BY <1>1, <2>1 DEF OneOp
  <2> QED BY <2>1, <2>2
<1>2. ASSUME NEW i \in 1 .. Len(bus'), bus'[i].kind = "op"
      PROVE  /\ \A p \in inflight : bus'[i].side # p.side
             /\ \A j \in 1 .. Len(events) : bus'[i].side # events[j].side
  <2>1. i + k \in 1 .. Len(bus) /\ bus'[i] = bus[i + k]
    BY Zenon
  <2> QED BY <1>2, <2>1 DEF OneOp
<1>3. CASE UNCHANGED <<inflight, events>>
  BY <1>1, <1>2, <1>3 DEF OneOp
<1>4. ASSUME NEW p \in inflight, NEW e \in Event, e.side = p.side,
             inflight' = inflight \ {p}, events' = Append(events, e)
      PROVE  OneOp'
  <2>1. /\ \A i \in 1 .. Len(events) : events'[i] = events[i]
        /\ events'[Len(events) + 1] = e
        /\ \A i \in 1 .. Len(events') : i \in 1 .. Len(events) \/ i = Len(events) + 1
    BY <1>4, AppendFacts
  <2>2. \A i \in 1 .. Len(events) : events[i].side # e.side
    BY <1>4 DEF OneOp
  <2>3. \A i, j \in 1 .. Len(events') : events'[i].side = events'[j].side => i = j
    BY <2>1, <2>2 DEF OneOp
  <2>4. \A q \in inflight' : q \in inflight /\ q.side # e.side
    BY <1>4 DEF OneOp
  <2>5. \A i \in 1 .. Len(bus'), j \in 1 .. Len(events') :
           bus'[i].kind = "op" => bus'[i].side # events'[j].side
    BY <1>2, <1>4, <2>1
  <2>6. \A q \in inflight', i \in 1 .. Len(events') : q.side # events'[i].side
    BY <2>1, <2>4 DEF OneOp
  <2>7. \A q, r \in inflight' : q.side = r.side => q = r
    BY <2>4 DEF OneOp
  <2> QED BY <1>1, <1>2, <2>3, <2>4, <2>5, <2>6, <2>7 DEF OneOp
<1> QED BY <1>3, <1>4

(* What a cancel request finds. *)
LEMMA CancelEffect ==
    ASSUME PublishCancel
    PROVE  \/ UNCHANGED <<inflight, events>>
           \/ \E p \in inflight : /\ inflight' = inflight \ {p}
                                  /\ events' = Append(events, EventOf(p, "canceled"))
BY DEF PublishCancel

LEMMA EventTyped ==
    ASSUME inflight \subseteq Published, NEW p \in inflight,
           NEW res \in {"data", "eof", "error", "canceled"}
    PROVE  /\ EventOf(p, res) \in Event /\ EventOf(p, res).side = p.side
           /\ EventOf(p, res).id = p.id /\ EventOf(p, res).buf = p.buf
BY DEF EventOf, Event, Published

(* An operation is at one place. *)
LEMMA OneOpStep ==
    ASSUME IInv, [Next]_vars
    PROVE  OneOp'
<1>0. /\ TypeOK /\ OneOp /\ bus \in Seq(Request) /\ inflight \subseteq Published /\ events \in Seq(Event)
      /\ pc \in [Goroutines -> State] /\ SidesLeft /\ LockHeld
  BY DEF IInv, TypeOK
<1>1. UNCHANGED <<bus, inflight, events>> => OneOp'
  BY <1>0 DEF OneOp
<1>2. ASSUME NEW g \in Goroutines, Outside(g) \/ Lock(g) \/ AssignOpID(g)
      PROVE  UNCHANGED <<bus, inflight, events>>
  BY <1>2 DEF Outside, Lock, AssignOpID, reactor
<1>3. ASSUME NEW r \in Request, bus' = Append(bus, r), UNCHANGED <<inflight, events>>,
             \/ r.kind = "cancel"
             \/ /\ \A i \in 1 .. Len(bus) : bus[i].kind = "op" => bus[i].side # r.side
                /\ \A p \in inflight : p.side # r.side
                /\ \A i \in 1 .. Len(events) : events[i].side # r.side
      PROVE  OneOp'
  <2>1. /\ \A i \in 1 .. Len(bus) : bus'[i] = bus[i]
        /\ bus'[Len(bus) + 1] = r
        /\ \A i \in 1 .. Len(bus') : i \in 1 .. Len(bus) \/ i = Len(bus) + 1
    BY <1>0, <1>3, AppendFacts
  <2>2. \A i, j \in 1 .. Len(bus') :
           bus'[i].kind = "op" /\ bus'[j].kind = "op" /\ bus'[i].side = bus'[j].side => i = j
    BY <1>0, <1>3, <2>1 DEF OneOp
  <2>3. \A i \in 1 .. Len(bus'), p \in inflight' : bus'[i].kind = "op" => bus'[i].side # p.side
    BY <1>0, <1>3, <2>1 DEF OneOp
  <2>4. \A i \in 1 .. Len(bus'), j \in 1 .. Len(events') :
           bus'[i].kind = "op" => bus'[i].side # events'[j].side
    BY <1>0, <1>3, <2>1 DEF OneOp
  <2> QED BY <1>0, <1>3, <2>2, <2>3, <2>4 DEF OneOp
<1>4. ASSUME NEW g \in Goroutines, QueueOp(g) PROVE OneOp'
  <2> DEFINE r == [kind |-> "op", id |-> ids', side |-> Side(g), timed |-> Timed(deadline[Side(g)])]
  <2>1. /\ bus' = Append(bus, r) /\ UNCHANGED <<inflight, events>> /\ pc[g].at = "queue"
        /\ ids' \in ID
    BY <1>4, NextID DEF QueueOp
  <2>2. Side(g) \in Sides
    BY <1>0, <2>1, SideTyped
  <2>3. r \in Request /\ r.side = Side(g)
    BY <2>1, <2>2 DEF Request, Timed
  <2>4. lock[Side(g)] = g
    BY <1>0, <2>1, <2>2 DEF LockHeld, Holds
  <2> HIDE DEF r
  <2> QED BY <1>3, <2>1, <2>2, <2>3, <2>4, NothingThere
<1>5. ASSUME NEW g \in Goroutines, CancelLast(g) PROVE OneOp'
  <2> DEFINE r == [kind |-> "cancel", id |-> lastOpID[Side(g)], side |-> Side(g), timed |-> FALSE]
  <2>1. bus' = Append(bus, r) /\ UNCHANGED <<inflight, events>> /\ pc[g].at = "cancel"
    BY <1>5 DEF CancelLast
  <2>2. Side(g) \in Sides
    BY <1>0, <2>1, SideTyped
  <2>3. r \in Request /\ r.kind = "cancel"
    BY <1>0, <2>2 DEF Request, TypeOK
  <2> HIDE DEF r
  <2> QED BY <1>3, <2>1, <2>3
<1>6. ASSUME NEW g \in Goroutines, ReceiveEvent(g) PROVE OneOp'
  <2>1. events # << >> /\ events' = Tail(events) /\ UNCHANGED <<bus, inflight>>
    BY <1>6 DEF ReceiveEvent
  <2>2. \A i \in 1 .. Len(events') : /\ i \in Nat /\ i + 1 \in 1 .. Len(events)
                                     /\ events'[i] = events[i + 1]
    BY <1>0, <2>1, TailFacts
  <2>3. \A i, j \in 1 .. Len(events) : events[i].side = events[j].side => i = j
    BY <1>0 DEF OneOp
  <2>4. ASSUME NEW i \in 1 .. Len(events'), NEW j \in 1 .. Len(events'),
               events'[i].side = events'[j].side
        PROVE  i = j
    <3>1. i + 1 = j + 1
      BY <2>2, <2>3, <2>4
    <3> QED BY <2>2, <3>1
  <2> QED BY <1>0, <2>1, <2>2, <2>4 DEF OneOp
<1>7. ASSUME bus # << >>, bus' = Tail(bus)
      PROVE  /\ Head(bus) = bus[1] /\ bus[1] \in Request /\ 1 \in 1 .. Len(bus)
             /\ \A i \in 1 .. Len(bus') : /\ i \in Nat /\ i + 1 \in 1 .. Len(bus) /\ i + 1 # 1
                                          /\ bus'[i] = bus[i + 1]
  BY <1>0, <1>7, TailFacts
<1>8. CASE PublishOp
  <2> DEFINE p == [id |-> Head(bus).id, side |-> Head(bus).side, timed |-> Head(bus).timed,
                   buf |-> buffer[Head(bus).side]]
  <2>1. /\ bus # << >> /\ bus' = Tail(bus) /\ Head(bus).kind = "op"
        /\ \/ inflight' = inflight \cup {p} /\ UNCHANGED events
           \/ events' = Append(events, EventOf(p, "error")) /\ UNCHANGED inflight
    BY <1>8 DEF PublishOp
  <2>2. p \in Published /\ p.side = bus[1].side
    BY <1>0, <1>7, <2>1 DEF Published, Request, TypeOK
  <2>3. EventOf(p, "error") \in Event /\ EventOf(p, "error").side = p.side
    BY <2>2 DEF EventOf, Event, Published
  <2> HIDE DEF p
  <2>4. /\ \A q \in inflight : q.side # p.side
        /\ \A i \in 1 .. Len(events) : events[i].side # p.side
        /\ \A i \in 1 .. Len(bus') : bus'[i].kind = "op" => bus'[i].side # p.side
    BY <1>0, <1>7, <2>1, <2>2 DEF OneOp
  <2>5. /\ \A i, j \in 1 .. Len(bus') :
              bus'[i].kind = "op" /\ bus'[j].kind = "op" /\ bus'[i].side = bus'[j].side => i = j
        /\ \A i \in 1 .. Len(bus'), q \in inflight : bus'[i].kind = "op" => bus'[i].side # q.side
        /\ \A i \in 1 .. Len(bus'), j \in 1 .. Len(events) :
              bus'[i].kind = "op" => bus'[i].side # events[j].side
    <3>0. \A i, j \in 1 .. Len(bus) :
              bus[i].kind = "op" /\ bus[j].kind = "op" /\ bus[i].side = bus[j].side => i = j
      BY <1>0 DEF OneOp
    <3>1. \A i, j \in 1 .. Len(bus') :
              bus'[i].kind = "op" /\ bus'[j].kind = "op" /\ bus'[i].side = bus'[j].side => i + 1 = j + 1
      BY <1>7, <2>1, <3>0
    <3>2. \A i, j \in 1 .. Len(bus') : i + 1 = j + 1 => i = j
      BY <1>7, <2>1
    <3> QED BY <1>0, <1>7, <2>1, <3>1, <3>2 DEF OneOp
  <2>6. CASE inflight' = inflight \cup {p} /\ UNCHANGED events
    <3>1. \A q, r \in inflight' : q.side = r.side => q = r
      BY <1>0, <2>4, <2>6 DEF OneOp
    <3>2. \A i \in 1 .. Len(bus'), q \in inflight' : bus'[i].kind = "op" => bus'[i].side # q.side
      BY <2>4, <2>5, <2>6
    <3>3. \A q \in inflight', i \in 1 .. Len(events') : q.side # events'[i].side
      BY <1>0, <2>4, <2>6 DEF OneOp
    <3> QED BY <1>0, <2>5, <2>6, <3>1, <3>2, <3>3 DEF OneOp
  <2>7. CASE events' = Append(events, EventOf(p, "error")) /\ UNCHANGED inflight
    <3>1. /\ \A i \in 1 .. Len(events) : events'[i] = events[i]
          /\ events'[Len(events) + 1].side = p.side
          /\ \A i \in 1 .. Len(events') : i \in 1 .. Len(events) \/ i = Len(events) + 1
      BY <1>0, <2>3, <2>7, AppendFacts
    <3>2. \A i, j \in 1 .. Len(events') : events'[i].side = events'[j].side => i = j
      BY <1>0, <2>4, <3>1 DEF OneOp
    <3>3. \A i \in 1 .. Len(bus'), j \in 1 .. Len(events') :
             bus'[i].kind = "op" => bus'[i].side # events'[j].side
      BY <2>4, <2>5, <3>1
    <3>4. \A q \in inflight', i \in 1 .. Len(events') : q.side # events'[i].side
      BY <1>0, <2>4, <2>7, <3>1 DEF OneOp
    <3> QED BY <1>0, <2>5, <2>7, <3>2, <3>3, <3>4 DEF OneOp
  <2> QED BY <2>1, <2>6, <2>7
<1>9. CASE PublishCancel
  <2>1. bus # << >> /\ bus' = Tail(bus)
    BY <1>9 DEF PublishCancel
  <2>2. \/ UNCHANGED <<inflight, events>>
        \/ \E p \in inflight, e \in Event :
              e.side = p.side /\ inflight' = inflight \ {p} /\ events' = Append(events, e)
    BY <1>0, <1>9, CancelEffect, EventTyped
  <2> QED BY <1>0, <1>7, <2>1, <2>2, CompletedOnce
<1>10. ASSUME NEW p \in inflight, NEW res \in {"data", "eof", "error", "canceled"}, Finish(p, res)
       PROVE  OneOp'
  <2>1. \E q \in inflight, e \in Event :
           e.side = q.side /\ inflight' = inflight \ {q} /\ events' = Append(events, e)
    BY <1>0, <1>10, EventTyped DEF Finish
  <2>2. \A i \in 1 .. Len(bus') : i \in Nat /\ i + 0 \in 1 .. Len(bus) /\ bus'[i] = bus[i + 0]
    BY <1>0, <1>10 DEF Finish
  <2> QED BY <1>0, <2>1, <2>2, CompletedOnce
<1>11. Quiet => UNCHANGED <<bus, inflight, events>>
  BY DEF Quiet
<1> QED BY <1>0, <1>1, <1>2, <1>4, <1>5, <1>6, <1>8, <1>9, <1>10, <1>11, Effects

(* Nobody but the holder of the lock ends the wait for an operation. *)
LEMMA AwaitedStays ==
    ASSUME IInv, [Next]_vars, NEW s \in Sides, NEW n, Awaited(s, n)
    PROVE  \/ Awaited(s, n)' /\ lock'[s] = lock[s]
           \/ \E g \in Goroutines : ReceiveEvent(g) /\ Side(g) = s
<1>0. /\ TypeOK /\ pc \in [Goroutines -> State] /\ SidesLeft /\ LockHeld
      /\ lock \in [Sides -> Goroutines \cup {Nobody}]
  BY DEF IInv, TypeOK
<1>1. /\ lock[s] \in Goroutines /\ pc[lock[s]].at \in {"assign", "receive"} /\ pc[lock[s]].id = n
      /\ Side(lock[s]) = s
  BY <1>0 DEF Awaited, LockHeld, Holds
<1>2. ASSUME NEW g \in Goroutines, lock[s] # g, lock'[s] = lock[s],
             \A h \in Goroutines : h # g => pc'[h] = pc[h]
      PROVE  Awaited(s, n)' /\ lock'[s] = lock[s]
  BY <1>1, <1>2 DEF Awaited
<1>3. ASSUME NEW g \in Goroutines, Outside(g) PROVE Awaited(s, n)' /\ lock'[s] = lock[s]
  BY <1>1, <1>2, <1>3 DEF Outside
<1>4. ASSUME NEW g \in Goroutines, Lock(g) PROVE Awaited(s, n)' /\ lock'[s] = lock[s]
  <2>1. /\ lock[Side(g)] = Nobody /\ pc[g].at = "lock" /\ lock' = [lock EXCEPT ![Side(g)] = g]
        /\ \A h \in Goroutines : h # g => pc'[h] = pc[h]
    BY <1>0, <1>4 DEF Lock
  <2>2. s # Side(g) /\ lock[s] # g
    BY <1>1, <2>1, Constants
  <2> QED BY <1>0, <1>2, <2>1, <2>2
<1>5. ASSUME NEW g \in Goroutines, QueueOp(g) \/ CancelLast(g)
      PROVE  Awaited(s, n)' /\ lock'[s] = lock[s]
  <2>1. /\ UNCHANGED lock /\ pc[g].at \in {"queue", "cancel"}
        /\ \A h \in Goroutines : h # g => pc'[h] = pc[h]
    BY <1>0, <1>5 DEF QueueOp, CancelLast, conn
  <2> QED BY <1>1, <1>2, <2>1
<1>6. ASSUME NEW g \in Goroutines, AssignOpID(g) PROVE Awaited(s, n)' /\ lock'[s] = lock[s]
  <2>1. /\ UNCHANGED lock /\ pc'[g].at = "receive" /\ pc'[g].id = pc[g].id
        /\ \A h \in Goroutines : h # g => pc'[h] = pc[h]
    BY <1>0, <1>6 DEF AssignOpID, State
  <2> QED BY <1>1, <1>2, <2>1 DEF Awaited
<1>7. ASSUME NEW g \in Goroutines, ReceiveEvent(g), Side(g) # s
      PROVE  Awaited(s, n)' /\ lock'[s] = lock[s]
  <2>1. /\ lock' = [lock EXCEPT ![Side(g)] = Nobody]
        /\ \A h \in Goroutines : h # g => pc'[h] = pc[h]
    BY <1>0, <1>7 DEF ReceiveEvent
  <2>2. lock[s] # g /\ lock'[s] = lock[s]
    BY <1>0, <1>1, <1>7, <2>1
  <2> QED BY <1>2, <2>1, <2>2
<1>8. UNCHANGED <<pc, lock>> => Awaited(s, n)' /\ lock'[s] = lock[s]
  BY <1>1 DEF Awaited
<1>9. PublishOp \/ PublishCancel \/ Quiet => UNCHANGED <<pc, lock>>
  BY DEF PublishOp, PublishCancel, Quiet, conn
<1>10. ASSUME NEW p, NEW res, Finish(p, res) PROVE UNCHANGED <<pc, lock>>
  BY <1>10 DEF Finish, conn
<1> QED BY <1>0, <1>3, <1>4, <1>5, <1>6, <1>7, <1>8, <1>9, <1>10, Effects

(* An event is received by the goroutine that waits for it. *)
LEMMA ReceivesOwn ==
    ASSUME IInv, NEW g \in Goroutines, ReceiveEvent(g)
    PROVE  /\ Side(g) \in Sides /\ lock[Side(g)] = g
           /\ Head(events).id = pc[g].id /\ Head(events).buf = g
           /\ 1 \in 1 .. Len(events) /\ Head(events) = events[1] /\ events[1].side = Side(g)
<1>1. /\ pc \in [Goroutines -> State] /\ SidesLeft /\ LockHeld /\ events \in Seq(Event)
      /\ pc[g].at = "receive" /\ events # << >> /\ Head(events).side = Side(g)
  BY DEF IInv, TypeOK, ReceiveEvent
<1>2. Side(g) \in Sides
  BY <1>1, SideTyped
<1>3. lock[Side(g)] = g
  BY <1>1, <1>2 DEF LockHeld, Holds
<1>4. Head(events) = events[1] /\ 1 \in 1 .. Len(events)
  BY <1>1, TailFacts
<1>5. Awaited(Side(g), Head(events).id) /\ Head(events).buf = g
  BY <1>1, <1>3, <1>4, Owners
<1> QED BY <1>1, <1>2, <1>3, <1>4, <1>5 DEF Awaited

(* What is somewhere belongs to the holder of the lock. *)
LEMMA BelongsStep ==
    ASSUME IInv, [Next]_vars
    PROVE  Belongs'
<1>0. /\ TypeOK /\ OneOp /\ Belongs /\ bus \in Seq(Request) /\ inflight \subseteq Published
      /\ events \in Seq(Event) /\ pc \in [Goroutines -> State] /\ SidesLeft /\ LockHeld
      /\ lock \in [Sides -> Goroutines \cup {Nobody}]
  BY DEF IInv, TypeOK
<1> DEFINE Receives(s) == \E g \in Goroutines : ReceiveEvent(g) /\ Side(g) = s
<1>a. \A s \in Sides, n \in ID :
         Awaited(s, n) => (Awaited(s, n)' /\ lock'[s] = lock[s]) \/ Receives(s)
  BY AwaitedStays
<1> HIDE DEF Receives
<1>b. ASSUME \A s \in Sides : ~Receives(s),
             \A s \in Sides, n \in ID : OnBus(s, n)' => OnBus(s, n) \/ Awaited(s, n)',
             \A s \in Sides, n \in ID, b \in Goroutines \cup {Nobody} :
                InFlight(s, n, b)' \/ Completed(s, n, b)' =>
                   InFlight(s, n, b) \/ Completed(s, n, b) \/ (Awaited(s, n) /\ b = lock[s])
      PROVE  Belongs'
  <2>1. ASSUME NEW s \in Sides, NEW n \in ID, OnBus(s, n)' PROVE Awaited(s, n)'
    BY <1>0, <1>a, <1>b, <2>1 DEF Belongs
  <2>2. ASSUME NEW s \in Sides, NEW n \in ID, NEW b \in Goroutines \cup {Nobody},
               InFlight(s, n, b)' \/ Completed(s, n, b)'
        PROVE  Awaited(s, n)' /\ b = lock'[s]
    <3>1. Awaited(s, n) /\ b = lock[s]
      BY <1>0, <1>b, <2>2 DEF Belongs
    <3> QED BY <1>a, <1>b, <3>1
  <2> QED BY <2>1, <2>2 DEF Belongs
<1>c. ASSUME UNCHANGED <<inflight, events>>, NEW s, NEW n, NEW b
      PROVE  (InFlight(s, n, b)' <=> InFlight(s, n, b)) /\ (Completed(s, n, b)' <=> Completed(s, n, b))
  BY <1>c DEF InFlight, Completed
<1>d. UNCHANGED bus => \A s, n : OnBus(s, n)' <=> OnBus(s, n)
  BY DEF OnBus
(* Only ReceiveEvent takes from events. *)
<1>e. ASSUME Len(events') >= Len(events) PROVE \A s \in Sides : ~Receives(s)
  <2>1. ASSUME NEW g \in Goroutines, ReceiveEvent(g) PROVE FALSE
    <3>1. events # << >> /\ events' = Tail(events)
      BY <2>1 DEF ReceiveEvent
    <3> QED BY <1>0, <1>e, <3>1
  <2> QED BY <2>1 DEF Receives
<1>f. UNCHANGED events => Len(events') >= Len(events)
  BY <1>0
<1>1. ASSUME NEW g \in Goroutines, Outside(g) \/ Lock(g) \/ AssignOpID(g) PROVE Belongs'
  <2>1. UNCHANGED <<bus, inflight, events>>
    BY <1>1 DEF Outside, Lock, AssignOpID, reactor
  <2> QED BY <1>b, <1>c, <1>d, <1>e, <1>f, <2>1
<1>g. ASSUME NEW r \in Request, bus' = Append(bus, r), NEW s, NEW n, OnBus(s, n)'
      PROVE  OnBus(s, n) \/ (r.kind = "op" /\ r.side = s /\ r.id = n)
  <2>1. PICK i \in 1 .. Len(bus') : bus'[i].kind = "op" /\ bus'[i].side = s /\ bus'[i].id = n
    BY <1>g DEF OnBus
  <2>2. (i \in 1 .. Len(bus) /\ bus'[i] = bus[i]) \/ bus'[i] = r
    BY <1>0, <1>g, AppendFacts
  <2> QED BY <2>1, <2>2 DEF OnBus
<1>2. ASSUME NEW g \in Goroutines, QueueOp(g) PROVE Belongs'
  <2> DEFINE r == [kind |-> "op", id |-> ids', side |-> Side(g), timed |-> Timed(deadline[Side(g)])]
  <2>1. /\ bus' = Append(bus, r) /\ UNCHANGED <<inflight, events, lock>> /\ pc[g].at = "queue"
        /\ ids' \in ID /\ pc'[g].at = "assign" /\ pc'[g].id = ids'
    BY <1>0, <1>2, NextID DEF QueueOp, State, conn
  <2>2. Side(g) \in Sides
    BY <1>0, <2>1, SideTyped
  <2>3. r \in Request /\ r.side = Side(g) /\ r.id = ids'
    BY <2>1, <2>2 DEF Request, Timed
  <2>4. lock'[Side(g)] = g
    BY <1>0, <2>1, <2>2 DEF LockHeld, Holds
  <2> HIDE DEF r
  <2>5. \A s \in Sides, n \in ID : r.side = s /\ r.id = n => Awaited(s, n)'
    BY <2>1, <2>3, <2>4 DEF Awaited
  <2> QED BY <1>b, <1>c, <1>e, <1>f, <1>g, <2>1, <2>3, <2>5
<1>3. ASSUME NEW g \in Goroutines, CancelLast(g) PROVE Belongs'
  <2> DEFINE r == [kind |-> "cancel", id |-> lastOpID[Side(g)], side |-> Side(g), timed |-> FALSE]
  <2>1. bus' = Append(bus, r) /\ UNCHANGED <<inflight, events>> /\ pc[g].at = "cancel"
    BY <1>3 DEF CancelLast
  <2>2. Side(g) \in Sides
    BY <1>0, <2>1, SideTyped
  <2>3. r \in Request /\ r.kind = "cancel"
    BY <1>0, <2>2 DEF Request, TypeOK
  <2> HIDE DEF r
  <2> QED BY <1>b, <1>c, <1>e, <1>f, <1>g, <2>1, <2>3
<1>4. ASSUME NEW g \in Goroutines, ReceiveEvent(g) PROVE Belongs'
  <2> DEFINE t == Side(g)
  <2>1. events # << >> /\ events' = Tail(events) /\ UNCHANGED <<bus, inflight>>
    BY <1>4 DEF ReceiveEvent
  <2>2. 1 \in 1 .. Len(events) /\ events[1].side = t /\ t \in Sides
    BY <1>4, ReceivesOwn
  <2>3. \A i \in 1 .. Len(events') : /\ i \in Nat /\ i + 1 \in 1 .. Len(events) /\ i + 1 # 1
                                     /\ events'[i] = events[i + 1]
    BY <1>0, <2>1, TailFacts
  <2> HIDE DEF t
  <2>4. \A s, n, b : Completed(s, n, b)' => Completed(s, n, b) /\ s # t
    BY <1>0, <2>2, <2>3 DEF Completed, OneOp
  <2>5. \A s, n, b : InFlight(s, n, b)' => InFlight(s, n, b) /\ s # t
    BY <1>0, <2>1, <2>2 DEF InFlight, OneOp
  <2>6. \A s, n : OnBus(s, n)' => OnBus(s, n) /\ s # t
    BY <1>0, <2>1, <2>2 DEF OnBus, OneOp
  <2>7. ASSUME NEW s \in Sides, s # t PROVE ~Receives(s)
    <3>1. ASSUME NEW h \in Goroutines, ReceiveEvent(h) PROVE Side(h) = t
      BY <2>2, <3>1, ReceivesOwn
    <3> QED BY <2>7, <3>1 DEF Receives
  <2>8. \A s \in Sides, n \in ID : s # t /\ Awaited(s, n) => Awaited(s, n)' /\ lock'[s] = lock[s]
    BY <1>a, <2>7
  <2> QED BY <1>0, <2>4, <2>5, <2>6, <2>8 DEF Belongs
<1>5. ASSUME bus # << >>, bus' = Tail(bus)
      PROVE  /\ Head(bus) = bus[1] /\ bus[1] \in Request /\ 1 \in 1 .. Len(bus)
             /\ \A s, n : OnBus(s, n)' => OnBus(s, n)
  <2>1. /\ Head(bus) = bus[1] /\ bus[1] \in Request /\ 1 \in 1 .. Len(bus)
        /\ \A i \in 1 .. Len(bus') : i + 1 \in 1 .. Len(bus) /\ bus'[i] = bus[i + 1]
    BY <1>0, <1>5, TailFacts
  <2> QED BY <2>1 DEF OnBus
<1>6. ASSUME NEW e \in Event, events' = Append(events, e)
      PROVE  /\ Len(events') >= Len(events)
             /\ \A s, n, b : Completed(s, n, b)' =>
                   Completed(s, n, b) \/ (e.side = s /\ e.id = n /\ e.buf = b)
  <2>1. /\ \A i \in 1 .. Len(events) : events'[i] = events[i]
        /\ events'[Len(events) + 1] = e
        /\ \A i \in 1 .. Len(events') : i \in 1 .. Len(events) \/ i = Len(events) + 1
    BY <1>0, <1>6, AppendFacts
  <2>2. Len(events') >= Len(events)
    BY <1>0, <1>6
  <2>3. ASSUME NEW s, NEW n, NEW b, Completed(s, n, b)'
        PROVE  Completed(s, n, b) \/ (e.side = s /\ e.id = n /\ e.buf = b)
    <3>1. PICK i \in 1 .. Len(events') : events'[i].side = s /\ events'[i].id = n /\ events'[i].buf = b
      BY <2>3 DEF Completed
    <3>2. CASE i \in 1 .. Len(events)
      BY <2>1, <3>1, <3>2 DEF Completed
    <3>3. CASE i = Len(events) + 1
      BY <2>1, <3>1, <3>3
    <3> QED BY <2>1, <3>2, <3>3
  <2> QED BY <2>2, <2>3
<1>7. CASE PublishOp
  <2> DEFINE p == [id |-> Head(bus).id, side |-> Head(bus).side, timed |-> Head(bus).timed,
                   buf |-> buffer[Head(bus).side]]
  <2>1. /\ bus # << >> /\ bus' = Tail(bus) /\ Head(bus).kind = "op" /\ UNCHANGED <<pc, lock>>
        /\ \/ inflight' = inflight \cup {p} /\ UNCHANGED events
           \/ events' = Append(events, EventOf(p, "error")) /\ UNCHANGED inflight
    BY <1>7 DEF PublishOp, conn
  <2>2. /\ Head(bus) = bus[1] /\ bus[1] \in Request /\ 1 \in 1 .. Len(bus)
        /\ \A s, n : OnBus(s, n)' => OnBus(s, n)
    BY <1>5, <2>1
  <2>3. p \in Published /\ p.side = bus[1].side /\ p.id = bus[1].id /\ p.buf = buffer[bus[1].side]
    BY <1>0, <2>1, <2>2 DEF Published, Request, TypeOK
  <2>4. LET e == EventOf(p, "error")
        IN  e \in Event /\ e.side = p.side /\ e.id = p.id /\ e.buf = p.buf
    BY <2>3 DEF EventOf, Event, Published
  <2> HIDE DEF p
  <2>5. p.side \in Sides /\ Awaited(p.side, p.id)
    BY <2>1, <2>2, <2>3, Owners
  <2>6. p.buf = lock[p.side]
    BY <1>0, <2>3, <2>5, Constants DEF Awaited, LockHeld
  <2>7. CASE inflight' = inflight \cup {p} /\ UNCHANGED events
    <3>1. \A s, n, b : InFlight(s, n, b)' => InFlight(s, n, b) \/ (p.side = s /\ p.id = n /\ p.buf = b)
      BY <2>7 DEF InFlight
    <3>2. \A s, n, b : Completed(s, n, b)' <=> Completed(s, n, b)
      BY <2>7 DEF Completed
    <3> QED BY <1>b, <1>e, <1>f, <2>2, <2>5, <2>6, <2>7, <3>1, <3>2
  <2>8. CASE events' = Append(events, EventOf(p, "error")) /\ UNCHANGED inflight
    <3>1. /\ Len(events') >= Len(events)
          /\ \A s, n, b : Completed(s, n, b)' =>
                Completed(s, n, b) \/ (p.side = s /\ p.id = n /\ p.buf = b)
      BY <1>6, <2>4, <2>8
    <3>2. \A s, n, b : InFlight(s, n, b)' <=> InFlight(s, n, b)
      BY <2>8 DEF InFlight
    <3> QED BY <1>b, <1>e, <2>2, <2>5, <2>6, <3>1, <3>2
  <2> QED BY <2>1, <2>7, <2>8
<1>8. ASSUME NEW p \in inflight, NEW res \in {"data", "eof", "error", "canceled"},
             inflight' = inflight \ {p}, events' = Append(events, EventOf(p, res)),
             \A s, n : OnBus(s, n)' => OnBus(s, n)
      PROVE  Belongs'
  <2>1. LET e == EventOf(p, res)
        IN  e \in Event /\ e.side = p.side /\ e.id = p.id /\ e.buf = p.buf
    BY <1>0, EventTyped
  <2>2. /\ Len(events') >= Len(events)
        /\ \A s, n, b : Completed(s, n, b)' =>
              Completed(s, n, b) \/ (p.side = s /\ p.id = n /\ p.buf = b)
    BY <1>6, <1>8, <2>1
  <2>3. \A s, n, b : InFlight(s, n, b)' => InFlight(s, n, b)
    BY <1>8 DEF InFlight
  <2>4. InFlight(p.side, p.id, p.buf)
    BY DEF InFlight
  <2> QED BY <1>b, <1>e, <1>8, <2>2, <2>3, <2>4
<1>9. CASE PublishCancel
  <2>1. bus # << >> /\ bus' = Tail(bus)
    BY <1>9 DEF PublishCancel
  <2>2. \A s, n : OnBus(s, n)' => OnBus(s, n)
    BY <1>5, <2>1
  <2>3. CASE UNCHANGED <<inflight, events>>
    BY <1>b, <1>c, <1>e, <1>f, <2>2, <2>3
  <2> QED BY <1>8, <1>9, <2>2, <2>3, CancelEffect
<1>10. ASSUME NEW p \in inflight, NEW res \in {"data", "eof", "error", "canceled"}, Finish(p, res)
       PROVE  Belongs'
  BY <1>8, <1>d, <1>10 DEF Finish
<1>11. CASE Quiet
  BY <1>b, <1>c, <1>d, <1>e, <1>f, <1>11 DEF Quiet
<1> QED BY <1>0, <1>1, <1>2, <1>3, <1>4, <1>7, <1>9, <1>10, <1>11, Effects

(* The kernel has one operation of a side at a time. *)
LEMMA OneInFlight ==
    ASSUME NEW F, \A p, q \in F : p.side = q.side => p = q, NEW s
    PROVE  Cardinality({p \in F : p.side = s}) <= 1
<1>1. Cardinality({}) <= 1
  BY FS_EmptySet
<1>2. ASSUME NEW q \in {p \in F : p.side = s} PROVE {p \in F : p.side = s} = {q}
  OBVIOUS
<1>3. ASSUME NEW q PROVE Cardinality({q}) <= 1
  <2>1. Cardinality({q}) = 1
    BY FS_Singleton, Zenon
  <2> QED BY <2>1
<1> QED BY <1>1, <1>2, <1>3

(* Types. *)
LEMMA StateTyped ==
    ASSUME NEW at \in {"idle", "lock", "queue", "assign", "receive", "cancel", "set"},
           NEW sides \in Seq(Sides), NEW id \in ID, NEW when \in Times
    PROVE  At(at, sides, id, when) \in State
BY DEF At, State

LEMMA IdleTyped == Idle \in State
<1>1. << >> \in Seq(Sides)
  OBVIOUS
<1> QED BY <1>1, StateTyped, Constants DEF Idle

LEMMA TypeStep ==
    ASSUME IInv, [Next]_vars
    PROVE  TypeOK'
<1>0. TypeOK /\ SidesLeft
  BY DEF IInv
<1>a. \A s \in Sides : Cardinality({p \in inflight' : p.side = s}) <= 1
  <2>1. \A p, q \in inflight' : p.side = q.side => p = q
    BY OneOpStep DEF OneOp
  <2> QED BY <2>1, OneInFlight
<1> USE <1>0, <1>a, Constants DEF TypeOK, conn, reactor, counts
<1>1. ASSUME NEW g \in Goroutines, NEW s \in Sides, CallOp(g, s) PROVE TypeOK'
  <2>1. calls' \in ID
    BY <1>1 DEF CallOp, ID
  <2>2. <<s>> \in Seq(Sides)
    OBVIOUS
  <2>3. At("lock", <<s>>, 0, "none") \in State
    BY <2>2, StateTyped
  <2>4. pc' \in [Goroutines -> State]
    BY <1>1, <2>3 DEF CallOp
  <2> QED BY <1>1, <2>1, <2>4 DEF CallOp
<1>2. ASSUME NEW g \in Goroutines, NEW sides \in SideSeqs, NEW when \in Deadlines,
             CallSetDeadline(g, sides, when)
      PROVE  TypeOK'
  <2>1. sets' \in 0 .. MaxSets
    BY <1>2 DEF CallSetDeadline
  <2>2. At(FirstStep(when), sides, 0, when) \in State
    BY SideSeqsTyped, StateTyped DEF FirstStep
  <2>3. pc' \in [Goroutines -> State]
    BY <1>2, <2>2 DEF CallSetDeadline
  <2> QED BY <1>2, <2>1, <2>3 DEF CallSetDeadline
<1>3. ASSUME NEW g \in Goroutines, SetField(g) PROVE TypeOK'
  <2>1. pc[g].sides \in Seq(Sides) /\ pc[g].when \in Times
    BY DEF State
  <2>2. Len(pc[g].sides) > 1 => At(FirstStep(pc[g].when), Tail(pc[g].sides), 0, pc[g].when) \in State
    BY <2>1, LongTail, StateTyped DEF FirstStep
  <2>3. pc' \in [Goroutines -> State]
    BY <1>3, <2>2, IdleTyped DEF SetField
  <2>4. deadline' \in [Sides -> Times]
    BY <1>3, <2>1 DEF SetField
  <2> QED BY <1>3, <2>3, <2>4 DEF SetField
<1>b. ASSUME NEW r \in State, NEW at \in {"queue", "assign", "receive", "set"}, NEW id \in ID
      PROVE  /\ [r EXCEPT !.at = at] \in State
             /\ [r EXCEPT !.at = at, !.id = id] \in State
  BY DEF State
<1>4. ASSUME NEW g \in Goroutines, Lock(g) PROVE TypeOK'
  <2>1. Side(g) \in Sides
    BY <1>4, SideTyped DEF Lock
  <2>2. pc' \in [Goroutines -> State]
    BY <1>4, <1>b DEF Lock
  <2>3. /\ lock' \in [Sides -> Goroutines \cup {Nobody}]
        /\ buffer' \in [Sides -> Goroutines \cup {Nobody}]
    BY <1>4 DEF Lock
  <2> QED BY <1>4, <2>2, <2>3 DEF Lock
<1>5. ASSUME NEW g \in Goroutines, QueueOp(g) PROVE TypeOK'
  <2>1. ids' \in ID
    BY <1>5, NextID DEF QueueOp
  <2>2. Side(g) \in Sides
    BY <1>5, SideTyped DEF QueueOp
  <2>3. [kind |-> "op", id |-> ids', side |-> Side(g), timed |-> Timed(deadline[Side(g)])] \in Request
    BY <2>1, <2>2 DEF Request, Timed
  <2>4. bus' \in Seq(Request)
    BY <1>5, <2>3, AppendFacts DEF QueueOp
  <2>5. pc' \in [Goroutines -> State]
    BY <1>5, <1>b, <2>1 DEF QueueOp
  <2> QED BY <1>5, <2>1, <2>4, <2>5 DEF QueueOp
<1>6. ASSUME NEW g \in Goroutines, AssignOpID(g) PROVE TypeOK'
  <2>0. pc[g] \in State
    BY <1>6
  <2>1. pc' \in [Goroutines -> State] /\ pc[g].id \in ID
    BY <1>6, <1>b, <2>0 DEF AssignOpID, State
  <2>2. lastOpID' \in [Sides -> ID]
    BY <1>6, <2>1 DEF AssignOpID
  <2> QED BY <1>6, <2>1, <2>2 DEF AssignOpID
<1>7. ASSUME NEW g \in Goroutines, CancelLast(g) PROVE TypeOK'
  <2>1. Side(g) \in Sides
    BY <1>7, SideTyped DEF CancelLast
  <2>2. [kind |-> "cancel", id |-> lastOpID[Side(g)], side |-> Side(g), timed |-> FALSE] \in Request
    BY <2>1 DEF Request
  <2>3. bus' \in Seq(Request)
    BY <1>7, <2>2, AppendFacts DEF CancelLast
  <2>4. pc' \in [Goroutines -> State]
    BY <1>7, <1>b DEF CancelLast
  <2> QED BY <1>7, <2>3, <2>4 DEF CancelLast
<1>8. ASSUME NEW g \in Goroutines, ReceiveEvent(g) PROVE TypeOK'
  <2>1. pc[g].id \in ID /\ Side(g) \in Sides /\ Head(events).buf = g /\ Head(events).id = pc[g].id
    BY <1>8, ReceivesOwn DEF State
  <2>2. events' \in Seq(Event)
    BY <1>8, TailFacts DEF ReceiveEvent
  <2>3. got' \in [Goroutines -> [wanted : ID, id : ID, buf : Goroutines \cup {Nobody}]]
    BY <1>8, <2>1 DEF ReceiveEvent
  <2>4. pc' \in [Goroutines -> State]
    BY <1>8, IdleTyped DEF ReceiveEvent
  <2>5. lock' \in [Sides -> Goroutines \cup {Nobody}]
    BY <1>8 DEF ReceiveEvent
  <2> QED BY <1>8, <2>2, <2>3, <2>4, <2>5 DEF ReceiveEvent
<1>9. CASE Close
  BY <1>9 DEF Close
<1>10. CASE PublishOp
  <2> DEFINE p == [id |-> Head(bus).id, side |-> Head(bus).side, timed |-> Head(bus).timed,
                   buf |-> buffer[Head(bus).side]]
  <2>0. bus \in Seq(Request) /\ bus # << >> /\ bus' = Tail(bus)
    BY <1>10 DEF PublishOp
  <2>1. Head(bus) \in Request /\ bus' \in Seq(Request)
    BY ONLY <2>0, TailFacts
  <2>2. p \in Published
    BY <2>1 DEF Published, Request
  <2>3. EventOf(p, "error") \in Event
    BY <2>2 DEF EventOf, Event, Published
  <2>4. \/ inflight' = inflight \cup {p} /\ UNCHANGED events
        \/ events' = Append(events, EventOf(p, "error")) /\ UNCHANGED inflight
    BY <1>10 DEF PublishOp
  <2> HIDE DEF p
  <2>5. Append(events, EventOf(p, "error")) \in Seq(Event)
    BY <2>3, AppendFacts
  <2>6. inflight' \subseteq Published /\ events' \in Seq(Event)
    BY <2>2, <2>4, <2>5
  <2> QED BY <1>10, <2>1, <2>6 DEF PublishOp
<1>11. ASSUME NEW p \in inflight, NEW res \in {"data", "eof", "error", "canceled"},
              inflight' = inflight \ {p}, events' = Append(events, EventOf(p, res))
       PROVE  inflight' \subseteq Published /\ events' \in Seq(Event)
  BY <1>11, EventTyped, AppendFacts
<1>12. CASE PublishCancel
  <2>1. bus' \in Seq(Request)
    BY <1>12, TailFacts DEF PublishCancel
  <2>2. inflight' \subseteq Published /\ events' \in Seq(Event)
    BY <1>11, <1>12, CancelEffect
  <2> QED BY <1>12, <2>1, <2>2 DEF PublishCancel
<1>13. ASSUME NEW p \in inflight, NEW res \in {"data", "eof", "error", "canceled"}, Finish(p, res)
       PROVE  TypeOK'
  <2>1. inflight' \subseteq Published /\ events' \in Seq(Event)
    BY <1>11, <1>13 DEF Finish
  <2> QED BY <1>13, <2>1 DEF Finish
<1>14. CASE UNCHANGED vars
  BY <1>14 DEF vars
<1> HIDE DEF TypeOK, conn, reactor, counts
<1> QED BY <1>1, <1>2, <1>3, <1>4, <1>5, <1>6, <1>7, <1>8, <1>9, <1>10, <1>12, <1>13, <1>14
        DEF Next, OpStep, Complete, Expire

(* Results. *)
LEMMA OwnStep ==
    ASSUME IInv, [Next]_vars
    PROVE  OwnResult'
<1>0. /\ TypeOK /\ OwnResult
      /\ got \in [Goroutines -> [wanted : ID, id : ID, buf : Goroutines \cup {Nobody}]]
  BY DEF IInv, TypeOK
<1>1. ASSUME NEW g \in Goroutines, ReceiveEvent(g) PROVE OwnResult'
  <2>1. got' = [got EXCEPT ![g] = [wanted |-> pc[g].id, id |-> pc[g].id, buf |-> g]]
    BY <1>1, ReceivesOwn DEF ReceiveEvent
  <2> QED BY <1>0, <2>1 DEF OwnResult
<1>2. UNCHANGED got => OwnResult'
  BY <1>0 DEF OwnResult
<1>3. ASSUME NEW g \in Goroutines, Outside(g) \/ Lock(g) \/ QueueOp(g) \/ AssignOpID(g) \/ CancelLast(g)
      PROVE  UNCHANGED got
  BY <1>3 DEF Outside, Lock, QueueOp, AssignOpID, CancelLast
<1>4. PublishOp \/ PublishCancel \/ Quiet => UNCHANGED got
  BY DEF PublishOp, PublishCancel, Quiet
<1>5. ASSUME NEW p, NEW res, Finish(p, res) PROVE UNCHANGED got
  BY <1>5 DEF Finish
<1> QED BY <1>0, <1>1, <1>2, <1>3, <1>4, <1>5, Effects

-----------------------------------------------------------------------------
LEMMA InitIInv == Init => IInv
<1> SUFFICES ASSUME Init PROVE IInv
  OBVIOUS
<1>1. /\ bus \in Seq(Request) /\ Len(bus) = 0 /\ events \in Seq(Event) /\ Len(events) = 0
      /\ inflight = {} /\ \A g \in Goroutines : pc[g].at = "idle"
  BY DEF Init, Idle, At
<1>2. OneOp
  <2>1. 1 .. Len(bus) = {} /\ 1 .. Len(events) = {}
    BY <1>1
  <2> QED BY <1>1, <2>1, Zenon DEF OneOp
<1>3. TypeOK
  <2>1. \A s \in Sides : Cardinality({p \in inflight : p.side = s}) <= 1
    <3>1. \A p, q \in inflight : p.side = q.side => p = q
      BY <1>1
    <3> QED BY <3>1, OneInFlight
  <2>2. pc \in [Goroutines -> State]
    BY IdleTyped DEF Init
  <2>3. got \in [Goroutines -> [wanted : ID, id : ID, buf : Goroutines \cup {Nobody}]]
    BY Constants DEF Init
  <2>4. /\ lock \in [Sides -> Goroutines \cup {Nobody}] /\ buffer \in [Sides -> Goroutines \cup {Nobody}]
        /\ lastOpID \in [Sides -> ID] /\ deadline \in [Sides -> Times]
    BY Constants DEF Init
  <2>5. open \in BOOLEAN /\ calls \in ID /\ ids \in ID /\ sets \in 0 .. MaxSets
    BY Constants DEF Init
  <2> QED BY <1>1, <2>1, <2>2, <2>3, <2>4, <2>5 DEF TypeOK
<1>4. SidesLeft /\ LockHeld
  BY <1>1, Constants DEF Init, SidesLeft, LockHeld, Holds
<1>5. Accounted
  <2>1. Pending = {}
    BY <1>1 DEF Pending
  <2> QED BY <2>1, FS_EmptySet DEF Init, Accounted
<1>6. Belongs
  BY <1>1 DEF Belongs, OnBus, InFlight, Completed
<1>7. OwnResult
  BY DEF Init, OwnResult
<1> QED BY <1>2, <1>3, <1>4, <1>5, <1>6, <1>7 DEF IInv

LEMMA StepIInv == IInv /\ [Next]_vars => IInv'
BY TypeStep, SidesStep, LockStep, AccountStep, BelongsStep, OneOpStep, OwnStep DEF IInv

LEMMA Invariance == Spec => []IInv
BY InitIInv, StepIInv, PTL DEF Spec

(* Read and Write return the result of their own request, done with their  *)
(* own buffer, although the goroutines of a side share one channel and one *)
(* operation whose buffer the event loop reads later.                      *)
THEOREM ResultsNeverMixed == Spec => []OwnResult
<1>1. IInv => OwnResult
  BY DEF IInv
<1> QED BY <1>1, Invariance, PTL

(* For every completion there is one goroutine that is about to receive    *)
(* it, so the callback that sends it on the unbuffered channel does not    *)
(* hold up the event loop for good.                                        *)
THEOREM CompletionsAwaited == Spec => []EventAwaited
<1>1. ASSUME IInv PROVE EventAwaited
  <2>1. LockHeld /\ TypeOK
    BY <1>1 DEF IInv
  <2>2. ASSUME NEW i \in 1 .. Len(events)
        PROVE  \E g \in Goroutines : /\ pc[g].at \in {"assign", "receive"}
                                     /\ pc[g].id = events[i].id /\ Side(g) = events[i].side
    <3>1. events[i].side \in Sides /\ Awaited(events[i].side, events[i].id)
      BY <1>1, Owners
    <3>2. Side(lock[events[i].side]) = events[i].side
      BY <2>1, <3>1 DEF LockHeld, Holds, Awaited
    <3> QED BY <3>1, <3>2 DEF Awaited
  <2> QED BY <2>2 DEF EventAwaited
<1> QED BY <1>1, Invariance, PTL
=============================================================================
