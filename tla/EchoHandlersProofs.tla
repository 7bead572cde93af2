------------------------- MODULE EchoHandlersProofs -------------------------
(***************************************************************************)
(* Proofs about the listener and about the server on top of it: ListenerInv*)
(* and ServerInv are inductive, a step of the server is a step of the      *)
(* listener or leaves it alone, and what follows for the properties.       *)
(***************************************************************************)
EXTENDS EchoHandlers, FiniteSetTheorems, WellFoundedInduction, TLAPS

LEMMA Constants ==
  /\ NoPeer \notin Peers
  /\ Closable \in BOOLEAN
  /\ MaxConns \in Nat \ {0}
  /\ MaxMsgs \in Nat
BY ListenerAssumption, HandlersAssumption

-----------------------------------------------------------------------------
(* Sequences and the sets of their elements. *)

(* Append adds its element. *)
LEMMA AppendElements ==
  ASSUME NEW S, NEW q \in Seq(S), NEW e \in S
  PROVE  /\ Append(q, e) \in Seq(S)
         /\ Len(Append(q, e)) = Len(q) + 1
         /\ \A i \in 1 .. Len(q) : Append(q, e)[i] = q[i]
         /\ Append(q, e)[Len(q) + 1] = e
         /\ {Append(q, e)[i] : i \in 1 .. Len(Append(q, e))}
                = {q[i] : i \in 1 .. Len(q)} \cup {e}
<1> DEFINE r == Append(q, e)
<1>1. /\ r \in Seq(S) /\ Len(r) = Len(q) + 1
      /\ \A i \in 1 .. Len(q) : r[i] = q[i]
      /\ r[Len(q) + 1] = e
      /\ Len(q) \in Nat
  OBVIOUS
<1> HIDE DEF r
<1>2. 1 .. Len(r) = (1 .. Len(q)) \cup {Len(q) + 1}
  BY <1>1
<1>3. {r[i] : i \in 1 .. Len(r)} = {q[i] : i \in 1 .. Len(q)} \cup {e}
  BY <1>1, <1>2
<1> QED BY <1>1, <1>3 DEF r

(* Tail drops the first element. *)
LEMMA TailElements ==
  ASSUME NEW S, NEW q \in Seq(S), q # << >>
  PROVE  /\ Head(q) \in S /\ Head(q) = q[1] /\ 1 \in 1 .. Len(q)
         /\ Tail(q) \in Seq(S)
         /\ Len(Tail(q)) = Len(q) - 1
         /\ \A i \in 1 .. Len(Tail(q)) : i + 1 \in 1 .. Len(q) /\ Tail(q)[i] = q[i + 1]
         /\ {q[i] : i \in 1 .. Len(q)}
                = {Tail(q)[i] : i \in 1 .. Len(Tail(q))} \cup {Head(q)}
<1> DEFINE r == Tail(q)
<1>1. /\ r \in Seq(S) /\ Len(r) = Len(q) - 1
      /\ \A i \in 1 .. Len(r) : r[i] = q[i + 1]
      /\ Head(q) = q[1] /\ q[1] \in S
      /\ Len(q) \in Nat /\ Len(q) > 0
  OBVIOUS
<1> HIDE DEF r
<1>2. \A i \in 1 .. Len(r) : i + 1 \in 1 .. Len(q)
  BY <1>1
<1>3. \A i \in 1 .. Len(q) : i = 1 \/ (i - 1 \in 1 .. Len(r) /\ r[i - 1] = q[i])
  BY <1>1
<1>4. {q[i] : i \in 1 .. Len(q)} \subseteq {r[i] : i \in 1 .. Len(r)} \cup {q[1]}
  BY <1>3
<1>5. 1 \in 1 .. Len(q)
  BY <1>1
<1>6. {r[i] : i \in 1 .. Len(r)} \cup {q[1]} \subseteq {q[i] : i \in 1 .. Len(q)}
  BY <1>1, <1>2, <1>5
<1> QED BY <1>1, <1>2, <1>4, <1>5, <1>6 DEF r

(* A set of natural numbers has a least one. *)
LEMMA LeastNumber ==
  ASSUME NEW S \in SUBSET Nat, S # {}
  PROVE  Min(S) \in S
<1> DEFINE R == OpToRel(<, Nat)
<1>1. IsWellFoundedOn(R, Nat)
  BY NatLessThanWellFounded
<1> HIDE DEF R
<1>2. PICK x \in S : \A y \in S : ~ (<<y, x>> \in R)
  BY <1>1, WFMin
<1>3. R = {ss \in Nat \X Nat : ss[1] < ss[2]}
  BY Zenon DEF R, OpToRel
<1>4. ASSUME NEW y \in S PROVE x <= y
  <2>1. x \in Nat /\ y \in Nat /\ ~ (<<y, x>> \in R)
    BY <1>2
  <2>2. y < x => <<y, x>> \in R
    BY <1>3, <2>1
  <2> QED BY <2>1, <2>2
<1> QED BY <1>4 DEF Min

-----------------------------------------------------------------------------
(* The listener. *)

(* Types. *)
LEMMA TypeStep ==
  ASSUME ListenerInv, [Next]_vars
  PROVE  /\ TypeOK'
         /\ \A a \in Acceptors : pc'[a] = "addr" => fd'[a] \in Peers
<1> USE Constants
<1>0. TypeOK /\ \A a \in Acceptors : pc[a] = "addr" => fd[a] \in Peers
  BY DEF ListenerInv
<1>1. ASSUME NEW a \in Acceptors, CallAccept(a) PROVE TypeOK' /\ \A b \in Acceptors : pc'[b] = "addr" => fd'[b] \in Peers
  BY <1>0, <1>1 DEF TypeOK, CallAccept, socket, life
<1>2. ASSUME NEW a \in Acceptors, ReceiveEvent(a) PROVE TypeOK' /\ \A b \in Acceptors : pc'[b] = "addr" => fd'[b] \in Peers
  <2>1. Head(events) \in Peers \cup {NoPeer} /\ Tail(events) \in Seq(Peers \cup {NoPeer})
    BY <1>0, <1>2, TailElements DEF TypeOK, ReceiveEvent
  <2> QED BY <1>0, <1>2, <2>1 DEF TypeOK, ReceiveEvent, socket, life
<1>3. ASSUME NEW a \in Acceptors, ReadAddr(a) PROVE TypeOK' /\ \A b \in Acceptors : pc'[b] = "addr" => fd'[b] \in Peers
  <2>1. [fd |-> fd[a], addr |-> addr] \in [fd : Peers, addr : Peers \cup {NoPeer}]
    BY <1>0, <1>3 DEF TypeOK, ReadAddr
  <2> QED BY <1>0, <1>3, <2>1 DEF TypeOK, ReadAddr, reactor, socket, life
<1>4. CASE CloseSocket
  BY <1>0, <1>4 DEF TypeOK, CloseSocket, reactor, socket, life
<1>5. CASE StopReactor
  BY <1>0, <1>5 DEF TypeOK, StopReactor, reactor, socket, life
<1>6. ASSUME NEW p \in Peers, Dial(p) PROVE TypeOK' /\ \A b \in Acceptors : pc'[b] = "addr" => fd'[b] \in Peers
  BY <1>0, <1>6 DEF TypeOK, Dial, reactor, life
<1>7. CASE Publish
  <2>1. Append(events, NoPeer) \in Seq(Peers \cup {NoPeer})
    BY <1>0, AppendElements DEF TypeOK
  <2>2. bus' \in Nat
    BY <1>0, <1>7 DEF TypeOK, Publish
  <2>3. UNCHANGED <<pc, fd, addr, dialled, backlog, listening, serving, conns>>
    BY <1>7 DEF Publish, socket, life
  <2>4. CASE listening
    BY <1>0, <1>7, <2>4, <2>2, <2>3 DEF TypeOK, Publish
  <2>5. CASE ~listening
    BY <1>0, <1>7, <2>5, <2>1, <2>2, <2>3 DEF TypeOK, Publish
  <2> QED BY <2>4, <2>5
<1>8. CASE Complete
  <2>1. Head(backlog) \in Peers /\ Tail(backlog) \in Seq(Peers)
    BY <1>0, <1>8, TailElements DEF TypeOK, Complete
  <2>2. Append(events, Head(backlog)) \in Seq(Peers \cup {NoPeer})
    BY <1>0, <2>1, AppendElements DEF TypeOK
  <2> QED BY <1>0, <1>8, <2>1, <2>2 DEF TypeOK, Complete, AddrWritten, life
<1>9. CASE AcceptError
  <2>1. Append(events, NoPeer) \in Seq(Peers \cup {NoPeer})
    BY <1>0, AppendElements DEF TypeOK
  <2> QED BY <1>0, <1>9, <2>1 DEF TypeOK, AcceptError, life
<1>10. CASE UNCHANGED vars
  BY <1>0, <1>10 DEF TypeOK, vars, reactor, socket, life
<1> QED BY <1>1, <1>2, <1>3, <1>4, <1>5, <1>6, <1>7, <1>8, <1>9, <1>10 DEF Next

(* A step changes the number of waiting calls and of events to come alike. *)
LEMMA EventsDueStep ==
  ASSUME ListenerInv, [Next]_vars
  PROVE  EventsDue'
<1> DEFINE n == bus + inflight + Len(events)
<1>0. /\ pc \in [Acceptors -> {"idle", "receive", "addr"}]
      /\ bus \in Nat /\ inflight \in Nat
      /\ events \in Seq(Peers \cup {NoPeer})
      /\ Len(events) \in Nat
      /\ IsFiniteSet(Receivers) /\ Cardinality(Receivers) = n
  BY DEF ListenerInv, TypeOK, EventsDue
<1>1. ASSUME NEW a \in Acceptors, CallAccept(a) PROVE EventsDue'
  <2>1. Receivers' = Receivers \cup {a} /\ a \notin Receivers
    BY <1>0, <1>1 DEF CallAccept, Receivers
  <2>2. IsFiniteSet(Receivers') /\ Cardinality(Receivers') = Cardinality(Receivers) + 1
    BY <1>0, <2>1, FS_AddElement
  <2>3. n' = n + 1
    BY <1>0, <1>1 DEF CallAccept
  <2> QED BY <1>0, <2>2, <2>3 DEF EventsDue
<1>2. ASSUME NEW a \in Acceptors, ReceiveEvent(a) PROVE EventsDue'
  <2>1. Receivers' = Receivers \ {a} /\ a \in Receivers
    BY <1>0, <1>2 DEF ReceiveEvent, Receivers
  <2>2. IsFiniteSet(Receivers') /\ Cardinality(Receivers') = Cardinality(Receivers) - 1
    BY <1>0, <2>1, FS_RemoveElement
  <2>3. Len(Tail(events)) = Len(events) - 1
    BY <1>0, <1>2, TailElements DEF ReceiveEvent
  <2>4. n' = n - 1
    BY <1>0, <1>2, <2>3 DEF ReceiveEvent
  <2> QED BY <1>0, <2>2, <2>4 DEF EventsDue
<1>3. CASE Receivers' = Receivers /\ n' = n
  BY <1>0, <1>3 DEF EventsDue
<1>4. ASSUME NEW a \in Acceptors, ReadAddr(a) PROVE Receivers' = Receivers /\ n' = n
  BY <1>0, <1>4 DEF ReadAddr, reactor, Receivers
<1>5. Len(Append(events, NoPeer)) = Len(events) + 1
  BY <1>0, AppendElements
<1>6. CASE Publish
  BY <1>0, <1>3, <1>5, <1>6 DEF Publish, Receivers
<1>7. CASE AcceptError
  BY <1>0, <1>3, <1>5, <1>7 DEF AcceptError, Receivers
<1>8. CASE Complete
  <2>1. Len(Append(events, Head(backlog))) = Len(events) + 1
    <3>1. Head(backlog) \in Peers
      BY <1>8, TailElements DEF ListenerInv, TypeOK, Complete
    <3> QED BY <1>0, <3>1, AppendElements
  <2> QED BY <1>0, <1>3, <1>8, <2>1 DEF Complete, Receivers
<1>9. CASE UNCHANGED <<pc, bus, inflight, events>>
  BY <1>0, <1>3, <1>9 DEF Receivers
<1>10. ASSUME NEW p \in Peers, Dial(p) PROVE UNCHANGED <<pc, bus, inflight, events>>
  BY <1>10 DEF Dial, reactor
<1>11. CloseSocket \/ StopReactor \/ UNCHANGED vars => UNCHANGED <<pc, bus, inflight, events>>
  BY DEF CloseSocket, StopReactor, vars, reactor
<1> QED BY <1>1, <1>2, <1>3, <1>4, <1>6, <1>7, <1>8, <1>9, <1>10, <1>11 DEF Next

(* An event added is one more waiting connection, unless it is an error.   *)
LEMMA EventAdded ==
  ASSUME TypeOK, WaitingOnce, NEW e \in Peers \cup {NoPeer}, e \notin Waiting,
         events' = Append(events, e)
  PROVE  WaitingOnce' /\ Waiting' = Waiting \cup ({e} \ {NoPeer})
<1>1. /\ Len(events) \in Nat
      /\ Len(events') = Len(events) + 1
      /\ \A i \in 1 .. Len(events) : events'[i] = events[i]
      /\ events'[Len(events) + 1] = e
      /\ {events'[i] : i \in 1 .. Len(events')}
             = {events[i] : i \in 1 .. Len(events)} \cup {e}
  BY AppendElements DEF TypeOK
<1>2. Waiting' = Waiting \cup ({e} \ {NoPeer})
  BY <1>1 DEF Waiting
<1>3. \A i \in 1 .. Len(events) : events[i] # NoPeer => events[i] # e
  BY DEF Waiting
<1>4. \A i \in 1 .. Len(events') : i \in 1 .. Len(events) \/ i = Len(events) + 1
  BY <1>1
<1>5. ASSUME NEW i \in 1 .. Len(events'), NEW j \in 1 .. Len(events'),
             events'[i] = events'[j], events'[i] # NoPeer
      PROVE  i = j
  BY <1>1, <1>3, <1>4, <1>5 DEF WaitingOnce
<1> QED BY <1>2, <1>5 DEF WaitingOnce

(* The event received is not waiting any more.                             *)
LEMMA EventTaken ==
  ASSUME TypeOK, WaitingOnce, events # << >>, events' = Tail(events)
  PROVE  /\ WaitingOnce' /\ Waiting' = Waiting \ {Head(events)}
         /\ Head(events) # NoPeer => Head(events) \in Waiting
         /\ Head(events) \in Peers \cup {NoPeer}
<1>1. /\ Len(events) \in Nat
      /\ Head(events) \in Peers \cup {NoPeer}
      /\ Head(events) = events[1] /\ 1 \in 1 .. Len(events)
      /\ \A i \in 1 .. Len(events') : i + 1 \in 1 .. Len(events) /\ events'[i] = events[i + 1]
      /\ {events[i] : i \in 1 .. Len(events)}
             = {events'[i] : i \in 1 .. Len(events')} \cup {Head(events)}
  <2>1. events \in Seq(Peers \cup {NoPeer}) /\ Len(events) \in Nat
    BY DEF TypeOK
  <2>2. /\ Head(events) \in Peers \cup {NoPeer}
        /\ Head(events) = events[1] /\ 1 \in 1 .. Len(events)
        /\ \A i \in 1 .. Len(Tail(events)) :
                i + 1 \in 1 .. Len(events) /\ Tail(events)[i] = events[i + 1]
        /\ {events[i] : i \in 1 .. Len(events)}
               = {Tail(events)[i] : i \in 1 .. Len(Tail(events))} \cup {Head(events)}
    BY <2>1, TailElements
  <2> QED BY <2>1, <2>2
<1>2. \A i \in 1 .. Len(events') : events'[i] = Head(events) => events'[i] = NoPeer
  <2> SUFFICES ASSUME NEW i \in 1 .. Len(events'), events[i + 1] = events[1], events[1] # NoPeer
               PROVE  FALSE
    BY <1>1
  <2>1. i + 1 = 1
    BY <1>1 DEF WaitingOnce
  <2> QED BY <2>1
<1>3. Waiting' = Waiting \ {Head(events)}
  <2> DEFINE E == {events[i] : i \in 1 .. Len(events)}
  <2>1. \A x \in E' : x = Head(events) => x = NoPeer
    BY <1>2
  <2>2. E = E' \cup {Head(events)}
    BY <1>1
  <2>3. Waiting = E \ {NoPeer} /\ Waiting' = E' \ {NoPeer}
    BY DEF Waiting
  <2> HIDE DEF E
  <2> QED BY <2>1, <2>2, <2>3
<1>4. ASSUME NEW i \in 1 .. Len(events'), NEW j \in 1 .. Len(events'),
             events'[i] = events'[j], events'[i] # NoPeer
      PROVE  i = j
  <2>1. i + 1 = j + 1
    BY <1>1, <1>4 DEF WaitingOnce
  <2> QED BY <2>1
<1>5. Head(events) # NoPeer => Head(events) \in Waiting
  BY <1>1 DEF Waiting
<1> QED BY <1>1, <1>3, <1>4, <1>5 DEF WaitingOnce

(* A connection joins the backlog.                                         *)
LEMMA BacklogAdded ==
  ASSUME TypeOK, PendingOnce, NEW p \in Peers, p \notin Pending,
         backlog' = Append(backlog, p)
  PROVE  PendingOnce' /\ Pending' = Pending \cup {p}
<1>1. /\ Len(backlog) \in Nat
      /\ Len(backlog') = Len(backlog) + 1
      /\ \A i \in 1 .. Len(backlog) : backlog'[i] = backlog[i]
      /\ backlog'[Len(backlog) + 1] = p
      /\ Pending' = Pending \cup {p}
  BY AppendElements DEF TypeOK, Pending
<1>2. \A i \in 1 .. Len(backlog) : backlog[i] # p
  BY DEF Pending
<1>3. \A i \in 1 .. Len(backlog') : i \in 1 .. Len(backlog) \/ i = Len(backlog) + 1
  BY <1>1
<1>4. ASSUME NEW i \in 1 .. Len(backlog'), NEW j \in 1 .. Len(backlog'),
             backlog'[i] = backlog'[j]
      PROVE  i = j
  BY <1>1, <1>2, <1>3, <1>4 DEF PendingOnce
<1> QED BY <1>1, <1>4 DEF PendingOnce

(* The oldest connection leaves it.                                        *)
LEMMA BacklogTaken ==
  ASSUME TypeOK, PendingOnce, backlog # << >>, backlog' = Tail(backlog)
  PROVE  /\ PendingOnce' /\ Pending' = Pending \ {Head(backlog)}
         /\ Head(backlog) \in Pending /\ Head(backlog) \in Peers
<1>1. /\ Len(backlog) \in Nat
      /\ Head(backlog) \in Peers
      /\ Head(backlog) = backlog[1] /\ 1 \in 1 .. Len(backlog)
      /\ \A i \in 1 .. Len(backlog') : i + 1 \in 1 .. Len(backlog) /\ backlog'[i] = backlog[i + 1]
      /\ Pending = Pending' \cup {Head(backlog)}
  <2>1. backlog \in Seq(Peers) /\ Len(backlog) \in Nat
    BY DEF TypeOK
  <2>2. /\ Head(backlog) \in Peers
        /\ Head(backlog) = backlog[1] /\ 1 \in 1 .. Len(backlog)
        /\ \A i \in 1 .. Len(Tail(backlog)) :
                i + 1 \in 1 .. Len(backlog) /\ Tail(backlog)[i] = backlog[i + 1]
        /\ {backlog[i] : i \in 1 .. Len(backlog)}
               = {Tail(backlog)[i] : i \in 1 .. Len(Tail(backlog))} \cup {Head(backlog)}
    BY <2>1, TailElements
  <2> QED BY <2>1, <2>2 DEF Pending
<1>2. ASSUME NEW i \in 1 .. Len(backlog'), backlog'[i] = Head(backlog) PROVE FALSE
  <2>1. i + 1 = 1
    BY <1>1, <1>2 DEF PendingOnce
  <2> QED BY <2>1
<1>3. Head(backlog) \notin Pending'
  BY <1>2 DEF Pending
<1>4. ASSUME NEW i \in 1 .. Len(backlog'), NEW j \in 1 .. Len(backlog'),
             backlog'[i] = backlog'[j]
      PROVE  i = j
  <2>1. i + 1 = j + 1
    BY <1>1, <1>4 DEF PendingOnce
  <2> QED BY <2>1
<1> QED BY <1>1, <1>3, <1>4 DEF PendingOnce

(* A connection moves from one place to the next, or stays.                *)
LEMMA PlaceStep ==
  ASSUME ListenerInv, [Next]_vars
  PROVE  (OnePlace /\ PendingOnce /\ WaitingOnce /\ HeldOnce /\ AllPlaced)'
<1> USE Constants
<1>0. /\ TypeOK /\ OnePlace /\ PendingOnce /\ WaitingOnce /\ HeldOnce /\ AllPlaced
      /\ \A a \in Acceptors : pc[a] = "addr" => fd[a] \in Peers
  BY DEF ListenerInv
<1>1. /\ pc \in [Acceptors -> {"idle", "receive", "addr"}]
      /\ fd \in [Acceptors -> Peers \cup {NoPeer}]
  BY <1>0 DEF TypeOK
<1>2. NoPeer \notin Waiting
  BY DEF Waiting
<1>3. CASE UNCHANGED <<events, backlog, dialled, conns>> /\ Held' = Held /\ HeldOnce'
  <2>1. Pending' = Pending /\ Waiting' = Waiting /\ Returned' = Returned
    BY <1>3 DEF Pending, Waiting, Returned
  <2>2. PendingOnce' /\ WaitingOnce'
    BY <1>0, <1>3 DEF PendingOnce, WaitingOnce
  <2> QED BY <1>0, <1>3, <2>1, <2>2 DEF OnePlace, AllPlaced
<1>4. ASSUME NEW a \in Acceptors, CallAccept(a) PROVE Held' = Held /\ HeldOnce' /\ UNCHANGED <<events, backlog, dialled, conns>>
  BY <1>0, <1>1, <1>4 DEF CallAccept, socket, Held, HeldOnce
<1>5. ASSUME NEW a \in Acceptors, ReceiveEvent(a)
      PROVE  (OnePlace /\ PendingOnce /\ WaitingOnce /\ HeldOnce /\ AllPlaced)'
  <2> DEFINE h == Head(events)
  <2>1. /\ WaitingOnce' /\ Waiting' = Waiting \ {h}
        /\ h # NoPeer => h \in Waiting
    BY <1>0, <1>5, EventTaken DEF ReceiveEvent
  <2>2. UNCHANGED <<backlog, dialled, conns>> /\ Pending' = Pending /\ Returned' = Returned /\ PendingOnce'
    BY <1>0, <1>5 DEF ReceiveEvent, socket, Pending, Returned, PendingOnce
  <2> HIDE DEF h
  <2>3. CASE h = NoPeer
    <3>1. Held' = Held /\ HeldOnce'
      BY <1>0, <1>1, <1>5, <2>3 DEF ReceiveEvent, Held, HeldOnce, h
    <3>2. Waiting' = Waiting
      BY <1>2, <2>1, <2>3
    <3> QED BY <1>0, <2>1, <2>2, <3>1, <3>2 DEF OnePlace, AllPlaced
  <2>4. CASE h # NoPeer
    <3>1. /\ \A b \in Acceptors : pc'[b] = "addr" <=> (pc[b] = "addr" \/ b = a)
          /\ \A b \in Acceptors : fd'[b] = IF b = a THEN h ELSE fd[b]
          /\ pc[a] # "addr"
      BY <1>1, <1>5, <2>4 DEF ReceiveEvent, h
    <3>2. Held' = Held \cup {h}
      BY <3>1 DEF Held
    <3>3. \A b \in Acceptors : pc[b] = "addr" => fd[b] # h
      BY <1>0, <2>1, <2>4 DEF OnePlace, Held
    <3>4. HeldOnce'
      BY <1>0, <3>1, <3>3 DEF HeldOnce
    <3> QED BY <1>0, <2>1, <2>2, <2>4, <3>2, <3>4 DEF OnePlace, AllPlaced
  <2> QED BY <2>3, <2>4
<1>6. ASSUME NEW a \in Acceptors, ReadAddr(a)
      PROVE  (OnePlace /\ PendingOnce /\ WaitingOnce /\ HeldOnce /\ AllPlaced)'
  <2>1. UNCHANGED <<events, backlog, dialled>> /\ Pending' = Pending /\ Waiting' = Waiting
        /\ PendingOnce' /\ WaitingOnce'
    BY <1>0, <1>6 DEF ReadAddr, reactor, socket, Pending, Waiting, PendingOnce, WaitingOnce
  <2>2. Returned' = Returned \cup {fd[a]}
    <3> DEFINE r == [fd |-> fd[a], addr |-> addr]
    <3>1. conns' = conns \cup {r} /\ r.fd = fd[a]
      BY <1>6 DEF ReadAddr
    <3> HIDE DEF r
    <3> QED BY <3>1 DEF Returned
  <2>3. /\ \A b \in Acceptors : pc'[b] = "addr" <=> (pc[b] = "addr" /\ b # a)
        /\ \A b \in Acceptors : b # a => fd'[b] = fd[b]
        /\ pc[a] = "addr"
    BY <1>1, <1>6 DEF ReadAddr
  <2>4. fd[a] \in Held /\ Held' = Held \ {fd[a]}
    BY <1>0, <2>3 DEF Held, HeldOnce
  <2>5. HeldOnce'
    BY <1>0, <2>3 DEF HeldOnce
  <2> QED BY <1>0, <2>1, <2>2, <2>4, <2>5 DEF OnePlace, AllPlaced
<1>7. ASSUME NEW p \in Peers, Dial(p)
      PROVE  (OnePlace /\ PendingOnce /\ WaitingOnce /\ HeldOnce /\ AllPlaced)'
  <2>1. UNCHANGED <<events, pc, fd, conns>> /\ Waiting' = Waiting /\ Held' = Held
        /\ Returned' = Returned /\ WaitingOnce' /\ HeldOnce'
    BY <1>0, <1>7 DEF Dial, reactor, Waiting, Held, Returned, WaitingOnce, HeldOnce
  <2>2. p \notin Waiting \cup Held \cup Pending \cup Returned /\ dialled' = dialled \cup {p}
    BY <1>0, <1>7 DEF Dial, AllPlaced
  <2>3. PendingOnce' /\ Pending' = Pending \cup {p}
    BY <1>0, <1>7, <2>2, BacklogAdded DEF Dial
  <2>4. IsFiniteSet(dialled')
    BY <1>0, <2>2, FS_AddElement DEF AllPlaced
  <2> QED BY <1>0, <2>1, <2>2, <2>3, <2>4 DEF OnePlace, AllPlaced
<1>8. CASE Complete
  <2> DEFINE h == Head(backlog)
  <2>1. UNCHANGED <<pc, fd, conns, dialled>> /\ Held' = Held /\ Returned' = Returned /\ HeldOnce'
    BY <1>0, <1>8 DEF Complete, Held, Returned, HeldOnce
  <2>2. PendingOnce' /\ Pending' = Pending \ {h} /\ h \in Pending /\ h \in Peers
    BY <1>0, <1>8, BacklogTaken DEF Complete
  <2>3. h \notin Waiting /\ h # NoPeer
    BY <1>0, <2>2 DEF OnePlace
  <2>4. WaitingOnce' /\ Waiting' = Waiting \cup ({h} \ {NoPeer})
    BY <1>0, <1>8, <2>2, <2>3, EventAdded DEF Complete
  <2> HIDE DEF h
  <2> QED BY <1>0, <2>1, <2>2, <2>3, <2>4 DEF OnePlace, AllPlaced
<1>9. CASE events' = Append(events, NoPeer) /\ UNCHANGED <<pc, fd, backlog, dialled, conns>>
  <2>1. Pending' = Pending /\ Held' = Held /\ Returned' = Returned /\ PendingOnce' /\ HeldOnce'
    BY <1>0, <1>9 DEF Pending, Held, Returned, PendingOnce, HeldOnce
  <2>2. WaitingOnce' /\ Waiting' = Waiting
    BY <1>0, <1>2, <1>9, EventAdded
  <2> QED BY <1>0, <1>9, <2>1, <2>2 DEF OnePlace, AllPlaced
<1>10. CASE UNCHANGED <<pc, fd, events, backlog, dialled, conns>>
  BY <1>0, <1>3, <1>10 DEF Held, HeldOnce
<1>11. AcceptError => events' = Append(events, NoPeer) /\ UNCHANGED <<pc, fd, backlog, dialled, conns>>
  BY DEF AcceptError
<1>12. CASE Publish
  BY <1>9, <1>10, <1>12 DEF Publish, socket
<1>13. CloseSocket \/ StopReactor \/ UNCHANGED vars => UNCHANGED <<pc, fd, events, backlog, dialled, conns>>
  BY DEF CloseSocket, StopReactor, vars, reactor, socket
<1> QED BY <1>3, <1>4, <1>5, <1>6, <1>7, <1>8, <1>9, <1>10, <1>11, <1>12, <1>13 DEF Next

LEMMA ListenerInitInv == Init => ListenerInv
<1> SUFFICES ASSUME Init PROVE ListenerInv
  OBVIOUS
<1> USE Constants
<1>1. TypeOK /\ \A a \in Acceptors : pc[a] = "addr" => fd[a] \in Peers
  BY DEF Init, TypeOK
<1>2. EventsDue
  <2>1. Receivers = {} /\ bus + inflight + Len(events) = 0
    BY DEF Init, Receivers
  <2> QED BY <2>1, FS_EmptySet DEF EventsDue
<1>3. Pending = {} /\ Waiting = {} /\ Held = {} /\ Returned = {} /\ dialled = {}
  BY DEF Init, Pending, Waiting, Held, Returned
<1>4. OnePlace /\ AllPlaced
  BY <1>3, FS_EmptySet DEF OnePlace, AllPlaced
<1>5. PendingOnce /\ WaitingOnce /\ HeldOnce
  BY DEF Init, PendingOnce, WaitingOnce, HeldOnce
<1> QED BY <1>1, <1>2, <1>4, <1>5 DEF ListenerInv

LEMMA ListenerStepInv == ListenerInv /\ [Next]_vars => ListenerInv'
BY TypeStep, EventsDueStep, PlaceStep DEF ListenerInv

LEMMA ListenerInvariance == Spec => []ListenerInv
BY ListenerInitInv, ListenerStepInv, PTL DEF Spec

(* The backlog holds as many connections as it is long.                    *)
LEMMA BacklogSize ==
  ASSUME ListenerInv
  PROVE  IsFiniteSet(Pending) /\ Cardinality(Pending) = Len(backlog)
<1>1. backlog \in Seq(Peers) /\ Len(backlog) \in Nat /\ PendingOnce
  BY DEF ListenerInv, TypeOK
<1>2. backlog \in [1 .. Len(backlog) -> Pending]
  BY <1>1 DEF Pending
<1>3. backlog \in Bijection(1 .. Len(backlog), Pending)
  BY <1>1, <1>2 DEF Bijection, Injection, Surjection, IsInjective, Pending, PendingOnce
<1>4. ExistsBijection(1 .. Len(backlog), Pending)
  BY <1>3 DEF ExistsBijection
<1>5. IsFiniteSet(1 .. Len(backlog)) /\ Cardinality(1 .. Len(backlog)) = Len(backlog)
  <2>1. PICK n \in Nat : n = Len(backlog)
    BY <1>1
  <2>2. /\ IsFiniteSet(1 .. n)
        /\ Cardinality(1 .. n) = IF 1 > n THEN 0 ELSE n - 1 + 1
    BY FS_Interval
  <2>3. (IF 1 > n THEN 0 ELSE n - 1 + 1) = n
    OBVIOUS
  <2> QED BY <2>1, <2>2, <2>3
<1> QED BY <1>4, <1>5, FS_Bijection

LEMMA Conserved == ListenerInv => ConnectionsConserved
<1> SUFFICES ASSUME ListenerInv PROVE ConnectionsConserved
  OBVIOUS
<1>1. OnePlace /\ IsFiniteSet(dialled) /\ dialled = Waiting \cup Held \cup Pending \cup Returned
  BY DEF ListenerInv, AllPlaced
<1>2. IsFiniteSet(Waiting) /\ IsFiniteSet(Held) /\ IsFiniteSet(Returned)
  BY <1>1, FS_Subset
<1>3. IsFiniteSet(Pending) /\ Cardinality(Pending) = Len(backlog)
  BY BacklogSize
<1>4. ASSUME NEW S, NEW T, IsFiniteSet(S), IsFiniteSet(T), S \cap T = {}
      PROVE  IsFiniteSet(S \cup T) /\ Cardinality(S \cup T) = Cardinality(S) + Cardinality(T)
  <2>1. Cardinality(S \cap T) = 0 /\ Cardinality(S) \in Nat /\ Cardinality(T) \in Nat
    BY <1>4, FS_EmptySet, FS_CardinalityType
  <2>2. /\ IsFiniteSet(S \cup T)
        /\ Cardinality(S \cup T) = Cardinality(S) + Cardinality(T) - Cardinality(S \cap T)
    BY <1>4, FS_Union, Zenon
  <2> QED BY <2>1, <2>2
<1>5. /\ IsFiniteSet(Waiting \cup Held)
      /\ Cardinality(Waiting \cup Held) = Cardinality(Waiting) + Cardinality(Held)
  BY <1>1, <1>2, <1>4 DEF OnePlace
<1>6. /\ IsFiniteSet(Waiting \cup Held \cup Pending)
      /\ Cardinality(Waiting \cup Held \cup Pending)
             = Cardinality(Waiting \cup Held) + Cardinality(Pending)
  <2>1. (Waiting \cup Held) \cap Pending = {}
    BY <1>1 DEF OnePlace
  <2> QED BY <1>3, <1>4, <1>5, <2>1
<1>7. Cardinality(dialled) = Cardinality(Waiting \cup Held \cup Pending) + Cardinality(Returned)
  <2>1. (Waiting \cup Held \cup Pending) \cap Returned = {}
    BY <1>1 DEF OnePlace
  <2> QED BY <1>1, <1>2, <1>4, <1>6, <2>1
<1>8. /\ Cardinality(Waiting) \in Nat /\ Cardinality(Held) \in Nat
      /\ Cardinality(Pending) \in Nat /\ Cardinality(Returned) \in Nat
  BY <1>2, <1>3, FS_CardinalityType
<1> QED BY <1>1, <1>3, <1>5, <1>6, <1>7, <1>8 DEF ConnectionsConserved

(* As many events are to come as calls of Accept wait for one, for any     *)
(* number of goroutines that share the listener's operation and channel.   *)
THEOREM EventForEveryAccept == Spec => []OneEventPerAccept
<1>1. ListenerInv => OneEventPerAccept
  BY DEF ListenerInv, EventsDue, Receivers, OneEventPerAccept
<1> QED BY <1>1, ListenerInvariance, PTL

(* No connection is lost or handed out twice, for any number of goroutines *)
(* in Accept and of peers.                                                 *)
THEOREM NoConnectionLost == Spec => []ConnectionsConserved
BY Conserved, ListenerInvariance, PTL

-----------------------------------------------------------------------------
(* The server. *)

LEMMA ServerStepsListener == [ServerNext]_serverVars => [Next]_vars
<1> SUFFICES ASSUME [ServerNext]_serverVars PROVE [Next]_vars
  OBVIOUS
<1>1. CASE UNCHANGED serverVars
  BY <1>1 DEF serverVars
<1>2. ASSUME NEW a \in Acceptors, CallAccept(a) \/ AcceptReturns(a) \/ StartHandler(a) PROVE Next
  BY <1>2 DEF AcceptReturns, StartHandler, Next
<1>3. ASSUME NEW p \in Peers, HandlerStep(p) \/ PeerSends(p) \/ PeerCloses(p) PROVE UNCHANGED vars
  BY <1>3 DEF HandlerStep, Read, ReadEOF, Write, WriteFails, CloseConn, PeerSends, PeerCloses
<1>4. AcceptConn \/ AcceptExhausted => Next
  BY DEF AcceptConn, AcceptExhausted, Next
<1> QED BY <1>1, <1>2, <1>3, <1>4 DEF ServerNext, Next

(* The server uses the listener as Listener says it may be used: its steps *)
(* are steps of the listener, or leave the listener as it is.              *)
THEOREM ServerImplementsListener == ServerSpec => Spec
<1>1. ServerInit => Init
  BY DEF ServerInit
<1> QED BY <1>1, ServerStepsListener, PTL DEF ServerSpec, Spec

(* The connections accepted and not returned, and those returned.          *)
LEMMA Moves ==
  ASSUME ListenerInv, [Next]_vars
  PROVE  /\ Returned \subseteq Returned'
         /\ \A p \in Waiting' \cup Held' :
                p \in Waiting \cup Held \/ (Complete /\ p = Head(backlog))
<1> USE Constants
<1>0. /\ TypeOK /\ OnePlace /\ PendingOnce /\ WaitingOnce
      /\ pc \in [Acceptors -> {"idle", "receive", "addr"}]
      /\ fd \in [Acceptors -> Peers \cup {NoPeer}]
  BY DEF ListenerInv, TypeOK
<1>1. ASSUME NEW a \in Acceptors, CallAccept(a)
      PROVE  UNCHANGED <<events, conns>> /\ Held' \subseteq Held
  BY <1>0, <1>1 DEF CallAccept, Held
<1>2. ASSUME NEW a \in Acceptors, ReceiveEvent(a)
      PROVE  Returned' = Returned /\ Waiting' \cup Held' \subseteq Waiting \cup Held
  <2>1. Waiting' = Waiting \ {Head(events)} /\ (Head(events) # NoPeer => Head(events) \in Waiting)
    BY <1>0, <1>2, EventTaken DEF ReceiveEvent
  <2>2. /\ \A b \in Acceptors : pc'[b] = "addr" => pc[b] = "addr" \/ (b = a /\ Head(events) # NoPeer)
        /\ fd'[a] = Head(events) /\ \A b \in Acceptors : b # a => fd'[b] = fd[b]
        /\ pc[a] # "addr"
    BY <1>0, <1>2 DEF ReceiveEvent
  <2>3. \A b \in Acceptors : pc'[b] = "addr" => fd'[b] \in Waiting \cup Held
    BY <2>1, <2>2 DEF Held
  <2>4. Held' \subseteq Waiting \cup Held
    BY <2>3 DEF Held
  <2>5. Returned' = Returned
    BY <1>2 DEF ReceiveEvent, Returned
  <2> QED BY <2>1, <2>4, <2>5
<1>3. ASSUME NEW a \in Acceptors, ReadAddr(a)
      PROVE  Returned \subseteq Returned' /\ Waiting' = Waiting /\ Held' \subseteq Held
  <2>1. Returned \subseteq Returned' /\ Waiting' = Waiting
    BY <1>3 DEF ReadAddr, reactor, Returned, Waiting
  <2>2. \A b \in Acceptors : pc'[b] = "addr" => pc[b] = "addr" /\ fd'[b] = fd[b]
    BY <1>0, <1>3 DEF ReadAddr
  <2>3. Held' \subseteq Held
    BY <2>2 DEF Held
  <2> QED BY <2>1, <2>3
<1>4. ASSUME Complete
      PROVE  /\ Returned' = Returned /\ Held' = Held
             /\ Waiting' \subseteq Waiting \cup {Head(backlog)}
  <2>1. Head(backlog) \in Pending /\ Head(backlog) \in Peers
    BY <1>0, <1>4, BacklogTaken DEF Complete
  <2>2. Head(backlog) \notin Waiting
    BY <1>0, <2>1 DEF OnePlace
  <2>3. Waiting' \subseteq Waiting \cup {Head(backlog)}
    BY <1>0, <1>4, <2>1, <2>2, EventAdded DEF Complete
  <2> QED BY <1>4, <2>3 DEF Complete, Returned, Held
<1>5. ASSUME UNCHANGED <<pc, fd, conns>>, events' = events \/ events' = Append(events, NoPeer)
      PROVE  Returned' = Returned /\ Held' = Held /\ Waiting' \subseteq Waiting
  <2>1. Returned' = Returned /\ Held' = Held
    BY <1>5 DEF Returned, Held
  <2>2. NoPeer \notin Waiting
    BY DEF Waiting
  <2>3. CASE events' = events
    BY <2>1, <2>3 DEF Waiting
  <2>4. CASE events' = Append(events, NoPeer)
    BY <1>0, <2>1, <2>2, <2>4, EventAdded
  <2> QED BY <1>5, <2>3, <2>4
<1>6. CloseSocket \/ StopReactor \/ (\E p \in Peers : Dial(p)) \/ Publish \/ AcceptError \/ UNCHANGED vars
      => UNCHANGED <<pc, fd, conns>> /\ (events' = events \/ events' = Append(events, NoPeer))
  BY DEF CloseSocket, StopReactor, Dial, Publish, AcceptError, vars, reactor
<1>7. UNCHANGED <<events, conns>> => Waiting' = Waiting /\ Returned' = Returned
  BY DEF Waiting, Returned
<1> QED BY <1>1, <1>2, <1>3, <1>4, <1>5, <1>6, <1>7 DEF Next

(* A step that does not take a request and a connection is no completion.  *)
LEMMA NotComplete ==
  ASSUME TypeOK, inflight' \in {inflight, inflight + 1} \/ backlog' = backlog
  PROVE  ~Complete
<1> SUFFICES ASSUME Complete PROVE FALSE
  OBVIOUS
<1>1. inflight \in Nat /\ inflight' = inflight - 1
  BY DEF TypeOK, Complete
<1>2. Len(backlog) \in Nat /\ Len(backlog') = Len(backlog) - 1
  BY TailElements DEF TypeOK, Complete
<1> QED BY <1>1, <1>2

(* What a step does to the connections' state: nothing, or one of these.   *)
LEMMA Effects ==
  ASSUME TypeOK, [ServerNext]_serverVars
  PROVE  \/ UNCHANGED <<conn, sent>> /\ ~Complete
         \/ AcceptConn
         \/ \E a \in Acceptors : StartHandler(a) /\ ~Complete
         \/ \E p \in Peers : \/ Read(p) \/ ReadEOF(p) \/ Write(p) \/ CloseConn(p)
                             \/ PeerSends(p)
<1>1. ASSUME NEW a \in Acceptors, CallAccept(a), UNCHANGED server
      PROVE  UNCHANGED <<conn, sent>> /\ ~Complete
  BY <1>1, NotComplete DEF CallAccept, server, peerVars
<1>2. ASSUME NEW a \in Acceptors, AcceptReturns(a)
      PROVE  UNCHANGED <<conn, sent>> /\ ~Complete
  BY <1>2, NotComplete DEF AcceptReturns, ReceiveEvent, peerVars
<1>3. ASSUME NEW a \in Acceptors, StartHandler(a) PROVE ~Complete
  BY <1>3, NotComplete DEF StartHandler, ReadAddr, reactor
<1>4. ASSUME CloseSocket \/ StopReactor \/ Publish, UNCHANGED server
      PROVE  UNCHANGED <<conn, sent>> /\ ~Complete
  BY <1>4, NotComplete DEF CloseSocket, StopReactor, Publish, reactor, socket, server, peerVars
<1>5. ASSUME NEW p \in Peers, Dial(p), UNCHANGED server
      PROVE  UNCHANGED <<conn, sent>> /\ ~Complete
  BY <1>5, NotComplete DEF Dial, reactor, server, peerVars
<1>6. ASSUME AcceptExhausted PROVE UNCHANGED <<conn, sent>> /\ ~Complete
  BY <1>6, NotComplete DEF AcceptExhausted, AcceptError, server, peerVars
<1>7. ASSUME NEW p \in Peers, WriteFails(p) \/ PeerCloses(p)
      PROVE  UNCHANGED <<conn, sent>> /\ ~Complete
  BY <1>7, NotComplete DEF WriteFails, PeerCloses, vars, socket, peerVars
<1>8. ASSUME UNCHANGED serverVars PROVE UNCHANGED <<conn, sent>> /\ ~Complete
  BY <1>8, NotComplete DEF serverVars, vars, socket, server, peerVars
<1> QED BY <1>1, <1>2, <1>3, <1>4, <1>5, <1>6, <1>7, <1>8 DEF ServerNext, HandlerStep

(* The kernel hands out a number that is not in use.                       *)
LEMMA FreshNumber ==
  ASSUME ServerTypeOK, AcceptConn
  PROVE  /\ Min(FreeNumbers) \in 1 .. MaxConns
         /\ \A p \in Peers : desc[p] # Min(FreeNumbers)
<1>1. FreeNumbers \in SUBSET Nat /\ FreeNumbers # {}
  BY Constants DEF FreeNumbers, AcceptConn
<1>2. Min(FreeNumbers) \in FreeNumbers
  BY <1>1, LeastNumber
<1> QED BY <1>2 DEF FreeNumbers

(* The connection that a completion accepts is not handled yet.            *)
LEMMA AcceptedIsNew ==
  ASSUME ListenerInv, Handled, Complete
  PROVE  /\ Head(backlog) \in Peers /\ handler[Head(backlog)] = "none"
         /\ Head(backlog) \notin Returned
<1>1. Head(backlog) \in Pending /\ Head(backlog) \in Peers
  BY BacklogTaken DEF ListenerInv, Complete
<1>2. Head(backlog) \notin Returned
  BY <1>1 DEF ListenerInv, OnePlace
<1> QED BY <1>1, <1>2 DEF Handled

(* Nor is the connection that a call of Accept is about to return.         *)
LEMMA ReturnedIsNew ==
  ASSUME ListenerInv, Handled, NEW a \in Acceptors, ReadAddr(a)
  PROVE  /\ fd[a] \in Peers /\ handler[fd[a]] = "none"
         /\ fd[a] \in Held /\ fd[a] \in Returned'
<1>1. fd[a] \in Held /\ fd[a] \in Peers
  BY DEF ListenerInv, ReadAddr, Held
<1>2. fd[a] \notin Returned
  BY <1>1 DEF ListenerInv, OnePlace
<1>3. fd[a] \in Returned'
  <2> DEFINE r == [fd |-> fd[a], addr |-> addr]
  <2>1. r \in conns' /\ r.fd = fd[a]
    BY DEF ReadAddr
  <2> HIDE DEF r
  <2> QED BY <2>1 DEF Returned
<1> QED BY <1>1, <1>2, <1>3 DEF Handled

(* The peers that left, and the end of the process.                        *)
LEMMA FlagsStep ==
  ASSUME ServerTypeOK, [ServerNext]_serverVars
  PROVE  gone' \subseteq Peers /\ crashed' \in BOOLEAN
<1>0. gone \subseteq Peers /\ crashed \in BOOLEAN
  BY DEF ServerTypeOK
<1>1. CASE UNCHANGED <<gone, crashed>>
  BY <1>0, <1>1
<1>2. ASSUME NEW a \in Acceptors, AcceptReturns(a) PROVE gone' \subseteq Peers /\ crashed' \in BOOLEAN
  <2>1. gone' = gone /\ crashed' \in {FALSE, Head(events) = NoPeer}
    BY <1>2 DEF AcceptReturns, peerVars
  <2> QED BY <1>0, <2>1
<1>3. ASSUME NEW a \in Acceptors, StartHandler(a) PROVE UNCHANGED <<gone, crashed>>
  BY <1>3 DEF StartHandler, peerVars
<1>4. ASSUME NEW p \in Peers, HandlerStep(p) \/ PeerSends(p) \/ PeerCloses(p)
      PROVE  gone' \subseteq Peers /\ crashed' \in BOOLEAN
  BY <1>0, <1>4 DEF HandlerStep, Read, ReadEOF, Write, WriteFails, CloseConn, PeerSends, PeerCloses, peerVars
<1>5. UNCHANGED server \/ UNCHANGED serverVars \/ AcceptConn \/ AcceptExhausted => UNCHANGED <<gone, crashed>>
  BY DEF server, serverVars, AcceptConn, AcceptExhausted, peerVars
<1> QED BY <1>1, <1>2, <1>3, <1>4, <1>5 DEF ServerNext

LEMMA ServerTypeStep ==
  ASSUME ListenerInv, ServerInv, [ServerNext]_serverVars
  PROVE  ServerTypeOK'
<1> USE Constants
<1>0. /\ desc \in [Peers -> 0 .. MaxConns]
      /\ buffs \in [1 .. MaxConns -> Message \cup {NoMessage}]
      /\ handler \in [Peers -> {"none", "read", "write", "close", "done"}]
      /\ sent \in [Peers -> 0 .. MaxMsgs] /\ got \in [Peers -> 0 .. MaxMsgs]
      /\ echoed \in [Peers -> Seq(Message)]
      /\ Numbered /\ Handled /\ InBuffer /\ ServerTypeOK /\ TypeOK
  BY DEF ServerInv, ServerTypeOK
<1>1. TypeOK' /\ gone' \subseteq Peers /\ crashed' \in BOOLEAN
  BY <1>0, ServerStepsListener, TypeStep, FlagsStep
<1> DEFINE Rest == /\ desc \in [Peers -> 0 .. MaxConns]
                   /\ buffs \in [1 .. MaxConns -> Message \cup {NoMessage}]
                   /\ handler \in [Peers -> {"none", "read", "write", "close", "done"}]
                   /\ sent \in [Peers -> 0 .. MaxMsgs] /\ got \in [Peers -> 0 .. MaxMsgs]
                   /\ echoed \in [Peers -> Seq(Message)]
<1>2. ASSUME UNCHANGED <<conn, sent>> PROVE Rest'
  BY <1>0, <1>2 DEF conn
<1>3. ASSUME AcceptConn PROVE Rest'
  <2>1. Min(FreeNumbers) \in 0 .. MaxConns
    BY <1>0, <1>3, FreshNumber
  <2>2. desc' = [desc EXCEPT ![Head(backlog)] = Min(FreeNumbers)] /\ UNCHANGED <<buffs, handler, got, echoed, sent>>
    BY <1>3 DEF AcceptConn, peerVars
  <2> QED BY <1>0, <2>1, <2>2
<1>4. ASSUME NEW a \in Acceptors, StartHandler(a) PROVE Rest'
  BY <1>0, <1>4 DEF StartHandler, peerVars
<1>5. ASSUME NEW p \in Peers, Read(p) PROVE Rest'
  <2>1. got[p] + 1 \in 1 .. MaxMsgs
    BY <1>0, <1>5 DEF Read
  <2>2. got' = [got EXCEPT ![p] = @ + 1] /\ got' \in [Peers -> 0 .. MaxMsgs] /\ got'[p] = got[p] + 1
    BY <1>0, <1>5, <2>1 DEF Read
  <2>3. <<p, got'[p]>> \in Message
    BY <2>1, <2>2 DEF Message
  <2>4. buffs' \in [1 .. MaxConns -> Message \cup {NoMessage}]
    BY <1>0, <1>5, <2>3 DEF Read
  <2>5. handler' \in [Peers -> {"none", "read", "write", "close", "done"}] /\ UNCHANGED <<desc, echoed, sent>>
    BY <1>0, <1>5 DEF Read, peerVars
  <2> QED BY <1>0, <2>2, <2>4, <2>5
<1>6. ASSUME NEW p \in Peers, ReadEOF(p) PROVE Rest'
  BY <1>0, <1>6 DEF ReadEOF, peerVars
<1>7. ASSUME NEW p \in Peers, Write(p) PROVE Rest'
  <2>1. desc[p] # 0 /\ buffs[desc[p]] = <<p, got[p]>> /\ got[p] = Len(echoed[p]) + 1
    BY <1>0, <1>7 DEF Write, Numbered, InBuffer
  <2>2. got[p] \in 1 .. MaxMsgs
    <3>1. echoed[p] \in Seq(Message) /\ got[p] \in 0 .. MaxMsgs
      BY <1>0
    <3>2. Len(echoed[p]) \in Nat
      BY <3>1
    <3> QED BY <2>1, <3>1, <3>2
  <2>3. buffs[desc[p]] \in Message
    BY <2>1, <2>2 DEF Message
  <2>4. Append(echoed[p], buffs[desc[p]]) \in Seq(Message)
    BY <1>0, <2>3, AppendElements
  <2> QED BY <1>0, <1>7, <2>4 DEF Write, Buff, AfterWrite, peerVars
<1>8. ASSUME NEW p \in Peers, CloseConn(p) PROVE Rest'
  BY <1>0, <1>8 DEF CloseConn, peerVars
<1>9. ASSUME NEW p \in Peers, PeerSends(p) PROVE Rest'
  <2>1. sent' \in [Peers -> 0 .. MaxMsgs]
    BY <1>0, <1>9 DEF PeerSends
  <2> QED BY <1>0, <1>9, <2>1 DEF PeerSends, conn
<1> HIDE DEF Rest
<1>10. Rest'
  BY <1>0, <1>2, <1>3, <1>4, <1>5, <1>6, <1>7, <1>8, <1>9, Effects
<1> QED BY <1>1, <1>10 DEF ServerTypeOK, Rest

(* No two connections get the same number while both are open.             *)
LEMMA NumberedStep ==
  ASSUME ListenerInv, ServerInv, [ServerNext]_serverVars
  PROVE  Numbered'
<1> USE Constants
<1>0. /\ desc \in [Peers -> 0 .. MaxConns]
      /\ handler \in [Peers -> {"none", "read", "write", "close", "done"}]
      /\ Numbered /\ Handled /\ ServerTypeOK /\ TypeOK
  BY DEF ServerInv, ServerTypeOK
<1>1. \A p \in Waiting' \cup Held' :
          p \in Waiting \cup Held \/ (Complete /\ p = Head(backlog))
  BY ServerStepsListener, Moves
<1>2. Waiting \cup Held \subseteq Peers
  BY DEF ListenerInv, AllPlaced, TypeOK
<1>3. (Waiting \cup Held) \cap Returned = {}
  BY DEF ListenerInv, OnePlace
<1>4. ASSUME UNCHANGED <<desc, handler>>, ~Complete PROVE Numbered'
  BY <1>0, <1>1, <1>4 DEF Numbered
<1>5. ASSUME AcceptConn PROVE Numbered'
  <2> DEFINE h == Head(backlog)
             m == Min(FreeNumbers)
  <2>1. h \in Peers /\ handler[h] = "none"
    BY <1>0, <1>5, AcceptedIsNew DEF AcceptConn
  <2>2. m # 0 /\ \A p \in Peers : desc[p] # m
    BY <1>0, <1>5, FreshNumber
  <2>3. desc' = [desc EXCEPT ![h] = m] /\ handler' = handler
    BY <1>5 DEF AcceptConn
  <2> HIDE DEF h, m
  <2>4. \A p \in Peers : desc'[p] = IF p = h THEN m ELSE desc[p]
    BY <1>0, <2>3
  <2>5. \A p \in Peers : handler'[p] \in {"read", "write", "close"} => desc'[p] # 0
    BY <1>0, <2>1, <2>2, <2>3, <2>4 DEF Numbered
  <2>6. \A p \in Waiting' \cup Held' : p \in Peers /\ desc'[p] # 0
    BY <1>0, <1>1, <1>2, <2>1, <2>2, <2>4 DEF Numbered, h
  <2>7. \A p, q \in Peers : desc'[p] = desc'[q] /\ desc'[p] # 0 => p = q
    BY <1>0, <2>2, <2>4 DEF Numbered
  <2> QED BY <2>5, <2>6, <2>7 DEF Numbered
<1>6. ASSUME NEW a \in Acceptors, StartHandler(a), ~Complete PROVE Numbered'
  <2>1. fd[a] \in Held /\ desc' = desc
    BY <1>0, <1>6, ReturnedIsNew DEF StartHandler
  <2>2. \A p \in Peers : handler'[p] = IF p = fd[a] THEN "read" ELSE handler[p]
    BY <1>0, <1>6 DEF StartHandler
  <2> QED BY <1>0, <1>1, <1>6, <2>1, <2>2 DEF Numbered
<1>7. ASSUME UNCHANGED vars PROVE Waiting' = Waiting /\ Held' = Held
  BY <1>7 DEF vars, reactor, Waiting, Held
<1>8. ASSUME NEW p \in Peers, Read(p) \/ ReadEOF(p) \/ Write(p) PROVE Numbered'
  <2>1. UNCHANGED desc /\ UNCHANGED vars /\ handler[p] \in {"read", "write"}
    BY <1>8 DEF Read, ReadEOF, Write
  <2>2. \A q \in Peers : q # p => handler'[q] = handler[q]
    BY <1>0, <1>8 DEF Read, ReadEOF, Write
  <2> QED BY <1>0, <1>7, <2>1, <2>2 DEF Numbered
<1>9. ASSUME NEW p \in Peers, CloseConn(p) PROVE Numbered'
  <2>1. /\ UNCHANGED vars
        /\ \A q \in Peers : handler'[q] = IF q = p THEN "done" ELSE handler[q]
        /\ \A q \in Peers : desc'[q] = IF q = p THEN 0 ELSE desc[q]
    BY <1>0, <1>9 DEF CloseConn
  <2>2. p \in Returned
    BY <1>0, <1>9 DEF CloseConn, Handled
  <2> QED BY <1>0, <1>2, <1>3, <1>7, <2>1, <2>2 DEF Numbered
<1>10. ASSUME NEW p \in Peers, PeerSends(p) PROVE Numbered'
  BY <1>0, <1>7, <1>10 DEF PeerSends, conn, Numbered
<1>11. UNCHANGED conn => UNCHANGED <<desc, handler>>
  BY DEF conn
<1> QED BY <1>0, <1>4, <1>5, <1>6, <1>8, <1>9, <1>10, <1>11, Effects

LEMMA HandledStep ==
  ASSUME ListenerInv, ServerInv, [ServerNext]_serverVars
  PROVE  Handled'
<1>0. /\ handler \in [Peers -> {"none", "read", "write", "close", "done"}]
      /\ Handled /\ TypeOK
  BY DEF ServerInv, ServerTypeOK
<1>1. Returned \subseteq Returned'
  BY ServerStepsListener, Moves
<1>2. ASSUME UNCHANGED handler PROVE Handled'
  BY <1>0, <1>1, <1>2 DEF Handled
<1>3. ASSUME NEW a \in Acceptors, StartHandler(a) PROVE Handled'
  <2>1. fd[a] \in Returned'
    BY <1>0, <1>3, ReturnedIsNew DEF StartHandler
  <2>2. \A p \in Peers : p # fd[a] => handler'[p] = handler[p]
    BY <1>0, <1>3 DEF StartHandler
  <2> QED BY <1>0, <1>1, <2>1, <2>2 DEF Handled
<1>4. ASSUME NEW p \in Peers, Read(p) \/ ReadEOF(p) \/ Write(p) \/ CloseConn(p) PROVE Handled'
  <2>1. handler[p] # "none" /\ \A q \in Peers : q # p => handler'[q] = handler[q]
    BY <1>0, <1>4 DEF Read, ReadEOF, Write, CloseConn
  <2> QED BY <1>0, <1>1, <2>1 DEF Handled
<1>5. UNCHANGED conn \/ AcceptConn \/ (\E p \in Peers : PeerSends(p)) => UNCHANGED handler
  BY DEF conn, AcceptConn, PeerSends
<1> QED BY <1>0, <1>2, <1>3, <1>4, <1>5, Effects

(* What a handler is about to write is the message that it read: another   *)
(* handler's read goes to another buffer.                                  *)
LEMMA BufferStep ==
  ASSUME ListenerInv, ServerInv, [ServerNext]_serverVars
  PROVE  InBuffer' /\ EchoesOwn'
<1> USE Constants
<1>0. /\ desc \in [Peers -> 0 .. MaxConns]
      /\ buffs \in [1 .. MaxConns -> Message \cup {NoMessage}]
      /\ handler \in [Peers -> {"none", "read", "write", "close", "done"}]
      /\ got \in [Peers -> 0 .. MaxMsgs]
      /\ echoed \in [Peers -> Seq(Message)]
      /\ Numbered /\ Handled /\ InBuffer /\ EchoesOwn /\ TypeOK
  BY DEF ServerInv, ServerTypeOK
<1>1. ASSUME UNCHANGED echoed PROVE EchoesOwn'
  BY <1>0, <1>1 DEF EchoesOwn
<1>2. ASSUME UNCHANGED <<buffs, got, echoed>>,
             \A p \in Peers : handler[p] = "write" => handler'[p] = "write" /\ desc'[p] = desc[p],
             \A p \in Peers : handler[p] # "write" => handler'[p] # "write"
      PROVE  InBuffer'
  <2> SUFFICES ASSUME NEW p \in Peers
               PROVE  IF handler'[p] = "write"
                      THEN buffs'[desc'[p]] = <<p, got'[p]>> /\ got'[p] = Len(echoed'[p]) + 1
                      ELSE got'[p] = Len(echoed'[p])
    BY DEF InBuffer
  <2>1. /\ buffs' = buffs /\ got' = got /\ echoed' = echoed
        /\ handler[p] = "write" => handler'[p] = "write" /\ desc'[p] = desc[p]
        /\ handler[p] # "write" => handler'[p] # "write"
    BY <1>2
  <2>2. IF handler[p] = "write"
        THEN buffs[desc[p]] = <<p, got[p]>> /\ got[p] = Len(echoed[p]) + 1
        ELSE got[p] = Len(echoed[p])
    BY <1>0 DEF InBuffer
  <2>3. CASE handler[p] = "write"
    BY <2>1, <2>2, <2>3
  <2>4. CASE handler[p] # "write"
    BY <2>1, <2>2, <2>4
  <2> QED BY <2>3, <2>4
<1>3. ASSUME UNCHANGED conn PROVE InBuffer' /\ EchoesOwn'
  <2>1. UNCHANGED <<desc, buffs, handler, got, echoed>>
    BY <1>3 DEF conn
  <2> QED BY <1>1, <1>2, <2>1
<1>4. ASSUME AcceptConn PROVE InBuffer' /\ EchoesOwn'
  <2>1. Head(backlog) \in Peers /\ handler[Head(backlog)] = "none"
    BY <1>0, <1>4, AcceptedIsNew DEF AcceptConn
  <2>2. /\ UNCHANGED <<buffs, handler, got, echoed>>
        /\ \A p \in Peers : p # Head(backlog) => desc'[p] = desc[p]
    BY <1>0, <1>4 DEF AcceptConn
  <2> QED BY <1>1, <1>2, <2>1, <2>2
<1>5. ASSUME NEW a \in Acceptors, StartHandler(a) PROVE InBuffer' /\ EchoesOwn'
  <2>1. fd[a] \in Peers /\ handler[fd[a]] = "none"
    BY <1>0, <1>5, ReturnedIsNew DEF StartHandler
  <2>2. /\ UNCHANGED <<desc, buffs, got, echoed>>
        /\ \A p \in Peers : handler'[p] = IF p = fd[a] THEN "read" ELSE handler[p]
    BY <1>0, <1>5 DEF StartHandler
  <2> QED BY <1>1, <1>2, <2>1, <2>2
<1>6. ASSUME NEW p \in Peers, Read(p) PROVE InBuffer' /\ EchoesOwn'
  <2>1. /\ UNCHANGED <<desc, echoed>>
        /\ handler[p] = "read"
        /\ \A q \in Peers : handler'[q] = IF q = p THEN "write" ELSE handler[q]
        /\ \A q \in Peers : got'[q] = IF q = p THEN got[p] + 1 ELSE got[q]
        /\ buffs' = [buffs EXCEPT ![desc[p]] = <<p, got'[p]>>]
    BY <1>0, <1>6 DEF Read, Buff
  <2>2. desc[p] \in 1 .. MaxConns
    <3>1. desc[p] # 0
      BY <1>0, <2>1 DEF Numbered
    <3>2. desc[p] \in 0 .. MaxConns
      BY <1>0
    <3> QED BY <3>1, <3>2
  <2>3. /\ buffs'[desc[p]] = <<p, got'[p]>>
        /\ \A d \in 1 .. MaxConns : d # desc[p] => buffs'[d] = buffs[d]
    BY <1>0, <2>1, <2>2
  <2>4. got[p] = Len(echoed[p]) /\ got'[p] = Len(echoed'[p]) + 1
    BY <1>0, <2>1 DEF InBuffer
  <2>5. ASSUME NEW q \in Peers, q # p, handler[q] = "write"
        PROVE  buffs'[desc[q]] = buffs[desc[q]]
    <3>1. desc[q] \in 1 .. MaxConns /\ desc[q] # desc[p]
      BY <1>0, <2>2, <2>5 DEF Numbered
    <3> QED BY <2>3, <3>1
  <2>6. InBuffer'
    <3> SUFFICES ASSUME NEW q \in Peers
                 PROVE  IF handler'[q] = "write"
                        THEN buffs'[desc'[q]] = <<q, got'[q]>> /\ got'[q] = Len(echoed'[q]) + 1
                        ELSE got'[q] = Len(echoed'[q])
      BY DEF InBuffer
    <3>1. CASE q = p
      BY <2>1, <2>3, <2>4, <3>1
    <3>2. CASE q # p
      <4>1. handler'[q] = handler[q] /\ got'[q] = got[q] /\ desc'[q] = desc[q] /\ echoed'[q] = echoed[q]
        BY <2>1, <3>2
      <4>2. IF handler[q] = "write"
            THEN buffs[desc[q]] = <<q, got[q]>> /\ got[q] = Len(echoed[q]) + 1
            ELSE got[q] = Len(echoed[q])
        BY <1>0 DEF InBuffer
      <4> QED BY <2>5, <3>2, <4>1, <4>2
    <3> QED BY <3>1, <3>2
  <2> QED BY <1>1, <2>1, <2>6
<1>7. ASSUME NEW p \in Peers, ReadEOF(p) PROVE InBuffer' /\ EchoesOwn'
  <2>1. UNCHANGED <<desc, buffs, got, echoed>> /\ handler[p] = "read"
        /\ \A q \in Peers : handler'[q] = IF q = p THEN "close" ELSE handler[q]
    BY <1>0, <1>7 DEF ReadEOF
  <2> QED BY <1>1, <1>2, <2>1
<1>8. ASSUME NEW p \in Peers, Write(p) PROVE InBuffer' /\ EchoesOwn'
  <2>1. /\ UNCHANGED <<desc, buffs, got>> /\ handler[p] = "write"
        /\ \A q \in Peers : handler'[q] = IF q = p THEN "read" ELSE handler[q]
        /\ \A q \in Peers : echoed'[q] = IF q = p THEN Append(echoed[p], buffs[desc[p]]) ELSE echoed[q]
    BY <1>0, <1>8 DEF Write, Buff, AfterWrite
  <2>2. buffs[desc[p]] = <<p, got[p]>> /\ got[p] = Len(echoed[p]) + 1
    BY <1>0, <2>1 DEF InBuffer
  <2>3. echoed[p] \in Seq(Message) /\ Len(echoed[p]) \in Nat /\ got[p] \in 0 .. MaxMsgs
    BY <1>0
  <2>4. <<p, got[p]>> \in Message
    BY <2>2, <2>3 DEF Message
  <2>5. /\ Len(echoed'[p]) = Len(echoed[p]) + 1
        /\ \A i \in 1 .. Len(echoed[p]) : echoed'[p][i] = echoed[p][i]
        /\ echoed'[p][Len(echoed[p]) + 1] = <<p, got[p]>>
    <3> DEFINE m == <<p, got[p]>>
    <3>1. echoed'[p] = Append(echoed[p], m) /\ m \in Message
      BY <2>1, <2>2, <2>4
    <3> HIDE DEF m
    <3>2. /\ Len(echoed'[p]) = Len(echoed[p]) + 1
          /\ \A i \in 1 .. Len(echoed[p]) : echoed'[p][i] = echoed[p][i]
          /\ echoed'[p][Len(echoed[p]) + 1] = m
      BY <2>3, <3>1, AppendElements
    <3> QED BY <3>2 DEF m
  <2>6. InBuffer'
    <3>1. got'[p] = Len(echoed'[p]) /\ handler'[p] # "write"
      BY <2>1, <2>2, <2>5
    <3>2. \A q \in Peers : q # p => UNCHANGED <<handler[q], echoed[q]>>
      BY <2>1
    <3> QED BY <1>0, <2>1, <3>1, <3>2 DEF InBuffer
  <2>7. ASSUME NEW i \in 1 .. Len(echoed'[p]) PROVE echoed'[p][i] = <<p, i>>
    <3>1. i \in 1 .. Len(echoed[p]) \/ i = Len(echoed[p]) + 1
      BY <2>3, <2>5
    <3> QED BY <1>0, <2>2, <2>5, <3>1 DEF EchoesOwn
  <2>8. EchoesOwn'
    <3>1. ASSUME NEW q \in Peers, q # p, NEW i \in 1 .. Len(echoed'[q])
          PROVE  echoed'[q][i] = <<q, i>>
      <4>1. echoed'[q] = echoed[q]
        BY <2>1, <3>1
      <4> QED BY <1>0, <3>1, <4>1 DEF EchoesOwn
    <3> QED BY <2>7, <3>1 DEF EchoesOwn
  <2> QED BY <2>6, <2>8
<1>9. ASSUME NEW p \in Peers, CloseConn(p) PROVE InBuffer' /\ EchoesOwn'
  <2>1. /\ UNCHANGED <<buffs, got, echoed>> /\ handler[p] = "close"
        /\ \A q \in Peers : handler'[q] = IF q = p THEN "done" ELSE handler[q]
        /\ \A q \in Peers : q # p => desc'[q] = desc[q]
    BY <1>0, <1>9 DEF CloseConn
  <2> QED BY <1>1, <1>2, <2>1
<1>10. (\E p \in Peers : PeerSends(p)) => UNCHANGED conn
  BY DEF PeerSends
<1> QED BY <1>0, <1>3, <1>4, <1>5, <1>6, <1>7, <1>8, <1>9, <1>10, Effects

LEMMA ServerInitInv == ServerInit => ServerInv
<1> SUFFICES ASSUME ServerInit PROVE ServerInv
  OBVIOUS
<1> USE Constants
<1>1. ListenerInv /\ TypeOK /\ Waiting \cup Held = {}
  <2>1. Waiting = {} /\ Held = {}
    BY DEF ServerInit, Init, Waiting, Held
  <2> QED BY <2>1, ListenerInitInv DEF ServerInit, ListenerInv
<1>2. ServerTypeOK
  <2>1. buffs \in [1 .. MaxConns -> Message \cup {NoMessage}] /\ echoed \in [Peers -> Seq(Message)]
    BY DEF ServerInit
  <2>2. desc \in [Peers -> 0 .. MaxConns] /\ sent \in [Peers -> 0 .. MaxMsgs]
    BY DEF ServerInit
  <2> QED BY <1>1, <2>1, <2>2 DEF ServerInit, ServerTypeOK
<1>3. Numbered
  BY <1>1 DEF ServerInit, Numbered
<1>4. Handled /\ InBuffer /\ EchoesOwn
  BY DEF ServerInit, Handled, InBuffer, EchoesOwn
<1> QED BY <1>2, <1>3, <1>4 DEF ServerInv

LEMMA ServerInvariance == ServerSpec => []ServerInv
<1>1. ListenerInv /\ ServerInv /\ [ServerNext]_serverVars => ServerInv'
  BY ServerTypeStep, NumberedStep, HandledStep, BufferStep DEF ServerInv
<1> QED BY <1>1, ServerInitInv, ServerImplementsListener, ListenerInvariance, PTL DEF ServerSpec

(* Every peer gets its own messages back, in order, for any number of      *)
(* peers, accept loops, descriptor numbers and messages, although numbers  *)
(* and buffers are used again.                                             *)
THEOREM EchoesNeverMixed == ServerSpec => []EchoesOwn
<1>1. ServerInv => EchoesOwn
  BY DEF ServerInv
<1> QED BY <1>1, ServerInvariance, PTL
=============================================================================
