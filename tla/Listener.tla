------------------------------ MODULE Listener ------------------------------
(***************************************************************************)
(* The listener of package net (net/listner.go): Accept, called by one or  *)
(* several goroutines, and Close. All calls of Accept share one operation, *)
(* whose address buffer the kernel fills when it completes an accept, and  *)
(* one unbuffered channel. The reactor appears as in Conn. A connection is *)
(* named by the address of its peer.                                       *)
(***************************************************************************)
EXTENDS Naturals, Sequences, FiniteSets

CONSTANTS Acceptors,   \* goroutines that call Accept
          Peers,       \* clients that connect
          NoPeer,
          Closable     \* Close may be called

ASSUME ListenerAssumption ==
    /\ NoPeer \notin Peers
    /\ Closable \in BOOLEAN

VARIABLES
    pc,         \* per acceptor: where Accept is
    fd,         \* per acceptor: connection of the event it received
    addr,       \* acceptOp.addr
    bus,        \* accept requests sent to the event loop, not published
    inflight,   \* accept requests the kernel holds
    events,     \* completions whose callback did not finish, oldest first
    dialled,    \* peers that connected
    backlog,    \* connections the kernel has not handed out, oldest first
    listening,  \* sockFd is open
    serving,    \* the reactor runs
    conns       \* connections returned, with the address they were given

reactor == <<bus, inflight, events>>
socket == <<dialled, backlog>>
life == <<listening, serving>>
vars == <<pc, fd, addr, reactor, socket, life, conns>>

TypeOK ==
    /\ pc \in [Acceptors -> {"idle", "receive", "addr"}]
    /\ fd \in [Acceptors -> Peers \cup {NoPeer}]
    /\ addr \in Peers \cup {NoPeer}
    /\ bus \in Nat /\ inflight \in Nat
    /\ events \in Seq(Peers \cup {NoPeer})
    /\ dialled \subseteq Peers
    /\ backlog \in Seq(Peers)
    /\ listening \in BOOLEAN /\ serving \in BOOLEAN
    /\ conns \subseteq [fd : Peers, addr : Peers \cup {NoPeer}]

Init ==
    /\ pc = [a \in Acceptors |-> "idle"]
    /\ fd = [a \in Acceptors |-> NoPeer]
    /\ addr = NoPeer
    /\ bus = 0 /\ inflight = 0 /\ events = << >>
    /\ dialled = {} /\ backlog = << >>
    /\ listening = TRUE /\ serving = TRUE
    /\ conns = {}

-----------------------------------------------------------------------------
(* Accept: queue the shared operation, receive an event, read the address  *)
(* from the shared operation and make the connection. Once the reactor has *)
(* stopped, Queue panics (SendPanics of NetEventLoop).                     *)

CallAccept(a) ==
    /\ pc[a] = "idle"
    /\ serving
    /\ pc' = [pc EXCEPT ![a] = "receive"]
    /\ bus' = bus + 1
    /\ UNCHANGED <<fd, addr, inflight, events, socket, life, conns>>

(* Mutant: after an error the channel is received from again. *)
ReceiveEventRetries(a) ==
    /\ pc[a] = "receive"
    /\ serving
    /\ events # << >>
    /\ events' = Tail(events)
    /\ fd' = [fd EXCEPT ![a] = Head(events)]
    /\ pc' = [pc EXCEPT ![a] = IF Head(events) = NoPeer THEN "receive" ELSE "addr"]
    /\ UNCHANGED <<addr, bus, inflight, socket, life, conns>>

(* An error (NoPeer) makes Accept return at once. *)
ReceiveEvent(a) ==
    /\ pc[a] = "receive"
    /\ serving
    /\ events # << >>
    /\ events' = Tail(events)
    /\ fd' = [fd EXCEPT ![a] = Head(events)]
    /\ pc' = [pc EXCEPT ![a] = IF Head(events) = NoPeer THEN "idle" ELSE "addr"]
    /\ UNCHANGED <<addr, bus, inflight, socket, life, conns>>

(* Mutant: the connection is taken from the shared operation too. *)
ReadAddrConn(a) ==
    /\ pc[a] = "addr"
    /\ conns' = conns \cup {[fd |-> addr, addr |-> addr]}
    /\ pc' = [pc EXCEPT ![a] = "idle"]
    /\ fd' = [fd EXCEPT ![a] = NoPeer]
    /\ UNCHANGED <<addr, reactor, socket, life>>

ReadAddr(a) ==
    /\ pc[a] = "addr"
    /\ conns' = conns \cup {[fd |-> fd[a], addr |-> addr]}
    /\ pc' = [pc EXCEPT ![a] = "idle"]
    /\ fd' = [fd EXCEPT ![a] = NoPeer]
    /\ UNCHANGED <<addr, reactor, socket, life>>

-----------------------------------------------------------------------------
(* Close: the socket, then the reactor. *)

CloseSocket ==
    /\ Closable /\ listening
    /\ listening' = FALSE
    /\ UNCHANGED <<pc, fd, addr, reactor, socket, serving, conns>>

StopReactor ==
    /\ ~listening /\ serving
    /\ serving' = FALSE
    /\ UNCHANGED <<pc, fd, addr, reactor, socket, listening, conns>>

-----------------------------------------------------------------------------
(* The event loop and the kernel. *)

Dial(p) ==
    /\ listening
    /\ p \notin dialled
    /\ dialled' = dialled \cup {p}
    /\ backlog' = Append(backlog, p)
    /\ UNCHANGED <<pc, fd, addr, reactor, life, conns>>

(* On a closed descriptor the operation fails. *)
Publish ==
    /\ serving
    /\ bus > 0
    /\ bus' = bus - 1
    /\ IF listening
       THEN inflight' = inflight + 1 /\ UNCHANGED events
       ELSE events' = Append(events, NoPeer) /\ UNCHANGED inflight
    /\ UNCHANGED <<pc, fd, addr, socket, life, conns>>

(* AcceptOp.PrepSQE hands the kernel the address of the shared buffer. *)
AddrWritten(p) == p

Complete ==
    /\ inflight > 0
    /\ backlog # << >>
    /\ inflight' = inflight - 1
    /\ events' = Append(events, Head(backlog))
    /\ addr' = AddrWritten(Head(backlog))
    /\ backlog' = Tail(backlog)
    /\ UNCHANGED <<pc, fd, bus, dialled, life, conns>>

AcceptError ==
    /\ inflight > 0
    /\ inflight' = inflight - 1
    /\ events' = Append(events, NoPeer)
    /\ UNCHANGED <<pc, fd, addr, bus, dialled, backlog, life, conns>>

-----------------------------------------------------------------------------
Next ==
    \/ \E a \in Acceptors : CallAccept(a) \/ ReceiveEvent(a) \/ ReadAddr(a)
    \/ CloseSocket \/ StopReactor
    \/ \E p \in Peers : Dial(p)
    \/ Publish \/ Complete \/ AcceptError

Spec == Init /\ [][Next]_vars

-----------------------------------------------------------------------------
(* Properties *)

(* Every waiting call of Accept has one request under way or one event to  *)
(* receive, also after calls failed and although a call may receive the    *)
(* event of another one's request: no event is left without a receiver,    *)
(* which would block the event loop, and no call waits for nothing.        *)
OneEventPerAccept ==
    Cardinality({a \in Acceptors : pc[a] = "receive"}) = bus + inflight + Len(events)

(* The places of a connection, from the backlog to the caller of Accept.   *)
Pending == {backlog[i] : i \in 1 .. Len(backlog)}
Waiting == {events[i] : i \in 1 .. Len(events)} \ {NoPeer}
Held == {fd[a] : a \in {b \in Acceptors : pc[b] = "addr"}}
Returned == {c.fd : c \in conns}

(* A connection is handed to one caller of Accept and none is lost.        *)
ConnectionsConserved ==
    /\ dialled = Waiting \cup Held \cup Pending \cup Returned
    /\ Cardinality(dialled) = Len(backlog) + Cardinality(Waiting) + Cardinality(Held)
                                + Cardinality(Returned)

(* The connection that Accept returns has the address of its own peer as   *)
(* RemoteAddr.                                                             *)
AddrMatches == \A c \in conns : c.addr = c.fd

(* The net.Listener interface: Close unblocks blocked calls of Accept.     *)
CloseUnblocks ==
    \A a \in Acceptors : (pc[a] = "receive" /\ ~listening) ~> (pc[a] # "receive")

-----------------------------------------------------------------------------
(* The inductive invariant behind OneEventPerAccept and                    *)
(* ConnectionsConserved.                                                   *)

Receivers == {a \in Acceptors : pc[a] = "receive"}

(* Finitely many calls of Accept wait, as many as there are events to come.*)
EventsDue ==
    /\ IsFiniteSet(Receivers)
    /\ Cardinality(Receivers) = bus + inflight + Len(events)

(* A connection is at one place ...                                        *)
OnePlace ==
    /\ Waiting \cap Held = {} /\ Waiting \cap Pending = {} /\ Waiting \cap Returned = {}
    /\ Held \cap Pending = {} /\ Held \cap Returned = {}
    /\ Pending \cap Returned = {}

(* ... and there only once.                                                *)
PendingOnce == \A i, j \in 1 .. Len(backlog) : backlog[i] = backlog[j] => i = j
WaitingOnce ==
    \A i, j \in 1 .. Len(events) : events[i] = events[j] /\ events[i] # NoPeer => i = j
HeldOnce ==
    \A a, b \in Acceptors : pc[a] = "addr" /\ pc[b] = "addr" /\ fd[a] = fd[b] => a = b

(* Every peer that connected is at one of the places.                      *)
AllPlaced ==
    /\ IsFiniteSet(dialled)
    /\ dialled = Waiting \cup Held \cup Pending \cup Returned

ListenerInv ==
    /\ TypeOK
    /\ \A a \in Acceptors : pc[a] = "addr" => fd[a] \in Peers
    /\ EventsDue
    /\ OnePlace /\ PendingOnce /\ WaitingOnce /\ HeldOnce
    /\ AllPlaced
=============================================================================
