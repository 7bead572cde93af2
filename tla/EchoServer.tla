----------------------------- MODULE EchoServer -----------------------------
(***************************************************************************)
(* The single-threaded echo server (example/echo-server/uring/uring.go): a *)
(* loop over one ring that accepts connections, reads from them and sends  *)
(* back what it read. A completion carries only a descriptor; which        *)
(* operation it is for is looked up in conns, a table the server changes   *)
(* as it goes. The ring is the pair of queues that SubmissionQueue and     *)
(* CompletionQueue implement; the bytes of a client are 1, 2, 3 and so on. *)
(***************************************************************************)
EXTENDS Naturals, Sequences, FiniteSets

CONSTANTS Server,      \* descriptor of the server socket
          Fds,         \* descriptors of connections
          Limits,      \* how many of them the process may have
          MaxDials,    \* bound: clients that connect
          MaxBytes,    \* bound: bytes a client sends
          MaxMsgLen,   \* size of a connection's buffer
          Backlog,     \* size of the batch the loop reads
          ShortSends   \* a send may transmit part of the buffer

ASSUME EchoAssumption ==
    /\ IsFiniteSet(Fds) /\ Server \notin Fds
    /\ Limits \subseteq 1 .. Cardinality(Fds)
    /\ MaxDials \in Nat /\ MaxBytes \in Nat
    /\ MaxMsgLen \in Nat \ {0} /\ Backlog \in Nat \ {0}
    /\ ShortSends \in BOOLEAN

VARIABLES
    conns,     \* conns[fd].typ
    buffs,     \* buffs[fd], up to the length read last
    pc,        \* where main's loop is
    batch,     \* completions of the batch that are not handled yet
    sq,        \* SQEs queued, oldest first
    inflight,  \* operations the kernel works on
    cq,        \* completions, oldest first
    limit,     \* descriptors the process may have
    dials,     \* clients that connected
    backlog,   \* those not accepted
    sent,      \* bytes each client has sent
    accepted,  \* descriptors of accepted connections
    closed,    \* those whose client has closed
    read,      \* bytes of each client that recv returned
    echoed     \* what each client got back

table == <<conns, buffs>>
ring == <<sq, inflight, cq>>
peers == <<dials, backlog, sent, accepted, closed>>
vars == <<table, pc, batch, ring, limit, peers, read, echoed>>

Handles == Fds \cup {Server}

(* 4096 for both the ring and the table of connections. *)
Entries == Cardinality(Handles)

Op(fd, typ) == [fd |-> fd, typ |-> typ]

(* main starts with the first accept queued. *)
Init ==
    /\ conns = [fd \in Handles |-> IF fd = Server THEN "ACCEPT" ELSE "none"]
    /\ buffs = [fd \in Fds |-> << >>]
    /\ pc = "submit"
    /\ batch = 0
    /\ sq = <<Op(Server, "ACCEPT")>> /\ inflight = {} /\ cq = << >>
    /\ limit \in Limits
    /\ dials = 0 /\ backlog = 0
    /\ sent = [fd \in Fds |-> 0] /\ accepted = {} /\ closed = {}
    /\ read = [fd \in Fds |-> 0]
    /\ echoed = [fd \in Fds |-> << >>]

-----------------------------------------------------------------------------
(* main's loop. An error of Submit ends the program. *)

Submit(n) ==
    /\ pc = "submit"
    /\ n \in 0 .. Len(sq) /\ (sq # << >> => n > 0)
    /\ inflight' = inflight \cup {sq[i] : i \in 1 .. n}
    /\ sq' = SubSeq(sq, n + 1, Len(sq))
    /\ pc' = "wait"
    /\ UNCHANGED <<table, batch, cq, limit, peers, read, echoed>>

SubmitFails ==
    /\ pc = "submit"
    /\ pc' = "exited"
    /\ UNCHANGED <<table, batch, ring, limit, peers, read, echoed>>

(* WaitCQEvents(1), then PeekCQEventBatch. *)
Wait ==
    /\ pc = "wait"
    /\ cq # << >>
    /\ batch' = IF Len(cq) < Backlog THEN Len(cq) ELSE Backlog
    /\ pc' = "handle"
    /\ UNCHANGED <<table, ring, limit, peers, read, echoed>>

(* EAGAIN and EINTR. *)
WaitAgain ==
    /\ pc = "wait"
    /\ pc' = "submit"
    /\ UNCHANGED <<table, batch, ring, limit, peers, read, echoed>>

(* addAccept, addRead and addWrite set the type and queue the operation;   *)
(* QueueSQE fails when the ring is full, which ends the program.           *)
QueueSQEs(ops) ==
    IF Len(sq) + Len(ops) <= Entries
    THEN sq' = sq \o ops /\ pc' = IF batch > 1 THEN "handle" ELSE "submit"
    ELSE pc' = "full" /\ UNCHANGED sq

(* Mutant: the type of the entry is not set. *)
AddTypeForgotten(fd, typ) == conns

AddType(fd, typ) == [conns EXCEPT ![fd] = typ]

(* SeenCQE: the completion is copied and given back first. *)
Seen ==
    /\ pc = "handle"
    /\ batch > 0
    /\ batch' = batch - 1
    /\ cq' = Tail(cq)

Typ == conns[Head(cq).fd]

HandleAccept ==
    /\ Seen /\ Typ = "ACCEPT"
    /\ Head(cq).res \in Fds
    /\ conns' = [AddType(Head(cq).res, "READ") EXCEPT ![Server] = "ACCEPT"]
    /\ QueueSQEs(<<Op(Head(cq).res, "READ"), Op(Server, "ACCEPT")>>)
    /\ UNCHANGED <<buffs, inflight, limit, peers, read, echoed>>

(* addRead indexes the tables with the negative result: a panic. *)
AcceptFailed ==
    /\ Seen /\ Typ = "ACCEPT"
    /\ Head(cq).res \notin Fds
    /\ pc' = "crashed"
    /\ UNCHANGED <<table, sq, inflight, limit, peers, read, echoed>>

(* Data is sent back; otherwise the socket is shut down, not closed. *)
HandleRead ==
    /\ Seen /\ Typ = "READ"
    /\ IF Head(cq).res > 0
       THEN /\ conns' = AddType(Head(cq).fd, "WRITE")
            /\ QueueSQEs(<<Op(Head(cq).fd, "WRITE")>>)
       ELSE QueueSQEs(<< >>) /\ UNCHANGED conns
    /\ UNCHANGED <<buffs, inflight, limit, peers, read, echoed>>

(* Mutant: the buffer is sent once more. *)
HandleWriteResends ==
    /\ Seen /\ Typ = "WRITE"
    /\ QueueSQEs(<<Op(Head(cq).fd, "WRITE")>>)
    /\ UNCHANGED <<table, inflight, limit, peers, read, echoed>>

(* Mutant: the connection is not read from again. *)
HandleWriteStops ==
    /\ Seen /\ Typ = "WRITE"
    /\ QueueSQEs(<< >>)
    /\ UNCHANGED <<table, inflight, limit, peers, read, echoed>>

(* The result of the send is not looked at. *)
HandleWrite ==
    /\ Seen /\ Typ = "WRITE"
    /\ conns' = AddType(Head(cq).fd, "READ")
    /\ QueueSQEs(<<Op(Head(cq).fd, "READ")>>)
    /\ UNCHANGED <<buffs, inflight, limit, peers, read, echoed>>

-----------------------------------------------------------------------------
(* The kernel and the clients. *)

Finish(op, res) ==
    /\ op \in inflight
    /\ inflight' = inflight \ {op}
    /\ cq' = Append(cq, [fd |-> op.fd, typ |-> op.typ, res |-> res])

Accept(fd) ==
    /\ backlog > 0
    /\ Cardinality(accepted) < limit
    /\ fd \notin accepted
    /\ backlog' = backlog - 1
    /\ accepted' = accepted \cup {fd}
    /\ Finish(Op(Server, "ACCEPT"), fd)
    /\ UNCHANGED <<table, pc, batch, sq, limit, dials, sent, closed, read, echoed>>

(* EMFILE: descriptors are never closed. *)
AcceptFails ==
    /\ Cardinality(accepted) = limit
    /\ Finish(Op(Server, "ACCEPT"), Server)
    /\ UNCHANGED <<table, pc, batch, sq, limit, peers, read, echoed>>

Recv(fd, n) ==
    /\ n \in 1 .. MaxMsgLen
    /\ read[fd] + n <= sent[fd]
    /\ buffs' = [buffs EXCEPT ![fd] = [k \in 1 .. n |-> read[fd] + k]]
    /\ read' = [read EXCEPT ![fd] = @ + n]
    /\ Finish(Op(fd, "READ"), n)
    /\ UNCHANGED <<conns, pc, batch, sq, limit, peers, echoed>>

RecvEOF(fd) ==
    /\ fd \in closed /\ read[fd] = sent[fd]
    /\ Finish(Op(fd, "READ"), 0)
    /\ UNCHANGED <<table, pc, batch, sq, limit, peers, read, echoed>>

(* addWrite gives the operation the part of the buffer that was read. *)
SendBuffer(fd) == buffs[fd]

Send(fd, n) ==
    /\ fd \notin closed
    /\ n \in 1 .. Len(SendBuffer(fd))
    /\ ShortSends \/ n = Len(SendBuffer(fd))
    /\ echoed' = [echoed EXCEPT ![fd] = @ \o SubSeq(SendBuffer(fd), 1, n)]
    /\ Finish(Op(fd, "WRITE"), n)
    /\ UNCHANGED <<table, pc, batch, sq, limit, peers, read>>

(* The client is gone: EPIPE, or bytes that reach nobody. *)
SendLost(fd) ==
    /\ fd \in closed
    /\ Finish(Op(fd, "WRITE"), 0)
    /\ UNCHANGED <<table, pc, batch, sq, limit, peers, read, echoed>>

Dial ==
    /\ dials < MaxDials
    /\ dials' = dials + 1 /\ backlog' = backlog + 1
    /\ UNCHANGED <<table, pc, batch, ring, limit, sent, accepted, closed, read, echoed>>

ClientSends(fd) ==
    /\ fd \in accepted \ closed
    /\ sent[fd] < MaxBytes
    /\ sent' = [sent EXCEPT ![fd] = @ + 1]
    /\ UNCHANGED <<table, pc, batch, ring, limit, dials, backlog, accepted, closed, read, echoed>>

ClientCloses(fd) ==
    /\ fd \in accepted \ closed
    /\ closed' = closed \cup {fd}
    /\ UNCHANGED <<table, pc, batch, ring, limit, dials, backlog, sent, accepted, read, echoed>>

-----------------------------------------------------------------------------
Handle == HandleAccept \/ AcceptFailed \/ HandleRead \/ HandleWrite

KernelStep(fd) == \E n \in 1 .. MaxMsgLen : Recv(fd, n) \/ Send(fd, n)

Next ==
    \/ \E n \in 0 .. Entries : Submit(n)
    \/ SubmitFails \/ Wait \/ WaitAgain \/ Handle
    \/ AcceptFails \/ Dial
    \/ \E fd \in Fds :
          \/ Accept(fd) \/ KernelStep(fd) \/ RecvEOF(fd) \/ SendLost(fd)
          \/ ClientSends(fd) \/ ClientCloses(fd)

Spec == Init /\ [][Next]_vars

(* The server runs, a wait with a completion there does not fail for ever, *)
(* and the kernel accepts, receives and sends.                             *)
FairSpec ==
    /\ Spec
    /\ WF_vars(\E n \in 0 .. Entries : Submit(n))
    /\ SF_vars(Wait)
    /\ WF_vars(Handle)
    /\ WF_vars(\E fd \in Fds : Accept(fd))
    /\ \A fd \in Fds : WF_vars(KernelStep(fd))

-----------------------------------------------------------------------------
(* Properties *)

(* Every descriptor has at most one operation queued, in flight or         *)
(* completed, conns names its type, and so the ring never fills up: a      *)
(* completion is never taken for that of another operation.                *)
OneOperation ==
    LET completed(fd) == {i \in DOMAIN cq : cq[i].fd = fd}
        queued(fd) == {i \in DOMAIN sq : sq[i].fd = fd}
        started(fd) == {op \in inflight : op.fd = fd}
    IN  /\ \A fd \in Handles :
              Cardinality(completed(fd)) + Cardinality(queued(fd)) + Cardinality(started(fd)) <= 1
        /\ \A i \in DOMAIN cq : cq[i].typ = conns[cq[i].fd]
        /\ pc # "full"

(* A client gets back the bytes it sent, from the first on, in order, none *)
(* twice and none left out, although one buffer serves reading and         *)
(* sending. (With ShortSends it does not hold: HandleWrite does not look   *)
(* at the result.)                                                         *)
EchoesInOrder == \A fd \in Fds : echoed[fd] = [k \in 1 .. Len(echoed[fd]) |-> k]

(* The server waits for a completion with SQEs that a short Submit left.   *)
LeftBehind == pc = "wait" /\ sq # << >> /\ cq = << >>

(* Whatever a client sends comes back, unless the client closes, a short   *)
(* Submit leaves its operation behind (main does not look at the count),   *)
(* or the server ends because Submit or an accept failed.                  *)
Echoed ==
    \A fd \in Fds, k \in 1 .. MaxBytes :
        (sent[fd] >= k) ~> (\/ Len(echoed[fd]) >= k
                            \/ fd \in closed
                            \/ LeftBehind
                            \/ pc \in {"exited", "crashed"})

(* The server does not crash when it runs out of descriptors.              *)
NoCrash == pc # "crashed"
=============================================================================
