---------------------------- MODULE EchoHandlers ----------------------------
(***************************************************************************)
(* The server of example/echo-server-multi-thread/main.go on top of        *)
(* Listener: the accept loops of runServer, and a handleConn goroutine for *)
(* each connection, which echoes through a buffer that belongs to the      *)
(* number of the descriptor, not to the connection. The kernel hands out   *)
(* the lowest free number, so that numbers, and with them buffers, are     *)
(* used again. Read and Write of a connection return their own results     *)
(* (OwnResult of Conn).                                                    *)
(***************************************************************************)
EXTENDS Listener, FiniteSetsExt

CONSTANTS MaxConns,    \* descriptor numbers, and buffers
          MaxMsgs      \* bound: messages a peer sends

ASSUME HandlersAssumption == MaxConns \in Nat \ {0} /\ MaxMsgs \in Nat

VARIABLES
    desc,       \* per peer: descriptor number of its connection; 0 is none
    buffs,      \* per descriptor number: the message in its buffer
    handler,    \* per peer: where handleConn of its connection is
    sent,       \* per peer: messages it sent
    got,        \* per peer: messages read from its connection
    echoed,     \* per peer: messages it was sent back
    gone,       \* peers that closed their side
    crashed     \* log.Fatal was called

peerVars == <<sent, gone>>
conn == <<desc, buffs, handler, got, echoed>>
server == <<conn, peerVars, crashed>>
serverVars == <<vars, server>>

Message == Peers \X (1 .. MaxMsgs)
NoMessage == <<NoPeer, 0>>

ServerTypeOK ==
    /\ TypeOK
    /\ desc \in [Peers -> 0 .. MaxConns]
    /\ buffs \in [1 .. MaxConns -> Message \cup {NoMessage}]
    /\ handler \in [Peers -> {"none", "read", "write", "close", "done"}]
    /\ sent \in [Peers -> 0 .. MaxMsgs] /\ got \in [Peers -> 0 .. MaxMsgs]
    /\ echoed \in [Peers -> Seq(Message)]
    /\ gone \subseteq Peers /\ crashed \in BOOLEAN

ServerInit ==
    /\ Init
    /\ desc = [p \in Peers |-> 0]
    /\ buffs = [d \in 1 .. MaxConns |-> NoMessage]
    /\ handler = [p \in Peers |-> "none"]
    /\ sent = [p \in Peers |-> 0] /\ got = sent
    /\ echoed = [p \in Peers |-> << >>]
    /\ gone = {} /\ crashed = FALSE

-----------------------------------------------------------------------------
(* Descriptors *)

FreeNumbers == (1 .. MaxConns) \ {desc[p] : p \in Peers}

AcceptConn ==
    /\ FreeNumbers # {}
    /\ Complete
    /\ desc' = [desc EXCEPT ![Head(backlog)] = Min(FreeNumbers)]
    /\ UNCHANGED <<buffs, handler, got, echoed, peerVars, crashed>>

(* With every number in use the accept fails, at once or when a connection *)
(* comes, which then stays in the backlog.                                 *)
AcceptExhausted ==
    /\ FreeNumbers = {}
    /\ AcceptError
    /\ UNCHANGED server

-----------------------------------------------------------------------------
(* The accept loop. An error of Accept ends the process in runServer; in   *)
(* net/http, which the other example uses, the loop goes on.               *)

AcceptReturns(a) ==
    /\ ReceiveEvent(a)
    /\ crashed' \in {FALSE, Head(events) = NoPeer}
    /\ UNCHANGED <<conn, peerVars>>

(* go handleConn(conn) *)
StartHandler(a) ==
    /\ ReadAddr(a)
    /\ handler' = [handler EXCEPT ![fd[a]] = "read"]
    /\ UNCHANGED <<desc, buffs, got, echoed, peerVars, crashed>>

-----------------------------------------------------------------------------
(* handleConn *)

(* Mutant: one buffer for all connections. *)
BuffOne(p) == 1

Buff(p) == desc[p]

Read(p) ==
    /\ serving /\ handler[p] = "read"
    /\ got[p] < sent[p]
    /\ got' = [got EXCEPT ![p] = @ + 1]
    /\ buffs' = [buffs EXCEPT ![Buff(p)] = <<p, got'[p]>>]
    /\ handler' = [handler EXCEPT ![p] = "write"]
    /\ UNCHANGED <<vars, desc, echoed, peerVars, crashed>>

(* End of file, or an error: both come with n = 0. *)
ReadEOF(p) ==
    /\ serving /\ handler[p] = "read"
    /\ p \in gone /\ got[p] = sent[p]
    /\ handler' = [handler EXCEPT ![p] = "close"]
    /\ UNCHANGED <<vars, desc, buffs, got, echoed, peerVars, crashed>>


AfterWrite == "read"

(* The count that Write returns is not looked at. *)
Write(p) ==
    /\ serving /\ handler[p] = "write"
    /\ echoed' = [echoed EXCEPT ![p] = Append(@, buffs[Buff(p)])]
    /\ handler' = [handler EXCEPT ![p] = AfterWrite]
    /\ UNCHANGED <<vars, desc, buffs, got, peerVars, crashed>>

(* An error of Write ends the process: the peer is gone. *)
WriteFails(p) ==
    /\ serving /\ handler[p] = "write"
    /\ p \in gone
    /\ crashed' = TRUE
    /\ UNCHANGED <<vars, conn, peerVars>>

CloseConn(p) ==
    /\ handler[p] = "close"
    /\ desc' = [desc EXCEPT ![p] = 0]
    /\ handler' = [handler EXCEPT ![p] = "done"]
    /\ UNCHANGED <<vars, buffs, got, echoed, peerVars, crashed>>

-----------------------------------------------------------------------------
(* The peers *)

PeerSends(p) ==
    /\ p \in dialled \ gone /\ sent[p] < MaxMsgs
    /\ sent' = [sent EXCEPT ![p] = @ + 1]
    /\ UNCHANGED <<vars, conn, gone, crashed>>

PeerCloses(p) ==
    /\ p \in dialled \ gone
    /\ gone' = gone \cup {p}
    /\ UNCHANGED <<vars, conn, sent, crashed>>

-----------------------------------------------------------------------------
HandlerStep(p) == Read(p) \/ ReadEOF(p) \/ Write(p) \/ WriteFails(p) \/ CloseConn(p)

ServerNext ==
    /\ ~crashed
    /\ \/ \E a \in Acceptors :
            \/ CallAccept(a) /\ UNCHANGED server
            \/ AcceptReturns(a) \/ StartHandler(a)
       \/ CloseSocket /\ UNCHANGED server
       \/ StopReactor /\ UNCHANGED server
       \/ Publish /\ UNCHANGED server
       \/ AcceptConn \/ AcceptExhausted
       \/ \E p \in Peers :
            \/ Dial(p) /\ UNCHANGED server
            \/ HandlerStep(p)
            \/ PeerSends(p) \/ PeerCloses(p)

ServerSpec == ServerInit /\ [][ServerNext]_serverVars

AcceptorStep(a) == (CallAccept(a) /\ UNCHANGED server) \/ AcceptReturns(a) \/ StartHandler(a)

(* Goroutines are scheduled, channels serve their waiters in order, the    *)
(* accept loops go on, and the event loop and the kernel do their work.    *)
FairServerSpec ==
    /\ ServerSpec
    /\ \A a \in Acceptors : SF_serverVars(~crashed /\ AcceptorStep(a))
    /\ \A p \in Peers : WF_serverVars(~crashed /\ HandlerStep(p))
    /\ WF_serverVars(~crashed /\ Publish /\ UNCHANGED server)
    /\ WF_serverVars(~crashed /\ AcceptConn)

-----------------------------------------------------------------------------
(* Properties *)

(* Every peer is sent back its own messages, in order, although handlers   *)
(* run concurrently and a connection uses the descriptor number, and the   *)
(* buffer, of an earlier one.                                              *)
EchoesOwn ==
    \A p \in Peers : \A i \in 1 .. Len(echoed[p]) : echoed[p][i] = <<p, i>>


(* What the code does not keep (see README.md).                            *)

(* The server outlives a peer that goes away.                              *)
NoCrash == ~crashed

-----------------------------------------------------------------------------
(* The inductive invariant behind EchoesOwn.                               *)

(* A connection has a descriptor number from the accept to the close, and  *)
(* no two have the same.                                                   *)
Numbered ==
    /\ \A p \in Peers : handler[p] \in {"read", "write", "close"} => desc[p] # 0
    /\ \A p \in Waiting \cup Held : desc[p] # 0
    /\ \A p, q \in Peers : desc[p] = desc[q] /\ desc[p] # 0 => p = q

(* A handler runs only for a connection that Accept returned.              *)
Handled == \A p \in Peers : handler[p] # "none" => p \in Returned

(* The messages read from a connection are echoed, but for the one that a  *)
(* handler about to write holds in its buffer.                             *)
InBuffer ==
    \A p \in Peers :
        IF handler[p] = "write"
        THEN /\ buffs[desc[p]] = <<p, got[p]>>
             /\ got[p] = Len(echoed[p]) + 1
        ELSE got[p] = Len(echoed[p])

ServerInv ==
    /\ ServerTypeOK
    /\ Numbered
    /\ Handled
    /\ InBuffer
    /\ EchoesOwn
=============================================================================
