----------------------------- MODULE Lifecycle -----------------------------
(***************************************************************************)
(* From rings to a running reactor and back. Setup makes the rings; New or *)
(* NewNet checks them (reactor/requirements.go) and makes an event loop    *)
(* for each (reactor/reactor.go, reactor/net.go); Run starts a consumer    *)
(* and a publisher per loop and, when its context is cancelled, stops one  *)
(* loop after the other; then the program closes the rings. The program    *)
(* either calls Run itself and waits for it, or has NewListener start it   *)
(* (net/listner.go), which leaves nothing to wait for.                     *)
(*                                                                         *)
(* A goroutine of a loop uses the memory of its ring from the moment Run   *)
(* starts it until it has taken its stop request; what it does in between  *)
(* is the subject of EventLoop and NetEventLoop.                           *)
(***************************************************************************)
EXTENDS Setup

VARIABLES
    features,    \* what the kernel reports: subset of {"extArg", "fastPoll"}
    net,         \* the reactor is a NetworkReactor
    run,         \* how far the reactor and its Run have come
    owner,       \* who started Run
    cancelled,   \* the context given to Run is cancelled
    socket,      \* the listener's socket
    k,           \* loop that Run starts or stops
    consumer,    \* per loop: "off", "running" or "stopped"
    publisher    \* likewise

reactor == <<features, net, run, owner, cancelled, socket, k, consumer, publisher>>

lifeVars == <<vars, reactor>>

Loops == 1 .. Len(rings)

LifeTypeOK ==
    /\ TypeOK
    /\ features \subseteq {"extArg", "fastPoll"} /\ net \in BOOLEAN
    /\ run \in {"none", "refused", "made", "starting", "running", "stopConsumer",
                "stopPublisher", "returned", "crashed"}
    /\ owner \in {"nobody", "program", "listener"}
    /\ cancelled \in BOOLEAN
    /\ socket \in {"none", "open", "closed", "leaked"}
    /\ k \in 0 .. MaxCount
    /\ {consumer, publisher} \subseteq
          IF run = "none" THEN {<< >>} ELSE [Loops -> {"off", "running", "stopped"}]

LifeInit ==
    /\ Init
    /\ features \in SUBSET {"extArg", "fastPoll"} /\ net \in BOOLEAN
    /\ run = "none" /\ owner = "nobody"
    /\ cancelled = FALSE
    /\ socket = "none"
    /\ k = 0 /\ consumer = << >> /\ publisher = << >>

-----------------------------------------------------------------------------
(* New and NewNet *)

checkRingReq == "extArg" \in features /\ (net => "fastPoll" \in features)

NewReactor ==
    /\ pc = "created" /\ run = "none"
    /\ run' = IF checkRingReq THEN "made" ELSE "refused"
    /\ consumer' = [l \in Loops |-> "off"]
    /\ publisher' = consumer'
    /\ UNCHANGED <<vars, features, net, owner, cancelled, socket, k>>

-----------------------------------------------------------------------------
(* Run, started by the program or by NewListener. *)

StartRun(who) ==
    /\ pc = "created" /\ run = "made"
    /\ run' = "starting"
    /\ owner' = who
    /\ k' = 1
    /\ UNCHANGED <<vars, features, net, cancelled, consumer, publisher>>

ProgramRuns == StartRun("program") /\ UNCHANGED socket

(* NewListener: serverSocket, then go reactor.Run(ctx). *)
NewListener == net /\ socket = "none" /\ StartRun("listener") /\ socket' = "open"

(* When socket() fails there is nothing to close; when a later call fails  *)
(* the socket stays open.                                                  *)
NewListenerFails ==
    /\ pc = "created" /\ run = "made" /\ net
    /\ run' = "refused"
    /\ socket' \in {"none", "leaked"}
    /\ UNCHANGED <<vars, features, net, owner, cancelled, k, consumer, publisher>>

(* Run's first loop. *)
StartLoop ==
    /\ run = "starting"
    /\ consumer' = [consumer EXCEPT ![k] = "running"]
    /\ publisher' = [publisher EXCEPT ![k] = "running"]
    /\ IF k < Len(rings) THEN k' = k + 1 /\ UNCHANGED run
       ELSE k' = k /\ run' = "running"
    /\ UNCHANGED <<vars, features, net, owner, cancelled, socket>>

-----------------------------------------------------------------------------
(* The program cancels the context, or closes the listener: the socket     *)
(* first, then the context.                                                *)

ProgramCancels ==
    /\ owner = "program" /\ ~cancelled
    /\ cancelled' = TRUE
    /\ UNCHANGED <<vars, features, net, run, owner, socket, k, consumer, publisher>>

CloseSocket ==
    /\ owner = "listener" /\ socket = "open"
    /\ socket' = "closed"
    /\ UNCHANGED <<vars, features, net, run, owner, cancelled, k, consumer, publisher>>

StopReactor ==
    /\ owner = "listener" /\ socket = "closed" /\ ~cancelled
    /\ cancelled' = TRUE
    /\ UNCHANGED <<vars, features, net, run, owner, socket, k, consumer, publisher>>

-----------------------------------------------------------------------------
(* Run's second loop: each consumer, then its publisher, takes its stop    *)
(* request before Run goes on.                                             *)

ContextDone ==
    /\ run = "running" /\ cancelled
    /\ run' = "stopConsumer"
    /\ k' = 1
    /\ UNCHANGED <<vars, features, net, owner, cancelled, socket, consumer, publisher>>

StopConsumer ==
    /\ run = "stopConsumer"
    /\ consumer' = [consumer EXCEPT ![k] = "stopped"]
    /\ run' = "stopPublisher"
    /\ UNCHANGED <<vars, features, net, owner, cancelled, socket, k, publisher>>

(* Mutant: Run forgets the last loop. *)
LastLoopEarly == IF k >= Len(rings) - 1 THEN "returned" ELSE "stopConsumer"

LastLoop == IF k = Len(rings) THEN "returned" ELSE "stopConsumer"

StopPublisher ==
    /\ run = "stopPublisher"
    /\ publisher' = [publisher EXCEPT ![k] = "stopped"]
    /\ run' = LastLoop
    /\ k' = IF run' = "returned" THEN k ELSE k + 1
    /\ UNCHANGED <<vars, features, net, owner, cancelled, socket, consumer>>

(* Each loop's publisher closes reqBuss of its loop. A callback of a loop  *)
(* that still runs may queue a request for a descriptor of that loop: it   *)
(* panics.                                                                 *)
CallbackPanics(l, target) ==
    /\ net
    /\ consumer[l] = "running" /\ publisher[target] = "stopped"
    /\ run' = "crashed"
    /\ UNCHANGED <<vars, features, net, owner, cancelled, socket, k, consumer, publisher>>

-----------------------------------------------------------------------------
(* The program closes the rings, the function that CreateMany returned:    *)
(* when there is no reactor, when Run has returned, or, having no Run to   *)
(* wait for, when it has closed the listener.                              *)
MayCloseRings ==
    \/ run \in {"none", "refused", "made"}
    \/ owner = "program" /\ run = "returned"
    \/ owner = "listener" /\ cancelled

LifeNext ==
    /\ run # "crashed"
    /\ \/ CreateStep /\ UNCHANGED reactor
       \/ MayCloseRings /\ CallDefer /\ UNCHANGED reactor
       \/ NewReactor \/ ProgramRuns \/ NewListener \/ NewListenerFails
       \/ StartLoop \/ ProgramCancels \/ CloseSocket \/ StopReactor
       \/ ContextDone \/ StopConsumer \/ StopPublisher
       \/ \E l, target \in DOMAIN consumer : CallbackPanics(l, target)

LifeSpec == LifeInit /\ [][LifeNext]_lifeVars

RunStep == StartLoop \/ ContextDone \/ StopConsumer \/ StopPublisher

(* Run is scheduled, and the goroutines of a loop come to take their stop  *)
(* requests (RunReturns of EventLoop and NetEventLoop).                    *)
FairLifeSpec ==
    /\ LifeSpec
    /\ WF_lifeVars(run # "crashed" /\ RunStep)
    /\ WF_lifeVars(run # "crashed" /\ StopReactor)

-----------------------------------------------------------------------------
(* Properties *)

Alive(l) == "running" \in {consumer[l], publisher[l]}

InUse(l) == rings[l] \in open /\ <<rings[l], "sq">> \in mapped

(* A program that waits for Run may close the rings: no consumer and no    *)
(* publisher of any loop, however many there are and whenever the context  *)
(* was cancelled, is left with a ring that is closed or unmapped under it. *)
RingsOutliveLoops ==
    owner = "program" => \A l \in DOMAIN consumer : Alive(l) => InUse(l)


(* What the code does not keep (see README.md).                            *)

(* The same for a program that closes its listener and then the rings.     *)
RingsOutliveListener ==
    owner = "listener" => \A l \in DOMAIN consumer : Alive(l) => InUse(l)

(* NewListener keeps no socket when it fails.                              *)
SocketReleased == socket # "leaked"

-----------------------------------------------------------------------------
(* The inductive invariant behind RingsOutliveLoops.                       *)

Are(l, c, p) == consumer[l] = c /\ publisher[l] = p

(* How far Run has started or stopped the loops.                           *)
Progress ==
    /\ run # "none" => 1 \in Loops
    /\ run \in {"starting", "stopConsumer", "stopPublisher"} => k \in Loops
    /\ \A l \in DOMAIN consumer :
          CASE run \in {"refused", "made"} -> Are(l, "off", "off")
            [] run = "starting" ->
                 IF l < k THEN Are(l, "running", "running") ELSE Are(l, "off", "off")
            [] run = "running" -> Are(l, "running", "running")
            [] run = "stopConsumer" ->
                 IF l < k THEN Are(l, "stopped", "stopped") ELSE Are(l, "running", "running")
            [] run = "stopPublisher" ->
                 IF l < k THEN Are(l, "stopped", "stopped")
                 ELSE IF l = k THEN Are(l, "stopped", "running")
                 ELSE Are(l, "running", "running")
            [] run = "returned" -> Are(l, "stopped", "stopped")
            [] OTHER -> TRUE

(* Who started Run, and what it keeps the program from closing.            *)
Owned ==
    /\ owner = "nobody" <=> run \in {"none", "refused", "made"}
    /\ run # "none" => pc \in {"created", "closing", "closed"}
    /\ owner = "program" /\ run # "returned" => pc = "created"

LifeInv == SetupInv /\ LifeTypeOK /\ Progress /\ Owned
=============================================================================
