----------------------------- MODULE Operations -----------------------------
(***************************************************************************)
(* The operations of package uring (uring/operation.go) and the SQEs they  *)
(* are encoded in (uring/syscall.go): a program makes operation objects,   *)
(* queues them, again and again in the same slots, and drops them, while   *)
(* the kernel reads and writes memory through addresses that the SQE holds *)
(* as integers and that the garbage collector does not see.                *)
(*                                                                         *)
(* A value is named by where it comes from: <<o, "flags">> is the flags    *)
(* field of operation o, and <<o, "addr">>, in a field that holds an       *)
(* address, the memory o.addr points to.                                   *)
(***************************************************************************)
EXTENDS Integers, Sequences, FiniteSets

CONSTANTS Ops,       \* operation objects
          Kinds,     \* kinds of operations the program uses
          Buffers,   \* byte slices the program allocates
          Entries,   \* number of SQE slots
          MaxCalls,  \* bound: calls of QueueSQE
          AddrSizes, \* sizes of the addresses that peers of a socket have
          KeepsOps   \* the program holds on to an operation until it completed

OpKinds == {"Nop", "ReadV", "WriteV", "Timeout", "Accept", "Cancel", "LinkTimeout", "Recv",
            "Send", "ProvideBuffers", "Close", "Read", "Write", "Connect"}

ASSUME OperationsAssumption ==
    /\ Kinds \subseteq OpKinds
    /\ Entries \in Nat \ {0}
    /\ MaxCalls \in Nat
    /\ AddrSizes \subseteq Nat
    /\ KeepsOps \in BOOLEAN

VARIABLES
    kind,      \* kind of each operation object, "none" before it is made
    buff,      \* the slice its buff or IOVecs field points to
    len,       \* AcceptOp.len
    held,      \* operations the program still refers to
    freed,     \* memory the collector has taken back
    sqes,      \* contents of the SQE slots
    calls,     \* calls of QueueSQE so far
    queued,    \* SQEs not taken yet, oldest first: slot, and what was asked for
    inflight,  \* requests the kernel works on
    seen,      \* the last SQE the kernel took and what was asked for
    misread,   \* kinds of operations for which it read freed memory then
    truncated  \* an accepted address did not fit into the length given

objects == <<kind, buff, len, held>>
kernel == <<inflight, seen, misread, truncated>>
vars == <<objects, freed, sqes, calls, queued, kernel>>

Nil == <<"nil", 0>>
Num(n) == <<"num", n>>

ZeroSQE == [OpCode |-> "none", Flags |-> 0, Fd |-> Nil, Off |-> Nil, Addr |-> Nil, Len |-> Nil,
            OpcodeFlags |-> Nil, UserData |-> 0, BufIG |-> Nil]

(* unix.SizeofSockaddrAny *)
SizeofSockaddrAny == 2

Init ==
    /\ kind = [o \in Ops |-> "none"]
    /\ buff = [o \in Ops |-> Nil]
    /\ len = [o \in Ops |-> 0]
    /\ held = {} /\ freed = {}
    /\ sqes = [s \in 0 .. Entries - 1 |-> ZeroSQE]
    /\ calls = 0
    /\ queued = << >>
    /\ inflight = {}
    /\ seen = [sqe |-> ZeroSQE, asked |-> ZeroSQE]
    /\ misread = {}
    /\ truncated = FALSE

-----------------------------------------------------------------------------
(* Encoding. fill writes every field of the slot; PrepSQE of a kind calls  *)
(* it and sets what is particular to the kind. SQE fields that no          *)
(* operation uses are left out.                                            *)

(* Mutant: OpcodeFlags and BufIG keep what the slot's last user left. *)
fillPart(sqe, op, fd, addr, n, offset) ==
    [sqe EXCEPT !.OpCode = op, !.Flags = 0, !.Fd = fd, !.Off = offset, !.Addr = addr, !.Len = n,
                !.UserData = 0]

fill(sqe, op, fd, addr, n, offset) ==
    [sqe EXCEPT !.OpCode = op, !.Flags = 0, !.Fd = fd, !.Off = offset, !.Addr = addr, !.Len = n,
                !.OpcodeFlags = Nil, !.UserData = 0, !.BufIG = Nil]

NoFd == Num(-1)

(* Address and length of the slice in the operation's buff field. *)
BuffAddr(o) == <<buff[o], "bytes">>
BuffLen(o) == <<buff[o], "len">>

NopSQE(s, o) == fill(s, "Nop", NoFd, Nil, Num(0), Num(0))

ReadVSQE(s, o) == fill(s, "ReadV", <<o, "FD">>, <<o, "IOVecs">>, <<o, "lenIOVecs">>, <<o, "Offset">>)

WriteVSQE(s, o) == fill(s, "WriteV", <<o, "FD">>, <<o, "IOVecs">>, <<o, "lenIOVecs">>, <<o, "Offset">>)

(* spec is a local variable of PrepSQE. *)
TimeoutSQE(s, o) == fill(s, "Timeout", NoFd, <<o, "spec">>, Num(1), Num(0))

AcceptSQE(s, o) ==
    [fill(s, "Accept", <<o, "fd">>, <<o, "addr">>, Num(0), <<o, "len">>)
        EXCEPT !.OpcodeFlags = <<o, "flags">>]

CancelSQE(s, o) ==
    [fill(s, "Cancel", NoFd, <<o, "targetUserData">>, Num(0), Num(0))
        EXCEPT !.OpcodeFlags = <<o, "flags">>]

LinkTimeoutSQE(s, o) == fill(s, "LinkTimeout", NoFd, <<o, "spec">>, Num(1), Num(0))

RecvSQE(s, o) ==
    [fill(s, "Recv", <<o, "fd">>, BuffAddr(o), BuffLen(o), Num(0))
        EXCEPT !.OpcodeFlags = <<o, "msgFlags">>]

SendSQE(s, o) ==
    [fill(s, "Send", <<o, "fd">>, BuffAddr(o), BuffLen(o), Num(0))
        EXCEPT !.OpcodeFlags = <<o, "msgFlags">>]

(* One buffer is provided. *)
ProvideBuffersSQE(s, o) ==
    [fill(s, "ProvideBuffers", Num(1), BuffAddr(o), BuffLen(o), <<o, "bufferId">>)
        EXCEPT !.BufIG = <<o, "groupId">>]

CloseSQE(s, o) == fill(s, "Close", <<o, "fd">>, Nil, Num(0), Num(0))

ReadSQE(s, o) == fill(s, "Read", <<o, "fd">>, BuffAddr(o), BuffLen(o), <<o, "off">>)

WriteSQE(s, o) == fill(s, "Write", <<o, "fd">>, BuffAddr(o), BuffLen(o), <<o, "off">>)

ConnectSQE(s, o) == fill(s, "Connect", <<o, "fd">>, <<o, "addr">>, Num(0), <<o, "len">>)

PrepSQE(s, o) ==
    CASE kind[o] = "Nop" -> NopSQE(s, o)         [] kind[o] = "ReadV" -> ReadVSQE(s, o)
      [] kind[o] = "WriteV" -> WriteVSQE(s, o)   [] kind[o] = "Timeout" -> TimeoutSQE(s, o)
      [] kind[o] = "Accept" -> AcceptSQE(s, o)   [] kind[o] = "Cancel" -> CancelSQE(s, o)
      [] kind[o] = "LinkTimeout" -> LinkTimeoutSQE(s, o)
      [] kind[o] = "Recv" -> RecvSQE(s, o)       [] kind[o] = "Send" -> SendSQE(s, o)
      [] kind[o] = "ProvideBuffers" -> ProvideBuffersSQE(s, o)
      [] kind[o] = "Close" -> CloseSQE(s, o)     [] kind[o] = "Read" -> ReadSQE(s, o)
      [] kind[o] = "Write" -> WriteSQE(s, o)     [] kind[o] = "Connect" -> ConnectSQE(s, o)

-----------------------------------------------------------------------------
(* The program. *)

WithBuffer == {"ReadV", "WriteV", "Recv", "Send", "ProvideBuffers", "Read", "Write"}


AcceptLen == SizeofSockaddrAny

(* The constructors. *)
New(o, k, b) ==
    /\ kind[o] = "none"
    /\ <<b, "bytes">> \notin freed
    /\ kind' = [kind EXCEPT ![o] = k]
    /\ buff' = [buff EXCEPT ![o] = IF k \in WithBuffer THEN b ELSE Nil]
    /\ len' = [len EXCEPT ![o] = IF k = "Accept" THEN AcceptLen ELSE 0]
    /\ held' = held \cup {o}
    /\ UNCHANGED <<freed, sqes, calls, queued, kernel>>

Busy(o) == (\E i \in DOMAIN queued : queued[i].op = o) \/ (\E r \in inflight : r.op = o)

(* RecvOp and SendOp can be used again with another slice. *)
SetBuffer(o, b) ==
    /\ o \in held
    /\ kind[o] \in {"Recv", "Send"}
    /\ KeepsOps => ~Busy(o)
    /\ <<b, "bytes">> \notin freed
    /\ buff' = [buff EXCEPT ![o] = b]
    /\ UNCHANGED <<kind, len, held, freed, sqes, calls, queued, kernel>>

SetUserDataAndFlags(sqe, userData, flags) == [sqe EXCEPT !.UserData = userData, !.Flags = flags]

(* Ring.QueueSQE. The SQE an empty slot would get is what was asked for. *)
QueueSQE(o, flags) ==
    /\ o \in held
    /\ calls < MaxCalls
    /\ Len(queued) < Entries
    /\ LET slot == calls % Entries
           asked == SetUserDataAndFlags(PrepSQE(ZeroSQE, o), calls + 1, flags)
       IN  /\ sqes' = [sqes EXCEPT ![slot] =
                          SetUserDataAndFlags(PrepSQE(sqes[slot], o), calls + 1, flags)]
           /\ queued' = Append(queued, [slot |-> slot, op |-> o, asked |-> asked])
    /\ calls' = calls + 1
    /\ UNCHANGED <<objects, freed, kernel>>

(* The program's last reference to the operation goes away. *)
Drop(o) ==
    /\ o \in held
    /\ KeepsOps => ~Busy(o)
    /\ held' = held \ {o}
    /\ UNCHANGED <<kind, buff, len, freed, sqes, calls, queued, kernel>>

-----------------------------------------------------------------------------
(* The collector. An operation object keeps alive what its fields point    *)
(* to. A slice is kept alive by operations only: a program that does not   *)
(* look at it afterwards need not refer to it. Nothing refers to spec.     *)

(* Memory of its own that an operation, or a call of its PrepSQE, allocates. *)
Owns(o) ==
    CASE kind[o] \in {"ReadV", "WriteV"} -> {<<o, "IOVecs">>}
      [] kind[o] \in {"Timeout", "LinkTimeout"} -> {<<o, "spec">>}
      [] kind[o] = "Accept" -> {<<o, "addr">>, <<o, "len">>}
      [] kind[o] = "Connect" -> {<<o, "addr">>}
      [] OTHER -> {}

(* Mutant: operations remember the address of the slice as an integer. *)
PointsToNoSlice(o) == Owns(o) \ {<<o, "spec">>}

PointsTo(o) == (Owns(o) \ {<<o, "spec">>}) \cup {BuffAddr(o)}

Memory == Buffers \X {"bytes"} \cup UNION {Owns(o) : o \in Ops}

Collect(m) ==
    /\ m \in Memory \ freed
    /\ \A o \in held : m \notin PointsTo(o)
    /\ freed' = freed \cup {m}
    /\ UNCHANGED <<objects, sqes, calls, queued, kernel>>

-----------------------------------------------------------------------------
(* The kernel. Vectors, times and the address to connect to are read when  *)
(* the SQE is taken; buffers, and the place for the peer's address, are    *)
(* used until the request completes.                                       *)

ReadWhenTaken(sqe) ==
    IF sqe.OpCode \in {"ReadV", "WriteV", "Timeout", "LinkTimeout", "Connect"} THEN {sqe.Addr} ELSE {}

UsedInFlight(sqe, o) ==
    CASE sqe.OpCode \in {"ReadV", "WriteV"} -> {BuffAddr(o)}
      [] sqe.OpCode \in WithBuffer \ {"ReadV", "WriteV"} -> {sqe.Addr}
      [] sqe.OpCode = "Accept" -> {sqe.Addr, sqe.Off}
      [] OTHER -> {}

Take ==
    /\ queued # << >>
    /\ LET e == Head(queued)
           sqe == sqes[e.slot]
       IN  /\ seen' = [sqe |-> sqe, asked |-> e.asked]
           /\ misread' = IF ReadWhenTaken(sqe) \cap freed # {} THEN misread \cup {kind[e.op]}
                                                              ELSE misread
           /\ inflight' = inflight \cup
                 {[op |-> e.op, userData |-> sqe.UserData, uses |-> UsedInFlight(sqe, e.op)]}
    /\ queued' = Tail(queued)
    /\ UNCHANGED <<objects, freed, sqes, calls, truncated>>

(* accept writes as much of the address as op.len allows, and its size     *)
(* into op.len.                                                            *)
Complete(r, size) ==
    /\ r \in inflight
    /\ inflight' = inflight \ {r}
    /\ IF kind[r.op] = "Accept"
       THEN /\ truncated' = (truncated \/ len[r.op] < size)
            /\ len' = [len EXCEPT ![r.op] = size]
       ELSE UNCHANGED <<truncated, len>>
    /\ UNCHANGED <<kind, buff, held, freed, sqes, calls, queued, seen, misread>>

Next ==
    \/ \E o \in Ops :
          \/ \E k \in Kinds, b \in Buffers : New(o, k, b)
          \/ \E b \in Buffers : SetBuffer(o, b)
          \/ \E flags \in {0, 1} : QueueSQE(o, flags)
          \/ Drop(o)
    \/ \E m \in Memory : Collect(m)
    \/ Take
    \/ \E r \in inflight, size \in AddrSizes : Complete(r, size)

Spec == Init /\ [][Next]_vars

-----------------------------------------------------------------------------
(* Properties *)

(* The kernel takes the SQE that the operation, the flags and the user     *)
(* data of the QueueSQE call describe, whatever operation used the slot    *)
(* before (SQEntry.fill clears what the new one does not set) and whatever *)
(* the operation object went through since.                                *)
SQEAsAsked == seen.sqe = seen.asked

(* Memory the kernel reads or writes for a request was not collected, as   *)
(* long as the program keeps the operation until it completed: the fields  *)
(* of the operation objects keep vectors, addresses and buffers alive. The *)
(* timespec of the two timeout operations is not covered.                  *)
MemoryLive ==
    /\ misread \subseteq {"Timeout", "LinkTimeout"}
    /\ \A r \in inflight : r.uses \cap freed = {}

(* The duration of Timeout and LinkTimeout reaches the kernel.             *)
TimeoutIntact == misread \cap {"Timeout", "LinkTimeout"} = {}

=============================================================================
