------------------------------ MODULE Registry ------------------------------
(***************************************************************************)
(* The callback registry of NetworkReactor (reactor/registry.go) and the   *)
(* request ids made of its nonces (reactor/net.go, RequestID).             *)
(*                                                                         *)
(* File descriptors are dealt out to shards in granules. A shard keeps one *)
(* nonce counter and one map of callbacks per descriptor: in slices below  *)
(* boundary (the fast path, where the counter is atomic and the lock is    *)
(* taken only for the map), in maps above it (the slow path, all under the *)
(* lock). A key missing from a Go map reads as the zero value, so both     *)
(* stores are functions that start out with zero values.                   *)
(***************************************************************************)
EXTENDS Naturals

CONSTANTS Goroutines,
          Callbacks, NoCallback,
          Fds,             \* descriptors in use
          FdModulus,       \* 2^32: descriptors fit the low half of an id
          NonceModulus,    \* 2^32: nonces are uint32
          granularity,
          shardCnt,
          boundary,        \* size of a shard's slices
          MaxAdds          \* bound: calls of add

ASSUME RegistryAssumption ==
    /\ NoCallback \notin Callbacks
    /\ FdModulus \in Nat /\ FdModulus > 2
    /\ NonceModulus \in Nat /\ NonceModulus > 1
    /\ Fds \subseteq 0 .. FdModulus - 3
    /\ granularity \in Nat \ {0}
    /\ shardCnt \in Nat \ {0}
    /\ boundary \in Nat
    /\ MaxAdds \in Nat

VARIABLES
    nonces,     \* per key: nonces and slowNonces
    callbacks,  \* per key and nonce: callbacks and slowCallbacks
    adding,     \* per goroutine: the add between its nonce and its insertion
    returned,   \* per goroutine: what its last call returned
    adds        \* calls of add so far

vars == <<nonces, callbacks, adding, returned, adds>>

-----------------------------------------------------------------------------
(* Request ids. *)

RequestID == 0 .. FdModulus * NonceModulus - 1

packRequestID(fd, nonce) == fd + nonce * FdModulus

fdOf(ud) == ud % FdModulus

nonceOf(ud) == ud \div FdModulus

timeoutNonce == FdModulus * NonceModulus - 1
cancelNonce == FdModulus * NonceModulus - 2

-----------------------------------------------------------------------------
(* Shard and index of a descriptor. *)

(* Mutant: the granule's place in its shard is left out. *)
NotFlattened(fd) == <<(fd \div granularity) % shardCnt, fd % granularity>>

shardNumAndFlattenIdx(fd) ==
    LET gNum == fd \div granularity
    IN  <<gNum % shardCnt, (gNum \div shardCnt) * granularity + (fd % granularity)>>

Keys == {shardNumAndFlattenIdx(fd) : fd \in Fds}

Fast(key) == key[2] < boundary

Nonce == 0 .. NonceModulus - 1

Idle == [key |-> <<0, 0>>, id |-> 0, nonce |-> 0, cb |-> NoCallback]

Adding == [key : Keys, id : RequestID, nonce : Nonce, cb : Callbacks]

Result == [call : {"add"}, value : RequestID]
          \cup [call : {"pop"}, value : Callbacks \cup {NoCallback}]

NoResult == [call |-> "none", value |-> NoCallback]

TypeOK ==
    /\ nonces \in [Keys -> Nonce]
    /\ callbacks \in [Keys -> [Nonce -> Callbacks \cup {NoCallback}]]
    /\ adding \in [Goroutines -> Adding \cup {Idle}]
    /\ returned \in [Goroutines -> Result \cup {NoResult}]
    /\ adds \in 0 .. MaxAdds

Init ==
    /\ nonces = [k \in Keys |-> 0]
    /\ callbacks = [k \in Keys |-> [n \in Nonce |-> NoCallback]]
    /\ adding = [g \in Goroutines |-> Idle]
    /\ returned = [g \in Goroutines |-> NoResult]
    /\ adds = 0

-----------------------------------------------------------------------------
NextNonce(key) == (nonces[key] + 1) % NonceModulus

(* add, called by Queue. A goroutine makes one call at a time. *)
Begin(g, key) ==
    /\ adding[g] = Idle
    /\ adds < MaxAdds
    /\ adds' = adds + 1
    /\ nonces' = [nonces EXCEPT ![key] = NextNonce(key)]

(* Fast path: the atomic increment. *)
AddFast(g, fd, cb) ==
    LET key == shardNumAndFlattenIdx(fd)
    IN  /\ Fast(key)
        /\ Begin(g, key)
        /\ adding' = [adding EXCEPT ![g] =
              [key |-> key, nonce |-> NextNonce(key), cb |-> cb,
               id |-> packRequestID(fd, NextNonce(key))]]
        /\ UNCHANGED <<callbacks, returned>>

(* Fast path: the insertion, under the shard's lock, and the return. *)
Insert(g) ==
    /\ adding[g] # Idle
    /\ callbacks' = [callbacks EXCEPT ![adding[g].key][adding[g].nonce] = adding[g].cb]
    /\ returned' = [returned EXCEPT ![g] = [call |-> "add", value |-> adding[g].id]]
    /\ adding' = [adding EXCEPT ![g] = Idle]
    /\ UNCHANGED <<nonces, adds>>

(* Slow path: both under the shard's lock. *)
AddSlow(g, fd, cb) ==
    LET key == shardNumAndFlattenIdx(fd)
    IN  /\ ~Fast(key)
        /\ Begin(g, key)
        /\ callbacks' = [callbacks EXCEPT ![key][NextNonce(key)] = cb]
        /\ returned' = [returned EXCEPT ![g] =
              [call |-> "add", value |-> packRequestID(fd, NextNonce(key))]]
        /\ UNCHANGED adding

(* pop of a descriptor never used, as for a dropped cancel request, finds  *)
(* nothing.                                                                *)
Lookup(ud) ==
    LET key == shardNumAndFlattenIdx(fdOf(ud))
    IN  IF key \in Keys THEN callbacks[key][nonceOf(ud)] ELSE NoCallback

Deleted(ud) ==
    LET key == shardNumAndFlattenIdx(fdOf(ud))
    IN  IF key \in Keys
        THEN [callbacks EXCEPT ![key][nonceOf(ud)] = NoCallback]
        ELSE callbacks

Pop(g, ud) ==
    /\ adding[g] = Idle
    /\ callbacks' = Deleted(ud)
    /\ returned' = [returned EXCEPT ![g] = [call |-> "pop", value |-> Lookup(ud)]]
    /\ UNCHANGED <<nonces, adding, adds>>

(* Ids of adds that did not return yet, and of adds that did. *)
Pending == {adding[g].id : g \in {h \in Goroutines : adding[h] # Idle}}

Used == {ud \in RequestID :
            /\ fdOf(ud) \in Fds
            /\ nonceOf(ud) > 0
            /\ nonceOf(ud) <= nonces[shardNumAndFlattenIdx(fdOf(ud))]
            /\ ud \notin Pending}

(* The event loops pop ids that add returned; and cancelNonce, when the    *)
(* publisher finds no room for a cancel request.                           *)
Poppable == Used \cup {cancelNonce}

Next ==
    \E g \in Goroutines :
        \/ \E fd \in Fds, cb \in Callbacks : AddFast(g, fd, cb) \/ AddSlow(g, fd, cb)
        \/ Insert(g)
        \/ \E ud \in Poppable : Pop(g, ud)

Spec == Init /\ [][Next]_vars

-----------------------------------------------------------------------------
(* The registry implements CallbackMap: an id counts as handed out when    *)
(* add has inserted its callback.                                          *)

Map == [ud \in RequestID |-> Lookup(ud)]

CM == INSTANCE CallbackMap WITH
        IDs <- RequestID, Reserved <- {timeoutNonce, cancelNonce},
        map <- Map, used <- Used

(* While no descriptor's nonces have wrapped around, add returns an id     *)
(* that no other add ever returned and that is not reserved, however the   *)
(* goroutines interleave on the fast path, whatever shard and path a       *)
(* descriptor falls on; and pop returns each callback once.                *)
ImplementsMap == CM!Spec

(* add never replaces the callback of a request that still waits for its   *)
(* completion: the id of a pending request is its own.                     *)
NoOverwrite ==
    [][\A k \in Keys, n \in Nonce :
          callbacks[k][n] # NoCallback => callbacks'[k][n] \in {callbacks[k][n], NoCallback}]_vars

-----------------------------------------------------------------------------
(* The inductive invariant behind ImplementsMap. *)

(* An unfinished add holds an id of its own whose nonce was handed out.    *)
AddingInv ==
    /\ \A g \in Goroutines : adding[g] # Idle =>
          /\ fdOf(adding[g].id) \in Fds
          /\ adding[g].key = shardNumAndFlattenIdx(fdOf(adding[g].id))
          /\ adding[g].nonce = nonceOf(adding[g].id)
          /\ adding[g].nonce > 0
          /\ adding[g].nonce <= nonces[adding[g].key]
    /\ \A g, h \in Goroutines :
          adding[g] # Idle /\ adding[h] # Idle /\ adding[g].id = adding[h].id => g = h

NoncesBounded == \A k \in Keys : nonces[k] <= adds

IInv == TypeOK /\ AddingInv /\ NoncesBounded

(* A callback waits under a nonce that was handed out, and never where an  *)
(* unfinished add is about to put its own.                                 *)
Filled ==
    \A k \in Keys, n \in Nonce : callbacks[k][n] # NoCallback =>
        /\ n <= nonces[k]
        /\ \A g \in Goroutines :
              adding[g] # Idle => ~(adding[g].key = k /\ adding[g].nonce = n)
=============================================================================
