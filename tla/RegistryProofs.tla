--------------------------- MODULE RegistryProofs ---------------------------
(***************************************************************************)
(* For every number of shards, granularity, boundary and set of            *)
(* descriptors, the callback registry implements CallbackMap as long as    *)
(* fewer adds are made than there are nonces.                              *)
(***************************************************************************)
EXTENDS Registry, TLAPS

-----------------------------------------------------------------------------
(* Arithmetic. *)

(* Quotient and remainder. *)
LEMMA DivMod ==
    ASSUME NEW a \in Nat, NEW m \in Nat \ {0}
    PROVE  /\ a \div m \in Nat
           /\ a % m \in Nat
           /\ a % m < m
           /\ a = (a \div m) * m + (a % m)
OBVIOUS

(* A number is q * m + r with r < m in one way only. *)
LEMMA DivUnique ==
    ASSUME NEW m \in Nat \ {0}, NEW q1 \in Nat, NEW q2 \in Nat, NEW r1 \in Nat, NEW r2 \in Nat,
           r1 < m, r2 < m, q1 * m + r1 = q2 * m + r2
    PROVE  q1 = q2 /\ r1 = r2
<1>1. ASSUME NEW a \in Nat, NEW b \in Nat, a < b
      PROVE  a * m + m <= b * m
  <2>1. PICK d \in Nat : b = a + 1 + d
    <3>1. b - a - 1 \in Nat /\ b = a + 1 + (b - a - 1)
      BY <1>1
    <3> QED BY <3>1
  <2>2. b * m = a * m + m + d * m /\ d * m \in Nat /\ a * m \in Nat
    BY <2>1
  <2> QED BY <2>2
<1>2. q1 * m \in Nat /\ q2 * m \in Nat
  OBVIOUS
<1>3. ~(q1 < q2)
  <2> SUFFICES ASSUME q1 < q2 PROVE FALSE
    OBVIOUS
  <2>1. q1 * m + m <= q2 * m
    BY <1>1
  <2> QED BY <2>1, <1>2
<1>4. ~(q2 < q1)
  <2> SUFFICES ASSUME q2 < q1 PROVE FALSE
    OBVIOUS
  <2>1. q2 * m + m <= q1 * m
    BY <1>1
  <2> QED BY <2>1, <1>2
<1>5. q1 = q2
  BY <1>3, <1>4
<1> QED BY <1>5, <1>2

(* The two halves of a request id. *)
LEMMA HalvesOf ==
    ASSUME NEW ud \in RequestID
    PROVE  /\ fdOf(ud) \in Nat /\ fdOf(ud) < FdModulus
           /\ nonceOf(ud) \in Nonce
           /\ ud = packRequestID(fdOf(ud), nonceOf(ud))
<1> USE RegistryAssumption
<1>1. FdModulus * NonceModulus \in Nat /\ ud \in Nat /\ ud < FdModulus * NonceModulus
  BY DEF RequestID
<1>2. /\ ud \div FdModulus \in Nat
      /\ ud % FdModulus \in Nat
      /\ ud % FdModulus < FdModulus
      /\ ud = (ud \div FdModulus) * FdModulus + (ud % FdModulus)
  BY <1>1, DivMod
<1>3. ud \div FdModulus < NonceModulus
  <2> SUFFICES ASSUME NonceModulus <= ud \div FdModulus PROVE FALSE
    BY <1>2
  <2>1. PICK d \in Nat : ud \div FdModulus = NonceModulus + d
    <3>1. /\ (ud \div FdModulus) - NonceModulus \in Nat
          /\ ud \div FdModulus = NonceModulus + ((ud \div FdModulus) - NonceModulus)
      BY <1>2
    <3> QED BY <3>1
  <2>2. (NonceModulus + d) * FdModulus = FdModulus * NonceModulus + d * FdModulus
        /\ d * FdModulus \in Nat
    OBVIOUS
  <2>3. (ud \div FdModulus) * FdModulus >= FdModulus * NonceModulus
    BY <2>1, <2>2, <1>1
  <2> QED BY <2>3, <1>1, <1>2
<1>4. (ud \div FdModulus) * FdModulus \in Nat
  BY <1>2
<1>5. ud \div FdModulus \in Nonce
  <2>1. PICK q \in Nat : q = ud \div FdModulus
    BY <1>2
  <2>2. q < NonceModulus
    BY <1>3, <2>1
  <2>3. q \in Nonce
    BY <2>2 DEF Nonce
  <2> QED BY <2>1, <2>3
<1>6. ud = (ud % FdModulus) + (ud \div FdModulus) * FdModulus
  <2>1. PICK p \in Nat : p = (ud \div FdModulus) * FdModulus
    BY <1>4
  <2>2. PICK r \in Nat : r = ud % FdModulus
    BY <1>2
  <2>3. ud = p + r
    BY <1>2, <2>1, <2>2
  <2>4. ud = r + p
    BY <2>3
  <2> QED BY <2>1, <2>2, <2>4
<1> QED BY <1>2, <1>5, <1>6 DEF fdOf, nonceOf, packRequestID

(* packRequestID is taken apart by fd and nonce, stays within 64 bits and  *)
(* never yields one of the two reserved values.                            *)
LEMMA PackRoundTrip ==
    ASSUME NEW fd \in Fds, NEW n \in Nonce
    PROVE  /\ packRequestID(fd, n) \in RequestID
           /\ fdOf(packRequestID(fd, n)) = fd
           /\ nonceOf(packRequestID(fd, n)) = n
           /\ packRequestID(fd, n) \notin {timeoutNonce, cancelNonce}
<1> USE RegistryAssumption
<1>1. /\ fd \in Nat /\ fd + 2 < FdModulus
      /\ n \in Nat /\ n < NonceModulus
  BY DEF Nonce
<1>2. n * FdModulus \in Nat /\ packRequestID(fd, n) \in Nat
  BY <1>1 DEF packRequestID
<1>3. PICK d \in Nat : NonceModulus = n + 1 + d
  <2>1. NonceModulus - n - 1 \in Nat /\ NonceModulus = n + 1 + (NonceModulus - n - 1)
    BY <1>1
  <2> QED BY <2>1
<1>4. FdModulus * (n + 1 + d) = n * FdModulus + FdModulus + d * FdModulus
      /\ d * FdModulus \in Nat
  BY <1>1
<1>5. FdModulus * NonceModulus >= n * FdModulus + FdModulus /\ FdModulus * NonceModulus \in Nat
  BY <1>2, <1>3, <1>4
<1>6. packRequestID(fd, n) + 2 < FdModulus * NonceModulus
  BY <1>1, <1>2, <1>5 DEF packRequestID
<1>7. /\ packRequestID(fd, n) \div FdModulus \in Nat
      /\ packRequestID(fd, n) % FdModulus \in Nat
      /\ packRequestID(fd, n) % FdModulus < FdModulus
      /\ packRequestID(fd, n)
           = (packRequestID(fd, n) \div FdModulus) * FdModulus + (packRequestID(fd, n) % FdModulus)
  BY <1>2, DivMod
<1>8. packRequestID(fd, n) = n * FdModulus + fd
  BY <1>1, <1>2 DEF packRequestID
<1>9. packRequestID(fd, n) \div FdModulus = n /\ packRequestID(fd, n) % FdModulus = fd
  <2>1. n * FdModulus + fd
          = (packRequestID(fd, n) \div FdModulus) * FdModulus + (packRequestID(fd, n) % FdModulus)
    BY <1>7, <1>8
  <2>2. fd < FdModulus
    BY <1>1
  <2>3. PICK q \in Nat : q = packRequestID(fd, n) \div FdModulus
    BY <1>7
  <2>4. PICK r \in Nat : r = packRequestID(fd, n) % FdModulus
    BY <1>7
  <2>5. r < FdModulus /\ n * FdModulus + fd = q * FdModulus + r
    BY <1>7, <2>1, <2>3, <2>4
  <2>6. n = q /\ fd = r
    BY <1>1, <2>2, <2>5, DivUnique
  <2> QED BY <2>3, <2>4, <2>6
<1> QED BY <1>2, <1>5, <1>6, <1>9 DEF RequestID, fdOf, nonceOf, timeoutNonce, cancelNonce

(* No two descriptors share a shard and an index in it. *)
THEOREM KeyInjective ==
    ASSUME NEW a \in Nat, NEW b \in Nat, shardNumAndFlattenIdx(a) = shardNumAndFlattenIdx(b)
    PROVE  a = b
<1> USE RegistryAssumption
<1> DEFINE ga == a \div granularity
           gb == b \div granularity
<1>1. /\ ga \in Nat /\ a % granularity \in Nat /\ a % granularity < granularity
      /\ a = ga * granularity + (a % granularity)
  BY DivMod
<1>2. /\ gb \in Nat /\ b % granularity \in Nat /\ b % granularity < granularity
      /\ b = gb * granularity + (b % granularity)
  BY DivMod
<1>3. /\ ga % shardCnt = gb % shardCnt
      /\ (ga \div shardCnt) * granularity + (a % granularity)
           = (gb \div shardCnt) * granularity + (b % granularity)
  BY DEF shardNumAndFlattenIdx
<1> HIDE DEF ga, gb
<1>4. /\ ga \div shardCnt \in Nat /\ ga % shardCnt \in Nat
      /\ ga = (ga \div shardCnt) * shardCnt + (ga % shardCnt)
  BY <1>1, DivMod
<1>5. /\ gb \div shardCnt \in Nat /\ gb % shardCnt \in Nat
      /\ gb = (gb \div shardCnt) * shardCnt + (gb % shardCnt)
  BY <1>2, DivMod
<1>6. ga \div shardCnt = gb \div shardCnt /\ a % granularity = b % granularity
  <2>1. PICK qa \in Nat, qb \in Nat : qa = ga \div shardCnt /\ qb = gb \div shardCnt
    BY <1>4, <1>5
  <2>2. PICK ra \in Nat, rb \in Nat : ra = a % granularity /\ rb = b % granularity
    BY <1>1, <1>2
  <2>3. ra < granularity /\ rb < granularity /\ qa * granularity + ra = qb * granularity + rb
    BY <1>1, <1>2, <1>3, <2>1, <2>2
  <2>4. qa = qb /\ ra = rb
    BY <2>3, DivUnique
  <2> QED BY <2>1, <2>2, <2>4
<1>7. ga = gb
  BY <1>3, <1>4, <1>5, <1>6
<1> QED BY <1>1, <1>2, <1>6, <1>7

-----------------------------------------------------------------------------
(* The inductive invariant. *)

(* A descriptor in use has a key, and its own. *)
LEMMA KeyOf ==
    ASSUME NEW fd \in Fds, NEW ud \in RequestID
    PROVE  /\ shardNumAndFlattenIdx(fd) \in Keys
           /\ shardNumAndFlattenIdx(fdOf(ud)) = shardNumAndFlattenIdx(fd) => fdOf(ud) = fd
           /\ shardNumAndFlattenIdx(fdOf(ud)) \in Keys => fdOf(ud) \in Fds
<1>1. fd \in Nat /\ fdOf(ud) \in Nat /\ Fds \subseteq Nat
  BY HalvesOf, RegistryAssumption
<1>2. shardNumAndFlattenIdx(fdOf(ud)) = shardNumAndFlattenIdx(fd) => fdOf(ud) = fd
  BY <1>1, KeyInjective
<1>3. ASSUME shardNumAndFlattenIdx(fdOf(ud)) \in Keys PROVE fdOf(ud) \in Fds
  <2>1. PICK f \in Fds : shardNumAndFlattenIdx(fdOf(ud)) = shardNumAndFlattenIdx(f)
    BY <1>3 DEF Keys
  <2>2. f \in Nat
    BY <1>1
  <2> QED BY <1>1, <2>1, <2>2, KeyInjective
<1> QED BY <1>2, <1>3 DEF Keys

(* Below the bound on adds the nonce counter does not wrap. *)
LEMMA NextNonceFacts ==
    ASSUME MaxAdds < NonceModulus, IInv, adds < MaxAdds, NEW key \in Keys
    PROVE  /\ NextNonce(key) = nonces[key] + 1
           /\ NextNonce(key) \in Nonce
           /\ NextNonce(key) <= adds + 1
<1>1. nonces[key] \in Nat /\ nonces[key] <= adds /\ adds \in Nat
  BY DEF IInv, TypeOK, NoncesBounded, Nonce
<1>2. nonces[key] + 1 < NonceModulus
  BY <1>1, RegistryAssumption
<1>3. (nonces[key] + 1) % NonceModulus = nonces[key] + 1
  BY <1>1, <1>2, RegistryAssumption
<1> QED BY <1>1, <1>2, <1>3, RegistryAssumption DEF NextNonce, Nonce

(* The id that an add makes of its nonce. *)
LEMMA NewID ==
    ASSUME MaxAdds < NonceModulus, IInv, adds < MaxAdds, NEW fd \in Fds,
           NEW key, key = shardNumAndFlattenIdx(fd), NEW id, id = packRequestID(fd, NextNonce(key))
    PROVE  /\ key \in Keys
           /\ id \in RequestID \ {timeoutNonce, cancelNonce}
           /\ fdOf(id) = fd
           /\ nonceOf(id) = nonces[key] + 1
           /\ \A g \in Goroutines : adding[g] # Idle => adding[g].id # id
<1>1. key \in Keys
  BY DEF Keys
<1>2. NextNonce(key) = nonces[key] + 1 /\ NextNonce(key) \in Nonce
  BY <1>1, NextNonceFacts
<1>3. /\ id \in RequestID \ {timeoutNonce, cancelNonce}
      /\ fdOf(id) = fd
      /\ nonceOf(id) = nonces[key] + 1
  BY <1>2, PackRoundTrip
<1>4. ASSUME NEW g \in Goroutines, adding[g] # Idle, adding[g].id = id PROVE FALSE
  <2>1. adding[g].key = key /\ nonceOf(id) <= nonces[key]
    BY <1>3, <1>4 DEF IInv, AddingInv
  <2>2. nonces[key] \in Nat
    BY <1>1 DEF IInv, TypeOK, Nonce
  <2> QED BY <1>3, <2>1, <2>2
<1> QED BY <1>1, <1>3, <1>4

(* The placeholder of a goroutine that makes no add is no add. *)
LEMMA IdleNotAdding == Idle \notin Adding
BY RegistryAssumption DEF Idle, Adding

(* Init establishes the invariant. *)
LEMMA InitInv == Init => IInv
BY RegistryAssumption DEF Init, IInv, TypeOK, AddingInv, NoncesBounded, Nonce

(* Every step preserves it. *)
LEMMA StepInv ==
    ASSUME MaxAdds < NonceModulus, IInv, [Next]_vars
    PROVE  IInv'
<1> USE DEF IInv
<1>1. ASSUME NEW g \in Goroutines, NEW fd \in Fds, NEW cb \in Callbacks, AddFast(g, fd, cb)
      PROVE  IInv'
  <2> DEFINE key == shardNumAndFlattenIdx(fd)
             id == packRequestID(fd, NextNonce(key))
             new == [key |-> key, nonce |-> NextNonce(key), cb |-> cb, id |-> id]
  <2>1. /\ adding[g] = Idle /\ adds < MaxAdds /\ adds' = adds + 1
        /\ nonces' = [nonces EXCEPT ![key] = NextNonce(key)]
        /\ adding' = [adding EXCEPT ![g] = new]
        /\ UNCHANGED <<callbacks, returned>>
    BY <1>1 DEF AddFast, Begin
  <2>2. /\ key \in Keys
        /\ id \in RequestID
        /\ fdOf(id) = fd
        /\ nonceOf(id) = nonces[key] + 1
        /\ \A h \in Goroutines : adding[h] # Idle => adding[h].id # id
    BY <2>1, NewID
  <2>3. NextNonce(key) = nonces[key] + 1 /\ NextNonce(key) \in Nonce /\ NextNonce(key) <= adds + 1
    BY <2>1, <2>2, NextNonceFacts
  <2>4. shardNumAndFlattenIdx(fdOf(id)) = key
    BY <2>2
  <2> HIDE DEF key, id
  <2>5. new \in Adding /\ new # Idle
    BY <2>2, <2>3, IdleNotAdding DEF Adding
  <2>6. TypeOK'
    <3>1. adds' \in 0 .. MaxAdds
      BY <2>1, RegistryAssumption DEF TypeOK
    <3> QED BY <2>1, <2>2, <2>3, <2>5, <3>1 DEF TypeOK
  <2>7. \A k \in Keys : nonces[k] \in Nat /\ nonces[k] <= nonces'[k]
    BY <2>1, <2>2, <2>3 DEF TypeOK, Nonce
  <2>8. NoncesBounded'
    BY <2>1, <2>2, <2>3, <2>7 DEF NoncesBounded, TypeOK
  <2>9. ASSUME NEW h \in Goroutines, adding'[h] # Idle
        PROVE  /\ fdOf(adding'[h].id) \in Fds
               /\ adding'[h].key = shardNumAndFlattenIdx(fdOf(adding'[h].id))
               /\ adding'[h].nonce = nonceOf(adding'[h].id)
               /\ adding'[h].nonce > 0
               /\ adding'[h].nonce <= nonces'[adding'[h].key]
    <3>1. CASE h = g
      <4>1. adding'[h] = new
        BY <2>1, <3>1 DEF TypeOK
      <4>2. nonces'[key] = NextNonce(key) /\ nonces[key] \in Nat
        BY <2>1, <2>2 DEF TypeOK, Nonce
      <4> QED BY <2>2, <2>3, <2>4, <4>1, <4>2
    <3>2. CASE h # g
      <4>1. adding'[h] = adding[h]
        BY <2>1, <3>2 DEF TypeOK
      <4>2. adding[h] \in Adding
        BY <2>9, <4>1 DEF TypeOK
      <4>3. adding[h].key \in Keys /\ adding[h].nonce \in Nat
        BY <4>2 DEF Adding, Nonce
      <4>4. nonces'[adding[h].key] \in Nat
        BY <2>6, <4>3 DEF TypeOK, Nonce
      <4> QED BY <2>7, <2>9, <4>1, <4>3, <4>4 DEF AddingInv
    <3> QED BY <3>1, <3>2
  <2>10. ASSUME NEW h \in Goroutines, NEW i \in Goroutines,
                adding'[h] # Idle, adding'[i] # Idle, adding'[h].id = adding'[i].id
         PROVE  h = i
    BY <2>1, <2>2, <2>10 DEF AddingInv, TypeOK
  <2> QED BY <2>6, <2>8, <2>9, <2>10 DEF AddingInv
<1>2. ASSUME NEW g \in Goroutines, NEW fd \in Fds, NEW cb \in Callbacks, AddSlow(g, fd, cb)
      PROVE  IInv'
  <2> DEFINE key == shardNumAndFlattenIdx(fd)
             id == packRequestID(fd, NextNonce(key))
  <2>1. /\ adding[g] = Idle /\ adds < MaxAdds /\ adds' = adds + 1
        /\ nonces' = [nonces EXCEPT ![key] = NextNonce(key)]
        /\ callbacks' = [callbacks EXCEPT ![key][NextNonce(key)] = cb]
        /\ returned' = [returned EXCEPT ![g] = [call |-> "add", value |-> id]]
        /\ UNCHANGED adding
    BY <1>2 DEF AddSlow, Begin
  <2>2. key \in Keys /\ id \in RequestID
    BY <2>1, NewID
  <2>3. NextNonce(key) = nonces[key] + 1 /\ NextNonce(key) \in Nonce /\ NextNonce(key) <= adds + 1
    BY <2>1, <2>2, NextNonceFacts
  <2> HIDE DEF key, id
  <2>4. TypeOK'
    <3>1. adds' \in 0 .. MaxAdds
      BY <2>1, RegistryAssumption DEF TypeOK
    <3>2. [call |-> "add", value |-> id] \in Result
      BY <2>2 DEF Result
    <3> QED BY <2>1, <2>2, <2>3, <3>1, <3>2 DEF TypeOK
  <2>5. \A k \in Keys : nonces[k] \in Nat /\ nonces'[k] \in Nat /\ nonces[k] <= nonces'[k]
    BY <2>1, <2>2, <2>3 DEF TypeOK, Nonce
  <2>6. NoncesBounded'
    BY <2>1, <2>2, <2>3, <2>5 DEF NoncesBounded, TypeOK
  <2>7. \A h \in Goroutines : adding[h] # Idle => adding[h].key \in Keys /\ adding[h].nonce \in Nat
    BY DEF TypeOK, Adding, Nonce
  <2> QED BY <2>1, <2>4, <2>5, <2>6, <2>7 DEF AddingInv
<1>3. ASSUME NEW g \in Goroutines, Insert(g)
      PROVE  IInv'
  <2>1. adding[g] \in Adding
    BY <1>3 DEF Insert, TypeOK
  <2>2. TypeOK'
    <3>1. [call |-> "add", value |-> adding[g].id] \in Result
      BY <2>1 DEF Result, Adding
    <3> QED BY <1>3, <2>1, <3>1 DEF Insert, TypeOK, Adding
  <2> QED BY <1>3, <2>2 DEF Insert, AddingInv, NoncesBounded, TypeOK
<1>4. ASSUME NEW g \in Goroutines, NEW ud \in Poppable, Pop(g, ud)
      PROVE  IInv'
  <2>1. ud \in RequestID
    BY RegistryAssumption, <1>4 DEF Poppable, Used, cancelNonce, RequestID
  <2>2. nonceOf(ud) \in Nonce
    BY <2>1, HalvesOf
  <2>3. TypeOK'
    <3>1. callbacks' \in [Keys -> [Nonce -> Callbacks \cup {NoCallback}]]
      BY <1>4, <2>2 DEF Pop, Deleted, TypeOK
    <3>2. [call |-> "pop", value |-> Lookup(ud)] \in Result
      BY <2>2 DEF Lookup, TypeOK, Result
    <3> QED BY <1>4, <3>1, <3>2 DEF Pop, TypeOK
  <2> QED BY <1>4, <2>3 DEF Pop, AddingInv, NoncesBounded
<1>5. CASE UNCHANGED vars
  BY <1>5 DEF vars, TypeOK, AddingInv, NoncesBounded
<1> QED BY <1>1, <1>2, <1>3, <1>4, <1>5 DEF Next
-----------------------------------------------------------------------------
(* The refinement. *)

(* Initially no id is handed out and none has a callback. *)
LEMMA MapInit == Init => CM!Init
<1> SUFFICES ASSUME Init PROVE CM!Init
  OBVIOUS
<1>1. Map = [ud \in RequestID |-> NoCallback]
  <2>1. \A ud \in RequestID : nonceOf(ud) \in Nonce
    BY HalvesOf
  <2> QED BY <2>1 DEF Init, Map, Lookup
<1>2. Used = {}
  <2> SUFFICES ASSUME NEW ud \in Used PROVE FALSE
    OBVIOUS
  <2>1. /\ ud \in RequestID /\ fdOf(ud) \in Fds /\ nonceOf(ud) > 0
        /\ nonceOf(ud) <= nonces[shardNumAndFlattenIdx(fdOf(ud))]
    BY DEF Used
  <2>2. nonces[shardNumAndFlattenIdx(fdOf(ud))] = 0
    BY <2>1 DEF Init, Keys
  <2>3. nonceOf(ud) \in Nat
    BY <2>1, HalvesOf DEF Nonce
  <2> QED BY <2>1, <2>2, <2>3
<1> QED BY <1>1, <1>2 DEF Init, CM!Init, NoResult, CM!NoResult

(* What incrementing the nonce of a descriptor adds to the ids whose nonce *)
(* was handed out: the id made of the new nonce.                           *)
LEMMA HandedOut ==
    ASSUME MaxAdds < NonceModulus, IInv, adds < MaxAdds, NEW fd \in Fds,
           NEW key, key = shardNumAndFlattenIdx(fd), NEW id, id = packRequestID(fd, NextNonce(key)),
           nonces' = [nonces EXCEPT ![key] = NextNonce(key)],
           NEW ud \in RequestID, fdOf(ud) \in Fds, nonceOf(ud) > 0
    PROVE  nonceOf(ud) <= nonces'[shardNumAndFlattenIdx(fdOf(ud))]
             <=> nonceOf(ud) <= nonces[shardNumAndFlattenIdx(fdOf(ud))] \/ ud = id
<1>1. /\ key \in Keys /\ id \in RequestID
      /\ fdOf(id) = fd /\ nonceOf(id) = nonces[key] + 1
  BY NewID
<1>2. NextNonce(key) = nonces[key] + 1
  BY <1>1, NextNonceFacts
<1>3. shardNumAndFlattenIdx(fdOf(ud)) \in Keys
  BY DEF Keys
<1>4. nonceOf(ud) \in Nat /\ nonces[key] \in Nat
  BY <1>1, HalvesOf DEF IInv, TypeOK, Nonce
<1>5. CASE shardNumAndFlattenIdx(fdOf(ud)) = key
  <2>1. fdOf(ud) = fd
    BY <1>5, KeyOf
  <2>2. nonces'[key] = nonces[key] + 1
    BY <1>1, <1>2 DEF IInv, TypeOK
  <2>3. nonceOf(ud) = nonces[key] + 1 => ud = id
    BY <1>1, <2>1, HalvesOf
  <2> QED BY <1>1, <1>4, <1>5, <2>2, <2>3
<1>6. CASE shardNumAndFlattenIdx(fdOf(ud)) # key
  <2>1. ud # id
    BY <1>1, <1>6
  <2>2. nonces'[shardNumAndFlattenIdx(fdOf(ud))] = nonces[shardNumAndFlattenIdx(fdOf(ud))]
    BY <1>3, <1>6 DEF IInv, TypeOK
  <2> QED BY <2>1, <2>2
<1> QED BY <1>5, <1>6

(* What writing one entry of the callback store changes: the callback of   *)
(* one id.                                                                 *)
LEMMA MapUpdate ==
    ASSUME IInv, NEW id \in RequestID, fdOf(id) \in Fds, NEW cb,
           callbacks' = [callbacks EXCEPT ![shardNumAndFlattenIdx(fdOf(id))][nonceOf(id)] = cb]
    PROVE  Map' = [Map EXCEPT ![id] = cb]
<1> DEFINE key == shardNumAndFlattenIdx(fdOf(id))
<1>1. key \in Keys /\ nonceOf(id) \in Nonce
  BY HalvesOf DEF Keys
<1>2. ASSUME NEW ud \in RequestID
      PROVE  Lookup(ud)' = IF ud = id THEN cb ELSE Lookup(ud)
  <2> DEFINE k == shardNumAndFlattenIdx(fdOf(ud))
  <2>1. nonceOf(ud) \in Nonce
    BY HalvesOf
  <2>2. k = key /\ nonceOf(ud) = nonceOf(id) => ud = id
    BY HalvesOf, KeyOf
  <2>3. callbacks \in [Keys -> [Nonce -> Callbacks \cup {NoCallback}]]
    BY DEF IInv, TypeOK
  <2>4. Lookup(ud)' = IF k \in Keys THEN callbacks'[k][nonceOf(ud)] ELSE NoCallback
    BY DEF Lookup
  <2>5. Lookup(ud) = IF k \in Keys THEN callbacks[k][nonceOf(ud)] ELSE NoCallback
    BY DEF Lookup
  <2>6. CASE ud = id
    <3>1. k = key
      BY <2>6
    <3> HIDE DEF k, key
    <3> QED BY <1>1, <2>3, <2>4, <2>6, <3>1 DEF key
  <2>7. CASE ud # id
    <3>1. k # key \/ nonceOf(ud) # nonceOf(id)
      BY <2>2, <2>7
    <3>2. k \in Keys => callbacks'[k][nonceOf(ud)] = callbacks[k][nonceOf(ud)]
      BY <1>1, <2>1, <2>3, <3>1
    <3> QED BY <2>4, <2>5, <2>7, <3>2
  <2> QED BY <2>6, <2>7
<1>3. Map' = [ud \in RequestID |-> Lookup(ud)']
  BY DEF Map
<1> QED BY <1>2, <1>3 DEF Map

(* The increment on the fast path is invisible: the id is not handed out   *)
(* before its callback is in place.                                        *)
LEMMA AddFastStutters ==
    ASSUME MaxAdds < NonceModulus, IInv, NEW g \in Goroutines, NEW fd \in Fds,
           NEW cb \in Callbacks, AddFast(g, fd, cb)
    PROVE  UNCHANGED CM!vars
<1> DEFINE key == shardNumAndFlattenIdx(fd)
           id == packRequestID(fd, NextNonce(key))
           new == [key |-> key, nonce |-> NextNonce(key), cb |-> cb, id |-> id]
<1>1. /\ adding[g] = Idle /\ adds < MaxAdds
      /\ nonces' = [nonces EXCEPT ![key] = NextNonce(key)]
      /\ adding' = [adding EXCEPT ![g] = new]
      /\ UNCHANGED <<callbacks, returned>>
  BY DEF AddFast, Begin
<1>2. /\ key \in Keys /\ id \in RequestID
      /\ fdOf(id) = fd /\ nonceOf(id) = nonces[key] + 1
      /\ \A h \in Goroutines : adding[h] # Idle => adding[h].id # id
  BY <1>1, NewID
<1>3. \A ud \in RequestID : fdOf(ud) \in Fds /\ nonceOf(ud) > 0 =>
        (nonceOf(ud) <= nonces'[shardNumAndFlattenIdx(fdOf(ud))]
          <=> nonceOf(ud) <= nonces[shardNumAndFlattenIdx(fdOf(ud))] \/ ud = id)
  BY <1>1, HandedOut
<1>4. new # Idle
  BY RegistryAssumption DEF Idle
<1>5. nonces[key] \in Nat
  BY <1>2 DEF IInv, TypeOK, Nonce
<1>6. ~(nonceOf(id) <= nonces[shardNumAndFlattenIdx(fdOf(id))])
  BY <1>2, <1>5
<1> HIDE DEF key, id
<1>7. Pending' = Pending \cup {id}
  BY <1>1, <1>4 DEF Pending, IInv, TypeOK
<1>8. Used' = Used
  BY <1>3, <1>6, <1>7 DEF Used
<1>9. Map' = Map
  BY <1>1 DEF Map, Lookup
<1> QED BY <1>1, <1>8, <1>9 DEF CM!vars

(* The insertion on the fast path hands out the id. *)
LEMMA InsertAdds ==
    ASSUME IInv, NEW g \in Goroutines, Insert(g)
    PROVE  CM!Add(g, adding[g].cb) /\ adding[g].cb \in Callbacks
<1> DEFINE id == adding[g].id
<1>1. adding[g] \in Adding
  BY DEF Insert, IInv, TypeOK
<1>2. /\ id \in RequestID /\ adding[g].cb \in Callbacks /\ adding[g].nonce \in Nonce
      /\ fdOf(id) \in Fds /\ adding[g].key = shardNumAndFlattenIdx(fdOf(id))
      /\ adding[g].nonce = nonceOf(id)
      /\ nonceOf(id) > 0 /\ nonceOf(id) <= nonces[shardNumAndFlattenIdx(fdOf(id))]
  BY <1>1 DEF Insert, IInv, AddingInv, Adding
<1>3. id \notin {timeoutNonce, cancelNonce}
  BY <1>2, HalvesOf, PackRoundTrip
<1>4. id \in Pending
  BY DEF Pending, Insert
<1>5. Pending' = Pending \ {id}
  BY DEF Pending, Insert, IInv, TypeOK, AddingInv
<1>6. nonces' = nonces
  BY DEF Insert
<1> HIDE DEF id
<1>7. Used' = Used \cup {id} /\ id \notin Used
  BY <1>2, <1>4, <1>5, <1>6 DEF Used
<1>8. Map' = [Map EXCEPT ![id] = adding[g].cb]
  <2>1. callbacks' = [callbacks EXCEPT ![shardNumAndFlattenIdx(fdOf(id))][nonceOf(id)] = adding[g].cb]
    BY <1>2 DEF Insert
  <2> QED BY <1>2, <2>1, MapUpdate
<1>9. returned' = [returned EXCEPT ![g] = [call |-> "add", value |-> id]]
  BY DEF Insert, id
<1> QED BY <1>2, <1>3, <1>7, <1>8, <1>9 DEF CM!Add

(* On the slow path add is one step. *)
LEMMA AddSlowAdds ==
    ASSUME MaxAdds < NonceModulus, IInv, NEW g \in Goroutines, NEW fd \in Fds,
           NEW cb \in Callbacks, AddSlow(g, fd, cb)
    PROVE  CM!Add(g, cb)
<1> DEFINE key == shardNumAndFlattenIdx(fd)
           id == packRequestID(fd, NextNonce(key))
<1>1. /\ adds < MaxAdds
      /\ nonces' = [nonces EXCEPT ![key] = NextNonce(key)]
      /\ callbacks' = [callbacks EXCEPT ![key][NextNonce(key)] = cb]
      /\ returned' = [returned EXCEPT ![g] = [call |-> "add", value |-> id]]
      /\ adding' = adding
  BY DEF AddSlow, Begin
<1>2. /\ key \in Keys /\ id \in RequestID \ {timeoutNonce, cancelNonce}
      /\ fdOf(id) = fd /\ nonceOf(id) = nonces[key] + 1
      /\ \A h \in Goroutines : adding[h] # Idle => adding[h].id # id
  BY <1>1, NewID
<1>3. \A ud \in RequestID : fdOf(ud) \in Fds /\ nonceOf(ud) > 0 =>
        (nonceOf(ud) <= nonces'[shardNumAndFlattenIdx(fdOf(ud))]
          <=> nonceOf(ud) <= nonces[shardNumAndFlattenIdx(fdOf(ud))] \/ ud = id)
  BY <1>1, HandedOut
<1>4. nonces[key] \in Nat
  BY <1>2 DEF IInv, TypeOK, Nonce
<1>5. ~(nonceOf(id) <= nonces[shardNumAndFlattenIdx(fdOf(id))]) /\ nonceOf(id) > 0
  BY <1>2, <1>4
<1>6. NextNonce(key) = nonceOf(id)
  BY <1>1, <1>2, NextNonceFacts
<1>7. callbacks' = [callbacks EXCEPT ![shardNumAndFlattenIdx(fdOf(id))][nonceOf(id)] = cb]
  BY <1>1, <1>2, <1>6
<1>8. fdOf(id) \in Fds
  BY <1>2
<1> HIDE DEF key, id
<1>9. Pending' = Pending /\ id \notin Pending
  BY <1>1, <1>2 DEF Pending
<1>10. Used' = Used \cup {id} /\ id \notin Used
  BY <1>2, <1>3, <1>5, <1>8, <1>9 DEF Used
<1>11. Map' = [Map EXCEPT ![id] = cb]
  BY <1>2, <1>7, <1>8, MapUpdate
<1> QED BY <1>1, <1>2, <1>10, <1>11 DEF CM!Add

(* pop is one step, on whatever id. *)
LEMMA PopPops ==
    ASSUME IInv, NEW g \in Goroutines, NEW ud \in Poppable, Pop(g, ud)
    PROVE  CM!Pop(g, ud) /\ ud \in RequestID
<1> DEFINE key == shardNumAndFlattenIdx(fdOf(ud))
<1>1. ud \in RequestID
  BY RegistryAssumption DEF Poppable, Used, cancelNonce, RequestID
<1>2. Used' = Used
  BY DEF Pop, Used, Pending
<1>3. Map' = [Map EXCEPT ![ud] = NoCallback]
  <2>1. CASE key \in Keys
    <3>1. fdOf(ud) \in Fds
      <4>1. PICK f \in Fds : TRUE
        BY <2>1 DEF Keys
      <4> QED BY <1>1, <2>1, <4>1, KeyOf
    <3>2. callbacks' = [callbacks EXCEPT ![shardNumAndFlattenIdx(fdOf(ud))][nonceOf(ud)] = NoCallback]
      BY <2>1 DEF Pop, Deleted
    <3> QED BY <1>1, <3>1, <3>2, MapUpdate
  <2>2. CASE key \notin Keys
    <3>1. callbacks' = callbacks /\ Lookup(ud) = NoCallback
      BY <2>2 DEF Pop, Deleted, Lookup
    <3> QED BY <1>1, <3>1 DEF Map, Lookup
  <2> QED BY <2>1, <2>2
<1>4. returned' = [returned EXCEPT ![g] = [call |-> "pop", value |-> Map[ud]]]
  BY <1>1 DEF Pop, Map
<1> QED BY <1>1, <1>2, <1>3, <1>4 DEF CM!Pop

(* IInv holds in every reachable state. *)
LEMMA Inductive ==
    ASSUME MaxAdds < NonceModulus
    PROVE  Spec => []IInv
<1>1. Init => IInv
  BY InitInv
<1>2. IInv /\ [Next]_vars => IInv'
  BY StepInv
<1> QED BY <1>1, <1>2, PTL DEF Spec

(* As long as fewer adds are made than there are nonces, the registry      *)
(* hands out each id once and no reserved one, and pop returns each        *)
(* callback once: it implements CallbackMap, for every number of shards,   *)
(* granularity, boundary and set of descriptors.                           *)
THEOREM RegistryImplementsMap ==
    ASSUME MaxAdds < NonceModulus
    PROVE  Spec => ImplementsMap
<1>1. Init => CM!Init
  BY MapInit
<1>2. IInv /\ [Next]_vars => [CM!Next]_CM!vars
  <2> SUFFICES ASSUME IInv, [Next]_vars PROVE [CM!Next]_CM!vars
    OBVIOUS
  <2>1. ASSUME NEW g \in Goroutines, NEW fd \in Fds, NEW cb \in Callbacks, AddFast(g, fd, cb)
        PROVE  UNCHANGED CM!vars
    BY <2>1, AddFastStutters
  <2>2. ASSUME NEW g \in Goroutines, NEW fd \in Fds, NEW cb \in Callbacks, AddSlow(g, fd, cb)
        PROVE  CM!Next
    BY <2>2, AddSlowAdds DEF CM!Next
  <2>3. ASSUME NEW g \in Goroutines, Insert(g)
        PROVE  CM!Next
    BY <2>3, InsertAdds DEF CM!Next
  <2>4. ASSUME NEW g \in Goroutines, NEW ud \in Poppable, Pop(g, ud)
        PROVE  CM!Next
    BY <2>4, PopPops DEF CM!Next
  <2>5. CASE UNCHANGED vars
    BY <2>5 DEF vars, CM!vars, Map, Lookup, Used, Pending
  <2> QED BY <2>1, <2>2, <2>3, <2>4, <2>5 DEF Next
<1>3. Spec => []IInv
  BY Inductive
<1> QED BY <1>1, <1>2, <1>3, PTL DEF Spec, CM!Spec, ImplementsMap

-----------------------------------------------------------------------------
(* No add replaces a callback. *)

(* One step keeps every callback that waits, unless pop takes it.          *)
LEMMA KeepsCallbacks ==
    ASSUME MaxAdds < NonceModulus, IInv, Filled, [Next]_vars
    PROVE  /\ Filled'
           /\ \A k \in Keys, n \in Nonce : callbacks[k][n] # NoCallback =>
                 callbacks'[k][n] \in {callbacks[k][n], NoCallback}
<1>0. /\ nonces \in [Keys -> Nonce] /\ callbacks \in [Keys -> [Nonce -> Callbacks \cup {NoCallback}]]
      /\ adding \in [Goroutines -> Adding \cup {Idle}]
      /\ \A k \in Keys : nonces[k] \in Nat
      /\ \A n \in Nonce : n \in Nat
  BY DEF IInv, TypeOK, Nonce
<1>1. ASSUME NEW g \in Goroutines, NEW fd \in Fds, NEW cb \in Callbacks,
             NEW key, key = shardNumAndFlattenIdx(fd), Begin(g, key)
      PROVE  /\ key \in Keys /\ NextNonce(key) \in Nonce /\ callbacks[key][NextNonce(key)] = NoCallback
             /\ \A k \in Keys : nonces[k] <= nonces'[k] /\ nonces'[k] \in Nat
             /\ nonces'[key] = NextNonce(key)
             /\ \A h \in Goroutines : adding[h] # Idle =>
                   ~(adding[h].key = key /\ adding[h].nonce = NextNonce(key))
  <2>1. key \in Keys
    BY <1>1 DEF Keys
  <2>2. NextNonce(key) = nonces[key] + 1 /\ NextNonce(key) \in Nonce
    BY <1>1, <2>1, NextNonceFacts DEF Begin
  <2>3. nonces[key] \in Nat /\ ~(NextNonce(key) <= nonces[key])
    BY <1>0, <2>1, <2>2
  <2>4. nonces' = [nonces EXCEPT ![key] = NextNonce(key)]
    BY <1>1 DEF Begin
  <2>5. callbacks[key][NextNonce(key)] = NoCallback
    BY <2>1, <2>2, <2>3 DEF Filled
  <2>6. \A k \in Keys : nonces[k] <= nonces'[k] /\ nonces'[k] \in Nat
    BY <1>0, <2>1, <2>2, <2>4
  <2>7. \A h \in Goroutines : adding[h] # Idle =>
           ~(adding[h].key = key /\ adding[h].nonce = NextNonce(key))
    BY <2>3 DEF IInv, AddingInv
  <2> QED BY <1>0, <2>1, <2>2, <2>4, <2>5, <2>6, <2>7
<1>2. ASSUME NEW g \in Goroutines, NEW fd \in Fds, NEW cb \in Callbacks, AddFast(g, fd, cb)
      PROVE  Filled' /\ callbacks' = callbacks
  <2>1. PICK key : key = shardNumAndFlattenIdx(fd)
    OBVIOUS
  <2>2. PICK new : new = [key |-> key, nonce |-> NextNonce(key), cb |-> cb,
                          id |-> packRequestID(fd, NextNonce(key))]
    OBVIOUS
  <2>3. Begin(g, key) /\ adding' = [adding EXCEPT ![g] = new] /\ callbacks' = callbacks
    BY <1>2, <2>1, <2>2 DEF AddFast
  <2>4. /\ key \in Keys /\ NextNonce(key) \in Nonce /\ callbacks[key][NextNonce(key)] = NoCallback
        /\ \A k \in Keys : nonces[k] <= nonces'[k] /\ nonces'[k] \in Nat
    BY <1>1, <2>1, <2>3
  <2>5. new.key = key /\ new.nonce = NextNonce(key)
    BY <2>2
  <2> SUFFICES ASSUME NEW k \in Keys, NEW n \in Nonce, callbacks'[k][n] # NoCallback
               PROVE  /\ n <= nonces'[k]
                      /\ \A h \in Goroutines :
                            adding'[h] # Idle => ~(adding'[h].key = k /\ adding'[h].nonce = n)
    BY <2>3 DEF Filled
  <2>6. callbacks[k][n] # NoCallback /\ n <= nonces[k]
    BY <2>3 DEF Filled
  <2>7. n <= nonces'[k]
    BY <1>0, <2>4, <2>6
  <2>8. ASSUME NEW h \in Goroutines, adding'[h] # Idle
        PROVE  ~(adding'[h].key = k /\ adding'[h].nonce = n)
    <3>1. CASE h = g
      <4>1. adding'[h] = new
        BY <1>0, <2>3, <3>1
      <4> QED BY <2>4, <2>5, <2>6, <4>1
    <3>2. CASE h # g
      <4>1. adding'[h] = adding[h]
        BY <1>0, <2>3, <3>2
      <4> QED BY <2>6, <2>8, <4>1 DEF Filled
    <3> QED BY <3>1, <3>2
  <2> QED BY <2>7, <2>8
<1>3. ASSUME NEW g \in Goroutines, NEW fd \in Fds, NEW cb \in Callbacks, AddSlow(g, fd, cb)
      PROVE  Filled' /\ \A k \in Keys, n \in Nonce :
                callbacks[k][n] # NoCallback => callbacks'[k][n] = callbacks[k][n]
  <2>1. PICK key : key = shardNumAndFlattenIdx(fd)
    OBVIOUS
  <2>2. Begin(g, key) /\ adding' = adding /\ callbacks' = [callbacks EXCEPT ![key][NextNonce(key)] = cb]
    BY <1>3, <2>1 DEF AddSlow
  <2>3. /\ key \in Keys /\ NextNonce(key) \in Nonce /\ callbacks[key][NextNonce(key)] = NoCallback
        /\ \A k \in Keys : nonces[k] <= nonces'[k] /\ nonces'[k] \in Nat
        /\ nonces'[key] = NextNonce(key)
        /\ \A h \in Goroutines : adding[h] # Idle =>
              ~(adding[h].key = key /\ adding[h].nonce = NextNonce(key))
    BY <1>1, <2>1, <2>2
  <2>4. \A k \in Keys, n \in Nonce : ~(k = key /\ n = NextNonce(key)) => callbacks'[k][n] = callbacks[k][n]
    BY <1>0, <2>2, <2>3
  <2>5. ASSUME NEW k \in Keys, NEW n \in Nonce, callbacks'[k][n] # NoCallback
        PROVE  /\ n <= nonces'[k]
               /\ \A h \in Goroutines :
                     adding'[h] # Idle => ~(adding'[h].key = k /\ adding'[h].nonce = n)
    <3>1. CASE k = key /\ n = NextNonce(key)
      BY <1>0, <2>2, <2>3, <3>1
    <3>2. CASE ~(k = key /\ n = NextNonce(key))
      <4>1. callbacks[k][n] # NoCallback
        BY <2>4, <2>5, <3>2
      <4> QED BY <1>0, <2>2, <2>3, <4>1 DEF Filled
    <3> QED BY <3>1, <3>2
  <2> QED BY <2>3, <2>4, <2>5 DEF Filled
<1>4. ASSUME NEW g \in Goroutines, Insert(g)
      PROVE  Filled' /\ \A k \in Keys, n \in Nonce :
                callbacks[k][n] # NoCallback => callbacks'[k][n] = callbacks[k][n]
  <2>1. adding[g] # Idle /\ adding[g] \in Adding
    BY <1>0, <1>4 DEF Insert
  <2>2. PICK key \in Keys, m \in Nonce : key = adding[g].key /\ m = adding[g].nonce
    BY <2>1 DEF Adding
  <2>3. /\ callbacks' = [callbacks EXCEPT ![key][m] = adding[g].cb]
        /\ adding' = [adding EXCEPT ![g] = Idle] /\ nonces' = nonces
    BY <1>4, <2>2 DEF Insert
  <2>4. callbacks[key][m] = NoCallback /\ m <= nonces[key]
    BY <2>1, <2>2 DEF Filled, IInv, AddingInv
  <2>5. \A k \in Keys, n \in Nonce : ~(k = key /\ n = m) => callbacks'[k][n] = callbacks[k][n]
    BY <1>0, <2>2, <2>3
  <2>6. ASSUME NEW h \in Goroutines, adding'[h] # Idle
        PROVE  h # g /\ adding'[h] = adding[h]
    BY <1>0, <2>3, <2>6
  <2>7. ASSUME NEW h \in Goroutines, adding'[h] # Idle
        PROVE  ~(adding'[h].key = key /\ adding'[h].nonce = m)
    <3>1. h # g /\ adding'[h] = adding[h] /\ adding[h] # Idle
      BY <2>6, <2>7
    <3>2. adding[g] \in Adding /\ adding[h] \in Adding
      BY <1>0, <2>1, <3>1
    <3>3. /\ adding[h].id \in RequestID /\ adding[g].id \in RequestID
          /\ adding[h].key = shardNumAndFlattenIdx(fdOf(adding[h].id)) /\ fdOf(adding[h].id) \in Fds
          /\ adding[g].key = shardNumAndFlattenIdx(fdOf(adding[g].id)) /\ fdOf(adding[g].id) \in Fds
          /\ adding[h].nonce = nonceOf(adding[h].id) /\ adding[g].nonce = nonceOf(adding[g].id)
          /\ adding[h].id # adding[g].id
      BY <2>1, <3>1, <3>2 DEF IInv, AddingInv, Adding
    <3>4. SUFFICES ASSUME adding[h].key = key, adding[h].nonce = m PROVE FALSE
      BY <3>1
    <3>5. fdOf(adding[h].id) = fdOf(adding[g].id) /\ nonceOf(adding[h].id) = nonceOf(adding[g].id)
      BY <2>2, <3>3, <3>4, KeyOf
    <3> QED BY <3>3, <3>5, HalvesOf
  <2>8. ASSUME NEW k \in Keys, NEW n \in Nonce, callbacks'[k][n] # NoCallback
        PROVE  /\ n <= nonces'[k]
               /\ \A h \in Goroutines :
                     adding'[h] # Idle => ~(adding'[h].key = k /\ adding'[h].nonce = n)
    <3>1. CASE k = key /\ n = m
      BY <2>3, <2>4, <2>7, <3>1
    <3>2. CASE ~(k = key /\ n = m)
      <4>1. callbacks[k][n] # NoCallback
        BY <2>5, <2>8, <3>2
      <4> QED BY <2>3, <2>6, <4>1 DEF Filled
    <3> QED BY <3>1, <3>2
  <2> QED BY <2>4, <2>5, <2>8 DEF Filled
<1>5. ASSUME NEW g \in Goroutines, NEW ud \in Poppable, Pop(g, ud)
      PROVE  Filled' /\ \A k \in Keys, n \in Nonce : callbacks'[k][n] \in {callbacks[k][n], NoCallback}
  <2>1. ud \in RequestID
    BY RegistryAssumption DEF Poppable, Used, cancelNonce, RequestID
  <2>2. nonceOf(ud) \in Nonce
    BY <2>1, HalvesOf
  <2>3. \A k \in Keys, n \in Nonce : callbacks'[k][n] \in {callbacks[k][n], NoCallback}
    BY <1>0, <1>5, <2>2 DEF Pop, Deleted
  <2>4. nonces' = nonces /\ adding' = adding
    BY <1>5 DEF Pop
  <2> QED BY <2>3, <2>4 DEF Filled
<1>6. CASE UNCHANGED vars
  BY <1>6 DEF vars, Filled
<1> QED BY <1>2, <1>3, <1>4, <1>5, <1>6 DEF Next

(* As long as fewer adds are made than there are nonces, no add, on either *)
(* path and with any number of goroutines between their increment and      *)
(* their insertion, replaces the callback of a request that still waits.   *)
THEOREM CallbacksNeverReplaced ==
    ASSUME MaxAdds < NonceModulus
    PROVE  Spec => NoOverwrite
<1>1. Init => Filled
  BY DEF Init, Filled
<1>2. IInv /\ Filled /\ [Next]_vars => Filled'
  BY KeepsCallbacks
<1>3. IInv /\ Filled /\ [Next]_vars =>
        [\A k \in Keys, n \in Nonce :
          callbacks[k][n] # NoCallback => callbacks'[k][n] \in {callbacks[k][n], NoCallback}]_vars
  BY KeepsCallbacks
<1>4. Spec => []IInv
  BY Inductive
<1> QED BY <1>1, <1>2, <1>3, <1>4, PTL DEF Spec, NoOverwrite
=============================================================================
