-------------------------- MODULE LifecycleProofs --------------------------
(***************************************************************************)
(* Proofs about Setup and Lifecycle: SetupInv and LifeInv are inductive,   *)
(* for any number of rings and worker pools.                               *)
(***************************************************************************)
EXTENDS Lifecycle, FiniteSetTheorems, WellFoundedInduction, TLAPS

-----------------------------------------------------------------------------
(* Numbers *)

(* A set of natural numbers has a least one. *)
LEMMA LeastNumber ==
  ASSUME NEW S \in SUBSET Nat, S # {}
  PROVE  Min(S) \in S
<1> DEFINE R == OpToRel(<, Nat)
<1>1. IsWellFoundedOn(R, Nat)
  BY NatLessThanWellFounded, Zenon
<1> HIDE DEF R
<1>2. PICK x \in S : \A y \in S : ~ (<<y, x>> \in R)
  BY <1>1, WFMin
<1>3. R = {ss \in Nat \X Nat : ss[1] < ss[2]}
  BY Zenon DEF R, OpToRel
<1>4. ASSUME NEW y \in S PROVE x <= y
  <2>1. x \in Nat /\ y \in Nat /\ ~ (<<y, x>> \in R)
    BY <1>2
  <2>2. y < x => <<y, x>> \in R
    BY <1>3, <2>1
  <2> QED BY <2>1, <2>2
<1> QED BY <1>4 DEF Min

(* A product grows with its factor. *)
LEMMA Monotone ==
  ASSUME NEW a \in Nat, NEW b \in Nat, NEW n \in Nat, a <= b
  PROVE  n * a <= n * b /\ n * a \in Nat /\ n * b \in Nat
<1>1. PICK d \in Nat : b = a + d
  BY b - a \in Nat
<1>2. n * b = n * a + n * d /\ n * d \in Nat /\ n * a \in Nat
  BY <1>1
<1> QED BY <1>2

(* A pool that is being filled fits. *)
LEMMA PoolFits ==
  ASSUME NEW n \in Nat \ {0}, NEW q \in Nat, NEW w \in Nat, NEW x \in Nat, x + n * q < n * w
  PROVE  n * q + n <= n * w
<1>1. q < w
  <2>1. SUFFICES ASSUME w <= q PROVE FALSE
    OBVIOUS
  <2>2. n * w <= n * q /\ n * q \in Nat /\ n * w \in Nat
    BY <2>1, Monotone
  <2> QED BY <2>2
<1>2. n * (q + 1) <= n * w /\ n * q \in Nat
  BY <1>1, Monotone
<1>3. n * (q + 1) = n * q + n
  OBVIOUS
<1> QED BY <1>2, <1>3

(* Equal products, equal factors. *)
LEMMA SameFactor ==
  ASSUME NEW n \in Nat \ {0}, NEW q \in Nat, NEW w \in Nat, n * q = n * w
  PROVE  q = w
<1>1. ASSUME NEW a \in Nat, NEW b \in Nat, a < b PROVE n * a < n * b
  <2>1. n * (a + 1) <= n * b /\ n * a \in Nat /\ n * b \in Nat
    BY <1>1, Monotone
  <2>2. n * (a + 1) = n * a + n
    OBVIOUS
  <2> QED BY <2>1, <2>2
<1>2. ~(q < w) /\ ~(w < q)
  BY <1>1
<1> QED BY <1>2

(* The rings of a pool. *)
LEMMA PerPool ==
  ASSUME NEW c \in Nat \ {0}, NEW w \in 1 .. c, c % w = 0
  PROVE  c \div w \in Nat \ {0} /\ c = (c \div w) * w
<1>1. c \div w \in Nat /\ c = (c \div w) * w
  OBVIOUS
<1>2. c \div w # 0
  BY <1>1
<1> QED BY <1>1, <1>2

-----------------------------------------------------------------------------
(* The rings made *)

(* The counts while rings are made, and when they are all made.            *)
LEMMA Counts ==
  ASSUME SetupInv, pc \in Making \cup {"created"}
  PROVE  /\ count \in Nat /\ wpCount \in Nat /\ Len(rings) \in Nat
         /\ instancePerPool \in Nat \ {0}
         /\ count = instancePerPool * wpCount
         /\ IsFiniteSet(DOMAIN pool) /\ Cardinality(DOMAIN pool) = Len(rings)
         /\ Mains \subseteq DOMAIN pool
         /\ IsFiniteSet(Mains) /\ Cardinality(Mains) \in Nat
         /\ j > 0 => Cardinality(Mains) # 0
<1>1. count \in 1 .. MaxCount /\ wpCount \in 1 .. count /\ count % wpCount = 0 /\ j \in 0 .. MaxCount
  BY DEF SetupInv, TypeOK, ArgsChecked
<1>2. MaxCount \in Nat \ {0}
  BY SetupAssumption
<1>3. count \in Nat \ {0} /\ wpCount \in Nat
  BY <1>1, <1>2
<1>4. instancePerPool \in Nat \ {0} /\ count = instancePerPool * wpCount
  BY <1>1, <1>3, PerPool DEF instancePerPool
<1>5. DOMAIN pool \in SUBSET FDs /\ rings \in Seq(FDs) /\ Cardinality(DOMAIN pool) = Len(rings)
  BY DEF SetupInv, TypeOK, Recorded
<1>6. IsFiniteSet(FDs)
  BY <1>2, FS_Interval DEF FDs
<1>7. IsFiniteSet(DOMAIN pool)
  BY <1>5, <1>6, FS_Subset
<1>8. Mains \subseteq DOMAIN pool
  BY DEF SetupInv, Pools
<1>9. IsFiniteSet(Mains) /\ Cardinality(Mains) \in Nat
  BY <1>7, <1>8, FS_Subset, FS_CardinalityType
<1>10. j > 0 => Cardinality(Mains) # 0
  <2>1. j > 0 => Mains # {}
    BY DEF SetupInv, Pools
  <2> QED BY <1>9, <2>1, FS_EmptySet
<1>11. Len(rings) \in Nat
  BY <1>5
<1> QED BY <1>3, <1>4, <1>5, <1>7, <1>8, <1>9, <1>10, <1>11

(* The kernel finds a free descriptor.                                     *)
LEMMA FreshDescriptor ==
  ASSUME SetupInv, pc = "setup"
  PROVE  Min(FDs \ open) \in FDs \ open
<1>1. open = DOMAIN pool
  BY DEF SetupInv, Recorded, Descriptors, Making, InNew
<1>2. Cardinality(open) < count /\ count <= MaxCount /\ count \in Nat /\ MaxCount \in Nat
  BY <1>1, SetupAssumption DEF SetupInv, TypeOK, Recorded, Index, Making
<1>3. IsFiniteSet(FDs) /\ Cardinality(FDs) = MaxCount + 1
  BY <1>2, FS_Interval DEF FDs
<1>4. open \subseteq FDs /\ IsFiniteSet(open) /\ Cardinality(open) \in Nat
  BY <1>3, FS_Subset, FS_CardinalityType DEF SetupInv, TypeOK
<1>5. FDs \ open # {}
  <2>1. SUFFICES ASSUME FDs \ open = {} PROVE FALSE
    OBVIOUS
  <2>2. open = FDs
    BY <1>4, <2>1
  <2> QED BY <1>2, <1>3, <2>2
<1>6. FDs \ open \in SUBSET Nat
  BY <1>2 DEF FDs
<1> QED BY <1>5, <1>6, LeastNumber

(* Steps that do not touch what was made.                                  *)
LEMMA MadeKept ==
  ASSUME SetupInv,
         UNCHANGED <<count, wpCount, i, j, main, rings, pool>>,
         pc' \in Making => pc \in Making, pc' = "created" => pc = "created"
  PROVE  (ArgsChecked /\ Index /\ Pools)'
<1>1. Mains' = Mains /\ instancePerPool' = instancePerPool /\ \A m : Sharing(m)' = Sharing(m)
  BY DEF Mains, Sharing, instancePerPool
<1>2. ArgsChecked'
  BY DEF SetupInv, ArgsChecked
<1>3. Index'
  BY <1>1 DEF SetupInv, Index
<1>4. Pools'
  BY <1>1 DEF SetupInv, Pools
<1> QED BY <1>2, <1>3, <1>4

(* What CreateMany records of a new ring.                                  *)
LEMMA RegisterPools ==
  ASSUME SetupInv, Register
  PROVE  /\ new \notin DOMAIN pool /\ DOMAIN pool' = DOMAIN pool \cup {new}
         /\ \A fd \in DOMAIN pool : pool'[fd] = pool[fd]
         /\ pool'[new] = main' /\ main' = AttachedWQ
         /\ rings' = Append(rings, new) /\ Len(rings') = Len(rings) + 1
         /\ Cardinality(DOMAIN pool') = Len(rings')
         /\ new \in FDs
<1>1. pc = "register" /\ pc \in InNew /\ pc \in Making
  BY DEF Register, Making, InNew
<1>2. new \in FDs /\ new \notin DOMAIN pool
  BY <1>1 DEF SetupInv, Recorded, Descriptors
<1>3. /\ DOMAIN pool' = DOMAIN pool \cup {new}
      /\ \A fd \in DOMAIN pool : pool'[fd] = pool[fd]
      /\ pool'[new] = main' /\ main' = AttachedWQ /\ rings' = Append(rings, new)
  BY <1>2 DEF Register
<1>4. Len(rings') = Len(rings) + 1
  BY <1>2, <1>3 DEF SetupInv, TypeOK
<1>5. IsFiniteSet(DOMAIN pool) /\ Cardinality(DOMAIN pool) = Len(rings)
  BY <1>1, Counts
<1>6. Cardinality(DOMAIN pool \cup {new}) = Cardinality(DOMAIN pool) + 1
  BY <1>2, <1>5, FS_AddElement
<1> QED BY <1>2, <1>3, <1>4, <1>5, <1>6

(* A main ring opens a pool of its own ...                                 *)
LEMMA MainAdded ==
  ASSUME SetupInv, Register, j = 0
  PROVE  /\ Mains' = Mains \cup {new} /\ main' = new
         /\ Cardinality(Mains') = Cardinality(Mains) + 1
         /\ \A m \in Mains' : m \in DOMAIN pool' /\ pool'[m] = m
         /\ \A m \in Mains : m # new /\ Cardinality(Sharing(m)') = Cardinality(Sharing(m))
         /\ \A m \in {new} : Cardinality(Sharing(m)') = 1
<1>1. pc = "register" /\ pc \in Making
  BY DEF Register, Making, InNew
<1>2. /\ new \notin DOMAIN pool /\ DOMAIN pool' = DOMAIN pool \cup {new}
      /\ \A fd \in DOMAIN pool : pool'[fd] = pool[fd]
      /\ pool'[new] = new /\ main' = new
  BY RegisterPools DEF AttachedWQ
<1>3. /\ \A m \in Mains : m \in DOMAIN pool /\ pool[m] = m
      /\ IsFiniteSet(Mains)
  BY <1>1, Counts DEF SetupInv, Pools
<1>4. Mains' = Mains \cup {new}
  BY <1>2 DEF Mains
<1>5. new \notin Mains
  BY <1>2, <1>3
<1>6. Cardinality(Mains') = Cardinality(Mains) + 1
  BY <1>3, <1>4, <1>5, FS_AddElement
<1>7. ASSUME NEW m \in Mains PROVE Sharing(m)' = Sharing(m)
  BY <1>2, <1>5 DEF Sharing
<1>8. ASSUME NEW m \in {new} PROVE Cardinality(Sharing(m)') = 1
  <2>1. \A fd \in DOMAIN pool : pool[fd] # m
    BY <1>5 DEF Mains
  <2>2. \A fd \in DOMAIN pool' : pool'[fd] = m <=> fd = m
    BY <1>2, <2>1
  <2>3. m \in DOMAIN pool'
    BY <1>2
  <2>4. Sharing(m)' = {m}
    BY <2>2, <2>3 DEF Sharing
  <2> QED BY <2>4, FS_Singleton
<1> QED BY <1>2, <1>3, <1>4, <1>5, <1>6, <1>7, <1>8

(* ... and the rings of the inner loop join it.                            *)
LEMMA SharedAdded ==
  ASSUME SetupInv, Register, j # 0
  PROVE  /\ Mains' = Mains /\ main' = main /\ main \in Mains
         /\ \A m \in Mains' : m \in DOMAIN pool' /\ pool'[m] = m
         /\ \A m \in Mains : m # main => Cardinality(Sharing(m)') = Cardinality(Sharing(m))
         /\ Cardinality(Sharing(main)') = j + 1
<1>1. pc = "register" /\ pc \in Making /\ j > 0
  BY DEF Register, Making, InNew, SetupInv, TypeOK
<1>2. /\ new \notin DOMAIN pool /\ DOMAIN pool' = DOMAIN pool \cup {new}
      /\ \A fd \in DOMAIN pool : pool'[fd] = pool[fd]
      /\ pool'[new] = main /\ main' = main
  BY RegisterPools DEF AttachedWQ
<1>3. /\ \A m \in Mains : m \in DOMAIN pool /\ pool[m] = m
      /\ main \in Mains /\ Cardinality(Sharing(main)) = j
  BY <1>1 DEF SetupInv, Pools
<1>4. Mains' = Mains
  BY <1>2, <1>3 DEF Mains
<1>5. ASSUME NEW m \in Mains, m # main PROVE Sharing(m)' = Sharing(m)
  BY <1>2, <1>5 DEF Sharing
<1>6. Sharing(main)' = Sharing(main) \cup {new} /\ new \notin Sharing(main)
  BY <1>2 DEF Sharing
<1>7. IsFiniteSet(Sharing(main))
  <2>1. IsFiniteSet(DOMAIN pool) /\ Sharing(main) \subseteq DOMAIN pool
    BY <1>1, Counts DEF Sharing
  <2> QED BY <2>1, FS_Subset
<1>8. Cardinality(Sharing(main)') = j + 1
  BY <1>3, <1>6, <1>7, FS_AddElement
<1> QED BY <1>2, <1>3, <1>4, <1>5, <1>8

(* The two loops of CreateMany.                                            *)
LEMMA RegisterStep ==
  ASSUME SetupInv, Register
  PROVE  (ArgsChecked /\ Index /\ Pools)' /\ i' \in 0 .. count /\ j' \in 0 .. count /\ Len(rings') <= count
<1>0. PICK n, q, L : n = instancePerPool /\ q = Cardinality(Mains) /\ L = Len(rings)
  OBVIOUS
<1>1. pc = "register" /\ pc \in Making
  BY DEF Register, Making, InNew
<1>2. /\ count \in Nat /\ wpCount \in Nat /\ L \in Nat /\ n \in Nat \ {0} /\ q \in Nat
      /\ count = n * wpCount /\ j \in Nat /\ (j > 0 => q # 0)
  BY <1>0, <1>1, Counts DEF SetupInv, TypeOK
<1>3. /\ L < count /\ j < n
      /\ L = j + n * (IF j = 0 THEN q ELSE q - 1)
      /\ i = IF j = 0 THEN L ELSE L - 1
  BY <1>0, <1>1 DEF SetupInv, Index
<1>4. /\ Len(rings') = L + 1 /\ UNCHANGED <<count, wpCount>> /\ instancePerPool' = n
      /\ wpCount \in 1 .. count /\ count % wpCount = 0
  BY <1>0, <1>1, RegisterPools DEF Register, args, instancePerPool, SetupInv, ArgsChecked
<1>5. ArgsChecked'
  BY <1>4 DEF ArgsChecked
<1>6. CASE j = 0
  <2>1. /\ Mains' = Mains \cup {new} /\ main' = new /\ Cardinality(Mains') = q + 1
        /\ \A m \in Mains' : m \in DOMAIN pool' /\ pool'[m] = m
        /\ \A m \in Mains : m # new /\ Cardinality(Sharing(m)') = n
        /\ \A m \in {new} : Cardinality(Sharing(m)') = 1
    BY <1>0, <1>1, <1>6, MainAdded DEF SetupInv, Pools
  <2>2. n * q + n <= count /\ L = n * q
    BY <1>2, <1>3, <1>6, PoolFits
  <2>3. n * (q + 1) = n * q + n
    BY <1>2
  <2>4. CASE 1 < n
    <3>1. i' = i /\ j' = 1 /\ pc' = "setup"
      BY <1>0, <1>6, <2>4 DEF Register, IndexAfter
    <3>2. L + 1 < count
      BY <1>2, <1>3, <2>2, <2>4
    <3>3. Index'
      BY <1>2, <1>3, <1>4, <1>6, <2>1, <2>2, <2>4, <3>1, <3>2 DEF Index, Making
    <3>4. Pools'
      <4>1. ASSUME NEW m \in Mains'
            PROVE  Cardinality(Sharing(m)') = IF j' > 0 /\ m = main' THEN j' ELSE instancePerPool'
        <5>1. CASE m = new
          BY <1>4, <2>1, <3>1, <5>1
        <5>2. CASE m # new
          BY <1>4, <2>1, <3>1, <5>2
        <5> QED BY <5>1, <5>2
      <4>2. j' > 0 => main' \in Mains'
        BY <2>1
      <4> QED BY <2>1, <4>1, <4>2 DEF Pools
    <3> QED BY <1>2, <1>3, <1>4, <1>5, <1>6, <3>1, <3>2, <3>3, <3>4
  <2>5. CASE n = 1
    <3>1. i' = L + 1 /\ j' = 0 /\ pc' = IF L + 1 < count THEN "setup" ELSE "created"
      BY <1>0, <1>2, <1>3, <1>4, <1>6, <2>5 DEF Register, IndexAfter, MoreRings
    <3>2. L + 1 = n * (q + 1) /\ L + 1 <= count
      BY <1>2, <2>1, <2>2, <2>3, <2>5
    <3>3. Index'
      BY <1>2, <1>3, <1>4, <2>1, <2>5, <3>1, <3>2 DEF Index, Making, InNew
    <3>4. Pools'
      <4>1. ASSUME NEW m \in Mains'
            PROVE  Cardinality(Sharing(m)') = IF j' > 0 /\ m = main' THEN j' ELSE instancePerPool'
        <5>1. CASE m = new
          BY <1>4, <2>1, <2>5, <3>1, <5>1
        <5>2. CASE m # new
          BY <1>4, <2>1, <3>1, <5>2
        <5> QED BY <5>1, <5>2
      <4>2. j' > 0 => main' \in Mains'
        BY <2>1
      <4> QED BY <2>1, <4>1, <4>2 DEF Pools
    <3> QED BY <1>2, <1>3, <1>4, <1>5, <3>1, <3>2, <3>3, <3>4
  <2> QED BY <1>2, <2>4, <2>5
<1>7. CASE j # 0
  <2>0. j > 0 /\ q - 1 \in Nat /\ L = j + n * (q - 1) /\ i = L - 1
    BY <1>2, <1>3, <1>7
  <2>1. /\ Mains' = Mains /\ main' = main /\ main \in Mains /\ Cardinality(Mains') = q
        /\ \A m \in Mains' : m \in DOMAIN pool' /\ pool'[m] = m
        /\ \A m \in Mains : m # main => Cardinality(Sharing(m)') = n
        /\ Cardinality(Sharing(main)') = j + 1
    BY <1>0, <1>1, <1>7, SharedAdded DEF SetupInv, Pools
  <2>2. n * (q - 1) + n <= count
    BY <1>2, <1>3, <2>0, PoolFits
  <2>3. n * (q - 1) + n = n * q
    BY <1>2
  <2>4. CASE j + 1 < n
    <3>1. i' = i + 1 /\ j' = j + 1 /\ pc' = "setup"
      BY <1>0, <1>7, <2>4 DEF Register, IndexAfter
    <3>2. L + 1 < count
      BY <1>2, <2>0, <2>2, <2>4
    <3>3. Index'
      BY <1>2, <1>3, <1>4, <2>0, <2>1, <2>4, <3>1, <3>2 DEF Index, Making
    <3>4. Pools'
      <4>1. j' > 0 /\ main' \in Mains'
        BY <1>2, <2>1, <3>1
      <4>2. ASSUME NEW m \in Mains'
            PROVE  Cardinality(Sharing(m)') = IF j' > 0 /\ m = main' THEN j' ELSE instancePerPool'
        BY <1>4, <2>1, <3>1, <4>1
      <4> QED BY <2>1, <4>1, <4>2 DEF Pools
    <3> QED BY <1>2, <1>3, <1>4, <1>5, <2>0, <2>4, <3>1, <3>2, <3>3, <3>4
  <2>5. CASE j + 1 = n
    <3>1. i' = L + 1 /\ j' = 0 /\ pc' = IF L + 1 < count THEN "setup" ELSE "created"
      <4>1. ~(j + 1 < instancePerPool)
        BY <1>0, <1>2, <2>5
      <4>2. i' = i + 1 + 1 /\ j' = 0 /\ pc' = IF i' < count THEN "setup" ELSE "created"
        BY <1>4, <1>7, <4>1 DEF Register, IndexAfter, MoreRings
      <4>3. i' = L + 1
        BY <1>2, <2>0, <4>2
      <4> QED BY <4>2, <4>3
    <3>2. L + 1 = n * q /\ L + 1 <= count
      BY <1>2, <2>0, <2>2, <2>3, <2>5
    <3>3. Index'
      BY <1>2, <1>3, <1>4, <2>1, <3>1, <3>2 DEF Index, Making, InNew
    <3>4. Pools'
      BY <1>4, <2>1, <2>5, <3>1 DEF Pools
    <3> QED BY <1>2, <1>3, <1>4, <1>5, <3>1, <3>2, <3>3, <3>4
  <2> QED BY <1>2, <1>3, <2>4, <2>5
<1> QED BY <1>6, <1>7

-----------------------------------------------------------------------------
(* Making and closing rings keep SetupInv, an action at a time. *)

(* freeRing unmaps what is mapped of the ring, each mapping once.          *)
LEMMA TwoBuffers ==
  ASSUME NEW x, NEW y
  PROVE  LET s == <<x>> \o <<y>> IN Len(s) = 2 /\ DOMAIN s = 1 .. 2 /\ s[1] = x /\ s[2] = y
<1>1. <<x>> \in Seq({x, y}) /\ <<y>> \in Seq({x, y}) /\ Len(<<x>>) = 1 /\ Len(<<y>>) = 1
  OBVIOUS
<1>2. <<x>>[1] = x /\ <<y>>[1] = y
  OBVIOUS
<1> QED BY <1>1, <1>2

LEMMA OneBuffer ==
  ASSUME NEW x
  PROVE  LET s == <<x>> \o << >> IN Len(s) = 1 /\ DOMAIN s = 1 .. 1 /\ s[1] = x
<1>1. <<x>> \in Seq({x}) /\ << >> \in Seq({x}) /\ Len(<<x>>) = 1 /\ Len(<< >>) = 0
  OBVIOUS
<1> QED BY <1>1

LEMMA Freed ==
  ASSUME NEW fd, NEW cqSet \in BOOLEAN, FreeRing(fd, cqSet), single \in BOOLEAN,
         NEW parts, parts = IF cqSet /\ ~single THEN {"sq", "cq"} ELSE {"sq"},
         <<fd, "sq">> \in mapped, cqSet /\ ~single => <<fd, "cq">> \in mapped, UnmapsOnce
  PROVE  /\ mapped' = mapped \ {<<fd, part>> : part \in parts}
         /\ UnmapsOnce'
<1>0. PICK bs, set : bs = Buffers(fd, cqSet) /\ set = {bs[n] : n \in DOMAIN bs}
  OBVIOUS
<1>1. /\ mapped' = mapped \ set
      /\ unmapFailed' = (unmapFailed \/ ~(set \subseteq mapped) \/ Cardinality(set) < Len(bs))
  BY <1>0 DEF FreeRing
<1>2. CASE cqSet /\ ~single
  <2>1. PICK x, y : x = <<fd, "sq">> /\ y = <<fd, "cq">>
    OBVIOUS
  <2>2. bs = <<x>> \o <<y>>
    BY <1>0, <1>2, <2>1 DEF Buffers, SecondBuffer
  <2>3. Len(bs) = 2 /\ DOMAIN bs = 1 .. 2 /\ bs[1] = x /\ bs[2] = y
    BY <2>2, TwoBuffers
  <2>4. set = {x} \cup {y}
    BY <1>0, <2>3
  <2>5. x # y
    BY <2>1
  <2>6. IsFiniteSet({x}) /\ Cardinality({x}) = 1 /\ y \notin {x}
    BY <2>5, FS_Singleton
  <2>7. Cardinality(set) = 2
    BY <2>4, <2>6, FS_AddElement
  <2>8. set = {<<fd, part>> : part \in parts} /\ set \subseteq mapped
    BY <1>2, <2>1, <2>4
  <2>9. ~(Cardinality(set) < Len(bs))
    BY <2>3, <2>7
  <2>10. UnmapsOnce'
    BY <1>1, <2>8, <2>9, Zenon DEF UnmapsOnce
  <2> QED BY <1>1, <2>8, <2>10
<1>3. CASE ~(cqSet /\ ~single)
  <2>1. PICK x : x = <<fd, "sq">>
    OBVIOUS
  <2>2. bs = <<x>> \o << >>
    BY <1>0, <1>3, <2>1 DEF Buffers, SecondBuffer
  <2>3. Len(bs) = 1 /\ DOMAIN bs = 1 .. 1 /\ bs[1] = x
    BY <2>2, OneBuffer
  <2>4. set = {x}
    BY <1>0, <2>3
  <2>5. Cardinality(set) = 1
    BY <2>4, FS_Singleton
  <2>6. set \subseteq mapped
    BY <2>1, <2>4
  <2>9. ~(Cardinality(set) < Len(bs))
    BY <2>3, <2>5
  <2>10. UnmapsOnce'
    BY <1>1, <2>6, <2>9, Zenon DEF UnmapsOnce
  <2>11. {<<fd, part>> : part \in parts} = set
    BY <1>3, <2>1, <2>4
  <2> QED BY <1>1, <2>10, <2>11
<1> QED BY <1>2, <1>3

LEMMA InitSetup == Init => SetupInv
<1> SUFFICES ASSUME Init PROVE SetupInv
  OBVIOUS
<1>1. MaxCount \in Nat
  BY SetupAssumption
<1>2. TypeOK
  <2>1. pool = << >> /\ DOMAIN pool = {} /\ rings \in Seq(FDs) /\ Len(rings) = 0
    BY DEF Init
  <2>2. count \in 1 .. MaxCount /\ Len(rings) <= count
    BY <1>1, <2>1 DEF Init
  <2>3. 0 \in 0 .. MaxCount
    BY <1>1
  <2>4. DOMAIN pool \subseteq FDs /\ \A fd \in DOMAIN pool : pool[fd] \in FDs
    BY <2>1
  <2>5. mapped \subseteq FDs \X {"sq", "cq", "sqes"} /\ unmapFailed \in BOOLEAN
    BY DEF Init
  <2> QED BY <2>1, <2>2, <2>3, <2>4, <2>5, Zenon DEF Init, TypeOK, PCs
<1>3. Fresh /\ ArgsChecked /\ Index /\ Pools
  BY DEF Init, Fresh, ArgsChecked, Index, Pools, Making, InNew
<1>4. Recorded
  <2>1. DOMAIN pool = {} /\ rings = << >> /\ Len(rings) = 0 /\ pc = "start"
    BY DEF Init
  <2>2. Cardinality(DOMAIN pool) = 0
    BY <2>1, FS_EmptySet
  <2> QED BY <2>1, <2>2 DEF Recorded, Making, InNew
<1>5. Descriptors
  BY DEF Init, Descriptors, Making, InNew
<1>6. Mappings
  BY DEF Init, Mappings, NewParts
<1>7. UnmapsOnce
  BY DEF Init, UnmapsOnce
<1> QED BY <1>2, <1>3, <1>4, <1>5, <1>6, <1>7 DEF SetupInv

LEMMA StartStep == ASSUME SetupInv, Start PROVE SetupInv'
<1>0. pc = "start" /\ UNCHANGED <<count, wpCount, single, i, j, new, main, rings, pool, defers, open, mapped, abandoned, unmapFailed>>
  BY DEF Start, args, created, held
<1>1. /\ pc' \in {"failed", "panicked", "setup"}
      /\ pc' = "setup" => wpCount \in 1 .. count /\ count % wpCount = 0
  <2>1. count \in Nat /\ wpCount \in Nat
    BY SetupAssumption DEF SetupInv, TypeOK
  <2> QED BY <2>1 DEF Start
<1>2. /\ i = 0 /\ j = 0 /\ rings = << >> /\ pool = << >> /\ abandoned = {} /\ defers = {} /\ open = {}
  BY <1>0 DEF SetupInv, Fresh, Descriptors, Making, InNew
<1>3. TypeOK'
  BY <1>0, <1>1 DEF SetupInv, TypeOK, PCs
<1>4. Fresh' /\ ArgsChecked'
  BY <1>0, <1>1 DEF Fresh, ArgsChecked, Making, InNew
<1>5. Mains' = {} /\ Cardinality(Mains') = 0 /\ Len(rings') = 0 /\ DOMAIN pool' = {}
  <2>1. DOMAIN pool' = {} /\ Len(rings') = 0
    BY <1>0, <1>2
  <2>2. Mains' = {}
    BY <2>1 DEF Mains
  <2> QED BY <2>1, <2>2, FS_EmptySet
<1>6. Index'
  <2>1. pc' # "created" /\ (pc' \in Making => pc' = "setup")
    BY <1>1 DEF Making, InNew
  <2>2. ASSUME pc' = "setup" PROVE instancePerPool' \in Nat \ {0} /\ count' \in Nat /\ 0 < count'
    <3>1. count \in Nat \ {0} /\ wpCount \in 1 .. count /\ count % wpCount = 0
      BY <1>1, <2>2, SetupAssumption DEF SetupInv, TypeOK
    <3> QED BY <1>0, <3>1, PerPool DEF instancePerPool
  <2>3. i' = 0 /\ j' = 0
    BY <1>0, <1>2
  <2>4. ASSUME pc' = "setup" PROVE instancePerPool' * 0 = 0
    BY <2>2, <2>4
  <2> QED BY <1>5, <2>1, <2>2, <2>3, <2>4 DEF Index
<1>7. Pools'
  BY <1>0, <1>2, <1>5 DEF Pools
<1>8. Recorded'
  BY <1>0, <1>1, <1>2, <1>5 DEF SetupInv, Recorded, Making, InNew
<1>9. Descriptors'
  BY <1>0, <1>1, <1>2 DEF Descriptors, Making, InNew
<1>10. Mappings' /\ UnmapsOnce'
  <2>1. NewParts = {} /\ NewParts' = {} /\ RingParts' = RingParts /\ pc' # "mapCQ"
    BY <1>0, <1>1 DEF NewParts, RingParts
  <2> QED BY <1>0, <2>1 DEF SetupInv, Mappings, UnmapsOnce
<1> QED BY <1>3, <1>4, <1>6, <1>7, <1>8, <1>9, <1>10 DEF SetupInv

LEMMA SysSetupStep == ASSUME SetupInv, SysSetup PROVE SetupInv'
<1>0. /\ pc = "setup" /\ pc' = "mapSQ" /\ open' = open \cup {new'}
      /\ UNCHANGED <<count, wpCount, single, i, j, main, rings, pool, defers, mapped, abandoned, unmapFailed>>
  BY DEF SysSetup, args, created
<1>1. new' \in FDs /\ new' \notin open
  BY <1>0, FreshDescriptor DEF SysSetup
<1>2. TypeOK' /\ Fresh'
  BY <1>0, <1>1 DEF SetupInv, TypeOK, PCs, Fresh
<1>3. (ArgsChecked /\ Index /\ Pools)'
  BY <1>0, MadeKept DEF Making, InNew
<1>4. Recorded'
  BY <1>0 DEF SetupInv, Recorded, Making, InNew
<1>5. open = defers /\ abandoned = {}
  BY <1>0 DEF SetupInv, Recorded, Descriptors, Making, InNew
<1>6. Descriptors'
  BY <1>0, <1>1, <1>5 DEF SetupInv, Descriptors, Making, InNew
<1>7. Mappings' /\ UnmapsOnce'
  <2>1. NewParts = {} /\ NewParts' = {} /\ RingParts' = RingParts /\ pc' # "mapCQ"
    BY <1>0 DEF NewParts, RingParts
  <2> QED BY <1>0, <2>1 DEF SetupInv, Mappings, UnmapsOnce
<1> QED BY <1>2, <1>3, <1>4, <1>6, <1>7 DEF SetupInv

LEMMA SysSetupFailsStep == ASSUME SetupInv, SysSetupFails PROVE SetupInv'
<1>0. /\ pc = "setup" /\ pc' = "failing" /\ new' = NoFd
      /\ UNCHANGED <<count, wpCount, single, i, j, main, rings, pool, defers, open, mapped, abandoned, unmapFailed>>
  BY DEF SysSetupFails, args, created, held
<1>1. TypeOK' /\ Fresh'
  BY <1>0 DEF SetupInv, TypeOK, PCs, Fresh
<1>2. (ArgsChecked /\ Index /\ Pools)'
  BY <1>0, MadeKept DEF Making, InNew
<1>3. Recorded' /\ Descriptors'
  BY <1>0 DEF SetupInv, Recorded, Descriptors, Making, InNew
<1>4. Mappings' /\ UnmapsOnce'
  <2>1. NewParts = {} /\ NewParts' = {} /\ RingParts' = RingParts /\ pc' # "mapCQ"
    BY <1>0 DEF NewParts, RingParts
  <2> QED BY <1>0, <2>1 DEF SetupInv, Mappings, UnmapsOnce
<1> QED BY <1>1, <1>2, <1>3, <1>4 DEF SetupInv

LEMMA MapStep == ASSUME SetupInv, MapSQ \/ MapCQ \/ MapSQEs PROVE SetupInv'
<1>0. PICK part \in {"sq", "cq", "sqes"} :
      /\ mapped' = mapped \cup {<<new, part>>}
      /\ pc \in {"mapSQ", "mapCQ", "mapSQEs"} /\ pc' \in {"mapCQ", "mapSQEs", "register"}
      /\ pc = "mapSQ" => part = "sq" /\ pc' = IF single THEN "mapSQEs" ELSE "mapCQ"
      /\ pc = "mapCQ" => part = "cq" /\ pc' = "mapSQEs"
      /\ pc = "mapSQEs" => part = "sqes" /\ pc' = "register"
      /\ UNCHANGED <<count, wpCount, single, i, j, new, main, rings, pool, defers, open, abandoned, unmapFailed>>
  BY DEF MapSQ, MapCQ, MapSQEs, MapPart, args, created
<1>1. new \in FDs /\ new \notin defers
  BY <1>0 DEF SetupInv, Descriptors, InNew
<1>2. TypeOK' /\ Fresh'
  BY <1>0, <1>1 DEF SetupInv, TypeOK, PCs, Fresh
<1>3. (ArgsChecked /\ Index /\ Pools)'
  BY <1>0, MadeKept DEF Making, InNew
<1>4. Recorded' /\ Descriptors'
  BY <1>0 DEF SetupInv, Recorded, Descriptors, Making, InNew
<1>5. Mappings'
  <2>1. RingParts' = RingParts /\ RingParts = IF single THEN {"sq"} ELSE {"sq", "cq"}
    BY <1>0 DEF RingParts
  <2>2. pc = "mapCQ" => ~single
    BY DEF SetupInv, Mappings
  <2>3. \A p \in {"sq", "cq"} : p \in NewParts' <=> p \in NewParts \/ p = part
    BY <1>0, <2>1, <2>2 DEF NewParts
  <2>4. ASSUME NEW fd \in FDs, NEW p \in {"sq", "cq"}
        PROVE  <<fd, p>> \in mapped' <=> <<fd, p>> \in mapped \/ (fd = new /\ p = part)
    BY <1>0
  <2> QED BY <1>0, <2>1, <2>3, <2>4 DEF SetupInv, Mappings
<1>6. UnmapsOnce'
  BY <1>0 DEF SetupInv, UnmapsOnce
<1> QED BY <1>2, <1>3, <1>4, <1>5, <1>6 DEF SetupInv

LEMMA MapFailsStep == ASSUME SetupInv, MapSQFails \/ MapLaterFails PROVE SetupInv'
<1>0. /\ pc \in {"mapSQ", "mapCQ", "mapSQEs"} /\ pc' = "failing" /\ abandoned' = abandoned \cup {new}
      /\ UNCHANGED <<count, wpCount, single, i, j, new, main, rings, pool, defers, open>>
  BY DEF MapSQFails, MapLaterFails, args, created
<1>1. new \in FDs /\ new \notin defers /\ abandoned = {} /\ open = defers \cup {new}
  BY <1>0 DEF SetupInv, Recorded, Descriptors, Making, InNew
<1>2. RingParts' = RingParts /\ RingParts = (IF single THEN {"sq"} ELSE {"sq", "cq"}) /\ single \in BOOLEAN
  BY <1>0 DEF RingParts, SetupInv, TypeOK
<1>3. /\ \A fd \in FDs : \A p \in {"sq", "cq"} :
            <<fd, p>> \in mapped' <=> <<fd, p>> \in mapped /\ ~(fd = new /\ p \in NewParts)
      /\ mapped' \subseteq mapped /\ UnmapsOnce'
  <2>1. CASE MapSQFails
    <3>1. NewParts = {} /\ UNCHANGED <<mapped, unmapFailed>>
      BY <2>1 DEF MapSQFails, NewParts
    <3> QED BY <3>1 DEF SetupInv, UnmapsOnce
  <2>2. CASE MapLaterFails
    <3>1. PICK cqSet : cqSet = (pc = "mapSQEs")
      OBVIOUS
    <3>2. cqSet \in BOOLEAN /\ FreeRing(new, cqSet)
      BY <2>2, <3>1, Zenon DEF MapLaterFails
    <3>3. pc \in {"mapCQ", "mapSQEs"} /\ (pc = "mapCQ" => ~single)
      BY <2>2 DEF MapLaterFails, SetupInv, Mappings
    <3>4. NewParts = IF cqSet /\ ~single THEN {"sq", "cq"} ELSE {"sq"}
      BY <1>2, <3>1, <3>3 DEF NewParts
    <3>5. \A p \in {"sq", "cq"} : p \in NewParts => <<new, p>> \in mapped
      BY <1>1 DEF SetupInv, Mappings
    <3>6. <<new, "sq">> \in mapped /\ (cqSet /\ ~single => <<new, "cq">> \in mapped)
      BY <3>4, <3>5
    <3>7. mapped' = mapped \ {<<new, p>> : p \in NewParts} /\ UnmapsOnce'
      BY <1>2, <3>2, <3>4, <3>6, Freed DEF SetupInv
    <3> QED BY <3>7
  <2> QED BY <2>1, <2>2
<1>4. TypeOK' /\ Fresh'
  <2>1. unmapFailed' \in BOOLEAN
    BY Zenon DEF SetupInv, TypeOK, MapSQFails, MapLaterFails, FreeRing
  <2> QED BY <1>0, <1>1, <1>3, <2>1 DEF SetupInv, TypeOK, PCs, Fresh
<1>5. (ArgsChecked /\ Index /\ Pools)'
  BY <1>0, MadeKept DEF Making, InNew
<1>6. Recorded'
  BY <1>0 DEF SetupInv, Recorded, Making, InNew
<1>7. Descriptors'
  BY <1>0, <1>1 DEF Descriptors, Making, InNew
<1>8. Mappings'
  <2>1. NewParts' = {} /\ pc' # "mapCQ"
    BY <1>0 DEF NewParts
  <2> QED BY <1>0, <1>1, <1>2, <1>3, <2>1 DEF SetupInv, Mappings
<1> QED BY <1>3, <1>4, <1>5, <1>6, <1>7, <1>8 DEF SetupInv

LEMMA RegisterKeeps == ASSUME SetupInv, Register PROVE SetupInv'
<1>0. /\ pc = "register" /\ pc' \in {"setup", "created"}
      /\ defers' = defers \cup {new}
      /\ UNCHANGED <<count, wpCount, single, new, open, mapped, abandoned, unmapFailed>>
  BY DEF Register, args, held, Defers
<1>1. /\ DOMAIN pool' = DOMAIN pool \cup {new}
      /\ \A fd \in DOMAIN pool : pool'[fd] = pool[fd]
      /\ pool'[new] = main' /\ main' = AttachedWQ
      /\ rings' = Append(rings, new) /\ Len(rings') = Len(rings) + 1
      /\ Cardinality(DOMAIN pool') = Len(rings')
      /\ new \in FDs
  BY RegisterPools
<1>2. (ArgsChecked /\ Index /\ Pools)' /\ i' \in 0 .. count /\ j' \in 0 .. count /\ Len(rings') <= count
  BY RegisterStep
<1>3. defers = DOMAIN pool /\ abandoned = {} /\ open = defers \cup {new}
  BY <1>0 DEF SetupInv, Recorded, Descriptors, Making, InNew
<1>4. main' \in FDs
  <2>1. j > 0 => main \in Mains
    BY <1>0 DEF SetupInv, Pools, Making, InNew
  <2>2. Mains \subseteq FDs
    BY DEF SetupInv, TypeOK, Mains
  <2> QED BY <1>1, <2>1, <2>2 DEF AttachedWQ, SetupInv, TypeOK
<1>5. TypeOK' /\ Fresh'
  <2>1. rings' \in Seq(FDs)
    BY <1>1 DEF SetupInv, TypeOK
  <2>2. i' \in 0 .. MaxCount /\ j' \in 0 .. MaxCount
    BY <1>2, SetupAssumption DEF SetupInv, TypeOK
  <2>3. DOMAIN pool' \subseteq FDs /\ \A fd \in DOMAIN pool' : pool'[fd] \in FDs
    BY <1>1, <1>4 DEF SetupInv, TypeOK
  <2> QED BY <1>0, <1>1, <1>2, <1>4, <2>1, <2>2, <2>3 DEF SetupInv, TypeOK, PCs, Fresh
<1>6. Recorded'
  <2>1. ASSUME NEW n \in 1 .. Len(rings') PROVE rings'[n] \in DOMAIN pool'
    <3>1. rings \in Seq(FDs) /\ n \in 1 .. Len(rings) + 1
      BY <1>1 DEF SetupInv, TypeOK
    <3>2. CASE n = Len(rings) + 1
      BY <1>1, <3>1, <3>2
    <3>3. CASE n \in 1 .. Len(rings)
      <4>1. rings'[n] = rings[n]
        BY <1>1, <3>1, <3>3
      <4> QED BY <1>1, <3>3, <4>1 DEF SetupInv, Recorded
    <3> QED BY <3>1, <3>2, <3>3
  <2> QED BY <1>0, <1>1, <1>3, <2>1 DEF Recorded
<1>7. Descriptors'
  BY <1>0, <1>3 DEF Descriptors, Making, InNew
<1>8. Mappings' /\ UnmapsOnce'
  <2>1. NewParts = RingParts /\ NewParts' = {} /\ RingParts' = RingParts /\ pc' # "mapCQ"
    BY <1>0 DEF NewParts, RingParts
  <2> QED BY <1>0, <2>1 DEF SetupInv, Mappings, UnmapsOnce
<1> QED BY <1>2, <1>5, <1>6, <1>7, <1>8 DEF SetupInv

LEMMA CloseStep == ASSUME SetupInv, NEW fd \in FDs, Close(fd) PROVE SetupInv'
<1>0. /\ pc \in {"failing", "closing"} /\ fd \in defers /\ FreeRing(fd, TRUE)
      /\ open' = open \ {fd} /\ defers' = defers \ {fd}
      /\ UNCHANGED <<count, wpCount, single, pc, i, j, new, main, rings, pool, abandoned>>
  BY DEF Close, args
<1>1. RingParts' = RingParts /\ RingParts = (IF single THEN {"sq"} ELSE {"sq", "cq"}) /\ single \in BOOLEAN
  BY <1>0 DEF RingParts, SetupInv, TypeOK
<1>2. mapped' = mapped \ {<<fd, p>> : p \in RingParts} /\ UnmapsOnce'
  <2>1. \A p \in {"sq", "cq"} : p \in RingParts => <<fd, p>> \in mapped
    BY <1>0 DEF SetupInv, Mappings
  <2>2. <<fd, "sq">> \in mapped /\ (~single => <<fd, "cq">> \in mapped)
    BY <1>1, <2>1
  <2>3. RingParts = IF TRUE /\ ~single THEN {"sq", "cq"} ELSE {"sq"}
    BY <1>1
  <2> QED BY <1>0, <1>1, <2>2, <2>3, Freed DEF SetupInv
<1>3. TypeOK' /\ Fresh'
  <2>1. unmapFailed' \in BOOLEAN
    BY <1>0, Zenon DEF FreeRing
  <2> QED BY <1>0, <1>2, <2>1 DEF SetupInv, TypeOK, Fresh
<1>4. (ArgsChecked /\ Index /\ Pools)'
  BY <1>0, MadeKept
<1>5. Recorded'
  BY <1>0 DEF SetupInv, Recorded, Making, InNew
<1>6. Descriptors'
  BY <1>0 DEF SetupInv, Descriptors, Making, InNew
<1>7. Mappings'
  <2>1. NewParts' = {} /\ NewParts = {} /\ pc' # "mapCQ"
    BY <1>0 DEF NewParts
  <2>2. ASSUME NEW f \in FDs, NEW p \in {"sq", "cq"}
        PROVE  <<f, p>> \in mapped' <=> <<f, p>> \in mapped /\ ~(f = fd /\ p \in RingParts)
    BY <1>2
  <2> QED BY <1>0, <1>1, <2>1, <2>2 DEF SetupInv, Mappings
<1> QED BY <1>2, <1>3, <1>4, <1>5, <1>6, <1>7 DEF SetupInv

LEMMA CallStep == ASSUME SetupInv, CloseDone \/ CallDefer PROVE SetupInv'
<1>0. /\ pc \in {"created", "failing", "closing"} /\ pc' \in {"closing", "failed", "closed"}
      /\ pc' # "closing" => defers = {}
      /\ UNCHANGED <<count, wpCount, single, i, j, new, main, rings, pool, defers, open, mapped, abandoned, unmapFailed>>
  BY DEF CloseDone, CallDefer, args, created, held
<1>1. TypeOK' /\ Fresh'
  BY <1>0 DEF SetupInv, TypeOK, PCs, Fresh
<1>2. (ArgsChecked /\ Index /\ Pools)'
  BY <1>0, MadeKept DEF Making, InNew
<1>3. Recorded' /\ Descriptors'
  BY <1>0 DEF SetupInv, Recorded, Descriptors, Making, InNew
<1>4. Mappings' /\ UnmapsOnce'
  <2>1. NewParts = {} /\ NewParts' = {} /\ RingParts' = RingParts /\ pc' # "mapCQ"
    BY <1>0 DEF NewParts, RingParts
  <2> QED BY <1>0, <2>1 DEF SetupInv, Mappings, UnmapsOnce
<1> QED BY <1>1, <1>2, <1>3, <1>4 DEF SetupInv

LEMMA SetupStep == ASSUME SetupInv, [Next]_vars PROVE SetupInv'
<1>1. CASE Next
  BY <1>1, StartStep, SysSetupStep, SysSetupFailsStep, MapStep, MapFailsStep, RegisterKeeps,
     CloseStep, CallStep DEF Next, CreateStep
<1>2. CASE UNCHANGED vars
  <2>1. UNCHANGED <<count, wpCount, single, pc, i, j, new, main, rings, pool, defers, open, mapped, abandoned, unmapFailed>>
    BY <1>2 DEF vars, args, created, held
  <2>2. (ArgsChecked /\ Index /\ Pools)'
    BY <2>1, MadeKept
  <2>3. TypeOK' /\ Fresh' /\ Recorded' /\ Descriptors'
    BY <2>1 DEF SetupInv, TypeOK, Fresh, Recorded, Descriptors
  <2>4. Mappings' /\ UnmapsOnce'
    <3>1. NewParts' = NewParts /\ RingParts' = RingParts
      BY <2>1 DEF NewParts, RingParts
    <3> QED BY <2>1, <3>1 DEF SetupInv, Mappings, UnmapsOnce
  <2> QED BY <2>2, <2>3, <2>4 DEF SetupInv
<1> QED BY <1>1, <1>2

-----------------------------------------------------------------------------
(* What CreateMany and its cleanup promise *)

LEMMA SetupAlways == Spec => []SetupInv
<1>1. Init => SetupInv
  BY InitSetup
<1>2. SetupInv /\ [Next]_vars => SetupInv'
  BY SetupStep
<1> QED BY <1>1, <1>2, PTL DEF Spec

LEMMA SharedWhenCreated == ASSUME SetupInv PROVE PoolsShared
<1> SUFFICES ASSUME pc = "created" PROVE PoolsShared!2
  BY DEF PoolsShared
<1>1. /\ Len(rings) = count /\ j = 0
      /\ count = instancePerPool * Cardinality(Mains) /\ count = instancePerPool * wpCount
      /\ instancePerPool \in Nat \ {0} /\ Cardinality(Mains) \in Nat /\ wpCount \in Nat
  BY Counts DEF SetupInv, Index
<1>2. Cardinality(Mains) = wpCount
  BY <1>1, SameFactor
<1>3. open = DOMAIN pool
  BY DEF SetupInv, Recorded, Descriptors, Making, InNew
<1>4. ASSUME NEW m \in Mains
      PROVE  m \in open /\ pool[m] = m /\ Cardinality(Sharing(m)) = instancePerPool
  BY <1>1, <1>3 DEF SetupInv, Pools
<1> QED BY <1>1, <1>2, <1>4

(* For every pair of counts: when CreateMany succeeds, its nested loops    *)
(* have made count rings on wpCount worker pools, equally shared.          *)
THEOREM PoolsAlwaysShared == Spec => []PoolsShared
<1>1. SetupInv => PoolsShared
  BY SharedWhenCreated
<1> QED BY <1>1, SetupAlways, PTL

(* Whichever step of whichever ring fails, and in whatever order the rings *)
(* are closed: only the descriptor that New abandoned and the SQE arrays   *)
(* are left.                                                               *)
THEOREM CloseAlwaysReleases == Spec => []CloseReleases
<1>1. SetupInv => CloseReleases
  <2> SUFFICES ASSUME SetupInv, pc \in {"failed", "closed"}
               PROVE  open = abandoned /\ mapped \subseteq FDs \X {"sqes"}
    BY DEF CloseReleases
  <2>1. defers = {} /\ open = abandoned
    BY DEF SetupInv, Descriptors, Making, InNew
  <2>2. NewParts = {}
    BY DEF NewParts
  <2>3. ASSUME NEW fd \in FDs, NEW part \in {"sq", "cq"} PROVE <<fd, part>> \notin mapped
    BY <2>1, <2>2 DEF SetupInv, Mappings
  <2>4. mapped \subseteq FDs \X {"sq", "cq", "sqes"}
    BY DEF SetupInv, TypeOK
  <2>5. ASSUME NEW x \in mapped PROVE x \in FDs \X {"sqes"}
    <3>1. PICK fd \in FDs, part \in {"sq", "cq", "sqes"} : x = <<fd, part>>
      BY <2>4
    <3> QED BY <2>3, <3>1
  <2> QED BY <2>1, <2>5
<1> QED BY <1>1, SetupAlways, PTL

(* freeRing is called only for mappings that are in place, each once, from *)
(* every error return and for every ring that is closed.                   *)
THEOREM NeverUnmapsTwice == Spec => []UnmapsOnce
<1>1. SetupInv => UnmapsOnce
  BY DEF SetupInv
<1> QED BY <1>1, SetupAlways, PTL

-----------------------------------------------------------------------------
(* The reactor on top of the rings *)

(* A step of the reactor is none of CreateMany's, and leaves the rings.    *)
LEMMA LifeUsesSetup == ASSUME LifeNext PROVE [Next]_vars
  BY DEF LifeNext, Next, NewReactor, ProgramRuns, NewListener, NewListenerFails, StartRun, StartLoop,
     ProgramCancels, CloseSocket, StopReactor, ContextDone, StopConsumer, StopPublisher, CallbackPanics

(* A program that makes a reactor of its rings, runs it and closes them    *)
(* makes and closes them as Setup says: what is proved of Setup holds      *)
(* there.                                                                  *)
THEOREM LifecycleImplementsSetup == LifeSpec => Spec
<1>1. LifeInit => Init
  BY DEF LifeInit
<1>2. [LifeNext]_lifeVars => [Next]_vars
  BY LifeUsesSetup DEF lifeVars
<1> QED BY <1>1, <1>2, PTL DEF LifeSpec, Spec

LEMMA InitLife == LifeInit => LifeInv
<1> SUFFICES ASSUME LifeInit PROVE LifeInv
  OBVIOUS
<1>1. SetupInv
  BY InitSetup DEF LifeInit
<1>2. LifeTypeOK
  <2>1. 0 \in 0 .. MaxCount
    BY SetupAssumption
  <2> QED BY <1>1, <2>1 DEF LifeInit, LifeTypeOK, SetupInv
<1>3. Progress
  <2>1. run = "none" /\ DOMAIN consumer = {}
    BY DEF LifeInit
  <2> QED BY <2>1 DEF Progress
<1>4. Owned
  BY DEF LifeInit, Owned
<1> QED BY <1>1, <1>2, <1>3, <1>4 DEF LifeInv

(* Making the rings goes on only before there is a reactor; closing them   *)
(* does not change which they are.                                         *)
LEMMA RingsStep ==
  ASSUME LifeInv, CreateStep \/ (MayCloseRings /\ CallDefer), UNCHANGED reactor
  PROVE  LifeInv'
<1>0. UNCHANGED <<features, net, run, owner, cancelled, socket, k, consumer, publisher>>
  BY DEF reactor
<1>1. SetupInv'
  BY SetupStep DEF LifeInv, Next
<1>2. run # "none" => UNCHANGED rings /\ pc' \in {"created", "closing", "closed"}
  <2>1. SUFFICES ASSUME pc \in {"created", "closing", "closed"}
                 PROVE  UNCHANGED rings /\ pc' \in {"created", "closing", "closed"}
    BY DEF LifeInv, Owned
  <2> QED BY <2>1 DEF CreateStep, Start, SysSetup, SysSetupFails, MapSQ, MapCQ, MapSQEs, MapPart,
        MapSQFails, MapLaterFails, Register, Close, CloseDone, CallDefer, created
<1>3. run # "none" => Loops' = Loops
  BY <1>2 DEF Loops
<1>4. LifeTypeOK'
  BY <1>0, <1>1, <1>3 DEF LifeInv, LifeTypeOK, SetupInv
<1>5. Progress'
  <2>1. \A l, c, p : Are(l, c, p)' <=> Are(l, c, p)
    BY <1>0 DEF Are
  <2>2. CASE run = "none"
    <3>1. DOMAIN consumer' = {} /\ run' = "none"
      BY <1>0, <2>2 DEF LifeInv, LifeTypeOK
    <3> QED BY <3>1 DEF Progress
  <2>3. CASE run # "none"
    BY <1>0, <1>3, <2>1, <2>3 DEF LifeInv, Progress
  <2> QED BY <2>2, <2>3
<1>6. Owned'
  <2>1. owner = "program" /\ run # "returned" => pc' = "created"
    <3>1. SUFFICES ASSUME owner = "program", run # "returned", pc = "created", ~MayCloseRings
                   PROVE  pc' = "created"
      <4>1. owner = "program" => run \notin {"none", "refused", "made"}
        BY DEF LifeInv, Owned
      <4> QED BY <4>1 DEF LifeInv, Owned, MayCloseRings
    <3> QED BY <3>1 DEF CreateStep, Start, SysSetup, SysSetupFails, MapSQ, MapCQ, MapSQEs, MapPart,
          MapSQFails, MapLaterFails, Register, Close, CloseDone
  <2> QED BY <1>0, <1>2, <2>1 DEF LifeInv, Owned
<1> QED BY <1>1, <1>4, <1>5, <1>6 DEF LifeInv

(* What the reactor's own steps may assume of the rings, and keep.         *)
LEMMA RingsKept ==
  ASSUME LifeInv, UNCHANGED vars
  PROVE  /\ SetupInv' /\ Loops' = Loops
         /\ UNCHANGED <<pc, rings, open, mapped>>
         /\ Len(rings) \in Nat /\ Len(rings) <= MaxCount /\ MaxCount \in Nat
         /\ pc = "created" => 1 \in Loops
<1>1. SetupInv'
  BY SetupStep DEF LifeInv
<1>2. UNCHANGED <<pc, rings, open, mapped>>
  BY DEF vars, created, held
<1>3. rings \in Seq(FDs) /\ Len(rings) <= count /\ count \in 1 .. MaxCount /\ MaxCount \in Nat
  BY SetupAssumption DEF LifeInv, SetupInv, TypeOK
<1>4. pc = "created" => Len(rings) = count
  BY DEF LifeInv, SetupInv, Index
<1>5. Len(rings) \in Nat /\ Len(rings) <= MaxCount
  BY <1>3
<1>6. pc = "created" => 1 \in Loops
  BY <1>3, <1>4 DEF Loops
<1> QED BY <1>1, <1>2, <1>3, <1>5, <1>6 DEF Loops

LEMMA NewReactorStep == ASSUME LifeInv, NewReactor PROVE LifeInv'
<1>0. /\ pc = "created" /\ run = "none" /\ run' \in {"made", "refused"}
      /\ consumer' = [l \in Loops |-> "off"] /\ publisher' = consumer'
      /\ UNCHANGED <<vars, features, net, owner, cancelled, socket, k>>
  BY DEF NewReactor
<1>1. SetupInv' /\ Loops' = Loops /\ pc' = pc /\ 1 \in Loops
  BY <1>0, RingsKept
<1>2. LifeTypeOK'
  BY <1>0, <1>1 DEF LifeInv, LifeTypeOK, SetupInv
<1>3. Progress'
  BY <1>0, <1>1 DEF Progress, Are
<1>4. Owned'
  BY <1>0, <1>1 DEF LifeInv, Owned
<1> QED BY <1>1, <1>2, <1>3, <1>4 DEF LifeInv

LEMMA StartRunStep == ASSUME LifeInv, ProgramRuns \/ NewListener PROVE LifeInv'
<1>0. /\ pc = "created" /\ run = "made" /\ run' = "starting" /\ k' = 1
      /\ owner' \in {"program", "listener"} /\ socket' \in {socket, "open"}
      /\ UNCHANGED <<vars, features, net, cancelled, consumer, publisher>>
  BY DEF ProgramRuns, NewListener, StartRun
<1>1. SetupInv' /\ Loops' = Loops /\ pc' = pc /\ 1 \in Loops /\ MaxCount \in Nat /\ 1 <= MaxCount
  BY <1>0, RingsKept, SetupAssumption
<1>2. LifeTypeOK'
  BY <1>0, <1>1 DEF LifeInv, LifeTypeOK, SetupInv
<1>3. Progress'
  <2>1. DOMAIN consumer = Loops
    BY <1>0 DEF LifeInv, LifeTypeOK
  <2>2. ASSUME NEW l \in Loops PROVE Are(l, "off", "off")' /\ ~(l < 1)
    BY <1>0, <2>1 DEF LifeInv, Progress, Are, Loops
  <2> QED BY <1>0, <1>1, <2>1, <2>2 DEF Progress
<1>4. Owned'
  BY <1>0, <1>1 DEF Owned
<1> QED BY <1>1, <1>2, <1>3, <1>4 DEF LifeInv

LEMMA ListenerFailsStep == ASSUME LifeInv, NewListenerFails PROVE LifeInv'
<1>0. /\ pc = "created" /\ run = "made" /\ run' = "refused" /\ socket' \in {"none", "leaked"}
      /\ UNCHANGED <<vars, features, net, owner, cancelled, k, consumer, publisher>>
  BY DEF NewListenerFails
<1>1. SetupInv' /\ Loops' = Loops /\ pc' = pc
  BY <1>0, RingsKept
<1>2. LifeTypeOK'
  BY <1>0, <1>1 DEF LifeInv, LifeTypeOK, SetupInv
<1>3. Progress'
  BY <1>0, <1>1 DEF LifeInv, Progress, Are
<1>4. Owned'
  BY <1>0, <1>1 DEF LifeInv, Owned
<1> QED BY <1>1, <1>2, <1>3, <1>4 DEF LifeInv

LEMMA StartLoopStep == ASSUME LifeInv, StartLoop PROVE LifeInv'
<1>0. /\ run = "starting"
      /\ consumer' = [consumer EXCEPT ![k] = "running"] /\ publisher' = [publisher EXCEPT ![k] = "running"]
      /\ IF k < Len(rings) THEN k' = k + 1 /\ run' = "starting" ELSE k' = k /\ run' = "running"
      /\ UNCHANGED <<vars, features, net, owner, cancelled, socket>>
  BY DEF StartLoop
<1>1. /\ SetupInv' /\ Loops' = Loops /\ pc' = pc
      /\ Len(rings) \in Nat /\ Len(rings) <= MaxCount /\ MaxCount \in Nat
  BY <1>0, RingsKept
<1>2. k \in Loops /\ 1 \in Loops
  BY <1>0 DEF LifeInv, Progress
<1>3. consumer \in [Loops -> {"off", "running", "stopped"}] /\ publisher \in [Loops -> {"off", "running", "stopped"}]
  BY <1>0 DEF LifeInv, LifeTypeOK
<1>4. /\ consumer' \in [Loops -> {"off", "running", "stopped"}]
      /\ publisher' \in [Loops -> {"off", "running", "stopped"}]
  BY <1>0, <1>2, <1>3
<1>5. k' \in Loops /\ k' \in 0 .. MaxCount /\ run' # "none"
  BY <1>0, <1>1, <1>2 DEF Loops
<1>6. LifeTypeOK'
  BY <1>0, <1>1, <1>4, <1>5 DEF LifeInv, LifeTypeOK, SetupInv
<1>7. Progress'
  <2>1. ASSUME NEW l \in Loops
        PROVE  IF l <= k THEN consumer'[l] = "running" /\ publisher'[l] = "running"
               ELSE consumer'[l] = "off" /\ publisher'[l] = "off"
    <3>1. l \in Nat /\ k \in Nat
      BY <1>1, <1>2 DEF Loops
    <3>2. IF l < k THEN consumer[l] = "running" /\ publisher[l] = "running"
          ELSE consumer[l] = "off" /\ publisher[l] = "off"
      BY <1>0, <1>3 DEF LifeInv, Progress, Are
    <3> QED BY <1>0, <1>2, <1>3, <3>1, <3>2
  <2>2. CASE k < Len(rings)
    <3>1. \A l \in Loops : l < k' <=> l <= k
      BY <1>0, <1>1, <1>2, <2>2 DEF Loops
    <3> QED BY <1>0, <1>1, <1>2, <1>4, <1>5, <2>1, <2>2, <3>1 DEF Progress, Are
  <2>3. CASE ~(k < Len(rings))
    <3>1. \A l \in Loops : l <= k
      BY <1>1, <1>2, <2>3 DEF Loops
    <3> QED BY <1>0, <1>1, <1>2, <1>4, <2>1, <2>3, <3>1 DEF Progress, Are
  <2> QED BY <2>2, <2>3
<1>8. Owned'
  BY <1>0, <1>1 DEF LifeInv, Owned
<1> QED BY <1>1, <1>6, <1>7, <1>8 DEF LifeInv

LEMMA CancelStep == ASSUME LifeInv, ProgramCancels \/ CloseSocket \/ StopReactor PROVE LifeInv'
<1>0. /\ cancelled' \in BOOLEAN /\ socket' \in {"none", "open", "closed", "leaked"}
      /\ UNCHANGED <<vars, features, net, run, owner, k, consumer, publisher>>
  BY DEF ProgramCancels, CloseSocket, StopReactor, LifeInv, LifeTypeOK
<1>1. SetupInv' /\ Loops' = Loops /\ pc' = pc
  BY <1>0, RingsKept
<1>2. LifeTypeOK'
  BY <1>0, <1>1 DEF LifeInv, LifeTypeOK, SetupInv
<1>3. Progress'
  <2>1. \A l, c, p : Are(l, c, p)' <=> Are(l, c, p)
    BY <1>0 DEF Are
  <2> QED BY <1>0, <1>1, <2>1 DEF LifeInv, Progress
<1>4. Owned'
  BY <1>0, <1>1 DEF LifeInv, Owned
<1> QED BY <1>1, <1>2, <1>3, <1>4 DEF LifeInv

LEMMA ContextDoneStep == ASSUME LifeInv, ContextDone PROVE LifeInv'
<1>0. /\ run = "running" /\ run' = "stopConsumer" /\ k' = 1
      /\ UNCHANGED <<vars, features, net, owner, cancelled, socket, consumer, publisher>>
  BY DEF ContextDone
<1>1. SetupInv' /\ Loops' = Loops /\ pc' = pc /\ MaxCount \in Nat /\ 1 <= MaxCount
  BY <1>0, RingsKept, SetupAssumption
<1>2. LifeTypeOK'
  BY <1>0, <1>1 DEF LifeInv, LifeTypeOK, SetupInv
<1>3. Progress'
  <2>1. DOMAIN consumer = Loops /\ 1 \in Loops
    BY <1>0 DEF LifeInv, LifeTypeOK, Progress
  <2>2. ASSUME NEW l \in Loops PROVE Are(l, "running", "running")' /\ ~(l < 1)
    BY <1>0, <2>1 DEF LifeInv, Progress, Are, Loops
  <2> QED BY <1>0, <1>1, <2>1, <2>2 DEF Progress
<1>4. Owned'
  BY <1>0, <1>1 DEF LifeInv, Owned
<1> QED BY <1>1, <1>2, <1>3, <1>4 DEF LifeInv

LEMMA StopConsumerStep == ASSUME LifeInv, StopConsumer PROVE LifeInv'
<1>0. /\ run = "stopConsumer" /\ run' = "stopPublisher"
      /\ consumer' = [consumer EXCEPT ![k] = "stopped"]
      /\ UNCHANGED <<vars, features, net, owner, cancelled, socket, k, publisher>>
  BY DEF StopConsumer
<1>1. SetupInv' /\ Loops' = Loops /\ pc' = pc /\ Len(rings) \in Nat
  BY <1>0, RingsKept
<1>2. k \in Loops /\ 1 \in Loops
  BY <1>0 DEF LifeInv, Progress
<1>3. consumer \in [Loops -> {"off", "running", "stopped"}] /\ publisher \in [Loops -> {"off", "running", "stopped"}]
  BY <1>0 DEF LifeInv, LifeTypeOK
<1>4. consumer' \in [Loops -> {"off", "running", "stopped"}]
  BY <1>0, <1>2, <1>3
<1>5. LifeTypeOK'
  BY <1>0, <1>1, <1>3, <1>4 DEF LifeInv, LifeTypeOK, SetupInv
<1>6. Progress'
  <2>1. ASSUME NEW l \in Loops
        PROVE  IF l < k THEN consumer'[l] = "stopped" /\ publisher'[l] = "stopped"
               ELSE IF l = k THEN consumer'[l] = "stopped" /\ publisher'[l] = "running"
               ELSE consumer'[l] = "running" /\ publisher'[l] = "running"
    <3>1. l \in Nat /\ k \in Nat
      BY <1>1, <1>2 DEF Loops
    <3>2. IF l < k THEN consumer[l] = "stopped" /\ publisher[l] = "stopped"
          ELSE consumer[l] = "running" /\ publisher[l] = "running"
      BY <1>0, <1>3 DEF LifeInv, Progress, Are
    <3> QED BY <1>0, <1>2, <1>3, <3>1, <3>2
  <2> QED BY <1>0, <1>1, <1>2, <1>4, <2>1 DEF Progress, Are
<1>7. Owned'
  BY <1>0, <1>1 DEF LifeInv, Owned
<1> QED BY <1>1, <1>5, <1>6, <1>7 DEF LifeInv

LEMMA StopPublisherStep == ASSUME LifeInv, StopPublisher PROVE LifeInv'
<1>0. /\ run = "stopPublisher"
      /\ publisher' = [publisher EXCEPT ![k] = "stopped"]
      /\ IF k = Len(rings) THEN k' = k /\ run' = "returned" ELSE k' = k + 1 /\ run' = "stopConsumer"
      /\ UNCHANGED <<vars, features, net, owner, cancelled, socket, consumer>>
  BY DEF StopPublisher, LastLoop
<1>1. /\ SetupInv' /\ Loops' = Loops /\ pc' = pc
      /\ Len(rings) \in Nat /\ Len(rings) <= MaxCount /\ MaxCount \in Nat
  BY <1>0, RingsKept
<1>2. k \in Loops /\ 1 \in Loops
  BY <1>0 DEF LifeInv, Progress
<1>3. consumer \in [Loops -> {"off", "running", "stopped"}] /\ publisher \in [Loops -> {"off", "running", "stopped"}]
  BY <1>0 DEF LifeInv, LifeTypeOK
<1>4. publisher' \in [Loops -> {"off", "running", "stopped"}]
  BY <1>0, <1>2, <1>3
<1>5. k' \in Loops /\ k' \in 0 .. MaxCount /\ run' # "none"
  BY <1>0, <1>1, <1>2 DEF Loops
<1>6. LifeTypeOK'
  BY <1>0, <1>1, <1>3, <1>4, <1>5 DEF LifeInv, LifeTypeOK, SetupInv
<1>7. Progress'
  <2>1. ASSUME NEW l \in Loops
        PROVE  IF l <= k THEN consumer'[l] = "stopped" /\ publisher'[l] = "stopped"
               ELSE consumer'[l] = "running" /\ publisher'[l] = "running"
    <3>1. l \in Nat /\ k \in Nat
      BY <1>1, <1>2 DEF Loops
    <3>2. IF l < k THEN consumer[l] = "stopped" /\ publisher[l] = "stopped"
          ELSE IF l = k THEN consumer[l] = "stopped" /\ publisher[l] = "running"
          ELSE consumer[l] = "running" /\ publisher[l] = "running"
      BY <1>0, <1>3 DEF LifeInv, Progress, Are
    <3> QED BY <1>0, <1>2, <1>3, <3>1, <3>2
  <2>2. CASE k = Len(rings)
    <3>1. \A l \in Loops : l <= k
      BY <1>1, <2>2 DEF Loops
    <3> QED BY <1>0, <1>1, <1>2, <1>3, <2>1, <2>2, <3>1 DEF Progress, Are
  <2>3. CASE k # Len(rings)
    <3>1. \A l \in Loops : l < k' <=> l <= k
      BY <1>0, <1>1, <1>2, <2>3 DEF Loops
    <3> QED BY <1>0, <1>1, <1>2, <1>3, <1>5, <2>1, <2>3, <3>1 DEF Progress, Are
  <2> QED BY <2>2, <2>3
<1>8. Owned'
  BY <1>0, <1>1 DEF LifeInv, Owned
<1> QED BY <1>1, <1>6, <1>7, <1>8 DEF LifeInv

LEMMA PanicStep ==
  ASSUME LifeInv, run # "crashed", NEW l \in DOMAIN consumer, NEW target \in DOMAIN consumer,
         CallbackPanics(l, target)
  PROVE  LifeInv'
<1>0. /\ consumer[l] = "running" /\ run' = "crashed"
      /\ UNCHANGED <<vars, features, net, owner, cancelled, socket, k, consumer, publisher>>
  BY DEF CallbackPanics
<1>1. SetupInv' /\ Loops' = Loops /\ pc' = pc
  BY <1>0, RingsKept
<1>2. run # "none"
  BY DEF LifeInv, LifeTypeOK
<1>3. run \notin {"none", "made", "refused", "returned"}
  BY <1>0, <1>2 DEF LifeInv, Progress, Are
<1>4. LifeTypeOK'
  BY <1>0, <1>1, <1>2 DEF LifeInv, LifeTypeOK, SetupInv
<1>5. Progress'
  BY <1>0, <1>1, <1>2 DEF LifeInv, Progress
<1>6. Owned'
  BY <1>0, <1>1, <1>3 DEF LifeInv, Owned
<1> QED BY <1>1, <1>4, <1>5, <1>6 DEF LifeInv

LEMMA LifeStep == ASSUME LifeInv, [LifeNext]_lifeVars PROVE LifeInv'
<1>1. CASE LifeNext
  BY <1>1, RingsStep, NewReactorStep, StartRunStep, ListenerFailsStep, StartLoopStep, CancelStep,
     ContextDoneStep, StopConsumerStep, StopPublisherStep, PanicStep DEF LifeNext
<1>2. CASE UNCHANGED lifeVars
  <2>0. UNCHANGED <<vars, features, net, run, owner, cancelled, socket, k, consumer, publisher>>
    BY <1>2 DEF lifeVars, reactor
  <2>1. SetupInv' /\ Loops' = Loops /\ pc' = pc
    BY <2>0, RingsKept
  <2>2. LifeTypeOK'
    BY <2>0, <2>1 DEF LifeInv, LifeTypeOK, SetupInv
  <2>3. Progress'
    <3>1. \A l, c, p : Are(l, c, p)' <=> Are(l, c, p)
      BY <2>0 DEF Are
    <3> QED BY <2>0, <2>1, <3>1 DEF LifeInv, Progress
  <2>4. Owned'
    BY <2>0, <2>1 DEF LifeInv, Owned
  <2> QED BY <2>1, <2>2, <2>3, <2>4 DEF LifeInv
<1> QED BY <1>1, <1>2

(* For any number of rings, and whenever the context is cancelled: a       *)
(* program that waits for Run before it closes the rings takes none from a *)
(* consumer or publisher that still runs.                                  *)
THEOREM RingsAlwaysOutliveLoops == LifeSpec => []RingsOutliveLoops
<1>1. LifeInit => LifeInv
  BY InitLife
<1>2. LifeInv /\ [LifeNext]_lifeVars => LifeInv'
  BY LifeStep
<1>3. LifeInv => RingsOutliveLoops
  <2> SUFFICES ASSUME LifeInv, owner = "program", NEW l \in DOMAIN consumer, Alive(l)
               PROVE  InUse(l)
    BY DEF RingsOutliveLoops
  <2>1. run # "none" /\ l \in Loops
    BY DEF LifeInv, LifeTypeOK
  <2>2. run # "returned"
    BY <2>1 DEF LifeInv, Progress, Are, Alive
  <2>3. pc = "created"
    BY <2>2 DEF LifeInv, Owned
  <2>4. rings[l] \in DOMAIN pool /\ defers = DOMAIN pool
    BY <2>1, <2>3 DEF LifeInv, SetupInv, Recorded, Loops
  <2>5. rings[l] \in open /\ rings[l] \in FDs
    BY <2>4 DEF LifeInv, SetupInv, Descriptors, TypeOK
  <2>6. <<rings[l], "sq">> \in mapped
    BY <2>4, <2>5 DEF LifeInv, SetupInv, Mappings, RingParts
  <2> QED BY <2>5, <2>6 DEF InUse
<1> QED BY <1>1, <1>2, <1>3, PTL DEF LifeSpec
=============================================================================
