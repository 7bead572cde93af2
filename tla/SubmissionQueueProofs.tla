----------------------- MODULE SubmissionQueueProofs -----------------------
(***************************************************************************)
(* Theorems about SubmissionQueue, for every ring size, counter width and  *)
(* set of operations, with and without SQPOLL and in both builds.          *)
(***************************************************************************)
EXTENDS SubmissionQueue, TLAPS

-----------------------------------------------------------------------------
(* Wrapping counters, for every Modulus. *)

(* Sums and differences of counters are counters. *)
LEMMA CounterClosed ==
    ASSUME NEW a \in Int, NEW b \in Int
    PROVE  Add(a, b) \in Counter /\ Sub(a, b) \in Counter
BY ModulusAssumption DEF Add, Sub, Counter

(* The wrapped difference in terms of integer subtraction. *)
LEMMA SubCases ==
    ASSUME NEW a \in Counter, NEW b \in Counter
    PROVE  Sub(a, b) = IF a >= b THEN a - b ELSE a - b + Modulus
BY ModulusAssumption DEF Sub, Counter

(* The wrapped sum in terms of integer addition. *)
LEMMA AddCases ==
    ASSUME NEW a \in Counter, NEW b \in Counter
    PROVE  Add(a, b) = IF a + b < Modulus THEN a + b ELSE a + b - Modulus
BY ModulusAssumption DEF Add, Counter

(* counter++ , with its wrap to zero. *)
LEMMA IncrementCases ==
    ASSUME NEW a \in Counter
    PROVE  Add(a, 1) = IF a = Modulus - 1 THEN 0 ELSE a + 1
BY ModulusAssumption DEF Add, Counter

(* Incrementing the far end of a distance lengthens it by one, unless it   *)
(* spans the whole range already.                                          *)
LEMMA SubIncrement ==
    ASSUME NEW a \in Counter, NEW h \in Counter, Sub(a, h) < Modulus - 1
    PROVE  Sub(Add(a, 1), h) = Sub(a, h) + 1
<1>1. Add(a, 1) \in Counter
  BY CounterClosed DEF Counter
<1>2. Add(a, 1) = IF a = Modulus - 1 THEN 0 ELSE a + 1
  BY IncrementCases
<1>3. Sub(a, h) = IF a >= h THEN a - h ELSE a - h + Modulus
  BY SubCases
<1>4. Sub(Add(a, 1), h) = IF Add(a, 1) >= h THEN Add(a, 1) - h ELSE Add(a, 1) - h + Modulus
  BY <1>1, SubCases
<1> QED
  BY <1>1, <1>2, <1>3, <1>4, ModulusAssumption DEF Counter

(* Incrementing the near end (the kernel takes an entry) shortens it. *)
LEMMA SubAdvance ==
    ASSUME NEW a \in Counter, NEW h \in Counter, a # h
    PROVE  Sub(a, Add(h, 1)) = Sub(a, h) - 1
<1>1. Add(h, 1) \in Counter
  BY CounterClosed DEF Counter
<1>2. Add(h, 1) = IF h = Modulus - 1 THEN 0 ELSE h + 1
  BY IncrementCases
<1>3. Sub(a, h) = IF a >= h THEN a - h ELSE a - h + Modulus
  BY SubCases
<1>4. Sub(a, Add(h, 1)) = IF a >= Add(h, 1) THEN a - Add(h, 1) ELSE a - Add(h, 1) + Modulus
  BY <1>1, SubCases
<1> QED
  BY <1>1, <1>2, <1>3, <1>4, ModulusAssumption DEF Counter

(* Stepping back from a counter that is ahead of h shortens the distance. *)
LEMMA SubDecrement ==
    ASSUME NEW a \in Counter, NEW h \in Counter, a # h
    PROVE  /\ Sub(a, 1) \in Counter
           /\ Sub(Sub(a, 1), h) = Sub(a, h) - 1
           /\ Add(Sub(a, 1), 1) = a
<1>1. Sub(a, 1) \in Counter
  BY CounterClosed DEF Counter
<1>2. Sub(a, 1) = IF a = 0 THEN Modulus - 1 ELSE a - 1
  BY ModulusAssumption DEF Sub, Counter
<1>3. Add(Sub(a, 1), 1) = IF Sub(a, 1) = Modulus - 1 THEN 0 ELSE Sub(a, 1) + 1
  BY <1>1, IncrementCases
<1>4. Sub(a, h) = IF a >= h THEN a - h ELSE a - h + Modulus
  BY SubCases
<1>5. Sub(Sub(a, 1), h) = IF Sub(a, 1) >= h THEN Sub(a, 1) - h ELSE Sub(a, 1) - h + Modulus
  BY <1>1, SubCases
<1> QED
  BY <1>1, <1>2, <1>3, <1>4, <1>5, ModulusAssumption DEF Counter

(* A counter is determined by its distance from another one. *)
LEMMA SubInjective ==
    ASSUME NEW a \in Counter, NEW b \in Counter, NEW h \in Counter
    PROVE  /\ (Sub(a, h) = Sub(b, h)) <=> (a = b)
           /\ (Sub(a, h) = 0) <=> (a = h)
           /\ Sub(a, h) \in Counter
<1>1. Sub(a, h) = IF a >= h THEN a - h ELSE a - h + Modulus
  BY SubCases
<1>2. Sub(b, h) = IF b >= h THEN b - h ELSE b - h + Modulus
  BY SubCases
<1> QED
  BY <1>1, <1>2, ModulusAssumption DEF Counter

(* Counters reached from h by offsets: the distance is the offset, and     *)
(* offsets from h + 1 are shifted by one.                                  *)
LEMMA AddOffset ==
    ASSUME NEW h \in Counter, NEW i \in Counter
    PROVE  /\ Add(h, i) \in Counter
           /\ Sub(Add(h, i), h) = i
<1>1. Add(h, i) \in Counter
  BY CounterClosed DEF Counter
<1>2. Add(h, i) = IF h + i < Modulus THEN h + i ELSE h + i - Modulus
  BY AddCases
<1>3. Sub(Add(h, i), h) = IF Add(h, i) >= h THEN Add(h, i) - h ELSE Add(h, i) - h + Modulus
  BY <1>1, SubCases
<1> QED
  BY <1>1, <1>2, <1>3, ModulusAssumption DEF Counter

(* Stepping the base of an index by one is stepping the index: how the     *)
(* entries of the ring are renumbered when the head moves.                 *)
LEMMA AddShift ==
    ASSUME NEW h \in Counter, NEW i \in Counter, i + 1 < Modulus
    PROVE  Add(Add(h, 1), i) = Add(h, i + 1)
<1>1. Add(h, 1) \in Counter /\ i + 1 \in Counter
  BY CounterClosed, ModulusAssumption DEF Counter
<1>2. Add(h, 1) = IF h = Modulus - 1 THEN 0 ELSE h + 1
  BY IncrementCases
<1>3. Add(Add(h, 1), i) = IF Add(h, 1) + i < Modulus
                          THEN Add(h, 1) + i ELSE Add(h, 1) + i - Modulus
  BY <1>1, AddCases
<1>4. Add(h, i + 1) = IF h + (i + 1) < Modulus THEN h + (i + 1) ELSE h + (i + 1) - Modulus
  BY <1>1, AddCases
<1> QED
  BY <1>1, <1>2, <1>3, <1>4, ModulusAssumption DEF Counter

(* The offset of a counter leads back to it. *)
LEMMA AddSub ==
    ASSUME NEW a \in Counter, NEW h \in Counter
    PROVE  Add(h, Sub(a, h)) = a
<1>1. Sub(a, h) \in Counter
  BY CounterClosed DEF Counter
<1>2. Sub(a, h) = IF a >= h THEN a - h ELSE a - h + Modulus
  BY SubCases
<1>3. Add(h, Sub(a, h)) = IF h + Sub(a, h) < Modulus
                          THEN h + Sub(a, h) ELSE h + Sub(a, h) - Modulus
  BY <1>1, AddCases
<1> QED
  BY <1>1, <1>2, <1>3, ModulusAssumption DEF Counter

(* The only multiple of n strictly between -n and n is 0. *)
LEMMA MultipleBelow ==
    ASSUME NEW n \in Nat \ {0}, NEW k \in Int, -n < n * k, n * k < n
    PROVE  k = 0
<1>1. CASE k >= 1
  <2>1. n * k = n + n * (k - 1)
    OBVIOUS
  <2>2. n * (k - 1) >= 0
    BY <1>1
  <2> QED
    BY <2>1, <2>2
<1>2. CASE k <= -1
  <2>1. n * k = -n + n * (k + 1)
    OBVIOUS
  <2>2. n * (k + 1) <= 0
    BY <1>2
  <2> QED
    BY <2>1, <2>2
<1> QED
  BY <1>1, <1>2

(* The ring mask tells apart any two counters less than a ring's length    *)
(* ahead of h, also when the counters wrapped in between, because the size *)
(* divides the modulus.                                                    *)
LEMMA MaskInjective ==
    ASSUME NEW n \in Nat \ {0}, Modulus % n = 0,
           NEW a \in Counter, NEW b \in Counter, NEW h \in Counter,
           Sub(a, h) < n, Sub(b, h) < n, Mask(a, n) = Mask(b, n)
    PROVE  a = b
<1> DEFINE qa == a \div n
           qb == b \div n
           m == Modulus \div n
           d == Sub(a, h) - Sub(b, h)
<1>1. /\ a \in Int /\ b \in Int /\ h \in Int
      /\ Sub(a, h) \in Nat /\ Sub(b, h) \in Nat
  BY CounterClosed DEF Counter
<1>2. a = n * qa + (a % n) /\ qa \in Int
  BY <1>1
<1>3. b = n * qb + (b % n) /\ qb \in Int
  BY <1>1
<1>4. Modulus = n * m /\ m \in Int
  BY ModulusAssumption
<1>5. a % n = b % n
  BY DEF Mask
<1>6. a % n \in Int
  BY <1>1
<1>7. a - b = n * (qa - qb)
  <2> HIDE DEF qa, qb
  <2>1. a - b = n * qa - n * qb
    BY <1>1, <1>2, <1>3, <1>5, <1>6
  <2> QED
    BY <2>1, <1>2, <1>3
<1>8. d = a - b \/ d = a - b + Modulus \/ d = a - b - Modulus
  BY SubCases, ModulusAssumption DEF Counter
<1>9. \E k \in Int : d = n * k
  <2> HIDE DEF qa, qb, m, d
  <2>1. qa - qb \in Int /\ qa - qb + m \in Int /\ qa - qb - m \in Int
    BY <1>2, <1>3, <1>4
  <2> USE <2>1
  <2>2. CASE d = a - b
    <3>1. d = n * (qa - qb)
      BY <2>2, <1>7
    <3> WITNESS qa - qb \in Int
    <3> QED
      BY <3>1
  <2>3. CASE d = a - b + Modulus
    <3>1. d = n * (qa - qb + m)
      BY <2>3, <1>7, <1>4, <1>2, <1>3
    <3> WITNESS qa - qb + m \in Int
    <3> QED
      BY <3>1
  <2>4. CASE d = a - b - Modulus
    <3>1. d = n * (qa - qb - m)
      BY <2>4, <1>7, <1>4, <1>2, <1>3
    <3> WITNESS qa - qb - m \in Int
    <3> QED
      BY <3>1
  <2> QED
    BY <2>2, <2>3, <2>4, <1>8
<1>10. -n < d /\ d < n
  BY <1>1
<1>11. d = 0
  <2>1. PICK k \in Int : d = n * k
    BY <1>9
  <2>2. k = 0
    BY <2>1, <1>10, MultipleBelow
  <2> QED
    BY <2>1, <2>2
<1> QED
  BY <1>11, <1>1, SubInjective

(* A masked counter is an index of the ring. *)
LEMMA MaskRange ==
    ASSUME NEW n \in Nat \ {0}, NEW a \in Counter
    PROVE  Mask(a, n) \in 0 .. (n - 1)
BY DEF Mask, Counter

-----------------------------------------------------------------------------
(* The submission queue. *)

(* Arithmetic facts about the constants and the slots of the ring, cited   *)
(* by the steps below.                                                     *)
LEMMA SlotFacts ==
    /\ Entries \in Nat \ {0} /\ Modulus \in Nat \ {0}
    /\ Entries < Modulus
    /\ 0 \in Counter /\ 1 \in Counter /\ 0 \in Slot
    /\ \A c \in Counter : SlotOf(c) \in Slot
    /\ \A c \in Counter : Add(c, 1) \in Counter
    /\ \A c, d \in Counter : Sub(c, d) \in Counter
<1>1. \A c \in Counter : SlotOf(c) \in Slot
  BY SQAssumption, MaskRange DEF SlotOf, Slot
<1>2. \A c \in Counter : Add(c, 1) \in Counter
  BY CounterClosed DEF Counter
<1>3. \A c, d \in Counter : Sub(c, d) \in Counter
  BY CounterClosed DEF Counter
<1>4. Entries < Modulus /\ 0 \in Counter /\ 1 \in Counter /\ 0 \in Slot
  BY SQAssumption, ModulusAssumption DEF Counter, Slot
<1> QED
  BY <1>1, <1>2, <1>3, <1>4, SQAssumption, ModulusAssumption

(* Two counters within a ring's length of the kernel's head use different  *)
(* slots.                                                                  *)
LEMMA SlotInjective ==
    ASSUME NEW a \in Counter, NEW b \in Counter, NEW h \in Counter,
           Sub(a, h) < Entries, Sub(b, h) < Entries, SlotOf(a) = SlotOf(b)
    PROVE  a = b
BY SQAssumption, MaskInjective DEF SlotOf

(* The zeroed ring of allocRing satisfies the inductive invariant. *)
LEMMA InitEstablishes == Init => IInv
<1> SUFFICES ASSUME Init PROVE IInv
  OBVIOUS
<1>1. Sub(0, 0) = 0
  BY SlotFacts, SubInjective
<1>2. TypeOK
  BY SlotFacts DEF Init, TypeOK, PCs
<1>3. IndexOrder /\ FlushedBounded
  BY <1>1, SlotFacts DEF Init, IndexOrder, FlushedBounded
<1>4. FlushLocals /\ WakeupProtocol
  BY DEF Init, FlushLocals, WakeupProtocol, NoLostWakeup
<1>5. ArrayIdentity
  <2> SUFFICES ASSUME NEW c \in Counter, Sub(c, 0) < 0 PROVE FALSE
    BY <1>1 DEF ArrayIdentity, Init
  <2>1. Sub(c, 0) \in Counter
    BY SlotFacts, SubInjective
  <2> QED
    BY <2>1 DEF Counter
<1> QED
  BY <1>2, <1>3, <1>4, <1>5 DEF IInv

(* The kernel takes an entry only if there is one, so every stretch that   *)
(* starts at kHead is non-empty and gets shorter by one.                   *)
LEMMA TakeShortens ==
    ASSUME TypeOK, IndexOrder, TakeSQE
    PROVE  /\ kHead' \in Counter /\ kHead' = Add(kHead, 1)
           /\ kTail # kHead /\ tailStore # kHead /\ sqeHead # kHead /\ sqeTail # kHead
           /\ Sub(kTail, kHead') = Sub(kTail, kHead) - 1
           /\ Sub(tailStore, kHead') = Sub(tailStore, kHead) - 1
           /\ Sub(sqeHead, kHead') = Sub(sqeHead, kHead) - 1
           /\ Sub(sqeTail, kHead') = Sub(sqeTail, kHead) - 1
<1>1. /\ kHead \in Counter /\ kTail \in Counter /\ tailStore \in Counter
      /\ sqeHead \in Counter /\ sqeTail \in Counter
  BY DEF TypeOK
<1>2. kHead' = Add(kHead, 1) /\ kHead' \in Counter
  BY <1>1, CounterClosed, SlotFacts DEF TakeSQE, Counter
<1>3. kTail # kHead
  BY DEF TakeSQE
<1>4. Sub(kTail, kHead) \in Counter /\ Sub(kTail, kHead) # 0
  BY <1>1, <1>3, SubInjective
<1>5. /\ Sub(tailStore, kHead) \in Counter /\ Sub(sqeHead, kHead) \in Counter
      /\ Sub(sqeTail, kHead) \in Counter
  BY <1>1, SubInjective
<1>6. /\ Sub(tailStore, kHead) # 0 /\ Sub(sqeHead, kHead) # 0
      /\ Sub(sqeTail, kHead) # 0
  BY <1>4, <1>5 DEF IndexOrder, Counter
<1>7. tailStore # kHead /\ sqeHead # kHead /\ sqeTail # kHead
  BY <1>1, <1>6, SubInjective
<1> QED
  BY <1>1, <1>2, <1>3, <1>7, SubAdvance

(* Every step of the submitter and of the kernel keeps the types. *)
LEMMA TypeStep == IInv /\ [Next]_vars => TypeOK'
<1> SUFFICES ASSUME IInv, [Next]_vars PROVE TypeOK'
  OBVIOUS
<1> USE SlotFacts
<1>0. TypeOK /\ IndexOrder
  BY DEF IInv
<1>1. ASSUME NEW op \in Ops, NextSQE(op) PROVE TypeOK'
  BY <1>0, <1>1 DEF TypeOK, NextSQE, memory, kernel, PCs
<1>2. CASE FlushSQ
  BY <1>0, <1>2 DEF TypeOK, FlushSQ, memory, kernel, PCs
<1>3. CASE PrepSQE
  BY <1>0, <1>3 DEF TypeOK, PrepSQE, private, kernel, PCs
<1>4. CASE FlushEntry
  <2>1. SlotOf(sqeHead) \in Slot /\ Add(tail, 1) \in Counter /\ Add(sqeHead, 1) \in Counter
    BY <1>0 DEF TypeOK
  <2> QED
    BY <1>0, <1>4, <2>1 DEF TypeOK, FlushEntry, ArrayEntry, kernel, PCs
<1>5. CASE StoreTail
  BY <1>0, <1>5 DEF TypeOK, StoreTail, private, kernel, PCs
<1>6. CASE CountPending
  BY <1>0, <1>6 DEF TypeOK, CountPending, Pending, memory, kernel, PCs
<1>7. CASE NeedsEnter
  BY <1>0, <1>7 DEF TypeOK, NeedsEnter, memory, private, kernel, PCs
<1>8. CASE Drain
  BY <1>0, <1>8 DEF TypeOK, Drain, private, kernel, PCs
<1>9. ASSUME TakeSQE PROVE taken' \in Ops \cup {ZeroSQE} /\ kHead' \in Counter
  <2>1. kArray[SlotOf(kHead)] \in Slot
    BY <1>0 DEF TypeOK
  <2> QED
    BY <1>0, <1>9, <2>1, TakeShortens DEF TypeOK, TakeSQE
<1>10. CASE EnterTake
  <2>1. TakeSQE /\ flushed - 1 \in Counter
    BY <1>0, <1>10 DEF TypeOK, EnterTake, Counter
  <2> QED
    BY <1>0, <1>10, <1>9, <2>1 DEF TypeOK, EnterTake, TakeSQE, PCs
<1>11. CASE EnterReturn
  BY <1>0, <1>11 DEF TypeOK, EnterReturn, memory, private, kernel, PCs
<1>12. CASE EnterWakeup
  BY <1>0, <1>12 DEF TypeOK, EnterWakeup, private, PCs
<1>13. CASE ThreadTake
  <2>1. TakeSQE
    BY <1>13 DEF ThreadTake
  <2> QED
    BY <1>0, <1>13, <1>9, <2>1 DEF TypeOK, ThreadTake, TakeSQE, private, PCs
<1>14. CASE ThreadIdle
  BY <1>0, <1>14 DEF TypeOK, ThreadIdle, private, PCs
<1>15. CASE ThreadPark
  BY <1>0, <1>15 DEF TypeOK, ThreadPark, private, PCs
<1>16. CASE UNCHANGED vars
  BY <1>0, <1>16 DEF TypeOK, vars, memory, private, kernel, PCs
<1> QED
  BY <1>1, <1>2, <1>3, <1>4, <1>5, <1>6, <1>7, <1>8, <1>10, <1>11, <1>12,
     <1>13, <1>14, <1>15, <1>16
     DEF Next, SubmitStep, KernelStep

(* NextSQE's test leaves room for one more entry. *)
LEMMA ReserveLengthens ==
    ASSUME TypeOK, IndexOrder, HasRoom(kHead)
    PROVE  /\ Sub(Add(sqeTail, 1), kHead) = Sub(sqeTail, kHead) + 1
           /\ Sub(sqeTail, kHead) + 1 <= Entries
           /\ Add(sqeTail, 1) # sqeHead
<1>1. /\ kHead \in Counter /\ sqeTail \in Counter /\ sqeHead \in Counter
      /\ Sub(sqeTail, kHead) \in Counter /\ Sub(sqeHead, kHead) \in Counter
  BY SlotFacts DEF TypeOK
<1>2. Sub(sqeTail, kHead) < Modulus - 1
  BY <1>1, SQAssumption, ModulusAssumption DEF IndexOrder, Counter
<1>3. Sub(Add(sqeTail, 1), kHead) = Sub(sqeTail, kHead) + 1
  BY <1>1, <1>2, SubIncrement
<1>4. Sub(Add(sqeTail, 1), kHead) # Sub(sqeHead, kHead)
  <2>1. Sub(sqeHead, kHead) <= Sub(sqeTail, kHead)
    BY DEF IndexOrder
  <2>2. Sub(sqeTail, kHead) \in Int /\ Sub(sqeHead, kHead) \in Int
    BY <1>1 DEF Counter
  <2> QED
    BY <1>3, <2>1, <2>2
<1> QED
  BY <1>3, <1>4 DEF HasRoom

(* flushSQ's loop brings sqeHead one step closer to sqeTail. *)
LEMMA FlushLengthens ==
    ASSUME TypeOK, IndexOrder, sqeHead # sqeTail
    PROVE  /\ Sub(Add(sqeHead, 1), kHead) = Sub(sqeHead, kHead) + 1
           /\ Sub(sqeHead, kHead) + 1 <= Sub(sqeTail, kHead)
<1>1. /\ kHead \in Counter /\ sqeTail \in Counter /\ sqeHead \in Counter
      /\ Sub(sqeTail, kHead) \in Counter /\ Sub(sqeHead, kHead) \in Counter
  BY SlotFacts DEF TypeOK
<1>2. Sub(sqeHead, kHead) # Sub(sqeTail, kHead)
  BY <1>1, SubInjective
<1>3. Sub(sqeHead, kHead) < Modulus - 1
  BY <1>1, <1>2, SQAssumption, ModulusAssumption DEF IndexOrder, Counter
<1>4. Sub(Add(sqeHead, 1), kHead) = Sub(sqeHead, kHead) + 1
  BY <1>1, <1>3, SubIncrement
<1> QED
  BY <1>1, <1>2, <1>4 DEF IndexOrder, Counter

(* Every step keeps the counters in order around the ring, flushSQ's locals *)
(* consistent with them and its result within the ring size.               *)
LEMMA OrderStep ==
    IInv /\ [Next]_vars => IndexOrder' /\ FlushLocals' /\ FlushedBounded'
<1> SUFFICES ASSUME IInv, [Next]_vars
             PROVE  IndexOrder' /\ FlushLocals' /\ FlushedBounded'
  OBVIOUS
<1> USE SlotFacts
<1>0. TypeOK /\ IndexOrder /\ FlushLocals /\ FlushedBounded /\ WakeupProtocol
  BY DEF IInv
<1>d. /\ Sub(kTail, kHead) \in Nat /\ Sub(tailStore, kHead) \in Nat
      /\ Sub(sqeHead, kHead) \in Nat /\ Sub(sqeTail, kHead) \in Nat
      /\ flushed \in Nat /\ Entries \in Nat
  <2>1. \A c \in Counter : c \in Nat
    BY DEF Counter
  <2> QED
    BY <1>0, <2>1 DEF TypeOK
<1> DEFINE Goal == IndexOrder' /\ FlushLocals' /\ FlushedBounded'
<1>1. ASSUME NEW op \in Ops, NextSQE(op) PROVE Goal
  BY <1>0, <1>d, <1>1, ReserveLengthens
     DEF NextSQE, memory, kernel, IndexOrder, FlushLocals, FlushedBounded
<1>2. CASE FlushSQ
  BY <1>0, <1>2 DEF FlushSQ, memory, kernel, IndexOrder, FlushLocals, FlushedBounded
<1>3. CASE PrepSQE
  BY <1>0, <1>3 DEF PrepSQE, private, IndexOrder, FlushLocals, FlushedBounded
<1>4. CASE FlushEntry
  <2>1. sqeHead # sqeTail /\ tail = sqeHead
    BY <1>0, <1>4 DEF FlushEntry, FlushLocals
  <2>2. /\ Sub(Add(sqeHead, 1), kHead) = Sub(sqeHead, kHead) + 1
        /\ Sub(sqeHead, kHead) + 1 <= Sub(sqeTail, kHead)
    BY <1>0, <2>1, FlushLengthens
  <2> QED
    BY <1>0, <1>d, <1>4, <2>1, <2>2
       DEF FlushEntry, IndexOrder, FlushLocals, FlushedBounded
<1>5. CASE StoreTail
  BY <1>0, <1>d, <1>5 DEF StoreTail, private, IndexOrder, FlushLocals, FlushedBounded
<1>6. CASE CountPending
  BY <1>0, <1>d, <1>6
     DEF CountPending, Pending, memory, IndexOrder, FlushLocals, FlushedBounded
<1>7. CASE NeedsEnter
  BY <1>0, <1>7 DEF NeedsEnter, memory, private, IndexOrder, FlushLocals, FlushedBounded
<1>8. CASE Drain
  BY <1>0, <1>d, <1>8 DEF Drain, private, IndexOrder, FlushLocals, FlushedBounded
<1>9. CASE EnterTake
  <2>1. TakeSQE
    BY <1>9 DEF EnterTake
  <2> QED
    BY <1>0, <1>d, <1>9, <2>1, TakeShortens
       DEF EnterTake, TakeSQE, IndexOrder, FlushLocals, FlushedBounded
<1>10. CASE EnterReturn
  BY <1>0, <1>10 DEF EnterReturn, InEnter, memory, private, IndexOrder, FlushLocals, FlushedBounded
<1>11. CASE EnterWakeup
  BY <1>0, <1>11 DEF EnterWakeup, InEnter, private, IndexOrder, FlushLocals, FlushedBounded
<1>12. CASE ThreadTake
  <2>1. TakeSQE
    BY <1>12 DEF ThreadTake
  <2> QED
    BY <1>0, <1>d, <1>12, <2>1, TakeShortens
       DEF ThreadTake, TakeSQE, private, IndexOrder, FlushLocals, FlushedBounded
<1>13. CASE ThreadIdle
  BY <1>0, <1>13 DEF ThreadIdle, private, IndexOrder, FlushLocals, FlushedBounded
<1>14. CASE ThreadPark
  BY <1>0, <1>14 DEF ThreadPark, private, IndexOrder, FlushLocals, FlushedBounded
<1>15. CASE UNCHANGED vars
  BY <1>0, <1>15 DEF vars, memory, private, IndexOrder, FlushLocals, FlushedBounded
<1> QED
  BY <1>1, <1>2, <1>3, <1>4, <1>5, <1>6, <1>7, <1>8, <1>9, <1>10, <1>11,
     <1>12, <1>13, <1>14, <1>15
     DEF Next, SubmitStep, KernelStep

(* kArray maps every entry flushSQ moved to the slot QueueSQE wrote. *)
LEMMA ArrayStep == IInv /\ [Next]_vars => ArrayIdentity'
<1> SUFFICES ASSUME IInv, [Next]_vars PROVE ArrayIdentity'
  OBVIOUS
<1> USE SlotFacts
<1>0. TypeOK /\ IndexOrder /\ FlushLocals /\ ArrayIdentity
  BY DEF IInv
<1>1. CASE UNCHANGED <<kArray, kHead, sqeHead>>
  BY <1>0, <1>1 DEF ArrayIdentity
<1>2. CASE FlushEntry
  <2> SUFFICES ASSUME NEW c \in Counter, Sub(c, kHead) < Sub(Add(sqeHead, 1), kHead)
               PROVE  kArray'[SlotOf(c)] = SlotOf(c)
    BY <1>2 DEF ArrayIdentity, FlushEntry
  <2>1. sqeHead # sqeTail /\ tail = sqeHead
    BY <1>0, <1>2 DEF FlushEntry, FlushLocals
  <2>2. /\ kArray \in [Slot -> Slot] /\ sqeHead \in Counter /\ kHead \in Counter
        /\ sqeTail \in Counter
    BY <1>0 DEF TypeOK
  <2>3. kArray' = [kArray EXCEPT ![SlotOf(sqeHead)] = SlotOf(sqeHead)]
    BY <1>2, <2>1 DEF FlushEntry, ArrayEntry
  <2>4. CASE c = sqeHead
    BY <2>2, <2>3, <2>4
  <2>5. CASE c # sqeHead
    <3>1. /\ Sub(c, kHead) \in Int /\ Sub(sqeHead, kHead) \in Int
          /\ Sub(sqeTail, kHead) \in Int
      BY <2>2 DEF Counter
    <3>2. Sub(c, kHead) # Sub(sqeHead, kHead)
      BY <2>2, <2>5, SubInjective
    <3>3. /\ Sub(c, kHead) < Sub(sqeHead, kHead)
          /\ Sub(sqeHead, kHead) < Entries
      BY <1>0, <2>1, <3>1, <3>2, FlushLengthens DEF IndexOrder
    <3>4. Sub(c, kHead) < Entries
      BY <3>1, <3>3
    <3>5. SlotOf(c) # SlotOf(sqeHead)
      BY <2>2, <2>5, <3>3, <3>4, SlotInjective
    <3>6. kArray[SlotOf(c)] = SlotOf(c)
      BY <1>0, <3>3 DEF ArrayIdentity
    <3> QED
      BY <2>2, <2>3, <3>5, <3>6
  <2> QED
    BY <2>4, <2>5
<1>3. CASE TakeSQE /\ UNCHANGED sqeHead
  <2> SUFFICES ASSUME NEW c \in Counter, Sub(c, kHead') < Sub(sqeHead, kHead')
               PROVE  kArray[SlotOf(c)] = SlotOf(c)
    BY <1>3 DEF ArrayIdentity, TakeSQE
  <2>1. kHead \in Counter /\ sqeHead \in Counter
    BY <1>0 DEF TypeOK
  <2>2. /\ Sub(sqeHead, kHead') = Sub(sqeHead, kHead) - 1
        /\ kHead' = Add(kHead, 1) /\ kHead' \in Counter
        /\ sqeHead # kHead
    BY <1>0, <1>3, TakeShortens
  <2>3. /\ Sub(c, kHead) \in Nat /\ Sub(sqeHead, kHead) \in Nat
        /\ Sub(sqeHead, kHead) # 0
    BY <2>1, <2>2, SubInjective DEF Counter
  <2>4. Sub(c, kHead) < Sub(sqeHead, kHead)
    <3>1. CASE c = kHead
      <4>1. Sub(c, kHead) = 0
        BY <2>1, <3>1, SubInjective
      <4> QED
        BY <4>1, <2>3
    <3>2. CASE c # kHead
      BY <2>1, <2>2, <2>3, <3>2, SubAdvance
    <3> QED
      BY <3>1, <3>2
  <2> QED
    BY <1>0, <2>4 DEF ArrayIdentity
<1>4. \/ UNCHANGED <<kArray, kHead, sqeHead>> \/ FlushEntry
      \/ TakeSQE /\ UNCHANGED sqeHead
  BY DEF Next, SubmitStep, KernelStep, NextSQE, FlushSQ, PrepSQE, StoreTail,
         CountPending, NeedsEnter, Drain, EnterTake, EnterReturn, EnterWakeup,
         ThreadTake, ThreadIdle, ThreadPark, vars, memory, private
<1> QED
  BY <1>1, <1>2, <1>3, <1>4

(* The poll thread and Submit hand over without losing a wakeup. *)
LEMMA WakeupStep == IInv /\ [Next]_vars => WakeupProtocol'
<1> SUFFICES ASSUME IInv, [Next]_vars PROVE WakeupProtocol'
  OBVIOUS
<1>0. /\ FlushLocals /\ WakeupProtocol
      /\ thread \in {"running", "parking", "asleep"}
  BY DEF IInv, TypeOK
<1> USE DEF WakeupProtocol, NoLostWakeup
<1>1. ASSUME NEW op \in Ops, NextSQE(op) PROVE WakeupProtocol'
  BY <1>0, <1>1 DEF NextSQE, memory, kernel
<1>2. CASE FlushSQ
  BY <1>0, <1>2 DEF FlushSQ, memory, kernel
<1>3. CASE PrepSQE
  BY <1>0, <1>3 DEF PrepSQE, kernel
<1>4. CASE FlushEntry
  BY <1>0, <1>4 DEF FlushEntry, kernel
<1>5. CASE StoreTail
  BY <1>0, <1>5 DEF StoreTail, kernel
<1>6. CASE CountPending
  BY <1>0, <1>6 DEF CountPending, memory, kernel
<1>7. CASE NeedsEnter
  BY <1>0, <1>7 DEF NeedsEnter, memory, kernel
<1>8. CASE Drain
  BY <1>0, <1>8 DEF Drain, kernel
<1>9. CASE EnterTake
  BY <1>0, <1>9 DEF EnterTake, TakeSQE
<1>10. CASE EnterReturn
  BY <1>0, <1>10 DEF EnterReturn, memory, kernel
<1>11. CASE EnterWakeup
  BY <1>0, <1>11 DEF EnterWakeup
<1>12. CASE ThreadTake
  BY <1>0, <1>12 DEF ThreadTake, TakeSQE
<1>13. CASE ThreadIdle
  BY <1>0, <1>13 DEF ThreadIdle
<1>14. CASE ThreadPark
  BY <1>0, <1>14 DEF ThreadPark
<1>15. CASE UNCHANGED vars
  BY <1>0, <1>15 DEF vars, memory, kernel
<1> QED
  BY <1>1, <1>2, <1>3, <1>4, <1>5, <1>6, <1>7, <1>8, <1>9, <1>10, <1>11,
     <1>12, <1>13, <1>14, <1>15
     DEF Next, SubmitStep, KernelStep

(* IInv is an invariant of the submission queue: the type invariant, the   *)
(* order of the counters, what the locals of flushSQ say about them, the   *)
(* contents of kArray and the wakeup protocol, together.                   *)
THEOREM Inductive == Spec => []IInv
<1>1. IInv /\ [Next]_vars => IInv'
  BY TypeStep, OrderStep, ArrayStep, WakeupStep DEF IInv
<1> QED
  BY InitEstablishes, <1>1, PTL DEF Spec

(* Counters stay counters, indices stay indices and the kernel only ever   *)
(* takes what a slot held: TypeOK for every ring size and counter width.   *)
THEOREM TypeCorrect == Spec => []TypeOK
<1>1. IInv => TypeOK
  BY DEF IInv
<1> QED
  BY Inductive, <1>1, PTL

(* NextSQE never hands out a slot the kernel still owns, and flushSQ never *)
(* moves past what NextSQE handed out, also when uint32 wraps.             *)
THEOREM CountersOrdered == Spec => [](IndexOrder /\ FlushedBounded)
<1>1. IInv => IndexOrder /\ FlushedBounded
  BY DEF IInv
<1> QED
  BY Inductive, <1>1, PTL

(* Built with sync/atomic, an SQPOLL ring never has a sleeping poll thread *)
(* with entries to take and no Submit call on its way to wake it.          *)
THEOREM WakeupNotLost == ASSUME MovAtomics = FALSE PROVE Spec => []NoLostWakeup
<1>1. IInv => NoLostWakeup
  BY DEF IInv, WakeupProtocol
<1> QED
  BY Inductive, <1>1, PTL

-----------------------------------------------------------------------------
(* The slot PrepSQE writes lies behind every entry that was flushed. *)
LEMMA WrittenSlot ==
    ASSUME IInv, pc = "PrepSQE"
    PROVE  /\ Sub(sqeTail, 1) \in Counter
           /\ Sub(Sub(sqeTail, 1), kHead) = Sub(sqeTail, kHead) - 1
           /\ Sub(sqeHead, kHead) + 1 <= Sub(sqeTail, kHead)
           /\ Sub(sqeTail, kHead) <= Entries
<1>1. TypeOK /\ IndexOrder /\ FlushLocals /\ sqeHead # sqeTail
  BY DEF IInv, FlushLocals
<1>2. kHead \in Counter /\ sqeTail \in Counter /\ sqeHead \in Counter
  BY <1>1 DEF TypeOK
<1>3. Sub(sqeHead, kHead) \in Nat /\ Sub(sqeTail, kHead) \in Nat
  BY <1>2, SlotFacts DEF Counter
<1>4. Sub(sqeHead, kHead) + 1 <= Sub(sqeTail, kHead) /\ Sub(sqeTail, kHead) <= Entries
  BY <1>1, FlushLengthens DEF IndexOrder
<1>5. sqeTail # kHead
  <2>1. Sub(sqeTail, kHead) # 0
    BY <1>3, <1>4
  <2> QED
    BY <1>2, <2>1, SubInjective
<1> QED
  BY <1>2, <1>4, <1>5, SubDecrement

(* A step leaves the index and the SQE of an entry the kernel owns alone. *)
LEMMA PublishedStep ==
    ASSUME IInv, [Next]_vars, NEW c \in Counter, Published(c)
    PROVE  /\ kArray'[SlotOf(c)] = kArray[SlotOf(c)]
           /\ sqes'[kArray[SlotOf(c)]] = sqes[kArray[SlotOf(c)]]
<1>1. TypeOK /\ IndexOrder /\ FlushLocals /\ ArrayIdentity
  BY DEF IInv
<1>2. /\ kHead \in Counter /\ kTail \in Counter /\ sqeHead \in Counter
      /\ sqeTail \in Counter /\ tailStore \in Counter
  BY <1>1 DEF TypeOK
<1>3. /\ Sub(c, kHead) \in Nat /\ Sub(kTail, kHead) \in Nat
      /\ Sub(tailStore, kHead) \in Nat
      /\ Sub(sqeHead, kHead) \in Nat /\ Sub(sqeTail, kHead) \in Nat
  BY <1>2, SlotFacts DEF Counter
<1>4. Sub(c, kHead) < Sub(sqeHead, kHead) /\ Sub(c, kHead) < Entries
  BY <1>1, <1>3, SlotFacts DEF IndexOrder, Published
<1>5. kArray[SlotOf(c)] = SlotOf(c)
  BY <1>1, <1>4 DEF ArrayIdentity
<1>6. CASE PrepSQE
  <2>1. SlotOf(c) # SlotOf(Sub(sqeTail, 1))
    <3>1. pc = "PrepSQE"
      BY <1>6 DEF PrepSQE
    <3>2. Sub(Sub(sqeTail, 1), kHead) < Entries /\ Sub(sqeTail, 1) \in Counter
      BY <1>3, <3>1, WrittenSlot, SlotFacts
    <3>3. c # Sub(sqeTail, 1)
      BY <1>3, <1>4, <3>1, WrittenSlot
    <3> QED
      BY <1>2, <1>4, <3>2, <3>3, SlotInjective
  <2>2. sqes' = [sqes EXCEPT ![SlotOf(Sub(sqeTail, 1))] = sqe] /\ kArray' = kArray
    BY <1>6 DEF PrepSQE
  <2> QED
    BY <1>1, <1>5, <2>1, <2>2, SlotFacts DEF TypeOK
<1>7. CASE FlushEntry
  <2>1. sqeHead # sqeTail /\ tail = sqeHead
    BY <1>1, <1>7 DEF FlushEntry, FlushLocals
  <2>2. Sub(sqeHead, kHead) < Entries
    BY <1>1, <1>3, <2>1, FlushLengthens, SlotFacts DEF IndexOrder
  <2>3. SlotOf(c) # SlotOf(sqeHead)
    <3>1. c # sqeHead
      BY <1>3, <1>4
    <3> QED
      BY <1>2, <1>4, <2>2, <3>1, SlotInjective
  <2>4. kArray' = [kArray EXCEPT ![SlotOf(sqeHead)] = SlotOf(sqeHead)] /\ sqes' = sqes
    BY <1>7, <2>1 DEF FlushEntry, ArrayEntry
  <2> QED
    BY <1>1, <1>2, <2>3, <2>4, SlotFacts DEF TypeOK
<1>8. PrepSQE \/ FlushEntry \/ UNCHANGED <<kArray, sqes>>
  BY DEF Next, SubmitStep, KernelStep, NextSQE, FlushSQ, StoreTail, TakeSQE,
         CountPending, NeedsEnter, Drain, EnterTake, EnterReturn, EnterWakeup,
         ThreadTake, ThreadIdle, ThreadPark, vars, memory, private
<1> QED
  BY <1>6, <1>7, <1>8

(* No step changes an SQE, or the kArray entry that leads to it, between   *)
(* its publication by flushSQ and its consumption by the kernel.           *)
THEOREM PublishedNotTouched == Spec => PublishedStable
<1>1. IInv /\ [Next]_vars =>
        [\A c \in Counter :
            Published(c) /\ Published(c)' =>
              /\ kArray'[SlotOf(c)] = kArray[SlotOf(c)]
              /\ sqes'[kArray[SlotOf(c)]] = sqes[kArray[SlotOf(c)]]]_vars
  BY PublishedStep
<1> QED
  BY Inductive, <1>1, PTL DEF Spec, PublishedStable

-----------------------------------------------------------------------------
(* The refinement: what each step does to the abstract queue. *)

Item(h, i) == sqes[SlotOf(Add(h, i - 1))]

(* The length of the abstract queue is the distance of the counters, at    *)
(* most the ring size.                                                     *)
LEMMA QueuedLength ==
    ASSUME IInv
    PROVE  /\ Written \in Counter
           /\ Sub(Written, kHead) \in Nat
           /\ Sub(Written, kHead) <= Entries
           /\ Queued \in Seq(Ops \cup {ZeroSQE})
           /\ Len(Queued) = Sub(Written, kHead)
           /\ \A i \in 1 .. Sub(Written, kHead) : Queued[i] = Item(kHead, i)
<1>1. TypeOK /\ IndexOrder
  BY DEF IInv
<1>2. kHead \in Counter /\ sqeTail \in Counter /\ Sub(sqeTail, kHead) \in Nat
  BY <1>1, SlotFacts DEF TypeOK, Counter
<1>3. /\ Written \in Counter /\ Sub(Written, kHead) \in Nat
      /\ Sub(Written, kHead) <= Entries
  <2>1. CASE pc = "PrepSQE"
    <3>1. Written = Sub(sqeTail, 1) /\ Written \in Counter
      BY <2>1, WrittenSlot DEF Written
    <3>2. Sub(Written, kHead) \in Nat
      BY <1>2, <3>1, SlotFacts DEF Counter
    <3> QED
      BY <1>2, <2>1, <3>1, <3>2, WrittenSlot, SlotFacts
  <2>2. CASE pc # "PrepSQE"
    BY <1>1, <1>2, <2>2 DEF Written, IndexOrder
  <2> QED
    BY <2>1, <2>2
<1>4. \A i \in 1 .. Sub(Written, kHead) : Item(kHead, i) \in Ops \cup {ZeroSQE}
  <2> SUFFICES ASSUME NEW i \in 1 .. Sub(Written, kHead)
               PROVE  Item(kHead, i) \in Ops \cup {ZeroSQE}
    OBVIOUS
  <2>1. i - 1 \in Counter
    BY <1>3, SlotFacts DEF Counter
  <2>2. Add(kHead, i - 1) \in Counter
    BY <1>2, <2>1, AddOffset
  <2> QED
    BY <1>1, <2>2, SlotFacts DEF TypeOK, Item
<1>5. Queued \in [1 .. Sub(Written, kHead) -> Ops \cup {ZeroSQE}]
  BY <1>4 DEF Queued, Item
<1> QED
  BY <1>3, <1>5 DEF Queued, Item

(* Initially the abstract queue is empty. *)
LEMMA QueueInit == Init => BQ!Init
<1> SUFFICES ASSUME Init PROVE BQ!Init
  OBVIOUS
<1>1. Sub(Written, kHead) = 0
  BY SlotFacts, SubInjective DEF Init, Written
<1>2. Queued = << >>
  BY <1>1 DEF Queued
<1> QED
  BY <1>2, SQAssumption DEF BQ!Init, Init

(* A sequence that continues another by one element. *)
LEMMA AppendExtends ==
    ASSUME NEW S, NEW q \in Seq(S), NEW r \in Seq(S), NEW x \in S,
           Len(r) = Len(q) + 1, r[Len(q) + 1] = x,
           \A i \in 1 .. Len(q) : r[i] = q[i]
    PROVE  r = Append(q, x)
OBVIOUS

(* PrepSQE completes QueueSQE: the operation joins the end of the queue.   *)
LEMMA QueuePut ==
    ASSUME IInv, IInv', PrepSQE
    PROVE  BQ!Put(sqe) /\ sqe \in Ops
<1> DEFINE n == Sub(Written, kHead)
<1>1. TypeOK /\ sqe \in Ops /\ pc = "PrepSQE" /\ kHead \in Counter
  BY DEF IInv, FlushLocals, PrepSQE, TypeOK
<1>2. Written = Sub(sqeTail, 1) /\ Written' = sqeTail /\ kHead' = kHead
  BY DEF PrepSQE, Written, private
<1>3. n \in Nat /\ n + 1 <= Entries /\ Sub(sqeTail, kHead) = n + 1 /\ Written \in Counter
  <2>1. n \in Nat /\ Written \in Counter
    BY QueuedLength
  <2>2. n = Sub(sqeTail, kHead) - 1 /\ Sub(sqeTail, kHead) <= Entries
    BY <1>1, <1>2, WrittenSlot
  <2>3. Sub(sqeTail, kHead) \in Int
    BY <1>1, SlotFacts DEF TypeOK, Counter
  <2> QED
    BY <2>1, <2>2, <2>3, SlotFacts
<1>4. /\ Queued \in Seq(Ops \cup {ZeroSQE}) /\ Len(Queued) = n
      /\ \A i \in 1 .. n : Queued[i] = Item(kHead, i)
  BY QueuedLength
<1>5. /\ Queued' \in Seq(Ops \cup {ZeroSQE}) /\ Len(Queued') = n + 1
      /\ \A i \in 1 .. (n + 1) : Queued'[i] = sqes'[SlotOf(Add(kHead, i - 1))]
  <2>1. Sub(Written', kHead') = n + 1
    BY <1>2, <1>3
  <2>2. /\ Queued' \in Seq(Ops \cup {ZeroSQE}) /\ Len(Queued') = Sub(Written', kHead')
        /\ \A i \in 1 .. Sub(Written', kHead') : Queued'[i] = sqes'[SlotOf(Add(kHead', i - 1))]
    <3>1. (/\ Queued \in Seq(Ops \cup {ZeroSQE}) /\ Len(Queued) = Sub(Written, kHead)
           /\ \A i \in 1 .. Sub(Written, kHead) : Queued[i] = Item(kHead, i))'
      BY QueuedLength, PTL
    <3> QED
      BY <3>1 DEF Item
  <2> QED
    BY <1>2, <2>1, <2>2
<1>6. Add(kHead, n) = Written
  BY <1>1, <1>3, AddSub
<1>7. Queued'[n + 1] = sqe
  <2>1. Queued'[n + 1] = sqes'[SlotOf(Add(kHead, n))]
    BY <1>3, <1>5
  <2>2. sqes' = [sqes EXCEPT ![SlotOf(Written)] = sqe] /\ SlotOf(Written) \in Slot
    BY <1>2, <1>3, SlotFacts DEF PrepSQE
  <2>3. Slot = DOMAIN sqes
    BY <1>1 DEF TypeOK
  <2>4. sqes'[SlotOf(Written)] = sqe
    BY <2>2, <2>3
  <2> QED
    BY <1>6, <2>1, <2>4
<1>8. \A i \in 1 .. n : Queued'[i] = Queued[i]
  <2> SUFFICES ASSUME NEW i \in 1 .. n PROVE Queued'[i] = Queued[i]
    OBVIOUS
  <2>1. i - 1 \in Counter /\ n \in Counter
    BY <1>3, SlotFacts DEF Counter
  <2>2. Add(kHead, i - 1) \in Counter /\ Sub(Add(kHead, i - 1), kHead) = i - 1
    BY <1>1, <2>1, AddOffset
  <2>3. SlotOf(Add(kHead, i - 1)) # SlotOf(Written)
    <3>1. i - 1 < Entries /\ n < Entries /\ i - 1 # n
      BY <1>3, SlotFacts
    <3> QED
      BY <1>1, <1>3, <2>2, <3>1, SlotInjective
  <2>4. sqes' = [sqes EXCEPT ![SlotOf(Written)] = sqe]
    BY <1>2 DEF PrepSQE
  <2>5. sqes'[SlotOf(Add(kHead, i - 1))] = sqes[SlotOf(Add(kHead, i - 1))]
    BY <1>1, <2>2, <2>3, <2>4, SlotFacts DEF TypeOK
  <2>6. i \in 1 .. (n + 1)
    BY <1>3
  <2> QED
    BY <1>4, <1>5, <2>5, <2>6, Zenon DEF Item
<1>9. Queued' = Append(Queued, sqe)
  <2> HIDE DEF n
  <2>1. /\ Len(Queued') = Len(Queued) + 1 /\ Queued'[Len(Queued) + 1] = sqe
        /\ \A i \in 1 .. Len(Queued) : Queued'[i] = Queued[i]
    BY <1>4, <1>5, <1>7, <1>8
  <2>2. sqe \in Ops \cup {ZeroSQE}
    BY <1>1
  <2> QED
    BY <1>4, <1>5, <2>1, <2>2, AppendExtends
<1>10. Len(Queued) < Entries
  BY <1>3, <1>4, SlotFacts
<1> QED
  BY <1>1, <1>9, <1>10 DEF BQ!Put, PrepSQE, kernel

(* A step that takes an entry is a step of the kernel only. *)
LEMMA TakeKeeps ==
    ASSUME IInv, [Next]_vars, TakeSQE
    PROVE  UNCHANGED <<pc, sqeTail>>
<1>1. kHead' # kHead
  <2>1. kHead \in Counter /\ kHead' = Add(kHead, 1)
    BY DEF IInv, TypeOK, TakeSQE
  <2> QED
    <3>1. Add(kHead, 1) = IF kHead = Modulus - 1 THEN 0 ELSE kHead + 1
      BY <2>1, IncrementCases
    <3> QED
      BY <2>1, <3>1, SQAssumption, ModulusAssumption DEF Counter
<1> QED
  BY <1>1 DEF Next, SubmitStep, KernelStep, NextSQE, FlushSQ, PrepSQE, FlushEntry,
     StoreTail, CountPending, NeedsEnter, Drain, EnterTake, EnterReturn,
     EnterWakeup, ThreadTake, ThreadIdle, ThreadPark, vars, memory, private

(* The kernel takes the oldest operation of the queue. *)
LEMMA QueueTake ==
    ASSUME IInv, IInv', TakeSQE, UNCHANGED <<pc, sqeTail>>
    PROVE  BQ!Take
<1> DEFINE n == Sub(Written, kHead)
<1>1. /\ TypeOK /\ IndexOrder /\ FlushLocals /\ ArrayIdentity
      /\ kHead \in Counter /\ sqeHead \in Counter /\ Written \in Counter
  BY QueuedLength DEF IInv, TypeOK
<1>2. /\ kHead' = Add(kHead, 1) /\ sqeHead # kHead /\ sqeTail # kHead
      /\ Written' = Written /\ sqes' = sqes
  BY <1>1, TakeShortens DEF Written, TakeSQE
<1>3. Sub(sqeHead, kHead) \in Nat /\ Sub(sqeHead, kHead) # 0
  <2>1. Sub(sqeHead, kHead) \in Counter /\ (Sub(sqeHead, kHead) = 0 <=> sqeHead = kHead)
    BY <1>1, SubInjective, Zenon
  <2> QED
    BY <1>2, <2>1 DEF Counter
<1>4. n \in Nat /\ n # 0 /\ n <= Entries
  <2>1. n \in Nat /\ n <= Entries
    BY QueuedLength
  <2>2. CASE pc = "PrepSQE"
    <3>1. Written = Sub(sqeTail, 1)
      BY <2>2 DEF Written
    <3>2. Sub(sqeTail, kHead) \in Nat
      BY <1>1, SlotFacts DEF TypeOK, Counter
    <3> QED
      BY <1>3, <2>1, <2>2, <3>1, <3>2, WrittenSlot
  <2>3. CASE pc # "PrepSQE"
    <3>1. Sub(sqeTail, kHead) \in Nat /\ Written = sqeTail
      BY <1>1, <2>3, SlotFacts DEF TypeOK, Counter, Written
    <3> QED
      BY <1>1, <1>3, <2>1, <3>1 DEF IndexOrder
  <2> QED
    BY <2>1, <2>2, <2>3
<1>5. Sub(Written, kHead') = n - 1
  <2>1. Written # kHead
    BY <1>1, <1>4, SubInjective
  <2> QED
    BY <1>1, <1>2, <2>1, SubAdvance
<1>6. /\ Queued \in Seq(Ops \cup {ZeroSQE}) /\ Len(Queued) = n
      /\ \A i \in 1 .. n : Queued[i] = Item(kHead, i)
  BY QueuedLength
<1>7. /\ Queued' \in Seq(Ops \cup {ZeroSQE}) /\ Len(Queued') = n - 1
      /\ \A i \in 1 .. (n - 1) : Queued'[i] = sqes[SlotOf(Add(kHead', i - 1))]
  <2>1. (/\ Queued \in Seq(Ops \cup {ZeroSQE}) /\ Len(Queued) = Sub(Written, kHead)
         /\ \A i \in 1 .. Sub(Written, kHead) : Queued[i] = Item(kHead, i))'
    BY QueuedLength, PTL
  <2> QED
    BY <1>2, <1>5, <2>1 DEF Item
<1>8. \A i \in 1 .. (n - 1) : Queued'[i] = Queued[i + 1]
  <2> SUFFICES ASSUME NEW i \in 1 .. (n - 1) PROVE Queued'[i] = Queued[i + 1]
    OBVIOUS
  <2>1. i - 1 \in Counter /\ (i - 1) + 1 < Modulus /\ (i - 1) + 1 = (i + 1) - 1
    BY <1>4, SlotFacts DEF Counter
  <2>2. Add(kHead', i - 1) = Add(kHead, (i + 1) - 1)
    BY <1>1, <1>2, <2>1, AddShift
  <2>3. i + 1 \in 1 .. n
    BY <1>4
  <2> QED
    BY <1>6, <1>7, <2>2, <2>3 DEF Item
<1>9. Queued' = Tail(Queued)
  <2> HIDE DEF n
  <2> QED
    BY <1>4, <1>6, <1>7, <1>8
<1>10. taken' = Head(Queued)
  <2>1. kArray[SlotOf(kHead)] = SlotOf(kHead)
    <3>1. Sub(kHead, kHead) = 0
      BY <1>1, SubInjective
    <3> QED
      BY <1>1, <1>3, <3>1 DEF ArrayIdentity
  <2>2. Add(kHead, 0) = kHead
    BY <1>1, AddCases, SlotFacts DEF Counter
  <2>3. Queued[1] = sqes[SlotOf(Add(kHead, 1 - 1))]
    BY <1>4, <1>6 DEF Item
  <2>4. Queued[1] = sqes[SlotOf(kHead)]
    BY <2>2, <2>3
  <2> QED
    BY <1>4, <1>6, <2>1, <2>4 DEF TakeSQE
<1>11. Queued # << >>
  BY <1>4, <1>6
<1> QED
  BY <1>9, <1>10, <1>11 DEF BQ!Take

(* Every other step leaves the abstract queue alone. *)
LEMMA QueueStutter ==
    ASSUME IInv, [Next]_vars, ~PrepSQE, ~TakeSQE
    PROVE  UNCHANGED BQ!vars
<1>1. TypeOK /\ IndexOrder /\ kHead \in Counter /\ sqeTail \in Counter
  BY DEF IInv, TypeOK
<1>2. ASSUME NEW op \in Ops, NextSQE(op) PROVE UNCHANGED BQ!vars
  <2>1. Add(sqeTail, 1) \in Counter
    BY <1>1, SlotFacts
  <2>2. Sub(Add(sqeTail, 1), 1) = sqeTail
    BY <1>1, <2>1, IncrementCases, ModulusAssumption DEF Sub, Counter
  <2>3. Written' = Written
    BY <1>2, <2>2 DEF NextSQE, Written
  <2> QED
    BY <1>2, <2>3 DEF NextSQE, Queued, BQ!vars, memory, kernel
<1>3. CASE UNCHANGED <<kHead, sqes, taken, sqeTail>> /\ pc # "PrepSQE" /\ pc' # "PrepSQE"
  BY <1>3 DEF Written, Queued, BQ!vars
<1>4. CASE UNCHANGED <<kHead, sqes, taken, sqeTail, pc>>
  BY <1>4 DEF Written, Queued, BQ!vars
<1>5. \/ \E op \in Ops : NextSQE(op)
      \/ UNCHANGED <<kHead, sqes, taken, sqeTail>> /\ pc # "PrepSQE" /\ pc' # "PrepSQE"
      \/ UNCHANGED <<kHead, sqes, taken, sqeTail, pc>>
  BY DEF Next, SubmitStep, KernelStep, FlushSQ, FlushEntry, StoreTail,
         CountPending, NeedsEnter, Drain, EnterTake, EnterReturn, EnterWakeup,
         InEnter, ThreadTake, ThreadIdle, ThreadPark, vars, memory, private, kernel
<1> QED
  BY <1>2, <1>3, <1>4, <1>5

(* The submission queue implements a bounded first-in first-out queue of   *)
(* *kRingEntries operations: for every ring size and counter width, no     *)
(* operation QueueSQE accepted is lost, duplicated, reordered or altered   *)
(* before the kernel takes it.                                             *)
THEOREM ImplementsFIFO == Spec => FIFO
<1>1. IInv /\ IInv' /\ [Next]_vars => [BQ!Next]_BQ!vars
  <2> SUFFICES ASSUME IInv, IInv', [Next]_vars PROVE [BQ!Next]_BQ!vars
    OBVIOUS
  <2>1. CASE PrepSQE
    BY <2>1, QueuePut DEF BQ!Next
  <2>2. CASE TakeSQE
    <3>1. UNCHANGED <<pc, sqeTail>>
      BY <2>2, TakeKeeps
    <3> QED
      BY <2>2, <3>1, QueueTake DEF BQ!Next
  <2>3. CASE ~PrepSQE /\ ~TakeSQE
    BY <2>3, QueueStutter
  <2> QED
    BY <2>1, <2>2, <2>3
<1> QED
  BY QueueInit, Inductive, <1>1, PTL DEF Spec, FIFO, BQ!Spec
=============================================================================
