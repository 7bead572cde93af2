---------------------------- MODULE RingCounters ----------------------------
(***************************************************************************)
(* The unsigned arithmetic of the ring counters (head, tail, sqeHead,      *)
(* sqeTail). They are free-running uint32 values: they wrap at 2^32, they  *)
(* are compared only through their difference and they index an array only *)
(* through the ring mask. Modulus stands for 2^32; a model takes a small   *)
(* one so that the counters wrap many times over.                          *)
(***************************************************************************)
EXTENDS Integers

CONSTANT Modulus

ASSUME ModulusAssumption == Modulus \in Nat \ {0}

Counter == 0 .. (Modulus - 1)

(* uint32 addition and subtraction. *)
Add(a, b) == (a + b) % Modulus

Sub(a, b) == (a - b) % Modulus

(* counter & mask, where mask = size - 1 and size is a power of two. *)
Mask(c, size) == c % size
=============================================================================
