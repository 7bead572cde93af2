---------------------------- MODULE BoundedQueue ----------------------------
(***************************************************************************)
(* What a submission ring promises: a first-in first-out queue of at most  *)
(* Capacity operations. Every operation put in comes out once, in order,   *)
(* and with the contents it was given.                                     *)
(***************************************************************************)
EXTENDS Naturals, Sequences

CONSTANTS Ops,       \* operations, with all their parameters
          Capacity   \* how many the queue can hold

VARIABLES queue,     \* put in, not yet taken out
          taken      \* the last operation taken out

vars == <<queue, taken>>

Init ==
    /\ queue = << >>
    /\ taken \notin Ops

Put(op) ==
    /\ Len(queue) < Capacity
    /\ queue' = Append(queue, op)
    /\ UNCHANGED taken

Take ==
    /\ queue # << >>
    /\ taken' = Head(queue)
    /\ queue' = Tail(queue)

Next == Take \/ \E op \in Ops : Put(op)

Spec == Init /\ [][Next]_vars
=============================================================================
