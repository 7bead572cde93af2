---------------------------- MODULE CallbackMap -----------------------------
(***************************************************************************)
(* What the event loops of NetworkReactor need from the callback registry: *)
(* add hands out an id that no other request ever had and that is not one  *)
(* of the reserved user data values, and pop returns the callback of an id *)
(* to the first caller that asks for it, and nothing afterwards.           *)
(***************************************************************************)
CONSTANTS Goroutines, IDs, Reserved, Callbacks, NoCallback

VARIABLES map,      \* callback of each id, NoCallback if it has none
          used,     \* ids handed out
          returned  \* result of the last call of each goroutine

vars == <<map, used, returned>>

Result == [call : {"add"}, value : IDs] \cup [call : {"pop"}, value : Callbacks \cup {NoCallback}]

NoResult == [call |-> "none", value |-> NoCallback]

Init ==
    /\ map = [id \in IDs |-> NoCallback]
    /\ used = {}
    /\ returned = [g \in Goroutines |-> NoResult]

Add(g, cb) ==
    \E id \in IDs \ (used \cup Reserved) :
        /\ used' = used \cup {id}
        /\ map' = [map EXCEPT ![id] = cb]
        /\ returned' = [returned EXCEPT ![g] = [call |-> "add", value |-> id]]

Pop(g, id) ==
    /\ map' = [map EXCEPT ![id] = NoCallback]
    /\ returned' = [returned EXCEPT ![g] = [call |-> "pop", value |-> map[id]]]
    /\ UNCHANGED used

Next ==
    \E g \in Goroutines :
        \/ \E cb \in Callbacks : Add(g, cb)
        \/ \E id \in IDs : Pop(g, id)

Spec == Init /\ [][Next]_vars
=============================================================================
