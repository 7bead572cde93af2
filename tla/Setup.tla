------------------------------- MODULE Setup -------------------------------
(***************************************************************************)
(* Making and closing rings (uring/ring.go New, CreateMany, Close;         *)
(* uring/setup.go allocRing, freeRing): what a process acquires, in which  *)
(* order, and what it gives back when a step fails or the rings are        *)
(* closed. Rings are told apart by their descriptor; a mapping is a        *)
(* descriptor and the part of the ring it maps.                            *)
(***************************************************************************)
EXTENDS Naturals, Sequences, FiniteSetsExt

CONSTANTS MaxCount     \* bound: rings asked for

ASSUME SetupAssumption == MaxCount \in Nat \ {0}

(* Descriptors, one to spare; 0 names none. *)
FDs == 1 .. MaxCount + 1
NoFd == 0

VARIABLES
    count, wpCount,  \* arguments of CreateMany
    single,          \* IORING_FEAT_SINGLE_MMAP
    pc,              \* where CreateMany, New or allocRing is
    i, j,            \* loop variables of CreateMany; j = 0 for the main ring
    new,             \* descriptor of the ring New is making
    main,            \* descriptor of mainRing
    rings,           \* rings made so far
    pool,            \* per ring made: the ring whose worker pool it uses
    defers,          \* descriptors whose Close is in defers
    open,            \* descriptors open
    mapped,          \* mappings in place
    abandoned,       \* descriptor of a ring that New failed to map
    unmapFailed      \* a munmap named a mapping that was not in place

args == <<count, wpCount, single>>
created == <<rings, pool, defers>>
held == <<open, mapped, abandoned, unmapFailed>>
vars == <<args, pc, i, j, new, main, created, held>>

PCs == {"start", "setup", "mapSQ", "mapCQ", "mapSQEs", "register",
        "created", "failing", "closing", "failed", "closed",
        "panicked"}

TypeOK ==
    /\ count \in 1 .. MaxCount /\ wpCount \in 0 .. MaxCount
    /\ single \in BOOLEAN
    /\ pc \in PCs
    /\ i \in 0 .. MaxCount /\ j \in 0 .. MaxCount
    /\ new \in FDs \cup {NoFd} /\ main \in FDs \cup {NoFd}
    /\ rings \in Seq(FDs) /\ Len(rings) <= count
    /\ DOMAIN pool \subseteq FDs /\ \A fd \in DOMAIN pool : pool[fd] \in FDs
    /\ defers \subseteq FDs
    /\ open \subseteq FDs
    /\ mapped \subseteq FDs \X {"sq", "cq", "sqes"}
    /\ abandoned \subseteq FDs
    /\ unmapFailed \in BOOLEAN

Init ==
    /\ count \in 1 .. MaxCount /\ wpCount \in 0 .. MaxCount
    /\ single \in BOOLEAN
    /\ pc = "start"
    /\ i = 0 /\ j = 0
    /\ new = NoFd /\ main = NoFd
    /\ rings = << >> /\ pool = << >> /\ defers = {}
    /\ open = {} /\ mapped = {} /\ abandoned = {}
    /\ unmapFailed = FALSE

-----------------------------------------------------------------------------
(* CreateMany's checks; the remainder of a division by 0 panics. *)
Start ==
    /\ pc = "start"
    /\ pc' = CASE wpCount > count -> "failed"
               [] wpCount = 0 -> "panicked"
               [] wpCount \in 1 .. count ->
                    IF count % wpCount = 0 THEN "setup" ELSE "failed"
    /\ UNCHANGED <<args, i, j, new, main, created, held>>

instancePerPool == count \div wpCount

(* New: io_uring_setup, which returns the lowest free descriptor, then     *)
(* allocRing's three mappings.                                             *)
SysSetup ==
    /\ pc = "setup"
    /\ new' = Min(FDs \ open)
    /\ open' = open \cup {new'}
    /\ pc' = "mapSQ"
    /\ UNCHANGED <<args, i, j, main, created, mapped, abandoned, unmapFailed>>

(* Too many entries, or io_uring_setup fails: nothing was acquired. *)
SysSetupFails ==
    /\ pc = "setup"
    /\ new' = NoFd
    /\ pc' = "failing"
    /\ UNCHANGED <<args, i, j, main, created, held>>

MapPart(at, part, next) ==
    /\ pc = at
    /\ mapped' = mapped \cup {<<new, part>>}
    /\ pc' = next
    /\ UNCHANGED <<args, i, j, new, main, created, open, abandoned, unmapFailed>>

(* With a single mapping cqRing.buff is sqRing.buff. *)
MapSQ == MapPart("mapSQ", "sq", IF single THEN "mapSQEs" ELSE "mapCQ")

MapCQ == MapPart("mapCQ", "cq", "mapSQEs")

MapSQEs == MapPart("mapSQEs", "sqes", "register")

-----------------------------------------------------------------------------
(* freeRing: munmap sqRing.buff, then cqRing.buff if it was set and is     *)
(* another mapping. The SQE array is not unmapped.                         *)

(* Mutant: a shared mapping is not recognised. *)
SecondBufferAlways(fd, cqSet) == IF single THEN <<<<fd, "sq">>>> ELSE <<<<fd, "cq">>>>

SecondBuffer(fd, cqSet) == IF cqSet /\ ~single THEN <<<<fd, "cq">>>> ELSE << >>

Buffers(fd, cqSet) == <<<<fd, "sq">>>> \o SecondBuffer(fd, cqSet)

FreeRing(fd, cqSet) ==
    LET bs == Buffers(fd, cqSet)
        set == {bs[k] : k \in DOMAIN bs}
    IN  /\ mapped' = mapped \ set
        /\ unmapFailed' = (unmapFailed \/ ~(set \subseteq mapped)
                                       \/ Cardinality(set) < Len(bs))

(* allocRing fails: what it mapped is unmapped, except that a failure of   *)
(* the first mapping leaves nothing to unmap. New returns the error and    *)
(* leaves the descriptor open.                                             *)
MapSQFails ==
    /\ pc = "mapSQ"
    /\ abandoned' = abandoned \cup {new}
    /\ pc' = "failing"
    /\ UNCHANGED <<args, i, j, new, main, created, open, mapped, unmapFailed>>

MapLaterFails ==
    /\ pc \in {"mapCQ", "mapSQEs"}
    /\ FreeRing(new, pc = "mapSQEs")
    /\ abandoned' = abandoned \cup {new}
    /\ pc' = "failing"
    /\ UNCHANGED <<args, i, j, new, main, created, open>>

-----------------------------------------------------------------------------
(* CreateMany records the ring and goes on. The inner loop, which makes    *)
(* the rings that share the main ring's pool, advances i as well.          *)

(* Mutant: the inner loop leaves i alone. *)
IndexAfterSame == i

IndexAfter == IF j = 0 THEN i ELSE i + 1

MoreRings(k) == k < count

(* Mutant: only main rings are closed later. *)
DefersMain == IF j = 0 THEN defers \cup {new} ELSE defers

Defers == defers \cup {new}

(* WithAttachedWQ(mainRing.fd) for the rings of the inner loop. *)
AttachedWQ == IF j = 0 THEN new ELSE main

Register ==
    /\ pc = "register"
    /\ rings' = Append(rings, new)
    /\ defers' = Defers
    /\ main' = AttachedWQ
    /\ pool' = [fd \in DOMAIN pool \cup {new} |-> IF fd = new THEN AttachedWQ ELSE pool[fd]]
    /\ IF j + 1 < instancePerPool
       THEN i' = IndexAfter /\ j' = j + 1 /\ pc' = "setup"
       ELSE /\ i' = IndexAfter + 1 /\ j' = 0
            /\ pc' = IF MoreRings(i') THEN "setup" ELSE "created"
    /\ UNCHANGED <<args, new, held>>

-----------------------------------------------------------------------------
(* Closing, in the arbitrary order of a Go map: after an error, or when    *)
(* the program calls the function CreateMany returned.                     *)

CallDefer ==
    /\ pc = "created"
    /\ pc' = "closing"
    /\ UNCHANGED <<args, i, j, new, main, created, held>>

(* Ring.Close. *)
Close(fd) ==
    /\ pc \in {"failing", "closing"}
    /\ fd \in defers
    /\ FreeRing(fd, TRUE)
    /\ open' = open \ {fd}
    /\ defers' = defers \ {fd}
    /\ UNCHANGED <<args, pc, i, j, new, main, rings, pool, abandoned>>

CloseDone ==
    /\ pc \in {"failing", "closing"}
    /\ defers = {}
    /\ pc' = IF pc = "failing" THEN "failed" ELSE "closed"
    /\ UNCHANGED <<args, i, j, new, main, created, held>>

(* Everything but the program's call of the function it was given. *)
CreateStep ==
    \/ Start
    \/ SysSetup \/ SysSetupFails
    \/ MapSQ \/ MapCQ \/ MapSQEs \/ MapSQFails \/ MapLaterFails
    \/ Register
    \/ (\E fd \in FDs : Close(fd)) \/ CloseDone

Next == CreateStep \/ CallDefer

Spec == Init /\ [][Next]_vars

-----------------------------------------------------------------------------
(* Properties *)

(* The rings whose worker pools are in use, and the rings that use m's.    *)
Mains == {pool[fd] : fd \in DOMAIN pool}
Sharing(m) == {fd \in DOMAIN pool : pool[fd] = m}

(* When CreateMany succeeds there are count rings on wpCount worker pools, *)
(* count / wpCount on each, and every ring is attached to a main ring that *)
(* is open and in a pool of its own, although two nested loops advance the *)
(* same index.                                                             *)
PoolsShared ==
    pc = "created" =>
        /\ Len(rings) = count
        /\ Cardinality(Mains) = wpCount
        /\ \A m \in Mains :
              /\ m \in open /\ pool[m] = m
              /\ Cardinality(Sharing(m)) = instancePerPool

(* Whichever step fails, and after the function CreateMany returned has    *)
(* run, no descriptor and no ring mapping of a ring that New made is left. *)
(* Left are the descriptor of the ring that New failed to map, and the     *)
(* mappings of SQE arrays, which freeRing does not undo.                   *)
CloseReleases ==
    pc \in {"failed", "closed"} =>
        /\ open = abandoned
        /\ mapped \subseteq FDs \X {"sqes"}

(* freeRing never unmaps twice, or what was not mapped: not when the rings *)
(* share one mapping, and not from any of allocRing's error returns.       *)
UnmapsOnce == ~unmapFailed

(* What the code does not keep (see README.md).                            *)

(* CreateMany answers every pair of counts with rings or an error.         *)
NoPanic == pc # "panicked"

-----------------------------------------------------------------------------
(* The inductive invariant behind the three properties.                    *)

InNew == {"mapSQ", "mapCQ", "mapSQEs", "register"}
Making == {"setup"} \cup InNew

(* CreateMany starts with nothing. *)
Fresh ==
    pc = "start" =>
        /\ i = 0 /\ j = 0
        /\ rings = << >> /\ pool = << >> /\ abandoned = {}

ArgsChecked ==
    pc \in Making \cup {"created"} => wpCount \in 1 .. count /\ count % wpCount = 0

(* Rings made: in full pools, and j in the pool being filled. The shared   *)
(* index counts them, but for the main ring of the pool being filled.      *)
Index ==
    /\ pc \in Making =>
          /\ Len(rings) < count
          /\ j < instancePerPool
          /\ Len(rings) = j + instancePerPool *
                (IF j = 0 THEN Cardinality(Mains) ELSE Cardinality(Mains) - 1)
          /\ i = IF j = 0 THEN Len(rings) ELSE Len(rings) - 1
    /\ pc = "created" =>
          /\ j = 0
          /\ Len(rings) = count
          /\ Len(rings) = instancePerPool * Cardinality(Mains)

Pools ==
    pc \in Making \cup {"created"} =>
        /\ \A m \in Mains :
              /\ m \in DOMAIN pool /\ pool[m] = m
              /\ Cardinality(Sharing(m)) = IF j > 0 /\ m = main THEN j ELSE instancePerPool
        /\ j > 0 => main \in Mains

(* The rings made are the ones that defers will close.                     *)
Recorded ==
    /\ Cardinality(DOMAIN pool) = Len(rings)
    /\ \A n \in 1 .. Len(rings) : rings[n] \in DOMAIN pool
    /\ pc \in Making \cup {"created"} => defers = DOMAIN pool /\ abandoned = {}

(* A descriptor is open for a ring made, for the ring New is making, or    *)
(* because New abandoned it.                                               *)
Descriptors ==
    /\ open = defers \cup abandoned \cup (IF pc \in InNew THEN {new} ELSE {})
    /\ pc \in InNew => new \in FDs \ defers
    /\ defers \cap abandoned = {}
    /\ pc \notin Making \cup {"created", "failing", "closing"} => defers = {}

(* What freeRing unmaps is mapped for every ring made, and for the ring    *)
(* New is making as far as allocRing has come, and for no other.           *)
RingParts == IF single THEN {"sq"} ELSE {"sq", "cq"}

NewParts ==
    CASE pc = "mapCQ" -> {"sq"}
      [] pc \in {"mapSQEs", "register"} -> RingParts
      [] OTHER -> {}

Mappings ==
    /\ \A fd \in FDs : \A part \in {"sq", "cq"} :
          <<fd, part>> \in mapped <=>
              \/ fd \in defers /\ part \in RingParts
              \/ fd = new /\ part \in NewParts
    /\ pc = "mapCQ" => ~single

SetupInv ==
    /\ TypeOK
    /\ Fresh /\ ArgsChecked /\ Index /\ Pools
    /\ Recorded /\ Descriptors /\ Mappings
    /\ UnmapsOnce
=============================================================================
