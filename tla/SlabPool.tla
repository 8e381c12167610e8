------------------------------ MODULE SlabPool ------------------------------
(***************************************************************************)
(* core/slab_pool.hpp: a pool of slots with a free list threaded through   *)
(* them, and leases that destroy the object and free the slot when they    *)
(* are released, overwritten or destroyed.                                 *)
(*                                                                         *)
(* A lease is held by a handle: a variable of the caller, or a member of   *)
(* an object in a slot (one per object here), which is how lists and trees *)
(* of pooled objects are built.  Objects do not own each other in a cycle. *)
(* Constructors and destructors may call the pool again, so constructing   *)
(* and destroying are calls on a stack and not single steps.               *)
(***************************************************************************)
EXTENDS Integers, Sequences, FiniteSets, Functions

CONSTANTS
    Capacity,       \* capacity_
    Variables,      \* the caller's leases
    MaxNested       \* nested calls

ASSUME SlabAssumption == Capacity \in Nat /\ MaxNested \in Nat \ {0} /\ Variables \cap Nat = {}

VARIABLES
    initialized, freeHead, liveLeases,
    next, occupied, \* SlabPoolSlot::next and occupied of every slot
    lease,          \* the lease of every handle
    stack           \* constructions and destructions in progress

slabVars == <<initialized, freeHead, liveLeases, next, occupied, lease, stack>>

Slots == 1 .. Capacity
NoSlot == Capacity + 1
Handles == Variables \cup Slots     \* handle s is the member of the object in slot s

Inactive == [index |-> NoSlot, active |-> FALSE]

Frames == [op : {"construct", "destroy"}, handle : Handles, index : Slots]

SlabTypeOK ==
    /\ initialized \in BOOLEAN
    /\ freeHead \in Slots \cup {NoSlot}
    /\ liveLeases \in 0 .. Capacity
    /\ next \in [Slots -> Slots \cup {NoSlot}]
    /\ occupied \in [Slots -> BOOLEAN]
    /\ lease \in [Handles -> [index : Slots \cup {NoSlot}, active : BOOLEAN]]
    /\ stack \in Seq(Frames)

\* Slots are zeroed memory until the first try_acquire.
SlabInit ==
    /\ initialized = FALSE
    /\ freeHead = NoSlot
    /\ liveLeases = 0
    /\ next = [s \in Slots |-> 1]
    /\ occupied = [s \in Slots |-> FALSE]
    /\ lease = [h \in Handles |-> Inactive]
    /\ stack = <<>>

Top == stack[Len(stack)]
Popped == SubSeq(stack, 1, Len(stack) - 1)
InConstruction == {stack[i].index : i \in {j \in DOMAIN stack : stack[j].op = "construct"}}
InDestruction == {stack[i].index : i \in {j \in DOMAIN stack : stack[j].op = "destroy"}}

\* Handles a frame of the stack is working on are not touched by nested calls.
InUse == {stack[i].handle : i \in DOMAIN stack}

\* A handle exists when it is a variable or the object it is a member of does.
Exists(h) == h \in Variables \/ (h \in Slots /\ occupied[h] /\ h \notin InDestruction)

\* Whoever owns an object of the set owns the object it leases too.
OwnedTogether(set) == \A u \in set : lease[u].active => lease[u].index \in set

\* The slots an object owns: its own, and through its lease and theirs.
Owned(s) == {t \in Slots : \A set \in SUBSET Slots : s \in set /\ OwnedTogether(set) => t \in set}

\* Slots whose objects are destroyed before the calls in progress return.
Doomed == UNION {Owned(s) : s \in InDestruction}
-----------------------------------------------------------------------------
(* try_acquire.                                                            *)

\* Slots are linked in order; the last one's next is NoSlot.
InitialNext(s) == s + 1

Initialize ==
    /\ stack = <<>>
    /\ ~initialized
    /\ initialized' = TRUE
    /\ freeHead' = IF Capacity = 0 THEN NoSlot ELSE 1
    /\ next' = [s \in Slots |-> InitialNext(s)]
    /\ occupied' = [s \in Slots |-> FALSE]
    /\ UNCHANGED <<liveLeases, lease, stack>>

\* Variant that takes the slot off the free list when the object is complete.
HeadUntilBuilt(s) == freeHead

HeadAfterAcquire(s) == next[s]

\* The slot leaves the free list, and the constructor of its object starts.
TryAcquire(h) ==
    /\ initialized
    /\ Len(stack) < MaxNested
    /\ Exists(h) /\ h \notin InUse
    /\ ~lease[h].active
    /\ freeHead # NoSlot
    /\ freeHead' = HeadAfterAcquire(freeHead)
    /\ stack' = Append(stack, [op |-> "construct", handle |-> h, index |-> freeHead])
    /\ UNCHANGED <<initialized, liveLeases, next, occupied, lease>>

\* The constructor returns and the lease with it.
Constructed ==
    /\ stack # <<>>
    /\ Top.op = "construct"
    /\ occupied' = [occupied EXCEPT ![Top.index] = TRUE]
    /\ liveLeases' = liveLeases + 1
    /\ lease' = [lease EXCEPT ![Top.handle] = [index |-> Top.index, active |-> TRUE],
                              ![Top.index] = Inactive]
    /\ stack' = Popped
    /\ UNCHANGED <<initialized, freeHead, next>>
-----------------------------------------------------------------------------
(* Releasing, by release(), by a destructor or by an assignment.           *)

\* The destructor of the object starts.  The caller does not destroy an object
\* whose member a call in progress is working on.
ReleaseLease(h) ==
    /\ Len(stack) < MaxNested
    /\ Exists(h) /\ h \notin InUse
    /\ lease[h].active
    /\ Owned(lease[h].index) \cap InUse = {}
    /\ stack' = Append(stack, [op |-> "destroy", handle |-> h, index |-> lease[h].index])
    /\ UNCHANGED <<initialized, freeHead, liveLeases, next, occupied, lease>>

\* The destructor destroys the member of the object, and so the object it leases.
DestroyMember ==
    /\ stack # <<>>
    /\ Top.op = "destroy"
    /\ lease[Top.index].active
    /\ stack' = Append(stack, [op |-> "destroy", handle |-> Top.index,
                               index |-> lease[Top.index].index])
    /\ UNCHANGED <<initialized, freeHead, liveLeases, next, occupied, lease>>

\* The destructor has returned: the slot is free, the lease inactive.
Destroyed ==
    /\ stack # <<>>
    /\ Top.op = "destroy"
    /\ ~lease[Top.index].active
    /\ occupied' = [occupied EXCEPT ![Top.index] = FALSE]
    /\ next' = [next EXCEPT ![Top.index] = freeHead]
    /\ freeHead' = Top.index
    /\ liveLeases' = liveLeases - 1
    /\ lease' = [lease EXCEPT ![Top.handle].active = FALSE]
    /\ stack' = Popped
    /\ UNCHANGED initialized

MovedLease(to, from) == [lease EXCEPT ![to] = lease[from], ![from] = Inactive]

\* move_from into an inactive lease.  An active one is released first, see ReleaseLease.
\* The caller does not hand an object whose member a call in progress is working
\* on to an object that is being destroyed.
MoveLease(to, from) ==
    /\ to # from
    /\ {to, from} \cap InUse = {}
    /\ Exists(to) /\ Exists(from)
    /\ ~lease[to].active
    /\ lease[from].active
    /\ to \notin Owned(lease[from].index)
    /\ to \in Doomed => Owned(lease[from].index) \cap InUse = {}
    /\ lease' = MovedLease(to, from)
    /\ UNCHANGED <<initialized, freeHead, liveLeases, next, occupied, stack>>

SlabNext ==
    \/ Initialize
    \/ \E h \in Handles : TryAcquire(h) \/ ReleaseLease(h)
    \/ Constructed \/ DestroyMember \/ Destroyed
    \/ \E to, from \in Handles : MoveLease(to, from)

SlabSpec == SlabInit /\ [][SlabNext]_slabVars
-----------------------------------------------------------------------------
(* Properties.                                                             *)

\* Slots that are neither occupied nor given to a constructor.
FreeSlots == {s \in Slots : ~occupied[s]} \ InConstruction

\* free_head_ and the links lead through the n slots of the path and end.
FreeList(n, path) ==
    /\ freeHead = IF n = 0 THEN NoSlot ELSE path[1]
    /\ \A i \in 1 .. n : next[path[i]] = IF i = n THEN NoSlot ELSE path[i + 1]

\* The free list ends, and holds exactly the slots that are neither occupied
\* nor given to a constructor: none is lost and none is offered twice, through
\* acquires and releases nested in constructors and destructors.
\* Every occupied slot has one active lease, free slots have none, and
\* live_leases_ counts them; the checks that end in std::terminate never fire.
SlotsPartitioned ==
    /\ initialized =>
          LET n == Cardinality(FreeSlots)
          IN  \E path \in Bijection(1 .. n, FreeSlots) : FreeList(n, path)
    /\ liveLeases = Cardinality({s \in Slots : occupied[s]})
    /\ \A s \in Slots :
          Cardinality({h \in Handles : lease[h].active /\ lease[h].index = s})
              = IF occupied[s] THEN 1 ELSE 0
=============================================================================
