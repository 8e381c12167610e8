---------------------------- MODULE BoundedArena ----------------------------
(***************************************************************************)
(* core/bounded_arena.hpp: a bump allocator over one block of its source,  *)
(* charged to a memory budget as its capacity grows, invalidated as a      *)
(* whole by reset.  A view carries the generation it was allocated in; a   *)
(* pin keeps the arena from being reset while native code holds raw        *)
(* pointers into it.                                                       *)
(*                                                                         *)
(* The budget is shared: `others` is what its other clients hold.  Calls   *)
(* that fail (wrong worker, bad alignment, exhaustion, a failing source)   *)
(* change nothing and are stuttering steps.                                *)
(***************************************************************************)
EXTENDS Integers, FiniteSets

CONSTANTS
    InitialCapacity, MaximumCapacity,   \* constructor arguments
    BudgetLimit,                        \* limit of the budget the arena charges
    MaxGeneration,                      \* largest value of generation_
    MaxPins,                            \* largest value of live_pins_
    Sizes, Alignments,                  \* try_allocate arguments
    OtherSizes,                         \* what other clients of the budget reserve
    Holders,                            \* ArenaPin objects
    MaxViews                            \* views the client keeps at a time

ASSUME CapacityAssumption ==
    /\ InitialCapacity \in Nat \ {0}
    /\ MaximumCapacity \in Nat
    /\ InitialCapacity <= MaximumCapacity
    /\ BudgetLimit \in Nat

ASSUME BoundAssumption ==
    /\ MaxGeneration \in Nat \ {0}
    /\ MaxPins \in Nat
    /\ Sizes \subseteq Nat
    /\ Alignments \subseteq Nat \ {0}
    /\ OtherSizes \subseteq Nat
    /\ MaxViews \in Nat

VARIABLES
    capacity,       \* capacity_
    offset,         \* offset_
    active,         \* reservation_.is_active()
    reserved,       \* reservation_.bytes()
    others,         \* what the budget's other clients hold
    pins,           \* live_pins_
    holders,        \* the ArenaPin objects that hold a pin
    generation,     \* generation_
    views,          \* the ArenaViews the client keeps
    boundaries,     \* generations of the ArenaQuiescentBoundary objects it keeps
    status          \* "running", "destroyed" or "terminated"

arenaVars == <<capacity, offset, active, reserved, generation>>
pinVars == <<pins, holders>>
vars == <<arenaVars, others, pinVars, views, boundaries, status>>

Views == [gen : 1 .. MaxGeneration, start : 0 .. MaximumCapacity, size : Sizes]

TypeOK ==
    /\ capacity \in 0 .. MaximumCapacity
    /\ offset \in 0 .. MaximumCapacity
    /\ active \in BOOLEAN
    /\ reserved \in 0 .. BudgetLimit
    /\ others \in 0 .. BudgetLimit
    /\ pins \in 0 .. MaxPins
    /\ holders \subseteq Holders
    /\ generation \in 1 .. MaxGeneration
    /\ views \subseteq Views
    /\ boundaries \subseteq 1 .. MaxGeneration
    /\ status \in {"running", "destroyed", "terminated"}

Init ==
    /\ capacity = 0
    /\ offset = 0
    /\ active = FALSE
    /\ reserved = 0
    /\ others = 0
    /\ pins = 0
    /\ holders = {}
    /\ generation = 1
    /\ views = {}
    /\ boundaries = {}
    /\ status = "running"

Running == status = "running"

-----------------------------------------------------------------------------
(* try_allocate and ensure_capacity.                                       *)

\* Room in the budget for n more bytes.
BudgetRoom(n) == others + reserved + n <= BudgetLimit

\* One round of the doubling loop.
Doubled(size) == IF size > MaximumCapacity - size THEN MaximumCapacity ELSE size * 2

\* The loop: doubled until it holds q bytes.
Target(q) ==
    LET start == IF capacity = 0 THEN InitialCapacity ELSE capacity
        after[k \in 0 .. MaximumCapacity] == IF k = 0 THEN start ELSE Doubled(after[k - 1])
        rounds == CHOOSE k \in 0 .. MaximumCapacity :
                     /\ after[k] >= q
                     /\ \A j \in 0 .. k - 1 : after[j] < q
    IN  after[rounds]

\* What ensure_capacity(q) adds to the reservation.
Growth(q) == Target(q) - capacity

\* Makes room for q bytes: first acquires the block of the source with the
\* budget charged before it, later only charges the growth.
EnsureCapacity(q) ==
    IF q <= capacity
    THEN UNCHANGED <<capacity, active, reserved>>
    ELSE /\ BudgetRoom(Growth(q))
         /\ reserved' = reserved + Growth(q)
         /\ capacity' = Target(q)
         /\ active' = TRUE

Padding(alignment) ==
    IF offset % alignment = 0 THEN 0 ELSE alignment - (offset % alignment)

AlignedOffset(alignment) == offset + Padding(alignment)

\* A successful allocation of n > 0 bytes, as a step of the arena.
Allocate(n, alignment) ==
    /\ n > 0
    /\ AlignedOffset(alignment) + n <= MaximumCapacity
    /\ EnsureCapacity(AlignedOffset(alignment) + n)
    /\ offset' = AlignedOffset(alignment) + n
    /\ UNCHANGED generation

\* Zero bytes give an empty view of the current generation.
TryAllocate(n, alignment) ==
    /\ Running
    /\ Cardinality(views) < MaxViews
    /\ \/ /\ n = 0
          /\ views' = views \cup {[gen |-> generation, start |-> 0, size |-> 0]}
          /\ UNCHANGED arenaVars
       \/ /\ Allocate(n, alignment)
          /\ views' = views \cup
                {[gen |-> generation, start |-> AlignedOffset(alignment), size |-> n]}
    /\ UNCHANGED <<others, pinVars, boundaries, status>>

-----------------------------------------------------------------------------
(* Pins.                                                                   *)

Pin(h) ==
    /\ Running
    /\ h \notin holders
    /\ pins < MaxPins
    /\ pins' = pins + 1
    /\ holders' = holders \cup {h}
    /\ UNCHANGED <<arenaVars, others, views, boundaries, status>>

\* The destructor of an ArenaPin; release_pin terminates at zero.
ReleasePin(h) ==
    /\ Running
    /\ h \in holders
    /\ holders' = holders \ {h}
    /\ IF pins = 0
       THEN status' = "terminated" /\ UNCHANGED pins
       ELSE pins' = pins - 1 /\ UNCHANGED status
    /\ UNCHANGED <<arenaVars, others, views, boundaries>>

\* live_pins_ after the ArenaPin h released what it held, if anything.
PinsLess(h) == IF h \in holders THEN pins - 1 ELSE pins

\* Variant that leaves the source its pointer to the arena.
MovePinCopies(dst, src) ==
    /\ Running
    /\ dst # src
    /\ pins' = PinsLess(dst)
    /\ holders' = IF src \in holders THEN holders \cup {dst} ELSE holders \ {dst}
    /\ UNCHANGED <<arenaVars, others, views, boundaries, status>>

\* Move assignment: dst gives back its pin and takes the one of src, if any.
MovePin(dst, src) ==
    /\ Running
    /\ dst # src
    /\ pins' = PinsLess(dst)
    /\ holders' = (holders \ {dst, src}) \cup (IF src \in holders THEN {dst} ELSE {})
    /\ UNCHANGED <<arenaVars, others, views, boundaries, status>>
-----------------------------------------------------------------------------
(* Boundaries, reset, destruction, and the other clients of the budget.    *)

QuiescentBoundary ==
    /\ Running
    /\ boundaries' = boundaries \cup {generation}
    /\ UNCHANGED <<arenaVars, others, pinVars, views, status>>

\* Variant that does not look at the live pins.
ResetWhilePinned(g) == g = generation /\ generation < MaxGeneration

\* g is the generation of the boundary object the caller presents.
MayReset(g) == g = generation /\ pins = 0 /\ generation < MaxGeneration

\* ++generation_ makes every view of the old generation stale.
NewGeneration == generation + 1

\* A successful reset: the source gives its block back first, then the charge
\* is released and every view becomes stale.
Reset(g) ==
    /\ Running
    /\ g \in boundaries
    /\ MayReset(g)
    /\ active' = FALSE
    /\ reserved' = 0
    /\ capacity' = 0
    /\ offset' = 0
    /\ generation' = NewGeneration
    /\ UNCHANGED <<others, pinVars, views, boundaries, status>>

\* ~BoundedArena terminates while anything is charged or pinned.
MayDestroy == ~active /\ pins = 0

Destroy ==
    /\ Running
    /\ status' = IF MayDestroy THEN "destroyed" ELSE "terminated"
    /\ UNCHANGED <<arenaVars, others, pinVars, views, boundaries>>

\* Another client of the same budget reserves or releases.
OthersReserve(n) ==
    /\ Running
    /\ BudgetRoom(n)
    /\ others' = others + n
    /\ UNCHANGED <<arenaVars, pinVars, views, boundaries, status>>

OthersRelease(n) ==
    /\ Running
    /\ n <= others
    /\ others' = others - n
    /\ UNCHANGED <<arenaVars, pinVars, views, boundaries, status>>

Ended == ~Running /\ UNCHANGED vars

\* What the clients of the arena and of its budget do; `objects` are ArenaPins that
\* belong to no session.
ArenaNext(objects) ==
    \/ \E n \in Sizes, alignment \in Alignments : TryAllocate(n, alignment)
    \/ \E h \in objects : Pin(h) \/ ReleasePin(h)
    \/ \E dst, src \in objects : MovePin(dst, src)
    \/ QuiescentBoundary
    \/ \E g \in boundaries : Reset(g)
    \/ Destroy
    \/ \E n \in OtherSizes : OthersReserve(n) \/ OthersRelease(n)
    \/ Ended
-----------------------------------------------------------------------------
(* Properties.                                                             *)

\* ArenaView::bytes(): the view still passes the generation check.
Readable(v) == v.gen = generation

Span(v) == v.start .. (v.start + v.size - 1)

\* The budget is charged for exactly the capacity the arena may use, through
\* growth, resets and reservations of other clients, and never past its limit
\* (part of NoBlockLost in NativeMemory).
CapacityCharged ==
    /\ active <=> capacity > 0
    /\ reserved = capacity
    /\ offset <= capacity
    /\ others + reserved <= BudgetLimit

\* While a pin is held, no byte handed out by the arena becomes invalid: the
\* generation stays, and the used part only grows.
PinnedStays ==
    [][holders # {} => generation' = generation /\ offset' >= offset]_vars

=============================================================================
