---------------------------- MODULE MemoryBudget ----------------------------
(***************************************************************************)
(* core/memory_budget.hpp: the tree of memory budgets of a worker and the  *)
(* move-only reservations charged to them.  Every operation updates the    *)
(* counters of the budget and of all its ancestors; nothing ever           *)
(* recomputes a counter, so a single asymmetric path corrupts the tree for *)
(* the rest of the process' life.                                          *)
(*                                                                         *)
(* A call that returns an error changes no state, so it is a stuttering    *)
(* step and its condition is the negation of the action's guard.           *)
(* EmergencyMemoryReserve wraps a budget of its own: it is a second root   *)
(* of Parent.                                                              *)
(***************************************************************************)
EXTENDS BudgetTree, Sequences

CONSTANTS
    Workers,    \* WorkerId values
    NoWorker,   \* worker_ of a budget object that does not exist
    Limits      \* the limits budgets are constructed with

ASSUME LimitAssumption == Limits \subseteq 0 .. SizeMax

VARIABLES
    alive,      \* budgets constructed and not destroyed
    worker,     \* worker_
    limit,      \* limit_
    charged,    \* charged_
    live,       \* live_reservations_
    children,   \* live_children_
    home,       \* MemoryReservation::budget_
    bytes,      \* MemoryReservation::bytes_
    frames,     \* temporaries of the reserve_for_allocation calls on the stack
    fault       \* which std::terminate() the process died in, "none" while it runs

vars == <<alive, worker, limit, charged, live, children, home, bytes, frames, fault>>

budgetVars == <<alive, worker, limit, children>>

\* Unsigned std::size_t arithmetic: wraps modulo SizeMax + 1.
Plus(x, y) == IF x + y <= SizeMax THEN x + y ELSE x + y - SizeMax - 1
Minus(x, y) == IF x >= y THEN x - y ELSE x - y + SizeMax + 1

TypeOK ==
    /\ alive \subseteq Budgets
    /\ worker \in [Budgets -> Workers \cup {NoWorker}]
    /\ \A b \in alive : worker[b] \in Workers
    /\ limit \in [Budgets -> 0 .. SizeMax]
    /\ charged \in [Budgets -> 0 .. SizeMax]
    /\ live \in [Budgets -> 0 .. SizeMax]
    /\ children \in [Budgets -> 0 .. SizeMax]
    /\ home \in [Reservations -> Budgets \cup {NoBudget}]
    /\ bytes \in [Reservations -> 0 .. SizeMax]
    /\ frames \in Seq(Reservations)
    /\ fault \in {"none", "lifetime", "counter"}

Init ==
    /\ alive = {}
    /\ worker = [b \in Budgets |-> NoWorker]
    /\ limit = [b \in Budgets |-> 0]
    /\ charged = [b \in Budgets |-> 0]
    /\ live = [b \in Budgets |-> 0]
    /\ children = [b \in Budgets |-> 0]
    /\ home = [r \in Reservations |-> NoBudget]
    /\ bytes = [r \in Reservations |-> 0]
    /\ frames = <<>>
    /\ fault = "none"

-----------------------------------------------------------------------------
Running == fault = "none"

\* The temporary of a reserve_for_allocation call that is still in acquire().
OnStack(r) == \E i \in 1 .. Len(frames) : frames[i] = r

\* A reservation object its owner can operate on.
Reachable(r) == Running /\ ~OnStack(r)

Terminate(cause) ==
    /\ fault' = cause
    /\ UNCHANGED <<alive, worker, limit, charged, live, children, home, bytes, frames>>

-----------------------------------------------------------------------------
(* MemoryBudget: construction and destruction.                             *)

\* live_children_ of the parent when a child is registered or unregistered.
Registered(b) ==
    IF Parent[b] = NoBudget THEN children
    ELSE [children EXCEPT ![Parent[b]] = Plus(@, 1)]
Unregistered(b) ==
    IF Parent[b] = NoBudget THEN children
    ELSE [children EXCEPT ![Parent[b]] = Minus(@, 1)]

\* Variants that take the caller's worker, or read the new budget's own field.
OwnerIsCaller(b, w) == w
\* A root takes the caller's worker, a child inherits its parent's.
OwnerOf(b, w) == IF Parent[b] = NoBudget THEN w ELSE worker[Parent[b]]

Construct(b, w, l) ==
    /\ Running
    /\ b \notin alive
    /\ Parent[b] # NoBudget => Parent[b] \in alive
    /\ IF Parent[b] # NoBudget /\ children[Parent[b]] = SizeMax
       THEN Terminate("counter")
       ELSE /\ alive' = alive \cup {b}
            /\ worker' = [worker EXCEPT ![b] = OwnerOf(b, w)]
            /\ limit' = [limit EXCEPT ![b] = l]
            /\ charged' = [charged EXCEPT ![b] = 0]
            /\ live' = [live EXCEPT ![b] = 0]
            /\ children' = [Registered(b) EXCEPT ![b] = 0]
            /\ UNCHANGED <<home, bytes, frames, fault>>

\* Variant that forgets the children.
ReadyIgnoringChildren(b) == live[b] = 0

ReadyForDestruction(b) == live[b] = 0 /\ children[b] = 0

Destroy(b) ==
    /\ Running
    /\ b \in alive
    /\ IF ~ReadyForDestruction(b)
       THEN Terminate("lifetime")
       ELSE IF Parent[b] # NoBudget /\ children[Parent[b]] = 0
       THEN Terminate("counter")
       ELSE /\ alive' = alive \ {b}
            /\ children' = Unregistered(b)
            /\ worker' = [worker EXCEPT ![b] = NoWorker]
            /\ limit' = [limit EXCEPT ![b] = 0]
            /\ UNCHANGED <<charged, live, home, bytes, frames, fault>>

-----------------------------------------------------------------------------
(* The loops over a budget and its ancestors.                              *)

\* Variant that checks the leaf only.
PreflightLeafOnly(b, n) == n <= Minus(limit[b], charged[b]) /\ live[b] # SizeMax

PreflightReservation(b, n) ==
    \A a \in Chain[b] : n <= Minus(limit[a], charged[a]) /\ live[a] # SizeMax

ChargedMore(b, n) ==
    [a \in Budgets |-> IF a \in Chain[b] THEN Plus(charged[a], n) ELSE charged[a]]
ChargedLess(b, n) ==
    [a \in Budgets |-> IF a \in Chain[b] THEN Minus(charged[a], n) ELSE charged[a]]
LiveMore(b) ==
    [a \in Budgets |-> IF a \in Chain[b] THEN Plus(live[a], 1) ELSE live[a]]
\* Variant that leaves the ancestors' counts alone.
LiveLessLeafOnly(b) == [live EXCEPT ![b] = Minus(@, 1)]

LiveLess(b) ==
    [a \in Budgets |-> IF a \in Chain[b] THEN Minus(live[a], 1) ELSE live[a]]

\* Variant that does not let the last byte be released.
CoveredStrictly(b, n) == \A a \in Chain[b] : charged[a] > n /\ live[a] # 0

\* The check release() makes at each budget before it subtracts.
Covered(b, n) == \A a \in Chain[b] : charged[a] >= n /\ live[a] # 0

-----------------------------------------------------------------------------
(* MemoryBudget::reserve and reserve_for_allocation.                       *)

ChargeNew(b, n, r) ==
    /\ charged' = ChargedMore(b, n)
    /\ live' = LiveMore(b)
    /\ home' = [home EXCEPT ![r] = b]
    /\ bytes' = [bytes EXCEPT ![r] = n]

Reserve(w, b, n, r) ==
    /\ Reachable(r)
    /\ home[r] = NoBudget
    /\ b \in alive
    /\ worker[b] = w
    /\ PreflightReservation(b, n)
    /\ ChargeNew(b, n, r)
    /\ UNCHANGED <<budgetVars, frames, fault>>

\* Charges first; the acquire callback runs while r is a local temporary and
\* may itself use the budgets.
BeginAllocation(w, b, n, r) ==
    /\ Reachable(r)
    /\ home[r] = NoBudget
    /\ b \in alive
    /\ worker[b] = w
    /\ PreflightReservation(b, n)
    /\ ChargeNew(b, n, r)
    /\ frames' = Append(frames, r)
    /\ UNCHANGED <<budgetVars, fault>>

PopFrame == frames' = [i \in 1 .. Len(frames) - 1 |-> frames[i]]

\* acquire() succeeded: the reservation is moved out to the caller.
FinishAllocation ==
    /\ Running
    /\ frames # <<>>
    /\ PopFrame
    /\ UNCHANGED <<budgetVars, charged, live, home, bytes, fault>>

-----------------------------------------------------------------------------
(* MemoryReservation.                                                      *)

Discharge(r) ==
    /\ charged' = ChargedLess(home[r], bytes[r])
    /\ live' = LiveLess(home[r])
    /\ home' = [home EXCEPT ![r] = NoBudget]
    /\ bytes' = [bytes EXCEPT ![r] = 0]

\* acquire() failed: the temporary is destroyed and rolls its charge back.
FailAllocation ==
    /\ Running
    /\ frames # <<>>
    /\ LET r == frames[Len(frames)] IN
         IF Covered(home[r], bytes[r])
         THEN Discharge(r) /\ PopFrame /\ UNCHANGED <<budgetVars, fault>>
         ELSE Terminate("counter")

\* ~MemoryReservation: no worker check.
Drop(r) ==
    /\ Reachable(r)
    /\ home[r] # NoBudget
    /\ IF Covered(home[r], bytes[r])
       THEN Discharge(r) /\ UNCHANGED <<budgetVars, frames, fault>>
       ELSE Terminate("counter")

Release(w, r) ==
    /\ home[r] # NoBudget /\ worker[home[r]] = w
    /\ Drop(r)

Grow(w, r, n) ==
    /\ Reachable(r)
    /\ home[r] # NoBudget
    /\ worker[home[r]] = w
    /\ PreflightReservation(home[r], n)
    /\ n <= SizeMax - bytes[r]
    /\ charged' = ChargedMore(home[r], n)
    /\ bytes' = [bytes EXCEPT ![r] = Plus(@, n)]
    /\ UNCHANGED <<budgetVars, live, home, frames, fault>>

Shrink(w, r, n) ==
    /\ Reachable(r)
    /\ home[r] # NoBudget
    /\ worker[home[r]] = w
    /\ n <= bytes[r]
    /\ IF \A a \in Chain[home[r]] : charged[a] >= n
       THEN /\ charged' = ChargedLess(home[r], n)
            /\ bytes' = [bytes EXCEPT ![r] = Minus(@, n)]
            /\ UNCHANGED <<budgetVars, live, home, frames, fault>>
       ELSE Terminate("counter")

\* Variant that exchanges the two instead of releasing what dst holds.
Swap(dst, src) ==
    /\ Reachable(dst) /\ Reachable(src) /\ dst # src
    /\ home' = [home EXCEPT ![dst] = home[src], ![src] = home[dst]]
    /\ bytes' = [bytes EXCEPT ![dst] = bytes[src], ![src] = bytes[dst]]
    /\ UNCHANGED <<budgetVars, charged, live, frames, fault>>

\* Move construction and move assignment: dst first releases what it holds.
Move(dst, src) ==
    /\ Reachable(dst)
    /\ Reachable(src)
    /\ dst # src
    /\ IF home[dst] = NoBudget
       THEN UNCHANGED <<charged, live, fault>>
       ELSE IF Covered(home[dst], bytes[dst])
       THEN /\ charged' = ChargedLess(home[dst], bytes[dst])
            /\ live' = LiveLess(home[dst])
            /\ UNCHANGED fault
       ELSE fault' = "counter" /\ UNCHANGED <<charged, live>>
    /\ home' = [home EXCEPT ![dst] = home[src], ![src] = NoBudget]
    /\ bytes' = [bytes EXCEPT ![dst] = bytes[src], ![src] = 0]
    /\ UNCHANGED <<budgetVars, frames>>

-----------------------------------------------------------------------------
Next ==
    \/ \E b \in Budgets, w \in Workers, l \in Limits : Construct(b, w, l)
    \/ \E b \in Budgets : Destroy(b)
    \/ \E w \in Workers, b \in Budgets, n \in 0 .. SizeMax, r \in Reservations :
          Reserve(w, b, n, r) \/ BeginAllocation(w, b, n, r)
    \/ FinishAllocation
    \/ FailAllocation
    \/ \E r \in Reservations : Drop(r)
    \/ \E w \in Workers, r \in Reservations : Release(w, r)
    \/ \E w \in Workers, r \in Reservations, n \in 0 .. SizeMax :
          Grow(w, r, n) \/ Shrink(w, r, n)
    \/ \E dst, src \in Reservations : Move(dst, src)

Spec == Init /\ [][Next]_vars

-----------------------------------------------------------------------------
\* The incremental counters of every live budget equal what the reservations
\* and the child budgets that exist add up to: charged_ is the bytes held on
\* the budget and below it, live_reservations_ their number, live_children_
\* the number of constructed children.  Every path of reserve, grow, shrink,
\* release, the rollback of reserve_for_allocation and the moves keeps it.
CountersConserved ==
    \A b \in alive :
        /\ charged[b] = LoadOf(home, bytes, b)
        /\ live[b] = Cardinality(HeldUnder(home, b))
        /\ children[b] = Cardinality(ChildrenOf(b) \cap alive)

\* No budget is charged past its limit, even when the limits of its children
\* add up to more than its own, so available()'s limit_ - charged_ never wraps.
WithinLimit == \A b \in alive : charged[b] <= limit[b]

\* An active reservation and a live child only ever refer to budgets that
\* exist: the destructor's terminate() is enough to keep budget_ and parent_
\* from dangling along the whole chain that release() walks.
NoDanglingBudget ==
    /\ \A b \in alive : Chain[b] \subseteq alive
    /\ \A r \in Reservations : home[r] # NoBudget => Chain[home[r]] \subseteq alive

\* require_worker() looks at the leaf only, but the operation updates every
\* ancestor: all budgets of a chain belong to the worker of the leaf.
OneWorkerPerChain ==
    \A b \in alive : \A a \in Chain[b] : worker[a] = worker[b]

\* The terminate() calls that guard the counters (release, shrink, register
\* and unregister) are never reached; only destroying a budget in use can
\* stop the process.
NoCounterFault == fault # "counter"

=============================================================================
