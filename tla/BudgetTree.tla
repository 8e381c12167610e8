----------------------------- MODULE BudgetTree -----------------------------
(***************************************************************************)
(* The static shape of a worker's memory budgets: which budget object is   *)
(* constructed under which parent, and the chain of budgets a loop         *)
(*                                                                         *)
(*   for (MemoryBudget* current = this; current; current = current->parent_) *)
(*                                                                         *)
(* of core/memory_budget.hpp visits.  `parent_` is a const member, so the  *)
(* shape of the tree never changes during a behaviour.                     *)
(***************************************************************************)
EXTENDS Integers, FiniteSets

CONSTANTS
    Budgets,        \* identities of MemoryBudget objects
    NoBudget,       \* the null MemoryBudget pointer
    Parent,         \* parent_ of each budget, NoBudget for a root
    Reservations,   \* identities of MemoryReservation objects
    SizeMax         \* std::numeric_limits<std::size_t>::max()

ASSUME ParentAssumption ==
    /\ NoBudget \notin Budgets
    /\ Parent \in [Budgets -> Budgets \cup {NoBudget}]

ASSUME SizeAssumption == SizeMax \in Nat

ASSUME FiniteAssumption == IsFiniteSet(Budgets) /\ IsFiniteSet(Reservations)

ChildrenOf(p) == {c \in Budgets : Parent[c] = p}

\* Child budgets are distinct objects in the address space size_t spans.
ASSUME ChildCountAssumption ==
    \A p \in Budgets : Cardinality(ChildrenOf(p)) <= SizeMax

\* A set of budgets that contains the parent of every member that has one.
ClosedUnderParent(S) ==
    \A b \in S : Parent[b] # NoBudget => Parent[b] \in S

\* The budgets the chain loop visits from b: b and all its ancestors.
Chain ==
    [b \in Budgets |->
        {a \in Budgets :
            \A S \in SUBSET Budgets : b \in S /\ ClosedUnderParent(S) => a \in S}]
-----------------------------------------------------------------------------
(* What a budget is charged for, as a function of the reservations alone:  *)
(* h maps a reservation to the budget it is held against (or NoBudget) and *)
(* n to its bytes.                                                         *)

\* The reservations charged to b: those made on b or on a descendant of b.
HeldUnder(h, b) ==
    {r \in Reservations : h[r] # NoBudget /\ b \in Chain[h[r]]}

\* One element per byte charged to b.
UnitsUnder(h, n, b) ==
    {u \in Reservations \X (1 .. SizeMax) :
        u[1] \in HeldUnder(h, b) /\ u[2] <= n[u[1]]}

LoadOf(h, n, b) == Cardinality(UnitsUnder(h, n, b))

=============================================================================
