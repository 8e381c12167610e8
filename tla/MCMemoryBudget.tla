--------------------------- MODULE MCMemoryBudget ---------------------------
(***************************************************************************)
(* A root with a child and a grandchild, and the root of an emergency      *)
(* reserve.  std::size_t has the values 0 .. 2, so that the live count and *)
(* the byte counters meet their largest value within three reservations.   *)
(***************************************************************************)
EXTENDS MemoryBudgetLedger, TLC

CONSTANTS root, child, leaf, emergency, none, nobody, r1, r2, r3, w1, w2

MCBudgets == {root, child, leaf, emergency}
MCParent == (root :> none) @@ (child :> root) @@ (leaf :> child) @@ (emergency :> none)
MCReservations == {r1, r2, r3}
MCWorkers == {w1, w2}
MCLimits == {1, 2}

Symmetry == Permutations(MCReservations) \cup Permutations(MCWorkers)

=============================================================================
