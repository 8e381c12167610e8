--------------------------- MODULE MCCancellation ---------------------------
(***************************************************************************)
(* Cancellation for TLC: two states that can be made into a chain, two     *)
(* threads that finish them and one that looks at the chain.               *)
(***************************************************************************)
EXTENDS Cancellation, TLC

Symmetry == Permutations(States) \cup Permutations(Writers)

=============================================================================
