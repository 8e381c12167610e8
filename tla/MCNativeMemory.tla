--------------------------- MODULE MCNativeMemory ---------------------------
(***************************************************************************)
(* NativeMemory for TLC: two sessions and two ArenaPins of other code; the *)
(* members of each pair are interchangeable.                               *)
(***************************************************************************)
EXTENDS NativeMemory, TLC

CONSTANTS s1, s2, p1, p2

MCSessions == {s1, s2}
MCHolders == {s1, s2, p1, p2}
Symmetry == Permutations({s1, s2}) \cup Permutations({p1, p2})
=============================================================================
