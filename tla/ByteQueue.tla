------------------------------ MODULE ByteQueue ------------------------------
(***************************************************************************)
(* What a byte buffer promises: bytes come out in the order they went in,  *)
(* none lost, repeated or made up.  Bytes are numbered as they go in.      *)
(***************************************************************************)
EXTENDS Integers, Sequences

CONSTANTS MaxBytes, MaxQueued

VARIABLES queue, produced

vars == <<queue, produced>>

Init == queue = <<>> /\ produced = 0

Put(n) ==
    /\ n <= MaxBytes - produced
    /\ Len(queue) + n <= MaxQueued
    /\ queue' = queue \o [i \in 1 .. n |-> produced + i]
    /\ produced' = produced + n

Take(n) ==
    /\ n <= Len(queue)
    /\ queue' = SubSeq(queue, n + 1, Len(queue))
    /\ UNCHANGED produced

Clear == queue' = <<>> /\ UNCHANGED produced

Next == Clear \/ \E n \in 1 .. MaxQueued : Put(n) \/ Take(n)

Spec == Init /\ [][Next]_vars
=============================================================================
