------------------------- MODULE ConnectionStreams -------------------------
(***************************************************************************)
(* What a QUIC session and the HTTP/3 session over it have in common.      *)
(***************************************************************************)
EXTENDS Integers, Sequences

CONSTANTS
    Streams,    \* streams of the connection
    MaxBytes    \* bound: bytes written to each stream in a behaviour
=============================================================================
