--------------------------- MODULE MCHttp2Session ---------------------------
(***************************************************************************)
(* Http2Session for TLC; the streams are interchangeable.                  *)
(***************************************************************************)
EXTENDS Http2Session, TLC

Symmetry == Permutations(Streams)

=============================================================================
