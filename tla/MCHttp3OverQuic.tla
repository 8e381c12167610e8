-------------------------- MODULE MCHttp3OverQuic --------------------------
(***************************************************************************)
(* Http3OverQuic for TLC: header lists on both sides of every limit.       *)
(***************************************************************************)
EXTENDS Http3OverQuic

MCMaxBytes == [s \in Streams |-> IF s = Control THEN 1 ELSE 2]

MCMaxLost == [s \in Streams |-> IF s = Control THEN 0 ELSE 1]

MCHeaderLists == {<<>>, << <<1, 1>> >>, << <<0, 1>> >>, << <<1, 1>>, <<1, 1>> >>,
                  << <<1, 0>>, <<1, 0>>, <<1, 0>> >>}
=============================================================================
