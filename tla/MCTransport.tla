----------------------------- MODULE MCTransport -----------------------------
(* An instance of Transport for TLC: a frame of a header only, which a write *)
(* takes whole, and one that is larger than the pipe.                        *)
EXTENDS Transport

Small == 0
Large == 3
Sizes == [f \in {Small, Large} |-> f]
Frames == {Small, Large}
=============================================================================
