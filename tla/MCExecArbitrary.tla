-------------------------- MODULE MCExecArbitrary ---------------------------
(* Two code addresses (each may be a start or an end), one return         *)
(* address, up to three nested API calls and three exec_arbitrary calls. *)
EXTENDS ExecArbitrary

MCCode == {1, 2}
MCRetAddrs == {7}
=============================================================================
