---------------------------- MODULE MCIoRequest ----------------------------
(***************************************************************************)
(* Model-checking instance of IoRequest: two requests per session, one- to *)
(* three-byte buffers, the largest CTL_CODE fields, where the bit layout   *)
(* has no slack, and a heap of eight units with one-unit structures.       *)
(***************************************************************************)
EXTENDS IoRequest

MCLens == {1, 2, 3}
MCDeviceTypes == {32767}
MCFunctions == {4095}
MCAccesses == {3}

=============================================================================
