---------------------------- MODULE MCMcuRunLoop ----------------------------
(* Three instruction addresses, counts 0, 1 and 2 besides None, ARM in    *)
(* both Thumb and ARM state, two consecutive runs.                        *)
EXTENDS McuRunLoop

MCAddrs == {0, 2, 4}
MCCounts == {0, 1, 2}
=============================================================================
