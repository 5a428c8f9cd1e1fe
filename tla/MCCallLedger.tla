---------------------------- MODULE MCCallLedger ----------------------------
(***************************************************************************)
(* Model-checking instance of CallLedger: two API names reached through   *)
(* zero, one or two "hook_" prefixes (so that distinct hook names share a  *)
(* ledger key), a token and the empty token, three calls between clears.  *)
(***************************************************************************)
EXTENDS CallLedger

MCBases == {"CreateFileA", "DbgPrint"}
MCTokens == {"a", ""}

=============================================================================
