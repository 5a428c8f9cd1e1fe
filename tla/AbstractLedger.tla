--------------------------- MODULE AbstractLedger ---------------------------
(***************************************************************************)
(* What the call ledger promises (spec sections 4.1 and 8): the recorded   *)
(* calls form one log in call order, each under its name with one hook     *)
(* prefix stripped, and every string token remembers the length the log   *)
(* had when the token was seen.  A reset empties both.                     *)
(***************************************************************************)
EXTENDS Naturals, Sequences

CONSTANTS
  Names,    \* names a call is recorded under: <<prefixes, base>>
  Tokens,   \* string tokens
  Strings   \* strings, as their sequences of space-separated tokens

VARIABLES calls, seen

\* one leading "hook_" removed
Strip(n) == IF n[1] > 0 THEN <<n[1] - 1, n[2]>> ELSE n

Init ==
  /\ calls = <<>>
  /\ seen = [t \in Tokens |-> {}]

Record(n) ==
  /\ calls' = Append(calls, Strip(n))
  /\ UNCHANGED seen

Observe(s) ==
  /\ seen' = [t \in Tokens |->
                IF \E i \in DOMAIN s : s[i] = t THEN seen[t] \cup {Len(calls)}
                ELSE seen[t]]
  /\ UNCHANGED calls

Reset ==
  /\ calls' = <<>>
  /\ seen' = [t \in Tokens |-> {}]

Next ==
  \/ \E n \in Names : Record(n)
  \/ \E s \in Strings : Observe(s)
  \/ Reset

Spec == Init /\ [][Next]_<<calls, seen>>

=============================================================================
