----------------------------- MODULE CallLedger -----------------------------
(***************************************************************************)
(* The API call ledger of QlOsUtils (src/qiling/os/utils.py lines 31-76):  *)
(* _call_api appends a record under the hook's name with its "hook_"       *)
(* prefix removed and takes the next position from syscalls_counter;       *)
(* string_appearance adds the current counter to the position set of      *)
(* every space-separated token; clear_syscalls resets all three fields.    *)
(*                                                                         *)
(* A name is <<k, base>>: `base` behind k "hook_" prefixes.  A record's    *)
(* params, retval, address and retaddr are passed through unchanged and    *)
(* are abstracted away: a record is its position.  A key absent from the   *)
(* dicts is an empty list or set.  A string is its list of tokens, as      *)
(* s.split(' ') returns it (never empty; "" is a token).                   *)
(***************************************************************************)
EXTENDS Integers, Sequences, FiniteSets, SequencesExt

CONSTANTS
  Bases,      \* API names without prefix
  MaxPrefix,  \* most "hook_" prefixes on a name
  Tokens,     \* string tokens ("" included)
  MaxTokens,  \* most tokens in a string
  MaxCalls    \* calls recorded between two clears

Names == (0..MaxPrefix) \X Bases
Keys == (0..(IF MaxPrefix > 0 THEN MaxPrefix - 1 ELSE 0)) \X Bases
Strings == SeqOf(Tokens, MaxTokens) \ {<<>>}

VARIABLES syscalls, syscalls_counter, appeared_strings

vars == <<syscalls, syscalls_counter, appeared_strings>>

\* if name.startswith('hook_'): name = name[5:]
Stripped(name) == IF name[1] > 0 THEN <<name[1] - 1, name[2]>> ELSE name

Init ==
  /\ syscalls = [k \in Keys |-> <<>>]
  /\ syscalls_counter = 0
  /\ appeared_strings = [t \in Tokens |-> {}]

\* mutant: the counter is bumped before the record takes its position
CallApiIncrementFirst(name) ==
  /\ syscalls_counter < MaxCalls
  /\ syscalls' = [syscalls EXCEPT ![Stripped(name)] = Append(@, syscalls_counter + 1)]
  /\ syscalls_counter' = syscalls_counter + 1
  /\ UNCHANGED appeared_strings

\* _call_api: append a record at position syscalls_counter, then count it
CallApi(name) ==
  /\ syscalls_counter < MaxCalls
  /\ syscalls' = [syscalls EXCEPT ![Stripped(name)] = Append(@, syscalls_counter)]
  /\ syscalls_counter' = syscalls_counter + 1
  /\ UNCHANGED appeared_strings

\* string_appearance: every token of s.split(' ') sees the current counter
StringAppearance(s) ==
  /\ appeared_strings' =
       [t \in Tokens |->
          IF \E i \in DOMAIN s : s[i] = t
          THEN appeared_strings[t] \cup {syscalls_counter}
          ELSE appeared_strings[t]]
  /\ UNCHANGED <<syscalls, syscalls_counter>>

\* mutant: clear_syscalls forgets to reset the counter
ClearSyscallsKeepCounter ==
  /\ syscalls' = [k \in Keys |-> <<>>]
  /\ appeared_strings' = [t \in Tokens |-> {}]
  /\ UNCHANGED syscalls_counter

\* mutant: clear_syscalls forgets the string table
ClearSyscallsKeepStrings ==
  /\ syscalls' = [k \in Keys |-> <<>>]
  /\ syscalls_counter' = 0
  /\ UNCHANGED appeared_strings

\* clear_syscalls
ClearSyscalls ==
  /\ syscalls' = [k \in Keys |-> <<>>]
  /\ syscalls_counter' = 0
  /\ appeared_strings' = [t \in Tokens |-> {}]

Next ==
  \/ \E n \in Names : CallApi(n)
  \/ \E s \in Strings : StringAppearance(s)
  \/ ClearSyscalls

Spec == Init /\ [][Next]_vars

-----------------------------------------------------------------------------
(* Properties.                                                             *)

\* every position recorded, with the key it is recorded under
Entries == UNION { { <<syscalls[k][i], k>> : i \in 1..Len(syscalls[k]) } : k \in Keys }

RECURSIVE LogOf(_)
\* entries read back as one log: keys in the order of their positions
LogOf(E) ==
  IF E = {} THEN <<>>
  ELSE LET first == CHOOSE e \in E : \A f \in E : e[1] <= f[1]
       IN <<first[2]>> \o LogOf(E \ {first})

Log == LogOf(Entries)

TypeOK ==
  /\ syscalls \in [Keys -> Seq(0..MaxCalls)]
  /\ syscalls_counter \in 0..MaxCalls
  /\ appeared_strings \in [Tokens -> SUBSET (0..MaxCalls)]
  /\ \A t \in Tokens : appeared_strings[t] \subseteq 0..syscalls_counter

\* The positions _call_api hands out since the last clear_syscalls are
\* exactly 0 .. syscalls_counter - 1, each used once, increasing within
\* each name's list (spec section 8).
PositionsExact ==
  /\ \A k \in Keys : \A i \in 1..(Len(syscalls[k]) - 1) :
        syscalls[k][i] < syscalls[k][i + 1]
  /\ SumFunction([k \in Keys |-> Len(syscalls[k])]) = syscalls_counter
  /\ {e[1] : e \in Entries} = 0..(syscalls_counter - 1)

\* The dict of per-name lists, the counter and the string table together
\* implement the abstract ledger: a single call log and, per token, the
\* log lengths at which it was seen.
AL == INSTANCE AbstractLedger WITH
        Names <- Names, Tokens <- Tokens, Strings <- Strings,
        calls <- Log, seen <- appeared_strings

LedgerRefinesAbstract == AL!Spec

=============================================================================
