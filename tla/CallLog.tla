------------------------------ MODULE CallLog ------------------------------
(***************************************************************************)
(* Function-call logging of QlOsUtils (src/qiling/os/utils.py 26, 113-157).*)
(* stringify quotes a string argument; print_function builds the line     *)
(* fname(args) = ret, dropping the "hook_" prefix of the hook's name and   *)
(* the names of the arguments update_ellipsis filed under ELLIPSIS_PREF.   *)
(*                                                                         *)
(* A string is a sequence of one-character strings over a, ', " and \.    *)
(* A parameter or hook name is a record [pref, id]: the prefix the code   *)
(* tests with startswith, and the rest.  The address prefix and the log   *)
(* level depend on the verbosity only and are left out.                   *)
(***************************************************************************)
EXTENDS Integers, Sequences, SequencesExt

ELLIPSIS_PREF == "__qlva_"
HOOK_PREF == "hook_"
NoName == [pref |-> "", id |-> ""]

(* repr(s) for the characters modelled: single quotes unless s holds a  *)
(* single quote and no double quote; a backslash and the chosen quote    *)
(* are escaped with a backslash.                                          *)
ReprQuote(s) ==
    IF (\E i \in DOMAIN s : s[i] = "'") /\ ~(\E i \in DOMAIN s : s[i] = "\"")
    THEN "\"" ELSE "'"

ReprChar(c, q) == IF c = "\\" \/ c = q THEN <<"\\", c>> ELSE <<c>>

Repr(s) ==
    LET q == ReprQuote(s)
    IN <<q>> \o FlattenSeq([i \in DOMAIN s |-> ReprChar(s[i], q)]) \o <<q>>

(* stringify(s): f'"{repr(s)[1:-1]}"'.                                    *)
Stringify(s) == <<"\"">> \o SubSeq(Repr(s), 2, Len(Repr(s)) - 1) \o <<"\"">>

(* __assign_arg(name, value): a name under ELLIPSIS_PREF is dropped.     *)
AssignArg(name, value) ==
    [name |-> IF name.pref = ELLIPSIS_PREF THEN NoName ELSE name, value |-> value]

(* print_function(address, fname, pargs, ret, passthru): the parts of the *)
(* line: the name without "hook_", the arguments, " = ret" when ret is   *)
(* not None (an int in hex), and " (PASSTHRU)".                           *)
PrintFunction(fname, pargs, ret, passthru) ==
    [fname |-> IF fname.pref = HOOK_PREF THEN [fname EXCEPT !.pref = ""] ELSE fname,
     args |-> [i \in DOMAIN pargs |-> AssignArg(pargs[i].name, pargs[i].value)],
     ret |-> ret,
     passthru |-> passthru]
=============================================================================
