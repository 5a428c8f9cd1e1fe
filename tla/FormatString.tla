---------------------------- MODULE FormatString ----------------------------
(***************************************************************************)
(* The format emulator of QlOsUtils (src/qiling/os/utils.py 159-194): an   *)
(* API hook reads the variadic words with va_list, formats them with       *)
(* sprintf or printf (both through __common_printf), and files the         *)
(* arguments under "__qlva_<i>" with update_ellipsis.                      *)
(*                                                                         *)
(* A format is a sequence of one-character strings.  A guest word is Ptr   *)
(* (the address of the guest string Text) or Num (an integer that is not  *)
(* a mapped address).  An output item is a literal character or a          *)
(* converted value with its kind and whether it was padded.  The character *)
(* count sprintf and printf return, and the encodings, are left out.       *)
(***************************************************************************)
EXTENDS Integers, Sequences, SequencesExt

CONSTANTS
    Chars,      \* characters formats are made of
    MaxFmt,     \* longest format
    Ptr, Num,   \* guest words: a pointer to Text, and a plain integer
    Text,       \* the guest string at Ptr (one token)
    TextChars   \* its characters, as the call log quotes them

Words == {Ptr, Num}
Fail == [ok |-> FALSE, out |-> <<>>]

VARIABLES
    stack,      \* the guest words at the va_list pointer
    phase,      \* "idle", "args" (after va_list), "done" (after the format),
                \* "returned" (the hook has returned)
    fmt, args, wide,
    result,     \* [ok, out]: the formatted output, or ok = FALSE if it raised
    dest,       \* where the output went: "buffer" (sprintf) or "stdout" (printf)
    api,        \* the hook: "sprintf" or "printf"
    params,     \* the hook's params: [name, value] pairs in insertion order
    log,        \* the line print_function logged for the call
    syscalls, syscalls_counter, appeared_strings

vars == <<stack, phase, fmt, args, wide, result, dest, api, params, log,
          syscalls, syscalls_counter, appeared_strings>>

Ledger == INSTANCE CallLedger WITH Bases <- {"api"}, MaxPrefix <- 0,
            Tokens <- {Text}, MaxTokens <- 1, MaxCalls <- 0

Log == INSTANCE CallLog

(* format.count("%") and format.split("%")[1:].                           *)
CountPercent(f) == Len(SelectSeq(f, LAMBDA c : c = "%"))

RECURSIVE SplitPercent(_)
SplitPercent(f) ==
    IF \A i \in DOMAIN f : f[i] # "%" THEN <<f>>
    ELSE LET i == CHOOSE j \in DOMAIN f : f[j] = "%" /\ \A k \in 1..(j - 1) : f[k] # "%"
         IN <<SubSeq(f, 1, i - 1)>> \o SplitPercent(SubSeq(f, i + 1, Len(f)))

Pieces(f) == Tail(SplitPercent(f))

(* The conversion after a '%': optional '#', a width of '5's, the type.  *)
ConvSpec(r) ==
    LET alt == r # <<>> /\ r[1] = "#"
        r1 == IF alt THEN Tail(r) ELSE r
        n == CHOOSE n \in 0..Len(r1) :
               (\A k \in 1..n : r1[k] = "5") /\ (n = Len(r1) \/ r1[n + 1] # "5")
        r2 == SubSeq(r1, n + 1, Len(r1))
    IN [alt |-> alt, pad |-> n > 0,
        type |-> IF r2 = <<>> THEN "" ELSE r2[1],
        rest |-> IF r2 = <<>> THEN <<>> ELSE Tail(r2)]

Lit(c) == [kind |-> "lit", v |-> c, pad |-> FALSE]
NoValue == [kind |-> "none", v |-> "", pad |-> FALSE]
Emit(item, r) == [r EXCEPT !.out = <<item>> \o @]

(* Python's str % tuple for the conversions s, d and x: %s prints any    *)
(* value, %d and %x need an integer; an unknown type, a missing argument  *)
(* or a left-over one raises.                                             *)
PyValue(c, a) ==
    CASE c.type = "s" -> [kind |-> IF a = Text THEN "text" ELSE "int", v |-> a, pad |-> c.pad]
      [] c.type = "d" /\ a \in Words -> [kind |-> "int", v |-> a, pad |-> c.pad]
      [] c.type = "x" /\ a \in Words ->
            [kind |-> IF c.alt THEN "0x" ELSE "hex", v |-> a, pad |-> c.pad]
      [] OTHER -> NoValue

RECURSIVE PyFormat(_, _)
PyFormat(f, a) ==
    IF f = <<>> THEN [ok |-> a = <<>>, out |-> <<>>]
    ELSE IF f[1] # "%" THEN Emit(Lit(f[1]), PyFormat(Tail(f), a))
    ELSE LET c == ConvSpec(Tail(f)) IN
         CASE c.type = "%" -> Emit(Lit("%"), PyFormat(c.rest, a))
           [] a # <<>> /\ PyValue(c, Head(a)) # NoValue ->
                 Emit(PyValue(c, Head(a)), PyFormat(c.rest, Tail(a)))
           [] OTHER -> Fail

(* out = format.replace('%p', '%#x'), left to right.                      *)
RECURSIVE ReplaceP(_)
ReplaceP(f) ==
    IF Len(f) < 2 THEN f
    ELSE IF f[1] = "%" /\ f[2] = "p" THEN <<"%", "#", "x">> \o ReplaceP(SubSeq(f, 3, Len(f)))
    ELSE <<f[1]>> \o ReplaceP(Tail(f))

(* Mutant of the loop: piece i dereferences argument i + 1.              *)
RECURSIVE DerefShifted(_, _, _, _)
DerefShifted(i, pieces, a, filed) ==
    IF i > Len(pieces) THEN [ok |-> TRUE, args |-> a, filed |-> filed]
    ELSE IF pieces[i] # <<>> /\ pieces[i][1] = "s" /\ i + 1 <= Len(a) /\ a[i + 1] = Ptr
         THEN DerefShifted(i + 1, pieces, [a EXCEPT ![i + 1] = Text], Append(filed, Text))
    ELSE DerefShifted(i + 1, pieces, a, filed)

(* for i, f in enumerate(fmtstr): if f.startswith("s"):                   *)
(*     args[i] = read_string(args[i])                                     *)
(* read_string files the text in the ledger; reading at Num faults, and   *)
(* the arguments replaced and texts filed before it stay.                 *)
RECURSIVE Deref(_, _, _, _)
Deref(i, pieces, a, filed) ==
    IF i > Len(pieces) THEN [ok |-> TRUE, args |-> a, filed |-> filed]
    ELSE IF pieces[i] # <<>> /\ pieces[i][1] = "s"
         THEN IF i <= Len(a) /\ a[i] = Ptr
              THEN Deref(i + 1, pieces, [a EXCEPT ![i] = Text], Append(filed, Text))
              ELSE [ok |-> FALSE, args |-> a, filed |-> filed]
    ELSE Deref(i + 1, pieces, a, filed)

(* __common_printf(format, args, wstring).                                *)
CommonPrintf(f, a) ==
    LET d == Deref(1, Pieces(f), a, <<>>)
    IN [args |-> d.args, filed |-> d.filed,
        res |-> IF d.ok THEN PyFormat(ReplaceP(f), d.args) ELSE Fail]

(* Mutant of va_list: one word fewer than the '%' count.                 *)
VaListShort(f) == SubSeq(stack, 1, CountPercent(f) - 1)

(* va_list(format, ptr): count("%") pointer-sized words from ptr.        *)
VaList(f) == SubSeq(stack, 1, CountPercent(f))

Formats == SeqOf(Chars, MaxFmt)

(* The hook's declared parameters, as the caller resolved them: buff    *)
(* (an address, an int) for sprintf, and the format (a str).              *)
Declared(h, f) ==
    (IF h = "sprintf" THEN <<[name |-> [pref |-> "", id |-> "buff"], value |-> [int |-> "buff"]]>>
     ELSE <<>>)
    \o <<[name |-> [pref |-> "", id |-> "format"], value |-> [str |-> f]]>>

(* How the caller renders a parameter value for the log: a string with  *)
(* stringify, an integer in hex.                                          *)
LogValue(v) ==
    IF v = Text THEN [kind |-> "str", text |-> Log!Stringify(TextChars)]
    ELSE IF v \in Words THEN [kind |-> "int", text |-> <<v>>]
    ELSE IF "str" \in DOMAIN v THEN [kind |-> "str", text |-> Log!Stringify(v.str)]
    ELSE [kind |-> "int", text |-> <<v.int>>]

NoLog == [fname |-> Log!NoName, args |-> <<>>, ret |-> "none", passthru |-> FALSE]

Init ==
    /\ stack \in [1..MaxFmt -> Words]
    /\ phase = "idle" /\ fmt = <<>> /\ args = <<>> /\ wide = FALSE
    /\ result = [ok |-> TRUE, out |-> <<>>] /\ dest = "none"
    /\ api = "none" /\ params = <<>> /\ log = NoLog
    /\ Ledger!Init

(* Hook h starts with its declared params and reads the variadic         *)
(* arguments of format f.                                                 *)
ReadArgs(h, f) ==
    /\ phase = "idle"
    /\ api' = h /\ params' = Declared(h, f)
    /\ fmt' = f /\ args' = VaList(f) /\ phase' = "args"
    /\ UNCHANGED <<stack, wide, result, dest, log, syscalls, syscalls_counter, appeared_strings>>

(* sprintf / printf: __common_printf mutates args in place and files the *)
(* dereferenced texts; then the output is written to the buffer or to    *)
(* stdout, or the % operator raised and nothing is written.              *)
Format(w, d) ==
    LET r == CommonPrintf(fmt, args) IN
    /\ phase = "args"
    /\ args' = r.args /\ wide' = w /\ result' = r.res
    /\ dest' = IF r.res.ok THEN d ELSE "none"
    /\ Ledger!StringAppearance(r.filed)
    /\ phase' = "done"
    /\ UNCHANGED <<stack, fmt, api, params, log>>

Sprintf(w) == api = "sprintf" /\ Format(w, "buffer")
Printf(w) == api = "printf" /\ Format(w, "stdout")

(* Mutant: the words va_list read are filed, not the arguments sprintf   *)
(* rewrote in place.                                                      *)
UpdateEllipsisRaw ==
    /\ phase = "done"
    /\ params' = IF result.ok
                 THEN params \o [i \in DOMAIN args |->
                        [name |-> [pref |-> Log!ELLIPSIS_PREF, id |-> i - 1],
                         value |-> VaList(fmt)[i]]]
                 ELSE params
    /\ phase' = "returned"
    /\ UNCHANGED <<stack, fmt, args, wide, result, dest, api, log, syscalls, syscalls_counter, appeared_strings>>

(* update_ellipsis(params, args): params["__qlva_<i>"] = args[i]; a      *)
(* hook whose format raised never gets there.                             *)
UpdateEllipsis ==
    /\ phase = "done"
    /\ params' = IF result.ok
                 THEN params \o [i \in DOMAIN args |->
                        [name |-> [pref |-> Log!ELLIPSIS_PREF, id |-> i - 1],
                         value |-> args[i]]]
                 ELSE params
    /\ phase' = "returned"
    /\ UNCHANGED <<stack, fmt, args, wide, result, dest, api, log, syscalls, syscalls_counter, appeared_strings>>

(* The hook has returned: the caller logs the call with print_function,  *)
(* passing every param as (name, rendered value) and the int result.     *)
LogCall ==
    /\ phase = "returned" /\ result.ok
    /\ log' = Log!PrintFunction([pref |-> Log!HOOK_PREF, id |-> api],
                 [i \in DOMAIN params |-> [name |-> params[i].name,
                                           value |-> LogValue(params[i].value)]],
                 "int", FALSE)
    /\ phase' = "logged"
    /\ UNCHANGED <<stack, fmt, args, wide, result, dest, api, params, syscalls, syscalls_counter, appeared_strings>>

(* One hook call per behaviour: calls are independent except for the     *)
(* ledger, whose interleavings CallLedger covers.  A hook that raised is  *)
(* not logged.                                                            *)
Terminating ==
    /\ phase = "logged" \/ (phase = "returned" /\ ~result.ok)
    /\ UNCHANGED vars

Next ==
    \/ \E h \in {"sprintf", "printf"}, f \in Formats : ReadArgs(h, f)
    \/ \E w \in BOOLEAN : Sprintf(w) \/ Printf(w)
    \/ UpdateEllipsis
    \/ LogCall
    \/ Terminating

Spec == Init /\ [][Next]_vars
-----------------------------------------------------------------------------
(* C printf, the reference the specification names: conversions take the *)
(* words in order, %% takes none, %s prints the string at a pointer, %d  *)
(* an integer, %p a pointer in 0x form; words left over are ignored.  A  *)
(* conversion C leaves undefined (unknown type, %s of a non-pointer, %d  *)
(* of a pointer, flags on %%) makes ok FALSE.                             *)
CValue(c, w) ==
    CASE c.type = "s" /\ w = Ptr -> [kind |-> "text", v |-> Text, pad |-> c.pad]
      [] c.type = "d" /\ w = Num -> [kind |-> "int", v |-> w, pad |-> c.pad]
      [] c.type = "p" -> [kind |-> "0x", v |-> w, pad |-> c.pad]
      [] OTHER -> NoValue

RECURSIVE CFormat(_, _)
CFormat(f, ws) ==
    IF f = <<>> THEN [ok |-> TRUE, out |-> <<>>]
    ELSE IF f[1] # "%" THEN Emit(Lit(f[1]), CFormat(Tail(f), ws))
    ELSE LET c == ConvSpec(Tail(f)) IN
         CASE c.type = "%" /\ ~c.alt /\ ~c.pad -> Emit(Lit("%"), CFormat(c.rest, ws))
           [] ws # <<>> /\ CValue(c, Head(ws)) # NoValue ->
                 Emit(CValue(c, Head(ws)), CFormat(c.rest, Tail(ws)))
           [] OTHER -> Fail

CRef == CFormat(fmt, stack)

(* A format whose every '%' is directly followed by s, d or p.           *)
Plain(f) == \A i \in DOMAIN f : f[i] = "%" => i < Len(f) /\ f[i + 1] \in {"s", "d", "p"}

TypeOK ==
    /\ stack \in [1..MaxFmt -> Words]
    /\ phase \in {"idle", "args", "done", "returned", "logged"}
    /\ fmt \in Formats /\ wide \in BOOLEAN
    /\ phase # "idle" => Len(args) = CountPercent(fmt) /\ args \in Seq(Words \cup {Text})
    /\ result.ok \in BOOLEAN /\ dest \in {"none", "buffer", "stdout"}
    /\ Ledger!TypeOK

(* For formats of plain %s, %d and %p conversions whose words C accepts, *)
(* the emulated sprintf/printf writes what C writes: piece i of the split *)
(* is conversion i, %s arguments are dereferenced, %p prints in 0x form;  *)
(* and the arguments update_ellipsis files are those words with every %s *)
(* one replaced by its text.                                              *)
PlainFormatsMatchC ==
    (phase = "done" /\ Plain(fmt) /\ CRef.ok) =>
        /\ result = CRef
        /\ \A i \in DOMAIN args : args[i] = IF Pieces(fmt)[i][1] = "s" THEN Text ELSE stack[i]

(* A format C accepts with the words given never makes the emulated      *)
(* printf raise.                                                          *)
NoFormatError == (phase = "done" /\ CRef.ok) => result.ok

(* When the emulated printf succeeds on a format C accepts, it writes    *)
(* what C writes.                                                         *)
FormatMatchesC == (phase = "done" /\ CRef.ok /\ result.ok) => result.out = CRef.out

(* The line logged for a formatting hook names its declared parameters   *)
(* and then lists the variadic arguments unnamed, in va_list order, each *)
(* as the format used it: the guest string, quoted, where a plain %s     *)
(* dereferenced the pointer, the word in hex otherwise.                   *)
LoggedCallShowsArgs ==
    phase = "logged" =>
        LET used(i) == IF Pieces(fmt)[i] # <<>> /\ Pieces(fmt)[i][1] = "s" /\ stack[i] = Ptr
                       THEN Text ELSE stack[i]
        IN /\ log.fname = [pref |-> "", id |-> api]
           /\ log.args =
                [i \in DOMAIN Declared(api, fmt) |->
                    [name |-> Declared(api, fmt)[i].name,
                     value |-> LogValue(Declared(api, fmt)[i].value)]]
                \o [i \in 1..CountPercent(fmt) |-> [name |-> Log!NoName, value |-> LogValue(used(i))]]
=============================================================================
