--------------------------- MODULE MCFormatString ---------------------------
(* Formats of up to four characters over '%', s, d, p, the width digit 5  *)
(* and a literal a; four words on the guest stack, each a pointer to the  *)
(* guest string or a plain integer.                                       *)
EXTENDS FormatString

MCChars == {"%", "s", "d", "p", "5", "a"}
\* the guest string holds a quote and a backslash, which repr escapes
MCTextChars == <<"'", "\\">>
=============================================================================
