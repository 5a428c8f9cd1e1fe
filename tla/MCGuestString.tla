---------------------------- MODULE MCGuestString ---------------------------
(* Guest strings of up to four bytes over NUL, space, 'A', and the two    *)
(* bytes 0xC3 0xA9 ("é" in UTF-8; U+00A9 and U+A9C3 as UTF-16 units),     *)
(* read at every offset, one recordable API call between clears.          *)
EXTENDS GuestString

MCBytes == {0, 32, 65, 169, 195}
MCTokens == SeqOf({65, 233}, 2)
=============================================================================
