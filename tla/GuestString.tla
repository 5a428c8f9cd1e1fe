---------------------------- MODULE GuestString ----------------------------
(***************************************************************************)
(* The guest string reader of QlOsUtils (src/qiling/os/utils.py 79-111).   *)
(* read_string reads terminator-sized chunks of guest memory and decodes   *)
(* each chunk on its own with bytes.decode(errors="ignore") (UTF-8) until  *)
(* a chunk decodes to the terminator; read_cstring and read_wstring call   *)
(* it with "\x00" and "\x00\x00", read_wstring strips NUL characters, and  *)
(* both feed the text to string_appearance of the call ledger.  read_guid  *)
(* reads 16 bytes and parses them with UUID(bytes_le=...).                 *)
(*                                                                         *)
(* Guest memory is a byte sequence: the guest's string bytes followed by   *)
(* zero bytes.  Text is a sequence of Unicode code points.  Bytes are      *)
(* below 0xE0, so UTF-8 sequences are at most two bytes long.              *)
(***************************************************************************)
EXTENDS Integers, Sequences, SequencesExt

CONSTANTS
    Bytes,      \* the byte values the guest's string may hold
    MaxLen,     \* longest guest string, in bytes
    Tokens,     \* ledger tokens (text without spaces) tracked by the ledger
    MaxCalls    \* API calls recorded between two clears

ASSUME Bytes \subseteq 0..223 /\ MaxLen \in Nat

SPACE == 32
Padding == <<0, 0, 0>>

VARIABLES
    mem,        \* guest memory from the string's first byte on
    lastRead,   \* the last read_cstring/read_wstring/read_guid: address, kind, result
    syscalls, syscalls_counter, appeared_strings   \* the call ledger

vars == <<mem, lastRead, syscalls, syscalls_counter, appeared_strings>>

Ledger == INSTANCE CallLedger WITH Bases <- {"api"}, MaxPrefix <- 0, MaxTokens <- 1

(* bytes.decode("utf-8", errors="ignore"): a two-byte sequence is a lead *)
(* 0xC2..0xDF followed by a continuation byte; every other byte at or    *)
(* above 0x80 is dropped.                                                 *)
RECURSIVE Utf8(_)
Utf8(b) ==
    IF b = <<>> THEN <<>>
    ELSE IF b[1] < 128 THEN <<b[1]>> \o Utf8(Tail(b))
    ELSE IF b[1] \in 194..223 /\ Len(b) >= 2 /\ b[2] \in 128..191
         THEN <<(b[1] - 192) * 64 + (b[2] - 128)>> \o Utf8(SubSeq(b, 3, Len(b)))
    ELSE Utf8(Tail(b))

(* s.split(' '): the tokens between spaces, empty ones included.         *)
RECURSIVE SplitSpace(_)
SplitSpace(s) ==
    IF \A i \in DOMAIN s : s[i] # SPACE THEN <<s>>
    ELSE LET i == CHOOSE j \in DOMAIN s : s[j] = SPACE /\ \A k \in 1..(j - 1) : s[k] # SPACE
         IN <<SubSeq(s, 1, i - 1)>> \o SplitSpace(SubSeq(s, i + 1, Len(s)))

(* Mutant of read_string: the chunk is appended before the terminator   *)
(* test, so the terminator ends up in the result.                         *)
RECURSIVE ReadStringKeepTerminator(_, _, _, _)
ReadStringKeepTerminator(m, address, charlen, terminator) ==
    LET char == SubSeq(m, address, address + charlen - 1)
    IN IF Utf8(char) = terminator THEN Utf8(char)
       ELSE Utf8(char) \o ReadStringKeepTerminator(m, address + charlen, charlen, terminator)

(* read_string(ql, address, terminator): chunk by chunk, each decoded on *)
(* its own, up to the first chunk that decodes to the terminator.        *)
RECURSIVE ReadString(_, _, _, _)
ReadString(m, address, charlen, terminator) ==
    LET char == SubSeq(m, address, address + charlen - 1)
    IN IF Utf8(char) = terminator THEN <<>>
       ELSE Utf8(char) \o ReadString(m, address + charlen, charlen, terminator)

(* Mutant of read_wstring: the NUL characters are not removed.           *)
WStringKeepNul(m, address) == ReadString(m, address, 2, <<0, 0>>)

(* read_wstring, less the string_appearance call: s.replace("\x00", "").  *)
WString(m, address) ==
    SelectSeq(ReadString(m, address, 2, <<0, 0>>), LAMBDA c : c # 0)

(* read_cstring, less the string_appearance call.                         *)
CString(m, address) == ReadString(m, address, 1, <<0>>)

(* ql.mem.read(address, 16): memory past the modelled bytes is zero.      *)
GuidWindow(m, address) ==
    [i \in 1..16 |-> IF address + i - 1 <= Len(m) THEN m[address + i - 1] ELSE 0]

(* UUID(bytes_le=b) keeps its value as the big-endian bytes                *)
(* b[3::-1] + b[5:3:-1] + b[7:5:-1] + b[8:].                               *)
UuidBytesLe(b) ==
    Reverse(SubSeq(b, 1, 4)) \o Reverse(SubSeq(b, 5, 6)) \o Reverse(SubSeq(b, 7, 8))
      \o SubSeq(b, 9, 16)

(* UUID.fields of the big-endian bytes u: time_low, time_mid,            *)
(* time_hi_version, clock_seq_hi_variant, clock_seq_low, node, each a     *)
(* big-endian digit sequence (the integers are up to 48 bits wide).      *)
UuidFields(u) ==
    <<SubSeq(u, 1, 4), SubSeq(u, 5, 6), SubSeq(u, 7, 8), <<u[9]>>, <<u[10]>>, SubSeq(u, 11, 16)>>

(* Mutant of read_guid: UUID(bytes=raw), the bytes taken as big-endian.   *)
ReadGuidBigEndian(m, address) == GuidWindow(m, address)

(* read_guid(address): UUID(bytes_le=bytes(ql.mem.read(address, 16))).    *)
ReadGuidAt(m, address) == UuidBytesLe(GuidWindow(m, address))

Addresses == 1..(MaxLen + 1)

Init ==
    /\ mem \in {s \o Padding : s \in SeqOf(Bytes, MaxLen)}
    /\ lastRead = [address |-> 0, kind |-> "none", text |-> <<>>]
    /\ Ledger!Init

(* read_cstring(address): decode, then string_appearance(s).              *)
ReadCString(address) ==
    LET s == CString(mem, address)
    IN /\ address <= Len(mem) - Len(Padding) + 1
       /\ lastRead' = [address |-> address, kind |-> "cstring", text |-> s]
       /\ Ledger!StringAppearance(SplitSpace(s))
       /\ UNCHANGED mem

(* read_wstring(address): decode, strip NULs, then string_appearance(s).  *)
ReadWString(address) ==
    LET s == WString(mem, address)
    IN /\ address <= Len(mem) - Len(Padding) + 1
       /\ lastRead' = [address |-> address, kind |-> "wstring", text |-> s]
       /\ Ledger!StringAppearance(SplitSpace(s))
       /\ UNCHANGED mem

(* read_guid(address): no string_appearance.                             *)
ReadGuid(address) ==
    /\ lastRead' = [address |-> address, kind |-> "guid", text |-> ReadGuidAt(mem, address)]
    /\ UNCHANGED <<mem, syscalls, syscalls_counter, appeared_strings>>

(* An API hook records a call, or the ledger is cleared, between reads.  *)
LedgerStep ==
    /\ \/ Ledger!CallApi(<<0, "api">>)
       \/ Ledger!ClearSyscalls
    /\ UNCHANGED <<mem, lastRead>>

Next ==
    \/ \E a \in Addresses : ReadCString(a) \/ ReadWString(a) \/ ReadGuid(a)
    \/ LedgerStep

Spec == Init /\ [][Next]_vars

-----------------------------------------------------------------------------
(* What the specification says a read returns: the bytes before the first *)
(* terminator-sized chunk equal to the terminator, decoded as a whole     *)
(* (UTF-8 for narrow, UTF-16LE for wide strings), with only undecodable   *)
(* bytes dropped and, for wide strings, NUL characters stripped.          *)
RECURSIVE TermIndex(_, _, _)
TermIndex(m, address, charlen) ==
    IF \A k \in 0..(charlen - 1) : m[address + k] = 0 THEN address
    ELSE TermIndex(m, address + charlen, charlen)

GuestBytes(m, address, charlen) ==
    SubSeq(m, address, TermIndex(m, address, charlen) - 1)

Utf16le(b) == [i \in 1..(Len(b) \div 2) |-> b[2 * i - 1] + 256 * b[2 * i]]

SpecText(m, address, wide) ==
    IF wide THEN SelectSeq(Utf16le(GuestBytes(m, address, 2)), LAMBDA c : c # 0)
    ELSE Utf8(GuestBytes(m, address, 1))

IsAsciiText(b, wide) ==
    \A i \in DOMAIN b : IF wide /\ i % 2 = 0 THEN b[i] = 0 ELSE b[i] < 128

TypeOK ==
    /\ mem \in Seq(Bytes \cup {0})
    /\ lastRead.address \in 0..(MaxLen + 1)
    /\ lastRead.kind \in {"none", "cstring", "wstring", "guid"}
    /\ IF lastRead.kind = "guid" THEN lastRead.text \in [1..16 -> Bytes \cup {0}]
       ELSE lastRead.text \in Seq(1..2047)  \* NUL-free text of one- and two-byte UTF-8
    /\ Ledger!TypeOK

(* For ASCII text, narrow or wide, the reader returns exactly the guest's *)
(* characters: the terminator test stops at the first NUL (narrow) or the *)
(* first aligned NUL pair (wide), and read_wstring's replace removes the  *)
(* high zero bytes of every UTF-16 unit.                                  *)
AsciiReadExact ==
    lastRead.kind \in {"cstring", "wstring"} =>
      LET wide == lastRead.kind = "wstring"
          charlen == IF wide THEN 2 ELSE 1
      IN IsAsciiText(GuestBytes(mem, lastRead.address, charlen), wide) =>
           lastRead.text = SpecText(mem, lastRead.address, wide)

(* Every read, narrow or wide, returns what the specification says: the *)
(* guest's bytes up to the terminator decoded as a whole, only            *)
(* undecodable bytes dropped.                                             *)
ReadMatchesSpec ==
    lastRead.kind \in {"cstring", "wstring"} =>
      lastRead.text = SpecText(mem, lastRead.address, lastRead.kind = "wstring")

(* The GUID structure the specification reads: Data1, Data2 and Data3    *)
(* little-endian, Data4 eight bytes in order, each as big-endian digits.  *)
GuidStruct(b) ==
    <<Reverse(SubSeq(b, 1, 4)), Reverse(SubSeq(b, 5, 6)), Reverse(SubSeq(b, 7, 8)),
      <<b[9]>>, <<b[10]>>, SubSeq(b, 11, 16)>>

(* read_guid returns the UUID whose fields are the GUID structure in the *)
(* 16 guest bytes read: time_low is Data1, time_mid Data2,               *)
(* time_hi_version Data3, and clock_seq and node are Data4 in order.      *)
GuidFieldsMatch ==
    lastRead.kind = "guid" =>
      UuidFields(lastRead.text) = GuidStruct(GuidWindow(mem, lastRead.address))
=============================================================================
