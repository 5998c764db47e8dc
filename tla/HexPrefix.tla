----------------------------- MODULE HexPrefix -----------------------------
(***************************************************************************)
(* Conversions between the two forms of a trie path (shared/utils.go).     *)
(*                                                                         *)
(*   hex form      one byte per nibble, optionally closed by the           *)
(*                 terminator 16; the PartialPath of an IPLD trie node     *)
(*   compact form  the packed bytes of the RLP node; the high nibble of    *)
(*                 the first byte holds the leaf flag (2) and the odd      *)
(*                 flag (1)                                                *)
(*                                                                         *)
(* Byte slices are sequences of 0 .. 255, indexed from 1.  Shifts and      *)
(* bitwise or keep the 8-bit width of Go's byte, so the module says what   *)
(* the code does for bytes that are no nibbles, too: neither conversion    *)
(* validates its input.                                                    *)
(***************************************************************************)
EXTENDS Integers, Sequences

Byte == 0 .. 255
Nibble == 0 .. 15
Terminator == 16

(* Bitwise or, four bits at a time. *)
Or1(a, b) == IF a + b = 0 THEN 0 ELSE 1
Or4(a, b) == 8 * Or1(a \div 8, b \div 8)
             + 4 * Or1((a \div 4) % 2, (b \div 4) % 2)
             + 2 * Or1((a \div 2) % 2, (b \div 2) % 2)
             + Or1(a % 2, b % 2)
ByteOr(a, b) == 16 * Or4(a \div 16, b \div 16) + Or4(a % 16, b % 16)

(* Mutant: shifted and added in an int, not or-ed in a byte. *)
PackPairWide(hi, lo) == hi * 16 + lo

(* nibbles[ni]<<4 | nibbles[ni+1], in a byte *)
PackPair(hi, lo) == ByteOr((hi * 16) % 256, lo)

hasTerm(s) == Len(s) > 0 /\ s[Len(s)] = Terminator

(* The path without its terminator. *)
DropTerm(hex) == IF hasTerm(hex) THEN SubSeq(hex, 1, Len(hex) - 1) ELSE hex

(* Mutant: the odd flag is never set, and the first nibble never stored. *)
FlagByteNoOdd(leaf, path) == IF leaf THEN 32 ELSE 0

(* The flag byte: 32 for a leaf, 16 for an odd path, whose first nibble    *)
(* shares the byte.                                                        *)
FlagByte(leaf, path) ==
    LET leafFlag == IF leaf THEN 32 ELSE 0
    IN  IF Len(path) % 2 = 1
        THEN ByteOr(ByteOr(leafFlag, 16), path[1])
        ELSE leafFlag

(* decodeNibbles packs the nibbles after the first `skip` ones. *)
decodeNibbles(path, skip, i) ==
    PackPair(path[skip + 2 * i - 1], path[skip + 2 * i])

hexToCompact(hex) ==
    LET path == DropTerm(hex)
        odd  == Len(path) % 2
    IN  [i \in 1 .. (Len(path) \div 2) + 1 |->
            IF i = 1 THEN FlagByte(hasTerm(hex), path)
                     ELSE decodeNibbles(path, odd, i - 1)]

keybytesToHex(str) ==
    [i \in 1 .. 2 * Len(str) + 1 |->
        IF i = 2 * Len(str) + 1 THEN Terminator
        ELSE IF i % 2 = 1 THEN str[(i + 1) \div 2] \div 16
                          ELSE str[i \div 2] % 16]

(* Mutant: keeps the terminator whatever the leaf flag says. *)
compactToHexKeepTerm(compact) ==
    IF Len(compact) = 0 THEN compact
    ELSE LET base == keybytesToHex(compact)
         IN  SubSeq(base, 3 - (base[1] % 2), Len(base))

compactToHex(compact) ==
    IF Len(compact) = 0 THEN compact
    ELSE LET base == keybytesToHex(compact)
             last == IF base[1] < 2 THEN Len(base) - 1 ELSE Len(base)
             chop == 2 - (base[1] % 2)
         IN  SubSeq(base, chop + 1, last)

----------------------------------------------------------------------------
(* What the conversions are measured against.                              *)

(* A hex path that is a path: nibbles, then perhaps the terminator. *)
WellFormedHex(hex) == \A i \in 1 .. Len(hex) :
    hex[i] \in Nibble \/ (i = Len(hex) /\ hex[i] = Terminator)

(* The hex-prefix function of the Ethereum yellow paper: flag nibble, a    *)
(* zero nibble when the path is even, the path; then two nibbles a byte.   *)
HPNibbles(path, leaf) ==
    LET odd == Len(path) % 2
    IN  (IF odd = 1 THEN <<IF leaf THEN 3 ELSE 1>>
                    ELSE <<IF leaf THEN 2 ELSE 0, 0>>) \o path
HP(path, leaf) ==
    LET ns == HPNibbles(path, leaf)
    IN  [i \in 1 .. Len(ns) \div 2 |-> 16 * ns[2 * i - 1] + ns[2 * i]]

(* A compact path that a trie may hold: a known flag nibble. *)
KnownFlag(compact) == Len(compact) > 0 /\ compact[1] \div 16 < 4

(* Its canonical form: the padding nibble of an even path is zero. *)
Canonical(compact) ==
    [i \in 1 .. Len(compact) |->
        IF i = 1 /\ (compact[1] \div 16) % 2 = 0
        THEN 16 * (compact[1] \div 16)
        ELSE compact[i]]
=============================================================================
