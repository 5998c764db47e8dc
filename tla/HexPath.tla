------------------------------ MODULE HexPath ------------------------------
(***************************************************************************)
(* The path conversions of HexPrefix put to the test: a byte slice grows,  *)
(* byte by byte, and is read in either form, as the PartialPath a caller   *)
(* stores in a node and as the compact path that arrives on the wire.      *)
(***************************************************************************)
EXTENDS HexPrefix

CONSTANTS Bytes,    \* the bytes the slice is built from
          MaxLen    \* bound on its length

ASSUME PathAssumption == Bytes \subseteq Byte /\ MaxLen \in Nat

VARIABLE buf

Init == buf = << >>

Push(b) == Len(buf) < MaxLen /\ buf' = Append(buf, b)

Next == \E b \in Bytes : Push(b)

Spec == Init /\ [][Next]_buf

(* Both conversions turn a byte slice into a byte slice, whatever bytes it *)
(* holds (shared/utils.go, hexToCompact, compactToHex).                    *)
TypeOK == /\ buf \in Seq(Byte)
          /\ hexToCompact(buf) \in Seq(Byte)
          /\ compactToHex(buf) \in Seq(Byte)

(* CompactToHex undoes HexToCompact on every path, leaf or extension, odd  *)
(* or even, the empty one included: storing a node and loading it again    *)
(* returns its PartialPath (shared/utils.go, hexToCompact, compactToHex).  *)
PathRoundTrip ==
    WellFormedHex(buf) => compactToHex(hexToCompact(buf)) = buf

(* HexToCompact writes the hex-prefix encoding that Ethereum's trie        *)
(* defines, terminator turned into the leaf flag.                          *)
MatchesHexPrefix ==
    WellFormedHex(buf) => hexToCompact(buf) = HP(DropTerm(buf), hasTerm(buf))

(* Decoding a compact path and encoding it again changes nothing but the   *)
(* padding nibble of an even path, which comes back zero: a block whose    *)
(* padding is zero keeps its bytes, and so its hash.                       *)
WireNormalised ==
    KnownFlag(buf) => hexToCompact(compactToHex(buf)) = Canonical(buf)
=============================================================================
