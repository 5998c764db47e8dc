--------------------------- MODULE HexPathProofs ---------------------------
(***************************************************************************)
(* The properties of the path conversions, for slices of every length and  *)
(* every set of bytes: HexPath holds bytes only, and HexPrefixProofs says  *)
(* what becomes of them.                                                   *)
(***************************************************************************)
EXTENDS HexPath, HexPrefixProofs

(* The state machine of HexPath only ever holds bytes. *)
BufBytes == buf \in Seq(Byte)

LEMMA BufInvariant == Spec => []BufBytes
<1>1. Init => BufBytes
  BY DEF Init, BufBytes
<1>2. BufBytes /\ [Next]_buf => BufBytes'
  BY PathAssumption DEF Next, Push, BufBytes
<1> QED
  BY <1>1, <1>2, PTL DEF Spec

(* CompactToHex undoes HexToCompact on every path the program can build,   *)
(* with no bound on its length (shared/utils.go).                          *)
THEOREM RoundTripForAllPaths == Spec => []PathRoundTrip
<1>1. BufBytes => PathRoundTrip
  BY ConversionRoundTrip DEF PathRoundTrip, BufBytes
<1> QED
  BY <1>1, BufInvariant, PTL

(* Both conversions give bytes for every slice of bytes, well-formed or    *)
(* not: no write leaves the width of a byte and no index leaves the slice. *)
THEOREM ConversionsStayBytes == Spec => []TypeOK
<1>1. BufBytes => TypeOK
  <2> SUFFICES ASSUME buf \in Seq(Byte)
               PROVE  /\ hexToCompact(buf) \in Seq(Byte)
                      /\ compactToHex(buf) \in Seq(Byte)
    BY DEF BufBytes, TypeOK
  <2>1. hexToCompact(buf) \in Seq(Byte)
    BY CompactIsBytes
  <2>2. CASE Len(buf) = 0
    BY <2>1, <2>2 DEF compactToHex
  <2>3. CASE Len(buf) > 0
    BY <2>1, <2>3, HexNibbles
  <2>4. Len(buf) \in Nat
    OBVIOUS
  <2> QED
    BY <2>2, <2>3, <2>4
<1> QED
  BY <1>1, BufInvariant, PTL

(* HexToCompact writes the hex-prefix encoding of Ethereum's trie for      *)
(* paths of every length.                                                  *)
THEOREM CompactMatchesHexPrefix == Spec => []MatchesHexPrefix
<1>1. BufBytes => MatchesHexPrefix
  BY CompactIsHexPrefix DEF MatchesHexPrefix, BufBytes
<1> QED
  BY <1>1, BufInvariant, PTL

(* A compact path of any length, loaded and stored again, keeps its bytes  *)
(* but for the padding nibble: the hash of a canonical block is stable.    *)
THEOREM WirePathsNormalised == Spec => []WireNormalised
<1>1. BufBytes => WireNormalised
  BY WireRoundTrip DEF WireNormalised, BufBytes
<1> QED
  BY <1>1, BufInvariant, PTL
=============================================================================
