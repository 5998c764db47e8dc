-------------------------- MODULE HexPrefixProofs --------------------------
(***************************************************************************)
(* What the path conversions do with paths of every length.                *)
(***************************************************************************)
EXTENDS HexPrefix, SequenceTheorems, TLAPS

(* Or-ing a nibble into a flag byte whose low nibble is zero adds it       *)
(* (hexToCompact, buf[0] |= hex[0]).                                       *)
LEMMA OrNibble ==
    ASSUME NEW f \in {0, 16, 32, 48}, NEW n \in Nibble
    PROVE  ByteOr(f, n) = f + n
<1>1. Or4(0, n) = n
  BY SMTT(60) DEF Or4, Or1, Nibble
<1>2. n \div 16 = 0 /\ n % 16 = n
  BY DEF Nibble
<1>3. \A k \in {0, 1, 2, 3} : Or4(k, 0) = k
  BY DEF Or4, Or1
<1> QED
  BY <1>1, <1>2, <1>3 DEF ByteOr, Nibble

(* Packing two nibbles puts them side by side in one byte (decodeNibbles). *)
LEMMA PackNibbles ==
    ASSUME NEW h \in Nibble, NEW l \in Nibble
    PROVE  PackPair(h, l) = 16 * h + l
<1>1. Or4(0, l) = l
  BY SMTT(60) DEF Or4, Or1, Nibble
<1>2. Or4(h, 0) = h
  BY SMTT(60) DEF Or4, Or1, Nibble
<1>3. (h * 16) % 256 = h * 16 /\ (h * 16) \div 16 = h /\ (h * 16) % 16 = 0
  BY DEF Nibble
<1>4. l \div 16 = 0 /\ l % 16 = l
  BY DEF Nibble
<1> QED
  BY <1>1, <1>2, <1>3, <1>4 DEF PackPair, ByteOr, Nibble

(* Taking such a byte apart again (keybytesToHex, b / 16 and b % 16).      *)
LEMMA UnpackNibbles ==
    ASSUME NEW h \in Nibble, NEW l \in Nibble
    PROVE  (16 * h + l) \div 16 = h /\ (16 * h + l) % 16 = l
  BY DEF Nibble

(* Or-ing two bytes gives a byte. *)
LEMMA OrByte ==
    ASSUME NEW a \in Byte, NEW b \in Byte
    PROVE  ByteOr(a, b) \in Byte
<1>1. \A x, y \in Int : Or1(x, y) \in {0, 1}
  BY DEF Or1
<1>2. \A x, y \in Int : Or4(x, y) \in Nibble
  <2> TAKE x, y \in Int
  <2>1. Or1(x \div 8, y \div 8) \in {0, 1}
    BY <1>1
  <2>2. Or1((x \div 4) % 2, (y \div 4) % 2) \in {0, 1}
    BY <1>1
  <2>3. Or1((x \div 2) % 2, (y \div 2) % 2) \in {0, 1}
    BY <1>1
  <2>4. Or1(x % 2, y % 2) \in {0, 1}
    BY <1>1
  <2> QED
    BY <2>1, <2>2, <2>3, <2>4 DEF Or4, Nibble
<1>3. Or4(a \div 16, b \div 16) \in Nibble /\ Or4(a % 16, b % 16) \in Nibble
  BY <1>2 DEF Byte
<1> QED
  BY <1>3 DEF ByteOr, Byte, Nibble

(* The nibbles of a path and where it ends (hasTerm, hex[:len(hex)-1]).    *)
LEMMA DropTermPath ==
    ASSUME NEW h \in Seq(Byte), WellFormedHex(h)
    PROVE  /\ DropTerm(h) \in Seq(Nibble)
           /\ Len(DropTerm(h)) = IF hasTerm(h) THEN Len(h) - 1 ELSE Len(h)
           /\ \A i \in 1 .. Len(DropTerm(h)) : DropTerm(h)[i] = h[i]
           /\ Len(h) > 0 => hasTerm(h) \/ h[Len(h)] \in Nibble
<1>1. CASE hasTerm(h)
  <2>1. Len(h) \in Nat /\ Len(h) > 0
    BY <1>1 DEF hasTerm
  <2>2. DropTerm(h) = SubSeq(h, 1, Len(h) - 1)
    BY <1>1 DEF DropTerm
  <2>3. \A i \in 1 .. Len(h) - 1 : h[i] \in Nibble
    BY <2>1 DEF WellFormedHex
  <2>4. /\ DropTerm(h) \in Seq(Nibble)
        /\ Len(DropTerm(h)) = Len(h) - 1
        /\ \A i \in 1 .. Len(h) - 1 : DropTerm(h)[i] = h[i]
    <3> DEFINE n == Len(h) - 1
    <3>1. n \in Nat
      BY <2>1
    <3>2. DropTerm(h) = SubSeq(h, 1, n) /\ \A i \in 1 .. n : h[i] \in Nibble
      BY <2>2, <2>3
    <3> HIDE DEF n
    <3>3. /\ SubSeq(h, 1, n) \in Seq(Nibble)
          /\ Len(SubSeq(h, 1, n)) = IF 1 <= n THEN n - 1 + 1 ELSE 0
          /\ \A i \in 1 .. n - 1 + 1 : SubSeq(h, 1, n)[i] = h[1 + i - 1]
      BY <3>1, <3>2, SubSeqProperties
    <3>4. Len(SubSeq(h, 1, n)) = n
      BY <3>1, <3>3, Z3
    <3>5. \A i \in 1 .. n : SubSeq(h, 1, n)[i] = h[i]
      BY <3>1, <3>3
    <3> USE DEF n
    <3> QED
      BY <3>2, <3>3, <3>4, <3>5
  <2> QED
    BY <1>1, <2>4
<1>2. CASE ~hasTerm(h)
  <2>1. DropTerm(h) = h
    BY <1>2 DEF DropTerm
  <2>2. \A i \in 1 .. Len(h) : h[i] \in Nibble
    BY <1>2 DEF hasTerm, WellFormedHex
  <2>3. h \in Seq(Nibble)
    BY <2>2
  <2> QED
    BY <1>2, <2>1, <2>2, <2>3
<1> QED
  BY <1>1, <1>2

(* The flag byte of a path of nibbles: its high nibble says leaf and odd,  *)
(* its low nibble is the first nibble of an odd path and zero otherwise.   *)
LEMMA FlagByteValue ==
    ASSUME NEW p \in Seq(Nibble), NEW leaf \in BOOLEAN
    PROVE  FlagByte(leaf, p) = (IF leaf THEN 32 ELSE 0)
                               + (IF Len(p) % 2 = 1 THEN 16 + p[1] ELSE 0)
<1>1. CASE Len(p) % 2 = 1
  <2>1. Len(p) \in Nat /\ Len(p) > 0
    BY <1>1
  <2>2. p[1] \in Nibble
    BY <2>1
  <2>3. ByteOr(32, 16) = 48 /\ ByteOr(0, 16) = 16
    BY DEF ByteOr, Or4, Or1
  <2>4. ByteOr(48, p[1]) = 48 + p[1] /\ ByteOr(16, p[1]) = 16 + p[1]
    BY <2>2, OrNibble
  <2> QED
    BY <1>1, <2>2, <2>3, <2>4 DEF FlagByte, Nibble
<1>2. CASE Len(p) % 2 # 1
  BY <1>2 DEF FlagByte
<1> QED
  BY <1>1, <1>2

(* What hexToCompact stores in each byte of the compact form. *)
LEMMA CompactBytes ==
    ASSUME NEW h \in Seq(Byte), WellFormedHex(h),
           NEW p, p = DropTerm(h), NEW q \in Nat, NEW odd \in {0, 1},
           Len(p) = 2 * q + odd
    PROVE  LET c == hexToCompact(h)
           IN  /\ c = [i \in 1 .. q + 1 |-> c[i]]
               /\ c[1] = (IF hasTerm(h) THEN 32 ELSE 0)
                         + (IF odd = 1 THEN 16 + p[1] ELSE 0)
               /\ \A i \in 1 .. q :
                     c[i + 1] = 16 * p[odd + 2 * i - 1] + p[odd + 2 * i]
<1> DEFINE c == hexToCompact(h)
<1>1. p \in Seq(Nibble)
  BY DropTermPath
<1>2. Len(p) % 2 = odd /\ Len(p) \div 2 = q
  OBVIOUS
<1>3. c = [i \in 1 .. q + 1 |->
              IF i = 1 THEN FlagByte(hasTerm(h), p)
                       ELSE decodeNibbles(p, odd, i - 1)]
  BY <1>2 DEF hexToCompact
<1>4. c[1] = FlagByte(hasTerm(h), p)
  BY <1>3
<1>5. hasTerm(h) \in BOOLEAN
  BY DEF hasTerm
<1>6. c[1] = (IF hasTerm(h) THEN 32 ELSE 0)
             + (IF odd = 1 THEN 16 + p[1] ELSE 0)
  BY <1>1, <1>2, <1>4, <1>5, FlagByteValue
<1>7. ASSUME NEW i \in 1 .. q
      PROVE  c[i + 1] = 16 * p[odd + 2 * i - 1] + p[odd + 2 * i]
  <2>1. p[odd + 2 * i - 1] \in Nibble /\ p[odd + 2 * i] \in Nibble
    BY <1>1
  <2>2. c[i + 1] = decodeNibbles(p, odd, i)
    BY <1>3
  <2> QED
    BY <2>1, <2>2, PackNibbles DEF decodeNibbles
<1>8. c = [i \in 1 .. q + 1 |-> c[i]]
  BY <1>3
<1> QED
  BY <1>6, <1>7, <1>8

(* Every length is twice something plus its parity. *)
LEMMA HalfAndParity ==
    ASSUME NEW n \in Nat
    PROVE  \E q \in Nat : \E odd \in {0, 1} : n = 2 * q + odd
<1>1. n \div 2 \in Nat /\ n % 2 \in {0, 1} /\ n = 2 * (n \div 2) + (n % 2)
  OBVIOUS
<1> QED
  BY <1>1

(* Loading what was stored: compactToHex undoes hexToCompact on every      *)
(* path, whatever its length (shared/utils.go).                            *)
LEMMA ConversionRoundTrip ==
    ASSUME NEW h \in Seq(Byte), WellFormedHex(h)
    PROVE  compactToHex(hexToCompact(h)) = h
<1> DEFINE p == DropTerm(h)
           c == hexToCompact(h)
           b == keybytesToHex(c)
<1>1. /\ p \in Seq(Nibble)
      /\ Len(p) = IF hasTerm(h) THEN Len(h) - 1 ELSE Len(h)
      /\ \A i \in 1 .. Len(p) : p[i] = h[i]
  BY DropTermPath
<1>2. Len(p) \in Nat
  BY <1>1
<1>3. PICK q \in Nat, odd \in {0, 1} : Len(p) = 2 * q + odd
  BY <1>2, HalfAndParity
<1>4. /\ c = [i \in 1 .. q + 1 |-> c[i]]
      /\ c[1] = (IF hasTerm(h) THEN 32 ELSE 0)
                + (IF odd = 1 THEN 16 + p[1] ELSE 0)
      /\ \A i \in 1 .. q :
            c[i + 1] = 16 * p[odd + 2 * i - 1] + p[odd + 2 * i]
  BY <1>3, CompactBytes
<1>5. Len(c) = q + 1
  BY <1>4
<1>6. b = [i \in 1 .. 2 * q + 3 |->
              IF i = 2 * q + 3 THEN Terminator
              ELSE IF i % 2 = 1 THEN c[(i + 1) \div 2] \div 16
                                ELSE c[i \div 2] % 16]
  BY <1>5 DEF keybytesToHex
<1>7. Len(b) = 2 * q + 3
  BY <1>6
<1>8. odd = 1 => p[1] \in Nibble
  BY <1>1, <1>3
<1> DEFINE flags == (IF hasTerm(h) THEN 2 ELSE 0) + odd
           first == IF odd = 1 THEN p[1] ELSE 0
<1>8a. c[1] = 16 * flags + first
  <2>1. CASE odd = 1
    <3>1. p[1] \in Int
      BY <2>1, <1>8 DEF Nibble
    <3> HIDE DEF p, c
    <3> QED
      BY <2>1, <3>1, <1>4
  <2>2. CASE odd = 0
    BY <2>2, <1>4
  <2> QED
    BY <2>1, <2>2
<1>8b. flags \in Nibble /\ first \in Nibble
  BY <1>8 DEF Nibble
<1>8c. c[1] \div 16 = flags /\ c[1] % 16 = first
  <2> HIDE DEF flags, first, c
  <2> QED
    BY <1>8a, <1>8b, UnpackNibbles
<1>9. b[1] = (IF hasTerm(h) THEN 2 ELSE 0) + odd
  <2>1. b[1] = c[1] \div 16
    BY <1>6
  <2> QED
    BY <2>1, <1>8c
<1>10. odd = 1 => b[2] = p[1]
  <2>1. b[2] = c[1] % 16
    BY <1>6
  <2> QED
    BY <2>1, <1>8c
<1>11. \A i \in 1 .. q : /\ b[2 * i + 1] = p[odd + 2 * i - 1]
                         /\ b[2 * i + 2] = p[odd + 2 * i]
  <2> TAKE i \in 1 .. q
  <2>1. /\ p[odd + 2 * i - 1] \in Nibble
        /\ p[odd + 2 * i] \in Nibble
    BY <1>1, <1>3
  <2>2. /\ c[i + 1] \div 16 = p[odd + 2 * i - 1]
        /\ c[i + 1] % 16 = p[odd + 2 * i]
    <3> HIDE DEF p, c
    <3> QED
      BY <2>1, <1>4, UnpackNibbles
  <2>3. (2 * i + 1) % 2 = 1 /\ ((2 * i + 1) + 1) \div 2 = i + 1
    OBVIOUS
  <2>4. (2 * i + 2) % 2 = 0 /\ (2 * i + 2) \div 2 = i + 1
    OBVIOUS
  <2>5. b[2 * i + 1] = c[i + 1] \div 16
    BY <1>6, <2>3
  <2>6. b[2 * i + 2] = c[i + 1] % 16
    BY <1>6, <2>4
  <2> QED
    BY <2>2, <2>5, <2>6
<1>12. \A k \in 1 .. Len(p) : b[2 - odd + k] = p[k]
  <2> TAKE k \in 1 .. Len(p)
  <2>1. CASE odd = 1 /\ k = 1
    BY <2>1, <1>10
  <2>2. CASE ~(odd = 1 /\ k = 1)
    <3>1. k - odd \in Nat /\ k - odd >= 1
      BY <2>2
    <3>2. PICK j \in Nat, r \in {0, 1} : k - odd = 2 * j + r
      BY <3>1, HalfAndParity
    <3>3. CASE r = 1
      <4>1. j + 1 \in 1 .. q
        BY <1>3, <3>2, <3>3
      <4>2. b[2 * (j + 1) + 1] = p[odd + 2 * (j + 1) - 1]
        BY <4>1, <1>11
      <4>3. 2 * (j + 1) + 1 = 2 - odd + k
        BY <3>2, <3>3
      <4> QED
        BY <4>2, <4>3, <3>2, <3>3
    <3>4. CASE r = 0
      <4>1. j \in 1 .. q
        BY <1>3, <3>1, <3>2, <3>4
      <4>2. b[2 * j + 2] = p[odd + 2 * j]
        BY <4>1, <1>11
      <4> QED
        BY <4>2, <3>2, <3>4
    <3> QED
      BY <3>2, <3>3, <3>4
  <2> QED
    BY <2>1, <2>2
<1>13. hasTerm(h) => b[2 * q + 3] = Terminator
  BY <1>6
<1> DEFINE last == IF hasTerm(h) THEN 2 * q + 3 ELSE 2 * q + 2
<1>14. compactToHex(c) = SubSeq(b, 3 - odd, last)
  <2>1. Len(c) # 0
    BY <1>5
  <2>2. (IF b[1] < 2 THEN Len(b) - 1 ELSE Len(b)) = last
    BY <1>7, <1>9
  <2>3. (2 - (b[1] % 2)) + 1 = 3 - odd
    BY <1>9
  <2> QED
    BY <2>1, <2>2, <2>3 DEF compactToHex
<1>15. last - (3 - odd) + 1 = Len(h)
  BY <1>1, <1>3
<1>16. Len(h) > 0 => (\A i \in 1 .. Len(h) : b[2 - odd + i] = h[i])
  <2>1. \A i \in 1 .. Len(p) : b[2 - odd + i] = h[i]
    BY <1>1, <1>12
  <2>2. hasTerm(h) => b[2 - odd + Len(h)] = h[Len(h)]
    BY <1>1, <1>3, <1>13 DEF hasTerm
  <2> QED
    BY <2>1, <2>2, <1>1
<1>17. Len(h) \in Nat /\ \A i \in 1 .. Len(h) : h[i] \in Byte
  OBVIOUS
<1>18. \A i \in (3 - odd) .. last : b[i] \in Byte
  <2> TAKE i \in (3 - odd) .. last
  <2>1. i - (2 - odd) \in 1 .. Len(h)
    BY <1>15
  <2>2. b[2 - odd + (i - (2 - odd))] = h[i - (2 - odd)]
    BY <2>1, <1>16, <1>17
  <2> QED
    BY <2>1, <2>2, <1>17
<1>19. /\ SubSeq(b, 3 - odd, last) \in Seq(Byte)
       /\ Len(SubSeq(b, 3 - odd, last))
            = IF 3 - odd <= last THEN last - (3 - odd) + 1 ELSE 0
       /\ \A i \in 1 .. last - (3 - odd) + 1 :
             SubSeq(b, 3 - odd, last)[i] = b[(3 - odd) + i - 1]
  <2>1. 3 - odd \in Int /\ last \in Int
    OBVIOUS
  <2> QED
    BY <2>1, <1>18, SubSeqProperties
<1>20. Len(SubSeq(b, 3 - odd, last)) = Len(h)
  BY <1>15, <1>17, <1>19
<1>21. \A i \in 1 .. Len(h) : SubSeq(b, 3 - odd, last)[i] = h[i]
  <2> TAKE i \in 1 .. Len(h)
  <2>1. SubSeq(b, 3 - odd, last)[i] = b[2 - odd + i]
    <3>1. i \in 1 .. last - (3 - odd) + 1 /\ (3 - odd) + i - 1 = 2 - odd + i
      BY <1>15
    <3> QED
      BY <3>1, <1>19
  <2>2. b[2 - odd + i] = h[i]
    BY <1>16, <1>17
  <2> QED
    BY <2>1, <2>2
<1> QED
  BY <1>14, <1>19, <1>20, <1>21, SeqEqual

(* A byte and its two nibbles. *)
LEMMA ByteHalves ==
    ASSUME NEW x \in Byte
    PROVE  /\ x \div 16 \in Nibble /\ x % 16 \in Nibble
           /\ 16 * (x \div 16) + (x % 16) = x
           /\ x % 2 \in {0, 1}
           /\ (x * 16) % 256 \in Byte
<1>1. x \in Int /\ 0 <= x /\ x <= 255
  BY DEF Byte
<1> QED
  BY <1>1, SMTT(60) DEF Byte, Nibble

(* Every byte that hexToCompact writes is a byte, also where it packs what *)
(* is no nibble: the shift loses the bits above the width.                 *)
LEMMA CompactIsBytes ==
    ASSUME NEW h \in Seq(Byte)
    PROVE  hexToCompact(h) \in Seq(Byte)
<1> DEFINE p == DropTerm(h)
<1>1. p \in Seq(Byte)
  <2>1. CASE hasTerm(h)
    <3>1. Len(h) - 1 \in Int /\ \A i \in 1 .. Len(h) - 1 : h[i] \in Byte
      OBVIOUS
    <3>2. SubSeq(h, 1, Len(h) - 1) \in Seq(Byte)
      BY <3>1, SubSeqProperties
    <3> QED
      BY <2>1, <3>2 DEF DropTerm
  <2>2. CASE ~hasTerm(h)
    BY <2>2 DEF DropTerm
  <2> QED
    BY <2>1, <2>2
<1> HIDE DEF p
<1>2. Len(p) \in Nat
  BY <1>1
<1>3. PICK q \in Nat, odd \in {0, 1} : Len(p) = 2 * q + odd
  BY <1>2, HalfAndParity
<1>4. Len(p) % 2 = odd /\ Len(p) \div 2 = q
  BY <1>3
<1>5. hexToCompact(h) = [i \in 1 .. q + 1 |->
          IF i = 1 THEN FlagByte(hasTerm(h), p)
                   ELSE decodeNibbles(p, odd, i - 1)]
  BY <1>4 DEF hexToCompact, p
<1>6. FlagByte(hasTerm(h), p) \in Byte
  <2>1. 32 \in Byte /\ 16 \in Byte /\ 0 \in Byte
    BY DEF Byte
  <2>2. CASE Len(p) % 2 = 1
    <3>1. p[1] \in Byte
      BY <1>1, <1>2, <2>2
    <3>2. ByteOr(32, 16) \in Byte /\ ByteOr(0, 16) \in Byte
      BY <2>1, OrByte
    <3>3. ByteOr(ByteOr(32, 16), p[1]) \in Byte
      BY <3>1, <3>2, OrByte
    <3>4. ByteOr(ByteOr(0, 16), p[1]) \in Byte
      BY <3>1, <3>2, OrByte
    <3> QED
      BY <2>2, <3>3, <3>4 DEF FlagByte
  <2>3. CASE Len(p) % 2 # 1
    BY <2>1, <2>3 DEF FlagByte
  <2> QED
    BY <2>2, <2>3
<1>7. ASSUME NEW i \in 1 .. q
      PROVE  decodeNibbles(p, odd, i) \in Byte
  <2>1. p[odd + 2 * i - 1] \in Byte /\ p[odd + 2 * i] \in Byte
    BY <1>1, <1>3
  <2>2. (p[odd + 2 * i - 1] * 16) % 256 \in Byte
    BY <2>1, ByteHalves
  <2> QED
    BY <2>1, <2>2, OrByte DEF decodeNibbles, PackPair
<1>8. \A i \in 1 .. q + 1 : i # 1 => i - 1 \in 1 .. q
  OBVIOUS
<1>9. hexToCompact(h) \in [1 .. q + 1 -> Byte]
  BY <1>5, <1>6, <1>7, <1>8
<1> QED
  BY <1>9, <1>3

(* Unpacking bytes: the two nibbles of each, then the terminator           *)
(* (keybytesToHex).                                                        *)
LEMMA UnpackedBytes ==
    ASSUME NEW c \in Seq(Byte)
    PROVE  LET b == keybytesToHex(c)
           IN  /\ b \in Seq(Byte)
               /\ Len(b) = 2 * Len(c) + 1
               /\ b[2 * Len(c) + 1] = Terminator
               /\ \A i \in 1 .. Len(c) : /\ b[2 * i - 1] = c[i] \div 16
                                         /\ b[2 * i] = c[i] % 16
               /\ \A j \in 1 .. 2 * Len(c) : b[j] \in Nibble
<1> DEFINE b == keybytesToHex(c)
           n == Len(c)
<1>1. n \in Nat
  OBVIOUS
<1>2. b = [i \in 1 .. 2 * n + 1 |->
              IF i = 2 * n + 1 THEN Terminator
              ELSE IF i % 2 = 1 THEN c[(i + 1) \div 2] \div 16
                                ELSE c[i \div 2] % 16]
  BY DEF keybytesToHex
<1> HIDE DEF b
<1>3. b[2 * n + 1] = Terminator
  BY <1>1, <1>2
<1>4. ASSUME NEW i \in 1 .. n
      PROVE  b[2 * i - 1] = c[i] \div 16 /\ b[2 * i] = c[i] % 16
  <2>1. (2 * i - 1) % 2 = 1 /\ ((2 * i - 1) + 1) \div 2 = i
    BY <1>1
  <2>2. (2 * i) % 2 = 0 /\ (2 * i) \div 2 = i
    BY <1>1
  <2>3. /\ 2 * i - 1 \in 1 .. 2 * n + 1 /\ 2 * i - 1 # 2 * n + 1
        /\ 2 * i \in 1 .. 2 * n + 1 /\ 2 * i # 2 * n + 1
    BY <1>1
  <2> HIDE DEF n
  <2>4. b[2 * i - 1] = c[((2 * i - 1) + 1) \div 2] \div 16
    BY <1>2, <2>1, <2>3
  <2>5. b[2 * i] = c[(2 * i) \div 2] % 16
    BY <1>2, <2>2, <2>3
  <2> QED
    BY <2>1, <2>2, <2>4, <2>5
<1>5. ASSUME NEW j \in 1 .. 2 * n
      PROVE  b[j] \in Nibble
  <2>1. PICK i \in 1 .. n : j = 2 * i - 1 \/ j = 2 * i
    <3>0. j \in Nat
      BY <1>1
    <3>1. PICK q \in Nat, r \in {0, 1} : j = 2 * q + r
      BY <3>0, HalfAndParity
    <3>2. r = 1 => q + 1 \in 1 .. n /\ j = 2 * (q + 1) - 1
      BY <1>1, <3>1
    <3>3. r = 0 => q \in 1 .. n /\ j = 2 * q
      BY <1>1, <3>1
    <3> QED
      BY <3>2, <3>3
  <2>2. c[i] \div 16 \in Nibble /\ c[i] % 16 \in Nibble
    <3>1. c[i] \in Byte
      OBVIOUS
    <3> HIDE DEF n
    <3> QED
      BY <3>1, ByteHalves
  <2> QED
    BY <2>1, <2>2, <1>4
<1>6. ASSUME NEW j \in 1 .. 2 * n + 1
      PROVE  b[j] \in Byte
  <2>1. j = 2 * n + 1 \/ j \in 1 .. 2 * n
    BY <1>1
  <2> QED
    BY <2>1, <1>3, <1>5 DEF Terminator, Nibble, Byte
<1>7. b \in [1 .. 2 * n + 1 -> Byte]
  BY <1>2, <1>6
<1>8. b \in Seq(Byte) /\ Len(b) = 2 * n + 1
  BY <1>1, <1>2, <1>7
<1> QED
  BY <1>3, <1>4, <1>5, <1>8 DEF b

(* What compactToHex makes of bytes with any flag nibble: the unpacked     *)
(* nibbles without the flag, or flag and padding, and with the terminator  *)
(* where the flag says leaf.                                               *)
LEMMA HexNibbles ==
    ASSUME NEW c \in Seq(Byte), Len(c) > 0,
           NEW b, b = keybytesToHex(c), NEW odd, odd = b[1] % 2,
           NEW last, last = IF b[1] < 2 THEN 2 * Len(c) ELSE 2 * Len(c) + 1
    PROVE  /\ compactToHex(c) \in Seq(Byte)
           /\ Len(compactToHex(c)) = last - 2 + odd
           /\ \A i \in 1 .. last - 2 + odd : compactToHex(c)[i] = b[2 - odd + i]
<1>1. Len(c) \in Nat /\ Len(c) >= 1
  OBVIOUS
<1>2. b \in Seq(Byte) /\ Len(b) = 2 * Len(c) + 1
  BY UnpackedBytes
<1>3. b[1] \in Byte
  BY <1>1, <1>2
<1>4. odd \in {0, 1}
  BY <1>3, ByteHalves
<1>5. last \in Nat /\ last >= 2 /\ last <= Len(b)
  BY <1>1, <1>2
<1>6. compactToHex(c) = SubSeq(b, 3 - odd, last)
  <2>1. (IF b[1] < 2 THEN Len(b) - 1 ELSE Len(b)) = last
    BY <1>1, <1>2
  <2>2. (2 - (b[1] % 2)) + 1 = 3 - odd
    BY <1>4
  <2>3. Len(c) # 0
    BY <1>1
  <2> QED
    BY <2>1, <2>2, <2>3 DEF compactToHex
<1>7. \A i \in (3 - odd) .. last : b[i] \in Byte
  BY <1>2, <1>4, <1>5
<1>8. 3 - odd \in Int /\ last \in Int
  BY <1>4, <1>5
<1>9. /\ SubSeq(b, 3 - odd, last) \in Seq(Byte)
      /\ Len(SubSeq(b, 3 - odd, last))
            = IF 3 - odd <= last THEN last - (3 - odd) + 1 ELSE 0
      /\ \A i \in 1 .. last - (3 - odd) + 1 :
             SubSeq(b, 3 - odd, last)[i] = b[(3 - odd) + i - 1]
  BY <1>7, <1>8, SubSeqProperties
<1>10. Len(SubSeq(b, 3 - odd, last)) = last - 2 + odd
  BY <1>4, <1>5, <1>9
<1>11. ASSUME NEW i \in 1 .. last - 2 + odd
       PROVE  SubSeq(b, 3 - odd, last)[i] = b[2 - odd + i]
  <2>1. i \in 1 .. last - (3 - odd) + 1 /\ (3 - odd) + i - 1 = 2 - odd + i
    BY <1>4, <1>5
  <2> QED
    BY <2>1, <1>9
<1> QED
  BY <1>6, <1>9, <1>10, <1>11

(* Storing again what was loaded from the wire: hexToCompact gives the     *)
(* compact path back, but for the padding nibble, and what was loaded is a *)
(* path, closed where the flag says leaf (shared/utils.go).                *)
LEMMA WireRoundTrip ==
    ASSUME NEW c \in Seq(Byte), KnownFlag(c)
    PROVE  /\ hexToCompact(compactToHex(c)) = Canonical(c)
           /\ compactToHex(c) \in Seq(Byte) /\ WellFormedHex(compactToHex(c))
           /\ hasTerm(compactToHex(c)) <=> c[1] \div 16 >= 2
<1> DEFINE n == Len(c)
           b == keybytesToHex(c)
           h == compactToHex(c)
           p == DropTerm(h)
           odd == b[1] % 2
           last == IF b[1] < 2 THEN 2 * n ELSE 2 * n + 1
<1>1. n \in Nat /\ n >= 1 /\ c[1] \in Byte /\ c[1] \div 16 < 4
  BY DEF KnownFlag
<1>2. /\ b \in Seq(Byte) /\ Len(b) = 2 * n + 1 /\ b[2 * n + 1] = Terminator
      /\ \A i \in 1 .. n : b[2 * i - 1] = c[i] \div 16 /\ b[2 * i] = c[i] % 16
      /\ \A j \in 1 .. 2 * n : b[j] \in Nibble
  BY UnpackedBytes
<1>3. b[1] = c[1] \div 16 /\ b[2] = c[1] % 16
  <2>1. b[2 * 1 - 1] = c[1] \div 16 /\ b[2 * 1] = c[1] % 16
    BY <1>1, <1>2
  <2> QED
    BY <2>1
<1>4. b[1] \in 0 .. 3 /\ odd \in {0, 1} /\ b[1] = (IF b[1] < 2 THEN 0 ELSE 2) + odd
  <2>1. b[1] \in Nibble
    BY <1>1, <1>3, ByteHalves
  <2>2. b[1] \in {0, 1, 2, 3}
    BY <1>1, <1>3, <2>1 DEF Nibble
  <2> QED
    BY <2>2
<1>5. /\ h \in Seq(Byte) /\ Len(h) = last - 2 + odd
      /\ \A i \in 1 .. last - 2 + odd : h[i] = b[2 - odd + i]
  BY <1>1, HexNibbles
<1> HIDE DEF b, h, odd
<1>6. \A i \in 1 .. 2 * n - 2 + odd : h[i] = b[2 - odd + i] /\ h[i] \in Nibble
  <2> TAKE i \in 1 .. 2 * n - 2 + odd
  <2>1. i \in 1 .. last - 2 + odd /\ 2 - odd + i \in 1 .. 2 * n
    BY <1>1, <1>4
  <2> QED
    BY <2>1, <1>2, <1>5
<1>7. b[1] >= 2 => Len(h) = 2 * n - 1 + odd /\ h[Len(h)] = Terminator
  <2> HAVE b[1] >= 2
  <2>1. last = 2 * n + 1
    BY <1>4
  <2>2. Len(h) = 2 * n - 1 + odd
    BY <1>1, <1>4, <1>5, <2>1
  <2>3. h[2 * n - 1 + odd] = b[2 - odd + (2 * n - 1 + odd)]
    BY <1>1, <1>4, <1>5, <2>1
  <2>4. 2 - odd + (2 * n - 1 + odd) = 2 * n + 1
    BY <1>1, <1>4
  <2> QED
    BY <2>2, <2>3, <2>4, <1>2
<1>8. b[1] < 2 => Len(h) = 2 * n - 2 + odd
  BY <1>1, <1>4, <1>5
<1>9. WellFormedHex(h)
  <2> SUFFICES ASSUME NEW i \in 1 .. Len(h)
               PROVE  h[i] \in Nibble \/ (i = Len(h) /\ h[i] = Terminator)
    BY DEF WellFormedHex
  <2>1. i \in 1 .. 2 * n - 2 + odd \/ (b[1] >= 2 /\ i = Len(h))
    BY <1>1, <1>4, <1>7, <1>8
  <2> QED
    BY <2>1, <1>6, <1>7
<1>10. hasTerm(h) <=> b[1] >= 2
  <2>1. b[1] >= 2 => hasTerm(h)
    BY <1>1, <1>4, <1>7 DEF hasTerm
  <2>2. b[1] < 2 => ~hasTerm(h)
    <3> SUFFICES ASSUME b[1] < 2, hasTerm(h) PROVE FALSE
      OBVIOUS
    <3>1. Len(h) \in 1 .. 2 * n - 2 + odd
      BY <1>1, <1>4, <1>8 DEF hasTerm
    <3>2. h[Len(h)] \in Nibble
      BY <3>1, <1>6
    <3> QED
      BY <3>2 DEF hasTerm, Nibble, Terminator
  <2> QED
    BY <1>4, <2>1, <2>2
<1>11. /\ Len(p) = 2 * (n - 1) + odd
       /\ \A i \in 1 .. Len(p) : p[i] = h[i]
  <2>1. /\ Len(p) = IF hasTerm(h) THEN Len(h) - 1 ELSE Len(h)
        /\ \A i \in 1 .. Len(p) : p[i] = h[i]
    BY <1>5, <1>9, DropTermPath
  <2>2. Len(p) = 2 * (n - 1) + odd
    BY <2>1, <1>1, <1>4, <1>7, <1>8, <1>10
  <2> QED
    BY <2>1, <2>2
<1> DEFINE d == hexToCompact(h)
<1>12. /\ d = [i \in 1 .. n |-> d[i]]
       /\ d[1] = (IF hasTerm(h) THEN 32 ELSE 0)
                 + (IF odd = 1 THEN 16 + p[1] ELSE 0)
       /\ \A i \in 1 .. n - 1 :
             d[i + 1] = 16 * p[odd + 2 * i - 1] + p[odd + 2 * i]
  <2>1. PICK q \in Nat, r \in {0, 1} : q = n - 1 /\ r = odd
    BY <1>1, <1>4
  <2>2. h \in Seq(Byte) /\ WellFormedHex(h) /\ Len(DropTerm(h)) = 2 * q + r
    BY <1>5, <1>9, <1>11, <2>1
  <2>3. LET e == hexToCompact(h)
        IN  /\ e = [i \in 1 .. q + 1 |-> e[i]]
            /\ e[1] = (IF hasTerm(h) THEN 32 ELSE 0)
                      + (IF r = 1 THEN 16 + DropTerm(h)[1] ELSE 0)
            /\ \A i \in 1 .. q :
                  e[i + 1] = 16 * DropTerm(h)[r + 2 * i - 1]
                             + DropTerm(h)[r + 2 * i]
    BY <2>2, CompactBytes
  <2>4. q + 1 = n
    BY <1>1, <2>1
  <2> QED
    BY <2>1, <2>3, <2>4
<1> HIDE DEF d, p
<1>13. \A i \in 1 .. 2 * n - 2 + odd : p[i] = b[2 - odd + i]
  <2> TAKE i \in 1 .. 2 * n - 2 + odd
  <2>1. i \in 1 .. Len(p)
    BY <1>1, <1>4, <1>11
  <2> QED
    BY <2>1, <1>6, <1>11
<1>14. d[1] = IF odd = 0 THEN 16 * (c[1] \div 16) ELSE c[1]
  <2>1. CASE odd = 0
    BY <2>1, <1>3, <1>4, <1>10, <1>12
  <2>2. CASE odd = 1
    <3>1. p[1] = b[2]
      <4>1. p[1] = b[2 - odd + 1]
        BY <1>1, <2>2, <1>13
      <4> QED
        BY <4>1, <2>2
    <3>2. b[1] \in Int /\ b[2] \in Int /\ 16 * b[1] + b[2] = c[1]
      BY <1>1, <1>3, ByteHalves DEF Nibble
    <3>3. d[1] = (IF b[1] >= 2 THEN 32 ELSE 0) + 16 + b[2]
      BY <2>2, <3>1, <3>2, <1>10, <1>12
    <3>4. b[1] = (IF b[1] >= 2 THEN 2 ELSE 0) + 1
      BY <2>2, <1>4
    <3> QED
      BY <2>2, <3>2, <3>3, <3>4
  <2> QED
    BY <1>4, <2>1, <2>2
<1>15. ASSUME NEW i \in 1 .. n - 1
       PROVE  d[i + 1] = c[i + 1]
  <2>1. /\ odd + 2 * i - 1 \in 1 .. 2 * n - 2 + odd
        /\ odd + 2 * i \in 1 .. 2 * n - 2 + odd
        /\ 2 - odd + (odd + 2 * i - 1) = 2 * (i + 1) - 1
        /\ 2 - odd + (odd + 2 * i) = 2 * (i + 1)
        /\ i + 1 \in 1 .. n
    BY <1>1, <1>4
  <2>2. p[odd + 2 * i - 1] = b[2 * (i + 1) - 1] /\ p[odd + 2 * i] = b[2 * (i + 1)]
    BY <2>1, <1>13
  <2>3. b[2 * (i + 1) - 1] = c[i + 1] \div 16 /\ b[2 * (i + 1)] = c[i + 1] % 16
    BY <2>1, <1>2
  <2>4. c[i + 1] \in Byte
    BY <2>1
  <2>5. 16 * (c[i + 1] \div 16) + (c[i + 1] % 16) = c[i + 1]
    BY <2>4, ByteHalves
  <2>6. d[i + 1] = 16 * p[odd + 2 * i - 1] + p[odd + 2 * i]
    BY <1>12
  <2> QED
    BY <2>2, <2>3, <2>5, <2>6
<1>16. odd = (c[1] \div 16) % 2
  BY <1>3 DEF odd
<1>17. \A j \in 1 .. n : d[j] = IF j = 1 /\ (c[1] \div 16) % 2 = 0
                               THEN 16 * (c[1] \div 16) ELSE c[j]
  <2> TAKE j \in 1 .. n
  <2>1. CASE j = 1
    BY <2>1, <1>4, <1>14, <1>16
  <2>2. CASE j # 1
    <3>1. j - 1 \in 1 .. n - 1 /\ (j - 1) + 1 = j
      BY <1>1, <2>2
    <3>2. d[(j - 1) + 1] = c[(j - 1) + 1]
      BY <3>1, <1>15
    <3> QED
      BY <2>2, <3>1, <3>2
  <2> QED
    BY <2>1, <2>2
<1>18. d = Canonical(c)
  BY <1>12, <1>17 DEF Canonical
<1> QED
  BY <1>3, <1>5, <1>9, <1>10, <1>18 DEF d, h

(* What hexToCompact writes is the hex-prefix encoding (shared/utils.go).  *)
LEMMA CompactIsHexPrefix ==
    ASSUME NEW h \in Seq(Byte), WellFormedHex(h)
    PROVE  hexToCompact(h) = HP(DropTerm(h), hasTerm(h))
<1> DEFINE p == DropTerm(h)
           leaf == hasTerm(h)
           c == hexToCompact(h)
           ns == HPNibbles(p, leaf)
<1>1. p \in Seq(Nibble) /\ Len(p) \in Nat
  BY DropTermPath
<1>2. PICK q \in Nat, odd \in {0, 1} : Len(p) = 2 * q + odd
  BY <1>1, HalfAndParity
<1>3. /\ c = [i \in 1 .. q + 1 |-> c[i]]
      /\ c[1] = (IF leaf THEN 32 ELSE 0) + (IF odd = 1 THEN 16 + p[1] ELSE 0)
      /\ \A i \in 1 .. q :
            c[i + 1] = 16 * p[odd + 2 * i - 1] + p[odd + 2 * i]
  BY <1>2, CompactBytes
<1> HIDE DEF p, c, leaf
<1>4. Len(p) % 2 = odd
  BY <1>2
<1>5. CASE odd = 1
  <2>1. ns = <<IF leaf THEN 3 ELSE 1>> \o p
    BY <1>4, <1>5 DEF HPNibbles
  <2>2. Len(ns) = 2 * q + 2 /\ ns[1] = (IF leaf THEN 3 ELSE 1)
        /\ \A i \in 1 .. Len(p) : ns[i + 1] = p[i]
    BY <1>1, <1>2, <1>5, <2>1
  <2> HIDE DEF ns
  <2>3. Len(ns) \div 2 = q + 1
    BY <2>2
  <2>4. HP(p, leaf) = [i \in 1 .. q + 1 |-> 16 * ns[2 * i - 1] + ns[2 * i]]
    BY <2>3 DEF HP, ns
  <2>5. p[1] \in Int
    BY <1>1, <1>2, <1>5 DEF Nibble
  <2>6. c[1] = 16 * ns[1] + ns[2]
    <3>1. ns[2] = p[1]
      <4>1. ns[1 + 1] = p[1]
        BY <1>2, <1>5, <2>2
      <4> QED
        BY <4>1
    <3> QED
      BY <3>1, <2>2, <2>5, <1>3, <1>5
  <2>7. ASSUME NEW i \in 1 .. q
        PROVE  c[i + 1] = 16 * ns[2 * (i + 1) - 1] + ns[2 * (i + 1)]
    <3>1. ns[2 * (i + 1) - 1] = p[2 * i]
      <4>1. ns[2 * i + 1] = p[2 * i]
        BY <1>2, <1>5, <2>2
      <4>2. 2 * (i + 1) - 1 = 2 * i + 1
        OBVIOUS
      <4> QED
        BY <4>1, <4>2
    <3>2. ns[2 * (i + 1)] = p[2 * i + 1]
      <4>1. ns[(2 * i + 1) + 1] = p[2 * i + 1]
        BY <1>2, <1>5, <2>2
      <4>2. 2 * (i + 1) = (2 * i + 1) + 1
        OBVIOUS
      <4> QED
        BY <4>1, <4>2
    <3>3. odd + 2 * i - 1 = 2 * i /\ odd + 2 * i = 2 * i + 1
      BY <1>5
    <3> QED
      BY <3>1, <3>2, <3>3, <1>3
  <2>8. \A j \in 1 .. q + 1 : c[j] = 16 * ns[2 * j - 1] + ns[2 * j]
    <3> TAKE j \in 1 .. q + 1
    <3>1. j = 1 \/ (j - 1 \in 1 .. q /\ (j - 1) + 1 = j)
      OBVIOUS
    <3>2. j - 1 \in 1 .. q => c[(j - 1) + 1] = 16 * ns[2 * ((j - 1) + 1) - 1]
                                              + ns[2 * ((j - 1) + 1)]
      BY <2>7
    <3> QED
      BY <3>1, <3>2, <2>6
  <2> QED
    BY <1>3, <2>4, <2>8 DEF c, p, leaf
<1>6. CASE odd = 0
  <2>1. ns = <<IF leaf THEN 2 ELSE 0, 0>> \o p
    BY <1>4, <1>6 DEF HPNibbles
  <2>2. Len(ns) = 2 * q + 2 /\ ns[1] = (IF leaf THEN 2 ELSE 0) /\ ns[2] = 0
        /\ \A i \in 1 .. Len(p) : ns[i + 2] = p[i]
    BY <1>1, <1>2, <1>6, <2>1
  <2> HIDE DEF ns
  <2>3. Len(ns) \div 2 = q + 1
    BY <2>2
  <2>4. HP(p, leaf) = [i \in 1 .. q + 1 |-> 16 * ns[2 * i - 1] + ns[2 * i]]
    BY <2>3 DEF HP, ns
  <2>5. c[1] = 16 * ns[1] + ns[2]
    BY <2>2, <1>3, <1>6
  <2>6. ASSUME NEW i \in 1 .. q
        PROVE  c[i + 1] = 16 * ns[2 * (i + 1) - 1] + ns[2 * (i + 1)]
    <3>1. ns[2 * (i + 1) - 1] = p[2 * i - 1]
      <4>1. ns[(2 * i - 1) + 2] = p[2 * i - 1]
        BY <1>2, <1>6, <2>2
      <4>2. 2 * (i + 1) - 1 = (2 * i - 1) + 2
        OBVIOUS
      <4> QED
        BY <4>1, <4>2
    <3>2. ns[2 * (i + 1)] = p[2 * i]
      <4>1. ns[2 * i + 2] = p[2 * i]
        BY <1>2, <1>6, <2>2
      <4>2. 2 * (i + 1) = 2 * i + 2
        OBVIOUS
      <4> QED
        BY <4>1, <4>2
    <3>3. odd + 2 * i - 1 = 2 * i - 1 /\ odd + 2 * i = 2 * i
      BY <1>6
    <3> QED
      BY <3>1, <3>2, <3>3, <1>3
  <2>7. \A j \in 1 .. q + 1 : c[j] = 16 * ns[2 * j - 1] + ns[2 * j]
    <3> TAKE j \in 1 .. q + 1
    <3>1. j = 1 \/ (j - 1 \in 1 .. q /\ (j - 1) + 1 = j)
      OBVIOUS
    <3>2. j - 1 \in 1 .. q => c[(j - 1) + 1] = 16 * ns[2 * ((j - 1) + 1) - 1]
                                              + ns[2 * ((j - 1) + 1)]
      BY <2>6
    <3> QED
      BY <3>1, <3>2, <2>5
  <2> QED
    BY <1>3, <2>4, <2>7 DEF c, p, leaf
<1> QED
  BY <1>2, <1>5, <1>6
(* A byte or-ed into 16 or 48 leaves the odd flag set. *)
LEMMA OrKeepsOdd ==
    ASSUME NEW f \in {16, 48}, NEW x \in Byte
    PROVE  (ByteOr(f, x) \div 16) % 2 = 1
<1> DEFINE hi == Or4(f \div 16, x \div 16)
           lo == Or4(f % 16, x % 16)
           q == 4 * Or1((f \div 16) \div 8, (x \div 16) \div 8)
                + 2 * Or1(((f \div 16) \div 4) % 2, ((x \div 16) \div 4) % 2)
                + Or1(((f \div 16) \div 2) % 2, ((x \div 16) \div 2) % 2)
<1>1. \A a, b : Or1(a, b) \in {0, 1}
  BY DEF Or1
<1>2. q \in Int
  <2>1. /\ Or1((f \div 16) \div 8, (x \div 16) \div 8) \in {0, 1}
        /\ Or1(((f \div 16) \div 4) % 2, ((x \div 16) \div 4) % 2) \in {0, 1}
        /\ Or1(((f \div 16) \div 2) % 2, ((x \div 16) \div 2) % 2) \in {0, 1}
    BY <1>1
  <2> QED
    BY <2>1
<1>3. Or1((f \div 16) % 2, (x \div 16) % 2) = 1
  <2>1. (f \div 16) % 2 = 1
    OBVIOUS
  <2>2. (x \div 16) % 2 \in {0, 1}
    BY DEF Byte
  <2> QED
    BY <2>1, <2>2 DEF Or1
<1>4. hi = 2 * q + 1
  <2>1. hi = 8 * Or1((f \div 16) \div 8, (x \div 16) \div 8)
             + 4 * Or1(((f \div 16) \div 4) % 2, ((x \div 16) \div 4) % 2)
             + 2 * Or1(((f \div 16) \div 2) % 2, ((x \div 16) \div 2) % 2)
             + Or1((f \div 16) % 2, (x \div 16) % 2)
    BY Zenon DEF Or4
  <2>2. /\ Or1((f \div 16) \div 8, (x \div 16) \div 8) \in {0, 1}
        /\ Or1(((f \div 16) \div 4) % 2, ((x \div 16) \div 4) % 2) \in {0, 1}
        /\ Or1(((f \div 16) \div 2) % 2, ((x \div 16) \div 2) % 2) \in {0, 1}
    BY <1>1
  <2> HIDE DEF hi
  <2> QED
    BY <2>1, <2>2, <1>3
<1>5. lo \in Nibble
  <2>1. /\ Or1((f % 16) \div 8, (x % 16) \div 8) \in {0, 1}
        /\ Or1(((f % 16) \div 4) % 2, ((x % 16) \div 4) % 2) \in {0, 1}
        /\ Or1(((f % 16) \div 2) % 2, ((x % 16) \div 2) % 2) \in {0, 1}
        /\ Or1((f % 16) % 2, (x % 16) % 2) \in {0, 1}
    BY <1>1
  <2> QED
    BY <2>1 DEF Or4, Nibble
<1>6. ByteOr(f, x) = 16 * hi + lo
  BY DEF ByteOr
<1> HIDE DEF q, lo, hi
<1>7. ByteOr(f, x) \div 16 = 2 * q + 1
  BY <1>2, <1>4, <1>5, <1>6 DEF Nibble
<1> QED
  BY <1>2, <1>7

(* What hexToCompact writes, even of bytes that are no nibbles, has no     *)
(* padding to lose (shared/utils.go).                                      *)
LEMMA CompactIsCanonical ==
    ASSUME NEW h \in Seq(Byte)
    PROVE  /\ Canonical(hexToCompact(h)) = hexToCompact(h)
           /\ hexToCompact(h) # << >>
<1> DEFINE p == DropTerm(h)
           c == hexToCompact(h)
           n == (Len(p) \div 2) + 1
<1>1. p \in Seq(Byte)
  BY DEF DropTerm, hasTerm
<1>2. Len(p) \in Nat /\ n \in Nat /\ n >= 1
  BY <1>1
<1>3. c = [i \in 1 .. n |-> IF i = 1 THEN FlagByte(hasTerm(h), p)
                            ELSE decodeNibbles(p, Len(p) % 2, i - 1)]
  BY DEF hexToCompact
<1>4. c[1] = FlagByte(hasTerm(h), p)
  BY <1>2, <1>3
<1>5. Len(c) = n
  BY <1>2, <1>3
<1>6. (c[1] \div 16) % 2 = 0 => 16 * (c[1] \div 16) = c[1]
  <2>1. CASE Len(p) % 2 = 1
    <3>1. p[1] \in Byte
      BY <1>1, <1>2, <2>1
    <3>2. ByteOr(32, 16) = 48 /\ ByteOr(0, 16) = 16
      BY DEF ByteOr, Or4, Or1
    <3>3. c[1] = ByteOr(48, p[1]) \/ c[1] = ByteOr(16, p[1])
      BY <1>4, <2>1, <3>2 DEF FlagByte
    <3>4. /\ (ByteOr(48, p[1]) \div 16) % 2 = 1
          /\ (ByteOr(16, p[1]) \div 16) % 2 = 1
      BY <3>1, OrKeepsOdd
    <3>5. (c[1] \div 16) % 2 = 1
      BY <3>3, <3>4
    <3> QED
      BY <3>5
  <2>2. CASE Len(p) % 2 # 1
    <3>1. c[1] \in {0, 32}
      BY <1>4, <2>2 DEF FlagByte
    <3> QED
      BY <3>1
  <2> QED
    BY <2>1, <2>2
<1>7. c = [i \in 1 .. n |-> c[i]]
  BY <1>3
<1> HIDE DEF c, n
<1>8. Canonical(c) = c
  BY <1>5, <1>6, <1>7 DEF Canonical
<1>9. c # << >>
  BY <1>2, <1>5
<1> QED
  BY <1>8, <1>9 DEF c

(* The flag nibble it writes for a path says whether that is closed. *)
LEMMA CompactFlag ==
    ASSUME NEW h \in Seq(Byte), WellFormedHex(h)
    PROVE  hexToCompact(h)[1] \div 16 \in
               IF hasTerm(h) THEN {2, 3} ELSE {0, 1}
<1> DEFINE p == DropTerm(h)
           c == hexToCompact(h)
<1>1. p \in Seq(Nibble) /\ Len(p) \in Nat
  BY DropTermPath
<1>2. PICK q \in Nat, odd \in {0, 1} : Len(p) = 2 * q + odd
  BY <1>1, HalfAndParity
<1>3. c[1] = (IF hasTerm(h) THEN 32 ELSE 0) + (IF odd = 1 THEN 16 + p[1] ELSE 0)
  BY <1>2, CompactBytes
<1>4. odd = 1 => p[1] \in Nibble
  BY <1>1, <1>2
<1> HIDE DEF c, p
<1>5. CASE odd = 1
  <2>1. PICK m \in Nibble : m = p[1]
    BY <1>4, <1>5
  <2>2. c[1] = (IF hasTerm(h) THEN 32 ELSE 0) + (16 + m)
    BY <1>3, <1>5, <2>1
  <2>3. (48 + m) \div 16 = 3 /\ (16 + m) \div 16 = 1
    BY DEF Nibble
  <2>4. 32 + (16 + m) = 48 + m /\ 0 + (16 + m) = 16 + m
    BY DEF Nibble
  <2> QED
    BY <2>2, <2>3, <2>4 DEF c
<1>6. CASE odd = 0
  BY <1>3, <1>6 DEF c
<1> QED
  BY <1>5, <1>6
=============================================================================
