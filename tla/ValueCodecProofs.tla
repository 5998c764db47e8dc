-------------------------- MODULE ValueCodecProofs --------------------------
(***************************************************************************)
(* The codecs of values, one call at a time, for every length of field.    *)
(*                                                                         *)
(* First the parts they share: calls in order, byte strings, and the       *)
(* fields of a record.  Then each codec, with three laws: it decodes a     *)
(* block that it wrote to the normal form of the node (Stores), a          *)
(* well-formed node is encoded and is its own normal form (Kept), and a    *)
(* node that it decodes is well formed and is encoded to a block that says *)
(* the same (Loads).                                                       *)
(***************************************************************************)
EXTENDS TxCodec, RctCodec, HeaderCodec, WellFoundedInduction, TLAPS

----------------------------------------------------------------------------
(* Calls in order (Outcome).                                               *)

LEMMA LeastIsLeast ==
    ASSUME NEW S, S \subseteq Nat, S # {}
    PROVE  Least(S) \in S /\ \A j \in S : Least(S) <= j
<1> DEFINE R == {ss \in Nat \X Nat : ss[1] < ss[2]}
<1>1. IsWellFoundedOn(R, Nat)
  BY NatLessThanWellFounded, Zenon DEF OpToRel
<1> HIDE DEF R
<1>2. PICK i \in S : \A j \in S : ~(<<j, i>> \in R)
  BY <1>1, WFMin
<1>3. \A j \in S : i <= j
  <2> TAKE j \in S
  <2>1. ~(j < i)
    BY <1>2 DEF R
  <2> QED
    BY <2>1
<1> QED
  BY <1>3 DEF Least

LEMMA OkIsOk == \A y : Ok(y).st = "ok" /\ Ok(y).x = y
  BY DEF Ok

(* InOrder is ok just when every call is, and else ends as one of them. *)
LEMMA InOrderEnds ==
    ASSUME NEW N \in Nat, NEW calls, DOMAIN calls = 1 .. N
    PROVE  /\ (\A i \in 1 .. N : calls[i].st = "ok") =>
                 InOrder(calls) = Ok([i \in 1 .. N |-> calls[i].x])
           /\ (\E i \in 1 .. N : calls[i].st # "ok") =>
                 \E i \in 1 .. N : calls[i].st # "ok" /\ InOrder(calls) = calls[i]
<1> DEFINE failed == {i \in DOMAIN calls : calls[i].st # "ok"}
<1>1. InOrder(calls) = IF failed = {}
                       THEN Ok([i \in DOMAIN calls |-> calls[i].x])
                       ELSE calls[Least(failed)]
  BY Zenon DEF InOrder
<1>2. CASE failed = {}
  BY <1>1, <1>2
<1>3. CASE failed # {}
  <2>1. failed \subseteq Nat
    OBVIOUS
  <2>2. Least(failed) \in failed
    BY <1>3, <2>1, LeastIsLeast, Zenon
  <2> QED
    BY <1>1, <1>3, <2>2
<1> QED
  BY <1>2, <1>3

LEMMA AllOk ==
    ASSUME NEW N \in Nat, NEW calls, DOMAIN calls = 1 .. N,
           InOrder(calls).st = "ok"
    PROVE  \A i \in 1 .. N : calls[i].st = "ok"
<1>1. CASE \E i \in 1 .. N : calls[i].st # "ok"
  <2>1. PICK i \in 1 .. N : calls[i].st # "ok" /\ InOrder(calls) = calls[i]
    BY <1>1, InOrderEnds
  <2> QED
    BY <2>1
<1> QED
  BY <1>1

(* A member at hand, then a call. *)
LEMMA InOrderPair ==
    ASSUME NEW a, NEW r
    PROVE  InOrder(<<Ok(a), r>>) =
               IF r.st = "ok" THEN Ok(<<a, r.x>>) ELSE r
<1> DEFINE calls == <<Ok(a), r>>
<1>1. DOMAIN calls = 1 .. 2 /\ calls[1] = Ok(a) /\ calls[2] = r
  OBVIOUS
<1>2. Ok(a).st = "ok" /\ Ok(a).x = a
  BY DEF Ok
<1> HIDE DEF calls
<1>3. CASE r.st = "ok"
  <2>1. InOrder(calls) = Ok([i \in 1 .. 2 |-> calls[i].x])
    <3>1. \A i \in 1 .. 2 : calls[i].st = "ok"
      BY <1>1, <1>2, <1>3
    <3> QED
      BY <1>1, <3>1, InOrderEnds
  <2>2. [i \in 1 .. 2 |-> calls[i].x] = <<a, r.x>>
    BY <1>1, <1>2
  <2> QED
    BY <1>3, <2>1, <2>2 DEF calls
<1>4. CASE r.st # "ok"
  <2>1. \E i \in 1 .. 2 : calls[i].st # "ok"
    BY <1>1, <1>4
  <2>2. PICK i \in 1 .. 2 : calls[i].st # "ok" /\ InOrder(calls) = calls[i]
    BY <1>1, <2>1, InOrderEnds
  <2>3. i = 2
    BY <1>1, <1>2, <2>2
  <2> QED
    BY <1>1, <1>4, <2>2, <2>3 DEF calls
<1> QED
  BY <1>3, <1>4

----------------------------------------------------------------------------
(* What nodes and items are made of.                                       *)

Tuple(l) == Len(l) \in Nat /\ l = [i \in 1 .. Len(l) |-> l[i]]

Octet == 0 .. 255
ByteSeq == Seq(Octet)

LEMMA Octets == 0 \in Octet /\ 1 \in Octet /\ 2 \in Octet /\ << >> \in ByteSeq
  BY DEF Octet, ByteSeq

LEMMA ByteSeqFacts ==
    ASSUME NEW b \in ByteSeq
    PROVE  /\ Len(b) \in Nat /\ DOMAIN b = 1 .. Len(b)
           /\ \A i \in 1 .. Len(b) : b[i] \in Octet
  BY DEF ByteSeq

(* A byte string, as an item and as a field. *)
Str(x) == x = Bytes(x.b) /\ x.b \in ByteSeq

LEMMA BytesIsStr ==
    ASSUME NEW b \in ByteSeq
    PROVE  Str(Bytes(b)) /\ Bytes(b).b = b /\ IsBytes(Bytes(b))
           /\ Bytes(b).is = "bytes"
  BY DEF Bytes, Str, IsBytes

LEMMA StrIsBytes ==
    ASSUME NEW x, Str(x)
    PROVE  x.is = "bytes" /\ IsBytes(x) /\ ~IsList(x) /\ x.b \in ByteSeq
           /\ x = Bytes(x.b) /\ x # Null
  BY DEF Bytes, Str, IsBytes, IsList, Null

----------------------------------------------------------------------------
(* Integers and arrays (SetBytes, Fit).                                    *)

(* SetBytes drops leading zeros, all of them and nothing else. *)
LEMMA SetBytesDrops ==
    ASSUME NEW b \in ByteSeq
    PROVE  LET s == SetBytes(b)
           IN  /\ s \in ByteSeq /\ Len(s) \in Nat /\ Len(s) <= Len(b)
               /\ s = << >> \/ s[1] # 0
               /\ \A i \in 1 .. Len(s) : s[i] = b[i + Len(b) - Len(s)]
               /\ \A i \in 1 .. Len(b) - Len(s) : b[i] = 0
<1> DEFINE nonZero == {i \in DOMAIN b : b[i] # 0}
           s == SetBytes(b)
<1>1. DOMAIN b = 1 .. Len(b) /\ Len(b) \in Nat
  BY ByteSeqFacts
<1>2. s = IF nonZero = {} THEN << >> ELSE SubSeq(b, Least(nonZero), Len(b))
  BY Zenon DEF SetBytes
<1>3. CASE nonZero = {}
  <2>1. s = << >> /\ Len(s) = 0
    BY <1>2, <1>3
  <2>2. \A i \in 1 .. Len(b) : b[i] = 0
    BY <1>1, <1>3
  <2> HIDE DEF s, nonZero
  <2> QED
    BY <1>1, <2>1, <2>2 DEF s, ByteSeq
<1>4. CASE nonZero # {}
  <2> DEFINE k == Least(nonZero)
  <2>1. nonZero \subseteq Nat
    BY <1>1
  <2>2. k \in nonZero /\ \A j \in nonZero : k <= j
    BY <1>4, <2>1, LeastIsLeast
  <2>3. k \in 1 .. Len(b) /\ b[k] # 0 /\ \A i \in 1 .. k - 1 : b[i] = 0
    <3> HIDE DEF k
    <3>1. k \in 1 .. Len(b) /\ b[k] # 0
      BY <1>1, <2>2
    <3>2. \A i \in 1 .. k - 1 : i \in DOMAIN b /\ ~(k <= i)
      BY <1>1, <3>1
    <3> QED
      BY <2>2, <3>1, <3>2
  <2>4. s = SubSeq(b, k, Len(b))
    BY <1>2, <1>4
  <2> HIDE DEF k, nonZero, s
  <2>5. /\ s \in ByteSeq /\ Len(s) = Len(b) - k + 1
        /\ \A i \in 1 .. Len(s) : s[i] = b[i + k - 1]
    BY <1>1, <2>3, <2>4 DEF ByteSeq
  <2>6. s[1] = b[k]
    BY <1>1, <2>3, <2>5
  <2>7. \A i \in 1 .. Len(s) : i + k - 1 = i + Len(b) - Len(s)
    BY <1>1, <2>3, <2>5
  <2> QED
    BY <1>1, <2>3, <2>5, <2>6, <2>7 DEF s
<1> QED
  BY <1>3, <1>4

(* What begins with no zero is an integer's bytes already. *)
LEMMA IntegersStay ==
    ASSUME NEW b \in ByteSeq, b = << >> \/ b[1] # 0
    PROVE  SetBytes(b) = b
<1> DEFINE s == SetBytes(b)
<1>1. /\ s \in ByteSeq /\ Len(s) \in Nat /\ Len(s) <= Len(b)
      /\ \A i \in 1 .. Len(s) : s[i] = b[i + Len(b) - Len(s)]
      /\ \A i \in 1 .. Len(b) - Len(s) : b[i] = 0
  BY SetBytesDrops
<1> HIDE DEF s
<1>2. Len(s) = Len(b)
  BY <1>1 DEF ByteSeq
<1>3. \A i \in 1 .. Len(b) : s[i] = b[i]
  BY <1>1, <1>2 DEF ByteSeq
<1> QED
  BY <1>1, <1>2, <1>3 DEF s, ByteSeq

LEMMA SetBytesIsInteger ==
    ASSUME NEW b \in ByteSeq
    PROVE  SetBytes(b) \in ByteSeq /\ SetBytes(SetBytes(b)) = SetBytes(b)
  BY SetBytesDrops, IntegersStay

LEMMA FitFits ==
    ASSUME NEW b \in ByteSeq, NEW n \in Nat
    PROVE  /\ Fit(b, n) \in ByteSeq /\ Len(Fit(b, n)) = n
           /\ \A i \in 1 .. n : Fit(b, n)[i] = IF i + Len(b) > n
                                             THEN b[i + Len(b) - n] ELSE 0
           /\ Len(b) = n => Fit(b, n) = b
<1> DEFINE y == Fit(b, n)
<1>1. Len(b) \in Nat /\ \A i \in 1 .. Len(b) : b[i] \in Octet
  BY ByteSeqFacts
<1>2. y = [i \in 1 .. n |-> IF i + Len(b) > n THEN b[i + Len(b) - n] ELSE 0]
  BY DEF Fit
<1> HIDE DEF y
<1>3. \A i \in 1 .. n : y[i] = IF i + Len(b) > n THEN b[i + Len(b) - n] ELSE 0
  BY <1>2
<1>4. \A i \in 1 .. n : y[i] \in Octet
  BY <1>1, <1>3, Octets
<1>5. y \in ByteSeq /\ Len(y) = n
  BY <1>2, <1>4 DEF ByteSeq
<1>6. ASSUME Len(b) = n PROVE y = b
  <2>1. \A i \in 1 .. n : y[i] = b[i]
    BY <1>3, <1>6
  <2> QED
    BY <1>5, <1>6, <2>1 DEF ByteSeq
<1> QED
  BY <1>3, <1>5, <1>6 DEF y

(* The zeros that SetBytes dropped are filled in again. *)
LEMMA FitSetBytes ==
    ASSUME NEW b \in ByteSeq
    PROVE  Fit(SetBytes(b), Len(b)) = b
<1> DEFINE s == SetBytes(b)
           y == Fit(s, Len(b))
<1>1. /\ s \in ByteSeq /\ Len(s) \in Nat /\ Len(s) <= Len(b)
      /\ \A i \in 1 .. Len(s) : s[i] = b[i + Len(b) - Len(s)]
      /\ \A i \in 1 .. Len(b) - Len(s) : b[i] = 0
  BY SetBytesDrops
<1>2. Len(b) \in Nat
  BY DEF ByteSeq
<1> HIDE DEF s
<1>3. /\ y \in ByteSeq /\ Len(y) = Len(b)
      /\ \A i \in 1 .. Len(b) : y[i] = IF i + Len(s) > Len(b)
                                       THEN s[i + Len(s) - Len(b)] ELSE 0
  BY <1>1, <1>2, FitFits
<1> HIDE DEF y
<1>4. ASSUME NEW i \in 1 .. Len(b) PROVE y[i] = b[i]
  <2>1. CASE i + Len(s) > Len(b)
    <3>1. i + Len(s) - Len(b) \in 1 .. Len(s)
      BY <1>1, <1>2, <2>1
    <3>2. s[i + Len(s) - Len(b)] = b[i + Len(s) - Len(b) + Len(b) - Len(s)]
      BY <1>1, <3>1
    <3>3. i + Len(s) - Len(b) + Len(b) - Len(s) = i
      BY <1>1, <1>2
    <3> QED
      BY <1>3, <2>1, <3>2, <3>3
  <2>2. CASE ~(i + Len(s) > Len(b))
    <3>1. i \in 1 .. Len(b) - Len(s)
      BY <1>1, <1>2, <2>2
    <3> QED
      BY <1>1, <1>3, <2>2, <3>1
  <2> QED
    BY <2>1, <2>2
<1> QED
  BY <1>3, <1>4 DEF y, s, ByteSeq

(* An integer that was filled with zeros is the same integer. *)
LEMMA SetBytesFit ==
    ASSUME NEW b \in ByteSeq, SetBytes(b) = b, NEW n \in Nat, Len(b) <= n
    PROVE  SetBytes(Fit(b, n)) = b
<1> DEFINE y == Fit(b, n)
           s == SetBytes(y)
<1>1. /\ y \in ByteSeq /\ Len(y) = n
      /\ \A i \in 1 .. n : y[i] = IF i + Len(b) > n
                                   THEN b[i + Len(b) - n] ELSE 0
  BY FitFits
<1>2. Len(b) \in Nat /\ (b = << >> \/ b[1] # 0)
  BY SetBytesDrops DEF ByteSeq
<1> HIDE DEF y
<1>3. /\ s \in ByteSeq /\ Len(s) \in Nat /\ Len(s) <= n
      /\ s = << >> \/ s[1] # 0
      /\ \A i \in 1 .. Len(s) : s[i] = y[i + n - Len(s)]
      /\ \A i \in 1 .. n - Len(s) : y[i] = 0
  BY <1>1, SetBytesDrops
<1> HIDE DEF s
<1>4. ~(Len(s) > Len(b))
  <2> SUFFICES ASSUME Len(s) > Len(b) PROVE FALSE
    OBVIOUS
  <2>1. s[1] = y[1 + n - Len(s)] /\ s[1] # 0
    BY <1>2, <1>3
  <2>2. 1 + n - Len(s) \in 1 .. n /\ ~(1 + n - Len(s) + Len(b) > n)
    BY <1>2, <1>3
  <2> QED
    BY <1>1, <2>1, <2>2
<1>5. ~(Len(s) < Len(b))
  <2> SUFFICES ASSUME Len(s) < Len(b) PROVE FALSE
    OBVIOUS
  <2> DEFINE k == n - Len(b) + 1
  <2>1. k \in 1 .. n - Len(s) /\ k \in 1 .. n /\ k + Len(b) > n
        /\ k + Len(b) - n = 1
    BY <1>2, <1>3
  <2> HIDE DEF k
  <2>2. y[k] = 0 /\ y[k] = b[1]
    BY <1>1, <1>3, <2>1
  <2>3. b # << >>
    BY <1>2, <1>3
  <2> QED
    BY <1>2, <2>2, <2>3
<1>6. Len(s) = Len(b)
  BY <1>2, <1>3, <1>4, <1>5
<1>7. ASSUME NEW i \in 1 .. Len(b) PROVE s[i] = b[i]
  <2>1. i + n - Len(b) \in 1 .. n /\ i + n - Len(b) + Len(b) > n
        /\ i + n - Len(b) + Len(b) - n = i
    BY <1>2
  <2> QED
    BY <1>1, <1>3, <1>6, <2>1
<1> QED
  BY <1>3, <1>6, <1>7 DEF s, y, ByteSeq

----------------------------------------------------------------------------
(* Fields: how they are packed and read.  Each law has three parts.  What  *)
(* is packed is read as the meaning of the field; a field of its size is   *)
(* packed and means itself; what is read has its size and is packed as the *)
(* item it was read from.                                                  *)

(* An item or a field that is a byte string if it says so. *)
Sound(x) == IsBytes(x) => Str(x)

LEMMA StrIsSound == ASSUME NEW x, Str(x) PROVE Sound(x)
  BY DEF Sound

LEMMA Failures == Err.st # "ok" /\ Panic.st # "ok" /\ Err.st # "panic"
  BY DEF Err, Panic

LEMMA UintLaw ==
    ASSUME NEW x, Sound(x)
    PROVE  /\ AsBytes(x, Uint64).st = "ok" =>
                /\ Str(AsBytes(x, Uint64).x) /\ IsBytes(x)
                /\ FromUint64(AsBytes(x, Uint64).x) =
                       Ok(Bytes(SubSeq(x.b, 1, UintLen)))
           /\ Sized(x, UintLen) => /\ AsBytes(x, Uint64).st = "ok"
                                   /\ Bytes(SubSeq(x.b, 1, UintLen)) = x
           /\ FromUint64(x).st = "ok" =>
                /\ Str(FromUint64(x).x) /\ Sized(FromUint64(x).x, UintLen)
                /\ AsBytes(FromUint64(x).x, Uint64) = Ok(x)
<1>1. UintLen \in Nat
  BY SizeAssumption
<1>2. ASSUME AsBytes(x, Uint64).st = "ok"
      PROVE  /\ Str(AsBytes(x, Uint64).x) /\ IsBytes(x)
             /\ FromUint64(AsBytes(x, Uint64).x) =
                    Ok(Bytes(SubSeq(x.b, 1, UintLen)))
  <2> DEFINE c == SubSeq(x.b, 1, UintLen)
             s == SetBytes(c)
  <2>1. IsBytes(x) /\ ~(Len(x.b) < UintLen)
    BY <1>2, Failures DEF AsBytes, Uint64
  <2>2. AsBytes(x, Uint64) = Ok(Bytes(s))
    BY <2>1 DEF AsBytes, Uint64
  <2>3. x.b \in ByteSeq
    BY <2>1, StrIsBytes DEF Sound
  <2>4. c \in ByteSeq /\ Len(c) = UintLen
    BY <1>1, <2>1, <2>3 DEF ByteSeq
  <2> HIDE DEF c
  <2>5. s \in ByteSeq /\ SetBytes(s) = s /\ Len(s) <= UintLen
        /\ Fit(s, UintLen) = c
    BY <2>4, SetBytesDrops, SetBytesIsInteger, FitSetBytes
  <2> HIDE DEF s
  <2>6. FromUint64(Bytes(s)) = Ok(Bytes(c))
    BY <2>5, BytesIsStr DEF FromUint64, IsInteger
  <2> QED
    BY <2>1, <2>2, <2>5, <2>6, OkIsOk, BytesIsStr DEF c
<1>3. ASSUME Sized(x, UintLen)
      PROVE  AsBytes(x, Uint64).st = "ok" /\ Bytes(SubSeq(x.b, 1, UintLen)) = x
  <2>1. IsBytes(x) /\ Len(x.b) = UintLen /\ x = Bytes(x.b) /\ x.b \in ByteSeq
    BY <1>3, StrIsBytes DEF Sized, Sound
  <2>2. SubSeq(x.b, 1, UintLen) = x.b
    BY <1>1, <2>1 DEF ByteSeq
  <2>3. ~(Len(x.b) < UintLen)
    BY <1>1, <2>1
  <2>4. AsBytes(x, Uint64) = Ok(Bytes(SetBytes(x.b)))
    BY <2>1, <2>2, <2>3 DEF AsBytes, Uint64
  <2> QED
    BY <2>1, <2>2, <2>4, OkIsOk
<1>4. ASSUME FromUint64(x).st = "ok"
      PROVE  /\ Str(FromUint64(x).x) /\ Sized(FromUint64(x).x, UintLen)
             /\ AsBytes(FromUint64(x).x, Uint64) = Ok(x)
  <2> DEFINE y == Fit(x.b, UintLen)
  <2>1. IsInteger(x) /\ Len(x.b) <= UintLen
    BY <1>4, Failures DEF FromUint64
  <2>2. FromUint64(x) = Ok(Bytes(y))
    BY <2>1 DEF FromUint64
  <2>3. x.b \in ByteSeq /\ x = Bytes(x.b) /\ SetBytes(x.b) = x.b
    BY <2>1, StrIsBytes DEF Sound, IsInteger
  <2>4. y \in ByteSeq /\ Len(y) = UintLen /\ SetBytes(y) = x.b
    BY <1>1, <2>1, <2>3, FitFits, SetBytesFit
  <2> HIDE DEF y
  <2>5. SubSeq(y, 1, UintLen) = y
    BY <1>1, <2>4 DEF ByteSeq
  <2>6. AsBytes(Bytes(y), Uint64) = Ok(Bytes(x.b))
    <3>1. ~(Len(y) < UintLen)
      BY <1>1, <2>4
    <3>2. Bytes(y).b = y /\ IsBytes(Bytes(y))
      BY <2>4, BytesIsStr
    <3> QED
      BY <2>4, <2>5, <3>1, <3>2 DEF AsBytes, Uint64
  <2> QED
    BY <2>2, <2>3, <2>4, <2>6, OkIsOk, BytesIsStr DEF Sized
<1> QED
  BY <1>2, <1>3, <1>4

LEMMA BigIntLaw ==
    ASSUME NEW x, Sound(x)
    PROVE  /\ AsBytes(x, BigInt).st = "ok" =>
                /\ Str(AsBytes(x, BigInt).x) /\ IsBytes(x)
                /\ FromBigInt(AsBytes(x, BigInt).x) = Ok(Bytes(SetBytes(x.b)))
           /\ IsInteger(x) => /\ AsBytes(x, BigInt).st = "ok"
                              /\ Bytes(SetBytes(x.b)) = x
           /\ FromBigInt(x).st = "ok" =>
                /\ Str(FromBigInt(x).x) /\ IsInteger(FromBigInt(x).x)
                /\ AsBytes(FromBigInt(x).x, BigInt) = Ok(x)
<1>1. ASSUME AsBytes(x, BigInt).st = "ok"
      PROVE  /\ Str(AsBytes(x, BigInt).x) /\ IsBytes(x)
             /\ FromBigInt(AsBytes(x, BigInt).x) = Ok(Bytes(SetBytes(x.b)))
  <2> DEFINE s == SetBytes(x.b)
  <2>1. IsBytes(x)
    BY <1>1, Failures DEF AsBytes
  <2>2. AsBytes(x, BigInt) = Ok(Bytes(s))
    BY <2>1 DEF AsBytes, BigInt
  <2>3. s \in ByteSeq /\ SetBytes(s) = s
    BY <2>1, StrIsBytes, SetBytesIsInteger DEF Sound
  <2> HIDE DEF s
  <2>4. FromBigInt(Bytes(s)) = Ok(Bytes(s))
    BY <2>3, BytesIsStr DEF FromBigInt, IsInteger
  <2> QED
    BY <2>1, <2>2, <2>3, <2>4, OkIsOk, BytesIsStr DEF s
<1>2. ASSUME IsInteger(x)
      PROVE  /\ AsBytes(x, BigInt) = Ok(x) /\ Bytes(SetBytes(x.b)) = x
             /\ FromBigInt(x) = Ok(x) /\ Str(x)
    BY <1>2, StrIsBytes DEF Sound, IsInteger, AsBytes, BigInt, FromBigInt
<1>3. FromBigInt(x).st = "ok" => IsInteger(x)
  BY Failures DEF FromBigInt
<1> QED
  BY <1>1, <1>2, <1>3, OkIsOk

LEMMA BlobLaw ==
    ASSUME NEW x, Sound(x)
    PROVE  /\ AsBytes(x, Blob).st = "ok" => IsBytes(x)
           /\ FromBlob(x).st = "ok" => IsBytes(x)
           /\ IsBytes(x) => /\ AsBytes(x, Blob) = Ok(x) /\ FromBlob(x) = Ok(x)
                            /\ Str(x)
  BY StrIsBytes, Failures DEF Sound, AsBytes, Blob, FromBlob

(* common.BytesToHash, common.BytesToAddress *)
LEMMA FitLaw ==
    ASSUME NEW x, Sound(x), NEW n \in Nat
    PROVE  /\ IsBytes(x) => /\ Str(Bytes(Fit(x.b, n)))
                            /\ FromArray(Bytes(Fit(x.b, n)), n) =
                                   Ok(Bytes(Fit(x.b, n)))
           /\ Sized(x, n) => /\ IsBytes(x) /\ Bytes(Fit(x.b, n)) = x /\ Str(x)
                             /\ FromArray(x, n) = Ok(x)
           /\ FromArray(x, n).st = "ok" => Sized(x, n)
<1>1. ASSUME IsBytes(x)
      PROVE  /\ Str(Bytes(Fit(x.b, n)))
             /\ FromArray(Bytes(Fit(x.b, n)), n) = Ok(Bytes(Fit(x.b, n)))
  <2>1. Fit(x.b, n) \in ByteSeq /\ Len(Fit(x.b, n)) = n
    BY <1>1, StrIsBytes, FitFits DEF Sound
  <2> QED
    BY <2>1, BytesIsStr DEF FromArray, Sized
<1>2. ASSUME Sized(x, n)
      PROVE  /\ IsBytes(x) /\ Bytes(Fit(x.b, n)) = x /\ Str(x)
             /\ FromArray(x, n) = Ok(x)
  <2>1. IsBytes(x) /\ Str(x) /\ x = Bytes(x.b) /\ x.b \in ByteSeq /\ Len(x.b) = n
    BY <1>2, StrIsBytes DEF Sound, Sized
  <2> QED
    BY <1>2, <2>1, FitFits DEF FromArray
<1>3. FromArray(x, n).st = "ok" => Sized(x, n)
  BY Failures DEF FromArray
<1> QED
  BY <1>1, <1>2, <1>3

LEMMA HashLaw ==
    ASSUME NEW x, Sound(x)
    PROVE  /\ AsBytes(x, Hash).st = "ok" =>
                /\ Str(AsBytes(x, Hash).x) /\ IsBytes(x)
                /\ FromHash(AsBytes(x, Hash).x) = Ok(Bytes(Fit(x.b, HashLen)))
           /\ Sized(x, HashLen) => /\ AsBytes(x, Hash).st = "ok"
                                   /\ Bytes(Fit(x.b, HashLen)) = x
           /\ FromHash(x).st = "ok" =>
                /\ Str(FromHash(x).x) /\ Sized(FromHash(x).x, HashLen)
                /\ AsBytes(FromHash(x).x, Hash) = Ok(x)
<1>1. HashLen \in Nat
  BY SizeAssumption
<1>2. AsBytes(x, Hash).st = "ok" => IsBytes(x)
  BY Failures DEF AsBytes
<1>3. IsBytes(x) => AsBytes(x, Hash) = Ok(Bytes(Fit(x.b, HashLen)))
  BY DEF AsBytes, Hash
<1> QED
  BY <1>1, <1>2, <1>3, FitLaw, OkIsOk DEF FromHash

LEMMA AddressLaw ==
    ASSUME NEW x, Sound(x)
    PROVE  /\ AsBytes(x, Address).st = "ok" =>
                /\ Str(AsBytes(x, Address).x) /\ IsBytes(x)
                /\ FromAddress(AsBytes(x, Address).x) =
                       Ok(Bytes(Fit(x.b, AddressLen)))
           /\ Sized(x, AddressLen) => /\ AsBytes(x, Address).st = "ok"
                                      /\ Bytes(Fit(x.b, AddressLen)) = x
           /\ FromAddress(x).st = "ok" =>
                /\ Str(FromAddress(x).x) /\ Sized(FromAddress(x).x, AddressLen)
                /\ AsBytes(FromAddress(x).x, Address) = Ok(x)
<1>1. AddressLen \in Nat
  BY SizeAssumption
<1>2. AsBytes(x, Address).st = "ok" => IsBytes(x)
  BY Failures DEF AsBytes
<1>3. IsBytes(x) => AsBytes(x, Address) = Ok(Bytes(Fit(x.b, AddressLen)))
  BY DEF AsBytes, Address
<1> QED
  BY <1>1, <1>2, <1>3, FitLaw, OkIsOk DEF FromAddress

(* types.BytesToBloom, which panics on what is too long. *)
LEMMA BloomLaw ==
    ASSUME NEW x, Sound(x)
    PROVE  /\ AsBytes(x, BytesToBloom).st = "ok" =>
                /\ Str(AsBytes(x, BytesToBloom).x) /\ IsBytes(x)
                /\ FromArray(AsBytes(x, BytesToBloom).x, BloomLen) =
                       Ok(Bytes(Fit(x.b, BloomLen)))
           /\ Sized(x, BloomLen) => /\ AsBytes(x, BytesToBloom).st = "ok"
                                    /\ Bytes(Fit(x.b, BloomLen)) = x
           /\ FromArray(x, BloomLen).st = "ok" =>
                /\ FromArray(x, BloomLen) = Ok(x)
                /\ Str(x) /\ Sized(x, BloomLen)
                /\ AsBytes(x, BytesToBloom) = Ok(x)
<1>1. BloomLen \in Nat
  BY SizeAssumption
<1>2. AsBytes(x, BytesToBloom).st = "ok" => IsBytes(x) /\ ~(Len(x.b) > BloomLen)
  BY Failures DEF AsBytes, BytesToBloom
<1>3. IsBytes(x) /\ ~(Len(x.b) > BloomLen) =>
        AsBytes(x, BytesToBloom) = Ok(Bytes(Fit(x.b, BloomLen)))
  BY DEF AsBytes, BytesToBloom
<1>4. Sized(x, BloomLen) => ~(Len(x.b) > BloomLen)
  BY <1>1 DEF Sized
<1> QED
  BY <1>1, <1>2, <1>3, <1>4, FitLaw, OkIsOk

(* A link with a digest, or one that is no CID. *)
SomeCid(x) == \/ x = BadLink
              \/ /\ x = Link(x.codec, x.digest)
                 /\ x.codec # NonCid /\ x.digest \in ByteSeq

LEMMA LinkFields ==
    \A c, d : LET k == Link(c, d)
              IN  k.is = "link" /\ k.codec = c /\ k.digest = d
  BY DEF Link

LEMMA CidLaw ==
    ASSUME NEW x, SomeCid(x)
    PROVE  /\ x.codec = NonCid <=> x = BadLink
           /\ x.codec # NonCid => /\ x = Link(x.codec, x.digest)
                                  /\ x.digest \in ByteSeq
           /\ x.is = "link" /\ x # Null
<1>1. BadLink.codec = NonCid /\ BadLink.is = "link"
  BY DEF BadLink
<1> QED
  BY <1>1, LinkFields DEF SomeCid, Null

LEMMA HashLinkLaw ==
    ASSUME NEW codec, codec # NonCid, NEW x
    PROVE  /\ SomeCid(x) /\ AsLink(x, Hash).st = "ok" =>
                /\ Str(AsLink(x, Hash).x)
                /\ FromHashTo(AsLink(x, Hash).x, codec) =
                       Ok(Link(codec, Fit(x.digest, HashLen)))
           /\ SomeCid(x) /\ HashLink(x, codec) =>
                /\ AsLink(x, Hash).st = "ok"
                /\ Link(codec, Fit(x.digest, HashLen)) = x
           /\ Sound(x) /\ FromHashTo(x, codec).st = "ok" =>
                /\ SomeCid(FromHashTo(x, codec).x)
                /\ HashLink(FromHashTo(x, codec).x, codec)
                /\ AsLink(FromHashTo(x, codec).x, Hash) = Ok(x)
<1>1. HashLen \in Nat
  BY SizeAssumption
<1>2. ASSUME SomeCid(x), AsLink(x, Hash).st = "ok"
      PROVE  /\ Str(AsLink(x, Hash).x)
             /\ FromHashTo(AsLink(x, Hash).x, codec) =
                    Ok(Link(codec, Fit(x.digest, HashLen)))
  <2> DEFINE d == Fit(x.digest, HashLen)
  <2>1. x.codec # NonCid
    BY <1>2, Failures DEF AsLink
  <2>2. AsLink(x, Hash) = Ok(Bytes(d))
    BY <2>1 DEF AsLink, Hash
  <2>3. d \in ByteSeq /\ Len(d) = HashLen
    BY <1>1, <1>2, <2>1, CidLaw, FitFits
  <2> HIDE DEF d
  <2>4. FromHash(Bytes(d)) = Ok(Bytes(d))
    BY <2>3, BytesIsStr DEF FromHash, FromArray, Sized
  <2>5. FromHashTo(Bytes(d), codec) = Ok(Link(codec, d))
    BY <2>3, <2>4, OkIsOk, BytesIsStr DEF FromHashTo, Then
  <2> QED
    BY <2>2, <2>3, <2>5, OkIsOk, BytesIsStr DEF d
<1>3. ASSUME SomeCid(x), HashLink(x, codec)
      PROVE  AsLink(x, Hash).st = "ok" /\ Link(codec, Fit(x.digest, HashLen)) = x
  <2>1. x.codec = codec /\ Len(x.digest) = HashLen
    BY <1>3 DEF HashLink
  <2>2. x = Link(x.codec, x.digest) /\ x.digest \in ByteSeq
    BY <1>3, <2>1, CidLaw
  <2>3. Fit(x.digest, HashLen) = x.digest
    BY <1>1, <2>1, <2>2, FitFits
  <2> QED
    BY <2>1, <2>2, <2>3, OkIsOk DEF AsLink, Hash
<1>4. ASSUME Sound(x), FromHashTo(x, codec).st = "ok"
      PROVE  /\ SomeCid(FromHashTo(x, codec).x)
             /\ HashLink(FromHashTo(x, codec).x, codec)
             /\ AsLink(FromHashTo(x, codec).x, Hash) = Ok(x)
  <2>1. FromHash(x).st = "ok"
    BY <1>4 DEF FromHashTo, Then
  <2>2. Sized(x, HashLen) /\ FromHash(x) = Ok(x)
    BY <2>1, Failures DEF FromHash, FromArray
  <2>3. x.b \in ByteSeq /\ x = Bytes(x.b) /\ Len(x.b) = HashLen
    BY <1>4, <2>2, StrIsBytes DEF Sized, Sound
  <2> DEFINE k == Link(codec, x.b)
  <2>4. FromHashTo(x, codec) = Ok(k)
    BY <2>2, OkIsOk DEF FromHashTo, Then
  <2>5. k.is = "link" /\ k.codec = codec /\ k.digest = x.b
    BY LinkFields
  <2>6. k = Link(k.codec, k.digest)
    BY <2>5
  <2> HIDE DEF k
  <2>7. SomeCid(k) /\ HashLink(k, codec)
    BY <2>3, <2>5, <2>6 DEF SomeCid, HashLink
  <2>8. Fit(x.b, HashLen) = x.b
    BY <1>1, <2>3, FitFits
  <2>9. AsLink(k, Hash) = Ok(x)
    BY <2>3, <2>5, <2>8 DEF AsLink, Hash
  <2> QED
    BY <2>4, <2>7, <2>9, OkIsOk
<1> QED
  BY <1>2, <1>3, <1>4

----------------------------------------------------------------------------
(* Structs of a few fields and lists.                                      *)

LEMMA AllTwoOk ==
    ASSUME NEW a, NEW b, InOrder(<<a, b>>).st = "ok"
    PROVE  a.st = "ok" /\ b.st = "ok"
<1> DEFINE calls == <<a, b>>
<1>1. /\ DOMAIN calls = 1 .. 2
      /\ calls[1] = a /\ calls[2] = b
  OBVIOUS
<1>2. InOrder(calls).st = "ok"
  OBVIOUS
<1> HIDE DEF calls
<1>3. \A i \in 1 .. 2 : calls[i].st = "ok"
  BY <1>1, <1>2, AllOk
<1> QED
  BY <1>1, <1>3

LEMMA InOrderTwo ==
    ASSUME NEW a, NEW b,
           a.st = "ok" /\ b.st = "ok"
    PROVE  InOrder(<<a, b>>) = Ok(<<a.x, b.x>>)
<1> DEFINE calls == <<a, b>>
<1>1. /\ DOMAIN calls = 1 .. 2
      /\ calls[1] = a /\ calls[2] = b
  OBVIOUS
<1> HIDE DEF calls
<1>2. \A i \in 1 .. 2 : calls[i].st = "ok"
  BY <1>1
<1>3. InOrder(calls) = Ok([i \in 1 .. 2 |-> calls[i].x])
  BY <1>1, <1>2, InOrderEnds
<1>4. [i \in 1 .. 2 |-> calls[i].x] = <<a.x, b.x>>
  BY <1>1
<1> QED
  BY <1>3, <1>4 DEF calls

LEMMA AllThreeOk ==
    ASSUME NEW a, NEW b, NEW c, InOrder(<<a, b, c>>).st = "ok"
    PROVE  a.st = "ok" /\ b.st = "ok" /\ c.st = "ok"
<1> DEFINE calls == <<a, b, c>>
<1>1. /\ DOMAIN calls = 1 .. 3
      /\ calls[1] = a /\ calls[2] = b /\ calls[3] = c
  OBVIOUS
<1>2. InOrder(calls).st = "ok"
  OBVIOUS
<1> HIDE DEF calls
<1>3. \A i \in 1 .. 3 : calls[i].st = "ok"
  BY <1>1, <1>2, AllOk
<1> QED
  BY <1>1, <1>3

LEMMA InOrderThree ==
    ASSUME NEW a, NEW b, NEW c,
           a.st = "ok" /\ b.st = "ok" /\ c.st = "ok"
    PROVE  InOrder(<<a, b, c>>) = Ok(<<a.x, b.x, c.x>>)
<1> DEFINE calls == <<a, b, c>>
<1>1. /\ DOMAIN calls = 1 .. 3
      /\ calls[1] = a /\ calls[2] = b /\ calls[3] = c
  OBVIOUS
<1> HIDE DEF calls
<1>2. \A i \in 1 .. 3 : calls[i].st = "ok"
  BY <1>1
<1>3. InOrder(calls) = Ok([i \in 1 .. 3 |-> calls[i].x])
  BY <1>1, <1>2, InOrderEnds
<1>4. [i \in 1 .. 3 |-> calls[i].x] = <<a.x, b.x, c.x>>
  BY <1>1
<1> QED
  BY <1>3, <1>4 DEF calls

LEMMA AllFourOk ==
    ASSUME NEW a, NEW b, NEW c, NEW d, InOrder(<<a, b, c, d>>).st = "ok"
    PROVE  a.st = "ok" /\ b.st = "ok" /\ c.st = "ok" /\ d.st = "ok"
<1> DEFINE calls == <<a, b, c, d>>
<1>1. /\ DOMAIN calls = 1 .. 4
      /\ calls[1] = a /\ calls[2] = b /\ calls[3] = c /\ calls[4] = d
  OBVIOUS
<1>2. InOrder(calls).st = "ok"
  OBVIOUS
<1> HIDE DEF calls
<1>3. \A i \in 1 .. 4 : calls[i].st = "ok"
  BY <1>1, <1>2, AllOk
<1> QED
  BY <1>1, <1>3

LEMMA InOrderFour ==
    ASSUME NEW a, NEW b, NEW c, NEW d,
           a.st = "ok" /\ b.st = "ok" /\ c.st = "ok" /\ d.st = "ok"
    PROVE  InOrder(<<a, b, c, d>>) = Ok(<<a.x, b.x, c.x, d.x>>)
<1> DEFINE calls == <<a, b, c, d>>
<1>1. /\ DOMAIN calls = 1 .. 4
      /\ calls[1] = a /\ calls[2] = b /\ calls[3] = c /\ calls[4] = d
  OBVIOUS
<1> HIDE DEF calls
<1>2. \A i \in 1 .. 4 : calls[i].st = "ok"
  BY <1>1
<1>3. InOrder(calls) = Ok([i \in 1 .. 4 |-> calls[i].x])
  BY <1>1, <1>2, InOrderEnds
<1>4. [i \in 1 .. 4 |-> calls[i].x] = <<a.x, b.x, c.x, d.x>>
  BY <1>1
<1> QED
  BY <1>3, <1>4 DEF calls

LEMMA AllFiveOk ==
    ASSUME NEW a, NEW b, NEW c, NEW d, NEW e, InOrder(<<a, b, c, d, e>>).st = "ok"
    PROVE  a.st = "ok" /\ b.st = "ok" /\ c.st = "ok" /\ d.st = "ok" /\ e.st = "ok"
<1> DEFINE calls == <<a, b, c, d, e>>
<1>1. /\ DOMAIN calls = 1 .. 5
      /\ calls[1] = a /\ calls[2] = b /\ calls[3] = c /\ calls[4] = d /\ calls[5] = e
  OBVIOUS
<1>2. InOrder(calls).st = "ok"
  OBVIOUS
<1> HIDE DEF calls
<1>3. \A i \in 1 .. 5 : calls[i].st = "ok"
  BY <1>1, <1>2, AllOk
<1> QED
  BY <1>1, <1>3

LEMMA InOrderFive ==
    ASSUME NEW a, NEW b, NEW c, NEW d, NEW e,
           a.st = "ok" /\ b.st = "ok" /\ c.st = "ok" /\ d.st = "ok" /\ e.st = "ok"
    PROVE  InOrder(<<a, b, c, d, e>>) = Ok(<<a.x, b.x, c.x, d.x, e.x>>)
<1> DEFINE calls == <<a, b, c, d, e>>
<1>1. /\ DOMAIN calls = 1 .. 5
      /\ calls[1] = a /\ calls[2] = b /\ calls[3] = c /\ calls[4] = d /\ calls[5] = e
  OBVIOUS
<1> HIDE DEF calls
<1>2. \A i \in 1 .. 5 : calls[i].st = "ok"
  BY <1>1
<1>3. InOrder(calls) = Ok([i \in 1 .. 5 |-> calls[i].x])
  BY <1>1, <1>2, InOrderEnds
<1>4. [i \in 1 .. 5 |-> calls[i].x] = <<a.x, b.x, c.x, d.x, e.x>>
  BY <1>1
<1> QED
  BY <1>3, <1>4 DEF calls

LEMMA ThenEnds ==
    \A l : List(l).is = "list" /\ List(l).l = l /\ IsList(List(l))
           /\ ~IsBytes(List(l)) /\ List(l) # Null /\ Sound(List(l))
  BY DEF List, IsList, IsBytes, Null, Sound

(* A byte string, or a list of items with the strings in it. *)
Flat(x) == /\ Sound(x)
           /\ IsList(x) => /\ x = List(x.l) /\ Tuple(x.l)
                           /\ \A i \in 1 .. Len(x.l) : Sound(x.l[i])

----------------------------------------------------------------------------
(* Accounts (state_account/).                                              *)

SomeAccount(n) ==
    /\ n = [Nonce |-> n.Nonce, Balance |-> n.Balance,
            StorageRootCID |-> n.StorageRootCID, CodeCID |-> n.CodeCID]
    /\ Sound(n.Nonce) /\ Sound(n.Balance)
    /\ SomeCid(n.StorageRootCID) /\ SomeCid(n.CodeCID)

LEMMA AccountStores ==
    ASSUME NEW n, SomeAccount(n), EncodeAccount(n).st = "ok",
           NonCid \notin {"storage_trie", "raw"}
    PROVE  LET b == EncodeAccount(n).x
           IN  Flat(b) /\ IsList(b) /\ DecodeAccountBytes(b) = Ok(NormalAccount(n))
<1> DEFINE p1 == AsBytes(n.Nonce, Uint64)
           p2 == AsBytes(n.Balance, BigInt)
           p3 == AsLink(n.StorageRootCID, Hash)
           p4 == AsLink(n.CodeCID, Blob)
           r == InOrder(<<p1, p2, p3, p4>>)
<1>1. EncodeAccount(n) = IF r.st = "ok" THEN Ok(List(r.x)) ELSE r
  BY DEF EncodeAccount, Then
<1>2. r.st = "ok" => p1.st = "ok" /\ p2.st = "ok" /\ p3.st = "ok" /\ p4.st = "ok"
  <2> HIDE DEF p1, p2, p3, p4
  <2> QED
    BY AllFourOk
<1>3. p1.st = "ok" /\ p2.st = "ok" /\ p3.st = "ok" /\ p4.st = "ok" =>
        r = Ok(<<p1.x, p2.x, p3.x, p4.x>>)
  BY InOrderFour
<1>4. r.st = "ok"
  <2> HIDE DEF r
  <2> QED
    BY <1>1
<1>5. /\ Sound(n.Nonce) /\ Sound(n.Balance)
      /\ SomeCid(n.StorageRootCID) /\ SomeCid(n.CodeCID)
  BY DEF SomeAccount
<1>6. Str(p1.x) /\ FromUint64(p1.x) = Ok(Bytes(SubSeq(n.Nonce.b, 1, UintLen)))
  BY <1>2, <1>4, <1>5, UintLaw
<1>7. Str(p2.x) /\ FromBigInt(p2.x) = Ok(Bytes(SetBytes(n.Balance.b)))
  BY <1>2, <1>4, <1>5, BigIntLaw
<1>8. Str(p3.x) /\ FromHash(p3.x).st = "ok"
      /\ FromHash(p3.x).x.b = Fit(n.StorageRootCID.digest, HashLen)
  <2> DEFINE d == Fit(n.StorageRootCID.digest, HashLen)
  <2>1. n.StorageRootCID.codec # NonCid
    BY <1>2, <1>4, Failures DEF AsLink
  <2>2. d \in ByteSeq /\ Len(d) = HashLen
    BY <1>5, <2>1, CidLaw, FitFits, SizeAssumption
  <2>3. p3.x = Bytes(d)
    BY <2>1, OkIsOk DEF AsLink, Hash
  <2> HIDE DEF d, p3
  <2>4. FromHash(p3.x) = Ok(Bytes(d))
    BY <2>2, <2>3, BytesIsStr DEF FromHash, FromArray, Sized
  <2> QED
    BY <2>2, <2>3, <2>4, OkIsOk, BytesIsStr DEF d
<1>9. Str(p4.x) /\ FromBlob(p4.x) = Ok(Bytes(n.CodeCID.digest))
  <2>1. n.CodeCID.codec # NonCid
    BY <1>2, <1>4, Failures DEF AsLink
  <2>2. n.CodeCID.digest \in ByteSeq
    BY <1>5, <2>1, CidLaw
  <2>3. p4.x = Bytes(n.CodeCID.digest)
    BY <2>1, OkIsOk DEF AsLink, Blob
  <2> QED
    BY <2>2, <2>3, BytesIsStr DEF FromBlob
<1> DEFINE l == <<p1.x, p2.x, p3.x, p4.x>>
           q == InOrder(<<FromUint64(l[1]), FromBigInt(l[2]), FromHash(l[3]),
                          FromBlob(l[4])>>)
<1>10. EncodeAccount(n).x = List(l)
  BY <1>1, <1>2, <1>3, <1>4, OkIsOk
<1>11. l[1] = p1.x /\ l[2] = p2.x /\ l[3] = p3.x /\ l[4] = p4.x /\ Len(l) = 4
       /\ Tuple(l)
  BY DEF Tuple
<1> HIDE DEF p1, p2, p3, p4, l, r
<1>12. Flat(List(l))
  <2>1. \A i \in 1 .. 4 : Sound(l[i])
    <3>1. Sound(l[1]) /\ Sound(l[2]) /\ Sound(l[3]) /\ Sound(l[4])
      BY <1>6, <1>7, <1>8, <1>9, <1>11, StrIsSound
    <3> QED
      BY <3>1
  <2> QED
    BY <1>11, <2>1, ThenEnds DEF Flat
<1>13. ReadAccount(List(l)) = q
  BY <1>11, ThenEnds DEF ReadAccount
<1> DEFINE h == FromHash(p3.x).x
<1>14. q = Ok(<<Bytes(SubSeq(n.Nonce.b, 1, UintLen)),
                Bytes(SetBytes(n.Balance.b)), h, Bytes(n.CodeCID.digest)>>)
  BY <1>6, <1>7, <1>8, <1>9, <1>11, InOrderFour, OkIsOk
<1> DEFINE m == <<Bytes(SubSeq(n.Nonce.b, 1, UintLen)),
                  Bytes(SetBytes(n.Balance.b)), h, Bytes(n.CodeCID.digest)>>
<1>15. /\ m[1] = Bytes(SubSeq(n.Nonce.b, 1, UintLen))
       /\ m[2] = Bytes(SetBytes(n.Balance.b)) /\ m[3] = h
       /\ m[4] = Bytes(n.CodeCID.digest)
  OBVIOUS
<1>16. m[4].b = n.CodeCID.digest /\ m[3].b = Fit(n.StorageRootCID.digest, HashLen)
  BY <1>8, <1>15 DEF Bytes
<1> HIDE DEF m, q, h
<1>17. DecodeAccount(m) = NormalAccount(n)
  BY <1>15, <1>16 DEF DecodeAccount, NormalAccount
<1>18. DecodeAccountBytes(List(l)) = Ok(NormalAccount(n))
  BY <1>13, <1>14, <1>17, OkIsOk DEF DecodeAccountBytes, Then, m
<1> QED
  BY <1>10, <1>12, <1>18, ThenEnds

LEMMA AccountKept ==
    ASSUME NEW n, SomeAccount(n), WellFormedAccount(n),
           NonCid \notin {"storage_trie", "raw"}
    PROVE  EncodeAccount(n).st = "ok" /\ NormalAccount(n) = n
<1> DEFINE p1 == AsBytes(n.Nonce, Uint64)
           p2 == AsBytes(n.Balance, BigInt)
           p3 == AsLink(n.StorageRootCID, Hash)
           p4 == AsLink(n.CodeCID, Blob)
<1>1. /\ Sound(n.Nonce) /\ Sound(n.Balance)
      /\ SomeCid(n.StorageRootCID) /\ SomeCid(n.CodeCID)
  BY DEF SomeAccount
<1>2. p1.st = "ok" /\ Bytes(SubSeq(n.Nonce.b, 1, UintLen)) = n.Nonce
  BY <1>1, UintLaw DEF WellFormedAccount
<1>3. p2.st = "ok" /\ Bytes(SetBytes(n.Balance.b)) = n.Balance
  BY <1>1, BigIntLaw DEF WellFormedAccount
<1>4. p3.st = "ok" /\ Link("storage_trie", Fit(n.StorageRootCID.digest, HashLen))
                        = n.StorageRootCID
  BY <1>1, HashLinkLaw DEF WellFormedAccount
<1>5. n.CodeCID.codec = "raw"
  BY DEF WellFormedAccount
<1>6. p4.st = "ok" /\ Link("raw", n.CodeCID.digest) = n.CodeCID
  BY <1>1, <1>5, CidLaw, OkIsOk DEF AsLink, Blob
<1> HIDE DEF p1, p2, p3, p4
<1> DEFINE r == InOrder(<<p1, p2, p3, p4>>)
<1>7. r = Ok(<<p1.x, p2.x, p3.x, p4.x>>)
  BY <1>2, <1>3, <1>4, <1>6, InOrderFour
<1>8. EncodeAccount(n) = IF r.st = "ok" THEN Ok(List(r.x)) ELSE r
  BY DEF EncodeAccount, Then, p1, p2, p3, p4
<1>9. EncodeAccount(n).st = "ok"
  BY <1>7, <1>8, OkIsOk
<1>10. NormalAccount(n) = n
  BY <1>2, <1>3, <1>4, <1>6 DEF NormalAccount, SomeAccount
<1> QED
  BY <1>9, <1>10

LEMMA AccountLoads ==
    ASSUME NEW b, Flat(b), DecodeAccountBytes(b).st = "ok",
           NonCid \notin {"storage_trie", "raw"}
    PROVE  LET n == DecodeAccountBytes(b).x
           IN  SomeAccount(n) /\ WellFormedAccount(n) /\ EncodeAccount(n) = Ok(b)
<1> DEFINE l == b.l
           q1 == FromUint64(l[1])
           q2 == FromBigInt(l[2])
           q3 == FromHash(l[3])
           q4 == FromBlob(l[4])
           q == InOrder(<<q1, q2, q3, q4>>)
<1>1. ReadAccount(b).st = "ok" /\ DecodeAccountBytes(b) = Ok(DecodeAccount(ReadAccount(b).x))
  BY DEF DecodeAccountBytes, Then
<1>2. IsList(b) /\ Len(l) = 4 /\ ReadAccount(b) = q
  BY <1>1, Failures DEF ReadAccount
<1>3. Sound(l[1]) /\ Sound(l[2]) /\ Sound(l[3]) /\ Sound(l[4])
  BY <1>2 DEF Flat
<1>4. q1.st = "ok" /\ q2.st = "ok" /\ q3.st = "ok" /\ q4.st = "ok"
  <2> HIDE DEF q1, q2, q3, q4
  <2> QED
    BY <1>1, <1>2, AllFourOk
<1>5. q = Ok(<<q1.x, q2.x, q3.x, q4.x>>)
  BY <1>4, InOrderFour
<1>6. Str(q1.x) /\ Sized(q1.x, UintLen) /\ AsBytes(q1.x, Uint64) = Ok(l[1])
  BY <1>3, <1>4, UintLaw
<1>7. Str(q2.x) /\ IsInteger(q2.x) /\ AsBytes(q2.x, BigInt) = Ok(l[2])
  BY <1>3, <1>4, BigIntLaw
<1>8. /\ q3.x = l[3] /\ l[3].b \in ByteSeq /\ l[3] = Bytes(l[3].b)
      /\ Len(l[3].b) = HashLen
  <2>1. Sized(l[3], HashLen) /\ q3 = Ok(l[3])
    BY <1>4, Failures DEF FromHash, FromArray
  <2>2. Str(l[3])
    BY <1>3, <2>1 DEF Sound, Sized
  <2> QED
    BY <2>1, <2>2, OkIsOk, StrIsBytes DEF Sized
<1>9. q4.x = l[4] /\ l[4].b \in ByteSeq /\ l[4] = Bytes(l[4].b)
  <2>1. q4 = Ok(l[4]) /\ Str(l[4])
    BY <1>3, <1>4, BlobLaw
  <2> QED
    BY <2>1, OkIsOk, StrIsBytes
<1> DEFINE m == <<q1.x, q2.x, q3.x, q4.x>>
           n == DecodeAccount(m)
           s == Link("storage_trie", l[3].b)
           c == Link("raw", l[4].b)
<1>10. m[1] = q1.x /\ m[2] = q2.x /\ m[3] = l[3] /\ m[4] = l[4]
  BY <1>8, <1>9
<1>11. DecodeAccountBytes(b).x = n
  BY <1>1, <1>2, <1>5, OkIsOk
<1> HIDE DEF q1, q2, q3, q4, q, m
<1>12. /\ n.Nonce = q1.x /\ n.Balance = q2.x /\ n.StorageRootCID = s
       /\ n.CodeCID = c
       /\ n = [Nonce |-> n.Nonce, Balance |-> n.Balance,
               StorageRootCID |-> n.StorageRootCID, CodeCID |-> n.CodeCID]
  BY <1>10 DEF DecodeAccount
<1>13. s.is = "link" /\ s.codec = "storage_trie" /\ s.digest = l[3].b
       /\ s = Link(s.codec, s.digest)
  BY LinkFields
<1>14. c.is = "link" /\ c.codec = "raw" /\ c.digest = l[4].b
       /\ c = Link(c.codec, c.digest)
  BY LinkFields
<1> HIDE DEF n, s, c
<1>15. SomeCid(s) /\ SomeCid(c) /\ HashLink(s, "storage_trie")
  BY <1>8, <1>9, <1>13, <1>14 DEF SomeCid, HashLink
<1>16. SomeAccount(n) /\ WellFormedAccount(n)
  BY <1>6, <1>7, <1>12, <1>14, <1>15, StrIsSound DEF SomeAccount, WellFormedAccount
<1>17. AsLink(s, Hash) = Ok(l[3])
  <2>1. Fit(l[3].b, HashLen) = l[3].b
    BY <1>8, FitFits, SizeAssumption
  <2> QED
    BY <1>8, <1>13, <2>1 DEF AsLink, Hash
<1>18. AsLink(c, Blob) = Ok(l[4])
  BY <1>9, <1>14 DEF AsLink, Blob
<1> DEFINE r == InOrder(<<Ok(l[1]), Ok(l[2]), Ok(l[3]), Ok(l[4])>>)
<1>19. r = Ok(<<l[1], l[2], l[3], l[4]>>)
  BY InOrderFour, OkIsOk
<1>20. <<l[1], l[2], l[3], l[4]>> = l /\ b = List(l)
  <2>1. l = [i \in 1 .. 4 |-> l[i]] /\ b = List(l)
    BY <1>2 DEF Flat, Tuple
  <2> HIDE DEF l
  <2>2. <<l[1], l[2], l[3], l[4]>> = [i \in 1 .. 4 |-> l[i]]
    OBVIOUS
  <2> QED
    BY <2>1, <2>2
<1>21. EncodeAccount(n) = Then(r, List)
  BY <1>6, <1>7, <1>12, <1>17, <1>18 DEF EncodeAccount
<1>22. EncodeAccount(n) = Ok(b)
  BY <1>19, <1>20, <1>21, OkIsOk DEF Then
<1> QED
  BY <1>11, <1>16, <1>22

----------------------------------------------------------------------------
(* Lists, element by element.                                              *)

LEMMA TupleOf ==
    ASSUME NEW N \in Nat, NEW l, l = [i \in 1 .. N |-> l[i]]
    PROVE  Len(l) = N /\ Tuple(l) /\ DOMAIN l = 1 .. N
<1> DEFINE k == [i \in 1 .. N |-> l[i]]
<1>1. Len(k) = N /\ DOMAIN k = 1 .. N
  OBVIOUS
<1> HIDE DEF k
<1>2. l = k
  BY DEF k
<1> QED
  BY <1>1, <1>2 DEF Tuple, k

LEMMA TupleFacts ==
    ASSUME NEW l, Tuple(l)
    PROVE  Len(l) \in Nat /\ DOMAIN l = 1 .. Len(l)
<1>1. Len(l) \in Nat /\ l = [i \in 1 .. Len(l) |-> l[i]]
  BY DEF Tuple
<1> QED
  BY <1>1, TupleOf

LEMMA TuplesEqual ==
    ASSUME NEW k, Tuple(k), NEW l, Tuple(l), Len(k) = Len(l),
           \A i \in 1 .. Len(l) : k[i] = l[i]
    PROVE  k = l
<1>1. k = [i \in 1 .. Len(k) |-> k[i]] /\ l = [i \in 1 .. Len(l) |-> l[i]]
  BY DEF Tuple
<1>2. [i \in 1 .. Len(l) |-> k[i]] = [i \in 1 .. Len(l) |-> l[i]]
  OBVIOUS
<1> QED
  BY <1>1, <1>2

LEMMA ListCallsOk ==
    ASSUME NEW N \in Nat, NEW calls, DOMAIN calls = 1 .. N,
           Then(InOrder(calls), List).st = "ok"
    PROVE  \A i \in 1 .. N : calls[i].st = "ok"
<1> DEFINE r == InOrder(calls)
<1>1. r.st = "ok"
  <2>1. Then(r, List) = IF r.st = "ok" THEN Ok(List(r.x)) ELSE r
    BY DEF Then
  <2> HIDE DEF r
  <2> QED
    BY <2>1 DEF r
<1> QED
  BY <1>1, AllOk

LEMMA ListCalls ==
    ASSUME NEW N \in Nat, NEW calls, DOMAIN calls = 1 .. N,
           \A i \in 1 .. N : calls[i].st = "ok"
    PROVE  Then(InOrder(calls), List) = Ok(List([i \in 1 .. N |-> calls[i].x]))
<1> DEFINE r == InOrder(calls)
           k == [i \in 1 .. N |-> calls[i].x]
<1>1. r = Ok(k)
  BY InOrderEnds
<1> HIDE DEF r, k
<1>2. Then(r, List) = Ok(List(k))
  BY <1>1, OkIsOk DEF Then
<1> QED
  BY <1>2 DEF r, k

(* The topics of a log, the storage keys of an access list. *)
packHashes(x) == Elements(x, LAMBDA t : AsBytes(t, Hash))

LEMMA HashesPacked ==
    ASSUME NEW x, IsList(x), Flat(x), packHashes(x).st = "ok"
    PROVE  LET y == packHashes(x).x
           IN  /\ IsList(y) /\ Flat(y)
               /\ FromList(y, FromHash) =
                      Ok(List([i \in DOMAIN x.l |-> Bytes(Fit(x.l[i].b, HashLen))]))
<1> DEFINE l == x.l
           N == Len(l)
           calls == [i \in DOMAIN l |-> AsBytes(l[i], Hash)]
<1>1. Tuple(l) /\ N \in Nat /\ DOMAIN l = 1 .. N /\ \A i \in 1 .. N : Sound(l[i])
  BY TupleFacts DEF Flat
<1> HIDE DEF l, N
<1>2. packHashes(x) = Then(InOrder(calls), List)
  BY DEF packHashes, Elements, l
<1>3. DOMAIN calls = 1 .. N /\ \A i \in 1 .. N : calls[i] = AsBytes(l[i], Hash)
  BY <1>1
<1> HIDE DEF calls
<1>4. \A i \in 1 .. N : calls[i].st = "ok"
  BY <1>1, <1>2, <1>3, ListCallsOk
<1> DEFINE k == [i \in 1 .. N |-> calls[i].x]
<1>5. packHashes(x) = Ok(List(k))
  BY <1>1, <1>2, <1>3, <1>4, ListCalls
<1>6. \A i \in 1 .. N : k[i] = calls[i].x
  OBVIOUS
<1>7. k = [i \in 1 .. N |-> k[i]]
  OBVIOUS
<1> HIDE DEF k
<1>8. Len(k) = N /\ Tuple(k) /\ DOMAIN k = 1 .. N
  BY <1>1, <1>7, TupleOf
<1>9. ASSUME NEW i \in 1 .. N
      PROVE  Str(k[i]) /\ FromHash(k[i]) = Ok(Bytes(Fit(l[i].b, HashLen)))
  <2>1. Sound(l[i]) /\ AsBytes(l[i], Hash).st = "ok" /\ k[i] = AsBytes(l[i], Hash).x
    BY <1>1, <1>3, <1>4, <1>6
  <2> QED
    BY <2>1, HashLaw
<1>10. List(k).l = k /\ IsList(List(k)) /\ Flat(List(k))
  BY <1>8, <1>9, ThenEnds, StrIsSound DEF Flat
<1> DEFINE back == [i \in DOMAIN k |-> FromHash(k[i])]
<1>11. DOMAIN back = 1 .. N /\ \A i \in 1 .. N : back[i] = FromHash(k[i])
  BY <1>8
<1>12. FromList(List(k), FromHash) = Then(InOrder(back), List)
  BY <1>10 DEF FromList, Elements
<1> HIDE DEF back
<1>13. \A i \in 1 .. N : back[i].st = "ok" /\ back[i].x = Bytes(Fit(l[i].b, HashLen))
  BY <1>9, <1>11, OkIsOk
<1>14. [i \in 1 .. N |-> back[i].x] = [i \in 1 .. N |-> Bytes(Fit(l[i].b, HashLen))]
  BY <1>13
<1>15. Then(InOrder(back), List) = Ok(List([i \in 1 .. N |-> back[i].x]))
  BY <1>1, <1>11, <1>13, ListCalls
<1>16. FromList(List(k), FromHash) =
         Ok(List([i \in DOMAIN l |-> Bytes(Fit(l[i].b, HashLen))]))
  BY <1>1, <1>12, <1>14, <1>15
<1>17. packHashes(x).x = List(k)
  BY <1>5, OkIsOk
<1> QED
  BY <1>10, <1>16, <1>17 DEF l

LEMMA HashesKept ==
    ASSUME NEW x, IsList(x), Flat(x),
           \A i \in DOMAIN x.l : Sized(x.l[i], HashLen)
    PROVE  /\ packHashes(x).st = "ok"
           /\ List([i \in DOMAIN x.l |-> Bytes(Fit(x.l[i].b, HashLen))]) = x
<1> DEFINE l == x.l
           N == Len(l)
           calls == [i \in DOMAIN l |-> AsBytes(l[i], Hash)]
<1>1. Tuple(l) /\ N \in Nat /\ DOMAIN l = 1 .. N /\ \A i \in 1 .. N : Sound(l[i])
  BY TupleFacts DEF Flat
<1>2. x = List(l) /\ l = [i \in 1 .. N |-> l[i]]
  BY DEF Flat, Tuple
<1>3. \A i \in 1 .. N : Sized(l[i], HashLen)
  BY <1>1
<1> HIDE DEF l, N
<1>4. packHashes(x) = Then(InOrder(calls), List)
  BY DEF packHashes, Elements, l
<1>5. DOMAIN calls = 1 .. N /\ \A i \in 1 .. N : calls[i] = AsBytes(l[i], Hash)
  BY <1>1
<1> HIDE DEF calls
<1>6. \A i \in 1 .. N : calls[i].st = "ok" /\ Bytes(Fit(l[i].b, HashLen)) = l[i]
  BY <1>1, <1>3, <1>5, HashLaw
<1>7. packHashes(x).st = "ok"
  <2>1. Then(InOrder(calls), List) = Ok(List([i \in 1 .. N |-> calls[i].x]))
    BY <1>1, <1>5, <1>6, ListCalls
  <2> QED
    BY <1>4, <2>1, OkIsOk
<1>8. [i \in DOMAIN l |-> Bytes(Fit(l[i].b, HashLen))] = [i \in 1 .. N |-> l[i]]
  BY <1>1, <1>6
<1> QED
  BY <1>2, <1>7, <1>8 DEF l

LEMMA HashesRead ==
    ASSUME NEW x, Flat(x), FromList(x, FromHash).st = "ok"
    PROVE  /\ FromList(x, FromHash) = Ok(x) /\ IsList(x)
           /\ \A i \in DOMAIN x.l : Sized(x.l[i], HashLen)
           /\ packHashes(x) = Ok(x)
<1> DEFINE l == x.l
           N == Len(l)
           calls == [i \in DOMAIN l |-> FromHash(l[i])]
           packs == [i \in DOMAIN l |-> AsBytes(l[i], Hash)]
<1>1. IsList(x) /\ FromList(x, FromHash) = Then(InOrder(calls), List)
  BY Failures DEF FromList, Elements
<1>2. Tuple(l) /\ N \in Nat /\ DOMAIN l = 1 .. N /\ \A i \in 1 .. N : Sound(l[i])
  BY <1>1, TupleFacts DEF Flat
<1>3. x = List(l) /\ l = [i \in 1 .. N |-> l[i]]
  BY <1>1 DEF Flat, Tuple
<1>4. packHashes(x) = Then(InOrder(packs), List)
  BY DEF packHashes, Elements
<1> HIDE DEF l, N
<1>5. DOMAIN calls = 1 .. N /\ \A i \in 1 .. N : calls[i] = FromHash(l[i])
  BY <1>2
<1>6. DOMAIN packs = 1 .. N /\ \A i \in 1 .. N : packs[i] = AsBytes(l[i], Hash)
  BY <1>2
<1> HIDE DEF calls, packs
<1>7. \A i \in 1 .. N : calls[i].st = "ok"
  BY <1>1, <1>2, <1>5, ListCallsOk
<1>8. ASSUME NEW i \in 1 .. N
      PROVE  calls[i].x = l[i] /\ Sized(l[i], HashLen) /\ packs[i] = Ok(l[i])
  <2>1. Sound(l[i]) /\ FromHash(l[i]).st = "ok"
    BY <1>2, <1>5, <1>7
  <2>2. FromHash(l[i]) = Ok(l[i]) /\ Sized(l[i], HashLen)
    BY <2>1, Failures DEF FromHash, FromArray
  <2>3. AsBytes(l[i], Hash) = Ok(l[i])
    BY <2>1, <2>2, HashLaw, OkIsOk
  <2> QED
    BY <1>5, <1>6, <2>2, <2>3, OkIsOk
<1>9. \A i \in 1 .. N : packs[i].st = "ok" /\ packs[i].x = l[i]
  BY <1>8, OkIsOk
<1>10. Then(InOrder(calls), List) = Ok(List([i \in 1 .. N |-> calls[i].x]))
  BY <1>2, <1>5, <1>7, ListCalls
<1>11. Then(InOrder(packs), List) = Ok(List([i \in 1 .. N |-> packs[i].x]))
  BY <1>2, <1>6, <1>9, ListCalls
<1>12. [i \in 1 .. N |-> calls[i].x] = [i \in 1 .. N |-> l[i]]
  BY <1>8
<1>13. [i \in 1 .. N |-> packs[i].x] = [i \in 1 .. N |-> l[i]]
  BY <1>9
<1>14. \A i \in DOMAIN l : Sized(l[i], HashLen)
  BY <1>2, <1>8
<1> QED
  BY <1>1, <1>3, <1>4, <1>10, <1>11, <1>12, <1>13, <1>14 DEF l

----------------------------------------------------------------------------
(* Logs (log/).                                                            *)

(* A list of lists, and one level more. *)
Nested(x) == Flat(x) /\ (IsList(x) => \A i \in 1 .. Len(x.l) : Flat(x.l[i]))
Nested2(x) == Flat(x) /\ (IsList(x) => \A i \in 1 .. Len(x.l) : Nested(x.l[i]))

LEMMA StrIsNested ==
    ASSUME NEW x, Str(x)
    PROVE  Sound(x) /\ Flat(x) /\ Nested(x) /\ Nested2(x)
  BY StrIsBytes DEF Sound, Flat, Nested, Nested2

SomeLog(n) ==
    /\ n = [Address |-> n.Address, Topics |-> n.Topics, Data |-> n.Data]
    /\ Sound(n.Address) /\ Sound(n.Data) /\ IsList(n.Topics) /\ Flat(n.Topics)

LEMMA LogStores ==
    ASSUME NEW n, SomeLog(n), EncodeLog(n).st = "ok"
    PROVE  LET b == EncodeLog(n).x
           IN  Nested(b) /\ IsList(b) /\ DecodeLogBytes(b) = Ok(NormalLog(n))
<1> DEFINE p1 == packAddress(n)
           p2 == packTopics(n)
           p3 == packData(n)
           r == InOrder(<<p1, p2, p3>>)
<1>1. EncodeLog(n) = IF r.st = "ok" THEN Ok(List(r.x)) ELSE r
  BY DEF EncodeLog, Then
<1>2. r.st = "ok"
  <2> HIDE DEF r
  <2> QED
    BY <1>1
<1>3. p1.st = "ok" /\ p2.st = "ok" /\ p3.st = "ok"
  <2> HIDE DEF p1, p2, p3
  <2> QED
    BY <1>2, AllThreeOk
<1>4. Sound(n.Address) /\ Sound(n.Data) /\ IsList(n.Topics) /\ Flat(n.Topics)
  BY DEF SomeLog
<1>5. Str(p1.x) /\ FromAddress(p1.x) = Ok(Bytes(Fit(n.Address.b, AddressLen)))
  BY <1>3, <1>4, AddressLaw DEF packAddress
<1> DEFINE topics == List([i \in DOMAIN n.Topics.l |->
                              Bytes(Fit(n.Topics.l[i].b, HashLen))])
<1>6. IsList(p2.x) /\ Flat(p2.x) /\ FromList(p2.x, FromHash) = Ok(topics)
  <2>1. p2 = packHashes(n.Topics)
    BY DEF packTopics, packHashes
  <2> QED
    BY <1>3, <1>4, <2>1, HashesPacked
<1>7. p3.x = n.Data /\ FromBlob(n.Data) = Ok(n.Data) /\ Str(n.Data)
  BY <1>3, <1>4, BlobLaw, OkIsOk DEF packData
<1> HIDE DEF p1, p2, p3, topics
<1> DEFINE l == <<p1.x, p2.x, p3.x>>
<1>8. r = Ok(l)
  BY <1>3, InOrderThree
<1>9. EncodeLog(n).x = List(l)
  BY <1>1, <1>2, <1>8, OkIsOk
<1>10. l[1] = p1.x /\ l[2] = p2.x /\ l[3] = p3.x /\ Len(l) = 3 /\ Tuple(l)
  BY DEF Tuple
<1> HIDE DEF l, r
<1>11. Nested(List(l))
  <2>1. Sound(p2.x)
    BY <1>6 DEF Sound, IsBytes, IsList
  <2>2. \A i \in 1 .. 3 : Sound(l[i]) /\ Flat(l[i])
    <3>1. /\ Sound(l[1]) /\ Flat(l[1]) /\ Sound(l[2]) /\ Flat(l[2])
          /\ Sound(l[3]) /\ Flat(l[3])
      BY <1>5, <1>6, <1>7, <1>10, <2>1, StrIsNested
    <3> QED
      BY <3>1
  <2> QED
    BY <1>10, <2>2, ThenEnds DEF Nested, Flat
<1> DEFINE q == InOrder(<<FromAddress(l[1]), FromList(l[2], FromHash),
                          FromBlob(l[3])>>)
           m == <<Bytes(Fit(n.Address.b, AddressLen)), topics, n.Data>>
<1>12. ReadLog(List(l)) = q
  BY <1>10, ThenEnds DEF ReadLog
<1>13. q = Ok(m)
  BY <1>5, <1>6, <1>7, <1>10, InOrderThree, OkIsOk
<1>14. m[1] = Bytes(Fit(n.Address.b, AddressLen)) /\ m[2] = topics /\ m[3] = n.Data
  OBVIOUS
<1> HIDE DEF m, q
<1>15. DecodeLog(m) = NormalLog(n)
  BY <1>14 DEF DecodeLog, NormalLog, topics
<1>16. DecodeLogBytes(List(l)) = Ok(NormalLog(n))
  BY <1>12, <1>13, <1>15, OkIsOk DEF DecodeLogBytes, Then
<1> QED
  BY <1>9, <1>11, <1>16, ThenEnds

LEMMA LogKept ==
    ASSUME NEW n, SomeLog(n), WellFormedLog(n)
    PROVE  EncodeLog(n).st = "ok" /\ NormalLog(n) = n
<1> DEFINE p1 == packAddress(n)
           p2 == packTopics(n)
           p3 == packData(n)
           r == InOrder(<<p1, p2, p3>>)
<1>1. Sound(n.Address) /\ Sound(n.Data) /\ IsList(n.Topics) /\ Flat(n.Topics)
  BY DEF SomeLog
<1>2. p1.st = "ok" /\ Bytes(Fit(n.Address.b, AddressLen)) = n.Address
  BY <1>1, AddressLaw DEF WellFormedLog, packAddress
<1>3. /\ p2.st = "ok"
      /\ List([i \in DOMAIN n.Topics.l |-> Bytes(Fit(n.Topics.l[i].b, HashLen))])
            = n.Topics
  <2>1. p2 = packHashes(n.Topics)
    BY DEF packTopics, packHashes
  <2>2. \A i \in DOMAIN n.Topics.l : Sized(n.Topics.l[i], HashLen)
    BY DEF WellFormedLog
  <2> QED
    BY <1>1, <2>1, <2>2, HashesKept
<1>4. p3.st = "ok"
  BY <1>1, BlobLaw, OkIsOk DEF WellFormedLog, packData
<1> HIDE DEF p1, p2, p3
<1>5. r = Ok(<<p1.x, p2.x, p3.x>>)
  BY <1>2, <1>3, <1>4, InOrderThree
<1>6. EncodeLog(n) = IF r.st = "ok" THEN Ok(List(r.x)) ELSE r
  BY DEF EncodeLog, Then, p1, p2, p3
<1>7. EncodeLog(n).st = "ok"
  BY <1>5, <1>6, OkIsOk
<1>8. NormalLog(n) = n
  BY <1>2, <1>3 DEF NormalLog, SomeLog
<1> QED
  BY <1>7, <1>8

LEMMA LogLoads ==
    ASSUME NEW b, Nested(b), DecodeLogBytes(b).st = "ok"
    PROVE  LET n == DecodeLogBytes(b).x
           IN  SomeLog(n) /\ WellFormedLog(n) /\ EncodeLog(n) = Ok(b)
<1> DEFINE l == b.l
           q1 == FromAddress(l[1])
           q2 == FromList(l[2], FromHash)
           q3 == FromBlob(l[3])
           q == InOrder(<<q1, q2, q3>>)
<1>1. ReadLog(b).st = "ok" /\ DecodeLogBytes(b) = Ok(DecodeLog(ReadLog(b).x))
  BY DEF DecodeLogBytes, Then
<1>2. IsList(b) /\ Len(l) = 3 /\ ReadLog(b) = q
  BY <1>1, Failures DEF ReadLog
<1>3. Sound(l[1]) /\ Sound(l[2]) /\ Sound(l[3]) /\ Flat(l[2])
  BY <1>2 DEF Nested, Flat
<1>4. l = [i \in 1 .. 3 |-> l[i]] /\ b = List(l)
  BY <1>2 DEF Nested, Flat, Tuple
<1> HIDE DEF l
<1>5. q1.st = "ok" /\ q2.st = "ok" /\ q3.st = "ok"
  <2> HIDE DEF q1, q2, q3
  <2> QED
    BY <1>1, <1>2, AllThreeOk
<1>6. /\ Str(q1.x) /\ Sized(q1.x, AddressLen)
      /\ AsBytes(q1.x, Address) = Ok(l[1])
  BY <1>3, <1>5, AddressLaw
<1>7. /\ q2.x = l[2] /\ IsList(l[2]) /\ packHashes(l[2]) = Ok(l[2])
      /\ \A i \in DOMAIN l[2].l : Sized(l[2].l[i], HashLen)
  BY <1>3, <1>5, HashesRead, OkIsOk
<1>8. q3.x = l[3] /\ Str(l[3]) /\ IsBytes(l[3]) /\ AsBytes(l[3], Blob) = Ok(l[3])
  BY <1>3, <1>5, BlobLaw, OkIsOk
<1> HIDE DEF q1, q2, q3
<1> DEFINE m == <<q1.x, l[2], l[3]>>
           n == DecodeLog(m)
<1>9. q = Ok(m)
  BY <1>5, <1>7, <1>8, InOrderThree
<1>10. DecodeLogBytes(b).x = n
  BY <1>1, <1>2, <1>9, OkIsOk
<1>11. m[1] = q1.x /\ m[2] = l[2] /\ m[3] = l[3]
  OBVIOUS
<1> HIDE DEF m, q
<1>12. /\ n.Address = q1.x /\ n.Topics = l[2] /\ n.Data = l[3]
       /\ n = [Address |-> n.Address, Topics |-> n.Topics, Data |-> n.Data]
  BY <1>11 DEF DecodeLog
<1> HIDE DEF n
<1>13. SomeLog(n) /\ WellFormedLog(n)
  BY <1>3, <1>6, <1>7, <1>8, <1>12, StrIsSound DEF SomeLog, WellFormedLog
<1>14. packAddress(n) = Ok(l[1]) /\ packTopics(n) = Ok(l[2]) /\ packData(n) = Ok(l[3])
  BY <1>6, <1>7, <1>8, <1>12 DEF packAddress, packTopics, packData, packHashes
<1> DEFINE r == InOrder(<<Ok(l[1]), Ok(l[2]), Ok(l[3])>>)
<1>15. r = Ok(<<l[1], l[2], l[3]>>)
  BY InOrderThree, OkIsOk
<1>16. <<l[1], l[2], l[3]>> = l
  <2>1. <<l[1], l[2], l[3]>> = [i \in 1 .. 3 |-> l[i]]
    OBVIOUS
  <2> QED
    BY <1>4, <2>1
<1>17. EncodeLog(n) = Then(r, List)
  BY <1>14 DEF EncodeLog
<1>18. EncodeLog(n) = Ok(b)
  BY <1>4, <1>15, <1>16, <1>17, OkIsOk DEF Then
<1> QED
  BY <1>10, <1>13, <1>18

----------------------------------------------------------------------------
(* Headers (header/): the names of the fields and their places.            *)

LinkNames == {"header", "uncles", "state_trie", "tx_trie", "rct_trie",
              "storage_trie", "raw"}

LEMMA HeaderOrder ==
    /\ DOMAIN headerPackFuncs = 1 .. 16
    /\ headerPackFuncs[1] = "ParentCID" /\ headerPackFuncs[2] = "UnclesCID"
    /\ headerPackFuncs[3] = "Coinbase" /\ headerPackFuncs[4] = "StateRootCID"
    /\ headerPackFuncs[5] = "TxRootCID" /\ headerPackFuncs[6] = "RctRootCID"
    /\ headerPackFuncs[7] = "Bloom" /\ headerPackFuncs[8] = "Difficulty"
    /\ headerPackFuncs[9] = "Number" /\ headerPackFuncs[10] = "GasLimit"
    /\ headerPackFuncs[11] = "GasUsed" /\ headerPackFuncs[12] = "Time"
    /\ headerPackFuncs[13] = "Extra" /\ headerPackFuncs[14] = "MixDigest"
    /\ headerPackFuncs[15] = "Nonce" /\ headerPackFuncs[16] = "BaseFee"
  BY DEF headerPackFuncs

(* The place of each field. *)
HeaderPlace ==
    [ParentCID |-> 1, UnclesCID |-> 2, Coinbase |-> 3, StateRootCID |-> 4,
     TxRootCID |-> 5, RctRootCID |-> 6, Bloom |-> 7, Difficulty |-> 8,
     Number |-> 9, GasLimit |-> 10, GasUsed |-> 11, Time |-> 12, Extra |-> 13,
     MixDigest |-> 14, Nonce |-> 15, BaseFee |-> 16]

LEMMA HeaderPlaces ==
    \A i \in 1 .. 16 : HeaderPlace[headerPackFuncs[i]] = i
<1> DEFINE P(i) == HeaderPlace[headerPackFuncs[i]] = i
<1>1. P(1) /\ P(2) /\ P(3) /\ P(4)
  BY HeaderOrder DEF HeaderPlace
<1>2. P(5) /\ P(6) /\ P(7) /\ P(8)
  BY HeaderOrder DEF HeaderPlace
<1>3. P(9) /\ P(10) /\ P(11) /\ P(12)
  BY HeaderOrder DEF HeaderPlace
<1>4. P(13) /\ P(14) /\ P(15) /\ P(16)
  BY HeaderOrder DEF HeaderPlace
<1> HIDE DEF P
<1>5. \A i \in 1 .. 16 : P(i)
  BY <1>1, <1>2, <1>3, <1>4
<1> QED
  BY <1>5 DEF P

LEMMA HeaderFieldAt ==
    /\ \A i \in 1 .. 16 : /\ headerPackFuncs[i] \in HeaderFields
                          /\ (CHOOSE j \in DOMAIN headerPackFuncs :
                                 headerPackFuncs[j] = headerPackFuncs[i]) = i
                          /\ headerPackFuncs[i] = "BaseFee" <=> i = 16
    /\ \A f \in HeaderFields : \E i \in 1 .. 16 : headerPackFuncs[i] = f
<1>1. DOMAIN headerPackFuncs = 1 .. 16 /\ headerPackFuncs[16] = "BaseFee"
  BY HeaderOrder
<1>2. ASSUME NEW i \in 1 .. 16, NEW j \in 1 .. 16,
             headerPackFuncs[i] = headerPackFuncs[j]
      PROVE  i = j
  BY <1>2, HeaderPlaces
<1>3. ASSUME NEW i \in 1 .. 16
      PROVE  (CHOOSE j \in DOMAIN headerPackFuncs :
                 headerPackFuncs[j] = headerPackFuncs[i]) = i
  <2> DEFINE k == CHOOSE j \in 1 .. 16 : headerPackFuncs[j] = headerPackFuncs[i]
  <2>1. k \in 1 .. 16 /\ headerPackFuncs[k] = headerPackFuncs[i]
    BY Zenon
  <2> HIDE DEF k
  <2>2. k = i
    BY <1>2, <2>1
  <2> QED
    BY <1>1, <2>2, Zenon DEF k
<1>4. \A i \in 1 .. 16 : headerPackFuncs[i] \in HeaderFields
  BY <1>1 DEF HeaderFields
<1>5. \A f \in HeaderFields : \E i \in 1 .. 16 : headerPackFuncs[i] = f
  BY <1>1 DEF HeaderFields
<1>6. \A i \in 1 .. 16 : headerPackFuncs[i] = "BaseFee" <=> i = 16
  BY <1>1, <1>2
<1> QED
  BY <1>3, <1>4, <1>5, <1>6

LEMMA HeaderLinks ==
    /\ DOMAIN LinkCodec = {"ParentCID", "UnclesCID", "StateRootCID",
                           "TxRootCID", "RctRootCID"}
    /\ \A f \in DOMAIN LinkCodec : LinkCodec[f] \in LinkNames
  BY DEF LinkCodec, LinkNames

LEMMA HeaderFieldNames ==
    \A f \in HeaderFields :
        \/ f \in DOMAIN LinkCodec \/ f = "Coinbase" \/ f = "Bloom"
        \/ f \in HeaderBigInts \cup {"BaseFee"} \/ f \in HeaderUints
        \/ f = "Extra" \/ f = "MixDigest" \/ f = "Nonce"
<1> SUFFICES ASSUME NEW i \in 1 .. 16, NEW f, f = headerPackFuncs[i]
             PROVE  \/ f \in DOMAIN LinkCodec \/ f = "Coinbase" \/ f = "Bloom"
                    \/ f \in HeaderBigInts \cup {"BaseFee"} \/ f \in HeaderUints
                    \/ f = "Extra" \/ f = "MixDigest" \/ f = "Nonce"
  BY HeaderFieldAt
<1>1. f \in {"ParentCID", "UnclesCID", "Coinbase", "StateRootCID", "TxRootCID",
             "RctRootCID", "Bloom", "Difficulty", "Number", "GasLimit",
             "GasUsed", "Time", "Extra", "MixDigest", "Nonce", "BaseFee"}
  BY HeaderOrder
<1> QED
  BY <1>1, HeaderLinks DEF HeaderBigInts, HeaderUints

(* How each field is packed, read, valued and judged, kind by kind. *)
HeaderMeaning(f, x) ==
    CASE f \in DOMAIN LinkCodec ->
             Link(LinkCodec[f], Fit(x.digest, HashLen))
      [] f = "Coinbase"     -> Bytes(Fit(x.b, AddressLen))
      [] f \in HeaderBigInts \cup {"BaseFee"} -> Bytes(SetBytes(x.b))
      [] f \in HeaderUints  -> Bytes(SubSeq(x.b, 1, UintLen))
      [] f = "MixDigest"    -> Bytes(Fit(x.b, HashLen))
      [] OTHER              -> x

HeaderFieldOk(f, x) ==
    CASE f \in DOMAIN LinkCodec -> HashLink(x, LinkCodec[f])
      [] f = "Coinbase"         -> Sized(x, AddressLen)
      [] f = "Bloom"            -> Sized(x, BloomLen)
      [] f \in HeaderBigInts    -> IsInteger(x)
      [] f = "BaseFee"          -> x = Null \/ IsInteger(x)
      [] f \in HeaderUints \cup {"Nonce"} -> Sized(x, UintLen)
      [] f = "MixDigest"        -> Sized(x, HashLen)
      [] f = "Extra"            -> IsBytes(x)

LEMMA HeaderMeans ==
    ASSUME NEW n, NEW f \in HeaderFields
    PROVE  /\ NormalHeader(n)[f] = IF n[f] = Null THEN Null
                                   ELSE HeaderMeaning(f, n[f])
           /\ WellFormedHeader(n) => HeaderFieldOk(f, n[f])
  BY DEF NormalHeader, HeaderMeaning, WellFormedHeader, HeaderFieldOk

LEMMA HeaderKindLink ==
    ASSUME NEW n, NEW x, NEW f, f \in DOMAIN LinkCodec
    PROVE  /\ packHeaderField(n, f) = AsLink(n[f], Hash)
           /\ ReadHeaderField(f, x) = FromHashTo(x, LinkCodec[f])
           /\ HeaderMeaning(f, x) = Link(LinkCodec[f], Fit(x.digest, HashLen))
           /\ HeaderFieldOk(f, x) <=> HashLink(x, LinkCodec[f])
<1> USE HeaderLinks DEF HeaderBigInts, HeaderUints
<1>1. packHeaderField(n, f) = AsLink(n[f], Hash)
  BY DEF packHeaderField
<1>2. ReadHeaderField(f, x) = FromHashTo(x, LinkCodec[f])
  BY DEF ReadHeaderField
<1>3. HeaderMeaning(f, x) = Link(LinkCodec[f], Fit(x.digest, HashLen))
  BY DEF HeaderMeaning
<1>4. HeaderFieldOk(f, x) <=> HashLink(x, LinkCodec[f])
  BY DEF HeaderFieldOk
<1> QED
  BY <1>1, <1>2, <1>3, <1>4

LEMMA HeaderKindCoinbase ==
    ASSUME NEW n, NEW x, NEW f, f = "Coinbase"
    PROVE  /\ packHeaderField(n, f) = AsBytes(n[f], Address)
           /\ ReadHeaderField(f, x) = FromAddress(x)
           /\ HeaderMeaning(f, x) = Bytes(Fit(x.b, AddressLen))
           /\ HeaderFieldOk(f, x) <=> Sized(x, AddressLen)
<1> USE HeaderLinks DEF HeaderBigInts, HeaderUints
<1>1. packHeaderField(n, f) = AsBytes(n[f], Address)
  BY DEF packHeaderField
<1>2. ReadHeaderField(f, x) = FromAddress(x)
  BY DEF ReadHeaderField
<1>3. HeaderMeaning(f, x) = Bytes(Fit(x.b, AddressLen))
  BY DEF HeaderMeaning
<1>4. HeaderFieldOk(f, x) <=> Sized(x, AddressLen)
  BY DEF HeaderFieldOk
<1> QED
  BY <1>1, <1>2, <1>3, <1>4

LEMMA HeaderKindBloom ==
    ASSUME NEW n, NEW x, NEW f, f = "Bloom"
    PROVE  /\ packHeaderField(n, f) = packHeaderBloom(n[f])
           /\ ReadHeaderField(f, x) = FromArray(x, BloomLen)
           /\ HeaderMeaning(f, x) = x
           /\ HeaderFieldOk(f, x) <=> Sized(x, BloomLen)
<1> USE HeaderLinks DEF HeaderBigInts, HeaderUints
<1>1. packHeaderField(n, f) = packHeaderBloom(n[f])
  BY DEF packHeaderField
<1>2. ReadHeaderField(f, x) = FromArray(x, BloomLen)
  BY DEF ReadHeaderField
<1>3. HeaderMeaning(f, x) = x
  BY DEF HeaderMeaning
<1>4. HeaderFieldOk(f, x) <=> Sized(x, BloomLen)
  BY DEF HeaderFieldOk
<1> QED
  BY <1>1, <1>2, <1>3, <1>4

LEMMA HeaderKindBigInt ==
    ASSUME NEW n, NEW x, NEW f, f \in HeaderBigInts \cup {"BaseFee"}
    PROVE  /\ packHeaderField(n, f) = AsBytes(n[f], BigInt)
           /\ ReadHeaderField(f, x) = FromBigInt(x)
           /\ HeaderMeaning(f, x) = Bytes(SetBytes(x.b))
           /\ HeaderFieldOk(f, x) /\ x # Null => IsInteger(x)
           /\ IsInteger(x) => HeaderFieldOk(f, x)
<1> USE HeaderLinks DEF HeaderBigInts, HeaderUints
<1>1. packHeaderField(n, f) = AsBytes(n[f], BigInt)
  BY DEF packHeaderField
<1>2. ReadHeaderField(f, x) = FromBigInt(x)
  BY DEF ReadHeaderField
<1>3. HeaderMeaning(f, x) = Bytes(SetBytes(x.b))
  BY DEF HeaderMeaning
<1>4. HeaderFieldOk(f, x) /\ x # Null => IsInteger(x)
  BY DEF HeaderFieldOk
<1>5. IsInteger(x) => HeaderFieldOk(f, x)
  BY DEF HeaderFieldOk
<1> QED
  BY <1>1, <1>2, <1>3, <1>4, <1>5

LEMMA HeaderKindUint ==
    ASSUME NEW n, NEW x, NEW f, f \in HeaderUints
    PROVE  /\ packHeaderField(n, f) = AsBytes(n[f], Uint64)
           /\ ReadHeaderField(f, x) = FromUint64(x)
           /\ HeaderMeaning(f, x) = Bytes(SubSeq(x.b, 1, UintLen))
           /\ HeaderFieldOk(f, x) <=> Sized(x, UintLen)
<1> USE HeaderLinks DEF HeaderBigInts, HeaderUints
<1>1. packHeaderField(n, f) = AsBytes(n[f], Uint64)
  BY DEF packHeaderField
<1>2. ReadHeaderField(f, x) = FromUint64(x)
  BY DEF ReadHeaderField
<1>3. HeaderMeaning(f, x) = Bytes(SubSeq(x.b, 1, UintLen))
  BY DEF HeaderMeaning
<1>4. HeaderFieldOk(f, x) <=> Sized(x, UintLen)
  BY DEF HeaderFieldOk
<1> QED
  BY <1>1, <1>2, <1>3, <1>4

LEMMA HeaderKindExtra ==
    ASSUME NEW n, NEW x, NEW f, f = "Extra"
    PROVE  /\ packHeaderField(n, f) = AsBytes(n[f], Blob)
           /\ ReadHeaderField(f, x) = FromBlob(x)
           /\ HeaderMeaning(f, x) = x
           /\ HeaderFieldOk(f, x) <=> IsBytes(x)
<1> USE HeaderLinks DEF HeaderBigInts, HeaderUints
<1>1. packHeaderField(n, f) = AsBytes(n[f], Blob)
  BY DEF packHeaderField
<1>2. ReadHeaderField(f, x) = FromBlob(x)
  BY DEF ReadHeaderField
<1>3. HeaderMeaning(f, x) = x
  BY DEF HeaderMeaning
<1>4. HeaderFieldOk(f, x) <=> IsBytes(x)
  BY DEF HeaderFieldOk
<1> QED
  BY <1>1, <1>2, <1>3, <1>4

LEMMA HeaderKindMixDigest ==
    ASSUME NEW n, NEW x, NEW f, f = "MixDigest"
    PROVE  /\ packHeaderField(n, f) = AsBytes(n[f], Hash)
           /\ ReadHeaderField(f, x) = FromHash(x)
           /\ HeaderMeaning(f, x) = Bytes(Fit(x.b, HashLen))
           /\ HeaderFieldOk(f, x) <=> Sized(x, HashLen)
<1> USE HeaderLinks DEF HeaderBigInts, HeaderUints
<1>1. packHeaderField(n, f) = AsBytes(n[f], Hash)
  BY DEF packHeaderField
<1>2. ReadHeaderField(f, x) = FromHash(x)
  BY DEF ReadHeaderField
<1>3. HeaderMeaning(f, x) = Bytes(Fit(x.b, HashLen))
  BY DEF HeaderMeaning
<1>4. HeaderFieldOk(f, x) <=> Sized(x, HashLen)
  BY DEF HeaderFieldOk
<1> QED
  BY <1>1, <1>2, <1>3, <1>4

LEMMA HeaderKindNonce ==
    ASSUME NEW n, NEW x, NEW f, f = "Nonce"
    PROVE  /\ packHeaderField(n, f) = packNonce(n[f])
           /\ ReadHeaderField(f, x) = FromArray(x, UintLen)
           /\ HeaderMeaning(f, x) = x
           /\ HeaderFieldOk(f, x) <=> Sized(x, UintLen)
<1> USE HeaderLinks DEF HeaderBigInts, HeaderUints
<1>1. packHeaderField(n, f) = packNonce(n[f])
  BY DEF packHeaderField
<1>2. ReadHeaderField(f, x) = FromArray(x, UintLen)
  BY DEF ReadHeaderField
<1>3. HeaderMeaning(f, x) = x
  BY DEF HeaderMeaning
<1>4. HeaderFieldOk(f, x) <=> Sized(x, UintLen)
  BY DEF HeaderFieldOk
<1> QED
  BY <1>1, <1>2, <1>3, <1>4

(* A bloom and a nonce have one length only. *)
LEMMA ExactLaw ==
    ASSUME NEW x, Sound(x), NEW k \in Nat
    PROVE  LET p == AsBytes(x, LAMBDA b : Exactly(b, k))
           IN  /\ p.st = "ok" => Sized(x, k)
               /\ Sized(x, k) => p = Ok(x) /\ Str(x)
  BY StrIsBytes, Failures, OkIsOk DEF AsBytes, Exactly, Sized, Sound

(* A header that the builders of the schema accept. *)
SomeHeader(n) ==
    /\ n = [f \in HeaderFields |-> n[f]]
    /\ \A f \in HeaderFields : IF f \in DOMAIN LinkCodec THEN SomeCid(n[f])
                               ELSE Sound(n[f])

LEMMA HeaderFieldStores ==
    ASSUME NEW n, SomeHeader(n), NEW f \in HeaderFields,
           packHeaderField(n, f).st = "ok", NonCid \notin LinkNames
    PROVE  LET x == packHeaderField(n, f).x
           IN  Str(x) /\ ReadHeaderField(f, x) = Ok(NormalHeader(n)[f])
<1> DEFINE x == packHeaderField(n, f).x
           y == n[f]
           m == HeaderMeaning(f, y)
<1>1. SUFFICES y # Null /\ Str(x) /\ ReadHeaderField(f, x) = Ok(m)
  BY HeaderMeans
<1>2. f \in DOMAIN LinkCodec => SomeCid(y)
  BY DEF SomeHeader
<1>3. f \notin DOMAIN LinkCodec => Sound(y)
  BY DEF SomeHeader
<1>4. packHeaderField(n, f).st = "ok"
  OBVIOUS
<1>5. IsBytes(y) => y # Null
  BY DEF IsBytes, Null
<1>6. UintLen \in Nat /\ BloomLen \in Nat /\ HashLen \in Nat /\ AddressLen \in Nat
  BY SizeAssumption
<1> HIDE DEF y
<1>a. CASE f \in DOMAIN LinkCodec
  <2> DEFINE p == AsLink(y, Hash)
  <2>1. packHeaderField(n, f) = p
    BY <1>a, HeaderKindLink DEF y
  <2>2. LinkCodec[f] # NonCid /\ SomeCid(y) /\ y # Null
    BY <1>a, <1>2, HeaderLinks, CidLaw
  <2>3. Str(p.x) /\ FromHashTo(p.x, LinkCodec[f]) = Ok(Link(LinkCodec[f], Fit(y.digest, HashLen)))
    BY <1>4, <2>1, <2>2, HashLinkLaw
  <2> HIDE DEF p
  <2> QED
    BY <1>a, <2>1, <2>2, <2>3, HeaderKindLink
<1>b. CASE f = "Coinbase"
  <2> DEFINE p == AsBytes(y, Address)
  <2>1. packHeaderField(n, f) = p
    BY <1>b, HeaderKindCoinbase DEF y
  <2>2. Str(p.x) /\ IsBytes(y) /\ FromAddress(p.x) = Ok(Bytes(Fit(y.b, AddressLen)))
    BY <1>b, <1>3, <1>4, <2>1, HeaderLinks, AddressLaw
  <2> HIDE DEF p
  <2> QED
    BY <1>b, <1>5, <2>1, <2>2, HeaderKindCoinbase
<1>c. CASE f = "Bloom"
  <2> DEFINE p == packHeaderBloom(y)
  <2>1. packHeaderField(n, f) = p
    BY <1>c, HeaderKindBloom DEF y
  <2>2. Sound(y)
    BY <1>c, <1>3, HeaderLinks
  <2>3. Sized(y, BloomLen) /\ p = Ok(y) /\ Str(y)
    BY <1>4, <1>6, <2>1, <2>2, ExactLaw DEF packHeaderBloom
  <2>4. FromArray(y, BloomLen) = Ok(y) /\ IsBytes(y)
    BY <2>3 DEF FromArray, Sized
  <2> HIDE DEF p
  <2> QED
    BY <1>c, <1>5, <2>1, <2>3, <2>4, OkIsOk, HeaderKindBloom
<1>d. CASE f \in HeaderBigInts \cup {"BaseFee"}
  <2> DEFINE p == AsBytes(y, BigInt)
  <2>1. packHeaderField(n, f) = p
    BY <1>d, HeaderKindBigInt DEF y
  <2>2. Str(p.x) /\ IsBytes(y) /\ FromBigInt(p.x) = Ok(Bytes(SetBytes(y.b)))
    BY <1>d, <1>3, <1>4, <2>1, HeaderLinks, BigIntLaw DEF HeaderBigInts
  <2> HIDE DEF p
  <2> QED
    BY <1>d, <1>5, <2>1, <2>2, HeaderKindBigInt
<1>e. CASE f \in HeaderUints
  <2> DEFINE p == AsBytes(y, Uint64)
  <2>1. packHeaderField(n, f) = p
    BY <1>e, HeaderKindUint DEF y
  <2>2. Str(p.x) /\ IsBytes(y) /\ FromUint64(p.x) = Ok(Bytes(SubSeq(y.b, 1, UintLen)))
    BY <1>e, <1>3, <1>4, <2>1, HeaderLinks, UintLaw DEF HeaderUints
  <2> HIDE DEF p
  <2> QED
    BY <1>e, <1>5, <2>1, <2>2, HeaderKindUint
<1>f. CASE f = "Extra"
  <2> DEFINE p == AsBytes(y, Blob)
  <2>1. packHeaderField(n, f) = p
    BY <1>f, HeaderKindExtra DEF y
  <2>2. p = Ok(y) /\ Str(y) /\ IsBytes(y) /\ FromBlob(y) = Ok(y)
    BY <1>f, <1>3, <1>4, <2>1, HeaderLinks, BlobLaw
  <2> HIDE DEF p
  <2> QED
    BY <1>f, <1>5, <2>1, <2>2, OkIsOk, HeaderKindExtra
<1>g. CASE f = "MixDigest"
  <2> DEFINE p == AsBytes(y, Hash)
  <2>1. packHeaderField(n, f) = p
    BY <1>g, HeaderKindMixDigest DEF y
  <2>2. Str(p.x) /\ IsBytes(y) /\ FromHash(p.x) = Ok(Bytes(Fit(y.b, HashLen)))
    BY <1>g, <1>3, <1>4, <2>1, HeaderLinks, HashLaw
  <2> HIDE DEF p
  <2> QED
    BY <1>g, <1>5, <2>1, <2>2, HeaderKindMixDigest
<1>h. CASE f = "Nonce"
  <2> DEFINE p == packNonce(y)
  <2>1. packHeaderField(n, f) = p
    BY <1>h, HeaderKindNonce DEF y
  <2>2. Sound(y)
    BY <1>h, <1>3, HeaderLinks
  <2>3. Sized(y, UintLen) /\ p = Ok(y) /\ Str(y)
    BY <1>4, <1>6, <2>1, <2>2, ExactLaw DEF packNonce
  <2>4. FromArray(y, UintLen) = Ok(y) /\ IsBytes(y)
    BY <2>3 DEF FromArray, Sized
  <2> HIDE DEF p
  <2> QED
    BY <1>h, <1>5, <2>1, <2>3, <2>4, OkIsOk, HeaderKindNonce
<1> QED
  BY <1>a, <1>b, <1>c, <1>d, <1>e, <1>f, <1>g, <1>h, HeaderFieldNames

LEMMA HeaderFieldKept ==
    ASSUME NEW n, SomeHeader(n), WellFormedHeader(n), NEW f \in HeaderFields,
           n[f] # Null, NonCid \notin LinkNames
    PROVE  packHeaderField(n, f).st = "ok" /\ NormalHeader(n)[f] = n[f]
<1> DEFINE y == n[f]
<1>1. SUFFICES packHeaderField(n, f).st = "ok" /\ HeaderMeaning(f, y) = y
  BY HeaderMeans
<1>2. f \in DOMAIN LinkCodec => SomeCid(y)
  BY DEF SomeHeader
<1>3. f \notin DOMAIN LinkCodec => Sound(y)
  BY DEF SomeHeader
<1>4. HeaderFieldOk(f, y) /\ y # Null
  BY HeaderMeans
<1>6. UintLen \in Nat /\ BloomLen \in Nat /\ HashLen \in Nat /\ AddressLen \in Nat
  BY SizeAssumption
<1>a. CASE f \in DOMAIN LinkCodec
  <2>1. LinkCodec[f] # NonCid /\ SomeCid(y) /\ HashLink(y, LinkCodec[f])
    BY <1>a, <1>2, <1>4, HeaderLinks, HeaderKindLink
  <2>2. AsLink(y, Hash).st = "ok" /\ Link(LinkCodec[f], Fit(y.digest, HashLen)) = y
    BY <2>1, HashLinkLaw
  <2> QED
    BY <1>a, <2>2, HeaderKindLink
<1>b. CASE f = "Coinbase"
  <2>1. Sound(y) /\ Sized(y, AddressLen)
    BY <1>b, <1>3, <1>4, HeaderLinks, HeaderKindCoinbase
  <2> QED
    BY <1>b, <2>1, AddressLaw, HeaderKindCoinbase
<1>c. CASE f = "Bloom"
  <2>1. Sound(y) /\ Sized(y, BloomLen)
    BY <1>c, <1>3, <1>4, HeaderLinks, HeaderKindBloom
  <2>2. packHeaderBloom(y) = Ok(y)
    BY <1>6, <2>1, ExactLaw DEF packHeaderBloom
  <2> QED
    BY <1>c, <2>2, OkIsOk, HeaderKindBloom
<1>d. CASE f \in HeaderBigInts \cup {"BaseFee"}
  <2>1. Sound(y) /\ IsInteger(y)
    BY <1>d, <1>3, <1>4, HeaderLinks, HeaderKindBigInt DEF HeaderBigInts
  <2>2. AsBytes(y, BigInt).st = "ok" /\ Bytes(SetBytes(y.b)) = y
    BY <2>1, BigIntLaw
  <2> QED
    BY <1>d, <2>2, HeaderKindBigInt
<1>e. CASE f \in HeaderUints
  <2>1. Sound(y) /\ Sized(y, UintLen)
    BY <1>e, <1>3, <1>4, HeaderLinks, HeaderKindUint DEF HeaderUints
  <2> QED
    BY <1>e, <2>1, UintLaw, HeaderKindUint
<1>f. CASE f = "Extra"
  <2>1. Sound(y) /\ IsBytes(y)
    BY <1>f, <1>3, <1>4, HeaderLinks, HeaderKindExtra
  <2> QED
    BY <1>f, <2>1, BlobLaw, OkIsOk, HeaderKindExtra
<1>g. CASE f = "MixDigest"
  <2>1. Sound(y) /\ Sized(y, HashLen)
    BY <1>g, <1>3, <1>4, HeaderLinks, HeaderKindMixDigest
  <2> QED
    BY <1>g, <2>1, HashLaw, HeaderKindMixDigest
<1>h. CASE f = "Nonce"
  <2>1. Sound(y) /\ Sized(y, UintLen)
    BY <1>h, <1>3, <1>4, HeaderLinks, HeaderKindNonce
  <2>2. packNonce(y) = Ok(y)
    BY <1>6, <2>1, ExactLaw DEF packNonce
  <2> QED
    BY <1>h, <2>2, OkIsOk, HeaderKindNonce
<1> QED
  BY <1>a, <1>b, <1>c, <1>d, <1>e, <1>f, <1>g, <1>h, HeaderFieldNames

LEMMA HeaderFieldLoads ==
    ASSUME NEW n, NEW f \in HeaderFields, NEW x, Sound(x),
           ReadHeaderField(f, x).st = "ok", n[f] = ReadHeaderField(f, x).x,
           NonCid \notin LinkNames
    PROVE  /\ IF f \in DOMAIN LinkCodec THEN SomeCid(n[f]) ELSE Sound(n[f])
           /\ n[f] # Null /\ HeaderFieldOk(f, n[f])
           /\ packHeaderField(n, f) = Ok(x)
<1> DEFINE y == n[f]
<1>1. ReadHeaderField(f, x).st = "ok" /\ y = ReadHeaderField(f, x).x
  OBVIOUS
<1>2. UintLen \in Nat /\ BloomLen \in Nat /\ HashLen \in Nat /\ AddressLen \in Nat
  BY SizeAssumption
<1>a. CASE f \in DOMAIN LinkCodec
  <2> DEFINE q == FromHashTo(x, LinkCodec[f])
  <2>1. ReadHeaderField(f, x) = q /\ LinkCodec[f] # NonCid
    BY <1>a, HeaderLinks, HeaderKindLink
  <2>2. SomeCid(q.x) /\ HashLink(q.x, LinkCodec[f]) /\ AsLink(q.x, Hash) = Ok(x)
    BY <1>1, <2>1, HashLinkLaw
  <2> HIDE DEF q
  <2>3. SomeCid(y) /\ HashLink(y, LinkCodec[f]) /\ AsLink(y, Hash) = Ok(x)
    BY <1>1, <2>1, <2>2
  <2> QED
    BY <1>a, <2>3, CidLaw, HeaderKindLink
<1>b. CASE f \notin DOMAIN LinkCodec
  <2>1. SUFFICES Str(y) /\ HeaderFieldOk(f, y) /\ packHeaderField(n, f) = Ok(x)
    BY <1>b, StrIsSound, StrIsBytes
  <2>b. CASE f = "Coinbase"
    <3> DEFINE q == FromAddress(x)
    <3>1. q.st = "ok" /\ y = q.x
      BY <1>1, <2>b, HeaderKindCoinbase
    <3>2. Str(q.x) /\ Sized(q.x, AddressLen) /\ AsBytes(q.x, Address) = Ok(x)
      BY <3>1, AddressLaw
    <3> HIDE DEF q
    <3>3. Str(y) /\ Sized(y, AddressLen) /\ AsBytes(y, Address) = Ok(x)
      BY <3>1, <3>2
    <3> QED
      BY <2>b, <3>3, HeaderKindCoinbase
  <2>c. CASE f = "Bloom"
    <3>1. FromArray(x, BloomLen).st = "ok" /\ y = FromArray(x, BloomLen).x
      BY <1>1, <2>c, HeaderKindBloom
    <3>2. Sized(x, BloomLen) /\ FromArray(x, BloomLen) = Ok(x)
      BY <3>1, Failures DEF FromArray
    <3>3. packHeaderBloom(x) = Ok(x) /\ Str(x)
      BY <1>2, <3>2, ExactLaw DEF packHeaderBloom
    <3>4. y = x
      BY <3>1, <3>2, OkIsOk
    <3> QED
      BY <2>c, <3>2, <3>3, <3>4, HeaderKindBloom
  <2>d. CASE f \in HeaderBigInts \cup {"BaseFee"}
    <3> DEFINE q == FromBigInt(x)
    <3>1. q.st = "ok" /\ y = q.x
      BY <1>1, <2>d, HeaderKindBigInt
    <3>2. Str(q.x) /\ IsInteger(q.x) /\ AsBytes(q.x, BigInt) = Ok(x)
      BY <3>1, BigIntLaw
    <3> HIDE DEF q
    <3>3. Str(y) /\ IsInteger(y) /\ AsBytes(y, BigInt) = Ok(x)
      BY <3>1, <3>2
    <3> QED
      BY <2>d, <3>3, HeaderKindBigInt
  <2>e. CASE f \in HeaderUints
    <3> DEFINE q == FromUint64(x)
    <3>1. q.st = "ok" /\ y = q.x
      BY <1>1, <2>e, HeaderKindUint
    <3>2. Str(q.x) /\ Sized(q.x, UintLen) /\ AsBytes(q.x, Uint64) = Ok(x)
      BY <3>1, UintLaw
    <3> HIDE DEF q
    <3>3. Str(y) /\ Sized(y, UintLen) /\ AsBytes(y, Uint64) = Ok(x)
      BY <3>1, <3>2
    <3> QED
      BY <2>e, <3>3, HeaderKindUint
  <2>f. CASE f = "Extra"
    <3>1. FromBlob(x).st = "ok" /\ y = FromBlob(x).x
      BY <1>1, <2>f, HeaderKindExtra
    <3>2. IsBytes(x) /\ Str(x) /\ AsBytes(x, Blob) = Ok(x) /\ FromBlob(x) = Ok(x)
      BY <3>1, BlobLaw
    <3>3. y = x
      BY <3>1, <3>2, OkIsOk
    <3> QED
      BY <2>f, <3>2, <3>3, HeaderKindExtra
  <2>g. CASE f = "MixDigest"
    <3> DEFINE q == FromHash(x)
    <3>1. q.st = "ok" /\ y = q.x
      BY <1>1, <2>g, HeaderKindMixDigest
    <3>2. Str(q.x) /\ Sized(q.x, HashLen) /\ AsBytes(q.x, Hash) = Ok(x)
      BY <3>1, HashLaw
    <3> HIDE DEF q
    <3>3. Str(y) /\ Sized(y, HashLen) /\ AsBytes(y, Hash) = Ok(x)
      BY <3>1, <3>2
    <3> QED
      BY <2>g, <3>3, HeaderKindMixDigest
  <2>h. CASE f = "Nonce"
    <3>1. FromArray(x, UintLen).st = "ok" /\ y = FromArray(x, UintLen).x
      BY <1>1, <2>h, HeaderKindNonce
    <3>2. Sized(x, UintLen) /\ FromArray(x, UintLen) = Ok(x)
      BY <3>1, Failures DEF FromArray
    <3>3. packNonce(x) = Ok(x) /\ Str(x)
      BY <1>2, <3>2, ExactLaw DEF packNonce
    <3>4. y = x
      BY <3>1, <3>2, OkIsOk
    <3> QED
      BY <2>h, <3>2, <3>3, <3>4, HeaderKindNonce
  <2> QED
    BY <1>b, <2>b, <2>c, <2>d, <2>e, <2>f, <2>g, <2>h, HeaderFieldNames
<1> QED
  BY <1>a, <1>b

LEMMA HeaderAt ==
    ASSUME NEW m, NEW i \in 1 .. 16
    PROVE  DecodeHeader(m)[headerPackFuncs[i]] =
               IF i \in DOMAIN m THEN m[i] ELSE Null
<1> DEFINE j == CHOOSE k \in DOMAIN headerPackFuncs :
                   headerPackFuncs[k] = headerPackFuncs[i]
<1>1. j = i /\ headerPackFuncs[i] \in HeaderFields
  BY HeaderFieldAt
<1>2. DecodeHeader(m)[headerPackFuncs[i]] = IF j \in DOMAIN m THEN m[j] ELSE Null
  BY <1>1, Zenon DEF DecodeHeader
<1> HIDE DEF j
<1> QED
  BY <1>1, <1>2

LEMMA HeadersEqual ==
    ASSUME NEW n, n = [f \in HeaderFields |-> n[f]],
           NEW k, k = [f \in HeaderFields |-> k[f]],
           \A i \in 1 .. 16 : n[headerPackFuncs[i]] = k[headerPackFuncs[i]]
    PROVE  n = k
<1>1. \A f \in HeaderFields : n[f] = k[f]
  BY HeaderFieldAt
<1>2. [f \in HeaderFields |-> n[f]] = [f \in HeaderFields |-> k[f]]
  BY <1>1
<1> QED
  BY <1>2

LEMMA HeaderMaps ==
    ASSUME NEW n
    PROVE  /\ DecodeHeader(n) = [f \in HeaderFields |-> DecodeHeader(n)[f]]
           /\ NormalHeader(n) = [f \in HeaderFields |-> NormalHeader(n)[f]]
<1> DEFINE F(f) == LET i == CHOOSE j \in DOMAIN headerPackFuncs :
                                headerPackFuncs[j] = f
                   IN  IF i \in DOMAIN n THEN n[i] ELSE Null
           G(f) == NormalHeader(n)[f]
<1>1. DecodeHeader(n) = [f \in HeaderFields |-> F(f)]
  BY Zenon DEF DecodeHeader
<1>2. DOMAIN NormalHeader(n) = HeaderFields
  BY Zenon DEF NormalHeader
<1> HIDE DEF F
<1>3. DecodeHeader(n) = [f \in HeaderFields |-> DecodeHeader(n)[f]]
  BY <1>1
<1>4. NormalHeader(n) = [f \in DOMAIN NormalHeader(n) |-> NormalHeader(n)[f]]
  <2> DEFINE H(f) == IF n[f] = Null THEN Null ELSE HeaderMeaning(f, n[f])
  <2>1. NormalHeader(n) = [f \in HeaderFields |-> H(f)]
    BY Zenon DEF NormalHeader, HeaderMeaning
  <2> HIDE DEF H
  <2> QED
    BY <2>1
<1> QED
  BY <1>2, <1>3, <1>4

LEMMA PackedCount ==
    ASSUME NEW n
    PROVE  /\ PackedFields(n) \in 15 .. 16
           /\ PackedFields(n) = 15 <=> n.BaseFee = Null
  BY DEF PackedFields, Required

LEMMA ReadCount == Required + 2 = 17 /\ Required .. Required + 2 = 15 .. 17
  BY DEF Required

LEMMA HeaderStores ==
    ASSUME NEW n, SomeHeader(n), EncodeHeader(n).st = "ok", NonCid \notin LinkNames
    PROVE  LET b == EncodeHeader(n).x
           IN  /\ Flat(b) /\ IsList(b) /\ Len(b.l) \in 15 .. 16
               /\ DecodeHeaderBytes(b) = Ok(NormalHeader(n))
<1> DEFINE N == PackedFields(n)
           calls == [i \in 1 .. N |-> packHeaderField(n, headerPackFuncs[i])]
           k == [i \in 1 .. N |-> calls[i].x]
           h == NormalHeader(n)
<1>1. N \in 15 .. 16 /\ N \in Nat /\ (N = 15 <=> n.BaseFee = Null)
  BY PackedCount
<1>2. EncodeHeader(n) = Then(InOrder(calls), List)
  BY DEF EncodeHeader
<1> HIDE DEF N
<1>3. DOMAIN calls = 1 .. N
  OBVIOUS
<1>4. \A i \in 1 .. N : calls[i] = packHeaderField(n, headerPackFuncs[i])
  OBVIOUS
<1> HIDE DEF calls
<1>5. \A i \in 1 .. N : calls[i].st = "ok"
  BY <1>1, <1>2, <1>3, ListCallsOk
<1>6. EncodeHeader(n).x = List(k)
  BY <1>1, <1>2, <1>3, <1>5, ListCalls, OkIsOk
<1>7. \A i \in 1 .. N : k[i] = calls[i].x
  OBVIOUS
<1>8. k = [i \in 1 .. N |-> k[i]]
  OBVIOUS
<1> HIDE DEF k
<1>9. Len(k) = N /\ Tuple(k) /\ DOMAIN k = 1 .. N
  BY <1>1, <1>8, TupleOf
<1>10. ASSUME NEW i \in 1 .. N
       PROVE  /\ Str(k[i])
              /\ ReadHeaderField(headerPackFuncs[i], k[i]) =
                     Ok(h[headerPackFuncs[i]])
  <2>1. headerPackFuncs[i] \in HeaderFields
    BY <1>1, HeaderFieldAt
  <2>2. packHeaderField(n, headerPackFuncs[i]).st = "ok"
    BY <1>4, <1>5
  <2>3. k[i] = packHeaderField(n, headerPackFuncs[i]).x
    BY <1>4, <1>7
  <2> QED
    BY <2>1, <2>2, <2>3, HeaderFieldStores
<1> HIDE DEF h
<1>11. \A i \in 1 .. N : Sound(k[i])
  BY <1>10, StrIsSound
<1>12. Flat(List(k)) /\ List(k).l = k /\ IsList(List(k))
  BY <1>9, <1>11, ThenEnds DEF Flat
<1> DEFINE back == [i \in DOMAIN k |->
                       IF i = Required + 2 THEN FromHash(k[i])
                       ELSE ReadHeaderField(headerPackFuncs[i], k[i])]
           m == [i \in 1 .. N |-> back[i].x]
<1>13. ReadHeader(List(k)) = InOrder(back)
  <2>1. Len(k) \in Required .. Required + 2
    BY <1>1, <1>9, ReadCount
  <2> QED
    BY <1>12, <2>1 DEF ReadHeader
<1>14. DOMAIN back = 1 .. N
  BY <1>9
<1>15. \A i \in 1 .. N : back[i] = Ok(h[headerPackFuncs[i]])
  <2>1. \A i \in 1 .. N : back[i] = IF i = Required + 2 THEN FromHash(k[i])
                                    ELSE ReadHeaderField(headerPackFuncs[i], k[i])
    BY <1>9
  <2>2. \A i \in 1 .. N : ~(i = Required + 2)
    BY <1>1, ReadCount
  <2> QED
    BY <1>10, <2>1, <2>2
<1> HIDE DEF back
<1>16. \A i \in 1 .. N : back[i].st = "ok" /\ back[i].x = h[headerPackFuncs[i]]
  BY <1>15, OkIsOk
<1>17. InOrder(back) = Ok(m)
  BY <1>1, <1>14, <1>16, InOrderEnds
<1>18. DOMAIN m = 1 .. N /\ \A i \in 1 .. N : m[i] = h[headerPackFuncs[i]]
  BY <1>16
<1> HIDE DEF m
<1>19. ASSUME NEW i \in 1 .. 16
       PROVE  DecodeHeader(m)[headerPackFuncs[i]] = h[headerPackFuncs[i]]
  <2>0. DecodeHeader(m)[headerPackFuncs[i]] = IF i \in DOMAIN m THEN m[i] ELSE Null
    BY HeaderAt
  <2>1. CASE i \in 1 .. N
    BY <1>18, <2>0, <2>1
  <2>2. CASE i \notin 1 .. N
    <3>1. i = 16 /\ n.BaseFee = Null
      BY <1>1, <2>2
    <3>2. headerPackFuncs[i] = "BaseFee" /\ "BaseFee" \in HeaderFields
      BY <3>1, HeaderFieldAt
    <3>3. h["BaseFee"] = Null
      BY <3>1, <3>2, HeaderMeans DEF h
    <3> QED
      BY <1>18, <2>0, <2>2, <3>2, <3>3
  <2> QED
    BY <2>1, <2>2
<1>20. DecodeHeader(m) = h
  <2>1. DecodeHeader(m) = [f \in HeaderFields |-> DecodeHeader(m)[f]]
    BY HeaderMaps
  <2>2. h = [f \in HeaderFields |-> h[f]]
    BY HeaderMaps DEF h
  <2> QED
    BY <1>19, <2>1, <2>2, HeadersEqual
<1>21. DecodeHeaderBytes(List(k)) = Ok(h)
  BY <1>13, <1>17, <1>20, OkIsOk DEF DecodeHeaderBytes, Then
<1> QED
  BY <1>1, <1>6, <1>9, <1>12, <1>21 DEF h

(* Only the base fee may be missing. *)
LEMMA HeaderNeeds ==
    ASSUME NEW f \in HeaderFields, f # "BaseFee"
    PROVE  ~HeaderFieldOk(f, Null)
<1>1. ~IsBytes(Null) /\ (\A k : ~Sized(Null, k)) /\ (\A c : ~HashLink(Null, c))
      /\ ~IsInteger(Null)
  BY DEF IsBytes, Null, Sized, HashLink, IsInteger
<1>2. CASE f \in DOMAIN LinkCodec
  BY <1>1, <1>2, HeaderKindLink
<1>3. CASE f = "Coinbase" \/ f = "Bloom"
  BY <1>1, <1>3, HeaderKindCoinbase, HeaderKindBloom
<1>4. CASE f \in HeaderBigInts
  BY <1>1, <1>4, HeaderLinks DEF HeaderFieldOk, HeaderBigInts
<1>5. CASE f \in HeaderUints \/ f = "Nonce"
  BY <1>1, <1>5, HeaderKindUint, HeaderKindNonce
<1>6. CASE f = "Extra" \/ f = "MixDigest"
  BY <1>1, <1>6, HeaderKindExtra, HeaderKindMixDigest
<1> QED
  BY <1>2, <1>3, <1>4, <1>5, <1>6, HeaderFieldNames

LEMMA HeaderKept ==
    ASSUME NEW n, SomeHeader(n), WellFormedHeader(n), NonCid \notin LinkNames
    PROVE  EncodeHeader(n).st = "ok" /\ NormalHeader(n) = n
<1> DEFINE N == PackedFields(n)
           calls == [i \in 1 .. N |-> packHeaderField(n, headerPackFuncs[i])]
<1>1. N \in 15 .. 16 /\ N \in Nat /\ (N = 15 <=> n.BaseFee = Null)
  BY PackedCount
<1>2. EncodeHeader(n) = Then(InOrder(calls), List)
  BY DEF EncodeHeader
<1> HIDE DEF N
<1>3. DOMAIN calls = 1 .. N
  OBVIOUS
<1>4. \A i \in 1 .. N : calls[i] = packHeaderField(n, headerPackFuncs[i])
  OBVIOUS
<1> HIDE DEF calls
<1>5. ASSUME NEW i \in 1 .. 16
      PROVE  /\ headerPackFuncs[i] \in HeaderFields
             /\ n[headerPackFuncs[i]] = Null => i = 16 /\ n.BaseFee = Null
  <2>1. headerPackFuncs[i] \in HeaderFields /\ (headerPackFuncs[i] = "BaseFee" <=> i = 16)
    BY HeaderFieldAt
  <2>2. HeaderFieldOk(headerPackFuncs[i], n[headerPackFuncs[i]])
    BY <2>1, HeaderMeans
  <2> QED
    BY <2>1, <2>2, HeaderNeeds
<1>6. ASSUME NEW i \in 1 .. N
      PROVE  calls[i].st = "ok"
  <2>1. i \in 1 .. 16 /\ ~(i = 16 /\ n.BaseFee = Null)
    BY <1>1
  <2> QED
    BY <1>4, <1>5, <2>1, HeaderFieldKept
<1>7. Then(InOrder(calls), List) = Ok(List([i \in 1 .. N |-> calls[i].x]))
  BY <1>1, <1>3, <1>6, ListCalls
<1>8. EncodeHeader(n).st = "ok"
  BY <1>2, <1>7, OkIsOk
<1>9. ASSUME NEW i \in 1 .. 16
      PROVE  NormalHeader(n)[headerPackFuncs[i]] = n[headerPackFuncs[i]]
  BY <1>5, HeaderMeans, HeaderFieldKept
<1>10. n = [f \in HeaderFields |-> n[f]]
  BY DEF SomeHeader
<1>11. NormalHeader(n) = n
  BY <1>9, <1>10, HeaderMaps, HeadersEqual
<1> QED
  BY <1>8, <1>11

(* The hash of the withdrawals, the seventeenth item, would be lost. *)
LEMMA HeaderLoads ==
    ASSUME NEW b, Flat(b), DecodeHeaderBytes(b).st = "ok", Len(b.l) # 17,
           NonCid \notin LinkNames
    PROVE  LET n == DecodeHeaderBytes(b).x
           IN  SomeHeader(n) /\ WellFormedHeader(n) /\ EncodeHeader(n) = Ok(b)
<1> DEFINE l == b.l
           N == Len(l)
           q == [i \in DOMAIN l |-> IF i = Required + 2 THEN FromHash(l[i])
                                    ELSE ReadHeaderField(headerPackFuncs[i], l[i])]
           m == [i \in 1 .. N |-> q[i].x]
           n == DecodeHeader(m)
<1>1. ReadHeader(b).st = "ok" /\ DecodeHeaderBytes(b) = Ok(DecodeHeader(ReadHeader(b).x))
  BY DEF DecodeHeaderBytes, Then
<1>2. IsList(b) /\ Len(l) \in Required .. Required + 2 /\ ReadHeader(b) = InOrder(q)
  BY <1>1, Failures DEF ReadHeader
<1>3. N \in Nat /\ N \in 15 .. 16
  <2>1. Len(l) # 17
    OBVIOUS
  <2> QED
    BY <1>2, <2>1 DEF Required
<1>4. b = List(l) /\ Tuple(l) /\ DOMAIN l = 1 .. N
  BY <1>2, TupleFacts DEF Flat
<1>5. \A i \in 1 .. N : Sound(l[i])
  BY <1>2 DEF Flat
<1> HIDE DEF l, N
<1>6. DOMAIN q = 1 .. N
  BY <1>4
<1>7. \A i \in 1 .. N : q[i] = ReadHeaderField(headerPackFuncs[i], l[i])
  <2>1. \A i \in 1 .. N : q[i] = IF i = Required + 2 THEN FromHash(l[i])
                                    ELSE ReadHeaderField(headerPackFuncs[i], l[i])
    BY <1>4
  <2>2. \A i \in 1 .. N : ~(i = Required + 2)
    BY <1>3, ReadCount
  <2> QED
    BY <2>1, <2>2
<1> HIDE DEF q
<1>8. \A i \in 1 .. N : q[i].st = "ok"
  BY <1>1, <1>2, <1>3, <1>6, AllOk
<1>9. InOrder(q) = Ok(m)
  BY <1>3, <1>6, <1>8, InOrderEnds
<1>10. DOMAIN m = 1 .. N /\ \A i \in 1 .. N : m[i] = q[i].x
  OBVIOUS
<1>11. DecodeHeaderBytes(b).x = n
  BY <1>1, <1>2, <1>9, OkIsOk
<1> HIDE DEF m
<1>12. n = [f \in HeaderFields |-> n[f]]
  BY HeaderMaps
<1>13. \A i \in 1 .. 16 : n[headerPackFuncs[i]] = IF i \in 1 .. N THEN m[i] ELSE Null
  BY <1>10, HeaderAt
<1> HIDE DEF n
<1>14. ASSUME NEW i \in 1 .. N, NEW f, f = headerPackFuncs[i]
       PROVE  /\ IF f \in DOMAIN LinkCodec THEN SomeCid(n[f]) ELSE Sound(n[f])
              /\ n[f] # Null /\ HeaderFieldOk(f, n[f])
              /\ packHeaderField(n, f) = Ok(l[i])
  <2>1. f \in HeaderFields /\ i \in 1 .. 16
    BY <1>3, <1>14, HeaderFieldAt
  <2>2. Sound(l[i]) /\ ReadHeaderField(f, l[i]).st = "ok"
    BY <1>5, <1>7, <1>8, <1>14
  <2>3. n[f] = ReadHeaderField(f, l[i]).x
    BY <1>7, <1>10, <1>13, <1>14, <2>1
  <2> QED
    BY <2>1, <2>2, <2>3, HeaderFieldLoads
<1>15. ASSUME NEW i \in 1 .. 16, i \notin 1 .. N
       PROVE  headerPackFuncs[i] = "BaseFee" /\ n.BaseFee = Null
  <2>1. i = 16
    BY <1>3, <1>15
  <2> QED
    BY <1>13, <1>15, <2>1, HeaderFieldAt
<1>16. "BaseFee" \notin DOMAIN LinkCodec /\ Sound(Null) /\ HeaderFieldOk("BaseFee", Null)
  <2>1. "BaseFee" \notin DOMAIN LinkCodec
    BY HeaderLinks
  <2>2. HeaderFieldOk("BaseFee", Null)
    BY HeaderLinks DEF HeaderFieldOk, HeaderBigInts, HeaderUints
  <2> QED
    BY <2>1, <2>2 DEF Sound, IsBytes, Null
<1>17. ASSUME NEW f \in HeaderFields
       PROVE  /\ IF f \in DOMAIN LinkCodec THEN SomeCid(n[f]) ELSE Sound(n[f])
              /\ HeaderFieldOk(f, n[f])
  <2>1. PICK i \in 1 .. 16 : headerPackFuncs[i] = f
    BY HeaderFieldAt
  <2>2. CASE i \in 1 .. N
    BY <1>14, <2>1, <2>2
  <2>3. CASE i \notin 1 .. N
    BY <1>15, <1>16, <2>1, <2>3
  <2> QED
    BY <2>2, <2>3
<1>18. SomeHeader(n)
  BY <1>12, <1>17 DEF SomeHeader
<1>19. WellFormedHeader(n)
  BY <1>17 DEF WellFormedHeader, HeaderFieldOk
<1>20. PackedFields(n) = N
  <2>1. CASE N = 15
    <3>1. n.BaseFee = Null
      <4>1. 16 \in 1 .. 16 /\ 16 \notin 1 .. N
        BY <2>1
      <4> QED
        BY <4>1, <1>15
    <3> QED
      BY <2>1, <3>1, PackedCount
  <2>2. CASE N = 16
    <3>1. n.BaseFee # Null
      <4>1. 16 \in 1 .. N /\ headerPackFuncs[16] = "BaseFee"
        BY <2>2, HeaderOrder
      <4> QED
        BY <4>1, <1>14
    <3> QED
      BY <2>2, <3>1, PackedCount
  <2> QED
    BY <1>3, <2>1, <2>2
<1> DEFINE c == [i \in 1 .. N |-> packHeaderField(n, headerPackFuncs[i])]
<1>21. EncodeHeader(n) = Then(InOrder(c), List)
  BY <1>20 DEF EncodeHeader
<1>22. DOMAIN c = 1 .. N /\ \A i \in 1 .. N : c[i] = Ok(l[i])
  BY <1>14
<1> HIDE DEF c
<1>23. \A i \in 1 .. N : c[i].st = "ok" /\ c[i].x = l[i]
  BY <1>22, OkIsOk
<1>24. [i \in 1 .. N |-> c[i].x] = [i \in 1 .. N |-> l[i]]
  BY <1>23
<1>25. Then(InOrder(c), List) = Ok(List([i \in 1 .. N |-> c[i].x]))
  BY <1>3, <1>22, <1>23, ListCalls
<1>26. l = [i \in 1 .. N |-> l[i]]
  BY <1>4 DEF Tuple, N
<1>27. EncodeHeader(n) = Ok(b)
  BY <1>4, <1>21, <1>24, <1>25, <1>26
<1> QED
  BY <1>11, <1>18, <1>19, <1>27

----------------------------------------------------------------------------
(* Lists of headers, of logs, of elements of an access list.               *)

Listed(x) == IsList(x) /\ x = List(x.l) /\ Tuple(x.l)

(* A header's item without the hash of the withdrawals. *)
HeaderItem(x) == Flat(x) /\ (IsList(x) => Len(x.l) # 17)

LEMMA HeaderItemStores ==
    ASSUME NEW n, SomeHeader(n), EncodeHeader(n).st = "ok", NonCid \notin LinkNames
    PROVE  LET b == EncodeHeader(n).x
           IN  HeaderItem(b) /\ DecodeHeaderBytes(b) = Ok(NormalHeader(n))
<1> DEFINE b == EncodeHeader(n).x
<1>1. Flat(b) /\ IsList(b) /\ Len(b.l) \in 15 .. 16
      /\ DecodeHeaderBytes(b) = Ok(NormalHeader(n))
  BY HeaderStores
<1> HIDE DEF b
<1>2. Len(b.l) # 17
  BY <1>1
<1> QED
  BY <1>1, <1>2 DEF HeaderItem, b

LEMMA HeaderItemLoads ==
    ASSUME NEW b, HeaderItem(b), DecodeHeaderBytes(b).st = "ok",
           NonCid \notin LinkNames
    PROVE  LET n == DecodeHeaderBytes(b).x
           IN  SomeHeader(n) /\ WellFormedHeader(n) /\ EncodeHeader(n) = Ok(b)
<1>1. IsList(b)
  BY Failures DEF DecodeHeaderBytes, Then, ReadHeader
<1> QED
  BY <1>1, HeaderLoads DEF HeaderItem

LEMMA HeadersStore ==
    ASSUME NEW x, Listed(x), \A i \in 1 .. Len(x.l) : SomeHeader(x.l[i]),
           Elements(x, EncodeHeader).st = "ok", NonCid \notin LinkNames
    PROVE  LET y == Elements(x, EncodeHeader).x
           IN  /\ Listed(y) /\ \A i \in 1 .. Len(y.l) : HeaderItem(y.l[i])
               /\ FromList(y, DecodeHeaderBytes) =
                      Ok(List([i \in DOMAIN x.l |-> NormalHeader(x.l[i])]))
<1> DEFINE l == x.l
           N == Len(l)
           calls == [i \in DOMAIN l |-> EncodeHeader(l[i])]
<1>1. N \in Nat /\ DOMAIN l = 1 .. N /\ \A i \in 1 .. N : SomeHeader(l[i])
  BY TupleFacts DEF Listed
<1> HIDE DEF l, N
<1>2. Elements(x, EncodeHeader) = Then(InOrder(calls), List)
  BY DEF Elements, l
<1>3. DOMAIN calls = 1 .. N /\ \A i \in 1 .. N : calls[i] = EncodeHeader(l[i])
  BY <1>1
<1> HIDE DEF calls
<1>4. \A i \in 1 .. N : calls[i].st = "ok"
  BY <1>1, <1>2, <1>3, ListCallsOk
<1> DEFINE k == [i \in 1 .. N |-> calls[i].x]
<1>5. Elements(x, EncodeHeader) = Ok(List(k))
  BY <1>1, <1>2, <1>3, <1>4, ListCalls
<1>6. \A i \in 1 .. N : k[i] = calls[i].x
  OBVIOUS
<1>7. k = [i \in 1 .. N |-> k[i]]
  OBVIOUS
<1> HIDE DEF k
<1>8. Len(k) = N /\ Tuple(k) /\ DOMAIN k = 1 .. N
  BY <1>1, <1>7, TupleOf
<1>9. ASSUME NEW i \in 1 .. N
      PROVE  HeaderItem(k[i]) /\ DecodeHeaderBytes(k[i]) = Ok(NormalHeader(l[i]))
  <2>1. SomeHeader(l[i]) /\ EncodeHeader(l[i]).st = "ok" /\ k[i] = EncodeHeader(l[i]).x
    BY <1>1, <1>3, <1>4, <1>6
  <2> QED
    BY <2>1, HeaderItemStores
<1>10. List(k).l = k /\ IsList(List(k)) /\ Listed(List(k))
  BY <1>8, ThenEnds DEF Listed
<1> DEFINE back == [i \in DOMAIN k |-> DecodeHeaderBytes(k[i])]
<1>11. DOMAIN back = 1 .. N /\ \A i \in 1 .. N : back[i] = DecodeHeaderBytes(k[i])
  BY <1>8
<1>12. FromList(List(k), DecodeHeaderBytes) = Then(InOrder(back), List)
  BY <1>10 DEF FromList, Elements
<1> HIDE DEF back
<1>13. \A i \in 1 .. N : back[i].st = "ok" /\ back[i].x = NormalHeader(l[i])
  BY <1>9, <1>11, OkIsOk
<1>14. [i \in 1 .. N |-> back[i].x] = [i \in 1 .. N |-> NormalHeader(l[i])]
  BY <1>13
<1>15. Then(InOrder(back), List) = Ok(List([i \in 1 .. N |-> back[i].x]))
  BY <1>1, <1>11, <1>13, ListCalls
<1>16. FromList(List(k), DecodeHeaderBytes) = Ok(List([i \in DOMAIN l |-> NormalHeader(l[i])]))
  BY <1>1, <1>12, <1>14, <1>15
<1>17. Elements(x, EncodeHeader).x = List(k)
  BY <1>5, OkIsOk
<1>18. \A i \in 1 .. Len(k) : HeaderItem(k[i])
  BY <1>8, <1>9
<1> QED
  BY <1>10, <1>16, <1>17, <1>18 DEF l

LEMMA HeadersKeep ==
    ASSUME NEW x, Listed(x), \A i \in 1 .. Len(x.l) : SomeHeader(x.l[i]),
           \A i \in DOMAIN x.l : WellFormedHeader(x.l[i]), NonCid \notin LinkNames
    PROVE  /\ Elements(x, EncodeHeader).st = "ok"
           /\ List([i \in DOMAIN x.l |-> NormalHeader(x.l[i])]) = x
<1> DEFINE l == x.l
           N == Len(l)
           calls == [i \in DOMAIN l |-> EncodeHeader(l[i])]
<1>1. N \in Nat /\ DOMAIN l = 1 .. N
  BY TupleFacts DEF Listed
<1>2. \A i \in 1 .. N : SomeHeader(l[i]) /\ WellFormedHeader(l[i])
  BY <1>1
<1>3. x = List(l) /\ l = [i \in 1 .. N |-> l[i]]
  BY DEF Listed, Tuple
<1> HIDE DEF l, N
<1>4. Elements(x, EncodeHeader) = Then(InOrder(calls), List)
  BY DEF Elements, l
<1>5. DOMAIN calls = 1 .. N /\ \A i \in 1 .. N : calls[i] = EncodeHeader(l[i])
  BY <1>1
<1> HIDE DEF calls
<1>6. \A i \in 1 .. N : EncodeHeader(l[i]).st = "ok" /\ NormalHeader(l[i]) = l[i]
  BY <1>2, HeaderKept
<1>7. Elements(x, EncodeHeader).st = "ok"
  <2>1. \A i \in 1 .. N : calls[i].st = "ok"
    BY <1>5, <1>6
  <2>2. Then(InOrder(calls), List) = Ok(List([i \in 1 .. N |-> calls[i].x]))
    BY <1>1, <1>5, <2>1, ListCalls
  <2> QED
    BY <1>4, <2>2, OkIsOk
<1>8. [i \in DOMAIN l |-> NormalHeader(l[i])] = [i \in 1 .. N |-> l[i]]
  BY <1>1, <1>6
<1> QED
  BY <1>3, <1>7, <1>8 DEF l

LEMMA HeadersLoad ==
    ASSUME NEW x, IsList(x) => Listed(x),
           IsList(x) => \A i \in 1 .. Len(x.l) : HeaderItem(x.l[i]),
           FromList(x, DecodeHeaderBytes).st = "ok", NonCid \notin LinkNames
    PROVE  LET n == FromList(x, DecodeHeaderBytes).x
           IN  /\ Listed(n) /\ \A i \in 1 .. Len(n.l) : SomeHeader(n.l[i])
               /\ \A i \in DOMAIN n.l : WellFormedHeader(n.l[i])
               /\ Elements(n, EncodeHeader) = Ok(x)
<1> DEFINE l == x.l
           N == Len(l)
           calls == [i \in DOMAIN l |-> DecodeHeaderBytes(l[i])]
<1>1. IsList(x) /\ FromList(x, DecodeHeaderBytes) = Then(InOrder(calls), List)
  BY Failures DEF FromList, Elements
<1>2. N \in Nat /\ DOMAIN l = 1 .. N /\ \A i \in 1 .. N : HeaderItem(l[i])
  BY <1>1, TupleFacts DEF Listed
<1>3. x = List(l) /\ l = [i \in 1 .. N |-> l[i]]
  BY <1>1 DEF Listed, Tuple
<1> HIDE DEF l, N
<1>4. DOMAIN calls = 1 .. N /\ \A i \in 1 .. N : calls[i] = DecodeHeaderBytes(l[i])
  BY <1>2
<1> HIDE DEF calls
<1>5. \A i \in 1 .. N : calls[i].st = "ok"
  BY <1>1, <1>2, <1>4, ListCallsOk
<1> DEFINE k == [i \in 1 .. N |-> calls[i].x]
<1>6. FromList(x, DecodeHeaderBytes) = Ok(List(k))
  BY <1>1, <1>2, <1>4, <1>5, ListCalls
<1>7. \A i \in 1 .. N : k[i] = calls[i].x
  OBVIOUS
<1>8. k = [i \in 1 .. N |-> k[i]]
  OBVIOUS
<1> HIDE DEF k
<1>9. Len(k) = N /\ Tuple(k) /\ DOMAIN k = 1 .. N
  BY <1>2, <1>8, TupleOf
<1>10. ASSUME NEW i \in 1 .. N
       PROVE  SomeHeader(k[i]) /\ WellFormedHeader(k[i]) /\ EncodeHeader(k[i]) = Ok(l[i])
  <2>1. HeaderItem(l[i]) /\ DecodeHeaderBytes(l[i]).st = "ok" /\ k[i] = DecodeHeaderBytes(l[i]).x
    BY <1>2, <1>4, <1>5, <1>7
  <2> QED
    BY <2>1, HeaderItemLoads
<1>11. List(k).l = k /\ IsList(List(k)) /\ Listed(List(k))
  BY <1>9, ThenEnds DEF Listed
<1> DEFINE packs == [i \in DOMAIN k |-> EncodeHeader(k[i])]
<1>12. DOMAIN packs = 1 .. N /\ \A i \in 1 .. N : packs[i] = EncodeHeader(k[i])
  BY <1>9
<1>13. Elements(List(k), EncodeHeader) = Then(InOrder(packs), List)
  BY <1>11 DEF Elements
<1> HIDE DEF packs
<1>14. \A i \in 1 .. N : packs[i].st = "ok" /\ packs[i].x = l[i]
  BY <1>10, <1>12, OkIsOk
<1>15. [i \in 1 .. N |-> packs[i].x] = [i \in 1 .. N |-> l[i]]
  BY <1>14
<1>16. Then(InOrder(packs), List) = Ok(List([i \in 1 .. N |-> packs[i].x]))
  BY <1>2, <1>12, <1>14, ListCalls
<1>17. Elements(List(k), EncodeHeader) = Ok(x)
  BY <1>3, <1>13, <1>15, <1>16
<1>18. FromList(x, DecodeHeaderBytes).x = List(k)
  BY <1>6, OkIsOk
<1>19. (\A i \in 1 .. Len(k) : SomeHeader(k[i])) /\ \A i \in DOMAIN k : WellFormedHeader(k[i])
  BY <1>9, <1>10
<1> QED
  BY <1>11, <1>17, <1>18, <1>19

LEMMA LogsStore ==
    ASSUME NEW x, Listed(x), \A i \in 1 .. Len(x.l) : SomeLog(x.l[i]),
           Elements(x, EncodeLog).st = "ok"
    PROVE  LET y == Elements(x, EncodeLog).x
           IN  /\ Listed(y) /\ \A i \in 1 .. Len(y.l) : Nested(y.l[i])
               /\ FromList(y, DecodeLogBytes) =
                      Ok(List([i \in DOMAIN x.l |-> NormalLog(x.l[i])]))
<1> DEFINE l == x.l
           N == Len(l)
           calls == [i \in DOMAIN l |-> EncodeLog(l[i])]
<1>1. N \in Nat /\ DOMAIN l = 1 .. N /\ \A i \in 1 .. N : SomeLog(l[i])
  BY TupleFacts DEF Listed
<1> HIDE DEF l, N
<1>2. Elements(x, EncodeLog) = Then(InOrder(calls), List)
  BY DEF Elements, l
<1>3. DOMAIN calls = 1 .. N /\ \A i \in 1 .. N : calls[i] = EncodeLog(l[i])
  BY <1>1
<1> HIDE DEF calls
<1>4. \A i \in 1 .. N : calls[i].st = "ok"
  BY <1>1, <1>2, <1>3, ListCallsOk
<1> DEFINE k == [i \in 1 .. N |-> calls[i].x]
<1>5. Elements(x, EncodeLog) = Ok(List(k))
  BY <1>1, <1>2, <1>3, <1>4, ListCalls
<1>6. \A i \in 1 .. N : k[i] = calls[i].x
  OBVIOUS
<1>7. k = [i \in 1 .. N |-> k[i]]
  OBVIOUS
<1> HIDE DEF k
<1>8. Len(k) = N /\ Tuple(k) /\ DOMAIN k = 1 .. N
  BY <1>1, <1>7, TupleOf
<1>9. ASSUME NEW i \in 1 .. N
      PROVE  Nested(k[i]) /\ DecodeLogBytes(k[i]) = Ok(NormalLog(l[i]))
  <2>1. SomeLog(l[i]) /\ EncodeLog(l[i]).st = "ok" /\ k[i] = EncodeLog(l[i]).x
    BY <1>1, <1>3, <1>4, <1>6
  <2> QED
    BY <2>1, LogStores
<1>10. List(k).l = k /\ IsList(List(k)) /\ Listed(List(k))
  BY <1>8, ThenEnds DEF Listed
<1> DEFINE back == [i \in DOMAIN k |-> DecodeLogBytes(k[i])]
<1>11. DOMAIN back = 1 .. N /\ \A i \in 1 .. N : back[i] = DecodeLogBytes(k[i])
  BY <1>8
<1>12. FromList(List(k), DecodeLogBytes) = Then(InOrder(back), List)
  BY <1>10 DEF FromList, Elements
<1> HIDE DEF back
<1>13. \A i \in 1 .. N : back[i].st = "ok" /\ back[i].x = NormalLog(l[i])
  BY <1>9, <1>11, OkIsOk
<1>14. [i \in 1 .. N |-> back[i].x] = [i \in 1 .. N |-> NormalLog(l[i])]
  BY <1>13
<1>15. Then(InOrder(back), List) = Ok(List([i \in 1 .. N |-> back[i].x]))
  BY <1>1, <1>11, <1>13, ListCalls
<1>16. FromList(List(k), DecodeLogBytes) = Ok(List([i \in DOMAIN l |-> NormalLog(l[i])]))
  BY <1>1, <1>12, <1>14, <1>15
<1>17. Elements(x, EncodeLog).x = List(k)
  BY <1>5, OkIsOk
<1>18. \A i \in 1 .. Len(k) : Nested(k[i])
  BY <1>8, <1>9
<1> QED
  BY <1>10, <1>16, <1>17, <1>18 DEF l

LEMMA LogsKeep ==
    ASSUME NEW x, Listed(x), \A i \in 1 .. Len(x.l) : SomeLog(x.l[i]),
           \A i \in DOMAIN x.l : WellFormedLog(x.l[i])
    PROVE  /\ Elements(x, EncodeLog).st = "ok"
           /\ List([i \in DOMAIN x.l |-> NormalLog(x.l[i])]) = x
<1> DEFINE l == x.l
           N == Len(l)
           calls == [i \in DOMAIN l |-> EncodeLog(l[i])]
<1>1. N \in Nat /\ DOMAIN l = 1 .. N
  BY TupleFacts DEF Listed
<1>2. \A i \in 1 .. N : SomeLog(l[i]) /\ WellFormedLog(l[i])
  BY <1>1
<1>3. x = List(l) /\ l = [i \in 1 .. N |-> l[i]]
  BY DEF Listed, Tuple
<1> HIDE DEF l, N
<1>4. Elements(x, EncodeLog) = Then(InOrder(calls), List)
  BY DEF Elements, l
<1>5. DOMAIN calls = 1 .. N /\ \A i \in 1 .. N : calls[i] = EncodeLog(l[i])
  BY <1>1
<1> HIDE DEF calls
<1>6. \A i \in 1 .. N : EncodeLog(l[i]).st = "ok" /\ NormalLog(l[i]) = l[i]
  BY <1>2, LogKept
<1>7. Elements(x, EncodeLog).st = "ok"
  <2>1. \A i \in 1 .. N : calls[i].st = "ok"
    BY <1>5, <1>6
  <2>2. Then(InOrder(calls), List) = Ok(List([i \in 1 .. N |-> calls[i].x]))
    BY <1>1, <1>5, <2>1, ListCalls
  <2> QED
    BY <1>4, <2>2, OkIsOk
<1>8. [i \in DOMAIN l |-> NormalLog(l[i])] = [i \in 1 .. N |-> l[i]]
  BY <1>1, <1>6
<1> QED
  BY <1>3, <1>7, <1>8 DEF l

LEMMA LogsLoad ==
    ASSUME NEW x, IsList(x) => Listed(x),
           IsList(x) => \A i \in 1 .. Len(x.l) : Nested(x.l[i]),
           FromList(x, DecodeLogBytes).st = "ok"
    PROVE  LET n == FromList(x, DecodeLogBytes).x
           IN  /\ Listed(n) /\ \A i \in 1 .. Len(n.l) : SomeLog(n.l[i])
               /\ \A i \in DOMAIN n.l : WellFormedLog(n.l[i])
               /\ Elements(n, EncodeLog) = Ok(x)
<1> DEFINE l == x.l
           N == Len(l)
           calls == [i \in DOMAIN l |-> DecodeLogBytes(l[i])]
<1>1. IsList(x) /\ FromList(x, DecodeLogBytes) = Then(InOrder(calls), List)
  BY Failures DEF FromList, Elements
<1>2. N \in Nat /\ DOMAIN l = 1 .. N /\ \A i \in 1 .. N : Nested(l[i])
  BY <1>1, TupleFacts DEF Listed
<1>3. x = List(l) /\ l = [i \in 1 .. N |-> l[i]]
  BY <1>1 DEF Listed, Tuple
<1> HIDE DEF l, N
<1>4. DOMAIN calls = 1 .. N /\ \A i \in 1 .. N : calls[i] = DecodeLogBytes(l[i])
  BY <1>2
<1> HIDE DEF calls
<1>5. \A i \in 1 .. N : calls[i].st = "ok"
  BY <1>1, <1>2, <1>4, ListCallsOk
<1> DEFINE k == [i \in 1 .. N |-> calls[i].x]
<1>6. FromList(x, DecodeLogBytes) = Ok(List(k))
  BY <1>1, <1>2, <1>4, <1>5, ListCalls
<1>7. \A i \in 1 .. N : k[i] = calls[i].x
  OBVIOUS
<1>8. k = [i \in 1 .. N |-> k[i]]
  OBVIOUS
<1> HIDE DEF k
<1>9. Len(k) = N /\ Tuple(k) /\ DOMAIN k = 1 .. N
  BY <1>2, <1>8, TupleOf
<1>10. ASSUME NEW i \in 1 .. N
       PROVE  SomeLog(k[i]) /\ WellFormedLog(k[i]) /\ EncodeLog(k[i]) = Ok(l[i])
  <2>1. Nested(l[i]) /\ DecodeLogBytes(l[i]).st = "ok" /\ k[i] = DecodeLogBytes(l[i]).x
    BY <1>2, <1>4, <1>5, <1>7
  <2> QED
    BY <2>1, LogLoads
<1>11. List(k).l = k /\ IsList(List(k)) /\ Listed(List(k))
  BY <1>9, ThenEnds DEF Listed
<1> DEFINE packs == [i \in DOMAIN k |-> EncodeLog(k[i])]
<1>12. DOMAIN packs = 1 .. N /\ \A i \in 1 .. N : packs[i] = EncodeLog(k[i])
  BY <1>9
<1>13. Elements(List(k), EncodeLog) = Then(InOrder(packs), List)
  BY <1>11 DEF Elements
<1> HIDE DEF packs
<1>14. \A i \in 1 .. N : packs[i].st = "ok" /\ packs[i].x = l[i]
  BY <1>10, <1>12, OkIsOk
<1>15. [i \in 1 .. N |-> packs[i].x] = [i \in 1 .. N |-> l[i]]
  BY <1>14
<1>16. Then(InOrder(packs), List) = Ok(List([i \in 1 .. N |-> packs[i].x]))
  BY <1>2, <1>12, <1>14, ListCalls
<1>17. Elements(List(k), EncodeLog) = Ok(x)
  BY <1>3, <1>13, <1>15, <1>16
<1>18. FromList(x, DecodeLogBytes).x = List(k)
  BY <1>6, OkIsOk
<1>19. (\A i \in 1 .. Len(k) : SomeLog(k[i])) /\ \A i \in DOMAIN k : WellFormedLog(k[i])
  BY <1>9, <1>10
<1> QED
  BY <1>11, <1>17, <1>18, <1>19

----------------------------------------------------------------------------
(* Uncles (uncles/).                                                       *)

SomeUncles(n) ==
    /\ n.is \in {"list", "map", "scalar"}
    /\ IsList(n) => Listed(n) /\ \A i \in 1 .. Len(n.l) : SomeHeader(n.l[i])

UnclesBlock(b) ==
    IsList(b) => Listed(b) /\ \A i \in 1 .. Len(b.l) : HeaderItem(b.l[i])

LEMMA UnclesStores ==
    ASSUME NEW n, SomeUncles(n), EncodeUncles(n).st = "ok", NonCid \notin LinkNames
    PROVE  LET b == EncodeUncles(n).x
           IN  UnclesBlock(b) /\ IsList(b) /\ DecodeUncles(b) = Ok(NormalUncles(n))
<1>1. IsList(n) /\ EncodeUncles(n) = Elements(n, EncodeHeader)
  <2>1. n.is = "list"
    BY Failures DEF EncodeUncles, SomeUncles
  <2> QED
    BY <2>1 DEF EncodeUncles, IsList
<1>2. Listed(n) /\ \A i \in 1 .. Len(n.l) : SomeHeader(n.l[i])
  BY <1>1 DEF SomeUncles
<1> DEFINE b == Elements(n, EncodeHeader).x
<1>3. /\ Listed(b) /\ \A i \in 1 .. Len(b.l) : HeaderItem(b.l[i])
      /\ FromList(b, DecodeHeaderBytes) =
             Ok(List([i \in DOMAIN n.l |-> NormalHeader(n.l[i])]))
  BY <1>1, <1>2, HeadersStore
<1> HIDE DEF b
<1>4. UnclesBlock(b) /\ IsList(b) /\ DecodeUncles(b) = Ok(NormalUncles(n))
  BY <1>3 DEF UnclesBlock, Listed, DecodeUncles, NormalUncles
<1> QED
  BY <1>1, <1>4 DEF b

LEMMA UnclesKept ==
    ASSUME NEW n, SomeUncles(n), WellFormedUncles(n), NonCid \notin LinkNames
    PROVE  EncodeUncles(n).st = "ok" /\ NormalUncles(n) = n
<1>1. IsList(n) /\ EncodeUncles(n) = Elements(n, EncodeHeader)
  BY DEF WellFormedUncles, IsList, EncodeUncles
<1>2. Listed(n) /\ \A i \in 1 .. Len(n.l) : SomeHeader(n.l[i])
  BY <1>1 DEF SomeUncles
<1>3. \A i \in DOMAIN n.l : WellFormedHeader(n.l[i])
  BY DEF WellFormedUncles
<1> QED
  BY <1>1, <1>2, <1>3, HeadersKeep DEF NormalUncles

LEMMA UnclesLoads ==
    ASSUME NEW b, UnclesBlock(b), DecodeUncles(b).st = "ok", NonCid \notin LinkNames
    PROVE  LET n == DecodeUncles(b).x
           IN  SomeUncles(n) /\ WellFormedUncles(n) /\ EncodeUncles(n) = Ok(b)
<1> DEFINE n == FromList(b, DecodeHeaderBytes).x
<1>1. DecodeUncles(b) = FromList(b, DecodeHeaderBytes)
  BY DEF DecodeUncles
<1>2. IsList(b) => Listed(b)
  BY DEF UnclesBlock
<1>3. IsList(b) => \A i \in 1 .. Len(b.l) : HeaderItem(b.l[i])
  BY DEF UnclesBlock
<1>4. /\ Listed(n) /\ \A i \in 1 .. Len(n.l) : SomeHeader(n.l[i])
      /\ \A i \in DOMAIN n.l : WellFormedHeader(n.l[i])
      /\ Elements(n, EncodeHeader) = Ok(b)
  BY <1>1, <1>2, <1>3, HeadersLoad
<1> HIDE DEF n
<1>5. IsList(n) /\ n.is = "list"
  BY <1>4 DEF Listed, IsList
<1>6. EncodeUncles(n) = Ok(b)
  BY <1>4, <1>5 DEF EncodeUncles
<1>7. SomeUncles(n) /\ WellFormedUncles(n)
  BY <1>4, <1>5 DEF SomeUncles, WellFormedUncles
<1> QED
  BY <1>1, <1>6, <1>7 DEF n

----------------------------------------------------------------------------
(* The envelope (shared.GetTxType).                                        *)

LEMMA TypeLaw ==
    ASSUME NEW n, Sound(n.TxType)
    PROVE  /\ GetTxType(n).st = "ok" =>
                /\ n.TxType = Bytes(<<GetTxType(n).x>>)
                /\ n.TxType.b[1] = GetTxType(n).x
                /\ GetTxType(n).x \in Octet
           /\ \A t \in Octet : n.TxType = Bytes(<<t>>) => GetTxType(n) = Ok(t)
<1> DEFINE x == n.TxType
<1>1. IsBytes(x) => x.b \in ByteSeq /\ x = Bytes(x.b)
  BY StrIsBytes DEF Sound
<1>2. GetTxType(n) = IF IsBytes(x) THEN (IF Len(x.b) = 1 THEN Ok(x.b[1]) ELSE Err)
                     ELSE Err
  BY DEF GetTxType, AsBytes
<1> HIDE DEF x
<1>3. ASSUME GetTxType(n).st = "ok"
      PROVE  x = Bytes(<<GetTxType(n).x>>) /\ x.b[1] = GetTxType(n).x
             /\ GetTxType(n).x \in Octet
  <2>1. IsBytes(x) /\ Len(x.b) = 1 /\ GetTxType(n).x = x.b[1]
    BY <1>2, <1>3, Failures, OkIsOk
  <2>2. x.b = <<x.b[1]>> /\ x.b[1] \in Octet
    BY <1>1, <2>1 DEF ByteSeq
  <2> QED
    BY <1>1, <2>1, <2>2
<1>4. ASSUME NEW t \in Octet, x = Bytes(<<t>>)
      PROVE  GetTxType(n) = Ok(t)
  <2>1. Bytes(<<t>>).b = <<t>> /\ IsBytes(Bytes(<<t>>))
    BY DEF Bytes, IsBytes
  <2>2. Len(<<t>>) = 1 /\ <<t>>[1] = t
    OBVIOUS
  <2> QED
    BY <1>2, <1>4, <2>1, <2>2
<1> QED
  BY <1>3, <1>4 DEF x

----------------------------------------------------------------------------
(* Receipts (rct/).                                                        *)

SomeRct(n) ==
    /\ n = [TxType |-> n.TxType, PostState |-> n.PostState, Status |-> n.Status,
            CumulativeGasUsed |-> n.CumulativeGasUsed, Bloom |-> n.Bloom,
            Logs |-> n.Logs, LogRootCID |-> n.LogRootCID]
    /\ Sound(n.TxType) /\ Sound(n.PostState) /\ Sound(n.Status)
    /\ Sound(n.CumulativeGasUsed) /\ Sound(n.Bloom)
    /\ Listed(n.Logs) /\ \A i \in 1 .. Len(n.Logs.l) : SomeLog(n.Logs.l[i])

(* A typed envelope of items that are strings, lists, or lists of lists. *)
Enveloped(b) ==
    /\ b = [first |-> b.first, l |-> b.l] /\ Tuple(b.l)
    /\ \A i \in 1 .. Len(b.l) : Nested2(b.l[i])

failedStatus == Bytes(receiptStatusFailed)
successStatus == Bytes(receiptStatusSuccessful)

LEMMA Statuses ==
    /\ Str(failedStatus) /\ Str(successStatus)
    /\ receiptStatusFailed # receiptStatusSuccessful
    /\ failedStatus.b = receiptStatusFailed
    /\ successStatus.b = receiptStatusSuccessful
    /\ Str(Bytes(<< >>)) /\ Str(Bytes(<< 1 >>)) /\ << 1 >> # << >>
    /\ Bytes(<< >>).b = << >> /\ Bytes(<< 1 >>).b = << 1 >>
    /\ Len(<< >>) # HashLen /\ Len(<< 1 >>) # HashLen
<1>1. UintLen \in Nat /\ UintLen # 0 /\ HashLen # 0 /\ HashLen # 1
  BY SizeAssumption
<1>2. \A i \in 1 .. UintLen : receiptStatusFailed[i] = 0
  BY DEF receiptStatusFailed
<1>3. \A i \in 1 .. UintLen : receiptStatusSuccessful[i] = IF i = UintLen THEN 1 ELSE 0
  BY DEF receiptStatusSuccessful
<1>4. receiptStatusFailed \in ByteSeq
  BY <1>1, Octets DEF receiptStatusFailed, ByteSeq
<1>5. receiptStatusSuccessful \in ByteSeq
  BY <1>1, Octets DEF receiptStatusSuccessful, ByteSeq
<1>6. UintLen \in 1 .. UintLen
  BY <1>1
<1>7. receiptStatusFailed # receiptStatusSuccessful
  BY <1>2, <1>3, <1>6
<1>8. << >> \in ByteSeq /\ << 1 >> \in ByteSeq
  BY Octets DEF ByteSeq
<1>9. Len(<< >>) # HashLen /\ Len(<< 1 >>) # HashLen /\ << 1 >> # << >>
  BY <1>1
<1> QED
  BY <1>4, <1>5, <1>7, <1>8, <1>9, BytesIsStr DEF failedStatus, successStatus

LEMMA StatusPacked ==
    ASSUME NEW x, Sound(x)
    PROVE  LET p == AsBytes(x, StatusRLP)
           IN  /\ p.st = "ok" => x \in {failedStatus, successStatus}
               /\ x = failedStatus => p = Ok(Bytes(<< >>))
               /\ x = successStatus => p = Ok(Bytes(<< 1 >>))
<1>1. IsBytes(x) => x = Bytes(x.b)
  BY StrIsBytes DEF Sound
<1>2. IsBytes(failedStatus) /\ IsBytes(successStatus)
  BY Statuses, StrIsBytes
<1>3. \A b : StatusRLP(b).st = "ok" => b \in {receiptStatusFailed, receiptStatusSuccessful}
  BY Failures DEF StatusRLP
<1>4. StatusRLP(receiptStatusFailed) = Ok(Bytes(<< >>))
  BY Statuses DEF StatusRLP, receiptStatusFailedRLP
<1>5. StatusRLP(receiptStatusSuccessful) = Ok(Bytes(<< 1 >>))
  BY Statuses DEF StatusRLP, receiptStatusSuccessfulRLP
<1>6. AsBytes(x, StatusRLP) = IF IsBytes(x) THEN StatusRLP(x.b) ELSE Err
  BY DEF AsBytes
<1>7. AsBytes(x, StatusRLP).st = "ok" => x \in {failedStatus, successStatus}
  BY <1>1, <1>3, <1>6, Failures DEF failedStatus, successStatus
<1> QED
  BY <1>2, <1>4, <1>5, <1>6, <1>7, Statuses

(* The item that a receipt has for its state root or status, and the two   *)
(* fields that are made of it.                                             *)
rootOf(n) == NormalRct(n).PostState
statusOf(n) == NormalRct(n).Status

LEMMA NormalRctFields ==
    ASSUME NEW n
    PROVE  /\ rootOf(n) = IF n.PostState # Null /\ Len(n.PostState.b) = HashLen
                          THEN n.PostState ELSE Null
           /\ statusOf(n) = IF n.PostState = Null THEN n.Status
                            ELSE IF Len(n.PostState.b) = HashLen THEN Null
                            ELSE IF n.PostState.b = << >> THEN failedStatus
                            ELSE successStatus
  BY DEF rootOf, statusOf, NormalRct, failedStatus, successStatus

LEMMA StatusUnpacked ==
    ASSUME NEW x
    PROVE  /\ Len(x.b) = HashLen => unpackPostState(x) = x /\ unpackStatus(x) = Null
           /\ x.b = << >> => unpackPostState(x) = Null /\ unpackStatus(x) = failedStatus
           /\ x.b = << 1 >> => unpackPostState(x) = Null /\ unpackStatus(x) = successStatus
<1>1. ASSUME Len(x.b) = HashLen
      PROVE  unpackPostState(x) = x /\ unpackStatus(x) = Null
  <2>1. x.b # << >>
    BY <1>1, Statuses
  <2> QED
    BY <1>1, <2>1 DEF unpackPostState, unpackStatus, receiptStatusFailedRLP
<1>2. ASSUME x.b = << >>
      PROVE  unpackPostState(x) = Null /\ unpackStatus(x) = failedStatus
  <2>1. Len(x.b) # HashLen
    BY <1>2, Statuses
  <2> QED
    BY <1>2, <2>1 DEF unpackPostState, unpackStatus, receiptStatusFailedRLP,
                      failedStatus
<1>3. ASSUME x.b = << 1 >>
      PROVE  unpackPostState(x) = Null /\ unpackStatus(x) = successStatus
  <2>1. Len(x.b) # HashLen /\ x.b # << >>
    BY <1>3, Statuses
  <2> QED
    BY <2>1 DEF unpackPostState, unpackStatus, receiptStatusFailedRLP,
                successStatus
<1> QED
  BY <1>1, <1>2, <1>3

LEMMA StatusRead ==
    ASSUME NEW x, Str(x)
    PROVE  LET r == ReadPostStateOrStatus(x)
           IN  /\ r.st # "panic" /\ (r.st = "ok" => r.x = x)
               /\ r.st = "ok" <=> \/ Len(x.b) = HashLen
                                  \/ x.b = << >> \/ x.b = << 1 >>
<1>1. IsBytes(x)
  BY StrIsBytes
<1> DEFINE good == Len(x.b) = HashLen \/ x.b = << >> \/ x.b = << 1 >>
<1>2. ReadPostStateOrStatus(x) = IF good THEN Ok(x) ELSE Err
  BY <1>1 DEF ReadPostStateOrStatus, receiptStatusFailedRLP, receiptStatusSuccessfulRLP
<1> HIDE DEF good
<1>3. Ok(x).st # "panic"
  BY DEF Ok
<1>4. /\ ReadPostStateOrStatus(x).st # "panic"
      /\ ReadPostStateOrStatus(x).st = "ok" => ReadPostStateOrStatus(x).x = x
      /\ ReadPostStateOrStatus(x).st = "ok" <=> good
  BY <1>2, <1>3, OkIsOk, Failures
<1> QED
  BY <1>4 DEF good

LEMMA StatusStores ==
    ASSUME NEW n, SomeRct(n), packPostStateOrStatus(n).st = "ok"
    PROVE  LET x == packPostStateOrStatus(n).x
               r == ReadPostStateOrStatus(x)
           IN  /\ Str(x) /\ r.st # "panic" /\ (ValidRct(n) => r.st = "ok")
               /\ r.st = "ok" => /\ r.x = x /\ unpackPostState(x) = rootOf(n)
                                 /\ unpackStatus(x) = statusOf(n)
<1> DEFINE x == packPostStateOrStatus(n).x
           r == ReadPostStateOrStatus(x)
<1>1. Sound(n.PostState) /\ Sound(n.Status)
  BY DEF SomeRct
<1>2. CASE n.PostState # Null
  <2>1. packPostStateOrStatus(n) = AsBytes(n.PostState, Blob)
    BY <1>2 DEF packPostStateOrStatus
  <2>2. x = n.PostState /\ Str(x)
    BY <1>1, <2>1, BlobLaw, OkIsOk
  <2> HIDE DEF x
  <2>3. /\ r.st # "panic" /\ (r.st = "ok" => r.x = x)
        /\ r.st = "ok" <=> Len(x.b) = HashLen \/ x.b = << >> \/ x.b = << 1 >>
    BY <2>2, StatusRead
  <2> HIDE DEF r
  <2>4. ValidRct(n) => r.st = "ok"
    BY <1>2, <2>2, <2>3 DEF ValidRct
  <2>5. ASSUME r.st = "ok"
        PROVE  unpackPostState(x) = rootOf(n) /\ unpackStatus(x) = statusOf(n)
    <3>1. CASE Len(x.b) = HashLen
      BY <1>2, <2>2, <3>1, StatusUnpacked, NormalRctFields
    <3>2. CASE x.b = << >>
      <4>1. Len(x.b) # HashLen
        BY <3>2, Statuses
      <4> QED
        BY <1>2, <2>2, <3>2, <4>1, StatusUnpacked, NormalRctFields
    <3>3. CASE x.b = << 1 >>
      <4>1. Len(x.b) # HashLen /\ x.b # << >>
        BY <3>3, Statuses
      <4> QED
        BY <1>2, <2>2, <3>3, <4>1, StatusUnpacked, NormalRctFields
    <3> QED
      BY <2>3, <2>5, <3>1, <3>2, <3>3
  <2> QED
    BY <2>2, <2>3, <2>4, <2>5 DEF r, x
<1>3. CASE n.PostState = Null
  <2>1. packPostStateOrStatus(n) = AsBytes(n.Status, StatusRLP)
    BY <1>3 DEF packPostStateOrStatus
  <2>2. rootOf(n) = Null /\ statusOf(n) = n.Status
    BY <1>3, NormalRctFields
  <2>3. \/ n.Status = failedStatus /\ x = Bytes(<< >>)
        \/ n.Status = successStatus /\ x = Bytes(<< 1 >>)
    BY <1>1, <2>1, StatusPacked, OkIsOk
  <2> HIDE DEF x
  <2>4. /\ Str(x) /\ (x.b = << >> \/ x.b = << 1 >>)
        /\ x.b = << >> => n.Status = failedStatus
        /\ x.b = << 1 >> => n.Status = successStatus
    BY <2>3, Statuses
  <2>5. r.st = "ok" /\ r.x = x
    BY <2>4, StatusRead
  <2> HIDE DEF r
  <2>6. unpackPostState(x) = Null /\ unpackStatus(x) = n.Status
    BY <2>4, StatusUnpacked
  <2>7. r.st # "panic"
    BY <2>5
  <2> QED
    BY <2>2, <2>4, <2>5, <2>6, <2>7 DEF r, x
<1> QED
  BY <1>2, <1>3

StatusOk(n) ==
    \/ Sized(n.PostState, HashLen) /\ n.Status = Null
    \/ n.PostState = Null /\ n.Status \in {failedStatus, successStatus}

LEMMA StatusKept ==
    ASSUME NEW n, SomeRct(n), StatusOk(n)
    PROVE  /\ packPostStateOrStatus(n).st = "ok" /\ ValidRct(n)
           /\ rootOf(n) = n.PostState /\ statusOf(n) = n.Status
<1>1. Sound(n.PostState) /\ Sound(n.Status)
  BY DEF SomeRct
<1>2. CASE Sized(n.PostState, HashLen) /\ n.Status = Null
  <2>1. IsBytes(n.PostState) /\ Len(n.PostState.b) = HashLen
    BY <1>2 DEF Sized
  <2>2. n.PostState # Null /\ AsBytes(n.PostState, Blob) = Ok(n.PostState)
    BY <1>1, <2>1, BlobLaw, StrIsBytes
  <2> QED
    BY <1>2, <2>1, <2>2, OkIsOk, NormalRctFields DEF packPostStateOrStatus, ValidRct
<1>3. CASE n.PostState = Null /\ n.Status \in {failedStatus, successStatus}
  <2>1. AsBytes(n.Status, StatusRLP).st = "ok"
    BY <1>1, <1>3, StatusPacked, OkIsOk
  <2> QED
    BY <1>3, <2>1, NormalRctFields DEF packPostStateOrStatus, ValidRct
<1> QED
  BY <1>2, <1>3 DEF StatusOk

LEMMA StatusLoads ==
    ASSUME NEW x, Sound(x), ReadPostStateOrStatus(x).st = "ok",
           NEW n, n.PostState = unpackPostState(x), n.Status = unpackStatus(x)
    PROVE  /\ ReadPostStateOrStatus(x).x = x
           /\ Sound(n.PostState) /\ Sound(n.Status) /\ StatusOk(n)
           /\ packPostStateOrStatus(n) = Ok(x)
<1>1. Str(x)
  BY Failures DEF ReadPostStateOrStatus, Sound
<1>2. /\ ReadPostStateOrStatus(x).x = x
      /\ Len(x.b) = HashLen \/ x.b = << >> \/ x.b = << 1 >>
  BY <1>1, StatusRead
<1>3. x = Bytes(x.b) /\ x # Null /\ IsBytes(x)
  BY <1>1, StrIsBytes
<1>4. Sound(Null)
  BY DEF Sound, IsBytes, Null
<1>5. CASE Len(x.b) = HashLen
  <2>1. n.PostState = x /\ n.Status = Null
    BY <1>5, StatusUnpacked
  <2>2. packPostStateOrStatus(n) = AsBytes(x, Blob)
    BY <1>3, <2>1 DEF packPostStateOrStatus
  <2>3. AsBytes(x, Blob) = Ok(x)
    BY <1>1, <1>3, BlobLaw
  <2>4. StatusOk(n)
    BY <1>3, <1>5, <2>1 DEF StatusOk, Sized
  <2> QED
    BY <1>1, <1>2, <1>4, <2>1, <2>2, <2>3, <2>4, StrIsSound
<1>6. CASE x.b = << >>
  <2>1. n.PostState = Null /\ n.Status = failedStatus
    BY <1>6, StatusUnpacked
  <2>2. packPostStateOrStatus(n) = AsBytes(failedStatus, StatusRLP)
    BY <2>1 DEF packPostStateOrStatus
  <2>3. Sound(failedStatus)
    BY Statuses, StrIsSound
  <2>4. AsBytes(failedStatus, StatusRLP) = Ok(x)
    BY <1>3, <1>6, <2>3, StatusPacked
  <2> QED
    BY <1>2, <1>4, <2>1, <2>2, <2>3, <2>4 DEF StatusOk
<1>7. CASE x.b = << 1 >>
  <2>1. n.PostState = Null /\ n.Status = successStatus
    BY <1>7, StatusUnpacked
  <2>2. packPostStateOrStatus(n) = AsBytes(successStatus, StatusRLP)
    BY <2>1 DEF packPostStateOrStatus
  <2>3. Sound(successStatus)
    BY Statuses, StrIsSound
  <2>4. AsBytes(successStatus, StatusRLP) = Ok(x)
    BY <1>3, <1>7, <2>3, StatusPacked
  <2> QED
    BY <1>2, <1>4, <2>1, <2>2, <2>3, <2>4 DEF StatusOk
<1> QED
  BY <1>2, <1>5, <1>6, <1>7

(* Where the second of five calls fails, it is the one that counts. *)
LEMMA SecondFails ==
    ASSUME NEW a, NEW b, NEW c, NEW d, NEW e,
           a.st = "ok" /\ b.st # "ok" /\ c.st = "ok" /\ d.st = "ok" /\ e.st = "ok"
    PROVE  InOrder(<<a, b, c, d, e>>) = b
<1> DEFINE calls == <<a, b, c, d, e>>
<1>1. /\ DOMAIN calls = 1 .. 5
      /\ calls[1] = a /\ calls[2] = b /\ calls[3] = c /\ calls[4] = d /\ calls[5] = e
  OBVIOUS
<1> HIDE DEF calls
<1>2. \E i \in 1 .. 5 : calls[i].st # "ok"
  BY <1>1
<1>3. PICK i \in 1 .. 5 : calls[i].st # "ok" /\ InOrder(calls) = calls[i]
  BY <1>1, <1>2, InOrderEnds
<1>4. i = 2
  BY <1>1, <1>3
<1> QED
  BY <1>1, <1>3, <1>4 DEF calls

LEMMA LastFour ==
    ASSUME NEW a, NEW b, NEW c, NEW d, NEW e
    PROVE  SubSeq(<<a, b, c, d, e>>, 2, 5) = <<b, c, d, e>>
<1> DEFINE x == <<a, b, c, d, e>>
           y == <<b, c, d, e>>
           S == {a, b, c, d, e}
<1>1. x \in Seq(S) /\ Len(x) = 5 /\ y \in Seq(S) /\ Len(y) = 4
  OBVIOUS
<1>2. \A i \in 1 .. 4 : y[i] = x[i + 1]
  <2>1. y[1] = x[2] /\ y[2] = x[3] /\ y[3] = x[4] /\ y[4] = x[5]
    OBVIOUS
  <2> HIDE DEF x, y
  <2> QED
    BY <2>1
<1> HIDE DEF x, y, S
<1>3. SubSeq(x, 2, 5) = [i \in 1 .. 4 |-> x[i + 1]]
  BY <1>1
<1>4. SubSeq(x, 2, 5) = y
  BY <1>1, <1>2, <1>3
<1> QED
  BY <1>4 DEF x, y

LEMMA ListedNested ==
    ASSUME NEW x, Listed(x)
    PROVE  /\ (\A i \in 1 .. Len(x.l) : Flat(x.l[i])) => Nested(x)
           /\ (\A i \in 1 .. Len(x.l) : Nested(x.l[i])) => Nested2(x)
<1>1. IsList(x) /\ x = List(x.l) /\ Tuple(x.l) /\ Sound(x)
  BY DEF Listed, Sound, IsBytes, IsList
<1>2. (\A i \in 1 .. Len(x.l) : Flat(x.l[i])) => Nested(x)
  BY <1>1 DEF Nested, Flat
<1>3. (\A i \in 1 .. Len(x.l) : Nested(x.l[i])) => Nested2(x)
  BY <1>1 DEF Nested2, Nested, Flat
<1> QED
  BY <1>2, <1>3

LEMMA RctStores ==
    ASSUME NEW n, SomeRct(n), EncodeReceipt(n).st = "ok"
    PROVE  LET b == EncodeReceipt(n).x
               r == DecodeReceiptBytes(b)
           IN  /\ Enveloped(b) /\ r.st # "panic" /\ (ValidRct(n) => r.st = "ok")
               /\ r.st = "ok" => r.x = NormalRct(n)
<1> DEFINE p1 == GetTxType(n)
           p2 == packPostStateOrStatus(n)
           p3 == packCumulativeGasUsed(n)
           p4 == packBloom(n)
           p5 == packLogs(n)
           r == InOrder(<<p1, p2, p3, p4, p5>>)
           t == p1.x
<1>1. packReceiptRLP(n) = r
  BY DEF packReceiptRLP
<1>2. r.st = "ok" /\ r.x[1] \in {LegacyTx} \cup TypedReceipts
      /\ EncodeReceipt(n) = Ok([first |-> IF r.x[1] = LegacyTx THEN ListByte
                                          ELSE r.x[1],
                                l |-> SubSeq(r.x, 2, 5)])
  <2> HIDE DEF r
  <2> QED
    BY <1>1, Failures DEF EncodeReceipt, Then
<1>3. p1.st = "ok" /\ p2.st = "ok" /\ p3.st = "ok" /\ p4.st = "ok" /\ p5.st = "ok"
  <2> HIDE DEF p1, p2, p3, p4, p5
  <2> QED
    BY <1>2, AllFiveOk
<1>4. /\ Sound(n.TxType) /\ Sound(n.CumulativeGasUsed) /\ Sound(n.Bloom)
      /\ Listed(n.Logs)
  BY DEF SomeRct
<1>5. \A i \in 1 .. Len(n.Logs.l) : SomeLog(n.Logs.l[i])
  BY DEF SomeRct
<1>6. n.TxType = Bytes(<<t>>)
  BY <1>3, <1>4, TypeLaw
<1> DEFINE s == ReadPostStateOrStatus(p2.x)
<1>7. /\ Str(p2.x) /\ s.st # "panic" /\ (ValidRct(n) => s.st = "ok")
      /\ s.st = "ok" => /\ s.x = p2.x /\ unpackPostState(p2.x) = rootOf(n)
                        /\ unpackStatus(p2.x) = statusOf(n)
  BY <1>3, StatusStores
<1> DEFINE gas == Bytes(SubSeq(n.CumulativeGasUsed.b, 1, UintLen))
           bloom == Bytes(Fit(n.Bloom.b, BloomLen))
           logs == List([i \in DOMAIN n.Logs.l |-> NormalLog(n.Logs.l[i])])
<1>8. Str(p3.x) /\ FromUint64(p3.x) = Ok(gas)
  BY <1>3, <1>4, UintLaw DEF packCumulativeGasUsed
<1>9. Str(p4.x) /\ FromArray(p4.x, BloomLen) = Ok(bloom)
  BY <1>3, <1>4, BloomLaw DEF packBloom
<1>10. /\ Listed(p5.x) /\ \A i \in 1 .. Len(p5.x.l) : Nested(p5.x.l[i])
       /\ FromList(p5.x, DecodeLogBytes) = Ok(logs)
  BY <1>3, <1>4, <1>5, LogsStore DEF packLogs
<1> HIDE DEF p1, p2, p3, p4, p5, s, gas, bloom, logs
<1> DEFINE x == <<t, p2.x, p3.x, p4.x, p5.x>>
           l == <<p2.x, p3.x, p4.x, p5.x>>
           first == IF t = LegacyTx THEN ListByte ELSE t
           b == [first |-> first, l |-> l]
<1>11. r = Ok(x)
  BY <1>3, InOrderFive
<1>12. x[1] = t /\ SubSeq(x, 2, 5) = l
  <2>1. x[1] = t
    OBVIOUS
  <2>2. SubSeq(x, 2, 5) = l
    BY LastFour
  <2> QED
    BY <2>1, <2>2
<1> HIDE DEF x, r
<1>13. r.x = x
  BY <1>11, OkIsOk
<1>14. t \in {LegacyTx} \cup TypedReceipts /\ EncodeReceipt(n).x = b
  BY <1>2, <1>12, <1>13, OkIsOk
<1>15. /\ first \in {ListByte} \cup TypedReceipts
       /\ (IF first = ListByte THEN LegacyTx ELSE first) = t
  BY <1>14 DEF TypedReceipts, LegacyTx, ListByte
<1>16. l[1] = p2.x /\ l[2] = p3.x /\ l[3] = p4.x /\ l[4] = p5.x /\ Len(l) = 4
       /\ Tuple(l)
  BY DEF Tuple
<1>17. b.first = first /\ b.l = l /\ b = [first |-> b.first, l |-> b.l]
  OBVIOUS
<1> HIDE DEF l, first, b, t
<1>18. Enveloped(b)
  <2>1. Nested2(p5.x)
    BY <1>10, ListedNested
  <2>2. Nested2(l[1]) /\ Nested2(l[2]) /\ Nested2(l[3]) /\ Nested2(l[4])
    BY <1>7, <1>8, <1>9, <1>16, <2>1, StrIsNested
  <2>3. \A i \in 1 .. 4 : Nested2(l[i])
    BY <2>2
  <2> QED
    BY <1>16, <1>17, <2>3 DEF Enveloped
<1> DEFINE back == InOrder(<<Ok(t), s, Ok(gas), Ok(bloom), Ok(logs)>>)
           d == DecodeReceiptBytes(b)
<1>19. ReadReceipt(b) = back
  <2>1. ReadReceipt(b) =
          InOrder(<<Ok(IF first = ListByte THEN LegacyTx ELSE first),
                    ReadPostStateOrStatus(l[1]), FromUint64(l[2]),
                    FromArray(l[3], BloomLen), FromList(l[4], DecodeLogBytes)>>)
    BY <1>15, <1>16, <1>17 DEF ReadReceipt
  <2> QED
    BY <1>8, <1>9, <1>10, <1>15, <1>16, <2>1 DEF s
<1>20. d = IF back.st = "ok" THEN Ok(DecodeReceipt(back.x)) ELSE back
  BY <1>19 DEF DecodeReceiptBytes, Then
<1>21. CASE s.st # "ok"
  <2>1. back = s
    BY <1>21, OkIsOk, SecondFails
  <2> HIDE DEF back, d
  <2>2. d = s
    BY <1>20, <1>21, <2>1
  <2> QED
    BY <1>7, <1>14, <1>18, <1>21, <2>2 DEF d
<1>22. CASE s.st = "ok"
  <2> DEFINE m == <<t, p2.x, gas, bloom, logs>>
  <2>1. back = Ok(m)
    <3>1. back = Ok(<<Ok(t).x, s.x, Ok(gas).x, Ok(bloom).x, Ok(logs).x>>)
      BY <1>22, OkIsOk, InOrderFive
    <3> QED
      BY <1>7, <1>22, <3>1, OkIsOk
  <2>2. m[1] = t /\ m[2] = p2.x /\ m[3] = gas /\ m[4] = bloom /\ m[5] = logs
    OBVIOUS
  <2> HIDE DEF back, d, m
  <2>3. d = Ok(DecodeReceipt(m))
    BY <1>20, <2>1, OkIsOk
  <2>4. DecodeReceipt(m) =
          [TxType |-> Bytes(<<t>>), PostState |-> rootOf(n), Status |-> statusOf(n),
           CumulativeGasUsed |-> gas, Bloom |-> bloom, Logs |-> logs,
           LogRootCID |-> Link("log", [root |-> logs])]
    BY <1>7, <1>22, <2>2 DEF DecodeReceipt, unpackLogRootCID
  <2>5. NormalRct(n) =
          [TxType |-> n.TxType, PostState |-> rootOf(n), Status |-> statusOf(n),
           CumulativeGasUsed |-> gas, Bloom |-> bloom, Logs |-> logs,
           LogRootCID |-> Link("log", [root |-> logs])]
    BY NormalRctFields
    DEF NormalRct, gas, bloom, logs, failedStatus, successStatus
  <2>6. d.st = "ok" /\ d.x = NormalRct(n)
    BY <1>6, <2>3, <2>4, <2>5, OkIsOk
  <2> QED
    BY <1>14, <1>18, <2>6 DEF d
<1> QED
  BY <1>21, <1>22

LEMMA RctKept ==
    ASSUME NEW n, SomeRct(n), WellFormedRct(n)
    PROVE  EncodeReceipt(n).st = "ok" /\ NormalRct(n) = n /\ ValidRct(n)
<1> DEFINE p1 == GetTxType(n)
           p2 == packPostStateOrStatus(n)
           p3 == packCumulativeGasUsed(n)
           p4 == packBloom(n)
           p5 == packLogs(n)
           r == InOrder(<<p1, p2, p3, p4, p5>>)
           logs == List([i \in DOMAIN n.Logs.l |-> NormalLog(n.Logs.l[i])])
<1>1. /\ Sound(n.TxType) /\ Sound(n.CumulativeGasUsed) /\ Sound(n.Bloom)
      /\ Listed(n.Logs)
  BY DEF SomeRct
<1>2. \A i \in 1 .. Len(n.Logs.l) : SomeLog(n.Logs.l[i])
  BY DEF SomeRct
<1>3. PICK t \in {LegacyTx} \cup TypedReceipts : n.TxType = Bytes(<<t>>)
  BY DEF WellFormedRct
<1>4. t \in Octet
  BY DEF LegacyTx, TypedReceipts, Octet
<1>5. p1 = Ok(t)
  BY <1>1, <1>3, <1>4, TypeLaw
<1>6. p2.st = "ok" /\ ValidRct(n) /\ rootOf(n) = n.PostState /\ statusOf(n) = n.Status
  BY StatusKept DEF WellFormedRct, StatusOk, failedStatus, successStatus
<1>7. p3.st = "ok" /\ Bytes(SubSeq(n.CumulativeGasUsed.b, 1, UintLen)) = n.CumulativeGasUsed
  BY <1>1, UintLaw DEF WellFormedRct, packCumulativeGasUsed
<1>8. p4.st = "ok" /\ Bytes(Fit(n.Bloom.b, BloomLen)) = n.Bloom
  BY <1>1, BloomLaw DEF WellFormedRct, packBloom
<1>9. p5.st = "ok" /\ logs = n.Logs
  <2>1. \A i \in DOMAIN n.Logs.l : WellFormedLog(n.Logs.l[i])
    BY DEF WellFormedRct
  <2> QED
    BY <1>1, <1>2, <2>1, LogsKeep DEF packLogs
<1> HIDE DEF p1, p2, p3, p4, p5, logs
<1> DEFINE x == <<t, p2.x, p3.x, p4.x, p5.x>>
<1>10. r = Ok(x)
  BY <1>5, <1>6, <1>7, <1>8, <1>9, OkIsOk, InOrderFive
<1>11. x[1] = t
  OBVIOUS
<1> HIDE DEF x
<1>12. packReceiptRLP(n) = r
  BY DEF packReceiptRLP, p1, p2, p3, p4, p5
<1>13. EncodeReceipt(n).st = "ok"
  BY <1>3, <1>10, <1>11, <1>12, OkIsOk DEF EncodeReceipt, Then
<1>14. NormalRct(n) =
          [TxType |-> n.TxType, PostState |-> rootOf(n), Status |-> statusOf(n),
           CumulativeGasUsed |-> n.CumulativeGasUsed, Bloom |-> n.Bloom,
           Logs |-> logs, LogRootCID |-> Link("log", [root |-> logs])]
  BY <1>7, <1>8, NormalRctFields DEF NormalRct, logs, failedStatus, successStatus
<1>15. n.LogRootCID = Link("log", [root |-> n.Logs])
  BY DEF WellFormedRct
<1>16. NormalRct(n) = n
  BY <1>6, <1>9, <1>14, <1>15 DEF SomeRct
<1> QED
  BY <1>6, <1>13, <1>16

LEMMA RctLoads ==
    ASSUME NEW b, Enveloped(b), DecodeReceiptBytes(b).st = "ok"
    PROVE  LET n == DecodeReceiptBytes(b).x
           IN  SomeRct(n) /\ WellFormedRct(n) /\ EncodeReceipt(n) = Ok(b)
<1> DEFINE l == b.l
           t == IF b.first = ListByte THEN LegacyTx ELSE b.first
           q2 == ReadPostStateOrStatus(l[1])
           q3 == FromUint64(l[2])
           q4 == FromArray(l[3], BloomLen)
           q5 == FromList(l[4], DecodeLogBytes)
           q == InOrder(<<Ok(t), q2, q3, q4, q5>>)
<1>1. ReadReceipt(b).st = "ok"
      /\ DecodeReceiptBytes(b) = Ok(DecodeReceipt(ReadReceipt(b).x))
  BY DEF DecodeReceiptBytes, Then
<1>2. /\ b.first \in {ListByte} \cup TypedReceipts /\ Len(l) = 4
      /\ ReadReceipt(b) = q
  BY <1>1, Failures DEF ReadReceipt
<1>3. Nested2(l[1]) /\ Nested2(l[2]) /\ Nested2(l[3]) /\ Nested2(l[4])
  BY <1>2 DEF Enveloped
<1>4. Sound(l[1]) /\ Sound(l[2]) /\ Sound(l[3])
  BY <1>3 DEF Nested2, Flat
<1>5. l = [i \in 1 .. 4 |-> l[i]] /\ b = [first |-> b.first, l |-> l]
  BY <1>2 DEF Enveloped, Tuple
<1> HIDE DEF l
<1>6. /\ t \in {LegacyTx} \cup TypedReceipts /\ t \in Octet
      /\ (IF t = LegacyTx THEN ListByte ELSE t) = b.first
  BY <1>2 DEF TypedReceipts, LegacyTx, ListByte, Octet
<1> HIDE DEF t
<1>7. q2.st = "ok" /\ q3.st = "ok" /\ q4.st = "ok" /\ q5.st = "ok"
  <2> HIDE DEF q2, q3, q4, q5
  <2> QED
    BY <1>1, <1>2, AllFiveOk
<1>8. Str(q3.x) /\ Sized(q3.x, UintLen) /\ AsBytes(q3.x, Uint64) = Ok(l[2])
  BY <1>4, <1>7, UintLaw
<1>9. /\ q4.x = l[3] /\ Str(l[3]) /\ Sized(l[3], BloomLen)
      /\ AsBytes(l[3], BytesToBloom) = Ok(l[3])
  BY <1>4, <1>7, BloomLaw, OkIsOk
<1>10. /\ Listed(q5.x) /\ \A i \in 1 .. Len(q5.x.l) : SomeLog(q5.x.l[i])
       /\ \A i \in DOMAIN q5.x.l : WellFormedLog(q5.x.l[i])
       /\ Elements(q5.x, EncodeLog) = Ok(l[4])
  <2>1. /\ IsList(l[4]) => Listed(l[4])
        /\ IsList(l[4]) => \A i \in 1 .. Len(l[4].l) : Nested(l[4].l[i])
    BY <1>3 DEF Nested2, Flat, Listed
  <2> QED
    BY <1>7, <2>1, LogsLoad
<1>11. q2.x = l[1]
  <2>1. Str(l[1])
    BY <1>4, <1>7, Failures DEF ReadPostStateOrStatus, Sound
  <2> QED
    BY <1>7, <2>1, StatusRead
<1> HIDE DEF q3, q4, q5
<1> DEFINE m == <<t, l[1], q3.x, l[3], q5.x>>
           n == DecodeReceipt(m)
<1>12. q = Ok(m)
  <2> HIDE DEF q2
  <2>1. q = Ok(<<Ok(t).x, q2.x, q3.x, q4.x, q5.x>>)
    BY <1>7, OkIsOk, InOrderFive
  <2> QED
    BY <1>9, <1>11, <2>1, OkIsOk
<1>13. DecodeReceiptBytes(b).x = n
  BY <1>1, <1>2, <1>12, OkIsOk
<1>14. m[1] = t /\ m[2] = l[1] /\ m[3] = q3.x /\ m[4] = l[3] /\ m[5] = q5.x
  OBVIOUS
<1> HIDE DEF m, q
<1>15. /\ n.TxType = Bytes(<<t>>) /\ n.PostState = unpackPostState(l[1])
       /\ n.Status = unpackStatus(l[1]) /\ n.CumulativeGasUsed = q3.x
       /\ n.Bloom = l[3] /\ n.Logs = q5.x
       /\ n.LogRootCID = Link("log", [root |-> n.Logs])
       /\ n = [TxType |-> n.TxType, PostState |-> n.PostState,
               Status |-> n.Status, CumulativeGasUsed |-> n.CumulativeGasUsed,
               Bloom |-> n.Bloom, Logs |-> n.Logs, LogRootCID |-> n.LogRootCID]
  BY <1>14 DEF DecodeReceipt, unpackLogRootCID
<1> HIDE DEF n
<1>16. /\ Sound(n.PostState) /\ Sound(n.Status) /\ StatusOk(n)
       /\ packPostStateOrStatus(n) = Ok(l[1])
  BY <1>4, <1>7, <1>15, StatusLoads
<1>17. Sound(n.TxType)
  <2>1. <<t>> \in ByteSeq
    BY <1>6 DEF ByteSeq
  <2> QED
    BY <1>15, <2>1, BytesIsStr, StrIsSound
<1>18. SomeRct(n)
  <2>1. Sound(n.CumulativeGasUsed) /\ Sound(n.Bloom)
    BY <1>8, <1>9, <1>15, StrIsSound
  <2>2. Listed(n.Logs) /\ \A i \in 1 .. Len(n.Logs.l) : SomeLog(n.Logs.l[i])
    BY <1>10, <1>15
  <2> QED
    BY <1>15, <1>16, <1>17, <2>1, <2>2 DEF SomeRct
<1>19. WellFormedRct(n)
  <2>1. n.TxType \in {Bytes(<<u>>) : u \in {LegacyTx} \cup TypedReceipts}
    BY <1>6, <1>15
  <2>2. \/ Sized(n.PostState, HashLen) /\ n.Status = Null
        \/ /\ n.PostState = Null
           /\ n.Status \in {Bytes(receiptStatusFailed),
                            Bytes(receiptStatusSuccessful)}
    BY <1>16 DEF StatusOk, failedStatus, successStatus
  <2>3. Sized(n.CumulativeGasUsed, UintLen) /\ Sized(n.Bloom, BloomLen)
    BY <1>8, <1>9, <1>15
  <2>4. \A i \in DOMAIN n.Logs.l : WellFormedLog(n.Logs.l[i])
    BY <1>10, <1>15
  <2> QED
    BY <1>15, <2>1, <2>2, <2>3, <2>4 DEF WellFormedRct
<1>20. GetTxType(n) = Ok(t)
  BY <1>6, <1>15, <1>17, TypeLaw
<1>21. /\ packCumulativeGasUsed(n) = Ok(l[2]) /\ packBloom(n) = Ok(l[3])
       /\ packLogs(n) = Ok(l[4])
  BY <1>8, <1>9, <1>10, <1>15 DEF packCumulativeGasUsed, packBloom, packLogs
<1> DEFINE x == <<t, l[1], l[2], l[3], l[4]>>
<1>22. packReceiptRLP(n) = Ok(x)
  <2>1. packReceiptRLP(n) = InOrder(<<Ok(t), Ok(l[1]), Ok(l[2]), Ok(l[3]), Ok(l[4])>>)
    BY <1>16, <1>20, <1>21 DEF packReceiptRLP
  <2> QED
    BY <2>1, OkIsOk, InOrderFive
<1>23. x[1] = t /\ SubSeq(x, 2, 5) = l
  <2>1. x[1] = t
    OBVIOUS
  <2>2. SubSeq(x, 2, 5) = <<l[1], l[2], l[3], l[4]>>
    BY LastFour
  <2>3. <<l[1], l[2], l[3], l[4]>> = [i \in 1 .. 4 |-> l[i]]
    OBVIOUS
  <2> QED
    BY <1>5, <2>1, <2>2, <2>3
<1> HIDE DEF x
<1>24. EncodeReceipt(n) = Ok([first |-> IF t = LegacyTx THEN ListByte ELSE t, l |-> l])
  BY <1>6, <1>22, <1>23, OkIsOk DEF EncodeReceipt, Then
<1>25. EncodeReceipt(n) = Ok(b)
  BY <1>5, <1>6, <1>24
<1> QED
  BY <1>13, <1>18, <1>19, <1>25

----------------------------------------------------------------------------
(* Access lists (tx/).                                                     *)

SomeElement(e) ==
    /\ e = [Address |-> e.Address, StorageKeys |-> e.StorageKeys]
    /\ Sound(e.Address) /\ IsList(e.StorageKeys) /\ Flat(e.StorageKeys)

LEMMA ElementPacked ==
    ASSUME NEW e
    PROVE  LET r == InOrder(<<AsBytes(e.Address, Address), packHashes(e.StorageKeys)>>)
           IN  packAccessElement(e) = IF r.st = "ok" THEN Ok(List(r.x)) ELSE r
  BY DEF packAccessElement, packHashes, Then

LEMMA ElementRead ==
    ASSUME NEW l, Len(l) = 2
    PROVE  LET r == InOrder(<<FromAddress(l[1]), FromList(l[2], FromHash)>>)
           IN  ReadAccessElement(List(l)) =
                 IF r.st = "ok" THEN Ok([Address |-> r.x[1], StorageKeys |-> r.x[2]])
                 ELSE r
  BY ThenEnds DEF ReadAccessElement, Then

LEMMA ElementStores ==
    ASSUME NEW e, SomeElement(e), packAccessElement(e).st = "ok"
    PROVE  LET b == packAccessElement(e).x
           IN  Nested(b) /\ ReadAccessElement(b) = Ok(NormalElement(e))
<1> DEFINE p1 == AsBytes(e.Address, Address)
           p2 == packHashes(e.StorageKeys)
           r == InOrder(<<p1, p2>>)
<1>1. packAccessElement(e) = IF r.st = "ok" THEN Ok(List(r.x)) ELSE r
  BY ElementPacked
<1>2. r.st = "ok"
  <2> HIDE DEF r
  <2> QED
    BY <1>1
<1>3. p1.st = "ok" /\ p2.st = "ok"
  <2> HIDE DEF p1, p2
  <2> QED
    BY <1>2, AllTwoOk
<1>4. Sound(e.Address) /\ IsList(e.StorageKeys) /\ Flat(e.StorageKeys)
  BY DEF SomeElement
<1> DEFINE a == Bytes(Fit(e.Address.b, AddressLen))
           keys == List([i \in DOMAIN e.StorageKeys.l |->
                            Bytes(Fit(e.StorageKeys.l[i].b, HashLen))])
<1>5. Str(p1.x) /\ FromAddress(p1.x) = Ok(a)
  BY <1>3, <1>4, AddressLaw
<1>6. IsList(p2.x) /\ Flat(p2.x) /\ FromList(p2.x, FromHash) = Ok(keys)
  BY <1>3, <1>4, HashesPacked
<1> HIDE DEF p1, p2, a, keys
<1> DEFINE l == <<p1.x, p2.x>>
<1>7. r = Ok(l)
  BY <1>3, InOrderTwo
<1>8. packAccessElement(e).x = List(l)
  BY <1>1, <1>2, <1>7, OkIsOk
<1>9. l[1] = p1.x /\ l[2] = p2.x /\ Len(l) = 2 /\ Tuple(l)
  BY DEF Tuple
<1> HIDE DEF l, r
<1>10. Nested(List(l))
  <2>1. Flat(l[1]) /\ Flat(l[2])
    BY <1>5, <1>6, <1>9, StrIsNested
  <2>2. \A i \in 1 .. 2 : Flat(l[i])
    BY <2>1
  <2>3. Listed(List(l))
    BY <1>9, ThenEnds DEF Listed
  <2> QED
    BY <1>9, <2>2, <2>3, ThenEnds, ListedNested
<1> DEFINE q == InOrder(<<FromAddress(l[1]), FromList(l[2], FromHash)>>)
           m == <<a, keys>>
<1>11. q = Ok(m)
  BY <1>5, <1>6, <1>9, InOrderTwo, OkIsOk
<1>12. m[1] = a /\ m[2] = keys
  OBVIOUS
<1>13. ReadAccessElement(List(l)) =
         IF q.st = "ok" THEN Ok([Address |-> q.x[1], StorageKeys |-> q.x[2]]) ELSE q
  BY <1>9, ElementRead
<1> HIDE DEF q, m
<1>14. ReadAccessElement(List(l)) = Ok([Address |-> a, StorageKeys |-> keys])
  BY <1>11, <1>12, <1>13, OkIsOk
<1>15. NormalElement(e) = [Address |-> a, StorageKeys |-> keys]
  BY DEF NormalElement, a, keys
<1> QED
  BY <1>8, <1>10, <1>14, <1>15

LEMMA ElementKept ==
    ASSUME NEW e, SomeElement(e), WellFormedElement(e)
    PROVE  packAccessElement(e).st = "ok" /\ NormalElement(e) = e
<1> DEFINE p1 == AsBytes(e.Address, Address)
           p2 == packHashes(e.StorageKeys)
           r == InOrder(<<p1, p2>>)
<1>1. Sound(e.Address) /\ IsList(e.StorageKeys) /\ Flat(e.StorageKeys)
  BY DEF SomeElement
<1>2. p1.st = "ok" /\ Bytes(Fit(e.Address.b, AddressLen)) = e.Address
  BY <1>1, AddressLaw DEF WellFormedElement
<1>3. /\ p2.st = "ok"
      /\ List([i \in DOMAIN e.StorageKeys.l |->
                  Bytes(Fit(e.StorageKeys.l[i].b, HashLen))]) = e.StorageKeys
  <2>1. \A i \in DOMAIN e.StorageKeys.l : Sized(e.StorageKeys.l[i], HashLen)
    BY DEF WellFormedElement
  <2> QED
    BY <1>1, <2>1, HashesKept
<1>4. packAccessElement(e) = IF r.st = "ok" THEN Ok(List(r.x)) ELSE r
  BY ElementPacked
<1> HIDE DEF p1, p2
<1>5. r = Ok(<<p1.x, p2.x>>)
  BY <1>2, <1>3, InOrderTwo
<1>6. packAccessElement(e).st = "ok"
  BY <1>4, <1>5, OkIsOk
<1>7. NormalElement(e) = e
  BY <1>2, <1>3 DEF NormalElement, SomeElement
<1> QED
  BY <1>6, <1>7

LEMMA ElementLoads ==
    ASSUME NEW b, Nested(b), ReadAccessElement(b).st = "ok"
    PROVE  LET e == ReadAccessElement(b).x
           IN  SomeElement(e) /\ WellFormedElement(e) /\ packAccessElement(e) = Ok(b)
<1> DEFINE l == b.l
           q1 == FromAddress(l[1])
           q2 == FromList(l[2], FromHash)
           q == InOrder(<<q1, q2>>)
<1>1. IsList(b) /\ Len(l) = 2
  BY Failures DEF ReadAccessElement
<1>2. Flat(l[1]) /\ Flat(l[2]) /\ Sound(l[1])
  BY <1>1 DEF Nested, Flat
<1>3. l = [i \in 1 .. 2 |-> l[i]] /\ b = List(l)
  BY <1>1 DEF Nested, Flat, Tuple
<1> HIDE DEF l
<1>4. ReadAccessElement(b) =
        IF q.st = "ok" THEN Ok([Address |-> q.x[1], StorageKeys |-> q.x[2]]) ELSE q
  BY <1>1, <1>3, ElementRead
<1>5. q.st = "ok"
  <2> HIDE DEF q
  <2> QED
    BY <1>4
<1>6. q1.st = "ok" /\ q2.st = "ok"
  <2> HIDE DEF q1, q2
  <2> QED
    BY <1>5, AllTwoOk
<1>7. /\ Str(q1.x) /\ Sized(q1.x, AddressLen)
      /\ AsBytes(q1.x, Address) = Ok(l[1])
  BY <1>2, <1>6, AddressLaw
<1>8. /\ q2.x = l[2] /\ IsList(l[2]) /\ packHashes(l[2]) = Ok(l[2])
      /\ \A i \in DOMAIN l[2].l : Sized(l[2].l[i], HashLen)
  BY <1>2, <1>6, HashesRead, OkIsOk
<1> HIDE DEF q1, q2
<1> DEFINE m == <<q1.x, l[2]>>
           e == [Address |-> q1.x, StorageKeys |-> l[2]]
<1>9. q = Ok(m)
  BY <1>6, <1>8, InOrderTwo
<1>10. m[1] = q1.x /\ m[2] = l[2]
  OBVIOUS
<1> HIDE DEF m, q
<1>11. ReadAccessElement(b).x = e
  BY <1>4, <1>9, <1>10, OkIsOk
<1>12. /\ e.Address = q1.x /\ e.StorageKeys = l[2]
       /\ e = [Address |-> e.Address, StorageKeys |-> e.StorageKeys]
  OBVIOUS
<1> HIDE DEF e
<1>13. SomeElement(e) /\ WellFormedElement(e)
  BY <1>2, <1>7, <1>8, <1>12, StrIsSound DEF SomeElement, WellFormedElement
<1> DEFINE r == InOrder(<<Ok(l[1]), Ok(l[2])>>)
<1>14. r = Ok(<<l[1], l[2]>>)
  BY InOrderTwo, OkIsOk
<1>15. <<l[1], l[2]>> = l
  <2>1. <<l[1], l[2]>> = [i \in 1 .. 2 |-> l[i]]
    OBVIOUS
  <2> QED
    BY <1>3, <2>1
<1>16. packAccessElement(e) = IF r.st = "ok" THEN Ok(List(r.x)) ELSE r
  BY <1>7, <1>8, <1>12, ElementPacked
<1>17. packAccessElement(e) = Ok(b)
  BY <1>3, <1>14, <1>15, <1>16, OkIsOk
<1> QED
  BY <1>11, <1>13, <1>17

LEMMA AccessStore ==
    ASSUME NEW x, Listed(x), \A i \in 1 .. Len(x.l) : SomeElement(x.l[i]),
           Elements(x, packAccessElement).st = "ok"
    PROVE  LET y == Elements(x, packAccessElement).x
           IN  /\ Listed(y) /\ \A i \in 1 .. Len(y.l) : Nested(y.l[i])
               /\ FromList(y, ReadAccessElement) =
                      Ok(List([i \in DOMAIN x.l |-> NormalElement(x.l[i])]))
<1> DEFINE l == x.l
           N == Len(l)
           calls == [i \in DOMAIN l |-> packAccessElement(l[i])]
<1>1. N \in Nat /\ DOMAIN l = 1 .. N /\ \A i \in 1 .. N : SomeElement(l[i])
  BY TupleFacts DEF Listed
<1> HIDE DEF l, N
<1>2. Elements(x, packAccessElement) = Then(InOrder(calls), List)
  BY DEF Elements, l
<1>3. DOMAIN calls = 1 .. N /\ \A i \in 1 .. N : calls[i] = packAccessElement(l[i])
  BY <1>1
<1> HIDE DEF calls
<1>4. \A i \in 1 .. N : calls[i].st = "ok"
  BY <1>1, <1>2, <1>3, ListCallsOk
<1> DEFINE k == [i \in 1 .. N |-> calls[i].x]
<1>5. Elements(x, packAccessElement) = Ok(List(k))
  BY <1>1, <1>2, <1>3, <1>4, ListCalls
<1>6. \A i \in 1 .. N : k[i] = calls[i].x
  OBVIOUS
<1>7. k = [i \in 1 .. N |-> k[i]]
  OBVIOUS
<1> HIDE DEF k
<1>8. Len(k) = N /\ Tuple(k) /\ DOMAIN k = 1 .. N
  BY <1>1, <1>7, TupleOf
<1>9. ASSUME NEW i \in 1 .. N
      PROVE  Nested(k[i]) /\ ReadAccessElement(k[i]) = Ok(NormalElement(l[i]))
  <2>1. SomeElement(l[i]) /\ packAccessElement(l[i]).st = "ok" /\ k[i] = packAccessElement(l[i]).x
    BY <1>1, <1>3, <1>4, <1>6
  <2> QED
    BY <2>1, ElementStores
<1>10. List(k).l = k /\ IsList(List(k)) /\ Listed(List(k))
  BY <1>8, ThenEnds DEF Listed
<1> DEFINE back == [i \in DOMAIN k |-> ReadAccessElement(k[i])]
<1>11. DOMAIN back = 1 .. N /\ \A i \in 1 .. N : back[i] = ReadAccessElement(k[i])
  BY <1>8
<1>12. FromList(List(k), ReadAccessElement) = Then(InOrder(back), List)
  BY <1>10 DEF FromList, Elements
<1> HIDE DEF back
<1>13. \A i \in 1 .. N : back[i].st = "ok" /\ back[i].x = NormalElement(l[i])
  BY <1>9, <1>11, OkIsOk
<1>14. [i \in 1 .. N |-> back[i].x] = [i \in 1 .. N |-> NormalElement(l[i])]
  BY <1>13
<1>15. Then(InOrder(back), List) = Ok(List([i \in 1 .. N |-> back[i].x]))
  BY <1>1, <1>11, <1>13, ListCalls
<1>16. FromList(List(k), ReadAccessElement) = Ok(List([i \in DOMAIN l |-> NormalElement(l[i])]))
  BY <1>1, <1>12, <1>14, <1>15
<1>17. Elements(x, packAccessElement).x = List(k)
  BY <1>5, OkIsOk
<1>18. \A i \in 1 .. Len(k) : Nested(k[i])
  BY <1>8, <1>9
<1> QED
  BY <1>10, <1>16, <1>17, <1>18 DEF l

LEMMA AccessKeep ==
    ASSUME NEW x, Listed(x), \A i \in 1 .. Len(x.l) : SomeElement(x.l[i]),
           \A i \in DOMAIN x.l : WellFormedElement(x.l[i])
    PROVE  /\ Elements(x, packAccessElement).st = "ok"
           /\ List([i \in DOMAIN x.l |-> NormalElement(x.l[i])]) = x
<1> DEFINE l == x.l
           N == Len(l)
           calls == [i \in DOMAIN l |-> packAccessElement(l[i])]
<1>1. N \in Nat /\ DOMAIN l = 1 .. N
  BY TupleFacts DEF Listed
<1>2. \A i \in 1 .. N : SomeElement(l[i]) /\ WellFormedElement(l[i])
  BY <1>1
<1>3. x = List(l) /\ l = [i \in 1 .. N |-> l[i]]
  BY DEF Listed, Tuple
<1> HIDE DEF l, N
<1>4. Elements(x, packAccessElement) = Then(InOrder(calls), List)
  BY DEF Elements, l
<1>5. DOMAIN calls = 1 .. N /\ \A i \in 1 .. N : calls[i] = packAccessElement(l[i])
  BY <1>1
<1> HIDE DEF calls
<1>6. \A i \in 1 .. N : packAccessElement(l[i]).st = "ok" /\ NormalElement(l[i]) = l[i]
  BY <1>2, ElementKept
<1>7. Elements(x, packAccessElement).st = "ok"
  <2>1. \A i \in 1 .. N : calls[i].st = "ok"
    BY <1>5, <1>6
  <2>2. Then(InOrder(calls), List) = Ok(List([i \in 1 .. N |-> calls[i].x]))
    BY <1>1, <1>5, <2>1, ListCalls
  <2> QED
    BY <1>4, <2>2, OkIsOk
<1>8. [i \in DOMAIN l |-> NormalElement(l[i])] = [i \in 1 .. N |-> l[i]]
  BY <1>1, <1>6
<1> QED
  BY <1>3, <1>7, <1>8 DEF l

LEMMA AccessLoad ==
    ASSUME NEW x, IsList(x) => Listed(x),
           IsList(x) => \A i \in 1 .. Len(x.l) : Nested(x.l[i]),
           FromList(x, ReadAccessElement).st = "ok"
    PROVE  LET n == FromList(x, ReadAccessElement).x
           IN  /\ Listed(n) /\ \A i \in 1 .. Len(n.l) : SomeElement(n.l[i])
               /\ \A i \in DOMAIN n.l : WellFormedElement(n.l[i])
               /\ Elements(n, packAccessElement) = Ok(x)
<1> DEFINE l == x.l
           N == Len(l)
           calls == [i \in DOMAIN l |-> ReadAccessElement(l[i])]
<1>1. IsList(x) /\ FromList(x, ReadAccessElement) = Then(InOrder(calls), List)
  BY Failures DEF FromList, Elements
<1>2. N \in Nat /\ DOMAIN l = 1 .. N /\ \A i \in 1 .. N : Nested(l[i])
  BY <1>1, TupleFacts DEF Listed
<1>3. x = List(l) /\ l = [i \in 1 .. N |-> l[i]]
  BY <1>1 DEF Listed, Tuple
<1> HIDE DEF l, N
<1>4. DOMAIN calls = 1 .. N /\ \A i \in 1 .. N : calls[i] = ReadAccessElement(l[i])
  BY <1>2
<1> HIDE DEF calls
<1>5. \A i \in 1 .. N : calls[i].st = "ok"
  BY <1>1, <1>2, <1>4, ListCallsOk
<1> DEFINE k == [i \in 1 .. N |-> calls[i].x]
<1>6. FromList(x, ReadAccessElement) = Ok(List(k))
  BY <1>1, <1>2, <1>4, <1>5, ListCalls
<1>7. \A i \in 1 .. N : k[i] = calls[i].x
  OBVIOUS
<1>8. k = [i \in 1 .. N |-> k[i]]
  OBVIOUS
<1> HIDE DEF k
<1>9. Len(k) = N /\ Tuple(k) /\ DOMAIN k = 1 .. N
  BY <1>2, <1>8, TupleOf
<1>10. ASSUME NEW i \in 1 .. N
       PROVE  SomeElement(k[i]) /\ WellFormedElement(k[i]) /\ packAccessElement(k[i]) = Ok(l[i])
  <2>1. Nested(l[i]) /\ ReadAccessElement(l[i]).st = "ok" /\ k[i] = ReadAccessElement(l[i]).x
    BY <1>2, <1>4, <1>5, <1>7
  <2> QED
    BY <2>1, ElementLoads
<1>11. List(k).l = k /\ IsList(List(k)) /\ Listed(List(k))
  BY <1>9, ThenEnds DEF Listed
<1> DEFINE packs == [i \in DOMAIN k |-> packAccessElement(k[i])]
<1>12. DOMAIN packs = 1 .. N /\ \A i \in 1 .. N : packs[i] = packAccessElement(k[i])
  BY <1>9
<1>13. Elements(List(k), packAccessElement) = Then(InOrder(packs), List)
  BY <1>11 DEF Elements
<1> HIDE DEF packs
<1>14. \A i \in 1 .. N : packs[i].st = "ok" /\ packs[i].x = l[i]
  BY <1>10, <1>12, OkIsOk
<1>15. [i \in 1 .. N |-> packs[i].x] = [i \in 1 .. N |-> l[i]]
  BY <1>14
<1>16. Then(InOrder(packs), List) = Ok(List([i \in 1 .. N |-> packs[i].x]))
  BY <1>2, <1>12, <1>14, ListCalls
<1>17. Elements(List(k), packAccessElement) = Ok(x)
  BY <1>3, <1>13, <1>15, <1>16
<1>18. FromList(x, ReadAccessElement).x = List(k)
  BY <1>6, OkIsOk
<1>19. (\A i \in 1 .. Len(k) : SomeElement(k[i])) /\ \A i \in DOMAIN k : WellFormedElement(k[i])
  BY <1>9, <1>10
<1> QED
  BY <1>11, <1>17, <1>18, <1>19

----------------------------------------------------------------------------
(* Transactions (tx/): the fields of each type and their places.           *)

TxTypes == {LegacyTx, AccessListTx, DynamicFeeTx}
Contents == TxFields \ {"TxType"}

(* What the table of fields of a type is good for. *)
Orderly(type, fields) ==
    /\ requiredPackFuncs(type) = fields
    /\ Len(fields) \in Nat /\ DOMAIN fields = 1 .. Len(fields)
    /\ \A i, j \in 1 .. Len(fields) : fields[i] = fields[j] => i = j
    /\ \A i \in 1 .. Len(fields) : fields[i] \in Contents
    /\ \A f \in Contents :
          f \in NullFor(type) <=> ~ \E i \in 1 .. Len(fields) : fields[i] = f

LEMMA TypesDiffer == LegacyTx = 0 /\ AccessListTx = 1 /\ DynamicFeeTx = 2
  BY DEF LegacyTx, AccessListTx, DynamicFeeTx

LEMMA ContentNames ==
    Contents = {"ChainID", "AccountNonce", "GasPrice", "GasTipCap",
                "GasFeeCap", "GasLimit", "Recipient", "Amount", "Data",
                "AccessList", "V", "R", "S"}
  BY DEF Contents, TxFields

LEMMA LegacyFields ==
    Orderly(LegacyTx,
        <<"AccountNonce", "GasPrice", "GasLimit", "Recipient", "Amount",
          "Data", "V", "R", "S">>)
<1> DEFINE q == <<"AccountNonce", "GasPrice", "GasLimit", "Recipient",
                  "Amount", "Data", "V", "R", "S">>
           place == [AccountNonce |-> 1, GasPrice |-> 2, GasLimit |-> 3,
                     Recipient |-> 4, Amount |-> 5, Data |-> 6, V |-> 7,
                     R |-> 8, S |-> 9]
<1>1. requiredPackFuncs(LegacyTx) = q
  BY TypesDiffer DEF requiredPackFuncs
<1>2. Len(q) = 9 /\ DOMAIN q = 1 .. 9
  OBVIOUS
<1>3. /\ q[1] = "AccountNonce" /\ q[2] = "GasPrice" /\ q[3] = "GasLimit"
      /\ q[4] = "Recipient" /\ q[5] = "Amount" /\ q[6] = "Data"
      /\ q[7] = "V" /\ q[8] = "R" /\ q[9] = "S"
  OBVIOUS
<1> HIDE DEF q
<1>4. /\ place["AccountNonce"] = 1 /\ place["GasPrice"] = 2 /\ place["GasLimit"] = 3
      /\ place["Recipient"] = 4 /\ place["Amount"] = 5 /\ place["Data"] = 6
      /\ place["V"] = 7 /\ place["R"] = 8 /\ place["S"] = 9
  OBVIOUS
<1> HIDE DEF place
<1>5. \A i \in 1 .. 9 : place[q[i]] = i
  BY <1>3, <1>4
<1>6. \A i, j \in 1 .. 9 : q[i] = q[j] => i = j
  BY <1>5
<1>7. \A i \in 1 .. 9 : q[i] \in Contents
  BY <1>3, ContentNames
<1>8. NullFor(LegacyTx) = {"ChainID", "GasTipCap", "GasFeeCap", "AccessList"}
  BY TypesDiffer DEF NullFor
<1>9. \A f \in Contents : f \in NullFor(LegacyTx) <=> ~ \E i \in 1 .. 9 : q[i] = f
  <2>1. \A i \in 1 .. 9 : q[i] \notin NullFor(LegacyTx)
    BY <1>3, <1>8
  <2>2. ASSUME NEW f \in Contents, f \notin NullFor(LegacyTx)
        PROVE  \E i \in 1 .. 9 : q[i] = f
    <3>1. f \in {"AccountNonce", "GasPrice", "GasLimit", "Recipient",
              "Amount", "Data", "V", "R", "S"}
      BY <1>8, <2>2, ContentNames
    <3> QED
      BY <1>3, <3>1
  <2> QED
    BY <2>1, <2>2
<1> QED
  BY <1>1, <1>2, <1>6, <1>7, <1>9 DEF Orderly, q

LEMMA AccessListFields ==
    Orderly(AccessListTx,
        <<"ChainID", "AccountNonce", "GasPrice", "GasLimit", "Recipient",
          "Amount", "Data", "AccessList", "V", "R", "S">>)
<1> DEFINE q == <<"ChainID", "AccountNonce", "GasPrice", "GasLimit",
                  "Recipient", "Amount", "Data", "AccessList", "V", "R",
                  "S">>
           place == [ChainID |-> 1, AccountNonce |-> 2, GasPrice |-> 3,
                     GasLimit |-> 4, Recipient |-> 5, Amount |-> 6,
                     Data |-> 7, AccessList |-> 8, V |-> 9, R |-> 10,
                     S |-> 11]
<1>1. requiredPackFuncs(AccessListTx) = q
  BY TypesDiffer DEF requiredPackFuncs
<1>2. Len(q) = 11 /\ DOMAIN q = 1 .. 11
  OBVIOUS
<1>3. /\ q[1] = "ChainID" /\ q[2] = "AccountNonce" /\ q[3] = "GasPrice"
      /\ q[4] = "GasLimit" /\ q[5] = "Recipient" /\ q[6] = "Amount"
      /\ q[7] = "Data" /\ q[8] = "AccessList" /\ q[9] = "V"
      /\ q[10] = "R" /\ q[11] = "S"
  OBVIOUS
<1> HIDE DEF q
<1>4. /\ place["ChainID"] = 1 /\ place["AccountNonce"] = 2 /\ place["GasPrice"] = 3
      /\ place["GasLimit"] = 4 /\ place["Recipient"] = 5 /\ place["Amount"] = 6
      /\ place["Data"] = 7 /\ place["AccessList"] = 8 /\ place["V"] = 9
      /\ place["R"] = 10 /\ place["S"] = 11
  OBVIOUS
<1> HIDE DEF place
<1>5. \A i \in 1 .. 11 : place[q[i]] = i
  BY <1>3, <1>4
<1>6. \A i, j \in 1 .. 11 : q[i] = q[j] => i = j
  BY <1>5
<1>7. \A i \in 1 .. 11 : q[i] \in Contents
  BY <1>3, ContentNames
<1>8. NullFor(AccessListTx) = {"GasTipCap", "GasFeeCap"}
  BY TypesDiffer DEF NullFor
<1>9. \A f \in Contents : f \in NullFor(AccessListTx) <=> ~ \E i \in 1 .. 11 : q[i] = f
  <2>1. \A i \in 1 .. 11 : q[i] \notin NullFor(AccessListTx)
    BY <1>3, <1>8
  <2>2. ASSUME NEW f \in Contents, f \notin NullFor(AccessListTx)
        PROVE  \E i \in 1 .. 11 : q[i] = f
    <3>1. f \in {"ChainID", "AccountNonce", "GasPrice", "GasLimit",
              "Recipient", "Amount", "Data", "AccessList", "V", "R", "S"}
      BY <1>8, <2>2, ContentNames
    <3> QED
      BY <1>3, <3>1
  <2> QED
    BY <2>1, <2>2
<1> QED
  BY <1>1, <1>2, <1>6, <1>7, <1>9 DEF Orderly, q

LEMMA DynamicFeeFields ==
    Orderly(DynamicFeeTx,
        <<"ChainID", "AccountNonce", "GasTipCap", "GasFeeCap", "GasLimit",
          "Recipient", "Amount", "Data", "AccessList", "V", "R", "S">>)
<1> DEFINE q == <<"ChainID", "AccountNonce", "GasTipCap", "GasFeeCap",
                  "GasLimit", "Recipient", "Amount", "Data", "AccessList",
                  "V", "R", "S">>
           place == [ChainID |-> 1, AccountNonce |-> 2, GasTipCap |-> 3,
                     GasFeeCap |-> 4, GasLimit |-> 5, Recipient |-> 6,
                     Amount |-> 7, Data |-> 8, AccessList |-> 9, V |-> 10,
                     R |-> 11, S |-> 12]
<1>1. requiredPackFuncs(DynamicFeeTx) = q
  BY TypesDiffer DEF requiredPackFuncs
<1>2. Len(q) = 12 /\ DOMAIN q = 1 .. 12
  OBVIOUS
<1>3. /\ q[1] = "ChainID" /\ q[2] = "AccountNonce" /\ q[3] = "GasTipCap"
      /\ q[4] = "GasFeeCap" /\ q[5] = "GasLimit" /\ q[6] = "Recipient"
      /\ q[7] = "Amount" /\ q[8] = "Data" /\ q[9] = "AccessList"
      /\ q[10] = "V" /\ q[11] = "R" /\ q[12] = "S"
  OBVIOUS
<1> HIDE DEF q
<1>4. /\ place["ChainID"] = 1 /\ place["AccountNonce"] = 2 /\ place["GasTipCap"] = 3
      /\ place["GasFeeCap"] = 4 /\ place["GasLimit"] = 5 /\ place["Recipient"] = 6
      /\ place["Amount"] = 7 /\ place["Data"] = 8 /\ place["AccessList"] = 9
      /\ place["V"] = 10 /\ place["R"] = 11 /\ place["S"] = 12
  OBVIOUS
<1> HIDE DEF place
<1>5. \A i \in 1 .. 12 : place[q[i]] = i
  BY <1>3, <1>4
<1>6. \A i, j \in 1 .. 12 : q[i] = q[j] => i = j
  BY <1>5
<1>7. \A i \in 1 .. 12 : q[i] \in Contents
  BY <1>3, ContentNames
<1>8. NullFor(DynamicFeeTx) = {"GasPrice"}
  BY TypesDiffer DEF NullFor
<1>9. \A f \in Contents : f \in NullFor(DynamicFeeTx) <=> ~ \E i \in 1 .. 12 : q[i] = f
  <2>1. \A i \in 1 .. 12 : q[i] \notin NullFor(DynamicFeeTx)
    BY <1>3, <1>8
  <2>2. ASSUME NEW f \in Contents, f \notin NullFor(DynamicFeeTx)
        PROVE  \E i \in 1 .. 12 : q[i] = f
    <3>1. f \in {"ChainID", "AccountNonce", "GasTipCap", "GasFeeCap",
              "GasLimit", "Recipient", "Amount", "Data", "AccessList",
              "V", "R", "S"}
      BY <1>8, <2>2, ContentNames
    <3> QED
      BY <1>3, <3>1
  <2> QED
    BY <2>1, <2>2
<1> QED
  BY <1>1, <1>2, <1>6, <1>7, <1>9 DEF Orderly, q

(* For whatever type. *)
LEMMA TxOrder ==
    ASSUME NEW t \in TxTypes
    PROVE  Orderly(t, requiredPackFuncs(t))
<1>1. CASE t = LegacyTx
  BY <1>1, LegacyFields DEF Orderly
<1>2. CASE t = AccessListTx
  BY <1>2, AccessListFields DEF Orderly
<1>3. CASE t = DynamicFeeTx
  BY <1>3, DynamicFeeFields DEF Orderly
<1> QED
  BY <1>1, <1>2, <1>3 DEF TxTypes

(* The place where a field is found is the one where it is. *)
LEMMA TxFieldAt ==
    ASSUME NEW t \in TxTypes
    PROVE  LET fields == requiredPackFuncs(t)
           IN  /\ Len(fields) \in Nat /\ DOMAIN fields = 1 .. Len(fields)
               /\ \A i \in 1 .. Len(fields) :
                     /\ fields[i] \in Contents /\ HasField(t, fields[i])
                     /\ (CHOOSE j \in DOMAIN fields : fields[j] = fields[i]) = i
               /\ \A f \in Contents :
                     /\ f \in NullFor(t) <=> ~HasField(t, f)
                     /\ HasField(t, f) => \E i \in 1 .. Len(fields) : fields[i] = f
<1> DEFINE fields == requiredPackFuncs(t)
           N == Len(fields)
<1>1. /\ N \in Nat /\ DOMAIN fields = 1 .. N
      /\ \A i, j \in 1 .. N : fields[i] = fields[j] => i = j
      /\ \A i \in 1 .. N : fields[i] \in Contents
      /\ \A f \in Contents :
            f \in NullFor(t) <=> ~ \E i \in 1 .. N : fields[i] = f
  BY TxOrder DEF Orderly
<1>2. \A f : HasField(t, f) <=> \E i \in 1 .. N : fields[i] = f
  BY <1>1 DEF HasField
<1> HIDE DEF fields, N
<1>3. ASSUME NEW i \in 1 .. N
      PROVE  (CHOOSE j \in DOMAIN fields : fields[j] = fields[i]) = i
  <2> DEFINE k == CHOOSE j \in 1 .. N : fields[j] = fields[i]
  <2>1. k \in 1 .. N /\ fields[k] = fields[i]
    BY Zenon
  <2> HIDE DEF k
  <2>2. k = i
    BY <1>1, <2>1
  <2> QED
    BY <1>1, <2>2, Zenon DEF k
<1>4. \A i \in 1 .. N : fields[i] \in Contents /\ HasField(t, fields[i])
  BY <1>1, <1>2
<1>5. \A f \in Contents : /\ f \in NullFor(t) <=> ~HasField(t, f)
                          /\ HasField(t, f) => \E i \in 1 .. N : fields[i] = f
  BY <1>1, <1>2
<1> QED
  BY <1>1, <1>3, <1>4, <1>5 DEF fields, N

(* What a field may be, means and should be. *)
SomeContent(f, x) ==
    IF f = "AccessList"
    THEN x = Null \/ (Listed(x) /\ \A i \in 1 .. Len(x.l) : SomeElement(x.l[i]))
    ELSE Sound(x)

TxMeaning(f, x) ==
    CASE f \in BigInts    -> Bytes(SetBytes(x.b))
      [] f \in Uints      -> Bytes(SubSeq(x.b, 1, UintLen))
      [] f = "Recipient"  -> Bytes(Fit(x.b, AddressLen))
      [] f = "AccessList" -> List([i \in DOMAIN x.l |-> NormalElement(x.l[i])])
      [] OTHER            -> x

TxFieldOk(f, x) ==
    CASE f \in BigInts    -> IsInteger(x)
      [] f \in Uints      -> Sized(x, UintLen)
      [] f = "Recipient"  -> Sized(x, AddressLen)
      [] f = "Data"       -> IsBytes(x)
      [] f = "AccessList" -> \A i \in DOMAIN x.l : WellFormedElement(x.l[i])

LEMMA TxFieldNames ==
    ASSUME NEW f \in Contents
    PROVE  \/ f \in BigInts \/ f \in Uints
           \/ f = "Recipient" \/ f = "Data" \/ f = "AccessList"
  BY ContentNames DEF BigInts, SignatureFields, Uints

LEMMA TxKindBigInt ==
    ASSUME NEW n, NEW x, NEW f \in BigInts
    PROVE  /\ packField(n, f) = AsBytes(n[f], BigInt)
           /\ ReadField(f, x) = FromBigInt(x)
           /\ TxMeaning(f, x) = Bytes(SetBytes(x.b))
           /\ TxFieldOk(f, x) <=> IsInteger(x)
           /\ SomeContent(f, x) <=> Sound(x)
<1> USE DEF BigInts, SignatureFields, Uints
<1>1. packField(n, f) = AsBytes(n[f], BigInt)
  BY DEF packField
<1>2. ReadField(f, x) = FromBigInt(x)
  BY DEF ReadField
<1>3. TxMeaning(f, x) = Bytes(SetBytes(x.b))
  BY DEF TxMeaning
<1>4. TxFieldOk(f, x) <=> IsInteger(x)
  BY DEF TxFieldOk
<1>5. SomeContent(f, x) <=> Sound(x)
  BY DEF SomeContent
<1> QED
  BY <1>1, <1>2, <1>3, <1>4, <1>5

LEMMA TxKindUint ==
    ASSUME NEW n, NEW x, NEW f \in Uints
    PROVE  /\ packField(n, f) = AsBytes(n[f], Uint64)
           /\ ReadField(f, x) = FromUint64(x)
           /\ TxMeaning(f, x) = Bytes(SubSeq(x.b, 1, UintLen))
           /\ TxFieldOk(f, x) <=> Sized(x, UintLen)
           /\ SomeContent(f, x) <=> Sound(x)
<1> USE DEF BigInts, SignatureFields, Uints
<1>1. packField(n, f) = AsBytes(n[f], Uint64)
  BY DEF packField
<1>2. ReadField(f, x) = FromUint64(x)
  BY DEF ReadField
<1>3. TxMeaning(f, x) = Bytes(SubSeq(x.b, 1, UintLen))
  BY DEF TxMeaning
<1>4. TxFieldOk(f, x) <=> Sized(x, UintLen)
  BY DEF TxFieldOk
<1>5. SomeContent(f, x) <=> Sound(x)
  BY DEF SomeContent
<1> QED
  BY <1>1, <1>2, <1>3, <1>4, <1>5

LEMMA TxKindRecipient ==
    ASSUME NEW n, NEW x, NEW f, f = "Recipient"
    PROVE  /\ packField(n, f) = packRecipient(n[f])
           /\ ReadField(f, x) = ReadRecipient(x)
           /\ TxMeaning(f, x) = Bytes(Fit(x.b, AddressLen))
           /\ TxFieldOk(f, x) <=> Sized(x, AddressLen)
           /\ SomeContent(f, x) <=> Sound(x)
<1> USE DEF BigInts, SignatureFields, Uints
<1>1. packField(n, f) = packRecipient(n[f])
  BY DEF packField
<1>2. ReadField(f, x) = ReadRecipient(x)
  BY DEF ReadField
<1>3. TxMeaning(f, x) = Bytes(Fit(x.b, AddressLen))
  BY DEF TxMeaning
<1>4. TxFieldOk(f, x) <=> Sized(x, AddressLen)
  BY DEF TxFieldOk
<1>5. SomeContent(f, x) <=> Sound(x)
  BY DEF SomeContent
<1> QED
  BY <1>1, <1>2, <1>3, <1>4, <1>5

LEMMA TxKindData ==
    ASSUME NEW n, NEW x, NEW f, f = "Data"
    PROVE  /\ packField(n, f) = AsBytes(n[f], Blob)
           /\ ReadField(f, x) = FromBlob(x)
           /\ TxMeaning(f, x) = x
           /\ TxFieldOk(f, x) <=> IsBytes(x)
           /\ SomeContent(f, x) <=> Sound(x)
<1> USE DEF BigInts, SignatureFields, Uints
<1>1. packField(n, f) = AsBytes(n[f], Blob)
  BY DEF packField
<1>2. ReadField(f, x) = FromBlob(x)
  BY DEF ReadField
<1>3. TxMeaning(f, x) = x
  BY DEF TxMeaning
<1>4. TxFieldOk(f, x) <=> IsBytes(x)
  BY DEF TxFieldOk
<1>5. SomeContent(f, x) <=> Sound(x)
  BY DEF SomeContent
<1> QED
  BY <1>1, <1>2, <1>3, <1>4, <1>5

LEMMA TxKindAccessList ==
    ASSUME NEW n, NEW x, NEW f, f = "AccessList"
    PROVE  /\ packField(n, f) = createAccessList(n[f])
           /\ ReadField(f, x) = FromList(x, ReadAccessElement)
           /\ TxMeaning(f, x) = List([i \in DOMAIN x.l |-> NormalElement(x.l[i])])
           /\ TxFieldOk(f, x) <=> \A i \in DOMAIN x.l : WellFormedElement(x.l[i])
           /\ SomeContent(f, x) <=>
                \/ x = Null
                \/ Listed(x) /\ \A i \in 1 .. Len(x.l) : SomeElement(x.l[i])
<1> USE DEF BigInts, SignatureFields, Uints
<1>1. packField(n, f) = createAccessList(n[f])
  BY DEF packField
<1>2. ReadField(f, x) = FromList(x, ReadAccessElement)
  BY DEF ReadField
<1>3. TxMeaning(f, x) = List([i \in DOMAIN x.l |-> NormalElement(x.l[i])])
  BY DEF TxMeaning
<1>4. TxFieldOk(f, x) <=> \A i \in DOMAIN x.l : WellFormedElement(x.l[i])
  BY DEF TxFieldOk
<1>5. SomeContent(f, x) <=>
        \/ x = Null
        \/ Listed(x) /\ \A i \in 1 .. Len(x.l) : SomeElement(x.l[i])
  BY DEF SomeContent
<1> QED
  BY <1>1, <1>2, <1>3, <1>4, <1>5

(* A transaction without a recipient creates a contract. *)
LEMMA RecipientLaw ==
    ASSUME NEW x, Sound(x)
    PROVE  /\ packRecipient(x).st = "ok" =>
                /\ Str(packRecipient(x).x) /\ (x # Null => IsBytes(x))
                /\ ReadRecipient(packRecipient(x).x) =
                       Ok(IF x = Null THEN Null ELSE Bytes(Fit(x.b, AddressLen)))
           /\ x = Null => packRecipient(x).st = "ok"
           /\ Sized(x, AddressLen) => /\ packRecipient(x).st = "ok"
                                      /\ Bytes(Fit(x.b, AddressLen)) = x
           /\ ReadRecipient(x).st = "ok" =>
                /\ Sound(ReadRecipient(x).x)
                /\ ReadRecipient(x).x # Null => Sized(ReadRecipient(x).x, AddressLen)
                /\ packRecipient(ReadRecipient(x).x) = Ok(x)
<1> DEFINE e == Bytes(<< >>)
<1>1. Str(e) /\ e.b = << >> /\ IsBytes(e)
  BY Statuses, StrIsBytes DEF Bytes, IsBytes
<1>2. AddressLen \in Nat /\ AddressLen # 0
  BY SizeAssumption
<1>3. \A y : Sized(y, AddressLen) => ~(IsBytes(y) /\ y.b = << >>) /\ y # Null
  BY <1>2 DEF Sized, IsBytes, Null
<1>4. ReadRecipient(e) = Ok(Null)
  BY <1>1 DEF ReadRecipient
<1> HIDE DEF e
<1>5. CASE x = Null
  <2>1. packRecipient(x) = Ok(e)
    BY <1>5 DEF packRecipient, e
  <2>2. ~IsBytes(x) /\ ~Sized(x, AddressLen)
    BY <1>5 DEF IsBytes, Null, Sized
  <2>3. ReadRecipient(x).st # "ok"
    BY <2>2, Failures DEF ReadRecipient, FromAddress, FromArray
  <2> QED
    BY <1>1, <1>4, <1>5, <2>1, <2>2, <2>3, OkIsOk
<1>6. CASE x # Null
  <2> DEFINE p == AsBytes(x, Address)
             a == Bytes(Fit(x.b, AddressLen))
  <2>1. packRecipient(x) = p
    BY <1>6 DEF packRecipient
  <2>2. p.st = "ok" => Str(p.x) /\ IsBytes(x) /\ FromAddress(p.x) = Ok(a)
    BY AddressLaw
  <2>3. Sized(x, AddressLen) => p.st = "ok" /\ a = x
    BY AddressLaw
  <2> HIDE DEF p, a
  <2>4. p.st = "ok" => ReadRecipient(p.x) = Ok(a)
    <3>1. p.st = "ok" => Sized(p.x, AddressLen)
      <4>1. FromAddress(p.x).st = "ok" => Sized(p.x, AddressLen)
        BY Failures DEF FromAddress, FromArray
      <4> QED
        BY <2>2, <4>1, OkIsOk
    <3> QED
      BY <1>3, <2>2, <3>1 DEF ReadRecipient
  <2>5. ASSUME ReadRecipient(x).st = "ok"
        PROVE  /\ Sound(ReadRecipient(x).x)
               /\ ReadRecipient(x).x # Null => Sized(ReadRecipient(x).x, AddressLen)
               /\ packRecipient(ReadRecipient(x).x) = Ok(x)
    <3>1. CASE IsBytes(x) /\ x.b = << >>
      <4>1. ReadRecipient(x) = Ok(Null) /\ x = e
        BY <3>1, StrIsBytes DEF ReadRecipient, Sound, e, Str
      <4>2. packRecipient(Null) = Ok(e) /\ Sound(Null)
        BY DEF packRecipient, e, Sound, IsBytes, Null
      <4> QED
        BY <4>1, <4>2, OkIsOk
    <3>2. CASE ~(IsBytes(x) /\ x.b = << >>)
      <4> DEFINE q == FromAddress(x)
      <4>1. ReadRecipient(x) = q
        BY <3>2 DEF ReadRecipient
      <4>2. Str(q.x) /\ Sized(q.x, AddressLen) /\ AsBytes(q.x, Address) = Ok(x)
        BY <2>5, <4>1, AddressLaw
      <4> HIDE DEF q
      <4>3. q.x # Null /\ Sound(q.x)
        BY <1>3, <4>2, StrIsSound
      <4>4. packRecipient(q.x) = Ok(x)
        BY <4>2, <4>3 DEF packRecipient
      <4> QED
        BY <4>1, <4>2, <4>3, <4>4
    <3> QED
      BY <3>1, <3>2
  <2> QED
    BY <1>6, <2>1, <2>2, <2>3, <2>4, <2>5 DEF a
<1> QED
  BY <1>5, <1>6

LEMMA NullIsNothing ==
    /\ ~IsBytes(Null) /\ ~IsInteger(Null) /\ (\A k : ~Sized(Null, k))
    /\ ~IsList(Null) /\ Sound(Null) /\ createAccessList(Null).st # "ok"
  BY Failures DEF IsBytes, IsInteger, Sized, IsList, Null, Sound, createAccessList

LEMMA TxFieldStores ==
    ASSUME NEW n, NEW f \in Contents, SomeContent(f, n[f]),
           packField(n, f).st = "ok"
    PROVE  LET x == packField(n, f).x
               y == n[f]
           IN  /\ Nested2(x) /\ (y = Null => f = "Recipient")
               /\ ReadField(f, x) = Ok(IF y = Null THEN Null ELSE TxMeaning(f, y))
<1> DEFINE x == packField(n, f).x
           y == n[f]
           m == TxMeaning(f, y)
<1>1. packField(n, f).st = "ok" /\ SomeContent(f, y)
  OBVIOUS
<1>2. IsBytes(y) \/ IsList(y) => y # Null
  BY NullIsNothing
<1> SUFFICES /\ Nested2(x) /\ (y = Null => f = "Recipient")
             /\ ReadField(f, x) = Ok(IF y = Null THEN Null ELSE m)
  OBVIOUS
<1>a. CASE f \in BigInts
  <2> DEFINE p == AsBytes(y, BigInt)
  <2>1. packField(n, f) = p /\ Sound(y) /\ m = Bytes(SetBytes(y.b))
    BY <1>1, <1>a, TxKindBigInt
  <2>2. Str(p.x) /\ IsBytes(y) /\ FromBigInt(p.x) = Ok(Bytes(SetBytes(y.b)))
    BY <1>1, <2>1, BigIntLaw
  <2> HIDE DEF p
  <2>3. ReadField(f, p.x) = FromBigInt(p.x)
    BY <1>a, TxKindBigInt
  <2> QED
    BY <1>2, <2>1, <2>2, <2>3, StrIsNested
<1>b. CASE f \in Uints
  <2> DEFINE p == AsBytes(y, Uint64)
             v == Bytes(SubSeq(y.b, 1, UintLen))
  <2>1. packField(n, f) = p /\ Sound(y) /\ m = v
    BY <1>1, <1>b, TxKindUint
  <2>2. Str(p.x) /\ IsBytes(y) /\ FromUint64(p.x) = Ok(v)
    BY <1>1, <2>1, UintLaw
  <2> HIDE DEF p, v, m
  <2>3. ReadField(f, p.x) = FromUint64(p.x)
    BY <1>b, TxKindUint
  <2> QED
    BY <1>2, <2>1, <2>2, <2>3, StrIsNested
<1>c. CASE f = "Recipient"
  <2> DEFINE p == packRecipient(y)
             v == Bytes(Fit(y.b, AddressLen))
  <2>1. packField(n, f) = p /\ Sound(y) /\ m = v
    BY <1>1, <1>c, TxKindRecipient
  <2>2. /\ Str(p.x)
        /\ ReadRecipient(p.x) = Ok(IF y = Null THEN Null ELSE v)
    BY <1>1, <2>1, RecipientLaw
  <2> HIDE DEF p, v, m
  <2>3. ReadField(f, p.x) = ReadRecipient(p.x)
    BY <1>c, TxKindRecipient
  <2> QED
    BY <1>c, <2>1, <2>2, <2>3, StrIsNested
<1>d. CASE f = "Data"
  <2> DEFINE p == AsBytes(y, Blob)
  <2>1. packField(n, f) = p /\ Sound(y) /\ m = y
    BY <1>1, <1>d, TxKindData
  <2>2. IsBytes(y) /\ p = Ok(y) /\ FromBlob(y) = Ok(y) /\ Str(y)
    BY <1>1, <2>1, BlobLaw
  <2> HIDE DEF p, m
  <2>3. ReadField(f, y) = FromBlob(y) /\ x = y
    BY <1>d, <2>1, <2>2, OkIsOk, TxKindData
  <2> QED
    BY <1>2, <2>1, <2>2, <2>3, StrIsNested
<1>e. CASE f = "AccessList"
  <2> DEFINE p == Elements(y, packAccessElement)
             v == List([i \in DOMAIN y.l |-> NormalElement(y.l[i])])
  <2>1. packField(n, f) = createAccessList(y) /\ m = v
    BY <1>e, TxKindAccessList
  <2>2. y # Null
    BY <1>1, <2>1, NullIsNothing
  <2>3. Listed(y) /\ \A i \in 1 .. Len(y.l) : SomeElement(y.l[i])
    BY <1>1, <1>e, <2>2, TxKindAccessList
  <2>4. packField(n, f) = p
    BY <2>1, <2>2 DEF createAccessList
  <2>5. /\ Listed(p.x) /\ (\A i \in 1 .. Len(p.x.l) : Nested(p.x.l[i]))
        /\ FromList(p.x, ReadAccessElement) = Ok(v)
    BY <1>1, <2>3, <2>4, AccessStore
  <2> HIDE DEF p, v, m
  <2>6. ReadField(f, p.x) = FromList(p.x, ReadAccessElement)
    BY <1>e, TxKindAccessList
  <2> QED
    BY <2>1, <2>2, <2>4, <2>5, <2>6, ListedNested
<1> QED
  BY <1>a, <1>b, <1>c, <1>d, <1>e, TxFieldNames

LEMMA TxFieldKept ==
    ASSUME NEW n, NEW f \in Contents, SomeContent(f, n[f]),
           n[f] = Null => f = "Recipient",
           n[f] # Null => TxFieldOk(f, n[f])
    PROVE  /\ packField(n, f).st = "ok"
           /\ n[f] # Null => TxMeaning(f, n[f]) = n[f]
<1> DEFINE y == n[f]
<1>1. /\ SomeContent(f, y) /\ (y = Null => f = "Recipient")
      /\ (y # Null => TxFieldOk(f, y))
  OBVIOUS
<1> SUFFICES packField(n, f).st = "ok" /\ (y # Null => TxMeaning(f, y) = y)
  OBVIOUS
<1>a. CASE f \in BigInts
  <2>1. f # "Recipient"
    BY <1>a DEF BigInts, SignatureFields
  <2>2. Sound(y) /\ IsInteger(y)
    BY <1>1, <1>a, <2>1, TxKindBigInt
  <2>3. AsBytes(y, BigInt).st = "ok" /\ Bytes(SetBytes(y.b)) = y
    BY <2>2, BigIntLaw
  <2> QED
    BY <1>a, <2>3, TxKindBigInt
<1>b. CASE f \in Uints
  <2>1. f # "Recipient"
    BY <1>b DEF Uints
  <2>2. Sound(y) /\ Sized(y, UintLen)
    BY <1>1, <1>b, <2>1, TxKindUint
  <2>3. AsBytes(y, Uint64).st = "ok" /\ Bytes(SubSeq(y.b, 1, UintLen)) = y
    BY <2>2, UintLaw
  <2> QED
    BY <1>b, <2>3, TxKindUint
<1>c. CASE f = "Recipient"
  <2>1. Sound(y) /\ (y # Null => Sized(y, AddressLen))
    BY <1>1, <1>c, TxKindRecipient
  <2>2. packRecipient(y).st = "ok" /\ (y # Null => Bytes(Fit(y.b, AddressLen)) = y)
    BY <2>1, RecipientLaw
  <2> QED
    BY <1>c, <2>2, TxKindRecipient
<1>d. CASE f = "Data"
  <2>1. Sound(y) /\ IsBytes(y)
    BY <1>1, <1>d, TxKindData
  <2>2. AsBytes(y, Blob).st = "ok"
    BY <2>1, BlobLaw, OkIsOk
  <2> QED
    BY <1>d, <2>2, TxKindData
<1>e. CASE f = "AccessList"
  <2>1. y # Null
    BY <1>1, <1>e
  <2>2. /\ Listed(y) /\ (\A i \in 1 .. Len(y.l) : SomeElement(y.l[i]))
        /\ \A i \in DOMAIN y.l : WellFormedElement(y.l[i])
    BY <1>1, <1>e, <2>1, TxKindAccessList
  <2>3. /\ Elements(y, packAccessElement).st = "ok"
        /\ List([i \in DOMAIN y.l |-> NormalElement(y.l[i])]) = y
    BY <2>2, AccessKeep
  <2>4. createAccessList(y).st = "ok"
    BY <2>1, <2>3 DEF createAccessList
  <2> QED
    BY <1>e, <2>3, <2>4, TxKindAccessList
<1> QED
  BY <1>a, <1>b, <1>c, <1>d, <1>e, TxFieldNames

LEMMA TxFieldLoads ==
    ASSUME NEW n, NEW f \in Contents, NEW x, Nested2(x),
           ReadField(f, x).st = "ok", n[f] = ReadField(f, x).x
    PROVE  /\ SomeContent(f, n[f]) /\ (n[f] = Null => f = "Recipient")
           /\ n[f] # Null => TxFieldOk(f, n[f])
           /\ packField(n, f) = Ok(x)
<1> DEFINE y == n[f]
<1>1. ReadField(f, x).st = "ok" /\ y = ReadField(f, x).x
  OBVIOUS
<1>2. Sound(x)
  BY DEF Nested2, Flat
<1>3. Str(y) => Sound(y) /\ y # Null
  BY StrIsBytes, StrIsSound, NullIsNothing
<1> SUFFICES /\ SomeContent(f, y) /\ (y = Null => f = "Recipient")
             /\ y # Null => TxFieldOk(f, y)
             /\ packField(n, f) = Ok(x)
  OBVIOUS
<1>a. CASE f \in BigInts
  <2> DEFINE q == FromBigInt(x)
  <2>1. ReadField(f, x) = q
    BY <1>a, TxKindBigInt
  <2>2. Str(q.x) /\ IsInteger(q.x) /\ AsBytes(q.x, BigInt) = Ok(x)
    BY <1>1, <1>2, <2>1, BigIntLaw
  <2> HIDE DEF q
  <2>3. Str(y) /\ IsInteger(y) /\ AsBytes(y, BigInt) = Ok(x)
    BY <1>1, <2>1, <2>2
  <2> QED
    BY <1>3, <1>a, <2>3, TxKindBigInt
<1>b. CASE f \in Uints
  <2> DEFINE q == FromUint64(x)
  <2>1. ReadField(f, x) = q
    BY <1>b, TxKindUint
  <2>2. Str(q.x) /\ Sized(q.x, UintLen) /\ AsBytes(q.x, Uint64) = Ok(x)
    BY <1>1, <1>2, <2>1, UintLaw
  <2> HIDE DEF q
  <2>3. Str(y) /\ Sized(y, UintLen) /\ AsBytes(y, Uint64) = Ok(x)
    BY <1>1, <2>1, <2>2
  <2> QED
    BY <1>3, <1>b, <2>3, TxKindUint
<1>c. CASE f = "Recipient"
  <2> DEFINE q == ReadRecipient(x)
  <2>1. ReadField(f, x) = q
    BY <1>c, TxKindRecipient
  <2>2. /\ Sound(q.x) /\ (q.x # Null => Sized(q.x, AddressLen))
        /\ packRecipient(q.x) = Ok(x)
    BY <1>1, <1>2, <2>1, RecipientLaw
  <2> HIDE DEF q
  <2>3. /\ Sound(y) /\ (y # Null => Sized(y, AddressLen))
        /\ packRecipient(y) = Ok(x)
    BY <1>1, <2>1, <2>2
  <2> QED
    BY <1>c, <2>3, TxKindRecipient
<1>d. CASE f = "Data"
  <2>1. IsBytes(x) /\ FromBlob(x) = Ok(x) /\ AsBytes(x, Blob) = Ok(x) /\ Str(x)
    BY <1>1, <1>2, <1>d, BlobLaw, TxKindData
  <2>2. y = x
    BY <1>1, <1>d, <2>1, OkIsOk, TxKindData
  <2> QED
    BY <1>3, <1>d, <2>1, <2>2, TxKindData
<1>e. CASE f = "AccessList"
  <2> DEFINE q == FromList(x, ReadAccessElement)
  <2>1. ReadField(f, x) = q
    BY <1>e, TxKindAccessList
  <2>2. /\ IsList(x) => Listed(x)
        /\ IsList(x) => \A i \in 1 .. Len(x.l) : Nested(x.l[i])
    BY DEF Nested2, Flat, Listed
  <2>3. /\ Listed(q.x) /\ (\A i \in 1 .. Len(q.x.l) : SomeElement(q.x.l[i]))
        /\ (\A i \in DOMAIN q.x.l : WellFormedElement(q.x.l[i]))
        /\ Elements(q.x, packAccessElement) = Ok(x)
    BY <1>1, <2>1, <2>2, AccessLoad
  <2> HIDE DEF q
  <2>4. /\ Listed(y) /\ (\A i \in 1 .. Len(y.l) : SomeElement(y.l[i]))
        /\ (\A i \in DOMAIN y.l : WellFormedElement(y.l[i]))
        /\ Elements(y, packAccessElement) = Ok(x)
    BY <1>1, <2>1, <2>3
  <2>5. y # Null
    BY <2>4, NullIsNothing DEF Listed
  <2>6. createAccessList(y) = Ok(x)
    BY <2>4, <2>5 DEF createAccessList
  <2> QED
    BY <1>e, <2>4, <2>5, <2>6, TxKindAccessList
<1> QED
  BY <1>a, <1>b, <1>c, <1>d, <1>e, TxFieldNames

SomeTx(n) == /\ n = [f \in TxFields |-> n[f]] /\ Sound(n.TxType)
             /\ \A f \in Contents : SomeContent(f, n[f])

LEMMA TxMeans ==
    ASSUME NEW n, NEW f \in Contents, NEW t, n.TxType.b[1] = t
    PROVE  NormalTx(n)[f] = IF n[f] = Null \/ ~HasField(t, f) THEN Null
                            ELSE TxMeaning(f, n[f])
<1>1. f \in TxFields /\ f # "TxType"
  BY DEF Contents
<1>2. NormalTx(n)[f] =
        IF f = "TxType" \/ n[f] = Null THEN n[f]
        ELSE IF ~HasField(n.TxType.b[1], f) THEN Null
        ELSE TxMeaning(f, n[f])
  BY <1>1, Zenon DEF NormalTx, TxMeaning
<1> QED
  BY <1>1, <1>2

LEMMA TxMaps ==
    ASSUME NEW n
    PROVE  /\ NormalTx(n) = [f \in TxFields |-> NormalTx(n)[f]]
           /\ NormalTx(n)["TxType"] = n.TxType
           /\ DecodeTx(n) = [f \in TxFields |-> DecodeTx(n)[f]]
           /\ DecodeTx(n)["TxType"] = Bytes(<<n.type>>)
<1> DEFINE G(f) == IF f = "TxType" \/ n[f] = Null THEN n[f]
                   ELSE IF ~HasField(n.TxType.b[1], f) THEN Null
                   ELSE TxMeaning(f, n[f])
           H(f) == CASE f = "TxType" -> Bytes(<<n.type>>)
                     [] f \in NullFor(n.type) -> Null
                     [] OTHER -> Get(n, f)
<1>1. NormalTx(n) = [f \in TxFields |-> G(f)]
  BY Zenon DEF NormalTx, TxMeaning
<1>2. DecodeTx(n) = [f \in TxFields |-> H(f)]
  BY Zenon DEF DecodeTx
<1>3. G("TxType") = n.TxType
  OBVIOUS
<1>4. "TxType" \notin NullFor(n.type)
  BY DEF NullFor
<1>5. H("TxType") = Bytes(<<n.type>>)
  BY <1>4
<1>6. "TxType" \in TxFields
  BY DEF TxFields
<1> HIDE DEF G, H
<1> QED
  BY <1>1, <1>2, <1>3, <1>5, <1>6

LEMMA TxesEqual ==
    ASSUME NEW n, n = [f \in TxFields |-> n[f]],
           NEW k, k = [f \in TxFields |-> k[f]],
           n["TxType"] = k["TxType"], \A f \in Contents : n[f] = k[f]
    PROVE  n = k
<1>1. \A f \in TxFields : n[f] = k[f]
  BY DEF Contents
<1>2. [f \in TxFields |-> n[f]] = [f \in TxFields |-> k[f]]
  BY <1>1
<1> QED
  BY <1>2

(* The transaction of go-ethereum that has the items l. *)
TxOf(t, l) ==
    [type |-> t,
     get |-> [f \in {g \in TxFields : HasField(t, g)} |->
                 l[CHOOSE i \in DOMAIN requiredPackFuncs(t) :
                      requiredPackFuncs(t)[i] = f]]]

(* Each field is unpacked from its own item. *)
LEMMA TxAt ==
    ASSUME NEW t \in TxTypes, NEW l
    PROVE  /\ TxOf(t, l).type = t
           /\ \A i \in 1 .. Len(requiredPackFuncs(t)) :
                 DecodeTx(TxOf(t, l))[requiredPackFuncs(t)[i]] = l[i]
           /\ \A f \in Contents :
                 ~HasField(t, f) => DecodeTx(TxOf(t, l))[f] = Null
<1> DEFINE fields == requiredPackFuncs(t)
           N == Len(fields)
           tx == TxOf(t, l)
<1>1. tx.type = t
  BY DEF TxOf
<1>2. ASSUME NEW f \in Contents
      PROVE  DecodeTx(tx)[f] = IF f \in NullFor(t) THEN Null ELSE Get(tx, f)
  <2>1. f \in TxFields /\ f # "TxType"
    BY DEF Contents
  <2>2. DecodeTx(tx)[f] = CASE f = "TxType" -> Bytes(<<tx.type>>)
                            [] f \in NullFor(tx.type) -> Null
                            [] OTHER -> Get(tx, f)
    BY <2>1, Zenon DEF DecodeTx
  <2> HIDE DEF tx
  <2> QED
    BY <1>1, <2>1, <2>2
<1>3. ASSUME NEW i \in 1 .. N
      PROVE  DecodeTx(tx)[fields[i]] = l[i]
  <2> DEFINE f == fields[i]
             j == CHOOSE k \in DOMAIN fields : fields[k] = f
  <2>1. f \in Contents /\ HasField(t, f) /\ j = i
    BY TxFieldAt
  <2>2. f \notin NullFor(t) /\ f \in TxFields
    BY <2>1, TxFieldAt DEF Contents
  <2> HIDE DEF f
  <2>3. tx.get[f] = l[j]
    <3>1. f \in {g \in TxFields : HasField(t, g)}
      BY <2>1, <2>2
    <3>2. tx.get = [g \in {h \in TxFields : HasField(t, h)} |->
                      l[CHOOSE k \in DOMAIN fields : fields[k] = g]]
      BY DEF TxOf
    <3> HIDE DEF tx
    <3> QED
      BY <3>1, <3>2, Zenon
  <2> HIDE DEF j, tx
  <2>4. Get(tx, f) = l[i]
    BY <1>1, <2>1, <2>3 DEF Get
  <2>5. DecodeTx(tx)[f] = l[i]
    BY <1>2, <2>1, <2>2, <2>4
  <2> QED
    BY <2>5 DEF f
<1>4. ASSUME NEW f \in Contents, ~HasField(t, f)
      PROVE  DecodeTx(tx)[f] = Null
  BY <1>2, <1>4, TxFieldAt
<1> QED
  BY <1>1, <1>3, <1>4

LEMMA TxRead ==
    ASSUME NEW t \in TxTypes, NEW b, b.first = FirstByte(t),
           Len(b.l) = Len(requiredPackFuncs(t))
    PROVE  LET fields == requiredPackFuncs(t)
               items == InOrder([i \in DOMAIN fields |->
                                    ReadField(fields[i], b.l[i])])
           IN  ReadTx(b) = IF items.st = "ok" THEN Ok(TxOf(t, items.x)) ELSE items
<1> DEFINE type == IF b.first > 127 THEN LegacyTx ELSE b.first
           calls(u) == [i \in DOMAIN requiredPackFuncs(u) |->
                           ReadField(requiredPackFuncs(u)[i], b.l[i])]
           items(u) == InOrder(calls(u))
<1>1. /\ type = t
      /\ b.first \in {AccessListTx, DynamicFeeTx, ListByte}
  BY TypesDiffer DEF TxTypes, FirstByte, ListByte
<1>2. ReadTx(b) =
        IF b.first \notin {AccessListTx, DynamicFeeTx, ListByte} THEN Err
        ELSE IF Len(b.l) # Len(requiredPackFuncs(type)) THEN Err
        ELSE IF items(type).st = "ok" THEN Ok(TxOf(type, items(type).x))
        ELSE items(type)
  BY Zenon DEF ReadTx, Then, TxOf
<1> HIDE DEF type, items
<1>3. ReadTx(b) = IF items(t).st = "ok" THEN Ok(TxOf(t, items(t).x)) ELSE items(t)
  BY <1>1, <1>2
<1> QED
  BY <1>3 DEF items

LEMMA TxReadType ==
    ASSUME NEW b, ReadTx(b).st = "ok"
    PROVE  \E t \in TxTypes : /\ b.first = FirstByte(t)
                              /\ Len(b.l) = Len(requiredPackFuncs(t))
<1> DEFINE type == IF b.first > 127 THEN LegacyTx ELSE b.first
<1>1. b.first \in {AccessListTx, DynamicFeeTx, ListByte}
  BY Failures, Zenon DEF ReadTx
<1>2. Len(b.l) = Len(requiredPackFuncs(type))
  BY <1>1, Failures, Zenon DEF ReadTx
<1>3. type \in TxTypes /\ b.first = FirstByte(type)
  BY <1>1, TypesDiffer DEF TxTypes, FirstByte, ListByte
<1> QED
  BY <1>2, <1>3

(* Encoding by the type of the node. *)
LEMMA TxPacked ==
    ASSUME NEW n, NEW t \in TxTypes, GetTxType(n) = Ok(t)
    PROVE  LET r == packTx(n, t)
           IN  EncodeTx(n) = IF r.st = "ok" THEN Ok(Block(t, r.x)) ELSE r
<1> DEFINE r == packTx(n, t)
           g == GetTxType(n)
<1>1. EncodeTx(n) =
        IF g.st # "ok" THEN g
        ELSE IF g.x \notin {LegacyTx, AccessListTx, DynamicFeeTx} THEN Err
        ELSE IF packTx(n, g.x).st = "ok" THEN Ok(Block(g.x, packTx(n, g.x).x))
        ELSE packTx(n, g.x)
  BY Zenon DEF EncodeTx, Then
<1>2. g.st = "ok" /\ g.x = t
  BY OkIsOk
<1> HIDE DEF g
<1> QED
  BY <1>1, <1>2 DEF TxTypes

LEMMA TxPackedType ==
    ASSUME NEW n, Sound(n.TxType), EncodeTx(n).st = "ok"
    PROVE  \E t \in TxTypes : /\ GetTxType(n) = Ok(t)
                              /\ n.TxType = Bytes(<<t>>) /\ n.TxType.b[1] = t
<1> DEFINE g == GetTxType(n)
<1>1. g.st = "ok" /\ g.x \in TxTypes
  BY Failures DEF EncodeTx, TxTypes
<1>2. n.TxType = Bytes(<<g.x>>) /\ n.TxType.b[1] = g.x /\ g.x \in Octet
  BY <1>1, TypeLaw
<1>3. g = Ok(g.x)
  BY <1>2, TypeLaw
<1> HIDE DEF g
<1> QED
  BY <1>1, <1>2, <1>3 DEF g

LEMMA TypesAreOctets == TxTypes \subseteq Octet
  BY TypesDiffer, Octets DEF TxTypes

LEMMA BlockFields ==
    \A t, l : /\ Block(t, l).first = FirstByte(t) /\ Block(t, l).l = l
              /\ Block(t, l) = [first |-> Block(t, l).first, l |-> Block(t, l).l]
  BY DEF Block

LEMMA TxStores ==
    ASSUME NEW n, SomeTx(n), EncodeTx(n).st = "ok"
    PROVE  LET b == EncodeTx(n).x
           IN  Enveloped(b) /\ DecodeTxBytes(b) = Ok(NormalTx(n))
<1>1. PICK t \in TxTypes : /\ GetTxType(n) = Ok(t)
                           /\ n.TxType = Bytes(<<t>>) /\ n.TxType.b[1] = t
  BY TxPackedType DEF SomeTx
<1> DEFINE fields == requiredPackFuncs(t)
           N == Len(fields)
           calls == [i \in DOMAIN fields |-> packField(n, fields[i])]
           k == [i \in 1 .. N |-> calls[i].x]
           h == NormalTx(n)
<1>2. N \in Nat /\ DOMAIN fields = 1 .. N
  BY TxFieldAt
<1>3. \A i \in 1 .. N : fields[i] \in Contents /\ HasField(t, fields[i])
  BY TxFieldAt
<1>4. \A f \in Contents : HasField(t, f) => \E i \in 1 .. N : fields[i] = f
  BY TxFieldAt
<1>5. EncodeTx(n) = IF packTx(n, t).st = "ok" THEN Ok(Block(t, packTx(n, t).x))
                    ELSE packTx(n, t)
  BY <1>1, TxPacked
<1>6. packTx(n, t) = InOrder(calls)
  BY DEF packTx
<1> HIDE DEF N, fields
<1>7. DOMAIN calls = 1 .. N
  BY <1>2
<1>8. \A i \in 1 .. N : calls[i] = packField(n, fields[i])
  BY <1>2
<1> HIDE DEF calls
<1>9. \A i \in 1 .. N : calls[i].st = "ok"
  BY <1>2, <1>5, <1>6, <1>7, AllOk
<1>10. InOrder(calls) = Ok(k)
  BY <1>2, <1>7, <1>9, InOrderEnds
<1>11. EncodeTx(n).x = Block(t, k)
  BY <1>5, <1>6, <1>10, OkIsOk
<1>12. \A i \in 1 .. N : k[i] = calls[i].x
  OBVIOUS
<1>13. k = [i \in 1 .. N |-> k[i]]
  OBVIOUS
<1> HIDE DEF k
<1>14. Len(k) = N /\ Tuple(k) /\ DOMAIN k = 1 .. N
  BY <1>2, <1>13, TupleOf
<1>15. ASSUME NEW i \in 1 .. N
       PROVE  Nested2(k[i]) /\ ReadField(fields[i], k[i]) = Ok(h[fields[i]])
  <2> DEFINE f == fields[i]
             y == n[f]
             m == TxMeaning(f, y)
  <2>1. f \in Contents /\ HasField(t, f)
    BY <1>3
  <2>2. packField(n, f).st = "ok" /\ k[i] = packField(n, f).x
    BY <1>8, <1>9, <1>12
  <2>3. SomeContent(f, y)
    BY <2>1 DEF SomeTx
  <2>4. /\ Nested2(k[i])
        /\ ReadField(f, k[i]) = Ok(IF y = Null THEN Null ELSE m)
    BY <2>1, <2>2, <2>3, TxFieldStores
  <2>5. h[f] = IF y = Null \/ ~HasField(t, f) THEN Null ELSE m
    BY <1>1, <2>1, TxMeans
  <2> HIDE DEF f, m, y, h
  <2>6. ReadField(f, k[i]) = Ok(h[f])
    BY <2>1, <2>4, <2>5
  <2> QED
    BY <2>4, <2>6 DEF f
<1> DEFINE b == Block(t, k)
           back == [i \in DOMAIN fields |-> ReadField(fields[i], k[i])]
           r == InOrder(back)
           m == [i \in 1 .. N |-> back[i].x]
<1>16. b.first = FirstByte(t) /\ b.l = k /\ b = [first |-> b.first, l |-> b.l]
  BY BlockFields
<1> HIDE DEF b
<1>17. Enveloped(b)
  BY <1>14, <1>15, <1>16 DEF Enveloped
<1>18. ReadTx(b) = IF r.st = "ok" THEN Ok(TxOf(t, r.x)) ELSE r
  BY <1>14, <1>16, TxRead DEF N, fields
<1> HIDE DEF r, h
<1>19. DOMAIN back = 1 .. N /\ \A i \in 1 .. N : back[i] = Ok(h[fields[i]])
  BY <1>2, <1>15
<1> HIDE DEF back
<1>20. \A i \in 1 .. N : back[i].st = "ok" /\ back[i].x = h[fields[i]]
  BY <1>19, OkIsOk
<1>21. r = Ok(m)
  BY <1>2, <1>19, <1>20, InOrderEnds DEF r
<1>22. \A i \in 1 .. N : m[i] = h[fields[i]]
  BY <1>20
<1> HIDE DEF m
<1> DEFINE d == DecodeTx(TxOf(t, m))
<1>23. /\ \A i \in 1 .. N : d[fields[i]] = m[i]
       /\ \A f \in Contents : ~HasField(t, f) => d[f] = Null
       /\ TxOf(t, m).type = t
  BY TxAt DEF N, fields
<1>24. d = [f \in TxFields |-> d[f]] /\ d["TxType"] = Bytes(<<t>>)
  BY <1>23, TxMaps
<1>25. h = [f \in TxFields |-> h[f]] /\ h["TxType"] = Bytes(<<t>>)
  BY <1>1, TxMaps DEF h
<1> HIDE DEF d
<1>26. ASSUME NEW f \in Contents PROVE d[f] = h[f]
  <2>1. CASE HasField(t, f)
    BY <1>4, <1>22, <1>23, <2>1
  <2>2. CASE ~HasField(t, f)
    <3>1. h[f] = Null
      BY <1>1, <2>2, TxMeans DEF h
    <3> QED
      BY <1>23, <2>2, <3>1
  <2> QED
    BY <2>1, <2>2
<1>27. d = h
  BY <1>24, <1>25, <1>26, TxesEqual
<1>28. DecodeTxBytes(b) = Ok(h)
  BY <1>18, <1>21, <1>27, OkIsOk DEF DecodeTxBytes, Then, d
<1> QED
  BY <1>11, <1>17, <1>28 DEF b, h

LEMMA TxWellFormed ==
    ASSUME NEW n
    PROVE  WellFormedTx(n) <=>
             /\ \E t \in TxTypes :
                  /\ n.TxType = Bytes(<<t>>)
                  /\ \A f \in Contents \ {"Recipient"} :
                        n[f] = Null <=> ~HasField(t, f)
             /\ \A f \in Contents : n[f] # Null => TxFieldOk(f, n[f])
<1>1. TxFields \ {"TxType", "Recipient"} = Contents \ {"Recipient"}
  BY DEF Contents
<1> QED
  BY <1>1 DEF WellFormedTx, TxTypes, Contents, TxFieldOk

LEMMA EveryTypeHasARecipient ==
    ASSUME NEW t \in TxTypes
    PROVE  "Recipient" \in Contents /\ HasField(t, "Recipient")
<1>1. "Recipient" \in Contents /\ "Recipient" \notin NullFor(t)
  BY ContentNames DEF NullFor
<1> QED
  BY <1>1, TxFieldAt

LEMMA TxKept ==
    ASSUME NEW n, SomeTx(n), WellFormedTx(n)
    PROVE  EncodeTx(n).st = "ok" /\ NormalTx(n) = n
<1>1. PICK t \in TxTypes :
        /\ n.TxType = Bytes(<<t>>)
        /\ \A f \in Contents \ {"Recipient"} : n[f] = Null <=> ~HasField(t, f)
  BY TxWellFormed
<1>2. \A f \in Contents : n[f] # Null => TxFieldOk(f, n[f])
  BY TxWellFormed
<1>3. GetTxType(n) = Ok(t) /\ n.TxType.b[1] = t
  <2>1. Sound(n.TxType) /\ t \in Octet
    BY TypesAreOctets DEF SomeTx
  <2>2. GetTxType(n) = Ok(t)
    BY <1>1, <2>1, TypeLaw
  <2> QED
    BY <2>1, <2>2, TypeLaw, OkIsOk
<1> DEFINE fields == requiredPackFuncs(t)
           N == Len(fields)
           calls == [i \in DOMAIN fields |-> packField(n, fields[i])]
<1>4. N \in Nat /\ DOMAIN fields = 1 .. N
  BY TxFieldAt
<1>5. \A i \in 1 .. N : fields[i] \in Contents /\ HasField(t, fields[i])
  BY TxFieldAt
<1>6. EncodeTx(n) = IF packTx(n, t).st = "ok" THEN Ok(Block(t, packTx(n, t).x))
                    ELSE packTx(n, t)
  BY <1>3, TxPacked
<1>7. packTx(n, t) = InOrder(calls)
  BY DEF packTx
<1> HIDE DEF N, fields
<1>8. ASSUME NEW f \in Contents, HasField(t, f)
      PROVE  /\ packField(n, f).st = "ok"
             /\ n[f] # Null => TxMeaning(f, n[f]) = n[f]
  <2>1. n[f] = Null => f = "Recipient"
    BY <1>1, <1>8
  <2>2. SomeContent(f, n[f])
    BY DEF SomeTx
  <2> QED
    BY <1>2, <2>1, <2>2, TxFieldKept
<1>9. DOMAIN calls = 1 .. N /\ \A i \in 1 .. N : calls[i] = packField(n, fields[i])
  BY <1>4
<1> HIDE DEF calls
<1>10. \A i \in 1 .. N : calls[i].st = "ok"
  BY <1>5, <1>8, <1>9
<1>11. InOrder(calls) = Ok([i \in 1 .. N |-> calls[i].x])
  BY <1>4, <1>9, <1>10, InOrderEnds
<1>12. EncodeTx(n).st = "ok"
  BY <1>6, <1>7, <1>11, OkIsOk
<1>13. ASSUME NEW f \in Contents
       PROVE  NormalTx(n)[f] = n[f]
  <2>1. NormalTx(n)[f] = IF n[f] = Null \/ ~HasField(t, f) THEN Null
                         ELSE TxMeaning(f, n[f])
    BY <1>3, TxMeans
  <2>2. n[f] # Null => HasField(t, f)
    BY <1>1, EveryTypeHasARecipient
  <2> QED
    BY <1>8, <2>1, <2>2
<1>14. /\ n = [f \in TxFields |-> n[f]]
       /\ NormalTx(n) = [f \in TxFields |-> NormalTx(n)[f]]
       /\ NormalTx(n)["TxType"] = n["TxType"]
  BY TxMaps DEF SomeTx
<1>15. NormalTx(n) = n
  BY <1>13, <1>14, TxesEqual
<1> QED
  BY <1>12, <1>15

LEMMA TxLoads ==
    ASSUME NEW b, Enveloped(b), DecodeTxBytes(b).st = "ok"
    PROVE  LET n == DecodeTxBytes(b).x
           IN  SomeTx(n) /\ WellFormedTx(n) /\ EncodeTx(n) = Ok(b)
<1>1. ReadTx(b).st = "ok" /\ DecodeTxBytes(b) = Ok(DecodeTx(ReadTx(b).x))
  BY DEF DecodeTxBytes, Then
<1>2. PICK t \in TxTypes : /\ b.first = FirstByte(t)
                           /\ Len(b.l) = Len(requiredPackFuncs(t))
  BY <1>1, TxReadType
<1> DEFINE fields == requiredPackFuncs(t)
           N == Len(fields)
           l == b.l
           q == [i \in DOMAIN fields |-> ReadField(fields[i], l[i])]
           r == InOrder(q)
           m == [i \in 1 .. N |-> q[i].x]
           n == DecodeTx(TxOf(t, m))
<1>3. ReadTx(b) = IF r.st = "ok" THEN Ok(TxOf(t, r.x)) ELSE r
  BY <1>2, TxRead
<1>4. N \in Nat /\ DOMAIN fields = 1 .. N /\ Len(l) = N
  BY <1>2, TxFieldAt
<1>5. \A i \in 1 .. N : fields[i] \in Contents /\ HasField(t, fields[i])
  BY TxFieldAt
<1>6. \A f \in Contents : HasField(t, f) => \E i \in 1 .. N : fields[i] = f
  BY TxFieldAt
<1>7. /\ b = [first |-> FirstByte(t), l |-> l] /\ Tuple(l)
      /\ \A i \in 1 .. N : Nested2(l[i])
  BY <1>2, <1>4 DEF Enveloped
<1>8. /\ \A i \in 1 .. N : n[fields[i]] = m[i]
      /\ \A f \in Contents : ~HasField(t, f) => n[f] = Null
      /\ TxOf(t, m).type = t
  <2> HIDE DEF m
  <2> QED
    BY TxAt
<1>9. n = [f \in TxFields |-> n[f]] /\ n["TxType"] = Bytes(<<t>>)
  BY <1>8, TxMaps
<1> HIDE DEF fields, N, l
<1>10. DOMAIN q = 1 .. N /\ \A i \in 1 .. N : q[i] = ReadField(fields[i], l[i])
  BY <1>4
<1> HIDE DEF q
<1>11. r.st = "ok"
  <2> HIDE DEF r
  <2> QED
    BY <1>1, <1>3
<1>12. \A i \in 1 .. N : q[i].st = "ok"
  BY <1>4, <1>10, <1>11, AllOk
<1>13. r = Ok(m)
  BY <1>4, <1>10, <1>12, InOrderEnds
<1>14. \A i \in 1 .. N : m[i] = q[i].x
  OBVIOUS
<1> HIDE DEF r, m
<1>15. DecodeTxBytes(b).x = n
  BY <1>1, <1>3, <1>13, OkIsOk
<1> HIDE DEF n
<1>16. ASSUME NEW i \in 1 .. N, NEW f, f = fields[i]
       PROVE  /\ SomeContent(f, n[f]) /\ (n[f] = Null => f = "Recipient")
              /\ n[f] # Null => TxFieldOk(f, n[f])
              /\ packField(n, f) = Ok(l[i])
  <2>1. f \in Contents /\ Nested2(l[i])
    BY <1>5, <1>7, <1>16
  <2>2. ReadField(f, l[i]).st = "ok" /\ n[f] = ReadField(f, l[i]).x
    BY <1>8, <1>10, <1>12, <1>14, <1>16
  <2> QED
    BY <2>1, <2>2, TxFieldLoads
<1>17. \A f : SomeContent(f, Null)
  BY NullIsNothing DEF SomeContent
<1>18. ASSUME NEW f \in Contents
       PROVE  /\ SomeContent(f, n[f]) /\ (n[f] # Null => TxFieldOk(f, n[f]))
              /\ f # "Recipient" => (n[f] = Null <=> ~HasField(t, f))
  <2>1. CASE HasField(t, f)
    <3>1. PICK i \in 1 .. N : fields[i] = f
      BY <1>6, <2>1
    <3>2. /\ SomeContent(f, n[f]) /\ (n[f] = Null => f = "Recipient")
          /\ n[f] # Null => TxFieldOk(f, n[f])
      BY <1>16, <3>1
    <3> QED
      BY <2>1, <3>2
  <2>2. CASE ~HasField(t, f)
    BY <1>8, <1>17, <2>2
  <2> QED
    BY <2>1, <2>2
<1>19. t \in Octet /\ Str(Bytes(<<t>>))
  <2>1. t \in Octet
    BY TypesAreOctets
  <2>2. <<t>> \in ByteSeq
    BY <2>1 DEF ByteSeq
  <2> QED
    BY <2>1, <2>2, BytesIsStr
<1>20. Sound(n.TxType) /\ n.TxType = Bytes(<<t>>)
  BY <1>9, <1>19, StrIsSound
<1>21. SomeTx(n)
  BY <1>9, <1>18, <1>20 DEF SomeTx
<1>22. WellFormedTx(n)
  <2>1. \A f \in Contents \ {"Recipient"} : n[f] = Null <=> ~HasField(t, f)
    BY <1>18
  <2>2. \A f \in Contents : n[f] # Null => TxFieldOk(f, n[f])
    BY <1>18
  <2> QED
    BY <1>20, <2>1, <2>2, TxWellFormed
<1>23. GetTxType(n) = Ok(t)
  BY <1>19, <1>20, TypeLaw
<1> DEFINE p == packTx(n, t)
           c == [i \in DOMAIN fields |-> packField(n, fields[i])]
<1>24. EncodeTx(n) = IF p.st = "ok" THEN Ok(Block(t, p.x)) ELSE p
  BY <1>23, TxPacked
<1>25. p = InOrder(c)
  BY DEF packTx, fields
<1>26. DOMAIN c = 1 .. N /\ \A i \in 1 .. N : c[i] = Ok(l[i])
  BY <1>4, <1>16
<1> HIDE DEF c, p
<1>27. \A i \in 1 .. N : c[i].st = "ok" /\ c[i].x = l[i]
  BY <1>26, OkIsOk
<1>28. [i \in 1 .. N |-> c[i].x] = [i \in 1 .. N |-> l[i]]
  BY <1>27
<1>29. l = [i \in 1 .. N |-> l[i]]
  BY <1>4, <1>7 DEF Tuple
<1>30. InOrder(c) = Ok([i \in 1 .. N |-> c[i].x])
  BY <1>4, <1>26, <1>27, InOrderEnds
<1>31. p = Ok(l)
  BY <1>25, <1>28, <1>29, <1>30
<1>32. Block(t, l) = b
  BY <1>7 DEF Block
<1>33. EncodeTx(n) = Ok(b)
  BY <1>24, <1>31, <1>32, OkIsOk
<1> QED
  BY <1>15, <1>21, <1>22, <1>33
=============================================================================
