-------------------------------- MODULE RLP --------------------------------
(***************************************************************************)
(* What the value codecs share: RLP items, and the conversions between the *)
(* bytes of a node's field and the Go value that go-ethereum writes to and *)
(* reads from an RLP item.                                                 *)
(*                                                                         *)
(* An item is a byte string or a list.  A Go value is represented by the   *)
(* content of the item it is written as: an integer is its big-endian      *)
(* bytes without leading zeros, a fixed-size array its bytes.  A reader    *)
(* refuses any other content (go-ethereum, package rlp).                   *)
(***************************************************************************)
EXTENDS Sizes, Sequences, Outcome

CONSTANT NonCid   \* a link that is no CID

----------------------------------------------------------------------------
(* RLP items, and the fields of a node: null, bytes, or a link with its    *)
(* codec and the digest of its multihash.                                  *)
Null == [is |-> "null"]
Bytes(b) == [is |-> "bytes", b |-> b]
List(l) == [is |-> "list", l |-> l]
Link(codec, digest) == [is |-> "link", codec |-> codec, digest |-> digest]
BadLink == [is |-> "link", codec |-> NonCid]

IsBytes(x) == x.is = "bytes"
IsList(x) == x.is = "list"
Sized(x, n) == IsBytes(x) /\ Len(x.b) = n

----------------------------------------------------------------------------
(* Bytes to Go values.                                                     *)

(* new(big.Int).SetBytes *)
SetBytes(b) ==
    LET nonZero == {i \in DOMAIN b : b[i] # 0}
    IN  IF nonZero = {} THEN << >> ELSE SubSeq(b, Least(nonZero), Len(b))

(* binary.BigEndian.Uint64: the first bytes, and a panic if there are too  *)
(* few.                                                                    *)
Uint64(b) == IF Len(b) < UintLen THEN Panic
             ELSE Ok(Bytes(SetBytes(SubSeq(b, 1, UintLen))))

(* common.BytesToHash, common.BytesToAddress: padded or cropped on the     *)
(* left.                                                                   *)
Fit(b, n) == [i \in 1 .. n |-> IF i + Len(b) > n THEN b[i + Len(b) - n] ELSE 0]

(* types.BytesToBloom *)
BytesToBloom(b) == IF Len(b) > BloomLen THEN Panic
                   ELSE Ok(Bytes(Fit(b, BloomLen)))

BigInt(b) == Ok(Bytes(SetBytes(b)))
Hash(b) == Ok(Bytes(Fit(b, HashLen)))
Address(b) == Ok(Bytes(Fit(b, AddressLen)))
Blob(b) == Ok(Bytes(b))

(* AsBytes of a field, and what becomes of the bytes. *)
AsBytes(x, conv(_)) == IF IsBytes(x) THEN conv(x.b) ELSE Err

(* AsLink of a field: the digest of the CID's multihash; the codec and the *)
(* kind of hash are dropped.                                               *)
AsLink(x, conv(_)) == IF x.codec = NonCid THEN Err ELSE conv(x.digest)

(* The elements of a list field. *)
Elements(x, conv(_)) ==
    Then(InOrder([i \in DOMAIN x.l |-> conv(x.l[i])]), List)

----------------------------------------------------------------------------
(* RLP items to the bytes of a field.                                      *)

IsInteger(x) == IsBytes(x) /\ SetBytes(x.b) = x.b

(* big.Int.Bytes *)
FromBigInt(x) == IF IsInteger(x) THEN Ok(x) ELSE Err

(* PutUint64 into eight bytes *)
FromUint64(x) == IF IsInteger(x) /\ Len(x.b) <= UintLen
                 THEN Ok(Bytes(Fit(x.b, UintLen))) ELSE Err

FromArray(x, n) == IF Sized(x, n) THEN Ok(x) ELSE Err
FromHash(x) == FromArray(x, HashLen)
FromAddress(x) == FromArray(x, AddressLen)
FromBlob(x) == IF IsBytes(x) THEN Ok(x) ELSE Err

(* multihash.Encode and cid.NewCidV1 of a hash *)
FromHashTo(x, codec) == Then(FromHash(x), LAMBDA h : Link(codec, h.b))

FromList(x, conv(_)) == IF IsList(x) THEN Elements(x, conv) ELSE Err
=============================================================================
