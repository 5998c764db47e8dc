---------------------------- MODULE HeaderCodec ----------------------------
(***************************************************************************)
(* The codecs of headers (header/marshal.go, header/unmarshal.go), of      *)
(* uncles, which are lists of headers (uncles/), and of state accounts     *)
(* (state_account/): structs of links, integers and fixed-size arrays.     *)
(***************************************************************************)
EXTENDS RLP

(* The fields of a header in the order in which they are packed, unpacked  *)
(* and written.                                                            *)
headerPackFuncs ==
    <<"ParentCID", "UnclesCID", "Coinbase", "StateRootCID", "TxRootCID",
      "RctRootCID", "Bloom", "Difficulty", "Number", "GasLimit", "GasUsed",
      "Time", "Extra", "MixDigest", "Nonce", "BaseFee">>
Required == 15            \* all but BaseFee

HeaderFields == {headerPackFuncs[i] : i \in DOMAIN headerPackFuncs}
HeaderUints == {"GasLimit", "GasUsed", "Time"}
HeaderBigInts == {"Difficulty", "Number"}

(* The codec of the links that unpackParentCID and its like make. *)
LinkCodec == [ParentCID |-> "header", UnclesCID |-> "uncles",
              StateRootCID |-> "state_trie", TxRootCID |-> "tx_trie",
              RctRootCID |-> "rct_trie"]

----------------------------------------------------------------------------
(* Encoding.                                                               *)

(* Bytes of one length only; anything else is an error, not a panic. *)
Exactly(b, n) == IF Len(b) = n THEN Ok(Bytes(b)) ELSE Err

(* Mutant: as in a receipt, the length is left to BytesToBloom. *)
packBloomUnchecked(x) == AsBytes(x, BytesToBloom)
packHeaderBloom(x) == AsBytes(x, LAMBDA b : Exactly(b, BloomLen))

(* Mutant: the length is not checked and the bytes are copied. *)
packNonceUnchecked(x) == AsBytes(x, Blob)
packNonce(x) == AsBytes(x, LAMBDA b : Exactly(b, UintLen))

packHeaderField(n, f) ==
    CASE f \in DOMAIN LinkCodec          -> AsLink(n[f], Hash)
      [] f = "Coinbase"                  -> AsBytes(n[f], Address)
      [] f = "Bloom"                     -> packHeaderBloom(n[f])
      [] f \in HeaderBigInts \cup {"BaseFee"} -> AsBytes(n[f], BigInt)
      [] f \in HeaderUints               -> AsBytes(n[f], Uint64)
      [] f = "Extra"                     -> AsBytes(n[f], Blob)
      [] f = "MixDigest"                 -> AsBytes(n[f], Hash)
      [] f = "Nonce"                     -> packNonce(n[f])

(* A header without base fee ends before it. *)
PackedFields(n) == IF n.BaseFee = Null THEN Required ELSE Required + 1

EncodeHeader(n) ==
    Then(InOrder([i \in 1 .. PackedFields(n) |->
                     packHeaderField(n, headerPackFuncs[i])]), List)

----------------------------------------------------------------------------
(* Decoding.                                                               *)

ReadHeaderField(f, x) ==
    CASE f \in DOMAIN LinkCodec               -> FromHashTo(x, LinkCodec[f])
      [] f = "Coinbase"                       -> FromAddress(x)
      [] f = "Bloom"                          -> FromArray(x, BloomLen)
      [] f \in HeaderBigInts \cup {"BaseFee"} -> FromBigInt(x)
      [] f \in HeaderUints                    -> FromUint64(x)
      [] f = "Extra"                          -> FromBlob(x)
      [] f = "MixDigest"                      -> FromHash(x)
      [] f = "Nonce"                          -> FromArray(x, UintLen)

(* types.Header of go-ethereum 1.11.6 has two optional fields at its end,  *)
(* the base fee and the hash of the withdrawals.                           *)
ReadHeader(x) ==
    IF ~IsList(x) THEN Err
    ELSE IF Len(x.l) \notin Required .. Required + 2 THEN Err
    ELSE InOrder([i \in DOMAIN x.l |->
                     IF i = Required + 2 THEN FromHash(x.l[i])
                     ELSE ReadHeaderField(headerPackFuncs[i], x.l[i])])

(* Mutant: no base fee is a base fee of zero. *)
DecodeHeaderZeroFee(l) ==
    [f \in HeaderFields |->
        LET i == CHOOSE j \in DOMAIN headerPackFuncs :
                    headerPackFuncs[j] = f
        IN  IF i \in DOMAIN l THEN l[i] ELSE Bytes(<< >>)]
(* The schema has no field for the withdrawals; they are dropped. *)
DecodeHeader(l) ==
    [f \in HeaderFields |->
        LET i == CHOOSE j \in DOMAIN headerPackFuncs :
                    headerPackFuncs[j] = f
        IN  IF i \in DOMAIN l THEN l[i] ELSE Null]

DecodeHeaderBytes(x) == Then(ReadHeader(x), DecodeHeader)

----------------------------------------------------------------------------
(* Uncles.  The destination is made with room for Length() headers before  *)
(* the node is looked at: what has no length panics.                       *)
EncodeUncles(n) == CASE n.is = "list"   -> Elements(n, EncodeHeader)
                     [] n.is = "map"    -> Err
                     [] n.is = "scalar" -> Panic

DecodeUncles(x) == FromList(x, DecodeHeaderBytes)

----------------------------------------------------------------------------
(* Accounts.                                                               *)

(* Mutant: the digest of neither link is given its size. *)
EncodeAccountAsIs(n) ==
    Then(InOrder(<<AsBytes(n.Nonce, Uint64), AsBytes(n.Balance, BigInt),
                   AsLink(n.StorageRootCID, Blob), AsLink(n.CodeCID, Blob)>>),
         List)
(* The digest of CodeCID is taken whatever its length. *)
EncodeAccount(n) ==
    Then(InOrder(<<AsBytes(n.Nonce, Uint64), AsBytes(n.Balance, BigInt),
                   AsLink(n.StorageRootCID, Hash), AsLink(n.CodeCID, Blob)>>),
         List)

ReadAccount(x) ==
    IF ~IsList(x) \/ Len(x.l) # 4 THEN Err
    ELSE InOrder(<<FromUint64(x.l[1]), FromBigInt(x.l[2]),
                   FromHash(x.l[3]), FromBlob(x.l[4])>>)

(* Mutant: nonce and balance are taken for each other. *)
DecodeAccountCrossed(l) ==
    [Nonce |-> l[2], Balance |-> l[1],
     StorageRootCID |-> Link("storage_trie", l[3].b),
     CodeCID |-> Link("raw", l[4].b)]
DecodeAccount(l) ==
    [Nonce |-> l[1], Balance |-> l[2],
     StorageRootCID |-> Link("storage_trie", l[3].b),
     CodeCID |-> Link("raw", l[4].b)]

DecodeAccountBytes(x) == Then(ReadAccount(x), DecodeAccount)

----------------------------------------------------------------------------
(* What nodes mean to the codecs: links by their digest, sized.            *)
NormalHeader(n) ==
    [f \in HeaderFields |->
        IF n[f] = Null THEN Null ELSE
        CASE f \in DOMAIN LinkCodec ->
                 Link(LinkCodec[f], Fit(n[f].digest, HashLen))
          [] f = "Coinbase"     -> Bytes(Fit(n[f].b, AddressLen))
          [] f \in HeaderBigInts \cup {"BaseFee"} -> Bytes(SetBytes(n[f].b))
          [] f \in HeaderUints  -> Bytes(SubSeq(n[f].b, 1, UintLen))
          [] f = "MixDigest"    -> Bytes(Fit(n[f].b, HashLen))
          [] OTHER              -> n[f]]

NormalUncles(n) == List([i \in DOMAIN n.l |-> NormalHeader(n.l[i])])

NormalAccount(n) ==
    [Nonce |-> Bytes(SubSeq(n.Nonce.b, 1, UintLen)),
     Balance |-> Bytes(SetBytes(n.Balance.b)),
     StorageRootCID |-> Link("storage_trie", Fit(n.StorageRootCID.digest, HashLen)),
     CodeCID |-> Link("raw", n.CodeCID.digest)]

(* The nodes that are their own normal form. *)
HashLink(x, codec) == x.is = "link" /\ x.codec = codec /\ Len(x.digest) = HashLen

WellFormedHeader(n) ==
    \A f \in HeaderFields :
        CASE f \in DOMAIN LinkCodec -> HashLink(n[f], LinkCodec[f])
          [] f = "Coinbase"         -> Sized(n[f], AddressLen)
          [] f = "Bloom"            -> Sized(n[f], BloomLen)
          [] f \in HeaderBigInts    -> IsInteger(n[f])
          [] f = "BaseFee"          -> n[f] = Null \/ IsInteger(n[f])
          [] f \in HeaderUints \cup {"Nonce"} -> Sized(n[f], UintLen)
          [] f = "MixDigest"        -> Sized(n[f], HashLen)
          [] f = "Extra"            -> IsBytes(n[f])

WellFormedUncles(n) ==
    IsList(n) /\ \A i \in DOMAIN n.l : WellFormedHeader(n.l[i])

(* The code hash of an account may have any length. *)
WellFormedAccount(n) ==
    /\ Sized(n.Nonce, UintLen) /\ IsInteger(n.Balance)
    /\ HashLink(n.StorageRootCID, "storage_trie") /\ n.CodeCID.codec = "raw"
=============================================================================
