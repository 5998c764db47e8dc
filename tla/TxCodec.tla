------------------------------ MODULE TxCodec ------------------------------
(***************************************************************************)
(* The codec of transactions (tx/marshal.go, tx/unmarshal.go).             *)
(*                                                                         *)
(* A node is a function from the fields of the schema.  A block is its     *)
(* first byte and the list of its items: a bare RLP list (first byte above *)
(* 127) for a legacy transaction, and the type before the list otherwise.  *)
(***************************************************************************)
EXTENDS Envelope

TxFields == {"TxType", "ChainID", "AccountNonce", "GasPrice", "GasTipCap",
             "GasFeeCap", "GasLimit", "Recipient", "Amount", "Data",
             "AccessList", "V", "R", "S"}
SignatureFields == {"V", "R", "S"}
BigInts == {"ChainID", "GasPrice", "GasTipCap", "GasFeeCap", "Amount"}
           \cup SignatureFields
Uints == {"AccountNonce", "GasLimit"}

AccessListTx == 1
DynamicFeeTx == 2

(* The fields of each type of transaction, in the order in which they are  *)
(* packed and written.                                                     *)
requiredPackFuncs(type) ==
    CASE type = LegacyTx ->
           <<"AccountNonce", "GasPrice", "GasLimit", "Recipient", "Amount",
             "Data", "V", "R", "S">>
      [] type = AccessListTx ->
           <<"ChainID", "AccountNonce", "GasPrice", "GasLimit", "Recipient",
             "Amount", "Data", "AccessList", "V", "R", "S">>
      [] type = DynamicFeeTx ->
           <<"ChainID", "AccountNonce", "GasTipCap", "GasFeeCap", "GasLimit",
             "Recipient", "Amount", "Data", "AccessList", "V", "R", "S">>

HasField(type, f) == \E i \in DOMAIN requiredPackFuncs(type) :
                        requiredPackFuncs(type)[i] = f

FirstByte(type) == IF type = LegacyTx THEN ListByte ELSE type
Block(type, items) == [first |-> FirstByte(type), l |-> items]

----------------------------------------------------------------------------
(* Encoding.                                                               *)

(* Mutant: the recipient's bytes are taken as they are. *)
packRecipientAsIs(x) == IF x = Null THEN Ok(Bytes(<< >>)) ELSE AsBytes(x, Blob)
(* A null recipient is a nil pointer, written as the empty string. *)
packRecipient(x) == IF x = Null THEN Ok(Bytes(<< >>)) ELSE AsBytes(x, Address)

packAccessElement(e) ==
    Then(InOrder(<<AsBytes(e.Address, Address),
                   Elements(e.StorageKeys, LAMBDA k : AsBytes(k, Hash))>>),
         List)

(* A list of the length of null, -1, cannot be made. *)
createAccessList(x) == IF x = Null THEN Panic
                       ELSE Elements(x, packAccessElement)

packField(n, f) ==
    CASE f \in BigInts      -> AsBytes(n[f], BigInt)
      [] f \in Uints        -> AsBytes(n[f], Uint64)
      [] f = "Recipient"    -> packRecipient(n[f])
      [] f = "Data"         -> AsBytes(n[f], Blob)
      [] f = "AccessList"   -> createAccessList(n[f])

packTx(n, type) ==
    LET fields == requiredPackFuncs(type)
    IN  InOrder([i \in DOMAIN fields |-> packField(n, fields[i])])

(* Fields that the type has no use for are not looked at. *)
EncodeTx(n) ==
    LET type == GetTxType(n)
    IN  IF type.st # "ok" THEN type
        ELSE IF type.x \notin {LegacyTx, AccessListTx, DynamicFeeTx} THEN Err
        ELSE Then(packTx(n, type.x), LAMBDA l : Block(type.x, l))

----------------------------------------------------------------------------
(* Decoding.                                                               *)

(* Mutant: no recipient is the zero address. *)
ReadRecipientZero(x) == IF IsBytes(x) /\ x.b = << >>
                        THEN Ok(Bytes(Fit(x.b, AddressLen)))
                        ELSE FromAddress(x)
(* A nil recipient is unpacked as null. *)
ReadRecipient(x) == IF IsBytes(x) /\ x.b = << >> THEN Ok(Null)
                    ELSE FromAddress(x)

ReadAccessElement(x) ==
    IF ~IsList(x) \/ Len(x.l) # 2 THEN Err
    ELSE Then(InOrder(<<FromAddress(x.l[1]), FromList(x.l[2], FromHash)>>),
              LAMBDA p : [Address |-> p[1], StorageKeys |-> p[2]])

(* Transaction.UnmarshalBinary reads an item into a field. *)
ReadField(f, x) ==
    CASE f \in BigInts      -> FromBigInt(x)
      [] f \in Uints        -> FromUint64(x)
      [] f = "Recipient"    -> ReadRecipient(x)
      [] f = "Data"         -> FromBlob(x)
      [] f = "AccessList"   -> FromList(x, ReadAccessElement)

ReadTx(block) ==
    LET type   == IF block.first > 127 THEN LegacyTx ELSE block.first
        fields == requiredPackFuncs(type)
        items  == InOrder([i \in DOMAIN fields |->
                              ReadField(fields[i], block.l[i])])
        at(f)  == CHOOSE i \in DOMAIN fields : fields[i] = f
    IN  IF block.first \notin {AccessListTx, DynamicFeeTx, ListByte} THEN Err
        ELSE IF Len(block.l) # Len(fields) THEN Err
        ELSE Then(items, LAMBDA l :
                 [type |-> type,
                  get |-> [f \in {g \in TxFields : HasField(type, g)} |->
                              l[at(f)]]])

(* The getters of a transaction answer for every type: a price stands in   *)
(* for a cap, and a cap for a price.                                       *)
Get(tx, f) == IF HasField(tx.type, f) THEN tx.get[f]
              ELSE IF f = "GasPrice" THEN tx.get["GasFeeCap"]
              ELSE tx.get["GasPrice"]

(* Mutant: the gas price of any transaction is unpacked. *)
NullForAnyPrice(type) ==
    (IF type = LegacyTx THEN {"ChainID", "AccessList"} ELSE {})
    \cup (IF type # DynamicFeeTx THEN {"GasTipCap", "GasFeeCap"} ELSE {})
(* The fields that unpackChainID, unpackGasPrice, unpackGasTipCap,         *)
(* unpackGasFeeCap and unpackAccessList set to null.                       *)
NullFor(type) ==
    (IF type = LegacyTx THEN {"ChainID", "AccessList"} ELSE {})
    \cup (IF type = DynamicFeeTx THEN {"GasPrice"} ELSE {})
    \cup (IF type # DynamicFeeTx THEN {"GasTipCap", "GasFeeCap"} ELSE {})

DecodeTx(tx) ==
    [f \in TxFields |-> CASE f = "TxType"          -> Bytes(<<tx.type>>)
                          [] f \in NullFor(tx.type) -> Null
                          [] OTHER                  -> Get(tx, f)]

DecodeTxBytes(block) == Then(ReadTx(block), DecodeTx)

----------------------------------------------------------------------------
(* What a node means as a transaction: integers without leading zeros or   *)
(* in eight bytes, addresses and hashes of their size, and nothing that    *)
(* its type has no use for.                                                *)
NormalElement(e) ==
    [Address |-> Bytes(Fit(e.Address.b, AddressLen)),
     StorageKeys |-> List([i \in DOMAIN e.StorageKeys.l |->
                             Bytes(Fit(e.StorageKeys.l[i].b, HashLen))])]

NormalTx(n) ==
    [f \in TxFields |->
        IF f = "TxType" \/ n[f] = Null THEN n[f]
        ELSE IF ~HasField(n.TxType.b[1], f) THEN Null
        ELSE CASE f \in BigInts    -> Bytes(SetBytes(n[f].b))
               [] f \in Uints      -> Bytes(SubSeq(n[f].b, 1, UintLen))
               [] f = "Recipient"  -> Bytes(Fit(n[f].b, AddressLen))
               [] f = "AccessList" -> List([i \in DOMAIN n[f].l |->
                                             NormalElement(n[f].l[i])])
               [] OTHER            -> n[f]]

(* A transaction as its type has it: the nodes that are their own normal   *)
(* form.                                                                   *)
WellFormedElement(e) ==
    /\ Sized(e.Address, AddressLen)
    /\ \A i \in DOMAIN e.StorageKeys.l : Sized(e.StorageKeys.l[i], HashLen)

WellFormedTx(n) ==
    /\ \E t \in {LegacyTx, AccessListTx, DynamicFeeTx} :
          /\ n.TxType = Bytes(<<t>>)
          /\ \A f \in TxFields \ {"TxType", "Recipient"} :
                n[f] = Null <=> ~HasField(t, f)
    /\ \A f \in TxFields \ {"TxType"} : n[f] # Null =>
          CASE f \in BigInts    -> IsInteger(n[f])
            [] f \in Uints      -> Sized(n[f], UintLen)
            [] f = "Recipient"  -> Sized(n[f], AddressLen)
            [] f = "Data"       -> IsBytes(n[f])
            [] f = "AccessList" -> \A i \in DOMAIN n[f].l :
                                      WellFormedElement(n[f].l[i])
=============================================================================
