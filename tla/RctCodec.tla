------------------------------ MODULE RctCodec ------------------------------
(***************************************************************************)
(* The codec of receipts (rct/marshal.go, rct/unmarshal.go).  Blocks have  *)
(* the envelope of transactions.  A receipt has either the state root left *)
(* by its transaction (PostState) or a status, in one and the same item;   *)
(* LogRootCID is not written but computed from the logs on decoding.       *)
(***************************************************************************)
EXTENDS LogCodec, Envelope

TypedReceipts == {1, 2}

(* The two statuses in a node and in an item. *)
receiptStatusFailed == [i \in 1 .. UintLen |-> 0]
receiptStatusSuccessful == [i \in 1 .. UintLen |-> IF i = UintLen THEN 1 ELSE 0]
receiptStatusFailedRLP == << >>
receiptStatusSuccessfulRLP == <<1>>

----------------------------------------------------------------------------
(* Encoding.                                                               *)

StatusRLP(b) ==
    CASE b = receiptStatusFailed     -> Ok(Bytes(receiptStatusFailedRLP))
      [] b = receiptStatusSuccessful -> Ok(Bytes(receiptStatusSuccessfulRLP))
      [] OTHER                       -> Err

(* Mutant: a status wins over a state root. *)
packStatusFirst(n) ==
    IF n.Status # Null THEN AsBytes(n.Status, StatusRLP)
    ELSE AsBytes(n.PostState, Blob)
(* A state root wins, and is written whatever its length. *)
packPostStateOrStatus(n) ==
    IF n.PostState # Null THEN AsBytes(n.PostState, Blob)
    ELSE AsBytes(n.Status, StatusRLP)

packCumulativeGasUsed(n) == AsBytes(n.CumulativeGasUsed, Uint64)

(* Mutant: the bytes of the bloom are taken as they are. *)
packBloomAsIs(n) == AsBytes(n.Bloom, Blob)
(* The length is not checked: too long a bloom panics. *)
packBloom(n) == AsBytes(n.Bloom, BytesToBloom)

packLogs(n) == Elements(n.Logs, EncodeLog)

packReceiptRLP(n) ==
    InOrder(<<GetTxType(n), packPostStateOrStatus(n),
              packCumulativeGasUsed(n), packBloom(n), packLogs(n)>>)

(* The type is looked at only after the fields have been packed. *)
EncodeReceipt(n) ==
    LET r == packReceiptRLP(n)
    IN  IF r.st = "ok" /\ r.x[1] \notin {LegacyTx} \cup TypedReceipts THEN Err
        ELSE Then(r, LAMBDA x :
                 [first |-> IF x[1] = LegacyTx THEN ListByte ELSE x[1],
                  l |-> SubSeq(x, 2, 5)])

----------------------------------------------------------------------------
(* Decoding.                                                               *)

(* Receipt.UnmarshalBinary *)
ReadPostStateOrStatus(x) ==
    IF ~IsBytes(x) THEN Err
    ELSE IF \/ x.b \in {receiptStatusFailedRLP, receiptStatusSuccessfulRLP}
            \/ Len(x.b) = HashLen
         THEN Ok(x) ELSE Err

ReadReceipt(block) ==
    IF block.first \notin {ListByte} \cup TypedReceipts \/ Len(block.l) # 4
    THEN Err
    ELSE InOrder(<<Ok(IF block.first = ListByte THEN LegacyTx ELSE block.first),
                   ReadPostStateOrStatus(block.l[1]),
                   FromUint64(block.l[2]),
                   FromArray(block.l[3], BloomLen),
                   FromList(block.l[4], DecodeLogBytes)>>)

(* The field that is not there is null. *)
unpackPostState(x) == IF Len(x.b) = HashLen THEN x ELSE Null
(* Mutant: a receipt without a state root is taken for a success. *)
unpackStatusOptimist(x) ==
    IF Len(x.b) = HashLen THEN Null ELSE Bytes(receiptStatusSuccessful)
unpackStatus(x) ==
    CASE Len(x.b) = HashLen           -> Null
      [] x.b = receiptStatusFailedRLP -> Bytes(receiptStatusFailed)
      [] OTHER                        -> Bytes(receiptStatusSuccessful)

(* processLogs: the root of the trie of the logs, which is determined by   *)
(* them.  The link is given the codec of a log.                            *)
unpackLogRootCID(logs) == Link("log", [root |-> logs])

DecodeReceipt(r) ==
    [TxType |-> Bytes(<<r[1]>>),
     PostState |-> unpackPostState(r[2]), Status |-> unpackStatus(r[2]),
     CumulativeGasUsed |-> r[3], Bloom |-> r[4], Logs |-> r[5],
     LogRootCID |-> unpackLogRootCID(r[5])]

DecodeReceiptBytes(block) == Then(ReadReceipt(block), DecodeReceipt)

----------------------------------------------------------------------------
(* A node whose state root has the size of a hash. *)
ValidRct(n) == n.PostState # Null => Len(n.PostState.b) = HashLen

(* What a node means as a receipt.  A state root that reads like a status  *)
(* is one.                                                                 *)
NormalRct(n) ==
    LET logs == List([i \in DOMAIN n.Logs.l |-> NormalLog(n.Logs.l[i])])
    IN  [TxType |-> n.TxType,
         PostState |-> IF n.PostState # Null /\ Len(n.PostState.b) = HashLen
                       THEN n.PostState ELSE Null,
         Status |-> IF n.PostState = Null THEN n.Status
                    ELSE IF Len(n.PostState.b) = HashLen THEN Null
                    ELSE IF n.PostState.b = << >>
                         THEN Bytes(receiptStatusFailed)
                    ELSE Bytes(receiptStatusSuccessful),
         CumulativeGasUsed |-> Bytes(SubSeq(n.CumulativeGasUsed.b, 1, UintLen)),
         Bloom |-> Bytes(Fit(n.Bloom.b, BloomLen)),
         Logs |-> logs,
         LogRootCID |-> Link("log", [root |-> logs])]

(* A receipt has a state root or one of the statuses, and the log root is  *)
(* that of its logs.                                                       *)
WellFormedRct(n) ==
    /\ n.TxType \in {Bytes(<<t>>) : t \in {LegacyTx} \cup TypedReceipts}
    /\ \/ Sized(n.PostState, HashLen) /\ n.Status = Null
       \/ /\ n.PostState = Null
          /\ n.Status \in {Bytes(receiptStatusFailed),
                           Bytes(receiptStatusSuccessful)}
    /\ Sized(n.CumulativeGasUsed, UintLen) /\ Sized(n.Bloom, BloomLen)
    /\ \A i \in DOMAIN n.Logs.l : WellFormedLog(n.Logs.l[i])
    /\ n.LogRootCID = Link("log", [root |-> n.Logs])
=============================================================================
