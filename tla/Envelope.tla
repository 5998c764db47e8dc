------------------------------ MODULE Envelope ------------------------------
(* The envelope of transactions and receipts: a bare RLP list, whose first *)
(* byte is above 127, or a byte with the type before the list.             *)
EXTENDS RLP

LegacyTx == 0
ListByte == 192

(* shared.GetTxType: the type of a node is one byte. *)
GetTxType(n) ==
    AsBytes(n.TxType, LAMBDA b : IF Len(b) = 1 THEN Ok(b[1]) ELSE Err)
=============================================================================
