---------------------------- MODULE MCCodecStore ----------------------------
(* The five codecs of tries and the six of values. *)
EXTENDS CodecStore, CodecTable, TrieInputs

Tx == INSTANCE TxInputs
Rct == INSTANCE RctInputs
Hdr == INSTANCE HeaderInputs

MCNodes(c) ==
    CASE c \in Codecs        -> TrieNodes
      [] c = "tx"            -> Tx!Transactions
      [] c = "rct"           -> Rct!Receipts
      [] c = "log"           -> Rct!SomeLogs
      [] c = "header"        -> Hdr!Headers
      [] c = "uncles"        -> Hdr!Uncles
      [] c = "state_account" -> Hdr!Accounts
MCBlocks(c) ==
    CASE c \in Codecs        -> TrieBlocks
      [] c = "tx"            -> Tx!TxBlocks
      [] c = "rct"           -> Rct!RctBlocks
      [] c = "log"           -> Rct!LogBlocks
      [] c = "header"        -> Hdr!HeaderBlocks
      [] c = "uncles"        -> Hdr!UnclesBlocks
      [] c = "state_account" -> Hdr!AccountBlocks

(* Headers of others as the chain has them, withdrawals included. *)
NoNodes(c) == {}
MCWithdrawalBlocks(c) == Hdr!WithdrawalBlocks
=============================================================================
