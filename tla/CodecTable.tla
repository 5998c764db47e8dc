----------------------------- MODULE CodecTable -----------------------------
(***************************************************************************)
(* The table of codecs: what init of each package's multicodec.go          *)
(* registers under its code, and what there is to say about the nodes and  *)
(* blocks of each.  The five codecs of tries share one implementation.     *)
(***************************************************************************)
EXTENDS TrieCodec, TxCodec, RctCodec, HeaderCodec

ValueCodecs == {"tx", "rct", "log", "header", "uncles", "state_account"}
AllCodecs == Codecs \cup ValueCodecs

(* multicodec.RegisterEncoder *)
EncodeAs(c, n) ==
    CASE c \in Codecs        -> AppendEncode(n)
      [] c = "tx"            -> EncodeTx(n)
      [] c = "rct"           -> EncodeReceipt(n)
      [] c = "log"           -> EncodeLog(n)
      [] c = "header"        -> EncodeHeader(n)
      [] c = "uncles"        -> EncodeUncles(n)
      [] c = "state_account" -> EncodeAccount(n)

(* multicodec.RegisterDecoder *)
DecodeAs(c, b) ==
    CASE c \in Codecs        -> DecodeTrieNodeBytes(b, c)
      [] c = "tx"            -> DecodeTxBytes(b)
      [] c = "rct"           -> DecodeReceiptBytes(b)
      [] c = "log"           -> DecodeLogBytes(b)
      [] c = "header"        -> DecodeHeaderBytes(b)
      [] c = "uncles"        -> DecodeUncles(b)
      [] c = "state_account" -> DecodeAccountBytes(b)

WellFormedAs(c, n) ==
    CASE c \in Codecs        -> WellFormedNode(c, n)
      [] c = "tx"            -> WellFormedTx(n)
      [] c = "rct"           -> WellFormedRct(n)
      [] c = "log"           -> WellFormedLog(n)
      [] c = "header"        -> WellFormedHeader(n)
      [] c = "uncles"        -> WellFormedUncles(n)
      [] c = "state_account" -> WellFormedAccount(n)

NormalAs(c, n) ==
    CASE c = "tx"            -> NormalTx(n)
      [] c = "rct"           -> NormalRct(n)
      [] c = "log"           -> NormalLog(n)
      [] c = "header"        -> NormalHeader(n)
      [] c = "uncles"        -> NormalUncles(n)
      [] c = "state_account" -> NormalAccount(n)

(* A trie writes children of any codec and values of any kind, a receipt a *)
(* state root of any length.                                               *)
ReadableAs(c, n) == CASE c \in Codecs -> WellFormedNode(c, n)
                      [] c = "rct"    -> ValidRct(n)
                      [] OTHER        -> TRUE

(* Only the paths of tries have more than one form. *)
OwnFormAs(c, b) == IF c \in Codecs THEN CanonicalBlock(b) ELSE b
=============================================================================
