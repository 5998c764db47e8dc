------------------------------ MODULE TxInputs ------------------------------
(* Nodes that differ from a plain one in at most two fields: null, bytes   *)
(* that are short, of the right size, long or with leading zeros, types    *)
(* that exist and that do not, and access lists.  Blocks with one item     *)
(* more, less or of another form than the codec writes.                    *)
EXTENDS TxCodec

Some == {<< >>, <<0>>, <<1>>, <<0, 1>>, <<1, 0>>, <<0, 0, 1>>, <<1, 2, 0>>}
Keys == {List(<< >>), List(<<Bytes(<<1, 2, 3>>)>>),
         List(<<Bytes(<<3>>), Bytes(<<1, 2, 3, 4>>)>>)}
Elts == {[Address |-> Bytes(a), StorageKeys |-> k] :
            a \in {<<1>>, <<1, 2>>, <<2, 1, 0>>}, k \in Keys}
Lists == {List(<< >>)} \cup {List(<<e>>) : e \in Elts}
         \cup {List(<<d, e>>) : d, e \in Elts}
Changes(f) ==
    CASE f = "TxType"     -> {Bytes(b) : b \in {<<0>>, <<1>>, <<2>>, <<3>>, << >>, <<0, 1>>}}
      [] f = "AccessList" -> {Null} \cup Lists
      [] f \in {"ChainID", "GasPrice", "GasTipCap", "GasFeeCap", "Recipient"}
                          -> {Null} \cup {Bytes(b) : b \in Some}
      [] OTHER            -> {Bytes(b) : b \in Some}
Plain(type) ==
    [f \in TxFields |->
        CASE f = "TxType" -> Bytes(<<type>>)
          [] f = "AccessList" -> IF type = 0 THEN Null ELSE List(<< >>)
          [] f \in NullFor(type) -> Null
          [] OTHER -> Bytes(<<1, 2>>)]
Transactions == UNION {{[Plain(t) EXCEPT ![p[1]] = x, ![p[2]] = y] :
                      x \in Changes(p[1]), y \in Changes(p[2])} :
                  t \in 0 .. 2,
                  p \in {<<"TxType", "GasPrice">>, <<"TxType", "ChainID">>,
                         <<"GasPrice", "GasTipCap">>, <<"TxType", "AccessList">>,
                         <<"AccountNonce", "Recipient">>, <<"Amount", "GasLimit">>,
                         <<"Data", "V">>, <<"R", "S">>, <<"GasFeeCap", "Data">>}}

Access(a, keys) == List(<<List(<<Bytes(a), List(keys)>>)>>)
Items == {Bytes(b) : b \in Some}
         \cup {List(<< >>), List(<<List(<<Bytes(<<1, 2>>)>>)>>),
               Access(<<1, 2>>, << >>), Access(<<1>>, << >>),
               Access(<<1, 2>>, <<Bytes(<<0, 1, 2>>), Bytes(<<1, 2, 3>>)>>),
               Access(<<1, 2>>, <<Bytes(<<1, 2>>)>>)}
PlainItems(type) ==
    [i \in DOMAIN requiredPackFuncs(type) |->
        IF requiredPackFuncs(type)[i] = "AccessList" THEN List(<< >>)
        ELSE Bytes(<<1, 2>>)]
TxBlocks ==
    UNION {{Block(t, [PlainItems(t) EXCEPT ![i] = x]) :
               i \in DOMAIN PlainItems(t), x \in Items} : t \in 0 .. 2}
    \cup {[first |-> b, l |-> PlainItems(t)] : b \in {0, 1, 2, 3, ListByte},
                                              t \in 0 .. 2}
    \cup {[first |-> b, l |-> << >>] : b \in {1, ListByte}}
=============================================================================
