---------------------------- MODULE HeaderInputs ----------------------------
(* Headers that differ from a plain one in at most two fields, lists of    *)
(* none, one and two of them and nodes that are no list; accounts with     *)
(* integers that are short, long and zero, links with digests of every     *)
(* length and that are no CID.  Blocks with an item of another form than   *)
(* the codec writes, headers with and without base fee and with too few    *)
(* and too many items.  Headers with the hash of the withdrawals are kept  *)
(* apart.                                                                  *)
EXTENDS HeaderCodec

Some == {<< >>, <<0>>, <<1>>, <<0, 1>>, <<1, 0>>, <<0, 0, 1>>, <<1, 2, 0>>}
Changes(f) ==
    IF f \in DOMAIN LinkCodec
    THEN {BadLink} \cup {Link(c, d) : c \in {LinkCodec[f], "raw"},
                                     d \in {<<1>>, <<1, 2, 3>>, <<1, 2, 3, 4>>}}
    ELSE {Bytes(b) : b \in Some} \cup (IF f = "BaseFee" THEN {Null} ELSE {})
Hashes == DOMAIN LinkCodec \cup {"MixDigest"}
Plain == [f \in HeaderFields |-> IF f \in DOMAIN LinkCodec
                                 THEN Link(LinkCodec[f], <<1, 2, 3>>)
                                 ELSE IF f = "MixDigest" THEN Bytes(<<1, 2, 3>>)
                                 ELSE Bytes(<<1, 2>>)]
Headers == UNION {{[Plain EXCEPT ![f] = x, !.BaseFee = y] :
                      x \in Changes(f), y \in {Null, Bytes(<< >>), Bytes(<<0, 1>>)}} :
                  f \in HeaderFields}
           \cup UNION {{[Plain EXCEPT !.Bloom = x, ![f] = y] :
                            x \in Changes("Bloom"), y \in Changes(f)} :
                        f \in {"Nonce", "Time", "ParentCID"}}
Uncles == {List(<< >>), [is |-> "map"], [is |-> "scalar"]}
          \cup {List(<<h>>) : h \in Headers}
          \cup {List(<<Plain, h>>) : h \in Headers}

PlainItems(n) == [i \in 1 .. n |->
                     IF i > Required + 1 \/ headerPackFuncs[i] \in Hashes
                     THEN Bytes(<<1, 2, 3>>) ELSE Bytes(<<1, 2>>)]
Items == {Bytes(b) : b \in Some} \cup {List(<< >>)}
HeaderBlocks ==
    {Bytes(<< >>), List(<< >>), List(PlainItems(Required + 3))}
    \cup UNION {{List([PlainItems(n) EXCEPT ![i] = x]) : i \in 1 .. n, x \in Items} :
                n \in Required - 1 .. Required + 1}
WithdrawalBlocks ==
    {List([PlainItems(n) EXCEPT ![3] = Bytes(<<1, x>>)]) :
        n \in Required .. Required + 2, x \in 1 .. 50}
UnclesBlocks ==
    {List(<< >>), Bytes(<< >>)} \cup {List(<<b>>) : b \in HeaderBlocks}
    \cup {List(<<List(PlainItems(Required)), List(PlainItems(Required + 1))>>)}

Links == {BadLink} \cup {Link(c, d) : c \in {"storage_trie", "raw"},
                             d \in {<< >>, <<1>>, <<1, 2, 3>>, <<1, 2, 3, 4>>}}
Accounts == {[Nonce |-> Bytes(n), Balance |-> Bytes(b), StorageRootCID |-> s,
              CodeCID |-> c] : n, b \in Some \ {<<1>>}, s, c \in Links}
AccountItems == Items \ {Bytes(<<1>>)}
AccountBlocks ==
    {List(<<n, b, s, c>>) : n, b, s, c \in AccountItems}
    \cup {List(<<Bytes(<<1>>), Bytes(<<1>>), Bytes(<<1, 2, 3>>)>>), Bytes(<< >>)}
=============================================================================
