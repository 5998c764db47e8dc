----------------------------- MODULE TrieInputs -----------------------------
(* Branches of two children.  Paths are empty, odd, even, with and without *)
(* terminator, with a terminator inside and with a byte that is no nibble; *)
(* links are the trie's own, another trie's, of another hash, of a digest  *)
(* that is too short or empty, and no CID; values are of several kinds,    *)
(* one refused by its codec and one that makes it panic.                   *)
EXTENDS TrieCodec
CONSTANTS h1, short, v1, bad, fatal

MCValues == {v1, bad, fatal}
MCBroken == {bad}
MCFatal == {fatal}
MCDigests == {h1}

Paths == {<< >>, <<16>>, <<1>>, <<1, 16>>, <<1, 2>>, <<15, 0, 16>>,
          <<33>>, <<16, 1>>, <<16, 16>>}
SomePaths == {<<1>>, <<1, 16>>, <<1, 2, 16>>}
MCLinks == {TrieLink("tx_trie", "keccak", DigestBytes(h1)),
            TrieLink("storage_trie", "keccak", DigestBytes(h1)),
            TrieLink("tx_trie", "sha", DigestBytes(h1)),
            TrieLink("tx_trie", "keccak", DigestBytes(short)),
            TrieLink("tx_trie", "keccak", Blank),
            NonCid}
MCVals == {Value("Transaction", v1), Value("Transaction", bad),
           Value("Transaction", fatal),
           Value("Log", v1), Value("Bytes", Blank),
           Value("Bytes", ValueBytes("Log", v1))}
MCLeaves == {Leaf(p, v) : p \in Paths, v \in MCVals}
MCExtensions == {Extension(p, l) : p \in Paths, l \in MCLinks}
MCChildren == {Null} \cup MCLinks
              \cup {Leaf(p, v) : p \in SomePaths,
                      v \in {Value("Transaction", v1), Value("Bytes", Blank)}}
              \cup {Extension(<<1>>, TrieLink("tx_trie", "keccak", DigestBytes(h1)))}
MCBranches == {Branch(cs, v) : cs \in [1 .. 2 -> MCChildren],
                               v \in MCVals \cup {Null}}
TrieNodes == MCLeaves \cup MCExtensions \cup MCBranches \cup {[is |-> "other"]}

MCHeads == {PathBytes(p) : p \in {<<0>>, <<5>>, <<17>>, <<32>>, <<39>>, <<50>>,
                                  <<0, 18>>, <<47, 18>>, <<48, 18>>, <<64>>}}
           \cup {Blank, List(<< >>)}
MCItems == {Blank, DigestBytes(h1), DigestBytes(short), ValueBytes("Log", v1),
            ValueBytes("Account", v1), List(<< >>)}
MCTwos == {List(<<a, b>>) : a \in MCHeads, b \in MCItems}
TrieBlocks == MCTwos
            \cup {List(<<a, b, c>>) : a \in MCTwos \cup MCItems,
                                      b \in {Blank, DigestBytes(h1)},
                                      c \in MCItems}
            \cup {List(<< >>), List(<<Blank, Blank, Blank, Blank>>),
                  DigestBytes(h1)}
=============================================================================
