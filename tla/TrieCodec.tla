----------------------------- MODULE TrieCodec -----------------------------
(***************************************************************************)
(* The codec of Merkle Patricia trie nodes (trie/marshal.go,               *)
(* trie/unmarshal.go), shared by the five trie multicodecs.                *)
(*                                                                         *)
(* A node is a record: a leaf (path, value), an extension (path, child     *)
(* link) or a branch (Radix children and a value).  A block is the RLP     *)
(* list the node is stored as.  An RLP item is a list or a byte string;    *)
(* byte strings are told apart by what they were made from:                *)
(*   Blank          the empty string                                       *)
(*   path bytes     a compact path, byte by byte (HexPrefix)               *)
(*   digests        32 bytes long, or of another length                    *)
(*   value bytes    what the codec of one value kind writes and reads; not *)
(*                  32 bytes long                                          *)
(* The codecs of the values (tx, rct, state_account, log) are opaque here: *)
(* Encode fails on a Broken or Fatal value and Decode accepts what Encode  *)
(* wrote for the same kind.  Radix is 16 in the code.                      *)
(***************************************************************************)
EXTENDS HexPrefix, RLP

CONSTANTS Radix,      \* children of a branch node
          Values,     \* contents of a value
          Broken,     \* those among them that their codec refuses
          Fatal,      \* those on which their codec panics
          Digests     \* hash digests of 32 bytes

ASSUME RadixAssumption == Radix \in Nat /\ Radix > 1

(* The kinds of values and the multicodec of the trie that holds them. *)
ValueKinds == {"Transaction", "Receipt", "Account", "Bytes", "Log"}
Codecs == {"tx_trie", "rct_trie", "state_trie", "storage_trie", "log_trie"}
KindOf(codec) == CASE codec = "tx_trie"      -> "Transaction"
                   [] codec = "rct_trie"     -> "Receipt"
                   [] codec = "state_trie"   -> "Account"
                   [] codec = "storage_trie" -> "Bytes"
                   [] codec = "log_trie"     -> "Log"

----------------------------------------------------------------------------
(* RLP items.                                                              *)
Blank == [is |-> "blank"]
PathBytes(p) == IF p = << >> THEN Blank ELSE [is |-> "path", b |-> p]
DigestBytes(d) == [is |-> "digest", d |-> d]
ValueBytes(kind, v) == [is |-> "value", kind |-> kind, v |-> v]

Is32Bytes(x) == x.is = "digest" /\ x.d \in Digests

(* Nodes and what they are made of. *)
TrieLink(codec, mh, x) == [is |-> "link", codec |-> codec, mh |-> mh, digest |-> x]
Value(kind, v) == [is |-> kind, v |-> v]
Leaf(p, v) == [is |-> "TrieLeafNode", path |-> p, value |-> v]
Extension(p, c) == [is |-> "TrieExtensionNode", path |-> p, child |-> c]
Branch(cs, v) == [is |-> "TrieBranchNode", children |-> cs, value |-> v]

----------------------------------------------------------------------------
(* Encoding.                                                               *)

(* The digest of the link's multihash; its type and the codec are dropped. *)
PackLink(l) == IF l = NonCid THEN Err ELSE Ok(l.digest)

(* The kind of the value is not compared with the trie's codec, which      *)
(* Encode does not know.                                                   *)
packValue(v) ==
    IF v = Null THEN Ok(Blank)
    ELSE IF v.is = "Bytes" THEN Ok(v.v)
    ELSE IF v.v \in Broken THEN Err
    ELSE IF v.v \in Fatal THEN Panic
    ELSE Ok(ValueBytes(v.is, v.v))

(* Mutant: the path is written as it is. *)
packLeafNodeRaw(n) ==
    Then(InOrder(<<Ok(PathBytes(n.path)), packValue(n.value)>>), List)

packLeafNode(n) ==
    Then(InOrder(<<Ok(PathBytes(hexToCompact(n.path))), packValue(n.value)>>),
         List)

packExtensionNode(n) ==
    Then(InOrder(<<Ok(PathBytes(hexToCompact(n.path))), PackLink(n.child)>>),
         List)

(* One child of a branch: nothing, a link, or a leaf stored in place. *)
packChild(c) ==
    IF c = Null THEN Ok(Blank)
    ELSE IF c = NonCid \/ c.is = "link" THEN PackLink(c)
    ELSE IF c.is = "TrieLeafNode" THEN packLeafNode(c)
    ELSE Err

packBranchNode(n) ==
    Then(InOrder([i \in 1 .. Radix + 1 |->
                     IF i <= Radix THEN packChild(n.children[i])
                     ELSE packValue(n.value)]),
         List)

(* n is of the type TrieNode; what AssignNode does with any other node is  *)
(* the matter of UnionAssembler.                                           *)
AppendEncode(n) ==
    CASE n.is = "TrieLeafNode"      -> packLeafNode(n)
      [] n.is = "TrieExtensionNode" -> packExtensionNode(n)
      [] n.is = "TrieBranchNode"    -> packBranchNode(n)
      [] OTHER                      -> Err   \* not a node of the schema

----------------------------------------------------------------------------
(* Decoding.                                                               *)

(* Storage values are taken as they are; any other must be what the codec  *)
(* of the trie's value kind writes.                                        *)
unpackValue(x, codec) ==
    IF KindOf(codec) = "Bytes" THEN Ok(Value("Bytes", x))
    ELSE IF x.is = "value" /\ x.kind = KindOf(codec)
         THEN Ok(Value(x.kind, x.v))
    ELSE Err

unpackLeafNode(path, x, codec) ==
    IF IsList(x) THEN Err
    ELSE Then(unpackValue(x, codec), LAMBDA v : Leaf(path, v))

(* Mutant: every link is given the codec of the first trie supported. *)
LinkToTx(x, codec) == TrieLink("tx_trie", "keccak", x)
(* Keccak256ToCid: whatever the bytes are, they become a digest. *)
LinkTo(x, codec) == TrieLink(codec, "keccak", x)

unpackExtensionNode(path, x, codec) ==
    IF IsList(x) THEN Err ELSE Ok(Extension(path, LinkTo(x, codec)))

(* Mutant: the odd flag is not masked off. *)
NodeKindOddOnly(first) == IF first \div 16 = 0 THEN "extension"
                          ELSE IF first \div 16 = 2 THEN "leaf" ELSE "unknown"

(* Mutant: what is no extension is a leaf. *)
NodeKindLenient(first) == IF first \div 16 \in {0, 1} THEN "extension"
                          ELSE "leaf"

(* decodeTwoMemberNode: the flag nibble decides what the node is. *)
NodeKind(first) == IF first \div 16 \in {0, 1} THEN "extension"
                   ELSE IF first \div 16 \in {2, 3} THEN "leaf"
                   ELSE "unknown"

(* The first member is asserted to be a byte string, and its first byte is *)
(* read: a list or an empty string panics.                                 *)
decodeTwoMemberNode(items) ==
    IF items[1].is # "path" THEN Panic
    ELSE LET kind == NodeKind(items[1].b[1])
         IN  IF kind = "unknown" THEN Err
             ELSE Ok([kind |-> kind, path |-> compactToHex(items[1].b)])

unpackTwoMembers(items, codec) ==
    LET two == decodeTwoMemberNode(items)
    IN  IF two.st # "ok" THEN two
        ELSE IF two.x.kind = "leaf"
             THEN unpackLeafNode(two.x.path, items[2], codec)
             ELSE unpackExtensionNode(two.x.path, items[2], codec)

unpackChild(x, codec) ==
    IF ~IsList(x)
    THEN IF x = Blank THEN Ok(Null)
         ELSE IF Is32Bytes(x) THEN Ok(LinkTo(x, codec))
         ELSE Err
    ELSE IF Len(x.l) # 2 THEN Err
    ELSE LET two == decodeTwoMemberNode(x.l)
         IN  IF two.st # "ok" THEN two
             ELSE IF two.x.kind # "leaf" THEN Err
             ELSE unpackLeafNode(two.x.path, x.l[2], codec)

unpackBranchValue(x, codec) ==
    IF IsList(x) THEN Err
    ELSE IF x = Blank THEN Ok(Null)
    ELSE unpackValue(x, codec)

unpackBranchNode(items, codec) ==
    Then(InOrder([i \in 1 .. Radix + 1 |->
                     IF i <= Radix THEN unpackChild(items[i], codec)
                     ELSE unpackBranchValue(items[i], codec)]),
         LAMBDA xs : Branch([i \in 1 .. Radix |-> xs[i]], xs[Radix + 1]))

(* What is no list is refused by the RLP decoder; a list of another length *)
(* leaves the union without a member, which Finish refuses.                *)
DecodeTrieNodeBytes(block, codec) ==
    IF ~IsList(block) THEN Err ELSE
    CASE Len(block.l) = 2         -> unpackTwoMembers(block.l, codec)
      [] Len(block.l) = Radix + 1 -> unpackBranchNode(block.l, codec)
      [] OTHER                    -> Err

----------------------------------------------------------------------------
(* A node as a trie of the codec has it. *)
WellFormedValue(codec, v) ==
    /\ v.is = KindOf(codec)
    /\ IF v.is = "Bytes" THEN ~IsList(v.v) ELSE v.v \notin Broken \cup Fatal

WellFormedLeaf(codec, n) == /\ WellFormedHex(n.path) /\ hasTerm(n.path)
                            /\ WellFormedValue(codec, n.value)

OwnLink(codec, l) == /\ l # NonCid /\ l.is = "link"
                     /\ l.codec = codec /\ l.mh = "keccak" /\ ~IsList(l.digest)

WellFormedNode(codec, n) ==
    \/ n.is = "TrieLeafNode" /\ WellFormedLeaf(codec, n)
    \/ /\ n.is = "TrieExtensionNode"
       /\ WellFormedHex(n.path) /\ ~hasTerm(n.path)
       /\ OwnLink(codec, n.child)
    \/ /\ n.is = "TrieBranchNode"
       /\ \A i \in 1 .. Radix :
            LET c == n.children[i]
            IN  \/ c = Null
                \/ c # NonCid /\ c.is = "TrieLeafNode" /\ WellFormedLeaf(codec, c)
                \/ OwnLink(codec, c) /\ Is32Bytes(c.digest)
       /\ \/ n.value = Null
          \/ WellFormedValue(codec, n.value) /\ n.value.v # Blank

(* A compact path with its padding nibble cleared. *)
CanonicalPath(x) == IF x.is = "path" THEN PathBytes(Canonical(x.b)) ELSE x
CanonicalTwo(items) == <<CanonicalPath(items[1]), items[2]>>
CanonicalBlock(b) ==
    IF Len(b.l) = 2 THEN List(CanonicalTwo(b.l))
    ELSE List([i \in 1 .. Len(b.l) |->
                  IF i <= Radix /\ IsList(b.l[i])
                  THEN List(CanonicalTwo(b.l[i].l))
                  ELSE b.l[i]])
=============================================================================
