-------------------------- MODULE CodecStoreProofs -------------------------
(***************************************************************************)
(* Stores and loads through the eleven codecs of CodecTable, for every     *)
(* radix, every path, every length of field and every set of values and    *)
(* digests.                                                                *)
(*                                                                         *)
(* Three laws of single calls (Stores, Reads and Loads) are enough for     *)
(* whatever sequence of calls the caller makes; StoreInv carries them from *)
(* call to call.  KnownCodecsAreLawful then shows them of every codec: of  *)
(* the five tries' from what HexPrefixProofs says of their paths, of the   *)
(* others' from ValueCodecProofs.                                          *)
(***************************************************************************)
EXTENDS CodecStore, CodecTable, HexPrefixProofs, ValueCodecProofs

----------------------------------------------------------------------------
(* The nodes and blocks that there are.                                    *)

(* A byte string.  Value bytes are those that some codec writes. *)
ByteString(x) ==
    /\ x.is # "list"
    /\ x.is = "path" => /\ x = [is |-> "path", b |-> x.b]
                        /\ x.b \in Seq(Byte) /\ x.b # << >>
    /\ x.is = "value" => /\ x = ValueBytes(x.kind, x.v)
                         /\ x.v \in Values /\ x.v \notin Broken \cup Fatal

(* An item of a block: what is deeper in it no decoder looks at. *)
Item(x) ==
    \/ ByteString(x)
    \/ /\ x.is = "list" /\ x = List(x.l) /\ Tuple(x.l)
       /\ \A i \in 1 .. Len(x.l) : ByteString(x.l[i]) \/ x.l[i].is = "list"

SomeBlock(b) ==
    b.is = "list" => /\ b = List(b.l) /\ Tuple(b.l)
                     /\ \A i \in 1 .. Len(b.l) : Item(b.l[i])

SomeValue(v) == /\ v = Value(v.is, v.v) /\ v.is \in ValueKinds
                /\ IF v.is = "Bytes" THEN ByteString(v.v) ELSE v.v \in Values

SomeLeaf(n) == /\ n = Leaf(n.path, n.value)
               /\ n.path \in Seq(Byte) /\ SomeValue(n.value)

SomeLink(l) == \/ l = NonCid
               \/ /\ l.is = "link" /\ l = TrieLink(l.codec, l.mh, l.digest)
                  /\ ByteString(l.digest)

SomeChild(c) ==
    \/ c = Null
    \/ SomeLink(c)
    \/ /\ c # NonCid
       /\ \/ c.is = "TrieLeafNode" /\ SomeLeaf(c)
          \/ c.is \in {"TrieExtensionNode", "TrieBranchNode"}

(* A node as the builders of the schema make it, or of another type. *)
SomeNode(n) ==
    /\ n.is = "TrieLeafNode" => SomeLeaf(n)
    /\ n.is = "TrieExtensionNode" => /\ n = Extension(n.path, n.child)
                                     /\ n.path \in Seq(Byte)
                                     /\ SomeLink(n.child)
    /\ n.is = "TrieBranchNode" =>
         /\ n = Branch(n.children, n.value)
         /\ n.children = [i \in 1 .. Radix |-> n.children[i]]
         /\ \A i \in 1 .. Radix : SomeChild(n.children[i])
         /\ n.value = Null \/ SomeValue(n.value)

(* The nodes and blocks of each codec.  A header of another's block has no *)
(* hash of withdrawals, which the codec would drop.                        *)
NodeOf(c, n) ==
    CASE c \in Codecs        -> SomeNode(n)
      [] c = "tx"            -> SomeTx(n)
      [] c = "rct"           -> SomeRct(n)
      [] c = "log"           -> SomeLog(n)
      [] c = "header"        -> SomeHeader(n)
      [] c = "uncles"        -> SomeUncles(n)
      [] c = "state_account" -> SomeAccount(n)

BlockOf(c, b) ==
    CASE c \in Codecs        -> SomeBlock(b)
      [] c = "tx"            -> Enveloped(b)
      [] c = "rct"           -> Enveloped(b)
      [] c = "log"           -> Nested(b)
      [] c = "header"        -> HeaderItem(b)
      [] c = "uncles"        -> UnclesBlock(b)
      [] c = "state_account" -> Flat(b)

----------------------------------------------------------------------------
(* The laws.                                                               *)

(* What Encode writes is a block in the codec's own form, on which Decode  *)
(* does not panic; it reads the block of a readable node, and what it      *)
(* reads is the node's meaning.                                            *)
Stores(c) == \A n : NodeOf(c, n) /\ Encode(c, n).st = "ok" =>
    LET b == Encode(c, n).x
        r == Decode(c, b)
    IN  /\ BlockOf(c, b) /\ b # None /\ OwnForm(c, b) = b
        /\ r.st # "panic" /\ (Readable(c, n) => r.st = "ok")
        /\ c \in Lenient /\ r.st = "ok" => r.x = Normal(c, n)

(* A well-formed node is written and read back. *)
Reads(c) == \A n : NodeOf(c, n) /\ WellFormed(c, n) =>
    Encode(c, n).st = "ok" /\ Decode(c, Encode(c, n).x) = Ok(n)

(* What Decode accepts is well-formed, and is written as the block. *)
Loads(c) == \A b : BlockOf(c, b) /\ Decode(c, b).st = "ok" =>
    LET n == Decode(c, b).x
    IN  /\ NodeOf(c, n) /\ n # None /\ WellFormed(c, n)
        /\ Encode(c, n) = Ok(OwnForm(c, b))

Lawful == \A c \in Multicodecs :
    /\ Stores(c) /\ Reads(c) /\ Loads(c)
    /\ \A n \in Nodes(c) : NodeOf(c, n) /\ n # None
    /\ \A b \in Blocks(c) : BlockOf(c, b) /\ b # None

----------------------------------------------------------------------------
(* Where the caller's node and block come from.                            *)

Encodes(n, b) == Encode(codec, n).st = "ok" /\ Encode(codec, n).x = b
Decodes(b, n) == Decode(codec, b).st = "ok" /\ Decode(codec, b).x = n

FromNode ==
    /\ WellFormed(codec, start.x) => out = "ok"
    /\ NodeOf(codec, start.x) /\ start.x # None
    /\ \/ by = "none" /\ block = None
       \/ by = "encode" /\ block # None /\ Encodes(start.x, block)
    /\ \/ src = "caller" /\ node = start.x
       \/ src = "load" /\ by = "encode" /\ Decodes(block, node)

FromBlock ==
    /\ BlockOf(codec, start.x) /\ start.x # None
    /\ \/ src = "none" /\ node = None /\ by = "other" /\ block = start.x
       \/ /\ src = "load" /\ out = "ok" /\ Decodes(start.x, node)
          /\ \/ by = "other" /\ block = start.x
             \/ by = "encode" /\ Encodes(node, block)

StoreInv ==
    /\ codec \in Multicodecs
    /\ \/ start.is = "node" /\ FromNode
       \/ start.is = "block" /\ FromBlock

LEMMA InitStoreInv == ASSUME Lawful, Init PROVE StoreInv
  BY DEF Init, StoreInv, FromNode, FromBlock, Lawful

(* The node that came out of a block is written as the block's own form,   *)
(* and comes out of that again.                                            *)
LEMMA LoadedNode ==
    ASSUME Lawful, codec \in Multicodecs, NEW b, BlockOf(codec, b), NEW n,
           Decodes(b, n)
    PROVE  /\ NodeOf(codec, n) /\ n # None /\ WellFormed(codec, n)
           /\ Encodes(n, OwnForm(codec, b)) /\ Decodes(OwnForm(codec, b), n)
<1>1. Loads(codec) /\ Reads(codec)
  BY DEF Lawful
<1>2. /\ NodeOf(codec, n) /\ n # None /\ WellFormed(codec, n)
      /\ Encode(codec, n) = Ok(OwnForm(codec, b))
  BY <1>1 DEF Loads, Decodes
<1>3. Encodes(n, OwnForm(codec, b))
  BY <1>2 DEF Encodes, Ok
<1>4. Decode(codec, Encode(codec, n).x) = Ok(n)
  BY <1>1, <1>2 DEF Reads
<1> QED
  BY <1>2, <1>3, <1>4 DEF Encodes, Decodes, Ok

(* What Encode wrote of the caller's own node. *)
LEMMA StoredNode ==
    ASSUME Lawful, codec \in Multicodecs, NEW n, NodeOf(codec, n), NEW b,
           Encodes(n, b)
    PROVE  /\ BlockOf(codec, b) /\ b # None /\ OwnForm(codec, b) = b
           /\ Decode(codec, b).st # "panic"
           /\ Readable(codec, n) => Decode(codec, b).st = "ok"
           /\ WellFormed(codec, n) => Decodes(b, n)
           /\ \A m : codec \in Lenient /\ Decodes(b, m) => m = Normal(codec, n)
<1>1. Stores(codec) /\ Reads(codec)
  BY DEF Lawful
<1>2. /\ BlockOf(codec, b) /\ b # None /\ OwnForm(codec, b) = b
      /\ Decode(codec, b).st # "panic"
      /\ Readable(codec, n) => Decode(codec, b).st = "ok"
      /\ codec \in Lenient /\ Decode(codec, b).st = "ok"
            => Decode(codec, b).x = Normal(codec, n)
  BY <1>1 DEF Stores, Encodes
<1>3. WellFormed(codec, n) => Decode(codec, b) = Ok(n)
  BY <1>1 DEF Reads, Encodes
<1> QED
  BY <1>2, <1>3 DEF Decodes, Ok

(* A block that Encode wrote, once there is one. *)
Written == by = "encode" => block # None /\ BlockOf(codec, block)
                            /\ Decode(codec, block).st # "panic"

LEMMA BlocksWritten == ASSUME Lawful, StoreInv PROVE Written
<1>1. CASE start.is = "node"
  BY <1>1, StoredNode DEF StoreInv, FromNode, Written
<1>2. CASE start.is = "block"
  BY <1>2, StoredNode, LoadedNode DEF StoreInv, FromBlock, Written
<1> QED
  BY <1>1, <1>2 DEF StoreInv

LEMMA StoreKeepsInv ==
    ASSUME Lawful, StoreInv, Store
    PROVE  /\ StoreInv'
           /\ by = "encode" /\ src = "load" => block' = block
<1> DEFINE r == Encode(codec, node)
<1>1. /\ node # None /\ out' = r.st
      /\ block' = (IF r.st = "ok" THEN r.x ELSE block)
      /\ by' = (IF r.st = "ok" THEN "encode" ELSE by)
      /\ codec' = codec /\ start' = start /\ node' = node /\ src' = src
  BY DEF Store
<1>2. r.st = "ok" => Encodes(node, r.x)
  BY DEF Encodes
<1> HIDE DEF r
<1>3. CASE start.is = "node" /\ src = "caller"
  <2>1. FromNode /\ codec \in Multicodecs
    BY <1>3 DEF StoreInv, FromNode
  <2>2. node = start.x /\ NodeOf(codec, node)
    BY <1>3, <2>1 DEF FromNode
  <2>3. r.st = "ok" => r.x # None
    BY <1>2, <2>1, <2>2, StoredNode
  <2>4. WellFormed(codec, node) => r.st = "ok"
    BY <2>1, <2>2 DEF Lawful, Reads, r
  <2>5. FromNode'
    BY <1>1, <1>2, <1>3, <2>1, <2>2, <2>3, <2>4 DEF FromNode, Encodes, Decodes
  <2> QED
    BY <1>1, <1>3, <2>1, <2>5 DEF StoreInv
<1>4. CASE start.is = "node" /\ src = "load"
  <2>1. FromNode /\ codec \in Multicodecs
    BY <1>4 DEF StoreInv, FromNode
  <2>2. NodeOf(codec, start.x) /\ Encodes(start.x, block) /\ Decodes(block, node)
    BY <1>4, <2>1 DEF FromNode
  <2>3. BlockOf(codec, block) /\ OwnForm(codec, block) = block
    BY <2>1, <2>2, StoredNode
  <2>4. Encodes(node, block)
    BY <2>1, <2>2, <2>3, LoadedNode
  <2>5. r.st = "ok" /\ r.x = block
    BY <2>4 DEF Encodes, r
  <2>6. FromNode' /\ block' = block
    BY <1>1, <1>4, <2>1, <2>5 DEF FromNode, Encodes, Decodes
  <2> QED
    BY <1>1, <1>4, <2>1, <2>6 DEF StoreInv
<1>5. CASE start.is = "block"
  <2>1. FromBlock /\ codec \in Multicodecs /\ src = "load"
    BY <1>1, <1>5 DEF StoreInv, FromBlock
  <2>2. BlockOf(codec, start.x) /\ Decodes(start.x, node)
    BY <2>1 DEF FromBlock
  <2>3. Encodes(node, OwnForm(codec, start.x))
    BY <2>1, <2>2, LoadedNode
  <2>4. r.st = "ok" /\ r.x = OwnForm(codec, start.x)
    BY <2>3 DEF Encodes, r
  <2>5. by = "encode" => block = r.x
    BY <2>1 DEF FromBlock, Encodes, r
  <2>6. FromBlock' /\ (by = "encode" => block' = block)
    BY <1>1, <1>2, <2>1, <2>4, <2>5 DEF FromBlock, Encodes, Decodes
  <2> QED
    BY <1>1, <1>5, <2>1, <2>6 DEF StoreInv
<1> QED
  BY <1>3, <1>4, <1>5 DEF StoreInv, FromNode

LEMMA LoadKeepsInv ==
    ASSUME Lawful, StoreInv, Load
    PROVE  /\ StoreInv' /\ block' = block
           /\ by = "encode" => out' # "panic"
           /\ start.is = "node" /\ WellFormed(codec, start.x) => out' = "ok"
           /\ start.is = "node" /\ Readable(codec, start.x) => out' = "ok"
           /\ start.is = "block" /\ by = "encode" => out' = "ok"
<1> DEFINE r == Decode(codec, block)
<1>1. /\ block # None /\ out' = r.st
      /\ node' = (IF r.st = "ok" THEN r.x ELSE node)
      /\ src' = (IF r.st = "ok" THEN "load" ELSE src)
      /\ codec' = codec /\ start' = start /\ block' = block /\ by' = by
  BY DEF Load
<1>2. r.st = "ok" => Decodes(block, r.x)
  BY DEF Decodes
<1>3. by = "encode" => r.st # "panic"
  BY BlocksWritten DEF Written
<1>4. CASE start.is = "node"
  <2>1. FromNode /\ codec \in Multicodecs
    BY <1>4 DEF StoreInv
  <2>2. NodeOf(codec, start.x) /\ Encodes(start.x, block) /\ by = "encode"
    BY <1>1, <2>1 DEF FromNode
  <2>3. WellFormed(codec, start.x) \/ Readable(codec, start.x) => r.st = "ok"
    BY <2>1, <2>2, StoredNode DEF Decodes
  <2> HIDE DEF r
  <2>4. FromNode'
    BY <1>1, <1>2, <2>1, <2>2, <2>3 DEF FromNode, Encodes, Decodes
  <2> QED
    BY <1>1, <1>3, <1>4, <2>1, <2>3, <2>4 DEF StoreInv
<1>5. CASE start.is = "block"
  <2>1. FromBlock /\ codec \in Multicodecs
    BY <1>5 DEF StoreInv
  <2>2. src = "load" => r.st = "ok" /\ r.x = node
    <3>1. CASE src = "load" /\ by = "other"
      BY <2>1, <3>1 DEF FromBlock, Decodes
    <3>2. CASE src = "load" /\ by = "encode"
      <4>1. BlockOf(codec, start.x) /\ Decodes(start.x, node)
            /\ Encodes(node, block)
        BY <2>1, <3>2 DEF FromBlock
      <4>2. block = OwnForm(codec, start.x) /\ Decodes(block, node)
        BY <2>1, <4>1, LoadedNode DEF Encodes
      <4> QED
        BY <4>2 DEF Decodes
    <3> QED
      BY <2>1, <3>1, <3>2 DEF FromBlock
  <2> HIDE DEF r
  <2>3. FromBlock'
    BY <1>1, <1>2, <2>1, <2>2 DEF FromBlock, Encodes, Decodes
  <2>4. by = "encode" => src = "load"
    BY <2>1 DEF FromBlock
  <2> QED
    BY <1>1, <1>3, <1>5, <2>1, <2>2, <2>3, <2>4 DEF StoreInv
<1> QED
  BY <1>4, <1>5 DEF StoreInv

LEMMA AlwaysStoreInv == ASSUME Lawful PROVE Spec => []StoreInv
<1>1. StoreInv /\ UNCHANGED vars => StoreInv'
  BY DEF vars, StoreInv, FromNode, FromBlock, Encodes, Decodes
<1>2. StoreInv /\ [Next]_vars => StoreInv'
  BY <1>1, StoreKeepsInv, LoadKeepsInv DEF Next
<1> QED
  BY <1>2, InitStoreInv, PTL DEF Spec
----------------------------------------------------------------------------
(* Nodes of two members (packLeafNode, decodeTwoMemberNode).               *)

Two(p, x) == List(<<PathBytes(hexToCompact(p)), x>>)

LEMMA PackTwo ==
    ASSUME NEW p, NEW r
    PROVE  Then(InOrder(<<Ok(PathBytes(hexToCompact(p))), r>>), List) =
               IF r.st = "ok" THEN Ok(Two(p, r.x)) ELSE r
<1> DEFINE a == PathBytes(hexToCompact(p))
           o == InOrder(<<Ok(a), r>>)
<1>1. o = IF r.st = "ok" THEN Ok(<<a, r.x>>) ELSE r
  BY InOrderPair
<1> HIDE DEF a, o
<1>2. Then(o, List) = IF o.st = "ok" THEN Ok(List(o.x)) ELSE o
  BY DEF Then
<1>3. Then(o, List) = IF r.st = "ok" THEN Ok(List(<<a, r.x>>)) ELSE r
  BY <1>1, <1>2 DEF Ok
<1> QED
  BY <1>3 DEF o, a, Two

(* The path of a node, as a member of the list. *)
LEMMA PathMember ==
    ASSUME NEW p \in Seq(Byte), NEW x
    PROVE  /\ Two(p, x) = [is |-> "list", l |-> Two(p, x).l]
           /\ Len(Two(p, x).l) = 2 /\ Tuple(Two(p, x).l)
           /\ Two(p, x).l[1] = [is |-> "path", b |-> hexToCompact(p)]
           /\ Two(p, x).l[2] = x
           /\ ByteString(Two(p, x).l[1])
           /\ List(CanonicalTwo(Two(p, x).l)) = Two(p, x)
           /\ decodeTwoMemberNode(Two(p, x).l).st # "panic"
<1> DEFINE c == hexToCompact(p)
           h == [is |-> "path", b |-> c]
<1>1. c \in Seq(Byte) /\ c # << >> /\ Canonical(c) = c
  BY CompactIsBytes, CompactIsCanonical
<1> HIDE DEF c
<1>2. PathBytes(c) = h
  BY <1>1 DEF PathBytes
<1>3. h.is = "path" /\ h.b = c
  OBVIOUS
<1>4. ByteString(h)
  BY <1>1, <1>3 DEF ByteString
<1>5. CanonicalPath(h) = h
  BY <1>1, <1>2, <1>3 DEF CanonicalPath
<1>6. Two(p, x) = List(<<h, x>>)
  BY <1>2 DEF Two, c
<1> HIDE DEF h
<1>7. Two(p, x).l = <<h, x>> /\ Two(p, x).is = "list"
  BY <1>6 DEF List
<1>8. Len(<<h, x>>) = 2 /\ <<h, x>>[1] = h /\ <<h, x>>[2] = x
  OBVIOUS
<1>9. Tuple(<<h, x>>)
  BY <1>8 DEF Tuple
<1>10. CanonicalTwo(<<h, x>>) = <<h, x>>
  BY <1>5, <1>8 DEF CanonicalTwo
<1>11. decodeTwoMemberNode(<<h, x>>).st # "panic"
  BY <1>3, <1>8 DEF decodeTwoMemberNode, Ok, Err
<1> QED
  BY <1>4, <1>6, <1>7, <1>8, <1>9, <1>10, <1>11 DEF List, h, c

(* A path that was stored is found again, and the node is what it was. *)
LEMMA TwoReads ==
    ASSUME NEW p \in Seq(Byte), WellFormedHex(p), NEW x
    PROVE  decodeTwoMemberNode(Two(p, x).l) =
             Ok([kind |-> IF hasTerm(p) THEN "leaf" ELSE "extension",
                 path |-> p])
<1> DEFINE c == hexToCompact(p)
           l == Two(p, x).l
           kind == IF hasTerm(p) THEN "leaf" ELSE "extension"
<1>1. l[1] = [is |-> "path", b |-> c]
  BY PathMember
<1>2. c[1] \div 16 \in IF hasTerm(p) THEN {2, 3} ELSE {0, 1}
  BY CompactFlag
<1>3. compactToHex(c) = p
  BY ConversionRoundTrip
<1> HIDE DEF c, l
<1>4. NodeKind(c[1]) = kind
  BY <1>2 DEF NodeKind
<1>5. l[1].is = "path" /\ l[1].b = c
  BY <1>1
<1> QED
  BY <1>3, <1>4, <1>5 DEF decodeTwoMemberNode, l

(* What is read of two members that someone else wrote. *)
LEMMA TwoLoads ==
    ASSUME NEW l, l[1].is = "path" => ByteString(l[1]),
           decodeTwoMemberNode(l).st = "ok"
    PROVE  LET two == decodeTwoMemberNode(l).x
           IN  /\ two.path \in Seq(Byte) /\ WellFormedHex(two.path)
               /\ two.kind = IF hasTerm(two.path) THEN "leaf" ELSE "extension"
               /\ Two(two.path, l[2]) = List(CanonicalTwo(l))
<1> DEFINE c == l[1].b
           h == compactToHex(c)
           kind == NodeKind(c[1])
<1>1. l[1].is = "path"
  BY DEF decodeTwoMemberNode, Panic
<1>2. c \in Seq(Byte) /\ c # << >>
  BY <1>1 DEF ByteString
<1>3. kind # "unknown" /\ decodeTwoMemberNode(l) = Ok([kind |-> kind, path |-> h])
  BY <1>1 DEF decodeTwoMemberNode, Err
<1>4. Len(c) \in Nat /\ Len(c) > 0 /\ c[1] \in Byte
  BY <1>2
<1>5. c[1] \div 16 \in Nibble
  BY <1>4, ByteHalves
<1> HIDE DEF c
<1>6. KnownFlag(c) /\ kind = IF c[1] \div 16 >= 2 THEN "leaf" ELSE "extension"
  <2>1. c[1] \div 16 \in {0, 1, 2, 3}
    BY <1>3 DEF NodeKind
  <2>2. KnownFlag(c)
    BY <1>4, <2>1 DEF KnownFlag
  <2>3. kind = IF c[1] \div 16 >= 2 THEN "leaf" ELSE "extension"
    BY <2>1 DEF NodeKind
  <2> QED
    BY <2>2, <2>3
<1>7. /\ hexToCompact(h) = Canonical(c)
      /\ h \in Seq(Byte) /\ WellFormedHex(h)
      /\ hasTerm(h) <=> c[1] \div 16 >= 2
  BY <1>2, <1>6, WireRoundTrip
<1>8. Two(h, l[2]) = List(CanonicalTwo(l))
  BY <1>1, <1>7 DEF Two, CanonicalTwo, CanonicalPath, c
<1>9. kind = IF hasTerm(h) THEN "leaf" ELSE "extension"
  BY <1>6, <1>7
<1> HIDE DEF h, kind
<1>10. decodeTwoMemberNode(l).x.path = h /\ decodeTwoMemberNode(l).x.kind = kind
  BY <1>3 DEF Ok
<1> QED
  BY <1>7, <1>8, <1>9, <1>10
----------------------------------------------------------------------------
(* Values (packValue, unpackValue).                                        *)

(* No content of a value is the empty string, and what is no CID is        *)
(* neither null nor a link nor a leaf.                                     *)
Apart == /\ Blank \notin Values
         /\ NonCid # Null
         /\ \A c, m, x : NonCid # TrieLink(c, m, x)
         /\ \A p, v : NonCid # Leaf(p, v)

LEMMA KindsOfCodecs ==
    ASSUME NEW c \in Codecs
    PROVE  KindOf(c) \in ValueKinds
  BY DEF Codecs, KindOf, ValueKinds

LEMMA ValueStores ==
    ASSUME NEW v, SomeValue(v), packValue(v).st = "ok"
    PROVE  v # Null /\ ByteString(packValue(v).x)
<1>1. v.is # "null" /\ v # Null
  BY DEF SomeValue, ValueKinds, Null
<1>2. CASE v.is = "Bytes"
  BY <1>1, <1>2 DEF packValue, Ok, SomeValue
<1>3. CASE v.is # "Bytes"
  <2>1. v.v \notin Broken \cup Fatal /\ v.v \in Values
    BY <1>1, <1>3 DEF packValue, Err, Panic, SomeValue
  <2>2. packValue(v).x = ValueBytes(v.is, v.v)
    BY <1>1, <1>3, <2>1 DEF packValue, Ok
  <2>3. ByteString(ValueBytes(v.is, v.v))
    BY <2>1 DEF ByteString, ValueBytes
  <2> QED
    BY <1>1, <2>2, <2>3
<1> QED
  BY <1>2, <1>3

LEMMA ValueReads ==
    ASSUME NEW c, NEW v, SomeValue(v), WellFormedValue(c, v)
    PROVE  /\ packValue(v).st = "ok" /\ ByteString(packValue(v).x)
           /\ unpackValue(packValue(v).x, c) = Ok(v)
           /\ v.v # Blank => packValue(v).x # Blank
<1>1. v.is # "null" /\ v # Null /\ v.is = KindOf(c) /\ v = Value(v.is, v.v)
  BY DEF SomeValue, ValueKinds, Null, WellFormedValue
<1>2. CASE v.is = "Bytes"
  <2>1. packValue(v) = Ok(v.v)
    BY <1>1, <1>2 DEF packValue
  <2>2. packValue(v).st = "ok" /\ packValue(v).x = v.v
    BY <2>1 DEF Ok
  <2>3. unpackValue(v.v, c) = Ok(v)
    BY <1>1, <1>2 DEF unpackValue
  <2> QED
    BY <2>2, <2>3, ValueStores
<1>3. CASE v.is # "Bytes"
  <2>1. v.v \notin Broken \cup Fatal
    BY <1>3 DEF WellFormedValue
  <2> DEFINE x == ValueBytes(v.is, v.v)
  <2>2. packValue(v) = Ok(x)
    BY <1>1, <1>3, <2>1 DEF packValue
  <2>3. packValue(v).st = "ok" /\ packValue(v).x = x
    BY <2>2 DEF Ok
  <2>4. x.is = "value" /\ x.kind = v.is /\ x.v = v.v /\ x # Blank
    BY DEF ValueBytes, Blank
  <2> HIDE DEF x
  <2>5. unpackValue(x, c) = Ok(v)
    BY <1>1, <1>3, <2>4 DEF unpackValue
  <2> QED
    BY <2>3, <2>4, <2>5, ValueStores
<1> QED
  BY <1>2, <1>3

LEMMA ValueLoads ==
    ASSUME Apart, NEW c \in Codecs, NEW x, ByteString(x),
           unpackValue(x, c).st = "ok"
    PROVE  LET v == unpackValue(x, c).x
           IN  /\ SomeValue(v) /\ WellFormedValue(c, v) /\ v # Null
               /\ packValue(v) = Ok(x)
               /\ x # Blank => v.v # Blank
<1>1. KindOf(c) \in ValueKinds
  BY KindsOfCodecs
<1>2. CASE KindOf(c) = "Bytes"
  <2> DEFINE v == Value("Bytes", x)
  <2>1. unpackValue(x, c) = Ok(v)
    BY <1>2 DEF unpackValue
  <2>2. v.is = "Bytes" /\ v.v = x /\ v = Value(v.is, v.v) /\ v # Null
    BY DEF Value, Null
  <2> HIDE DEF v
  <2>3. SomeValue(v) /\ WellFormedValue(c, v)
    BY <1>2, <2>2 DEF SomeValue, ValueKinds, WellFormedValue, ByteString, IsList
  <2>4. packValue(v) = Ok(x)
    BY <2>2 DEF packValue
  <2> QED
    BY <2>1, <2>2, <2>3, <2>4 DEF Ok
<1>3. CASE KindOf(c) # "Bytes"
  <2>1. x.is = "value" /\ x.kind = KindOf(c)
    BY <1>3 DEF unpackValue, Err
  <2> DEFINE v == Value(x.kind, x.v)
  <2>2. unpackValue(x, c) = Ok(v)
    BY <1>3, <2>1 DEF unpackValue
  <2>3. v.is = x.kind /\ v.v = x.v
    BY DEF Value
  <2>4. v = Value(v.is, v.v)
    BY <2>3
  <2>5. /\ x = ValueBytes(x.kind, x.v) /\ x.v \in Values
        /\ x.v \notin Broken \cup Fatal
    BY <2>1 DEF ByteString
  <2> HIDE DEF v
  <2>6. SomeValue(v) /\ WellFormedValue(c, v)
    BY <1>1, <1>3, <2>1, <2>3, <2>4, <2>5 DEF SomeValue, WellFormedValue
  <2>7. v # Null
    BY <1>1, <2>1, <2>3 DEF Null, ValueKinds
  <2>8. packValue(v) = Ok(x)
    BY <1>3, <2>1, <2>3, <2>5, <2>7 DEF packValue
  <2>9. v.v # Blank
    BY <2>3, <2>5 DEF Apart
  <2> QED
    BY <2>2, <2>6, <2>7, <2>8, <2>9 DEF Ok
<1> QED
  BY <1>2, <1>3

(* The value slot of a branch (unpackBranchValue). *)
LEMMA SlotStores ==
    ASSUME NEW v, v = Null \/ SomeValue(v), packValue(v).st = "ok"
    PROVE  ByteString(packValue(v).x)
<1>1. CASE v = Null
  <2>1. packValue(v).x = Blank
    BY <1>1 DEF packValue, Ok
  <2> QED
    BY <2>1 DEF ByteString, Blank
<1> QED
  BY <1>1, ValueStores

LEMMA SlotNoPanic ==
    ASSUME NEW c, NEW x
    PROVE  /\ unpackValue(x, c).st # "panic"
           /\ unpackBranchValue(x, c).st # "panic"
<1>1. unpackValue(x, c).st # "panic"
  BY DEF unpackValue, Ok, Err
<1> QED
  BY <1>1 DEF unpackBranchValue, Ok, Err

LEMMA SlotReads ==
    ASSUME NEW c, NEW v,
           v = Null \/ (SomeValue(v) /\ WellFormedValue(c, v) /\ v.v # Blank)
    PROVE  /\ packValue(v).st = "ok"
           /\ unpackBranchValue(packValue(v).x, c) = Ok(v)
<1>1. CASE v = Null
  <2>1. packValue(v).st = "ok" /\ packValue(v).x = Blank
    BY <1>1 DEF packValue, Ok
  <2>2. unpackBranchValue(Blank, c) = Ok(v)
    BY <1>1 DEF unpackBranchValue, IsList, Blank
  <2> QED
    BY <2>1, <2>2
<1>2. CASE SomeValue(v) /\ WellFormedValue(c, v) /\ v.v # Blank
  <2> DEFINE x == packValue(v).x
  <2>1. /\ packValue(v).st = "ok" /\ ByteString(x)
        /\ unpackValue(x, c) = Ok(v) /\ x # Blank
    BY <1>2, ValueReads
  <2> HIDE DEF x
  <2>2. unpackBranchValue(x, c) = Ok(v)
    BY <2>1 DEF unpackBranchValue, IsList, ByteString
  <2> QED
    BY <2>1, <2>2 DEF x
<1> QED
  BY <1>1, <1>2

LEMMA SlotLoads ==
    ASSUME Apart, NEW c \in Codecs, NEW x, Item(x),
           unpackBranchValue(x, c).st = "ok"
    PROVE  LET v == unpackBranchValue(x, c).x
           IN  /\ v = Null \/ (/\ SomeValue(v)
                               /\ WellFormedValue(c, v) /\ v.v # Blank)
               /\ packValue(v) = Ok(x) /\ x.is # "list"
<1>1. ~IsList(x)
  BY DEF unpackBranchValue, Err
<1>2. ByteString(x)
  BY <1>1 DEF Item, IsList
<1>3. CASE x = Blank
  <2>1. unpackBranchValue(x, c).x = Null
    BY <1>1, <1>3 DEF unpackBranchValue, Ok
  <2> QED
    BY <1>1, <1>3, <2>1 DEF packValue, IsList
<1>4. CASE x # Blank
  <2>1. unpackBranchValue(x, c) = unpackValue(x, c)
    BY <1>1, <1>4 DEF unpackBranchValue
  <2> QED
    BY <1>1, <1>2, <1>4, <2>1, ValueLoads DEF IsList
<1> QED
  BY <1>3, <1>4
----------------------------------------------------------------------------
(* Leaves, at the top of a block or in place of a branch's child.          *)

LEMMA LeafPacked ==
    ASSUME NEW n
    PROVE  packLeafNode(n) = LET r == packValue(n.value)
                             IN  IF r.st = "ok" THEN Ok(Two(n.path, r.x)) ELSE r
  BY PackTwo DEF packLeafNode

(* How unpackLeafNode ends. *)
LEMMA LeafUnpacked ==
    ASSUME NEW p, NEW x, NEW c
    PROVE  /\ unpackLeafNode(p, x, c).st = "ok" =>
                /\ ~IsList(x) /\ unpackValue(x, c).st = "ok"
                /\ unpackLeafNode(p, x, c) = Ok(Leaf(p, unpackValue(x, c).x))
           /\ ~IsList(x) /\ unpackValue(x, c).st = "ok" =>
                unpackLeafNode(p, x, c) = Ok(Leaf(p, unpackValue(x, c).x))
           /\ unpackLeafNode(p, x, c).st # "panic"
<1> DEFINE r == unpackValue(x, c)
<1>1. r.st # "panic"
  BY SlotNoPanic
<1>2. unpackLeafNode(p, x, c) =
        IF IsList(x) THEN Err
        ELSE IF r.st = "ok" THEN Ok(Leaf(p, r.x)) ELSE r
  BY DEF unpackLeafNode, Then
<1> HIDE DEF r
<1>3. Err.st = "error" /\ \A y : Ok(y).st = "ok"
  BY DEF Err, Ok
<1> QED
  BY <1>1, <1>2, <1>3 DEF r

(* A node of two members is an item in canonical form. *)
LEMMA TwoStores ==
    ASSUME NEW p \in Seq(Byte), NEW x, ByteString(x)
    PROVE  LET y == Two(p, x)
           IN  /\ Item(y) /\ SomeBlock(y) /\ IsList(y) /\ Len(y.l) = 2
               /\ List(CanonicalTwo(y.l)) = y
               /\ decodeTwoMemberNode(y.l).st # "panic"
<1> DEFINE y == Two(p, x)
<1>1. /\ y = [is |-> "list", l |-> y.l] /\ Len(y.l) = 2 /\ Tuple(y.l)
      /\ y.l[2] = x /\ ByteString(y.l[1])
      /\ List(CanonicalTwo(y.l)) = y /\ decodeTwoMemberNode(y.l).st # "panic"
  BY PathMember
<1> HIDE DEF y
<1>2. y.is = "list" /\ y = List(y.l)
  BY <1>1 DEF List
<1>3. \A i \in 1 .. Len(y.l) : ByteString(y.l[i])
  BY <1>1
<1>4. Item(y) /\ SomeBlock(y)
  BY <1>1, <1>2, <1>3 DEF Item, SomeBlock
<1> QED
  BY <1>1, <1>2, <1>4 DEF y, IsList

LEMMA LeafReads ==
    ASSUME NEW c, NEW n, SomeLeaf(n), WellFormedLeaf(c, n)
    PROVE  LET y == packLeafNode(n).x
           IN  /\ packLeafNode(n).st = "ok"
               /\ IsList(y) /\ Len(y.l) = 2
               /\ decodeTwoMemberNode(y.l) = Ok([kind |-> "leaf", path |-> n.path])
               /\ unpackLeafNode(n.path, y.l[2], c) = Ok(n)
<1> DEFINE x == packValue(n.value).x
           y == Two(n.path, x)
<1>1. /\ n.path \in Seq(Byte) /\ WellFormedHex(n.path) /\ hasTerm(n.path)
      /\ SomeValue(n.value) /\ WellFormedValue(c, n.value)
      /\ n = Leaf(n.path, n.value)
  BY DEF SomeLeaf, WellFormedLeaf
<1>2. /\ packValue(n.value).st = "ok" /\ ByteString(x)
      /\ unpackValue(x, c) = Ok(n.value)
  BY <1>1, ValueReads
<1>3. packLeafNode(n) = Ok(y)
  BY <1>2, LeafPacked
<1>4. packLeafNode(n).st = "ok" /\ packLeafNode(n).x = y
  BY <1>3 DEF Ok
<1>5. IsList(y) /\ Len(y.l) = 2 /\ y.l[2] = x
  BY <1>1, <1>2, TwoStores, PathMember
<1>6. decodeTwoMemberNode(y.l) = Ok([kind |-> "leaf", path |-> n.path])
  BY <1>1, TwoReads
<1> HIDE DEF x, y
<1>7. ~IsList(x) /\ unpackValue(x, c).st = "ok" /\ unpackValue(x, c).x = n.value
  BY <1>2 DEF IsList, ByteString, Ok
<1>8. unpackLeafNode(n.path, x, c) = Ok(n)
  BY <1>1, <1>7, LeafUnpacked
<1> QED
  BY <1>4, <1>5, <1>6, <1>8

LEMMA LeafLoads ==
    ASSUME Apart, NEW c \in Codecs, NEW l,
           \A i \in 1 .. 2 : ByteString(l[i]) \/ l[i].is = "list",
           NEW two, decodeTwoMemberNode(l) = Ok(two), two.kind = "leaf",
           unpackLeafNode(two.path, l[2], c).st = "ok"
    PROVE  LET n == unpackLeafNode(two.path, l[2], c).x
           IN  /\ n.is = "TrieLeafNode" /\ n # NonCid
               /\ SomeLeaf(n) /\ WellFormedLeaf(c, n)
               /\ packLeafNode(n) = Ok(List(CanonicalTwo(l)))
<1> DEFINE x == l[2]
           v == unpackValue(x, c).x
           n == Leaf(two.path, v)
<1>1. decodeTwoMemberNode(l).st = "ok" /\ decodeTwoMemberNode(l).x = two
  BY DEF Ok
<1>2. l[1].is = "path" => ByteString(l[1])
  OBVIOUS
<1>3. /\ two.path \in Seq(Byte) /\ WellFormedHex(two.path)
      /\ two.kind = IF hasTerm(two.path) THEN "leaf" ELSE "extension"
      /\ Two(two.path, x) = List(CanonicalTwo(l))
  BY <1>1, <1>2, TwoLoads
<1>4. hasTerm(two.path)
  BY <1>3
<1>5. ~IsList(x) /\ unpackValue(x, c).st = "ok"
      /\ unpackLeafNode(two.path, x, c) = Ok(n)
  BY LeafUnpacked
<1>6. ByteString(x)
  BY <1>5 DEF IsList
<1>7. SomeValue(v) /\ WellFormedValue(c, v) /\ packValue(v) = Ok(x)
  BY <1>5, <1>6, ValueLoads
<1> HIDE DEF v, x
<1>8. /\ n.is = "TrieLeafNode" /\ n.path = two.path /\ n.value = v
      /\ n = Leaf(n.path, n.value)
  BY DEF Leaf
<1>9. n # NonCid
  BY DEF Apart
<1> HIDE DEF n
<1>10. SomeLeaf(n) /\ WellFormedLeaf(c, n)
  BY <1>3, <1>4, <1>7, <1>8 DEF SomeLeaf, WellFormedLeaf
<1>11. packLeafNode(n) = Ok(Two(two.path, x))
  <2>1. packValue(n.value).st = "ok" /\ packValue(n.value).x = x
    BY <1>7, <1>8 DEF Ok
  <2> QED
    BY <2>1, <1>8, LeafPacked
<1>12. unpackLeafNode(two.path, l[2], c).x = n
  BY <1>5 DEF Ok, x
<1> QED
  BY <1>3, <1>8, <1>9, <1>10, <1>11, <1>12

----------------------------------------------------------------------------
(* The children of a branch (packChild, unpackChild).                      *)

WellFormedChild(c, ch) ==
    \/ ch = Null
    \/ ch # NonCid /\ ch.is = "TrieLeafNode" /\ WellFormedLeaf(c, ch)
    \/ OwnLink(c, ch) /\ Is32Bytes(ch.digest)

CanonicalItem(x) == IF IsList(x) THEN List(CanonicalTwo(x.l)) ELSE x

LEMMA ChildStores ==
    ASSUME NEW c, NEW ch, SomeChild(ch), packChild(ch).st = "ok"
    PROVE  LET x == packChild(ch).x
           IN  /\ Item(x) /\ CanonicalItem(x) = x
               /\ unpackChild(x, c).st # "panic"
<1>1. CASE ByteString(packChild(ch).x)
  <2>1. PICK x : x = packChild(ch).x
    OBVIOUS
  <2>2. Item(x) /\ ~IsList(x) /\ CanonicalItem(x) = x
    BY <1>1, <2>1 DEF Item, IsList, ByteString, CanonicalItem
  <2>3. unpackChild(x, c).st # "panic"
    BY <2>2 DEF unpackChild, Ok, Err
  <2> QED
    BY <2>1, <2>2, <2>3
<1>2. CASE ch = Null
  <2>1. packChild(ch).x = Blank
    BY <1>2 DEF packChild, Ok
  <2>2. ByteString(Blank)
    BY DEF ByteString, Blank
  <2> QED
    BY <1>1, <2>1, <2>2
<1>3. CASE ch # Null /\ SomeLink(ch)
  <2>1. packChild(ch) = PackLink(ch)
    BY <1>3 DEF packChild, SomeLink
  <2>2. ch # NonCid /\ PackLink(ch) = Ok(ch.digest)
    BY <2>1 DEF PackLink, Err
  <2>3. packChild(ch).x = ch.digest
    BY <2>1, <2>2 DEF Ok
  <2>4. ByteString(ch.digest)
    BY <1>3, <2>2 DEF SomeLink
  <2> QED
    BY <1>1, <2>3, <2>4
<1>4. CASE ch # Null /\ ch # NonCid /\ ch.is = "TrieLeafNode" /\ SomeLeaf(ch)
  <2>1. packChild(ch) = packLeafNode(ch)
    BY <1>4 DEF packChild
  <2> DEFINE v == packValue(ch.value).x
             x == Two(ch.path, v)
  <2>2. packValue(ch.value).st = "ok" /\ packLeafNode(ch) = Ok(x)
    BY <2>1, LeafPacked
  <2>3. SomeValue(ch.value) /\ ch.path \in Seq(Byte)
    BY <1>4 DEF SomeLeaf
  <2>4. ByteString(v)
    BY <2>2, <2>3, ValueStores
  <2>5. /\ Item(x) /\ IsList(x) /\ Len(x.l) = 2
        /\ List(CanonicalTwo(x.l)) = x /\ decodeTwoMemberNode(x.l).st # "panic"
    BY <2>3, <2>4, TwoStores
  <2>6. packChild(ch).x = x
    BY <2>1, <2>2 DEF Ok
  <2> HIDE DEF x
  <2>7. unpackChild(x, c).st # "panic"
    <3>1. PICK two : two = decodeTwoMemberNode(x.l)
      OBVIOUS
    <3>2. unpackLeafNode(two.x.path, x.l[2], c).st # "panic"
      BY LeafUnpacked
    <3> QED
      BY <2>5, <3>1, <3>2 DEF unpackChild, Err
  <2> QED
    BY <2>5, <2>6, <2>7 DEF CanonicalItem
<1>5. CASE /\ ch # Null /\ ch # NonCid
           /\ ch.is \in {"TrieExtensionNode", "TrieBranchNode"}
  BY <1>5 DEF packChild, Err
<1> QED
  BY <1>2, <1>3, <1>4, <1>5 DEF SomeChild

LEMMA ChildReads ==
    ASSUME NEW c, NEW ch, SomeChild(ch), WellFormedChild(c, ch)
    PROVE  /\ packChild(ch).st = "ok"
           /\ unpackChild(packChild(ch).x, c) = Ok(ch)
<1>1. CASE ch = Null
  <2>1. packChild(ch).st = "ok" /\ packChild(ch).x = Blank
    BY <1>1 DEF packChild, Ok
  <2>2. unpackChild(Blank, c) = Ok(Null)
    BY DEF unpackChild, IsList, Blank
  <2> QED
    BY <1>1, <2>1, <2>2
<1>2. CASE /\ ch # Null /\ ch # NonCid /\ ch.is = "TrieLeafNode"
           /\ WellFormedLeaf(c, ch)
  <2>1. packChild(ch) = packLeafNode(ch)
    BY <1>2 DEF packChild
  <2>2. SomeLeaf(ch)
    BY <1>2 DEF SomeChild, SomeLink
  <2> DEFINE y == packLeafNode(ch).x
  <2>3. /\ packLeafNode(ch).st = "ok" /\ IsList(y) /\ Len(y.l) = 2
        /\ decodeTwoMemberNode(y.l) = Ok([kind |-> "leaf", path |-> ch.path])
        /\ unpackLeafNode(ch.path, y.l[2], c) = Ok(ch)
    BY <1>2, <2>2, LeafReads
  <2> HIDE DEF y
  <2>4. PICK two : two = decodeTwoMemberNode(y.l)
    OBVIOUS
  <2>5. two.st = "ok" /\ two.x.kind = "leaf" /\ two.x.path = ch.path
    BY <2>3, <2>4 DEF Ok
  <2>6. unpackChild(y, c) = Ok(ch)
    BY <2>3, <2>4, <2>5 DEF unpackChild
  <2> QED
    BY <2>1, <2>3, <2>6 DEF y
<1>3. CASE ch # Null /\ OwnLink(c, ch) /\ Is32Bytes(ch.digest)
  <2>1. ch # NonCid /\ ch = TrieLink(c, "keccak", ch.digest)
    BY <1>3 DEF OwnLink, SomeChild, SomeLink
  <2>2. packChild(ch) = Ok(ch.digest)
    BY <1>3, <2>1 DEF packChild, PackLink, OwnLink
  <2>3. packChild(ch).st = "ok" /\ packChild(ch).x = ch.digest
    BY <2>2 DEF Ok
  <2>4. ~IsList(ch.digest) /\ ch.digest # Blank
    BY <1>3 DEF Is32Bytes, IsList, Blank
  <2>5. unpackChild(ch.digest, c) = Ok(ch)
    BY <1>3, <2>1, <2>4 DEF unpackChild, LinkTo
  <2> QED
    BY <2>3, <2>5
<1> QED
  BY <1>1, <1>2, <1>3 DEF WellFormedChild

LEMMA ChildLoads ==
    ASSUME Apart, NEW c \in Codecs, NEW x, Item(x), unpackChild(x, c).st = "ok"
    PROVE  LET ch == unpackChild(x, c).x
           IN  /\ SomeChild(ch) /\ WellFormedChild(c, ch)
               /\ packChild(ch) = Ok(CanonicalItem(x))
<1>1. CASE x = Blank
  <2>1. unpackChild(x, c).x = Null /\ ~IsList(x)
    BY <1>1 DEF unpackChild, IsList, Blank, Ok
  <2> QED
    BY <1>1, <2>1
    DEF SomeChild, WellFormedChild, packChild, CanonicalItem
<1>2. CASE ~IsList(x) /\ x # Blank
  <2>1. Is32Bytes(x)
    BY <1>2 DEF unpackChild, Err
  <2> DEFINE ch == TrieLink(c, "keccak", x)
  <2>2. unpackChild(x, c) = Ok(ch)
    BY <1>2, <2>1 DEF unpackChild, LinkTo
  <2>3. /\ ch.is = "link" /\ ch.codec = c /\ ch.mh = "keccak"
        /\ ch.digest = x /\ ch # Null
    BY DEF TrieLink, Null
  <2>4. ch # NonCid
    BY DEF Apart
  <2>5. ByteString(x)
    BY <1>2 DEF Item, IsList
  <2>6. ch = TrieLink(ch.codec, ch.mh, ch.digest)
    BY <2>3
  <2> HIDE DEF ch
  <2>7. SomeChild(ch)
    BY <2>3, <2>5, <2>6 DEF SomeChild, SomeLink
  <2>8. WellFormedChild(c, ch)
    BY <1>2, <2>1, <2>3, <2>4 DEF WellFormedChild, OwnLink
  <2>9. packChild(ch) = Ok(x)
    BY <2>3, <2>4 DEF packChild, PackLink
  <2>10. unpackChild(x, c).x = ch
    BY <2>2 DEF Ok
  <2> QED
    BY <1>2, <2>7, <2>8, <2>9, <2>10 DEF CanonicalItem
<1>3. CASE IsList(x)
  <2>1. Len(x.l) = 2
    BY <1>3 DEF unpackChild, Err
  <2>2. \A i \in 1 .. 2 : ByteString(x.l[i]) \/ x.l[i].is = "list"
    BY <1>3, <2>1 DEF Item, IsList, ByteString
  <2> DEFINE l == x.l
             d == decodeTwoMemberNode(l)
             two == d.x
  <2>3. unpackChild(x, c) = IF d.st # "ok" THEN d
                            ELSE IF two.kind # "leaf" THEN Err
                            ELSE unpackLeafNode(two.path, l[2], c)
    BY <1>3, <2>1 DEF unpackChild
  <2> HIDE DEF d
  <2>4. /\ d.st = "ok" /\ two.kind = "leaf"
        /\ unpackChild(x, c) = unpackLeafNode(two.path, l[2], c)
    BY <2>3 DEF Err
  <2>5. d = Ok(two)
    BY <2>4 DEF d, decodeTwoMemberNode, Ok, Err, Panic
  <2> HIDE DEF two
  <2>6. unpackLeafNode(two.path, l[2], c).st = "ok"
    BY <2>4
  <2> DEFINE ch == unpackLeafNode(two.path, l[2], c).x
  <2>7. /\ ch.is = "TrieLeafNode" /\ ch # NonCid
        /\ SomeLeaf(ch) /\ WellFormedLeaf(c, ch)
        /\ packLeafNode(ch) = Ok(List(CanonicalTwo(l)))
    BY <2>2, <2>4, <2>5, <2>6, LeafLoads DEF d
  <2> HIDE DEF ch
  <2>8. ch # Null
    BY <2>7 DEF Null
  <2>9. packChild(ch) = Ok(List(CanonicalTwo(l)))
    BY <2>7, <2>8 DEF packChild
  <2>10. unpackChild(x, c).x = ch
    BY <2>4 DEF ch
  <2> QED
    BY <1>3, <2>7, <2>9, <2>10 DEF SomeChild, WellFormedChild, CanonicalItem
<1> QED
  BY <1>1, <1>2, <1>3
----------------------------------------------------------------------------
(* Branches.                                                               *)

Packs(n) == [i \in 1 .. Radix + 1 |-> IF i <= Radix THEN packChild(n.children[i])
                                      ELSE packValue(n.value)]
Unpacks(items, c) ==
    [i \in 1 .. Radix + 1 |-> IF i <= Radix THEN unpackChild(items[i], c)
                              ELSE unpackBranchValue(items[i], c)]

(* Child by child, and the value last. *)
LEMMA Slots ==
    /\ Radix + 1 \in Nat /\ Radix + 1 \in 1 .. Radix + 1 /\ Radix + 1 # 2
    /\ ~(Radix + 1 <= Radix)
    /\ \A i \in 1 .. Radix : i \in 1 .. Radix + 1 /\ i <= Radix
    /\ \A i \in 1 .. Radix + 1 : i <= Radix => i \in 1 .. Radix
    /\ \A i \in 1 .. Radix + 1 : i \in 1 .. Radix \/ i = Radix + 1
  BY RadixAssumption

LEMMA BranchPacked ==
    ASSUME NEW n
    PROVE  /\ packBranchNode(n).st = "ok" =>
                \A i \in 1 .. Radix + 1 : Packs(n)[i].st = "ok"
           /\ (\A i \in 1 .. Radix + 1 : Packs(n)[i].st = "ok") =>
                packBranchNode(n) =
                    Ok(List([i \in 1 .. Radix + 1 |-> Packs(n)[i].x]))
<1> DEFINE calls == Packs(n)
           r == InOrder(calls)
<1>1. packBranchNode(n) = Then(r, List)
  BY DEF packBranchNode, Packs
<1>2. DOMAIN calls = 1 .. Radix + 1
  BY DEF Packs
<1> HIDE DEF r, calls
<1>3. packBranchNode(n) = IF r.st = "ok" THEN Ok(List(r.x)) ELSE r
  BY <1>1 DEF Then
<1>4. CASE \A i \in 1 .. Radix + 1 : calls[i].st = "ok"
  <2>1. r = Ok([i \in 1 .. Radix + 1 |-> calls[i].x])
    BY <1>2, <1>4, Slots, InOrderEnds DEF r
  <2>2. r.st = "ok" /\ r.x = [i \in 1 .. Radix + 1 |-> calls[i].x]
    BY <2>1 DEF Ok
  <2> QED
    BY <1>3, <1>4, <2>2 DEF calls
<1>5. CASE \E i \in 1 .. Radix + 1 : calls[i].st # "ok"
  <2>1. PICK i \in 1 .. Radix + 1 : calls[i].st # "ok" /\ r = calls[i]
    BY <1>2, <1>5, Slots, InOrderEnds DEF r
  <2> QED
    BY <1>3, <2>1 DEF calls
<1> QED
  BY <1>4, <1>5

LEMMA BranchUnpacked ==
    ASSUME NEW items, NEW c
    PROVE  LET u == Unpacks(items, c)
               r == unpackBranchNode(items, c)
           IN  /\ r.st = "ok" => \A i \in 1 .. Radix + 1 : u[i].st = "ok"
               /\ (\A i \in 1 .. Radix + 1 : u[i].st = "ok") =>
                     r = Ok(Branch([i \in 1 .. Radix |-> u[i].x], u[Radix + 1].x))
               /\ r.st = "panic" => \E i \in 1 .. Radix + 1 : u[i].st = "panic"
<1> DEFINE u == Unpacks(items, c)
           r == unpackBranchNode(items, c)
           o == InOrder(u)
<1>1. r = IF o.st = "ok"
          THEN Ok(Branch([i \in 1 .. Radix |-> o.x[i]], o.x[Radix + 1])) ELSE o
  BY DEF unpackBranchNode, Unpacks, Then
<1>2. DOMAIN u = 1 .. Radix + 1
  BY DEF Unpacks
<1> HIDE DEF r, u, o
<1>3. CASE \A i \in 1 .. Radix + 1 : u[i].st = "ok"
  <2> DEFINE xs == [i \in 1 .. Radix + 1 |-> u[i].x]
  <2>1. o = Ok(xs)
    BY <1>2, <1>3, Slots, InOrderEnds DEF o
  <2>2. o.st = "ok" /\ o.x = xs
    BY <2>1 DEF Ok
  <2>3. xs[Radix + 1] = u[Radix + 1].x
    BY Slots
  <2>4. [i \in 1 .. Radix |-> xs[i]] = [i \in 1 .. Radix |-> u[i].x]
    BY Slots
  <2> HIDE DEF xs
  <2>5. r = Ok(Branch([i \in 1 .. Radix |-> u[i].x], u[Radix + 1].x))
    BY <1>1, <2>2, <2>3, <2>4
  <2> QED
    BY <1>3, <2>5 DEF r, u, Ok
<1>4. CASE \E i \in 1 .. Radix + 1 : u[i].st # "ok"
  <2>1. PICK i \in 1 .. Radix + 1 : u[i].st # "ok" /\ o = u[i]
    BY <1>2, <1>4, Slots, InOrderEnds DEF o
  <2> QED
    BY <1>1, <2>1 DEF r, u
<1> QED
  BY <1>3, <1>4

(* The members of a branch's block. *)
LEMMA BranchStores ==
    ASSUME NEW c, NEW n, n.is = "TrieBranchNode", SomeNode(n),
           packBranchNode(n).st = "ok"
    PROVE  LET b == packBranchNode(n).x
           IN  /\ SomeBlock(b) /\ IsList(b) /\ Len(b.l) = Radix + 1
               /\ b.l = [i \in 1 .. Radix + 1 |-> Packs(n)[i].x]
               /\ CanonicalBlock(b) = b
               /\ unpackBranchNode(b.l, c).st # "panic"
<1> DEFINE l == [i \in 1 .. Radix + 1 |-> Packs(n)[i].x]
           b == packBranchNode(n).x
<1>1. \A i \in 1 .. Radix + 1 : Packs(n)[i].st = "ok"
  BY BranchPacked
<1>2. packBranchNode(n) = Ok(List(l))
  BY <1>1, BranchPacked
<1>3. b = List(l)
  BY <1>2 DEF Ok
<1>4. /\ \A i \in 1 .. Radix : SomeChild(n.children[i])
      /\ n.value = Null \/ SomeValue(n.value)
  BY DEF SomeNode
<1>5. ASSUME NEW i \in 1 .. Radix
      PROVE  /\ Item(l[i]) /\ CanonicalItem(l[i]) = l[i]
             /\ unpackChild(l[i], c).st # "panic"
  <2>1. Packs(n)[i] = packChild(n.children[i])
    BY Slots DEF Packs
  <2>2. l[i] = packChild(n.children[i]).x /\ packChild(n.children[i]).st = "ok"
    BY <1>1, <2>1, Slots
  <2> HIDE DEF l
  <2> QED
    BY <1>4, <2>2, ChildStores
<1>6. ByteString(l[Radix + 1])
  <2>1. Packs(n)[Radix + 1] = packValue(n.value)
    BY Slots DEF Packs
  <2>2. l[Radix + 1] = packValue(n.value).x /\ packValue(n.value).st = "ok"
    BY <1>1, <2>1, Slots
  <2> HIDE DEF l
  <2> QED
    BY <1>4, <2>2, SlotStores
<1>7. Len(l) = Radix + 1 /\ l = [i \in 1 .. Radix + 1 |-> l[i]]
  BY Slots
<1> HIDE DEF l
<1>8. b.is = "list" /\ b.l = l
  BY <1>3 DEF List
<1>9. \A i \in 1 .. Radix + 1 : Item(l[i])
  BY <1>5, <1>6, Slots DEF Item
<1>10. SomeBlock(b)
  BY <1>3, <1>7, <1>8, <1>9, Slots DEF SomeBlock, Tuple
<1>11. CanonicalBlock(b) = b
  <2>1. CanonicalBlock(b) = List([i \in 1 .. Radix + 1 |->
                                     IF i <= Radix /\ IsList(l[i])
                                     THEN List(CanonicalTwo(l[i].l))
                                     ELSE l[i]])
    BY <1>7, <1>8, Slots DEF CanonicalBlock
  <2>2. \A i \in 1 .. Radix + 1 :
           (IF i <= Radix /\ IsList(l[i]) THEN List(CanonicalTwo(l[i].l))
            ELSE l[i]) = l[i]
    BY <1>5, Slots DEF CanonicalItem
  <2>3. [i \in 1 .. Radix + 1 |-> IF i <= Radix /\ IsList(l[i])
                                  THEN List(CanonicalTwo(l[i].l))
                                  ELSE l[i]] = l
    BY <1>7, <2>2
  <2> QED
    BY <1>3, <2>1, <2>3
<1>12. unpackBranchNode(l, c).st # "panic"
  <2> SUFFICES ASSUME NEW i \in 1 .. Radix + 1
               PROVE  Unpacks(l, c)[i].st # "panic"
    BY BranchUnpacked
  <2>1. CASE i \in 1 .. Radix
    BY <1>5, <2>1, Slots DEF Unpacks
  <2>2. CASE i = Radix + 1
    BY <2>2, Slots, SlotNoPanic DEF Unpacks
  <2> QED
    BY <2>1, <2>2, Slots
<1> QED
  BY <1>7, <1>8, <1>10, <1>11, <1>12 DEF l, IsList

LEMMA BranchReads ==
    ASSUME NEW c, NEW n, n.is = "TrieBranchNode", SomeNode(n),
           WellFormedNode(c, n)
    PROVE  /\ packBranchNode(n).st = "ok"
           /\ unpackBranchNode(packBranchNode(n).x.l, c) = Ok(n)
<1> DEFINE l == packBranchNode(n).x.l
           u == Unpacks(l, c)
<1>1. /\ \A i \in 1 .. Radix : WellFormedChild(c, n.children[i])
      /\ n.value = Null \/ (WellFormedValue(c, n.value) /\ n.value.v # Blank)
  BY DEF WellFormedNode, WellFormedChild
<1>2. /\ \A i \in 1 .. Radix : SomeChild(n.children[i])
      /\ n.value = Null \/ SomeValue(n.value)
      /\ n = Branch(n.children, n.value)
      /\ n.children = [i \in 1 .. Radix |-> n.children[i]]
  BY DEF SomeNode
<1>3. \A i \in 1 .. Radix :
        /\ packChild(n.children[i]).st = "ok"
        /\ unpackChild(packChild(n.children[i]).x, c) = Ok(n.children[i])
  BY <1>1, <1>2, ChildReads
<1>4. /\ packValue(n.value).st = "ok"
      /\ unpackBranchValue(packValue(n.value).x, c) = Ok(n.value)
  BY <1>1, <1>2, SlotReads
<1>5. \A i \in 1 .. Radix + 1 : Packs(n)[i].st = "ok"
  BY <1>3, <1>4, Slots DEF Packs
<1>6. packBranchNode(n).st = "ok"
  <2>1. PICK b : packBranchNode(n) = Ok(b)
    BY <1>5, BranchPacked
  <2> QED
    BY <2>1, OkIsOk
<1>7. l = [i \in 1 .. Radix + 1 |-> Packs(n)[i].x]
  BY <1>6, BranchStores
<1> HIDE DEF l
<1>8. ASSUME NEW i \in 1 .. Radix
      PROVE  u[i] = Ok(n.children[i])
  <2>1. l[i] = packChild(n.children[i]).x
    BY <1>7, Slots DEF Packs
  <2>2. u[i] = unpackChild(l[i], c)
    BY Slots DEF Unpacks
  <2> QED
    BY <1>3, <2>1, <2>2
<1>9. u[Radix + 1] = Ok(n.value)
  <2>1. l[Radix + 1] = packValue(n.value).x
    BY <1>7, Slots DEF Packs
  <2>2. u[Radix + 1] = unpackBranchValue(l[Radix + 1], c)
    BY Slots DEF Unpacks
  <2> QED
    BY <1>4, <2>1, <2>2
<1>10. unpackBranchNode(l, c) =
          Ok(Branch([i \in 1 .. Radix |-> u[i].x], u[Radix + 1].x))
  <2>1. \A i \in 1 .. Radix + 1 : u[i].st = "ok"
    BY <1>8, <1>9, Slots, OkIsOk
  <2> QED
    BY <2>1, BranchUnpacked
<1> HIDE DEF u
<1>11. [i \in 1 .. Radix |-> u[i].x] = n.children /\ u[Radix + 1].x = n.value
  BY <1>2, <1>8, <1>9, OkIsOk
<1> QED
  BY <1>2, <1>6, <1>10, <1>11 DEF l

LEMMA BranchLoads ==
    ASSUME Apart, NEW c \in Codecs, NEW b, SomeBlock(b), IsList(b),
           Len(b.l) = Radix + 1, unpackBranchNode(b.l, c).st = "ok"
    PROVE  LET n == unpackBranchNode(b.l, c).x
           IN  /\ n.is = "TrieBranchNode" /\ SomeNode(n)
               /\ WellFormedNode(c, n)
               /\ packBranchNode(n) = Ok(CanonicalBlock(b))
<1> DEFINE l == b.l
           u == Unpacks(l, c)
           cs == [i \in 1 .. Radix |-> u[i].x]
           v == u[Radix + 1].x
           n == Branch(cs, v)
<1>1. \A i \in 1 .. Radix + 1 : u[i].st = "ok"
  BY BranchUnpacked
<1>2. unpackBranchNode(l, c) = Ok(n)
  BY <1>1, BranchUnpacked
<1>3. \A i \in 1 .. Radix + 1 : Item(l[i])
  BY DEF SomeBlock, IsList
<1> HIDE DEF l
<1>4. ASSUME NEW i \in 1 .. Radix
      PROVE  /\ SomeChild(cs[i]) /\ WellFormedChild(c, cs[i])
             /\ packChild(cs[i]) = Ok(CanonicalItem(l[i]))
  <2>1. u[i] = unpackChild(l[i], c) /\ u[i].st = "ok" /\ Item(l[i])
    BY <1>1, <1>3, Slots DEF Unpacks
  <2>2. cs[i] = unpackChild(l[i], c).x
    BY <2>1
  <2> HIDE DEF cs
  <2> QED
    BY <2>1, <2>2, ChildLoads
<1>5. /\ v = Null \/ (/\ SomeValue(v)
                      /\ WellFormedValue(c, v) /\ v.v # Blank)
      /\ packValue(v) = Ok(l[Radix + 1])
  <2>1. /\ u[Radix + 1] = unpackBranchValue(l[Radix + 1], c)
        /\ u[Radix + 1].st = "ok" /\ Item(l[Radix + 1])
    BY <1>1, <1>3, Slots DEF Unpacks
  <2>2. v = unpackBranchValue(l[Radix + 1], c).x
    BY <2>1
  <2> HIDE DEF v
  <2> QED
    BY <2>1, <2>2, SlotLoads
<1>6. cs = [i \in 1 .. Radix |-> cs[i]]
  OBVIOUS
<1> HIDE DEF cs, v
<1>7. /\ n.is = "TrieBranchNode" /\ n.children = cs /\ n.value = v
      /\ n = Branch(n.children, n.value)
  BY DEF Branch
<1> HIDE DEF n
<1>8. SomeNode(n)
  BY <1>4, <1>5, <1>6, <1>7 DEF SomeNode
<1>9. WellFormedNode(c, n)
  <2>1. \A i \in 1 .. Radix : WellFormedChild(c, n.children[i])
    BY <1>4, <1>7
  <2>2. n.value = Null \/ (WellFormedValue(c, n.value) /\ n.value.v # Blank)
    BY <1>5, <1>7
  <2> QED
    BY <2>1, <2>2, <1>7 DEF WellFormedNode, WellFormedChild
<1> DEFINE k == [i \in 1 .. Radix + 1 |-> Packs(n)[i].x]
           m == [i \in 1 .. Radix + 1 |-> IF i <= Radix /\ IsList(l[i])
                                          THEN List(CanonicalTwo(l[i].l))
                                          ELSE l[i]]
<1>10. \A i \in 1 .. Radix : Packs(n)[i] = Ok(CanonicalItem(l[i]))
  BY <1>4, <1>7, Slots DEF Packs
<1>11. Packs(n)[Radix + 1] = Ok(l[Radix + 1])
  BY <1>5, <1>7, Slots DEF Packs
<1>12. packBranchNode(n) = Ok(List(k))
  <2>1. \A i \in 1 .. Radix + 1 : Packs(n)[i].st = "ok"
    BY <1>10, <1>11, Slots, OkIsOk
  <2> QED
    BY <2>1, BranchPacked
<1>13. k = m
  <2>1. ASSUME NEW i \in 1 .. Radix + 1
        PROVE  k[i] = m[i]
    <3>1. CASE i \in 1 .. Radix
      <4>1. k[i] = CanonicalItem(l[i])
        BY <3>1, <1>10, Slots, OkIsOk
      <4>2. m[i] = IF IsList(l[i]) THEN List(CanonicalTwo(l[i].l)) ELSE l[i]
        BY <3>1, Slots
      <4> QED
        BY <4>1, <4>2 DEF CanonicalItem
    <3>2. CASE i = Radix + 1
      BY <3>2, <1>11, Slots, OkIsOk
    <3> QED
      BY <3>1, <3>2, Slots
  <2> QED
    BY <2>1
<1>14. CanonicalBlock(b) = List(m)
  BY Slots DEF CanonicalBlock, l
<1>15. unpackBranchNode(b.l, c).x = n
  BY <1>2 DEF Ok, l
<1> QED
  BY <1>7, <1>8, <1>9, <1>12, <1>13, <1>14, <1>15
----------------------------------------------------------------------------
(* The laws, of the codec of tries.                                        *)

(* How a block of two members is read. *)
LEMMA TwoDecoded ==
    ASSUME NEW c, NEW b, IsList(b), Len(b.l) = 2
    PROVE  DecodeTrieNodeBytes(b, c) =
             LET d == decodeTwoMemberNode(b.l)
             IN  IF d.st # "ok" THEN d
                 ELSE IF d.x.kind = "leaf"
                      THEN unpackLeafNode(d.x.path, b.l[2], c)
                      ELSE unpackExtensionNode(d.x.path, b.l[2], c)
<1>1. DecodeTrieNodeBytes(b, c) = unpackTwoMembers(b.l, c)
  BY Slots DEF DecodeTrieNodeBytes
<1> QED
  BY <1>1 DEF unpackTwoMembers

LEMMA BranchDecoded ==
    ASSUME NEW c, NEW b, IsList(b), Len(b.l) = Radix + 1
    PROVE  DecodeTrieNodeBytes(b, c) = unpackBranchNode(b.l, c)
  BY Slots DEF DecodeTrieNodeBytes

(* A node of two members is stored in the codec's own form, and Decode     *)
(* does not panic on it.                                                   *)
LEMMA TwoBlock ==
    ASSUME NEW c, NEW p \in Seq(Byte), NEW x, ByteString(x)
    PROVE  LET b == Two(p, x)
           IN  /\ SomeBlock(b) /\ b # None /\ CanonicalBlock(b) = b
               /\ DecodeTrieNodeBytes(b, c).st # "panic"
<1> DEFINE b == Two(p, x)
           d == decodeTwoMemberNode(b.l)
<1>1. /\ SomeBlock(b) /\ IsList(b) /\ Len(b.l) = 2
      /\ List(CanonicalTwo(b.l)) = b /\ d.st # "panic"
  BY TwoStores
<1> HIDE DEF b, d
<1>2. b # None
  BY <1>1 DEF None, IsList
<1>3. CanonicalBlock(b) = b
  BY <1>1 DEF CanonicalBlock
<1>4. /\ unpackLeafNode(d.x.path, b.l[2], c).st # "panic"
      /\ unpackExtensionNode(d.x.path, b.l[2], c).st # "panic"
  <2>1. unpackLeafNode(d.x.path, b.l[2], c).st # "panic"
    BY LeafUnpacked
  <2>2. unpackExtensionNode(d.x.path, b.l[2], c).st # "panic"
    BY DEF unpackExtensionNode, Ok, Err
  <2> QED
    BY <2>1, <2>2
<1>5. DecodeTrieNodeBytes(b, c).st # "panic"
  BY <1>1, <1>4, TwoDecoded DEF d
<1> QED
  BY <1>1, <1>2, <1>3, <1>5 DEF b

LEMMA ExtensionPacked ==
    ASSUME NEW n
    PROVE  packExtensionNode(n) =
             LET r == PackLink(n.child)
             IN  IF r.st = "ok" THEN Ok(Two(n.path, r.x)) ELSE r
  BY PackTwo DEF packExtensionNode

LEMMA TrieStores ==
    ASSUME NEW c, NEW n, SomeNode(n), AppendEncode(n).st = "ok"
    PROVE  LET b == AppendEncode(n).x
           IN  /\ SomeBlock(b) /\ b # None /\ CanonicalBlock(b) = b
               /\ DecodeTrieNodeBytes(b, c).st # "panic"
<1>1. CASE n.is = "TrieLeafNode"
  <2>1. AppendEncode(n) = packLeafNode(n)
    BY <1>1 DEF AppendEncode
  <2>2. n.path \in Seq(Byte) /\ SomeValue(n.value)
    BY <1>1 DEF SomeNode, SomeLeaf
  <2> DEFINE x == packValue(n.value).x
  <2>3. packValue(n.value).st = "ok" /\ packLeafNode(n) = Ok(Two(n.path, x))
    BY <2>1, LeafPacked
  <2>4. ByteString(x)
    BY <2>2, <2>3, ValueStores
  <2> HIDE DEF x
  <2>5. AppendEncode(n).x = Two(n.path, x)
    BY <2>1, <2>3, OkIsOk
  <2> QED
    BY <2>2, <2>4, <2>5, TwoBlock
<1>2. CASE n.is = "TrieExtensionNode"
  <2>1. AppendEncode(n) = packExtensionNode(n)
    BY <1>2 DEF AppendEncode
  <2>2. n.path \in Seq(Byte) /\ SomeLink(n.child)
    BY <1>2 DEF SomeNode
  <2> DEFINE x == n.child.digest
  <2>3. PackLink(n.child).st = "ok"
    BY <2>1, ExtensionPacked
  <2>4. n.child # NonCid /\ PackLink(n.child).x = x
    BY <2>3 DEF PackLink, Ok, Err
  <2>5. packExtensionNode(n) = Ok(Two(n.path, x))
    BY <2>3, <2>4, ExtensionPacked
  <2>6. ByteString(x)
    BY <2>2, <2>4 DEF SomeLink
  <2> HIDE DEF x
  <2>7. AppendEncode(n).x = Two(n.path, x)
    BY <2>1, <2>5, OkIsOk
  <2> QED
    BY <2>2, <2>6, <2>7, TwoBlock
<1>3. CASE n.is = "TrieBranchNode"
  <2>1. AppendEncode(n) = packBranchNode(n)
    BY <1>3 DEF AppendEncode
  <2> DEFINE b == packBranchNode(n).x
  <2>2. /\ SomeBlock(b) /\ IsList(b) /\ Len(b.l) = Radix + 1
        /\ CanonicalBlock(b) = b /\ unpackBranchNode(b.l, c).st # "panic"
    BY <1>3, <2>1, BranchStores
  <2> HIDE DEF b
  <2>3. b # None
    BY <2>2 DEF None, IsList
  <2>4. DecodeTrieNodeBytes(b, c).st # "panic"
    BY <2>2, BranchDecoded
  <2> QED
    BY <2>1, <2>2, <2>3, <2>4 DEF b
<1>4. CASE n.is \notin {"TrieLeafNode", "TrieExtensionNode", "TrieBranchNode"}
  BY <1>4 DEF AppendEncode, Err
<1> QED
  BY <1>1, <1>2, <1>3, <1>4

LEMMA TrieReads ==
    ASSUME NEW c, NEW n, SomeNode(n), WellFormedNode(c, n)
    PROVE  /\ AppendEncode(n).st = "ok"
           /\ DecodeTrieNodeBytes(AppendEncode(n).x, c) = Ok(n)
<1>1. CASE n.is = "TrieLeafNode"
  <2>1. AppendEncode(n) = packLeafNode(n)
    BY <1>1 DEF AppendEncode
  <2>2. SomeLeaf(n) /\ WellFormedLeaf(c, n)
    BY <1>1 DEF SomeNode, WellFormedNode
  <2> DEFINE b == packLeafNode(n).x
             d == decodeTwoMemberNode(b.l)
  <2>3. /\ packLeafNode(n).st = "ok" /\ IsList(b) /\ Len(b.l) = 2
        /\ d = Ok([kind |-> "leaf", path |-> n.path])
        /\ unpackLeafNode(n.path, b.l[2], c) = Ok(n)
    BY <2>2, LeafReads
  <2> HIDE DEF b
  <2>4. d.st = "ok" /\ d.x.kind = "leaf" /\ d.x.path = n.path
    BY <2>3 DEF Ok
  <2>5. DecodeTrieNodeBytes(b, c) = Ok(n)
    BY <2>3, <2>4, TwoDecoded
  <2> QED
    BY <2>1, <2>3, <2>5 DEF b
<1>2. CASE n.is = "TrieExtensionNode"
  <2>1. AppendEncode(n) = packExtensionNode(n)
    BY <1>2 DEF AppendEncode
  <2>2. /\ n.path \in Seq(Byte) /\ WellFormedHex(n.path) /\ ~hasTerm(n.path)
        /\ SomeLink(n.child) /\ OwnLink(c, n.child)
        /\ n = Extension(n.path, n.child)
    BY <1>2 DEF SomeNode, WellFormedNode
  <2> DEFINE x == n.child.digest
             b == Two(n.path, x)
             d == decodeTwoMemberNode(b.l)
  <2>3. /\ n.child = LinkTo(x, c) /\ ByteString(x) /\ ~IsList(x)
        /\ PackLink(n.child) = Ok(x)
    BY <2>2 DEF OwnLink, SomeLink, LinkTo, PackLink
  <2>4. packExtensionNode(n) = Ok(b)
    BY <2>3, ExtensionPacked, OkIsOk
  <2>5. d = Ok([kind |-> "extension", path |-> n.path])
    BY <2>2, TwoReads
  <2>6. IsList(b) /\ Len(b.l) = 2 /\ b.l[2] = x
    BY <2>2, <2>3, TwoStores, PathMember
  <2> HIDE DEF x, b
  <2>7. d.st = "ok" /\ d.x.kind = "extension" /\ d.x.path = n.path
    BY <2>5 DEF Ok
  <2>8. unpackExtensionNode(n.path, x, c) = Ok(n)
    BY <2>2, <2>3 DEF unpackExtensionNode
  <2>9. DecodeTrieNodeBytes(b, c) = Ok(n)
    BY <2>6, <2>7, <2>8, TwoDecoded
  <2> QED
    BY <2>1, <2>4, <2>9, OkIsOk
<1>3. CASE n.is = "TrieBranchNode"
  <2>1. AppendEncode(n) = packBranchNode(n)
    BY <1>3 DEF AppendEncode
  <2>2. /\ packBranchNode(n).st = "ok"
        /\ unpackBranchNode(packBranchNode(n).x.l, c) = Ok(n)
    BY <1>3, BranchReads
  <2>3. IsList(packBranchNode(n).x) /\ Len(packBranchNode(n).x.l) = Radix + 1
    BY <1>3, <2>2, BranchStores
  <2> QED
    BY <2>1, <2>2, <2>3, BranchDecoded
<1> QED
  BY <1>1, <1>2, <1>3 DEF WellFormedNode

LEMMA TrieLoads ==
    ASSUME Apart, NEW c \in Codecs, NEW b, SomeBlock(b),
           DecodeTrieNodeBytes(b, c).st = "ok"
    PROVE  LET n == DecodeTrieNodeBytes(b, c).x
           IN  /\ SomeNode(n) /\ n # None /\ WellFormedNode(c, n)
               /\ AppendEncode(n) = Ok(CanonicalBlock(b))
<1>1. IsList(b) /\ (Len(b.l) = 2 \/ Len(b.l) = Radix + 1)
  BY DEF DecodeTrieNodeBytes, Err
<1>2. CASE Len(b.l) = 2
  <2> DEFINE l == b.l
             d == decodeTwoMemberNode(l)
             two == d.x
  <2>1. DecodeTrieNodeBytes(b, c) =
           IF d.st # "ok" THEN d
           ELSE IF two.kind = "leaf" THEN unpackLeafNode(two.path, l[2], c)
                ELSE unpackExtensionNode(two.path, l[2], c)
    BY <1>1, <1>2, TwoDecoded
  <2>2. \A i \in 1 .. 2 : ByteString(l[i]) \/ l[i].is = "list"
    BY <1>1, <1>2 DEF SomeBlock, Item, IsList
  <2> HIDE DEF d
  <2>3. d.st = "ok"
    BY <2>1
  <2>4. d = Ok(two)
    BY <2>3 DEF d, decodeTwoMemberNode, Ok, Err, Panic
  <2>5. l[1].is = "path" => ByteString(l[1])
    BY <2>2
  <2>6. /\ two.path \in Seq(Byte) /\ WellFormedHex(two.path)
        /\ two.kind = IF hasTerm(two.path) THEN "leaf" ELSE "extension"
        /\ Two(two.path, l[2]) = List(CanonicalTwo(l))
    BY <2>3, <2>5, TwoLoads DEF d
  <2>7. CanonicalBlock(b) = List(CanonicalTwo(l))
    BY <1>2 DEF CanonicalBlock
  <2> HIDE DEF two, l
  <2>8. CASE two.kind = "leaf"
    <3> DEFINE n == unpackLeafNode(two.path, l[2], c).x
    <3>1. DecodeTrieNodeBytes(b, c) = unpackLeafNode(two.path, l[2], c)
      BY <2>1, <2>3, <2>8
    <3>2. /\ n.is = "TrieLeafNode" /\ SomeLeaf(n) /\ WellFormedLeaf(c, n)
          /\ packLeafNode(n) = Ok(List(CanonicalTwo(l)))
      BY <2>2, <2>4, <2>8, <3>1, LeafLoads DEF d
    <3> HIDE DEF n
    <3>3. SomeNode(n) /\ WellFormedNode(c, n) /\ n # None
      BY <3>2 DEF SomeNode, WellFormedNode, None
    <3>4. AppendEncode(n) = Ok(CanonicalBlock(b))
      BY <2>7, <3>2 DEF AppendEncode
    <3> QED
      BY <3>1, <3>3, <3>4 DEF n
  <2>9. CASE two.kind # "leaf"
    <3> DEFINE x == l[2]
               k == TrieLink(c, "keccak", x)
               n == Extension(two.path, k)
    <3>1. DecodeTrieNodeBytes(b, c) = unpackExtensionNode(two.path, x, c)
      BY <2>1, <2>3, <2>9
    <3>2. ~IsList(x) /\ unpackExtensionNode(two.path, x, c) = Ok(n)
      BY <3>1 DEF unpackExtensionNode, LinkTo, Err
    <3>3. ByteString(x) /\ ~hasTerm(two.path)
      BY <2>2, <2>6, <2>9, <3>2 DEF IsList
    <3> HIDE DEF x
    <3>4. /\ k.is = "link" /\ k.codec = c /\ k.mh = "keccak" /\ k.digest = x
          /\ k # NonCid
      BY DEF TrieLink, Apart
    <3>5. k = TrieLink(k.codec, k.mh, k.digest)
      BY <3>4
    <3> HIDE DEF k
    <3>6. SomeLink(k) /\ OwnLink(c, k) /\ PackLink(k) = Ok(x)
      BY <3>2, <3>3, <3>4, <3>5 DEF SomeLink, OwnLink, PackLink
    <3>7. /\ n.is = "TrieExtensionNode" /\ n.path = two.path /\ n.child = k
          /\ n = Extension(n.path, n.child)
      BY DEF Extension
    <3> HIDE DEF n
    <3>8. SomeNode(n) /\ WellFormedNode(c, n) /\ n # None
      BY <2>6, <3>3, <3>6, <3>7 DEF SomeNode, WellFormedNode, None
    <3>9. packExtensionNode(n) = Ok(Two(two.path, x))
      <4>1. PackLink(n.child).st = "ok" /\ PackLink(n.child).x = x
        BY <3>6, <3>7, OkIsOk
      <4> QED
        BY <4>1, <3>7, ExtensionPacked
    <3>10. AppendEncode(n) = packExtensionNode(n)
      BY <3>7 DEF AppendEncode
    <3>11. DecodeTrieNodeBytes(b, c).x = n
      BY <3>1, <3>2, OkIsOk
    <3> QED
      BY <2>6, <2>7, <3>8, <3>9, <3>10, <3>11 DEF x
  <2> QED
    BY <2>8, <2>9
<1>3. CASE Len(b.l) = Radix + 1
  <2>1. DecodeTrieNodeBytes(b, c) = unpackBranchNode(b.l, c)
    BY <1>1, <1>3, BranchDecoded
  <2> DEFINE n == unpackBranchNode(b.l, c).x
  <2>2. /\ n.is = "TrieBranchNode" /\ SomeNode(n) /\ WellFormedNode(c, n)
        /\ packBranchNode(n) = Ok(CanonicalBlock(b))
    BY <1>1, <1>3, <2>1, BranchLoads
  <2> HIDE DEF n
  <2>3. n # None /\ AppendEncode(n) = packBranchNode(n)
    BY <2>2 DEF None, AppendEncode
  <2> QED
    BY <2>1, <2>2, <2>3 DEF n
<1> QED
  BY <1>1, <1>2, <1>3

----------------------------------------------------------------------------
(* The laws of the eleven codecs.                                          *)

LEMMA NamesDiffer ==
    /\ \A c \in Codecs : c \notin ValueCodecs
    /\ \A c \in ValueCodecs : c \notin Codecs
  BY DEF Codecs, ValueCodecs

(* The table of a codec of tries. *)
LEMMA TrieRow ==
    ASSUME NEW c \in Codecs, NEW x
    PROVE  /\ EncodeAs(c, x) = AppendEncode(x)
           /\ DecodeAs(c, x) = DecodeTrieNodeBytes(x, c)
           /\ (WellFormedAs(c, x) <=> WellFormedNode(c, x))
           /\ (ReadableAs(c, x) <=> WellFormedNode(c, x))
           /\ OwnFormAs(c, x) = CanonicalBlock(x)
           /\ (NodeOf(c, x) <=> SomeNode(x)) /\ (BlockOf(c, x) <=> SomeBlock(x))
<1> USE NamesDiffer DEF ValueCodecs
<1>1. EncodeAs(c, x) = AppendEncode(x)
  BY DEF EncodeAs
<1>2. DecodeAs(c, x) = DecodeTrieNodeBytes(x, c)
  BY DEF DecodeAs
<1>3. (WellFormedAs(c, x) <=> WellFormedNode(c, x))
  BY DEF WellFormedAs
<1>4. (ReadableAs(c, x) <=> WellFormedNode(c, x))
  BY DEF ReadableAs
<1>5. OwnFormAs(c, x) = CanonicalBlock(x)
  BY DEF OwnFormAs
<1>6. (NodeOf(c, x) <=> SomeNode(x)) /\ (BlockOf(c, x) <=> SomeBlock(x))
  BY DEF NodeOf, BlockOf
<1> QED
  BY <1>1, <1>2, <1>3, <1>4, <1>5, <1>6

(* The tables of the codecs of values. *)
LEMMA TxRow ==
    ASSUME NEW c, c = "tx", NEW x
    PROVE  /\ EncodeAs(c, x) = EncodeTx(x) /\ DecodeAs(c, x) = DecodeTxBytes(x)
           /\ (WellFormedAs(c, x) <=> WellFormedTx(x))
           /\ NormalAs(c, x) = NormalTx(x)
           /\ ReadableAs(c, x) /\ OwnFormAs(c, x) = x
           /\ (NodeOf(c, x) <=> SomeTx(x)) /\ (BlockOf(c, x) <=> Enveloped(x))
<1>1. c \notin Codecs
  BY DEF Codecs
<1>2. EncodeAs(c, x) = EncodeTx(x) /\ DecodeAs(c, x) = DecodeTxBytes(x)
  BY <1>1 DEF EncodeAs, DecodeAs
<1>3. (WellFormedAs(c, x) <=> WellFormedTx(x)) /\ NormalAs(c, x) = NormalTx(x)
  BY <1>1 DEF WellFormedAs, NormalAs
<1>4. ReadableAs(c, x) /\ OwnFormAs(c, x) = x
  BY <1>1 DEF ReadableAs, OwnFormAs
<1>5. (NodeOf(c, x) <=> SomeTx(x)) /\ (BlockOf(c, x) <=> Enveloped(x))
  BY <1>1 DEF NodeOf, BlockOf
<1> QED
  BY <1>2, <1>3, <1>4, <1>5

LEMMA RctRow ==
    ASSUME NEW c, c = "rct", NEW x
    PROVE  /\ EncodeAs(c, x) = EncodeReceipt(x) /\ DecodeAs(c, x) = DecodeReceiptBytes(x)
           /\ (WellFormedAs(c, x) <=> WellFormedRct(x))
           /\ NormalAs(c, x) = NormalRct(x)
           /\ (ReadableAs(c, x) <=> ValidRct(x)) /\ OwnFormAs(c, x) = x
           /\ (NodeOf(c, x) <=> SomeRct(x)) /\ (BlockOf(c, x) <=> Enveloped(x))
<1>1. c \notin Codecs
  BY DEF Codecs
<1>2. EncodeAs(c, x) = EncodeReceipt(x) /\ DecodeAs(c, x) = DecodeReceiptBytes(x)
  BY <1>1 DEF EncodeAs, DecodeAs
<1>3. (WellFormedAs(c, x) <=> WellFormedRct(x)) /\ NormalAs(c, x) = NormalRct(x)
  BY <1>1 DEF WellFormedAs, NormalAs
<1>4. (ReadableAs(c, x) <=> ValidRct(x)) /\ OwnFormAs(c, x) = x
  BY <1>1 DEF ReadableAs, OwnFormAs
<1>5. (NodeOf(c, x) <=> SomeRct(x)) /\ (BlockOf(c, x) <=> Enveloped(x))
  BY <1>1 DEF NodeOf, BlockOf
<1> QED
  BY <1>2, <1>3, <1>4, <1>5

LEMMA LogRow ==
    ASSUME NEW c, c = "log", NEW x
    PROVE  /\ EncodeAs(c, x) = EncodeLog(x) /\ DecodeAs(c, x) = DecodeLogBytes(x)
           /\ (WellFormedAs(c, x) <=> WellFormedLog(x))
           /\ NormalAs(c, x) = NormalLog(x)
           /\ ReadableAs(c, x) /\ OwnFormAs(c, x) = x
           /\ (NodeOf(c, x) <=> SomeLog(x)) /\ (BlockOf(c, x) <=> Nested(x))
<1>1. c \notin Codecs
  BY DEF Codecs
<1>2. EncodeAs(c, x) = EncodeLog(x) /\ DecodeAs(c, x) = DecodeLogBytes(x)
  BY <1>1 DEF EncodeAs, DecodeAs
<1>3. (WellFormedAs(c, x) <=> WellFormedLog(x)) /\ NormalAs(c, x) = NormalLog(x)
  BY <1>1 DEF WellFormedAs, NormalAs
<1>4. ReadableAs(c, x) /\ OwnFormAs(c, x) = x
  BY <1>1 DEF ReadableAs, OwnFormAs
<1>5. (NodeOf(c, x) <=> SomeLog(x)) /\ (BlockOf(c, x) <=> Nested(x))
  BY <1>1 DEF NodeOf, BlockOf
<1> QED
  BY <1>2, <1>3, <1>4, <1>5

LEMMA HeaderRow ==
    ASSUME NEW c, c = "header", NEW x
    PROVE  /\ EncodeAs(c, x) = EncodeHeader(x) /\ DecodeAs(c, x) = DecodeHeaderBytes(x)
           /\ (WellFormedAs(c, x) <=> WellFormedHeader(x))
           /\ NormalAs(c, x) = NormalHeader(x)
           /\ ReadableAs(c, x) /\ OwnFormAs(c, x) = x
           /\ (NodeOf(c, x) <=> SomeHeader(x)) /\ (BlockOf(c, x) <=> HeaderItem(x))
<1>1. c \notin Codecs
  BY DEF Codecs
<1>2. EncodeAs(c, x) = EncodeHeader(x) /\ DecodeAs(c, x) = DecodeHeaderBytes(x)
  BY <1>1 DEF EncodeAs, DecodeAs
<1>3. (WellFormedAs(c, x) <=> WellFormedHeader(x)) /\ NormalAs(c, x) = NormalHeader(x)
  BY <1>1 DEF WellFormedAs, NormalAs
<1>4. ReadableAs(c, x) /\ OwnFormAs(c, x) = x
  BY <1>1 DEF ReadableAs, OwnFormAs
<1>5. (NodeOf(c, x) <=> SomeHeader(x)) /\ (BlockOf(c, x) <=> HeaderItem(x))
  BY <1>1 DEF NodeOf, BlockOf
<1> QED
  BY <1>2, <1>3, <1>4, <1>5

LEMMA UnclesRow ==
    ASSUME NEW c, c = "uncles", NEW x
    PROVE  /\ EncodeAs(c, x) = EncodeUncles(x) /\ DecodeAs(c, x) = DecodeUncles(x)
           /\ (WellFormedAs(c, x) <=> WellFormedUncles(x))
           /\ NormalAs(c, x) = NormalUncles(x)
           /\ ReadableAs(c, x) /\ OwnFormAs(c, x) = x
           /\ (NodeOf(c, x) <=> SomeUncles(x)) /\ (BlockOf(c, x) <=> UnclesBlock(x))
<1>1. c \notin Codecs
  BY DEF Codecs
<1>2. EncodeAs(c, x) = EncodeUncles(x) /\ DecodeAs(c, x) = DecodeUncles(x)
  BY <1>1 DEF EncodeAs, DecodeAs
<1>3. (WellFormedAs(c, x) <=> WellFormedUncles(x)) /\ NormalAs(c, x) = NormalUncles(x)
  BY <1>1 DEF WellFormedAs, NormalAs
<1>4. ReadableAs(c, x) /\ OwnFormAs(c, x) = x
  BY <1>1 DEF ReadableAs, OwnFormAs
<1>5. (NodeOf(c, x) <=> SomeUncles(x)) /\ (BlockOf(c, x) <=> UnclesBlock(x))
  BY <1>1 DEF NodeOf, BlockOf
<1> QED
  BY <1>2, <1>3, <1>4, <1>5

LEMMA AccountRow ==
    ASSUME NEW c, c = "state_account", NEW x
    PROVE  /\ EncodeAs(c, x) = EncodeAccount(x) /\ DecodeAs(c, x) = DecodeAccountBytes(x)
           /\ (WellFormedAs(c, x) <=> WellFormedAccount(x))
           /\ NormalAs(c, x) = NormalAccount(x)
           /\ ReadableAs(c, x) /\ OwnFormAs(c, x) = x
           /\ (NodeOf(c, x) <=> SomeAccount(x)) /\ (BlockOf(c, x) <=> Flat(x))
<1>1. c \notin Codecs
  BY DEF Codecs
<1>2. EncodeAs(c, x) = EncodeAccount(x) /\ DecodeAs(c, x) = DecodeAccountBytes(x)
  BY <1>1 DEF EncodeAs, DecodeAs
<1>3. (WellFormedAs(c, x) <=> WellFormedAccount(x)) /\ NormalAs(c, x) = NormalAccount(x)
  BY <1>1 DEF WellFormedAs, NormalAs
<1>4. ReadableAs(c, x) /\ OwnFormAs(c, x) = x
  BY <1>1 DEF ReadableAs, OwnFormAs
<1>5. (NodeOf(c, x) <=> SomeAccount(x)) /\ (BlockOf(c, x) <=> Flat(x))
  BY <1>1 DEF NodeOf, BlockOf
<1> QED
  BY <1>2, <1>3, <1>4, <1>5

(* Neither a node nor a block of theirs is mistaken for none. *)
LEMMA NodesAreSomething ==
    ASSUME NEW n
    PROVE  /\ SomeTx(n) => n # None
           /\ SomeRct(n) => n # None
           /\ SomeLog(n) => n # None
           /\ SomeHeader(n) => n # None
           /\ SomeUncles(n) => n # None
           /\ SomeAccount(n) => n # None
           /\ Enveloped(n) => n # None
           /\ IsList(n) => n # None
<1>1. DOMAIN None = {"is"} /\ None.is = "none"
  BY DEF None
<1>2. SomeTx(n) => n # None
  <2>1. SomeTx(n) => DOMAIN n = TxFields
    BY DEF SomeTx
  <2>2. "TxType" \in TxFields
    BY DEF TxFields
  <2> QED
    BY <1>1, <2>1, <2>2
<1>3. SomeRct(n) => n # None
  <2>1. SomeRct(n) => "TxType" \in DOMAIN n
    BY DEF SomeRct
  <2> QED
    BY <1>1, <2>1
<1>4. SomeLog(n) => n # None
  <2>1. SomeLog(n) => "Address" \in DOMAIN n
    BY DEF SomeLog
  <2> QED
    BY <1>1, <2>1
<1>5. SomeHeader(n) => n # None
  <2>1. SomeHeader(n) => DOMAIN n = HeaderFields
    BY DEF SomeHeader
  <2>2. headerPackFuncs[16] = "BaseFee" /\ headerPackFuncs[16] \in HeaderFields
    BY HeaderFieldAt, HeaderOrder
  <2> QED
    BY <1>1, <2>1, <2>2
<1>6. SomeUncles(n) => n # None
  BY <1>1 DEF SomeUncles
<1>7. SomeAccount(n) => n # None
  <2>1. SomeAccount(n) => "Nonce" \in DOMAIN n
    BY DEF SomeAccount
  <2> QED
    BY <1>1, <2>1
<1>8. Enveloped(n) => n # None
  <2>1. Enveloped(n) => "first" \in DOMAIN n
    BY DEF Enveloped
  <2> QED
    BY <1>1, <2>1
<1>9. IsList(n) => n # None
  BY <1>1 DEF IsList
<1> QED
  BY <1>2, <1>3, <1>4, <1>5, <1>6, <1>7, <1>8, <1>9

(* CodecStore with the table of CodecTable: any of the eleven codecs, any  *)
(* nodes that the builders of the schema can make and any blocks.          *)
KnownCodecs ==
    /\ Apart /\ NonCid \notin LinkNames
    /\ Multicodecs \subseteq AllCodecs /\ Lenient \subseteq ValueCodecs
    /\ \A c \in Multicodecs : \A x :
         /\ Encode(c, x) = EncodeAs(c, x) /\ Decode(c, x) = DecodeAs(c, x)
         /\ WellFormed(c, x) <=> WellFormedAs(c, x)
         /\ Normal(c, x) = NormalAs(c, x)
         /\ Readable(c, x) <=> ReadableAs(c, x)
         /\ OwnForm(c, x) = OwnFormAs(c, x)
    /\ \A c \in Multicodecs :
         /\ \A n \in Nodes(c) : NodeOf(c, n) /\ n # None
         /\ \A b \in Blocks(c) : BlockOf(c, b) /\ b # None

(* What the laws ask of the functions in the table. *)
StoresAs(c, n) ==
    NodeOf(c, n) /\ EncodeAs(c, n).st = "ok" =>
        LET b == EncodeAs(c, n).x
            r == DecodeAs(c, b)
        IN  /\ BlockOf(c, b) /\ b # None /\ OwnFormAs(c, b) = b
            /\ r.st # "panic" /\ (ReadableAs(c, n) => r.st = "ok")
            /\ c \in ValueCodecs /\ r.st = "ok" => r.x = NormalAs(c, n)

ReadsAs(c, n) ==
    NodeOf(c, n) /\ WellFormedAs(c, n) =>
        EncodeAs(c, n).st = "ok" /\ DecodeAs(c, EncodeAs(c, n).x) = Ok(n)

LoadsAs(c, b) ==
    BlockOf(c, b) /\ DecodeAs(c, b).st = "ok" =>
        LET n == DecodeAs(c, b).x
        IN  /\ NodeOf(c, n) /\ n # None /\ WellFormedAs(c, n)
            /\ EncodeAs(c, n) = Ok(OwnFormAs(c, b))

Obeys(c) == \A x : StoresAs(c, x) /\ ReadsAs(c, x) /\ LoadsAs(c, x)

LEMMA TriesObey ==
    ASSUME Apart, NEW c \in Codecs
    PROVE  Obeys(c)
<1>1. ASSUME NEW n, SomeNode(n), AppendEncode(n).st = "ok"
      PROVE  LET b == AppendEncode(n).x
             IN  /\ SomeBlock(b) /\ b # None /\ CanonicalBlock(b) = b
                 /\ DecodeTrieNodeBytes(b, c).st # "panic"
                 /\ WellFormedNode(c, n) => DecodeTrieNodeBytes(b, c).st = "ok"
  <2>1. WellFormedNode(c, n) => DecodeTrieNodeBytes(AppendEncode(n).x, c) = Ok(n)
    BY <1>1, TrieReads
  <2> QED
    BY <1>1, <2>1, TrieStores, OkIsOk
<1>2. ASSUME NEW n, SomeNode(n), WellFormedNode(c, n)
      PROVE  /\ AppendEncode(n).st = "ok"
             /\ DecodeTrieNodeBytes(AppendEncode(n).x, c) = Ok(n)
  BY <1>2, TrieReads
<1>3. ASSUME NEW b, SomeBlock(b), DecodeTrieNodeBytes(b, c).st = "ok"
      PROVE  LET n == DecodeTrieNodeBytes(b, c).x
             IN  /\ SomeNode(n) /\ n # None /\ WellFormedNode(c, n)
                 /\ AppendEncode(n) = Ok(CanonicalBlock(b))
  BY <1>3, TrieLoads
<1> QED
  BY <1>1, <1>2, <1>3, TrieRow, NamesDiffer
  DEF Obeys, StoresAs, ReadsAs, LoadsAs

LEMMA TxObeys ==
    ASSUME NEW c, c = "tx"
    PROVE  Obeys(c)
<1>1. ASSUME NEW n, SomeTx(n), EncodeTx(n).st = "ok"
      PROVE  LET b == EncodeTx(n).x
             IN  /\ Enveloped(b) /\ b # None
                 /\ DecodeTxBytes(b) = Ok(NormalTx(n))
  BY <1>1, TxStores, NodesAreSomething
<1>2. ASSUME NEW n, SomeTx(n), WellFormedTx(n)
      PROVE  EncodeTx(n).st = "ok" /\ DecodeTxBytes(EncodeTx(n).x) = Ok(n)
  BY <1>1, <1>2, TxKept
<1>3. ASSUME NEW b, Enveloped(b), DecodeTxBytes(b).st = "ok"
      PROVE  LET n == DecodeTxBytes(b).x
             IN  SomeTx(n) /\ n # None /\ WellFormedTx(n) /\ EncodeTx(n) = Ok(b)
  BY <1>3, TxLoads, NodesAreSomething
<1>4. \A y : Ok(y).st = "ok" /\ Ok(y).x = y /\ Ok(y).st # "panic"
  BY OkIsOk
<1>5. ASSUME NEW x PROVE StoresAs(c, x)
  <2> DEFINE b == EncodeTx(x).x
             r == DecodeTxBytes(b)
  <2>1. EncodeAs(c, x) = EncodeTx(x) /\ (NodeOf(c, x) <=> SomeTx(x))
    BY TxRow
  <2>2. /\ DecodeAs(c, b) = r /\ OwnFormAs(c, b) = b
        /\ (BlockOf(c, b) <=> Enveloped(b)) /\ NormalAs(c, x) = NormalTx(x)
    BY TxRow
  <2>3. SomeTx(x) /\ EncodeTx(x).st = "ok" =>
          Enveloped(b) /\ b # None /\ r = Ok(NormalTx(x))
    BY <1>1
  <2> HIDE DEF r
  <2> QED
    BY <1>4, <2>1, <2>2, <2>3 DEF StoresAs
<1>6. ASSUME NEW x PROVE ReadsAs(c, x)
  <2>1. /\ EncodeAs(c, x) = EncodeTx(x)
        /\ DecodeAs(c, EncodeTx(x).x) = DecodeTxBytes(EncodeTx(x).x)
    BY TxRow
  <2> QED
    BY <1>2, <2>1, TxRow DEF ReadsAs
<1>7. ASSUME NEW x PROVE LoadsAs(c, x)
  <2> DEFINE n == DecodeTxBytes(x).x
  <2>1. /\ DecodeAs(c, x) = DecodeTxBytes(x) /\ OwnFormAs(c, x) = x
        /\ (BlockOf(c, x) <=> Enveloped(x))
    BY TxRow
  <2>2. /\ EncodeAs(c, n) = EncodeTx(n) /\ (NodeOf(c, n) <=> SomeTx(n))
        /\ (WellFormedAs(c, n) <=> WellFormedTx(n))
    BY TxRow
  <2>3. Enveloped(x) /\ DecodeTxBytes(x).st = "ok" =>
          SomeTx(n) /\ n # None /\ WellFormedTx(n) /\ EncodeTx(n) = Ok(x)
    BY <1>3
  <2> QED
    BY <2>1, <2>2, <2>3 DEF LoadsAs
<1> QED
  BY <1>5, <1>6, <1>7 DEF Obeys

LEMMA RctReadIsOk ==
    ASSUME NEW b, DecodeReceiptBytes(b).st = "ok"
    PROVE  DecodeReceiptBytes(b) = Ok(DecodeReceiptBytes(b).x)
<1> DEFINE r == ReadReceipt(b)
<1>1. DecodeReceiptBytes(b) = IF r.st = "ok" THEN Ok(DecodeReceipt(r.x)) ELSE r
  BY DEF DecodeReceiptBytes, Then
<1> HIDE DEF r
<1> QED
  BY <1>1, OkIsOk

LEMMA RctObeys ==
    ASSUME NEW c, c = "rct"
    PROVE  Obeys(c)
<1>1. ASSUME NEW n, SomeRct(n), EncodeReceipt(n).st = "ok"
      PROVE  LET b == EncodeReceipt(n).x
                 r == DecodeReceiptBytes(b)
             IN  /\ Enveloped(b) /\ b # None
                 /\ r.st # "panic" /\ (ValidRct(n) => r.st = "ok")
                 /\ r.st = "ok" => r.x = NormalRct(n)
  BY <1>1, RctStores, NodesAreSomething
<1>2. ASSUME NEW n, SomeRct(n), WellFormedRct(n)
      PROVE  /\ EncodeReceipt(n).st = "ok"
             /\ DecodeReceiptBytes(EncodeReceipt(n).x) = Ok(n)
  <2> DEFINE r == DecodeReceiptBytes(EncodeReceipt(n).x)
  <2>1. EncodeReceipt(n).st = "ok" /\ NormalRct(n) = n /\ ValidRct(n)
    BY <1>2, RctKept
  <2>2. r.st = "ok" /\ r.x = n
    BY <1>1, <1>2, <2>1
  <2>3. r = Ok(r.x)
    BY <2>2, RctReadIsOk
  <2> QED
    BY <2>1, <2>2, <2>3
<1>3. ASSUME NEW b, Enveloped(b), DecodeReceiptBytes(b).st = "ok"
      PROVE  LET n == DecodeReceiptBytes(b).x
             IN  /\ SomeRct(n) /\ n # None /\ WellFormedRct(n)
                 /\ EncodeReceipt(n) = Ok(b)
  BY <1>3, RctLoads, NodesAreSomething
<1> QED
  BY <1>1, <1>2, <1>3, RctRow DEF Obeys, StoresAs, ReadsAs, LoadsAs

LEMMA LogObeys ==
    ASSUME NEW c, c = "log"
    PROVE  Obeys(c)
<1>1. ASSUME NEW n, SomeLog(n), EncodeLog(n).st = "ok"
      PROVE  LET b == EncodeLog(n).x
             IN  /\ Nested(b) /\ b # None
                 /\ DecodeLogBytes(b) = Ok(NormalLog(n))
  BY <1>1, LogStores, NodesAreSomething
<1>2. ASSUME NEW n, SomeLog(n), WellFormedLog(n)
      PROVE  EncodeLog(n).st = "ok" /\ DecodeLogBytes(EncodeLog(n).x) = Ok(n)
  BY <1>1, <1>2, LogKept
<1>3. ASSUME NEW b, Nested(b), DecodeLogBytes(b).st = "ok"
      PROVE  LET n == DecodeLogBytes(b).x
             IN  SomeLog(n) /\ n # None /\ WellFormedLog(n) /\ EncodeLog(n) = Ok(b)
  BY <1>3, LogLoads, NodesAreSomething
<1>4. \A y : Ok(y).st = "ok" /\ Ok(y).x = y /\ Ok(y).st # "panic"
  BY OkIsOk
<1>5. ASSUME NEW x PROVE StoresAs(c, x)
  <2> DEFINE b == EncodeLog(x).x
             r == DecodeLogBytes(b)
  <2>1. EncodeAs(c, x) = EncodeLog(x) /\ (NodeOf(c, x) <=> SomeLog(x))
    BY LogRow
  <2>2. /\ DecodeAs(c, b) = r /\ OwnFormAs(c, b) = b
        /\ (BlockOf(c, b) <=> Nested(b)) /\ NormalAs(c, x) = NormalLog(x)
    BY LogRow
  <2>3. SomeLog(x) /\ EncodeLog(x).st = "ok" =>
          Nested(b) /\ b # None /\ r = Ok(NormalLog(x))
    BY <1>1
  <2> HIDE DEF r
  <2> QED
    BY <1>4, <2>1, <2>2, <2>3 DEF StoresAs
<1>6. ASSUME NEW x PROVE ReadsAs(c, x)
  <2>1. /\ EncodeAs(c, x) = EncodeLog(x)
        /\ DecodeAs(c, EncodeLog(x).x) = DecodeLogBytes(EncodeLog(x).x)
    BY LogRow
  <2> QED
    BY <1>2, <2>1, LogRow DEF ReadsAs
<1>7. ASSUME NEW x PROVE LoadsAs(c, x)
  <2> DEFINE n == DecodeLogBytes(x).x
  <2>1. /\ DecodeAs(c, x) = DecodeLogBytes(x) /\ OwnFormAs(c, x) = x
        /\ (BlockOf(c, x) <=> Nested(x))
    BY LogRow
  <2>2. /\ EncodeAs(c, n) = EncodeLog(n) /\ (NodeOf(c, n) <=> SomeLog(n))
        /\ (WellFormedAs(c, n) <=> WellFormedLog(n))
    BY LogRow
  <2>3. Nested(x) /\ DecodeLogBytes(x).st = "ok" =>
          SomeLog(n) /\ n # None /\ WellFormedLog(n) /\ EncodeLog(n) = Ok(x)
    BY <1>3
  <2> QED
    BY <2>1, <2>2, <2>3 DEF LoadsAs
<1> QED
  BY <1>5, <1>6, <1>7 DEF Obeys

LEMMA HeaderObeys ==
    ASSUME NEW c, c = "header", NonCid \notin LinkNames
    PROVE  Obeys(c)
<1>1. ASSUME NEW n, SomeHeader(n), EncodeHeader(n).st = "ok"
      PROVE  LET b == EncodeHeader(n).x
             IN  /\ HeaderItem(b) /\ b # None
                 /\ DecodeHeaderBytes(b) = Ok(NormalHeader(n))
  BY <1>1, HeaderStores, HeaderItemStores, NodesAreSomething
<1>2. ASSUME NEW n, SomeHeader(n), WellFormedHeader(n)
      PROVE  EncodeHeader(n).st = "ok" /\ DecodeHeaderBytes(EncodeHeader(n).x) = Ok(n)
  BY <1>1, <1>2, HeaderKept
<1>3. ASSUME NEW b, HeaderItem(b), DecodeHeaderBytes(b).st = "ok"
      PROVE  LET n == DecodeHeaderBytes(b).x
             IN  SomeHeader(n) /\ n # None /\ WellFormedHeader(n) /\ EncodeHeader(n) = Ok(b)
  BY <1>3, HeaderItemLoads, NodesAreSomething
<1>4. \A y : Ok(y).st = "ok" /\ Ok(y).x = y /\ Ok(y).st # "panic"
  BY OkIsOk
<1>5. ASSUME NEW x PROVE StoresAs(c, x)
  <2> DEFINE b == EncodeHeader(x).x
             r == DecodeHeaderBytes(b)
  <2>1. EncodeAs(c, x) = EncodeHeader(x) /\ (NodeOf(c, x) <=> SomeHeader(x))
    BY HeaderRow
  <2>2. /\ DecodeAs(c, b) = r /\ OwnFormAs(c, b) = b
        /\ (BlockOf(c, b) <=> HeaderItem(b)) /\ NormalAs(c, x) = NormalHeader(x)
    BY HeaderRow
  <2>3. SomeHeader(x) /\ EncodeHeader(x).st = "ok" =>
          HeaderItem(b) /\ b # None /\ r = Ok(NormalHeader(x))
    BY <1>1
  <2> HIDE DEF r
  <2> QED
    BY <1>4, <2>1, <2>2, <2>3 DEF StoresAs
<1>6. ASSUME NEW x PROVE ReadsAs(c, x)
  <2>1. /\ EncodeAs(c, x) = EncodeHeader(x)
        /\ DecodeAs(c, EncodeHeader(x).x) = DecodeHeaderBytes(EncodeHeader(x).x)
    BY HeaderRow
  <2> QED
    BY <1>2, <2>1, HeaderRow DEF ReadsAs
<1>7. ASSUME NEW x PROVE LoadsAs(c, x)
  <2> DEFINE n == DecodeHeaderBytes(x).x
  <2>1. /\ DecodeAs(c, x) = DecodeHeaderBytes(x) /\ OwnFormAs(c, x) = x
        /\ (BlockOf(c, x) <=> HeaderItem(x))
    BY HeaderRow
  <2>2. /\ EncodeAs(c, n) = EncodeHeader(n) /\ (NodeOf(c, n) <=> SomeHeader(n))
        /\ (WellFormedAs(c, n) <=> WellFormedHeader(n))
    BY HeaderRow
  <2>3. HeaderItem(x) /\ DecodeHeaderBytes(x).st = "ok" =>
          SomeHeader(n) /\ n # None /\ WellFormedHeader(n) /\ EncodeHeader(n) = Ok(x)
    BY <1>3
  <2> QED
    BY <2>1, <2>2, <2>3 DEF LoadsAs
<1> QED
  BY <1>5, <1>6, <1>7 DEF Obeys

LEMMA UnclesObeys ==
    ASSUME NEW c, c = "uncles", NonCid \notin LinkNames
    PROVE  Obeys(c)
<1>1. ASSUME NEW n, SomeUncles(n), EncodeUncles(n).st = "ok"
      PROVE  LET b == EncodeUncles(n).x
             IN  /\ UnclesBlock(b) /\ b # None
                 /\ DecodeUncles(b) = Ok(NormalUncles(n))
  BY <1>1, UnclesStores, NodesAreSomething
<1>2. ASSUME NEW n, SomeUncles(n), WellFormedUncles(n)
      PROVE  EncodeUncles(n).st = "ok" /\ DecodeUncles(EncodeUncles(n).x) = Ok(n)
  BY <1>1, <1>2, UnclesKept
<1>3. ASSUME NEW b, UnclesBlock(b), DecodeUncles(b).st = "ok"
      PROVE  LET n == DecodeUncles(b).x
             IN  SomeUncles(n) /\ n # None /\ WellFormedUncles(n) /\ EncodeUncles(n) = Ok(b)
  BY <1>3, UnclesLoads, NodesAreSomething
<1>4. \A y : Ok(y).st = "ok" /\ Ok(y).x = y /\ Ok(y).st # "panic"
  BY OkIsOk
<1>5. ASSUME NEW x PROVE StoresAs(c, x)
  <2> DEFINE b == EncodeUncles(x).x
             r == DecodeUncles(b)
  <2>1. EncodeAs(c, x) = EncodeUncles(x) /\ (NodeOf(c, x) <=> SomeUncles(x))
    BY UnclesRow
  <2>2. /\ DecodeAs(c, b) = r /\ OwnFormAs(c, b) = b
        /\ (BlockOf(c, b) <=> UnclesBlock(b)) /\ NormalAs(c, x) = NormalUncles(x)
    BY UnclesRow
  <2>3. SomeUncles(x) /\ EncodeUncles(x).st = "ok" =>
          UnclesBlock(b) /\ b # None /\ r = Ok(NormalUncles(x))
    BY <1>1
  <2> HIDE DEF r
  <2> QED
    BY <1>4, <2>1, <2>2, <2>3 DEF StoresAs
<1>6. ASSUME NEW x PROVE ReadsAs(c, x)
  <2>1. /\ EncodeAs(c, x) = EncodeUncles(x)
        /\ DecodeAs(c, EncodeUncles(x).x) = DecodeUncles(EncodeUncles(x).x)
    BY UnclesRow
  <2> QED
    BY <1>2, <2>1, UnclesRow DEF ReadsAs
<1>7. ASSUME NEW x PROVE LoadsAs(c, x)
  <2> DEFINE n == DecodeUncles(x).x
  <2>1. /\ DecodeAs(c, x) = DecodeUncles(x) /\ OwnFormAs(c, x) = x
        /\ (BlockOf(c, x) <=> UnclesBlock(x))
    BY UnclesRow
  <2>2. /\ EncodeAs(c, n) = EncodeUncles(n) /\ (NodeOf(c, n) <=> SomeUncles(n))
        /\ (WellFormedAs(c, n) <=> WellFormedUncles(n))
    BY UnclesRow
  <2>3. UnclesBlock(x) /\ DecodeUncles(x).st = "ok" =>
          SomeUncles(n) /\ n # None /\ WellFormedUncles(n) /\ EncodeUncles(n) = Ok(x)
    BY <1>3
  <2> QED
    BY <2>1, <2>2, <2>3 DEF LoadsAs
<1> QED
  BY <1>5, <1>6, <1>7 DEF Obeys

LEMMA AccountObeys ==
    ASSUME NEW c, c = "state_account", NonCid \notin LinkNames
    PROVE  Obeys(c)
<1> NonCid \notin {"storage_trie", "raw"}
  BY DEF LinkNames
<1>1. ASSUME NEW n, SomeAccount(n), EncodeAccount(n).st = "ok"
      PROVE  LET b == EncodeAccount(n).x
             IN  /\ Flat(b) /\ b # None
                 /\ DecodeAccountBytes(b) = Ok(NormalAccount(n))
  BY <1>1, AccountStores, NodesAreSomething
<1>2. ASSUME NEW n, SomeAccount(n), WellFormedAccount(n)
      PROVE  EncodeAccount(n).st = "ok" /\ DecodeAccountBytes(EncodeAccount(n).x) = Ok(n)
  BY <1>1, <1>2, AccountKept
<1>3. ASSUME NEW b, Flat(b), DecodeAccountBytes(b).st = "ok"
      PROVE  LET n == DecodeAccountBytes(b).x
             IN  SomeAccount(n) /\ n # None /\ WellFormedAccount(n) /\ EncodeAccount(n) = Ok(b)
  BY <1>3, AccountLoads, NodesAreSomething
<1>4. \A y : Ok(y).st = "ok" /\ Ok(y).x = y /\ Ok(y).st # "panic"
  BY OkIsOk
<1>5. ASSUME NEW x PROVE StoresAs(c, x)
  <2> DEFINE b == EncodeAccount(x).x
             r == DecodeAccountBytes(b)
  <2>1. EncodeAs(c, x) = EncodeAccount(x) /\ (NodeOf(c, x) <=> SomeAccount(x))
    BY AccountRow
  <2>2. /\ DecodeAs(c, b) = r /\ OwnFormAs(c, b) = b
        /\ (BlockOf(c, b) <=> Flat(b)) /\ NormalAs(c, x) = NormalAccount(x)
    BY AccountRow
  <2>3. SomeAccount(x) /\ EncodeAccount(x).st = "ok" =>
          Flat(b) /\ b # None /\ r = Ok(NormalAccount(x))
    BY <1>1
  <2> HIDE DEF r
  <2> QED
    BY <1>4, <2>1, <2>2, <2>3 DEF StoresAs
<1>6. ASSUME NEW x PROVE ReadsAs(c, x)
  <2>1. /\ EncodeAs(c, x) = EncodeAccount(x)
        /\ DecodeAs(c, EncodeAccount(x).x) = DecodeAccountBytes(EncodeAccount(x).x)
    BY AccountRow
  <2> QED
    BY <1>2, <2>1, AccountRow DEF ReadsAs
<1>7. ASSUME NEW x PROVE LoadsAs(c, x)
  <2> DEFINE n == DecodeAccountBytes(x).x
  <2>1. /\ DecodeAs(c, x) = DecodeAccountBytes(x) /\ OwnFormAs(c, x) = x
        /\ (BlockOf(c, x) <=> Flat(x))
    BY AccountRow
  <2>2. /\ EncodeAs(c, n) = EncodeAccount(n) /\ (NodeOf(c, n) <=> SomeAccount(n))
        /\ (WellFormedAs(c, n) <=> WellFormedAccount(n))
    BY AccountRow
  <2>3. Flat(x) /\ DecodeAccountBytes(x).st = "ok" =>
          SomeAccount(n) /\ n # None /\ WellFormedAccount(n) /\ EncodeAccount(n) = Ok(x)
    BY <1>3
  <2> QED
    BY <2>1, <2>2, <2>3 DEF LoadsAs
<1> QED
  BY <1>5, <1>6, <1>7 DEF Obeys

LEMMA KnownCodecsAreLawful == ASSUME KnownCodecs PROVE Lawful
<1> SUFFICES ASSUME NEW c \in Multicodecs
             PROVE  /\ Stores(c) /\ Reads(c) /\ Loads(c)
                    /\ \A n \in Nodes(c) : NodeOf(c, n) /\ n # None
                    /\ \A b \in Blocks(c) : BlockOf(c, b) /\ b # None
  BY DEF Lawful
<1>1. Apart /\ NonCid \notin LinkNames /\ c \in Codecs \cup ValueCodecs
  BY DEF KnownCodecs, AllCodecs
<1>2. Obeys(c)
  BY <1>1, TriesObey, TxObeys, RctObeys, LogObeys, HeaderObeys, UnclesObeys,
     AccountObeys DEF ValueCodecs
<1>3. \A x : /\ Encode(c, x) = EncodeAs(c, x) /\ Decode(c, x) = DecodeAs(c, x)
             /\ WellFormed(c, x) <=> WellFormedAs(c, x)
             /\ Normal(c, x) = NormalAs(c, x)
             /\ Readable(c, x) <=> ReadableAs(c, x)
             /\ OwnForm(c, x) = OwnFormAs(c, x)
  BY DEF KnownCodecs
<1>4. c \in Lenient => c \in ValueCodecs
  BY DEF KnownCodecs
<1>5. Stores(c)
  BY <1>2, <1>3, <1>4 DEF Obeys, Stores, StoresAs
<1>6. Reads(c)
  BY <1>2, <1>3 DEF Obeys, Reads, ReadsAs
<1>7. Loads(c)
  BY <1>2, <1>3 DEF Obeys, Loads, LoadsAs
<1> QED
  BY <1>5, <1>6, <1>7 DEF KnownCodecs

----------------------------------------------------------------------------
(* What StoreInv says of the node and block at hand. *)
LEMMA StoreInvGives ==
    ASSUME Lawful, StoreInv
    PROVE  /\ LoadsWhatWasStored /\ LoadsTheMeaning
           /\ LoadedNodesAreWellFormed /\ LoadedBlocksSurvive
<1>1. codec \in Multicodecs
  BY DEF StoreInv
<1>2. CASE start.is = "node"
  <2>1. FromNode
    BY <1>2 DEF StoreInv
  <2>2. CASE src = "caller"
    BY <1>2, <2>1, <2>2
    DEF FromNode, LoadsWhatWasStored, LoadsTheMeaning,
        LoadedNodesAreWellFormed, LoadedBlocksSurvive
  <2>3. CASE src = "load"
    <3>1. NodeOf(codec, start.x) /\ Encodes(start.x, block) /\ Decodes(block, node)
      BY <2>1, <2>3 DEF FromNode
    <3>2. BlockOf(codec, block) /\ (WellFormed(codec, start.x) => Decodes(block, start.x))
      BY <1>1, <3>1, StoredNode
    <3>3. WellFormed(codec, node)
      BY <1>1, <3>1, <3>2, LoadedNode
    <3>4. WellFormed(codec, start.x) => out = "ok" /\ node = start.x
      BY <2>1, <3>1, <3>2 DEF FromNode, Decodes
    <3>5. codec \in Lenient => node = Normal(codec, start.x)
      BY <1>1, <3>1, StoredNode
    <3> QED
      BY <1>2, <3>3, <3>4, <3>5
      DEF LoadsWhatWasStored, LoadsTheMeaning, LoadedNodesAreWellFormed,
          LoadedBlocksSurvive
  <2> QED
    BY <2>1, <2>2, <2>3 DEF FromNode
<1>3. CASE start.is = "block"
  <2>1. FromBlock
    BY <1>3 DEF StoreInv
  <2>2. CASE src = "none"
    BY <1>3, <2>2
    DEF LoadsWhatWasStored, LoadsTheMeaning, LoadedNodesAreWellFormed,
          LoadedBlocksSurvive
  <2>3. CASE src = "load"
    <3>1. /\ BlockOf(codec, start.x) /\ out = "ok" /\ Decodes(start.x, node)
          /\ by = "encode" => Encodes(node, block)
      BY <2>1, <2>3 DEF FromBlock
    <3>2. WellFormed(codec, node) /\ Encodes(node, OwnForm(codec, start.x))
      BY <1>1, <3>1, LoadedNode
    <3>3. by = "encode" => block = OwnForm(codec, start.x)
      BY <3>1, <3>2 DEF Encodes
    <3> QED
      BY <1>3, <3>1, <3>2, <3>3
      DEF LoadsWhatWasStored, LoadsTheMeaning, LoadedNodesAreWellFormed,
          LoadedBlocksSurvive
  <2> QED
    BY <2>1, <2>2, <2>3 DEF FromBlock
<1> QED
  BY <1>2, <1>3 DEF StoreInv

(* A well-formed node of any codec is written without an error and comes   *)
(* back as it was, however often it is stored and loaded: the pack and     *)
(* unpack functions of every marshal.go and unmarshal.go undo each other.  *)
THEOREM CodecsLoadWhatWasStored ==
    ASSUME KnownCodecs
    PROVE  Spec => []LoadsWhatWasStored
<1>1. Lawful
  BY KnownCodecsAreLawful
<1>2. StoreInv => LoadsWhatWasStored
  BY <1>1, StoreInvGives
<1>3. Spec => []StoreInv
  BY <1>1, AlwaysStoreInv
<1> QED
  BY <1>2, <1>3, PTL

(* Of a transaction, receipt, log, header, list of uncles or account that  *)
(* is not well-formed but was stored, nothing comes back but its meaning:  *)
(* what big.Int, BytesToHash and the like make of its fields, with the     *)
(* fields that its type has and no others.                                 *)
THEOREM CodecsLoadTheMeaning ==
    ASSUME KnownCodecs
    PROVE  Spec => []LoadsTheMeaning
<1>1. Lawful
  BY KnownCodecsAreLawful
<1>2. StoreInv => LoadsTheMeaning
  BY <1>1, StoreInvGives
<1>3. Spec => []StoreInv
  BY <1>1, AlwaysStoreInv
<1> QED
  BY <1>2, <1>3, PTL

(* Whatever block a codec accepts, its own or another's, the node it makes *)
(* is one that the codec's type has (unmarshal.go of each package).        *)
THEOREM CodecsLoadWellFormedNodes ==
    ASSUME KnownCodecs
    PROVE  Spec => []LoadedNodesAreWellFormed
<1>1. Lawful
  BY KnownCodecsAreLawful
<1>2. StoreInv => LoadedNodesAreWellFormed
  BY <1>1, StoreInvGives
<1>3. Spec => []StoreInv
  BY <1>1, AlwaysStoreInv
<1> QED
  BY <1>2, <1>3, PTL

(* A block that a codec accepts is written again with its own bytes, but   *)
(* for the padding nibble of even paths in tries, and so under its CID.    *)
(* Headers with a hash of withdrawals, of which this does not hold, are    *)
(* excluded by HeaderItem in BlockOf.                                      *)
THEOREM ForeignBlocksSurvive ==
    ASSUME KnownCodecs
    PROVE  Spec => []LoadedBlocksSurvive
<1>1. Lawful
  BY KnownCodecsAreLawful
<1>2. StoreInv => LoadedBlocksSurvive
  BY <1>1, StoreInvGives
<1>3. Spec => []StoreInv
  BY <1>1, AlwaysStoreInv
<1> QED
  BY <1>2, <1>3, PTL

(* What a codec wrote keeps its bytes, and so its CID, through loads and   *)
(* stores, even when it wrote a node that is not well-formed.              *)
THEOREM StoredBlocksAreStable ==
    ASSUME KnownCodecs
    PROVE  Spec => StoredBytesAreStable
<1>1. Lawful
  BY KnownCodecsAreLawful
<1>2. StoreInv /\ [Next]_vars =>
        [by = "encode" /\ src = "load" => UNCHANGED block]_vars
  BY <1>1, StoreKeepsInv, LoadKeepsInv DEF Next
<1>3. Spec => []StoreInv
  BY <1>1, AlwaysStoreInv
<1> QED
  BY <1>2, <1>3, PTL DEF Spec, StoredBytesAreStable

(* A codec reads what it wrote of a node that it had read, and whatever it *)
(* wrote of another node; but a trie, whose codec writes children and      *)
(* values of any kind, promises this of well-formed nodes only, and the    *)
(* receipt codec of state roots that have the size of a hash.              *)
THEOREM StoredBlocksAreReadable ==
    ASSUME KnownCodecs
    PROVE  Spec => OwnBlocksAreReadable
<1>1. Lawful
  BY KnownCodecsAreLawful
<1>2. ASSUME StoreInv, Load, by = "encode",
             start.is = "node" => Readable(codec, start.x)
      PROVE  out' = "ok"
  <2>1. start.is \in {"node", "block"}
    BY <1>2 DEF StoreInv
  <2> QED
    BY <1>1, <1>2, <2>1, LoadKeepsInv
<1>3. StoreInv /\ [Next]_vars =>
        [Load /\ by = "encode" /\ (start.is = "node" => Readable(codec, start.x))
            => out' = "ok"]_vars
  BY <1>2
<1>4. Spec => []StoreInv
  BY <1>1, AlwaysStoreInv
<1> QED
  BY <1>3, <1>4, PTL DEF Spec, OwnBlocksAreReadable

(* The type assertions, index expressions and conversions of every         *)
(* unmarshal.go do not panic on any block that its marshal.go wrote.       *)
THEOREM StoredBlocksNeverPanic ==
    ASSUME KnownCodecs
    PROVE  Spec => OwnBlocksNeverPanic
<1>1. Lawful
  BY KnownCodecsAreLawful
<1>2. ASSUME StoreInv, Load, out' = "panic"
      PROVE  by = "other"
  <2>1. by # "encode" /\ block # None
    BY <1>1, <1>2, LoadKeepsInv DEF Load
  <2> QED
    BY <1>2, <2>1 DEF StoreInv, FromNode, FromBlock
<1>3. StoreInv /\ [Next]_vars => [Load /\ out' = "panic" => by = "other"]_vars
  BY <1>2
<1>4. Spec => []StoreInv
  BY <1>1, AlwaysStoreInv
<1> QED
  BY <1>3, <1>4, PTL DEF Spec, OwnBlocksNeverPanic
=============================================================================
