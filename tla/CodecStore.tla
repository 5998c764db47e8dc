----------------------------- MODULE CodecStore -----------------------------
(***************************************************************************)
(* A caller of one of the codecs: it has a node to store, or a block       *)
(* someone else wrote, and encodes and decodes in any order, as a link     *)
(* system does on Store and Load.  Every Decode gets a builder of its own, *)
(* and every node is one that the builders of the schema accept (see       *)
(* StructAssign and UnionAssembler).                                       *)
(***************************************************************************)
EXTENDS Naturals

CONSTANTS
    Multicodecs,       \* the codecs that may be in use
    Encode(_, _),      \* a codec, from a node to a block
    Decode(_, _),      \* and from a block to a node
    WellFormed(_, _),  \* the nodes that the type has
    Normal(_, _),      \* the well-formed node that another one means
    Lenient,           \* the codecs for which every node they take has one
    Readable(_, _),    \* the nodes whose block the codec promises to read
    OwnForm(_, _),     \* the form of a block that the codec itself writes
    Nodes(_),          \* the nodes the caller may start with
    Blocks(_)          \* the blocks of others the caller may start with

None == [is |-> "none"]

VARIABLES
    codec,   \* the codec in use
    start,   \* what the caller began with
    node,    \* the node it holds
    src,     \* where that came from: "caller", or "load" from the block
    block,   \* the block it holds
    by,      \* who wrote that: "encode", or "other"
    out      \* how the last call ended

vars == <<codec, start, node, src, block, by, out>>

Init == /\ codec \in Multicodecs
        /\ out = "ok"
        /\ \/ /\ node \in Nodes(codec) /\ src = "caller"
              /\ block = None /\ by = "none"
              /\ start = [is |-> "node", x |-> node]
           \/ /\ block \in Blocks(codec) /\ by = "other"
              /\ node = None /\ src = "none"
              /\ start = [is |-> "block", x |-> block]

(* Encode writes the block, or nothing when it fails. *)
Store ==
    /\ node # None
    /\ LET r == Encode(codec, node)
       IN  /\ out' = r.st
           /\ block' = IF r.st = "ok" THEN r.x ELSE block
           /\ by' = IF r.st = "ok" THEN "encode" ELSE by
    /\ UNCHANGED <<codec, start, node, src>>

Load ==
    /\ block # None
    /\ LET r == Decode(codec, block)
       IN  /\ out' = r.st
           /\ node' = IF r.st = "ok" THEN r.x ELSE node
           /\ src' = IF r.st = "ok" THEN "load" ELSE src
    /\ UNCHANGED <<codec, start, block, by>>

Next == Store \/ Load

Spec == Init /\ [][Next]_vars

----------------------------------------------------------------------------
(* Properties.                                                             *)

(* A well-formed node is stored and loaded without an error, and what is   *)
(* loaded is what was stored, however often.                               *)
LoadsWhatWasStored ==
    start.is = "node" /\ WellFormed(codec, start.x)
        => out = "ok" /\ node = start.x

(* A node that is not well-formed comes back as the well-formed one it     *)
(* stands for: integers lose their leading zeros, addresses and hashes are *)
(* cut or filled to size, what the type of transaction has no use for is   *)
(* gone.                                                                   *)
LoadsTheMeaning ==
    start.is = "node" /\ codec \in Lenient /\ src = "load"
        => node = Normal(codec, start.x)

(* Whatever Decode accepts is well-formed: in a trie, a leaf has the       *)
(* terminator and an extension has not, children are links of the trie's   *)
(* own codec or leaves, values are of the trie's kind; elsewhere, fields   *)
(* have their size, and just those are null that the type does not have.   *)
LoadedNodesAreWellFormed == src = "load" => WellFormed(codec, node)

(* What Decode made of a block can be stored, with the block's own bytes   *)
(* but for the padding of even paths.  A CID names the bytes, so nothing   *)
(* else could be stored under it.                                          *)
LoadedBlocksSurvive ==
    start.is = "block" /\ src = "load" =>
        /\ out = "ok"
        /\ by = "encode" => block = OwnForm(codec, start.x)

(* A block that Encode wrote keeps its bytes, and so its CID, when it is   *)
(* loaded and stored again, even if the node it was made from was not      *)
(* well-formed and is not what comes back.                                 *)
StoredBytesAreStable ==
    [][by = "encode" /\ src = "load" => UNCHANGED block]_vars

(* Whatever Encode wrote, Decode reads; where Encode writes some nodes as  *)
(* they are (see Readable), that is promised of the others.                *)
OwnBlocksAreReadable ==
    [][Load /\ by = "encode" /\ (start.is = "node" => Readable(codec, start.x))
          => out' = "ok"]_vars

(* Decode panics on blocks of others only, never on what Encode wrote. *)
OwnBlocksNeverPanic == [][Load /\ out' = "panic" => by = "other"]_vars
=============================================================================
