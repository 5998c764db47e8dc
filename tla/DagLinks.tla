------------------------------ MODULE DagLinks ------------------------------
(***************************************************************************)
(* Walking from node to node along the links that the decoders make.  A    *)
(* package registers its codec when it is imported (init), the kubo plugin *)
(* registers all eleven in the registry it is given, and                   *)
(* AddSupportToChooser makes loads of a codec build the schema's type.  A  *)
(* link system loads a link with the decoder its registry has for the      *)
(* codec of the link.                                                      *)
(*                                                                         *)
(* A codec has the name of its package.  The bytes behind a link are told  *)
(* apart by the codec that would write them.  The code of a contract is of *)
(* the codec raw, which is not part of this library.                       *)
(***************************************************************************)
EXTENDS Naturals

CONSTANT Packages   \* those the program may import

ValueCodecs == {"header", "uncles", "tx", "rct", "log", "state_account"}
TrieCodecs == {"tx_trie", "rct_trie", "log_trie", "state_trie", "storage_trie"}
Codecs == ValueCodecs \cup TrieCodecs

VARIABLES
    registered,  \* the codecs in each registry
    plugged,     \* the registries the plugin's Register was given
    uses,        \* the registry of the link system
    chooser,     \* the codecs that AddSupportToChooser was called for
    at,          \* the codec of the node last loaded
    link,        \* the link last followed
    found,       \* the block behind it
    out          \* how that ended

registries == <<registered, plugged>>
loads == <<at, link, found, out>>
vars == <<registries, uses, chooser, loads>>

----------------------------------------------------------------------------
(* Imports.                                                                *)

Imports(p) == CASE p = "uncles"        -> {"header"}
                [] p = "rct"           -> {"log"}
                [] p = "trie"          -> {"tx", "rct", "log", "state_account"}
                [] p \in TrieCodecs    -> {"trie"}
                [] p = "plugin"        -> Codecs
                [] OTHER               -> {}
AndImports(S) == S \cup UNION {Imports(p) : p \in S}

(* The codecs that the inits run by an import of p register. *)
Registers(p) == AndImports(AndImports(AndImports({p}))) \cap Codecs

Import(p) ==
    /\ registered' = [registered EXCEPT !.default = @ \cup Registers(p)]
    /\ UNCHANGED <<plugged, uses, chooser, loads>>

(* Mutant: the codecs that the README lists. *)
RegisterList == Codecs \ {"log", "log_trie"}
(* The decoders and encoders that the plugin registers. *)
PluginCodecs == {"header", "uncles", "tx", "tx_trie", "rct", "rct_trie", "log",
                 "log_trie", "state_trie", "state_account", "storage_trie"}

Register(r) ==
    /\ "plugin" \in Packages
    /\ LET imported == [registered EXCEPT !.default = @ \cup Registers("plugin")]
       IN  registered' = [imported EXCEPT ![r] = @ \cup PluginCodecs]
    /\ plugged' = plugged \cup {r}
    /\ UNCHANGED <<uses, chooser, loads>>

AddSupportToChooser(p) ==
    /\ p \in Codecs
    /\ registered' = [registered EXCEPT !.default = @ \cup Registers(p)]
    /\ chooser' = chooser \cup {p}
    /\ UNCHANGED <<plugged, uses, loads>>

----------------------------------------------------------------------------
(* Links.                                                                  *)

(* The type that the chooser of each package picks. *)
Prototype(c) == CASE c = "header"        -> "Header"
                  [] c = "uncles"        -> "Uncles"
                  [] c = "tx"            -> "Transaction"
                  [] c = "rct"           -> "Receipt"
                  [] c = "log"           -> "Log"
                  [] c = "state_account" -> "Account"
                  [] c \in TrieCodecs    -> "TrieNode"

HeaderLinks == {"ParentCID", "UnclesCID", "StateRootCID", "TxRootCID",
                "RctRootCID"}
AccountLinks == {"StorageRootCID", "CodeCID"}

(* The links in a node that codec c decodes, those of the values in its    *)
(* leaves included.                                                        *)
LinksOf(c) == CASE c \in {"header", "uncles"} -> HeaderLinks
                [] c = "state_account"        -> AccountLinks
                [] c = "state_trie"           -> {"Child"} \cup AccountLinks
                [] c = "rct"                  -> {"LogRootCID"}
                [] c = "rct_trie"             -> {"Child", "LogRootCID"}
                [] c \in {"tx_trie", "log_trie", "storage_trie"} -> {"Child"}
                [] c \in {"tx", "log"}        -> {}

(* Mutant: the receipts are taken for transactions. *)
CodecOfSwapped(c, l) ==
    CASE l = "ParentCID"      -> "header"
      [] l = "UnclesCID"      -> "uncles"
      [] l = "StateRootCID"   -> "state_trie"
      [] l = "TxRootCID"      -> "tx_trie"
      [] l = "RctRootCID"     -> "tx_trie"
      [] l = "StorageRootCID" -> "storage_trie"
      [] l = "CodeCID"        -> "raw"
      [] l = "LogRootCID"     -> "log"
      [] l = "Child"          -> c
(* The codec that the decoders give the link. *)
CodecOf(c, l) ==
    CASE l = "ParentCID"      -> "header"
      [] l = "UnclesCID"      -> "uncles"
      [] l = "StateRootCID"   -> "state_trie"
      [] l = "TxRootCID"      -> "tx_trie"
      [] l = "RctRootCID"     -> "rct_trie"
      [] l = "StorageRootCID" -> "storage_trie"
      [] l = "CodeCID"        -> "raw"
      [] l = "LogRootCID"     -> "log"
      [] l = "Child"          -> c

(* The blocks whose hash the link may hold, by the codec that writes them. *)
(* A trie without entries has a root hash, too, that of the empty string:  *)
(* the transactions and receipts of an empty block, the storage of an      *)
(* account without any, the logs of a receipt without any.                 *)
Roots == {"StateRootCID", "TxRootCID", "RctRootCID", "StorageRootCID",
          "LogRootCID"}
Empty == "empty trie"
FullBehind(c, l) ==
    CASE l = "ParentCID"      -> "header"
      [] l = "UnclesCID"      -> "uncles"
      [] l = "StateRootCID"   -> "state_trie"
      [] l = "TxRootCID"      -> "tx_trie"
      [] l = "RctRootCID"     -> "rct_trie"
      [] l = "StorageRootCID" -> "storage_trie"
      [] l = "CodeCID"        -> "raw"
      [] l = "LogRootCID"     -> "log_trie"
      [] l = "Child"          -> c
Behind(c, l) == {FullBehind(c, l)} \cup (IF l \in Roots THEN {Empty} ELSE {})

(* Mutant: the empty string is taken for a trie node. *)
ReadsEmpty(c, x) == c = x \/ (x = Empty /\ c \in TrieCodecs)
(* A decoder reads what its codec wrote.  A log has three items, a node of *)
(* the trie of logs two or seventeen; and none reads an empty trie, which  *)
(* is no list.                                                             *)
Reads(c, x) == c = x

Follow(l) ==
    /\ l \in LinksOf(at)
    /\ link' = l
    /\ found' \in Behind(at, l)
    /\ LET c == CodecOf(at, l)
       IN  \/ /\ c \notin registered[uses]
              /\ out' = "no decoder" /\ at' = at
           \/ /\ c \in registered[uses] /\ ~Reads(c, found')
              /\ out' = "undecodable" /\ at' = at
           \/ /\ c \in registered[uses] /\ Reads(c, found')
              /\ out' = (IF c \in chooser THEN Prototype(c) ELSE "any")
              /\ at' = c
    /\ UNCHANGED <<registries, uses, chooser>>

Init == /\ registered = [default |-> {}, own |-> {}] /\ plugged = {}
        /\ uses \in {"default", "own"}
        /\ chooser = {} /\ at \in Codecs
        /\ link = "none" /\ found = at /\ out = "any"

Next == \/ \E p \in Packages : Import(p) \/ AddSupportToChooser(p)
        \/ \E r \in {"default", "own"} : Register(r)
        \/ \E l \in LinksOf(at) : Follow(l)

Spec == Init /\ [][Next]_vars

----------------------------------------------------------------------------
(* Properties.                                                             *)

(* The type of the node behind a link, as the schema in gen.go has it. *)
SchemaType(l) == CASE l = "ParentCID" -> "Header"
                   [] l = "UnclesCID" -> "Uncles"
                   [] l = "CodeCID"   -> "any"
                   [] OTHER           -> "TrieNode"

(* With the plugin's Register done, no link that a decoder makes lacks a   *)
(* decoder, but for the code of contracts.                                 *)
PluginCoversEveryLink ==
    [][(\E l \in LinksOf(at) \ {"CodeCID"} : Follow(l)) /\ uses \in plugged
          => out' # "no decoder"]_vars

(* A link that has a decoder is decoded, into the schema's type where the  *)
(* chooser supports its codec; only the root link of an empty trie is      *)
(* refused, always, and never taken for a node.  LogRootCID is the         *)
(* exception: see LogRootLeadsToTheTrie.                                   *)
LinksLeadToTheirType ==
    [][\A l \in LinksOf(at) \ {"LogRootCID"} :
          Follow(l) =>
            \/ out' = "no decoder"
            \/ found' = Empty /\ out' = "undecodable" /\ at' = at
            \/ /\ found' # Empty
               /\ \/ out' = SchemaType(l)
                  \/ out' = "any" /\ CodecOf(at, l) \notin chooser]_vars

(* The schema has the LogRootCID of a receipt as a link to a TrieNode, so  *)
(* a registry that knows every codec can load it, if the receipt has logs. *)
LogRootLeadsToTheTrie ==
    [][Follow("LogRootCID") /\ found' # Empty
          => out' \in {"no decoder", "TrieNode", "any"}]_vars
=============================================================================
