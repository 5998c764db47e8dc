--------------------------- MODULE DagLinksProofs ---------------------------
(***************************************************************************)
(* Proofs about the links that the decoders make, for every set of         *)
(* packages that a program may import, in every order of imports,          *)
(* registrations and loads.                                                *)
(***************************************************************************)
EXTENDS DagLinks, TLAPS

Registries == {"default", "own"}
Links == HeaderLinks \cup AccountLinks \cup {"LogRootCID", "Child"}

(* What links are followed from and into, and that a registry the plugin   *)
(* was given keeps every codec of the library.                             *)
LinkInv == /\ at \in Codecs
           /\ uses \in Registries
           /\ plugged \subseteq Registries
           /\ chooser \subseteq Codecs
           /\ DOMAIN registered = Registries
           /\ \A r \in Registries : registered[r] \subseteq Codecs
           /\ \A r \in plugged : Codecs \subseteq registered[r]

(* The plugin's list of codecs is complete. *)
LEMMA PluginListComplete == PluginCodecs = Codecs
  BY DEF PluginCodecs, Codecs, ValueCodecs, TrieCodecs

(* Each decoder makes links of the library's own codecs, but for the code  *)
(* of a contract.                                                          *)
LEMMA LinksAreOwnCodecs ==
    ASSUME NEW c \in Codecs, NEW l \in LinksOf(c)
    PROVE  /\ l \in Links
           /\ l # "CodeCID" => CodecOf(c, l) \in Codecs
           /\ l # "LogRootCID" => CodecOf(c, l) = FullBehind(c, l)
           /\ l = "Child" => c \in TrieCodecs
           /\ CodecOf(c, l) # Empty
<1>1. l \in Links
  BY SMTT(60) DEF Codecs, ValueCodecs, TrieCodecs, LinksOf, Links, HeaderLinks,
                  AccountLinks
<1>2. l = "Child" => c \in TrieCodecs
  BY SMTT(60) DEF Codecs, ValueCodecs, TrieCodecs, LinksOf, HeaderLinks,
                  AccountLinks
<1>3. l # "CodeCID" => CodecOf(c, l) \in Codecs
  BY <1>1 DEF Links, HeaderLinks, AccountLinks, CodecOf, Codecs, ValueCodecs,
              TrieCodecs
<1>4. l # "LogRootCID" => CodecOf(c, l) = FullBehind(c, l)
  BY <1>1 DEF Links, HeaderLinks, AccountLinks, CodecOf, FullBehind
<1>5. Empty \notin Codecs /\ Empty # "raw"
  BY DEF Empty, Codecs, ValueCodecs, TrieCodecs
<1>6. CodecOf(c, l) # Empty
  BY <1>3, <1>5 DEF CodecOf
<1> QED
  BY <1>1, <1>2, <1>3, <1>4, <1>6

(* The type that the chooser picks for a link is the one the schema gives  *)
(* the node behind it.                                                     *)
LEMMA ChooserPicksTheSchemaType ==
    ASSUME NEW c \in Codecs, NEW l \in LinksOf(c),
           l \notin {"CodeCID", "LogRootCID"}
    PROVE  Prototype(CodecOf(c, l)) = SchemaType(l)
<1>1. l \in Links /\ (l = "Child" => c \in TrieCodecs)
  BY LinksAreOwnCodecs
<1>2. CASE l = "Child"
  <2>1. CodecOf(c, l) = c /\ SchemaType(l) = "TrieNode"
    BY <1>2 DEF CodecOf, SchemaType
  <2> QED
    BY <1>1, <1>2, <2>1 DEF Prototype, TrieCodecs
<1>3. CASE l \in HeaderLinks \cup {"StorageRootCID"}
  BY <1>3 DEF HeaderLinks, CodecOf, Prototype, SchemaType, TrieCodecs
<1> QED
  BY <1>1, <1>2, <1>3 DEF Links, AccountLinks

(* No import registers anything but codecs of the library. *)
LEMMA RegistersCodecs == \A p : Registers(p) \subseteq Codecs
  BY DEF Registers

LEMMA InitLinkInv == Init => LinkInv
  BY DEF Init, LinkInv, Registries

LEMMA NextKeepsLinkInv == LinkInv /\ [Next]_vars => LinkInv'
<1> SUFFICES ASSUME LinkInv, [Next]_vars PROVE LinkInv'
  OBVIOUS
<1>1. ASSUME NEW p \in Packages, Import(p)
      PROVE  LinkInv'
  BY <1>1, RegistersCodecs DEF Import, loads, LinkInv, Registries
<1>2. ASSUME NEW p \in Packages, AddSupportToChooser(p)
      PROVE  LinkInv'
  BY <1>2, RegistersCodecs DEF AddSupportToChooser, loads, LinkInv, Registries
<1>3. ASSUME NEW r \in {"default", "own"}, Register(r)
      PROVE  LinkInv'
  <2> DEFINE imported == [registered EXCEPT !["default"] = @ \cup Registers("plugin")]
  <2>1. /\ registered' = [imported EXCEPT ![r] = @ \cup Codecs]
        /\ plugged' = plugged \cup {r}
        /\ UNCHANGED <<uses, chooser, at>>
    BY <1>3, PluginListComplete DEF Register, loads
  <2>2. /\ DOMAIN imported = Registries
        /\ \A q \in Registries : /\ registered[q] \subseteq imported[q]
                                 /\ imported[q] \subseteq Codecs
    BY RegistersCodecs DEF LinkInv, Registries
  <2> HIDE DEF imported
  <2>3. /\ DOMAIN registered' = Registries
        /\ \A q \in Registries : registered'[q] \subseteq Codecs
        /\ \A q \in plugged' : Codecs \subseteq registered'[q]
    BY <2>1, <2>2 DEF LinkInv, Registries
  <2> QED
    BY <2>1, <2>3 DEF LinkInv, Registries
<1>4. ASSUME NEW l \in LinksOf(at), Follow(l)
      PROVE  LinkInv'
  <2>1. at' = at \/ at' \in registered[uses]
    BY <1>4 DEF Follow
  <2>2. at' \in Codecs
    BY <2>1 DEF LinkInv
  <2> QED
    BY <1>4, <2>2 DEF Follow, registries, LinkInv
<1>5. CASE UNCHANGED vars
  BY <1>5 DEF vars, registries, loads, LinkInv
<1> QED
  BY <1>1, <1>2, <1>3, <1>4, <1>5 DEF Next

LEMMA LinkInvariant == Spec => []LinkInv
  BY InitLinkInv, NextKeepsLinkInv, PTL DEF Spec

(* Whatever a program imports, and in whatever order, once the plugin's    *)
(* Register was given the registry in use, no link that a decoder of this  *)
(* library makes lacks a decoder, but for contract code                    *)
(* (plugin/plugin.go, Register).                                           *)
THEOREM PluginCoversEveryLinkThere == Spec => PluginCoversEveryLink
<1>1. ASSUME LinkInv, [Next]_vars
      PROVE  [(\E l \in LinksOf(at) \ {"CodeCID"} : Follow(l)) /\ uses \in plugged
                 => out' # "no decoder"]_vars
  <2> SUFFICES ASSUME NEW l \in LinksOf(at) \ {"CodeCID"}, Follow(l),
                      uses \in plugged
               PROVE  out' # "no decoder"
    OBVIOUS
  <2>1. CodecOf(at, l) \in registered[uses]
    BY LinksAreOwnCodecs, <1>1 DEF LinkInv
  <2>2. \/ out' = "undecodable"
        \/ out' = (IF CodecOf(at, l) \in chooser
                   THEN Prototype(CodecOf(at, l)) ELSE "any")
    BY <2>1 DEF Follow
  <2>3. CodecOf(at, l) \in Codecs
    BY LinksAreOwnCodecs, <1>1 DEF LinkInv
  <2>4. Prototype(CodecOf(at, l)) # "no decoder"
    <3> DEFINE c == CodecOf(at, l)
    <3>1. c \in Codecs
      BY <2>3
    <3> HIDE DEF c
    <3>2. Prototype(c) # "no decoder"
      BY <3>1 DEF Prototype, Codecs, ValueCodecs, TrieCodecs
    <3> QED
      BY <3>2 DEF c
  <2> QED
    BY <2>2, <2>4
<1> QED
  BY <1>1, LinkInvariant, PTL DEF Spec, PluginCoversEveryLink

(* Every link that has a decoder, but LogRootCID, is decoded, into the     *)
(* type that the schema in gen.go gives it where the chooser supports its  *)
(* codec, or is the root of an empty trie, which DecodeTrieNodeBytes       *)
(* refuses: no import order makes a registered codec meet another's bytes. *)
THEOREM EveryLinkLeadsToItsType == Spec => LinksLeadToTheirType
<1> DEFINE Leads(l) ==
        \/ out' = "no decoder"
        \/ found' = Empty /\ out' = "undecodable" /\ at' = at
        \/ /\ found' # Empty
           /\ \/ out' = SchemaType(l)
              \/ out' = "any" /\ CodecOf(at, l) \notin chooser
<1>1. ASSUME LinkInv, [Next]_vars
      PROVE  [\A l \in LinksOf(at) \ {"LogRootCID"} : Follow(l) => Leads(l)]_vars
  <2> SUFFICES ASSUME NEW l \in LinksOf(at) \ {"LogRootCID"}, Follow(l)
               PROVE  Leads(l)
    OBVIOUS
  <2>1. CodecOf(at, l) = FullBehind(at, l) /\ CodecOf(at, l) # Empty
    BY LinksAreOwnCodecs, <1>1 DEF LinkInv
  <2>2. found' = FullBehind(at, l) \/ found' = Empty
    BY DEF Follow, Behind
  <2>3. CASE found' = Empty
    <3>1. ~Reads(CodecOf(at, l), found')
      BY <2>1, <2>3 DEF Reads
    <3> QED
      BY <2>3, <3>1 DEF Follow
  <2>4. CASE found' # Empty
    <3>1. Reads(CodecOf(at, l), found')
      BY <2>1, <2>2, <2>4 DEF Reads
    <3>2. \/ out' = "no decoder"
          \/ out' = (IF CodecOf(at, l) \in chooser
                     THEN Prototype(CodecOf(at, l)) ELSE "any")
      BY <3>1 DEF Follow
    <3>3. CASE l = "CodeCID"
      <4>1. CodecOf(at, l) = "raw"
        BY <3>3 DEF CodecOf
      <4>2. CodecOf(at, l) \notin chooser
        BY <1>1, <4>1 DEF LinkInv, Codecs, ValueCodecs, TrieCodecs
      <4> QED
        BY <2>4, <3>2, <4>2
    <3>4. CASE l # "CodeCID"
      <4>1. Prototype(CodecOf(at, l)) = SchemaType(l)
        BY <1>1, <3>4, ChooserPicksTheSchemaType DEF LinkInv
      <4> QED
        BY <2>4, <3>2, <4>1
    <3> QED
      BY <3>3, <3>4
  <2> QED
    BY <2>3, <2>4
<1> QED
  BY <1>1, LinkInvariant, PTL DEF Spec, LinksLeadToTheirType
=============================================================================
