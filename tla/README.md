# TLA+ models of go-codec-dageth

go-codec-dageth lets IPLD programs read and write Ethereum data: it turns the
RLP blocks of headers, uncles, transactions, receipts, logs, accounts and the
nodes of their Merkle-Patricia tries into typed IPLD nodes and back. A block is
named by the hash of its bytes (its CID), so the promise that matters is about
bytes: what is loaded from a block and stored again must be that block, what a
node says must survive being stored, and a link must lead to what it says it
leads to. Under the codecs lies a generated layer, the builders of the schema
types, that must let no incomplete node through and must not let a finished one
be changed.

## 1. Inventory

| Component | Source | State it keeps | Operations | Module |
|---|---|---|---|---|
| Path conversions | `shared/utils.go` | none | `hexToCompact`, `compactToHex` | `HexPrefix`, `HexPath` |
| Struct assemblers | `ipldsch_satisfaction.go`, `ipldsch_minima.go` | `*m`, `state`, `s`, `f`, `cm`, the node `w`, the child assemblers `ca_F` | `BeginMap`, `AssembleKey/Value/Entry`, key and child assignments, `Finish`, `AssignNode`, `AssignNull`, `Build`, `Reset` | `StructAssembler`, `StructAssign`, `GeneratedStruct` on `StructTables`, `ReprTables`; abstract: `NodeBuilder` |
| List assemblers | same | `*m`, `laState`, the rows, one element assembler `va` with its `cm` | `BeginList`, `AssembleValue`, `Finish`, `AssignNode`, `Build`, `Reset` | `ListAssembler`; abstract: `ListBuilder` |
| Union assemblers | same | `*m`, `state`, `ca`, `cm`, the node's `tag` and members | those of a struct, for one entry | `UnionAssembler` on `UnionTables` |
| Readers of structs and unions | same | the position of an iterator | `LookupByString`, `MapIterator` | `GeneratedStruct`, `UnionAssembler` |
| Schema | `gen.go` | none | declarations | `Schema` |
| Trie node codec, five trie packages | `trie/`, `*_trie/` | none | `Encode`, `DecodeTrieNode` | `TrieCodec` |
| Transaction codec | `tx/` | none | `Encode`, `Decode` | `TxCodec` |
| Receipt and log codecs | `rct/`, `log/` | none | `Encode`, `Decode` | `RctCodec`, `LogCodec` |
| Header, uncles and account codecs | `header/`, `uncles/`, `state_account/` | none | `Encode`, `Decode` | `HeaderCodec` |
| Registration | `*/multicodec.go`, `plugin/plugin.go` | codec registries, the chooser | `init`, `Register`, `AddSupportToChooser` | `DagLinks` |
| Getters, list readers, type table, test helpers, address helpers | `ipldsch_*.go`, `shared/` | none | | not modelled, see section 7 |

How they interact. A link system loads a block with the decoder that its
registry has for the codec in the link. The decoder has go-ethereum parse the
RLP, then drives a struct assembler key by key. Encoding goes the other way:
`AssignNode` into a fresh builder of the type is the schema check, and each
`pack` function then converts one field of the typed node to a Go value that
go-ethereum writes. The trie codec calls the value codecs for its leaves. The
receipt decoder computes a link (`LogRootCID`) that no block contains.

What is hard. Nothing here runs concurrently, persists anything, waits or
retries on its own. There is one thing that must eventually happen, that
`AssignNode` returns (section 3). The hard part is sequences:

* a caller may call an assembler, and the child assemblers it still holds, in
  any order, after errors and after recovered panics; all the protection is a
  shared `Maybe` and some nil pointers;
* a parent learns of its child's end only through that `Maybe`: one element
  assembler serves a whole list, and the child of a nullable union writes behind
  a pointer that the parent picks up later;
* the generated code repeats the name, number and bit of every field in a dozen
  switches, at two levels, and the recursive types have assemblers behind
  pointers that may be nil;
* bytes go through conversions that crop, pad, strip zeros, panic or fail, each
  field by another rule, and one wrong rule shows only after a second load or
  store, as other bytes under another CID;
* a trie node's kind, its path and what its members are, are told by flag
  nibbles, lengths and shapes;
* a link's codec is chosen in the decoder and is wrong only for whoever follows it.

`PROJECT.json` lists these hazards one by one with their lines and properties.

## 2. Modules

**HexPrefix, HexPath.** The conversions between hex paths (a nibble per byte, 16
as terminator) and compact paths, byte for byte; the shift in `decodeNibbles`
is cut to a byte and the bitwise or is real, so bytes that are no nibble behave
as they do in Go. `HP` is the reference: the hex-prefix function of the Yellow
Paper. `HexPath` feeds both conversions with every slice of bytes.

**StructAssembler.** The state machine of `_Header__Assembler`; the fields are the
constants `Fields` and `Nullable`, and `Level` says whether it is the assembler of
the type or of its representation, whose `valueFinishTidy` leaves the child
assembler its pointer. `Composite` are the fields whose children are unions, structs
or lists: without a place in the node these do not panic as scalars do, but take
the value elsewhere and report it through `*na.m`. With `KeepStale` the caller may
use a child assembler after its entry, or give a list that is out of place an
empty list of another type (`ChildAssignEmpty`). A variable for every field of the Go struct: `m` for `*na.m`,
`state`, `s`, `f`, `cm`, then `wm` and `wv` for the node under construction, `caw`
and `cam` for which `ca_F.w` points to `w.F`, and `ca_F.m` is not nil. `begun` and `held` are
what the caller has in hand, and `ret` is how the last call ended. One action
per method: each of them with its panics and errors, and a panic changes
nothing, since in the code every panic precedes the assignments. Because a
nullable field's `Maybe` lives in the node while the others share `cm`,
`valueFinishTidy` has two cases, and both are kept.

**NodeBuilder** is the promise: fields are put one at a time, each at most once,
the node is sealed only when complete, or assigned whole while empty, and after
that only cleared. `StructAssembler` refines it; `content` is the function of
the fields that hold a finished value and `sealed` is `m = "Value"`.

**StructAssign** adds the other form of `AssignNode`, the loop over the entries
of a foreign map. Each call of the loop is a step, each may fail, the iterator too,
and nothing is undone. This is the schema check that every `Encode` begins with.

**Schema** has the declarations of `gen.go`: fields in order, kinds, elements,
members and discriminants. **StructTables, ReprTables, UnionTables** have what the
generated code holds of them: each switch over names, numbers or bits is a table
of its own, read from that switch, the same fields over and over as in the code
(`FieldRows` is their vocabulary).

**GeneratedStruct** runs the assembler and both readers of each of the twelve
structs, at both levels, on those tables. Its state is the code's: the mask is a
number, a child's `Maybe` is whichever the case at hand pointed it to, and the
value of a pointer `Maybe` stays in the child until `valueFinishTidy` moves it. A
caller writes the fields that the schema gives, forwards or backwards, by entry
or by key and value, with calls out of place at any point. Among these are calls on
children that have lost their place in the node: a scalar panics, a union keeps what
it is given, and a list takes an empty list of another type; `strays` remembers
that one of these went through, since it may complete another entry. That every step
is a step of `StructAssembler` is the property `ImplementsStructAssembler`, so what is
proved of the one machine holds of all twenty-four, under the same assumption
(`Protected`, section 5).

**ListAssembler** composes a list's assembler with `StructAssembler` as its element
assembler: `*m` of the element is the list's `cm`, and `valueFinishTidy` resets it
between elements. Elements come by calls, by copy, or through the loops of
`AssignNode` over a foreign list of foreign maps, which stop at the first failure
and undo nothing. **ListBuilder** is the promise it refines: whole elements, added
at the end, sealed once.

**UnionAssembler** has the assemblers of `Value`, `TrieNode` and `Child`. A case says
which union, at which level, standing alone or behind the pointer of a nullable
field, and by which ways a caller assembles it: by entry, by key and value, by
copy, from a foreign map, or, for the representation of `Child`, which is kinded,
by the call that stands for the member. The calls are functions of the state they
find, so that a foreign map is the chain of calls its loop makes, for maps of up
to two entries: one more than any union takes. A call that follows a nil pointer
panics after the assignments that precede it.

**Outcome, RLP.** A call ends `ok` with a result, in `error` or in `panic`, and
of several calls in a row the first that is not `ok` decides (`InOrder`). `RLP`,
with the sizes of `Sizes`,
has the conversions that the codecs use: `SetBytes`, `BigEndian.Uint64`,
`BytesToHash`, `BytesToAddress`, `BytesToBloom`, and what go-ethereum accepts
when it reads. These are external code, modelled by what they do with every
length of input.

**TxCodec, LogCodec, RctCodec, HeaderCodec** are the value codecs, one operator per
`pack` and `unpack` function or group of functions with one rule. Each also
states which nodes are well-formed (`WellFormedTx` and so on) and what any other
node *means* (`NormalTx` and so on): the fields the codec has a use for, with
integers, hashes and addresses in their normal form. **Envelope** is what
transactions and receipts share: the type before the list.

**TrieCodec** is the codec of trie nodes, for the five trie multicodecs. Values in
leaves are opaque: their codec succeeds, fails (`Broken`) or panics (`Fatal`).

**CodecStore** is the caller of all of them: with one of the eleven multicodecs, it
begins with a node or with somebody else's block and stores and loads in any
order. The codecs are its operator parameters; **CodecTable** has the eleven of them
as the packages register them, `MCCodecStore` puts the two together, and `TxInputs`, `RctInputs`, `HeaderInputs` and `TrieInputs` hold the nodes and blocks that its
callers begin with.

**DagLinks.** Packages are imported, the plugin registers its codecs in a given
registry, choosers are extended, and links are followed, in any order. It
says of each link which codec the decoder gives it, and what lies behind it: a
block of the schema's type or, for the root links, perhaps the empty string that
stands for a trie without entries, which is no list and which no decoder reads.
In Go the inits run before `main`; letting `Import` happen later only adds
behaviours in which fewer codecs are registered.

The `MC*` modules hold the instances that TLC checks.

## 3. Runs

Properties are stated, with the code they are about, above their definitions.

| Run | Checks | Instance | Distinct states |
|---|---|---|---|
| `hex_path` | round trip, agreement with the Yellow Paper, re-encoding of what came from the wire, result types | byte slices up to length 5 over ten bytes | 111111 |
| `struct_assembler` | type invariant; built nodes complete; finished nodes immutable; an entry is filled by its own child and only while it is open; failed calls keep the content; refinement of `NodeBuilder` | 3 scalar fields, one nullable, 2 values | 14283 |
| `struct_assign` | accepts exactly the schema; a failure is not buildable; complete under retries; `AssignNode` returns | 2 fields, one nullable; nodes of up to 3 entries | 321792 |
| `generated_struct` | what is written reads back by both readers at both levels; a caller that follows the schema is never refused; refinement of `StructAssembler` | 12 structs, 2 levels, 2 orders, every other nullable field null | 145411 |
| `list_assembler` | complete rows; elements start fresh; refinement of `ListBuilder` | 2 elements of 2 fields, 2 values | 47601 |
| `union_assembler` | one member; reads back; every member accepted; finished unions immutable | 3 unions, both levels and places, the ways that work | 9084 |
| `codec_store` | what is well-formed is stored and loaded as it is, anything else in normal form; what is loaded is well-formed; others' blocks survive byte for byte, up to the padding of paths; own bytes are stable; own blocks are readable and never panic | eleven codecs, branches of 2 children, see below | 88750 |
| `dag_links` | the plugin covers every link; links lead to the schema's type, those of empty tries nowhere | all eleven codecs | 34835 |
| `struct_assign_finished`, `union_members`, `header_withdrawals`, `dag_log_root` | violated: see section 4 | | |

Why the bounds are enough. Lengths matter to the conversions only by being
below, at or above a fixed size, so sizes are cut to two or three bytes
(`UintLen`, `HashLen`, `AddressLen`, `BloomLen`) and the inputs include the empty
string, zero, leading zeros, trailing zeros, and one byte too few and too many.
`HashLen` is 3, so that a state root, the status 1 and an empty status have
different lengths, as in the code. Nodes differ from a plain one in
one or two fields, since `pack` functions do not look at each other's fields; the
pairs chosen are the ones that the type of a transaction or the base fee ties
together. A branch of two children has every combination of children in the
first and the second place; the code treats the sixteen alike. Paths of up to
five bytes hold every parity, the terminator in every place, and every known
flag with zero and nonzero padding. Three fields let one entry be open, one be
stale and one be nullable. Three entries for two fields allow a repeated key, an
unknown key and a missing one. Two elements let one inherit what the other left.
The structs and unions have their real fields and members.

Fairness. `AssignSpec` assumes weak fairness of `Loop`, the steps of `AssignNode`:
it runs on its caller's goroutine and waits for nothing, so once called it goes
on. Nothing is assumed of the caller, nor that an iterator ever fails. `AssignReturns` follows because entries
run out and no failure sends the loop around again. No other module has anything
that must happen: the rest are single calls.

Deadlock is checked in all runs but `hex_path`, where a slice at the bound ends
the behaviour. No symmetry is used: no run needs it.

Every property has a mutant in `PROJECT.json`: a copy of one definition with a
plausible slip (a dropped check, the odd bit not masked, a null unpacked as
zero, the mark set before the check), under which TLC finds the property violated.

## 4. Findings

* **A finished builder takes another node** (`struct_assign_finished`). After
  `AssignNode` with a node of the same type, `*na.m` is `Value` and `na.state` is
  still `initial`. `AssignNode` with a map of another type then runs its loop,
  which looks at `na.state` only, and overwrites the node that `Build` returned.
  The run that checks the rest of `AssignNode` excludes this one order of calls
  (`ReuseCopied = FALSE`).
* **Five ways to assemble a union do not work** (`union_members`; with `Cases` set to
  one of the sets named here, each shows alone).
  `AssembleEntry("TrieNode")` of `Child` (`MCChildEntry`) and `BeginMap` of its
  representation (`MCKindedMap`) use `ca2` before anything makes it, and panic.
  The representation of `Child` refuses null (`MCKindedNull`) in fields that the
  schema calls nullable.
  `AssembleValue` of the representations of `TrieNode` and `Value` counts members
  from zero (`MCReprKeyValue`), everything else from one.
  The loop of `AssignNode` over a foreign map does not make the node of a union
  behind a nullable pointer (`MCForeignChild`): the trie codec's `AppendEncode` calls
  `AssignNode` on the node it is given, so a branch node with a child, built with
  other than this package's types, panics.
* **The log root link has the wrong codec** (`dag_log_root`). It points at the root
  of a trie of logs; its codec is that of a single log, so following it fails. The
  schema says `&TrieNode`.
* **Withdrawals roots are lost** (`header_withdrawals`). The go-ethereum of `go.mod`
  reads a seventeenth header item, which the schema has no field for; the header
  is then written without it, under another CID.

Five more show when a constant of a passing run is changed; the property named is
violated then, and others with it:

* **A stale child changes a finished representation**: `Level = "repr"` in
  `MCStructAssembler.cfg` refutes `FinishedIsImmutable`. `valueFinishTidy` of the
  `_Repr` assemblers (line 9608 of `ipldsch_satisfaction.go`) does not clear `ca_F.w`
  as the type's does (line 8572). With the shared `Maybe` absent again, a child
  assembler kept from an earlier entry writes into the node after `Finish`. The
  type's assemblers of structs with scalar fields are safe, and so is a caller that
  drops finished children (`KeepStale = FALSE`); both are proved.
* **A stale child fills another entry**: `Composite <- MCFields` in
  `MCStructAssembler.cfg` refutes `OwnHandleOnly`, `BuiltNodeComplete` and
  `FinishedIsImmutable`. The child assembler of a union or a struct does not need
  its place in the node: with `w` nil, `AssignNode` keeps the given node (line 27061)
  and sets `*na.m`, which all plain fields share. For `TrieLeafNode`: `BeginMap`,
  `AssembleEntry("Value")` and `AssignNode` on its child, `AssembleEntry("PartialPath")`,
  `AssignNode` on the first child once more, `Finish`: a leaf without `PartialPath` is
  built. A list does the same for an empty list of another type, since its loop then
  goes straight to `Finish` (line 11830), which does not look at `*na.m` either: a
  null `AccessList` of a `Transaction` reads as a value afterwards, even in a finished
  node. `generated_struct` has these calls, and `ReadsBack` is about callers whose
  stray calls do not succeed (`strays`). Stray foreign maps, and foreign lists with
  elements, are not modelled.
* **A field is skipped after an iterator's error**: `IteratorFails = TRUE` in
  `MCListAssembler.cfg` refutes `BuiltRowsComplete`. `reset()` of a struct assembler
  (line 10676) leaves `cm`, which that of a union clears (line 5269). When the loop
  over an element's entries ends with an error of the iterator, `cm` still says that
  a value was given; after a copy into that element, the next one's first field
  counts as done.
* **A finished union takes another member**: `Cases <- MCCopyThenForeign` in
  `MCUnionAssembler.cfg` refutes `FinishedIsImmutable`, by the slip that
  `struct_assign_finished` shows for structs (line 5342); the lists have it too.
  Where the node was copied into a nullable field, `na.w` is the given node itself,
  so it is that one that changes.
* **Block was not generated again** after its fields were renamed: `Wanted <- Structs`
  in `MCGeneratedStruct.cfg` refutes `AcceptsWhatTheSchemaSays`. The generated `Block`
  has `Header`, `Transactions` and `Receipts`, `gen.go:455` has `HeaderCID` and so on.

Behaviour the properties are stated around, rather than findings: a receipt's
post state is written whatever its length (`ValidRct` is the assumption that it
is a hash); digests of another size are cropped or padded (`Normal*`); a null
access list in a typed transaction, a `Uint` of fewer than eight bytes and a
receipt's bloom that is too long panic; a foreign trie block whose first member
is a list or empty panics in `decodeTwoMemberNode`; the root links of empty tries
are made like any other and cannot be loaded; the error of `Finish` names only
the missing fields that are not nullable, though all are required; a handle on
`Child`'s pointer-held member assembler survives `Reset` of the builder (the caller
of `UnionAssembler` drops its handles then).

The passing runs leave out what does not work, each by a named constant:
`ReuseCopied`, `Level`, `Composite`, `IteratorFails`, `Wanted`, and the ways of `MCWorking`; headers
with withdrawals are no input of `codec_store`.

## 5. Proofs

TLAPS proves, for every value of the constants (`PROJECT.json` names the property
of each theorem):

| Module | Theorems | Assumed |
|---|---|---|
| `HexPathProofs` on the lemmas of `HexPrefixProofs` | **RoundTripForAllPaths**, **ConversionsStayBytes**, **CompactMatchesHexPrefix**, **WirePathsNormalised** | |
| `StructAssemblerProofs` | **TypeCorrect**, **BuiltNodesAreComplete**, **FinishedNodesAreImmutable**, **FieldsChangeByOwnHandle**, **FailedCallsKeepContent**, **AssemblerImplementsNodeBuilder** | `Protected` |
| | **RetriesBuildCompleteNodes**, **FailedAssignsAreNotBuilt**, **AssignAcceptsExactlyTheSchema** | `~ReuseCopied` |
| `ListAssemblerProofs` | **ListTypeCorrect**, **BuiltRowsAreComplete**, **EveryElementStartsFresh**, **AssemblerImplementsListBuilder** | `~KeepStale`, `~IteratorFails` |
| `UnionAssemblerProofs` | **UnionTypeCorrect**, **UnionsHoldOneMember**, **FinishedUnionsDoNotChange** | every case is `Sound` |
| | **UnionsReadBack**, **EveryMemberIsAccepted** | every case is `Working` |
| `CodecStoreProofs` on the lemmas of `HexPrefixProofs` and `ValueCodecProofs` | **CodecsLoadWhatWasStored**, **CodecsLoadTheMeaning**, **CodecsLoadWellFormedNodes**, **ForeignBlocksSurvive**, **StoredBlocksAreStable**, **StoredBlocksAreReadable**, **StoredBlocksNeverPanic** | `KnownCodecs` |
| `DagLinksProofs` | **PluginCoversEveryLinkThere**, **EveryLinkLeadsToItsType** | |

All that speak of structs also use `SchemaAssumption` (the nullable fields are
fields; null, zero value and the two pseudo keys are distinct from values and
fields), and each module the named assumptions on its constants, which say little
more than their types (`PathAssumption`, `EntriesAssumption`, `ListAssumption`,
`CasesAssumption`, `RadixAssumption`, and `SizeAssumption`: no size is zero, and a
hash is longer than a status). Every other assumption in the last
column excludes a finding of section 4, without which the theorem is false:
`Protected` says that the caller drops finished children or the assembler is the
type's and all fields are scalars; `ReuseCopied`, `KeepStale` and `IteratorFails` are the constants of section
4; `Sound` excludes only a copy before a foreign map and, at the level of the
representation, keys and values, by calls or by the loop over a foreign map;
`Working` excludes all five ways that do not work. `KnownCodecs` says that
`CodecStore` runs with the codecs of `CodecTable`, any number of them, on nodes as
the builders make them (`NodeOf`: the fields of the schema with content of their
kind, not necessarily well-formed) and on any blocks (`BlockOf`), but for headers
with a withdrawals hash (`HeaderItem`); and that the stand-in for what is no CID is
distinct from the names of codecs and from the records around it (`Apart`). The
passing runs satisfy all of these.

**Paths.** The lengths of both conversions are computed, each position of the result
is traced to the nibble it holds (`PackNibbles`, `UnpackNibbles`, `OrNibble` for the
flag byte), with odd and even paths as separate cases. `WireRoundTrip` goes the other
way, from any bytes with a known flag. `CompactIsCanonical` holds of bytes that are
no nibbles, too: or-ing such a byte into the flags cannot clear the odd bit.

**Structs.** Completeness is not inductive: that a key is in the mask `s` says
nothing of its value unless one knows who may still write where. The invariant `IInv`
is the type invariant, `BuiltNodeComplete` itself, and

* `HandleInv`: without a `MapAssembler` in the caller's hands no entry is begun;
  with one the node is under assembly until `Finish`, and `finished` means that
  every field was seen;
* `EntryInv`: the open entry's key is recorded and its child bound; of the plain
  fields only the open one's child points into the node, and only it uses the
  shared `cm`; a caller that drops finished children holds at most the open one's.
  This is what makes sharing `cm` safe;
* `NullableInv`: a nullable field's own `Maybe` is consistent with the mask, the
  open entry and its contents;
* `PlainInv`: a plain field in the mask has a value, unless it is the open one and
  still waits for it.

There is one lemma per action, then `NextKeepsIInv`. Immutability and
refinement follow from it step by step: each concrete call is shown to be a
`Put`, `Seal`, `AssignWhole`, `Clear` or a stutter of the abstract builder.

**AssignNode.** It does without `BeginMap`, so `HandleInv` is of no use there.
`AssignInv` says instead, for each step of the loop, in which state its next call
finds the assembler (`LoopOK`), and that a node that can be handed out after an
assign is the result of that assign (`JobOK`). For `AcceptsExactlyTheSchema`,
`FreshInv` adds that on a fresh builder the mask is the set of the keys gone
through, none of them twice, and that each such field holds its entry's value.

**Lists.** What `valueFinishTidy` leaves of one element is there for the next: child
pointers, the field of the last entry and the shared `Maybe`. `ListInv` says why it
does not matter: whoever finishes an element has used the `Maybe` up, and until the
list takes an element its mask and its fields agree. The refinement maps the rows,
with an element that is finished and not yet taken, to `ListBuilder`'s elements.

**Unions.** `cm` is never reset and `ca` is set once; `MapSane` says that the two tell
whether the member was begun and given, whichever state a refused call left, and
`KindSane` is the counterpart for the kinded representation. For the properties of a
caller that gets through, `PhaseInv` says what each phase of each way has already
placed in the node. Both are relative to the generated tables, about which the
lemmas (`TablesFit` and others) are finite checks.

**Codecs.** Three laws of single calls are enough for every sequence of stores and
loads. `Stores`: what is written, of any node at all, is in the codec's own form, is
read without a panic, and is read as the node's meaning. `Reads`: a well-formed node is
read back. `Loads`: what is accepted is well-formed and is written as the block's own
form. `StoreInv` carries them from call to call: it says of the node and the block at
hand which one was made from which. For the tries the laws go up from values and paths
to leaves, children and branches of any radix; the codecs of the values in them stay
opaque, as in `TrieCodec`.

For the value codecs (`ValueCodecProofs`) they go up from bytes. `SetBytesDrops`,
`FitFits`, `FitSetBytes` and `SetBytesFit` say what stripping zeros and cropping or
padding do to bytes of any length, and how the one undoes the other for integers that
fit. From these follow the laws of single fields: what `pack` makes of a field is what
go-ethereum accepts, is read as the field's normal form, and what go-ethereum accepts
is packed as it was (`UintLaw`, `BigIntLaw`, `HashLaw`, `AddressLaw`, `BloomLaw`,
`HashLinkLaw`, `RecipientLaw`). Then structs and lists: `InOrderEnds` says that of calls
in a row all succeed or the first failure counts, `HeaderFieldAt` and `TxFieldAt` that
a field is packed at the place where it is read and no other is, for each of the three
types of transactions (`Orderly`), and `StatusStores` and `StatusLoads` keep apart the
three things that the first item of a receipt may be. For each codec there result a
law for storing (`TxStores`), for well-formed nodes (`TxKept`) and for loading
(`TxLoads`), and likewise for the others.

**Links.** `LinkInv`: a registry that the plugin was given has every codec. That links
lead to their type follows from single steps: the codec the decoder puts into a link
is the one of the block behind it, unless that is the empty string.

Before it was proved, every inductive invariant was checked by TLC as an invariant
of the run in question.

Only model-checked:

* `GeneratedStruct`: the module has no parameter but the twenty-four tables of
  the generated code, so its run covers every assembler there is; the masks
  are powers of two, which the prover does not calculate with. By its
  `ImplementsStructAssembler` the theorems on structs hold of the code of each struct,
  as far as `Protected` does: for callers that drop finished children, and for any
  caller of the type's assembler where the struct has neither unions nor lists.
* `AssignReturns`, a liveness property, outside the prover's reach, as are facts by
  induction over data. No recursive operator is used in any module.

## 6. Assumptions

* A caller that calls `Reset` drops the `MapAssembler` it had (the pointer is the
  same, and the code could not tell).
* A panic is recovered by the caller or ends the program. In the struct and list
  assemblers every panic precedes the assignments, but that `Finish` of a list child
  without a `Maybe` has set its state by then (`over` in `GeneratedStruct`); in the
  unions a nil pointer may be met after some, and those are kept.
* The assembler of a union's member, and that of a field in `GeneratedStruct`, is
  given its value in one call; how a struct takes its own is `StructAssembler`. A
  caller without stale handles (`KeepStale = FALSE`) fills each child once.
* The node given to a value codec has passed the schema check that `StructAssign`
  models, so the codec modules take nodes with all fields and of the right kinds.
* go-ethereum's RLP reader refuses integers with leading zeros, arrays of the wrong
  size and lists of the wrong length; it treats the optional tail of a header as
  its struct tags say. The root of a trie of logs is determined by the logs and
  differs for different logs.
* A decoder reads what its own codec wrote, and a log's decoder does not read a
  trie node (`Reads`): a log has three items, a trie node two or seventeen. None reads
  an empty string. The block behind a link is found: stores that lack it are the link
  system's affair.

## 7. Not modelled

The `Field` and `Must` getters, the readers of lists and the wrong-kind answers of
all readers, a line each and without state; the scalars' own builders, whose
assemblers are modelled as children; the table of prototypes; go-ipld-prime's
generator, which `gen.go` calls; `RawdataToCid`, `AddressToLeafKey` and
`AddressToEncodedPath`, which only hash; `EncodeTx` and `EncodeReceipt`, which are
`Encode` followed by go-ethereum's own decoder; the deprecated aliases; test helpers.
`reset()` of the unions is unreachable: no list has unions for elements. The bytes
of RLP (headers of strings and lists) are left to go-ethereum, and an item is
represented by its content.

## 8. Plan

Done: path conversions, the assemblers of structs, lists and unions with their
refinements, all codecs, registration; proofs of all safety properties but those of
`GeneratedStruct`. Next:

1. the values of trie leaves with the codecs they have in the code, in place of the
   opaque ones, so that a trie of transactions is proved down to the bytes;
2. decoding as a sequence of assembler calls, to show that a decoder that fails
   half way leaves its assembler unbuildable.
