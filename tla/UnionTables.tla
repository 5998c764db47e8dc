--------------------------- MODULE UnionTables ----------------------------
(***************************************************************************)
(* The switches of the readers and the assemblers of the three unions, at  *)
(* the level of the type and, but for Child whose representation is not a  *)
(* map, of the representation.                                             *)
(*                                                                         *)
(* In a switch over names the case in place i is about member i: it sets   *)
(* or compares ca and tag with i and uses x<i>.  A switch over a number    *)
(* is a function from the number to the member.                            *)
(***************************************************************************)
EXTENDS Schema

Value_LookupByString == <<"Transaction", "Receipt", "Account", "Bytes", "Log">>
Value_Next == <<"Transaction", "Receipt", "Account", "Bytes", "Log">>
Value_AssembleEntry == <<"Transaction", "Receipt", "Account", "Bytes", "Log">>
Value_AssembleValue == [ca \in 1..5 |-> ca]
Value_AssignString == <<"Transaction", "Receipt", "Account", "Bytes", "Log">>

Value_Repr_LookupByString == <<"tx", "rct", "state", "storage", "log">>
Value_Repr_Next == <<"tx", "rct", "state", "storage", "log">>
Value_Repr_AssembleEntry == <<"tx", "rct", "state", "storage", "log">>
Value_Repr_AssembleValue == [ca \in 0..4 |-> ca + 1]
Value_Repr_AssignString == <<"tx", "rct", "state", "storage", "log">>

TrieNode_LookupByString ==
    <<"TrieBranchNode", "TrieExtensionNode", "TrieLeafNode">>
TrieNode_Next == <<"TrieBranchNode", "TrieExtensionNode", "TrieLeafNode">>
TrieNode_AssembleEntry ==
    <<"TrieBranchNode", "TrieExtensionNode", "TrieLeafNode">>
(* Mutant: numbered from zero, as the representation's. *)
TrieNode_AssembleValueFromZero == [ca \in 0..2 |-> ca + 1]
TrieNode_AssembleValue == [ca \in 1..3 |-> ca]
TrieNode_AssignString ==
    <<"TrieBranchNode", "TrieExtensionNode", "TrieLeafNode">>

TrieNode_Repr_LookupByString == <<"branch", "extension", "leaf">>
(* Mutant: the iterator names two members by each other's key. *)
TrieNode_Repr_NextSwapped == <<"branch", "leaf", "extension">>
TrieNode_Repr_Next == <<"branch", "extension", "leaf">>
TrieNode_Repr_AssembleEntry == <<"branch", "extension", "leaf">>
TrieNode_Repr_AssembleValue == [ca \in 0..2 |-> ca + 1]
TrieNode_Repr_AssignString == <<"branch", "extension", "leaf">>

Child_LookupByString == <<"Link", "TrieNode">>
Child_Next == <<"Link", "TrieNode">>
Child_AssembleEntry == <<"Link", "TrieNode">>
Child_AssembleValue == [ca \in 1..2 |-> ca]
Child_AssignString == <<"Link", "TrieNode">>

Union(lookup, next, entry, value, key) ==
    [lookup |-> lookup, next |-> next, entry |-> entry, value |-> value,
     key |-> key]

UnionTypes == [
    Value |-> Union(Value_LookupByString, Value_Next, Value_AssembleEntry,
        Value_AssembleValue, Value_AssignString),
    TrieNode |-> Union(TrieNode_LookupByString, TrieNode_Next,
        TrieNode_AssembleEntry, TrieNode_AssembleValue, TrieNode_AssignString),
    Child |-> Union(Child_LookupByString, Child_Next, Child_AssembleEntry,
        Child_AssembleValue, Child_AssignString)]
UnionReprs == [
    Value |-> Union(Value_Repr_LookupByString, Value_Repr_Next,
        Value_Repr_AssembleEntry, Value_Repr_AssembleValue,
        Value_Repr_AssignString),
    TrieNode |-> Union(TrieNode_Repr_LookupByString, TrieNode_Repr_Next,
        TrieNode_Repr_AssembleEntry, TrieNode_Repr_AssembleValue,
        TrieNode_Repr_AssignString)]

(* The members whose assembler the union's assembler holds by a pointer:   *)
(* Child and TrieNode contain each other.                                  *)
ByPointer == [Value |-> {}, TrieNode |-> {}, Child |-> {2}]
============================================================================
