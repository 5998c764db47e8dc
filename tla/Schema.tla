------------------------------ MODULE Schema -------------------------------
(***************************************************************************)
(* The schema of the dageth types, as gen.go spawns it for the generator   *)
(* of ipldsch_types.go and ipldsch_satisfaction.go: the fields of each     *)
(* struct in order, the kind of each scalar type, the elements of each     *)
(* list and the members of each union with their discriminants.            *)
(***************************************************************************)
EXTENDS FieldRows

AccessElement_schema == <<Plain("Address", "Address"),
        Plain("StorageKeys", "StorageKeys")>>
Account_schema == <<Plain("Nonce", "Uint"), Plain("Balance", "Balance"),
        Plain("StorageRootCID", "Link"), Plain("CodeCID", "Link")>>
Block_schema == <<Plain("HeaderCID", "Link"),
        Plain("TransactionsCID", "Link"), Plain("ReceiptsCID", "Link")>>
Frame_schema == <<Plain("Op", "OpCode"), Plain("From", "Address"),
        Plain("To", "Address"), Plain("Input", "Bytes"),
        Plain("Output", "Bytes"), Plain("Gas", "Uint"),
        Plain("Cost", "Uint"), Plain("Value", "BigInt")>>
Header_schema == <<Plain("ParentCID", "Link"), Plain("UnclesCID", "Link"),
        Plain("Coinbase", "Address"), Plain("StateRootCID", "Link"),
        Plain("TxRootCID", "Link"), Plain("RctRootCID", "Link"),
        Plain("Bloom", "Bloom"), Plain("Difficulty", "BigInt"),
        Plain("Number", "BigInt"), Plain("GasLimit", "Uint"),
        Plain("GasUsed", "Uint"), Plain("Time", "Time"),
        Plain("Extra", "Bytes"), Plain("MixDigest", "Hash"),
        Plain("Nonce", "Uint"), Maybe("BaseFee", "BigInt")>>
Log_schema == <<Plain("Address", "Address"), Plain("Topics", "Topics"),
        Plain("Data", "Bytes")>>
Receipt_schema == <<Plain("TxType", "TxType"), Maybe("PostState", "Bytes"),
        Maybe("Status", "Uint"), Plain("CumulativeGasUsed", "Uint"),
        Plain("Bloom", "Bloom"), Plain("Logs", "Logs"),
        Plain("LogRootCID", "Link")>>
Transaction_schema == <<Plain("TxType", "TxType"),
        Maybe("ChainID", "BigInt"), Plain("AccountNonce", "Uint"),
        Maybe("GasPrice", "BigInt"), Maybe("GasTipCap", "BigInt"),
        Maybe("GasFeeCap", "BigInt"), Plain("GasLimit", "Uint"),
        Maybe("Recipient", "Address"), Plain("Amount", "BigInt"),
        Plain("Data", "Bytes"), Maybe("AccessList", "AccessList"),
        Plain("V", "BigInt"), Plain("R", "BigInt"), Plain("S", "BigInt")>>
TrieBranchNode_schema == <<Maybe("Child0", "Child"),
        Maybe("Child1", "Child"), Maybe("Child2", "Child"),
        Maybe("Child3", "Child"), Maybe("Child4", "Child"),
        Maybe("Child5", "Child"), Maybe("Child6", "Child"),
        Maybe("Child7", "Child"), Maybe("Child8", "Child"),
        Maybe("Child9", "Child"), Maybe("ChildA", "Child"),
        Maybe("ChildB", "Child"), Maybe("ChildC", "Child"),
        Maybe("ChildD", "Child"), Maybe("ChildE", "Child"),
        Maybe("ChildF", "Child"), Maybe("Value", "Value")>>
TrieExtensionNode_schema == <<Plain("PartialPath", "Bytes"),
        Plain("Child", "Link")>>
TrieLeafNode_schema == <<Plain("PartialPath", "Bytes"),
        Plain("Value", "Value")>>
TxTrace_schema == <<Plain("TxCIDs", "TxCIDList"),
        Plain("StateRootCID", "Link"), Plain("Result", "Bytes"),
        Plain("Frames", "FrameList"), Plain("Gas", "Uint"),
        Plain("Failed", "Bool")>>

Structs == [AccessElement |-> AccessElement_schema, Account |-> Account_schema,
    Block |-> Block_schema, Frame |-> Frame_schema, Header |-> Header_schema,
    Log |-> Log_schema, Receipt |-> Receipt_schema,
    Transaction |-> Transaction_schema,
    TrieBranchNode |-> TrieBranchNode_schema,
    TrieExtensionNode |-> TrieExtensionNode_schema,
    TrieLeafNode |-> TrieLeafNode_schema, TxTrace |-> TxTrace_schema]

(* The kind of each scalar type. *)
ScalarKind == [t \in {"Bytes", "BigInt", "Uint", "Hash", "Address", "Bloom",
        "Balance", "OpCode", "Time", "TxType", "ByteCode"} |-> "bytes"]
    @@ ("Link" :> "link" @@ "String" :> "string" @@ "Bool" :> "bool")

(* The type of each list's elements; none may be null. *)
ListElement == [Uncles |-> "Header", StorageKeys |-> "Hash",
    AccessList |-> "AccessElement", Transactions |-> "Transaction",
    Topics |-> "Hash", Logs |-> "Log", Receipts |-> "Receipt",
    TxCIDList |-> "Link", FrameList |-> "Frame"]

(* The members of each union in order, each with its discriminant: a key   *)
(* of the keyed representation, or the kind that stands for the member.    *)
Member(t, d) == [type |-> t, repr |-> d]
Value_members == <<Member("Transaction", "tx"), Member("Receipt", "rct"),
    Member("Account", "state"), Member("Bytes", "storage"),
    Member("Log", "log")>>
Child_members == <<Member("Link", "link"), Member("TrieNode", "map")>>
TrieNode_members == <<Member("TrieBranchNode", "branch"),
    Member("TrieExtensionNode", "extension"), Member("TrieLeafNode", "leaf")>>
Unions == [Value |-> Value_members, Child |-> Child_members,
    TrieNode |-> TrieNode_members]

(* The kind of a value of type t: what a caller passes for it. *)
Kind(t) == IF t \in DOMAIN ScalarKind THEN ScalarKind[t]
           ELSE IF t \in DOMAIN ListElement THEN "list" ELSE "map"
============================================================================
