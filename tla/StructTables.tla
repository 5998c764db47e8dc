--------------------------- MODULE StructTables ----------------------------
(***************************************************************************)
(* What ipldsch_types.go and ipldsch_satisfaction.go hold of the twelve    *)
(* structs: the declaration of the struct, the bits of its fields, and the *)
(* cases of each switch of its readers and of its assembler, in the order  *)
(* of the code.                                                            *)
(*                                                                         *)
(* Every table is read from its own switch, the same fields over and over  *)
(* as in the code, so that a case that is missing, out of place or about   *)
(* another field would show: GeneratedStruct runs the assembler on them.   *)
(***************************************************************************)
EXTENDS FieldRows

----------------------------------------------------------------------------
(* _AccessElement__Assembler *)

AccessElement_struct == <<Plain("Address", "Address"),
        Plain("StorageKeys", "StorageKeys")>>
AccessElement_fieldBit == <<"Address", "StorageKeys">>
AccessElement_LookupByString == Rows(<<"Address", "StorageKeys">>, {})
AccessElement_Next == Rows(<<"Address", "StorageKeys">>, {})
AccessElement_valueFinishTidy == Tidy(<<"Address", "StorageKeys">>, {})
AccessElement_AssembleEntry == Rows(<<"Address", "StorageKeys">>, {})
AccessElement_AssembleValue == Rows(<<"Address", "StorageKeys">>, {})
AccessElement_AssignString == <<"Address", "StorageKeys">>
----------------------------------------------------------------------------
(* _Account__Assembler *)

Account_struct == <<Plain("Nonce", "Uint"), Plain("Balance", "Balance"),
        Plain("StorageRootCID", "Link"), Plain("CodeCID", "Link")>>
Account_fieldBit == <<"Nonce", "Balance", "StorageRootCID", "CodeCID">>
Account_LookupByString == Rows(<<"Nonce", "Balance", "StorageRootCID",
        "CodeCID">>, {})
Account_Next == Rows(<<"Nonce", "Balance", "StorageRootCID", "CodeCID">>,
        {})
Account_valueFinishTidy == Tidy(<<"Nonce", "Balance", "StorageRootCID",
        "CodeCID">>, {})
Account_AssembleEntry == Rows(<<"Nonce", "Balance", "StorageRootCID",
        "CodeCID">>, {})
Account_AssembleValue == Rows(<<"Nonce", "Balance", "StorageRootCID",
        "CodeCID">>, {})
Account_AssignString == <<"Nonce", "Balance", "StorageRootCID", "CodeCID">>
----------------------------------------------------------------------------
(* _Block__Assembler *)

Block_struct == <<Plain("Header", "Link"), Plain("Transactions", "Link"),
        Plain("Receipts", "Link")>>
Block_fieldBit == <<"Header", "Transactions", "Receipts">>
Block_LookupByString == Rows(<<"Header", "Transactions", "Receipts">>, {})
Block_Next == Rows(<<"Header", "Transactions", "Receipts">>, {})
Block_valueFinishTidy == Tidy(<<"Header", "Transactions", "Receipts">>, {})
Block_AssembleEntry == Rows(<<"Header", "Transactions", "Receipts">>, {})
Block_AssembleValue == Rows(<<"Header", "Transactions", "Receipts">>, {})
Block_AssignString == <<"Header", "Transactions", "Receipts">>
----------------------------------------------------------------------------
(* _Frame__Assembler *)

Frame_struct == <<Plain("Op", "OpCode"), Plain("From", "Address"),
        Plain("To", "Address"), Plain("Input", "Bytes"),
        Plain("Output", "Bytes"), Plain("Gas", "Uint"),
        Plain("Cost", "Uint"), Plain("Value", "BigInt")>>
Frame_fieldBit == <<"Op", "From", "To", "Input", "Output", "Gas", "Cost",
        "Value">>
Frame_LookupByString == Rows(<<"Op", "From", "To", "Input", "Output", "Gas",
        "Cost", "Value">>, {})
Frame_Next == Rows(<<"Op", "From", "To", "Input", "Output", "Gas", "Cost",
        "Value">>, {})
Frame_valueFinishTidy == Tidy(<<"Op", "From", "To", "Input", "Output", "Gas",
        "Cost", "Value">>, {})
Frame_AssembleEntry == Rows(<<"Op", "From", "To", "Input", "Output", "Gas",
        "Cost", "Value">>, {})
Frame_AssembleValue == Rows(<<"Op", "From", "To", "Input", "Output", "Gas",
        "Cost", "Value">>, {})
Frame_AssignString == <<"Op", "From", "To", "Input", "Output", "Gas", "Cost",
        "Value">>
----------------------------------------------------------------------------
(* _Header__Assembler *)

Header_struct == <<Plain("ParentCID", "Link"), Plain("UnclesCID", "Link"),
        Plain("Coinbase", "Address"), Plain("StateRootCID", "Link"),
        Plain("TxRootCID", "Link"), Plain("RctRootCID", "Link"),
        Plain("Bloom", "Bloom"), Plain("Difficulty", "BigInt"),
        Plain("Number", "BigInt"), Plain("GasLimit", "Uint"),
        Plain("GasUsed", "Uint"), Plain("Time", "Time"),
        Plain("Extra", "Bytes"), Plain("MixDigest", "Hash"),
        Plain("Nonce", "Uint"), Maybe("BaseFee", "BigInt")>>
Header_fieldBit == <<"ParentCID", "UnclesCID", "Coinbase", "StateRootCID",
        "TxRootCID", "RctRootCID", "Bloom", "Difficulty", "Number",
        "GasLimit", "GasUsed", "Time", "Extra", "MixDigest", "Nonce",
        "BaseFee">>
Header_LookupByString == Rows(<<"ParentCID", "UnclesCID", "Coinbase",
        "StateRootCID", "TxRootCID", "RctRootCID", "Bloom", "Difficulty",
        "Number", "GasLimit", "GasUsed", "Time", "Extra", "MixDigest",
        "Nonce", "BaseFee">>, {"BaseFee"})
Header_Next == Rows(<<"ParentCID", "UnclesCID", "Coinbase", "StateRootCID",
        "TxRootCID", "RctRootCID", "Bloom", "Difficulty", "Number",
        "GasLimit", "GasUsed", "Time", "Extra", "MixDigest", "Nonce",
        "BaseFee">>, {"BaseFee"})
Header_valueFinishTidy == Tidy(<<"ParentCID", "UnclesCID", "Coinbase",
        "StateRootCID", "TxRootCID", "RctRootCID", "Bloom", "Difficulty",
        "Number", "GasLimit", "GasUsed", "Time", "Extra", "MixDigest",
        "Nonce", "BaseFee">>, {"BaseFee"})
Header_AssembleEntry == Rows(<<"ParentCID", "UnclesCID", "Coinbase",
        "StateRootCID", "TxRootCID", "RctRootCID", "Bloom", "Difficulty",
        "Number", "GasLimit", "GasUsed", "Time", "Extra", "MixDigest",
        "Nonce", "BaseFee">>, {"BaseFee"})
Header_AssembleValue == Rows(<<"ParentCID", "UnclesCID", "Coinbase",
        "StateRootCID", "TxRootCID", "RctRootCID", "Bloom", "Difficulty",
        "Number", "GasLimit", "GasUsed", "Time", "Extra", "MixDigest",
        "Nonce", "BaseFee">>, {"BaseFee"})
Header_AssignString == <<"ParentCID", "UnclesCID", "Coinbase",
        "StateRootCID", "TxRootCID", "RctRootCID", "Bloom", "Difficulty",
        "Number", "GasLimit", "GasUsed", "Time", "Extra", "MixDigest",
        "Nonce", "BaseFee">>
----------------------------------------------------------------------------
(* _Log__Assembler *)

Log_struct == <<Plain("Address", "Address"), Plain("Topics", "Topics"),
        Plain("Data", "Bytes")>>
Log_fieldBit == <<"Address", "Topics", "Data">>
Log_LookupByString == Rows(<<"Address", "Topics", "Data">>, {})
(* Mutant: the iterator has two fields in each other's place. *)
Log_NextSwapped == Rows(<<"Topics", "Address", "Data">>, {})
Log_Next == Rows(<<"Address", "Topics", "Data">>, {})
Log_valueFinishTidy == Tidy(<<"Address", "Topics", "Data">>, {})
Log_AssembleEntry == Rows(<<"Address", "Topics", "Data">>, {})
Log_AssembleValue == Rows(<<"Address", "Topics", "Data">>, {})
(* Mutant: the key assembler lacks the case of a field. *)
Log_AssignStringWithoutData == <<"Address", "Topics">>
Log_AssignString == <<"Address", "Topics", "Data">>
----------------------------------------------------------------------------
(* _Receipt__Assembler *)

Receipt_struct == <<Plain("TxType", "TxType"), Maybe("PostState", "Bytes"),
        Maybe("Status", "Uint"), Plain("CumulativeGasUsed", "Uint"),
        Plain("Bloom", "Bloom"), Plain("Logs", "Logs"),
        Plain("LogRootCID", "Link")>>
Receipt_fieldBit == <<"TxType", "PostState", "Status", "CumulativeGasUsed",
        "Bloom", "Logs", "LogRootCID">>
Receipt_LookupByString == Rows(<<"TxType", "PostState", "Status",
        "CumulativeGasUsed", "Bloom", "Logs", "LogRootCID">>, {"PostState",
        "Status"})
Receipt_Next == Rows(<<"TxType", "PostState", "Status", "CumulativeGasUsed",
        "Bloom", "Logs", "LogRootCID">>, {"PostState", "Status"})
Receipt_valueFinishTidy == Tidy(<<"TxType", "PostState", "Status",
        "CumulativeGasUsed", "Bloom", "Logs", "LogRootCID">>, {"PostState",
        "Status"})
Receipt_AssembleEntry == Rows(<<"TxType", "PostState", "Status",
        "CumulativeGasUsed", "Bloom", "Logs", "LogRootCID">>, {"PostState",
        "Status"})
Receipt_AssembleValue == Rows(<<"TxType", "PostState", "Status",
        "CumulativeGasUsed", "Bloom", "Logs", "LogRootCID">>, {"PostState",
        "Status"})
Receipt_AssignString == <<"TxType", "PostState", "Status",
        "CumulativeGasUsed", "Bloom", "Logs", "LogRootCID">>
----------------------------------------------------------------------------
(* _Transaction__Assembler *)

Transaction_struct == <<Plain("TxType", "TxType"),
        Maybe("ChainID", "BigInt"), Plain("AccountNonce", "Uint"),
        Maybe("GasPrice", "BigInt"), Maybe("GasTipCap", "BigInt"),
        Maybe("GasFeeCap", "BigInt"), Plain("GasLimit", "Uint"),
        Maybe("Recipient", "Address"), Plain("Amount", "BigInt"),
        Plain("Data", "Bytes"), Maybe("AccessList", "AccessList"),
        Plain("V", "BigInt"), Plain("R", "BigInt"), Plain("S", "BigInt")>>
Transaction_fieldBit == <<"TxType", "ChainID", "AccountNonce", "GasPrice",
        "GasTipCap", "GasFeeCap", "GasLimit", "Recipient", "Amount", "Data",
        "AccessList", "V", "R", "S">>
Transaction_LookupByString == Rows(<<"TxType", "ChainID", "AccountNonce",
        "GasPrice", "GasTipCap", "GasFeeCap", "GasLimit", "Recipient",
        "Amount", "Data", "AccessList", "V", "R", "S">>, {"ChainID",
        "GasPrice", "GasTipCap", "GasFeeCap", "Recipient", "AccessList"})
Transaction_Next == Rows(<<"TxType", "ChainID", "AccountNonce", "GasPrice",
        "GasTipCap", "GasFeeCap", "GasLimit", "Recipient", "Amount", "Data",
        "AccessList", "V", "R", "S">>, {"ChainID", "GasPrice", "GasTipCap",
        "GasFeeCap", "Recipient", "AccessList"})
Transaction_valueFinishTidy == Tidy(<<"TxType", "ChainID", "AccountNonce",
        "GasPrice", "GasTipCap", "GasFeeCap", "GasLimit", "Recipient",
        "Amount", "Data", "AccessList", "V", "R", "S">>, {"ChainID",
        "GasPrice", "GasTipCap", "GasFeeCap", "Recipient", "AccessList"})
Transaction_AssembleEntry == Rows(<<"TxType", "ChainID", "AccountNonce",
        "GasPrice", "GasTipCap", "GasFeeCap", "GasLimit", "Recipient",
        "Amount", "Data", "AccessList", "V", "R", "S">>, {"ChainID",
        "GasPrice", "GasTipCap", "GasFeeCap", "Recipient", "AccessList"})
Transaction_AssembleValue == Rows(<<"TxType", "ChainID", "AccountNonce",
        "GasPrice", "GasTipCap", "GasFeeCap", "GasLimit", "Recipient",
        "Amount", "Data", "AccessList", "V", "R", "S">>, {"ChainID",
        "GasPrice", "GasTipCap", "GasFeeCap", "Recipient", "AccessList"})
Transaction_AssignString == <<"TxType", "ChainID", "AccountNonce",
        "GasPrice", "GasTipCap", "GasFeeCap", "GasLimit", "Recipient",
        "Amount", "Data", "AccessList", "V", "R", "S">>
----------------------------------------------------------------------------
(* _TrieBranchNode__Assembler *)

TrieBranchNode_struct == <<Maybe("Child0", "Child"),
        Maybe("Child1", "Child"), Maybe("Child2", "Child"),
        Maybe("Child3", "Child"), Maybe("Child4", "Child"),
        Maybe("Child5", "Child"), Maybe("Child6", "Child"),
        Maybe("Child7", "Child"), Maybe("Child8", "Child"),
        Maybe("Child9", "Child"), Maybe("ChildA", "Child"),
        Maybe("ChildB", "Child"), Maybe("ChildC", "Child"),
        Maybe("ChildD", "Child"), Maybe("ChildE", "Child"),
        Maybe("ChildF", "Child"), Maybe("Value", "Value")>>
TrieBranchNode_fieldBit == <<"Child0", "Child1", "Child2", "Child3",
        "Child4", "Child5", "Child6", "Child7", "Child8", "Child9", "ChildA",
        "ChildB", "ChildC", "ChildD", "ChildE", "ChildF", "Value">>
TrieBranchNode_LookupByString == Pointers(<<"Child0", "Child1", "Child2",
        "Child3", "Child4", "Child5", "Child6", "Child7", "Child8", "Child9",
        "ChildA", "ChildB", "ChildC", "ChildD", "ChildE", "ChildF",
        "Value">>)
TrieBranchNode_Next == Pointers(<<"Child0", "Child1", "Child2", "Child3",
        "Child4", "Child5", "Child6", "Child7", "Child8", "Child9", "ChildA",
        "ChildB", "ChildC", "ChildD", "ChildE", "ChildF", "Value">>)
TrieBranchNode_valueFinishTidy == TidyPointers(<<"Child0", "Child1",
        "Child2", "Child3", "Child4", "Child5", "Child6", "Child7", "Child8",
        "Child9", "ChildA", "ChildB", "ChildC", "ChildD", "ChildE", "ChildF",
        "Value">>)
TrieBranchNode_AssembleEntry == Pointers(<<"Child0", "Child1", "Child2",
        "Child3", "Child4", "Child5", "Child6", "Child7", "Child8", "Child9",
        "ChildA", "ChildB", "ChildC", "ChildD", "ChildE", "ChildF",
        "Value">>)
TrieBranchNode_AssembleValue == Pointers(<<"Child0", "Child1", "Child2",
        "Child3", "Child4", "Child5", "Child6", "Child7", "Child8", "Child9",
        "ChildA", "ChildB", "ChildC", "ChildD", "ChildE", "ChildF",
        "Value">>)
TrieBranchNode_AssignString == <<"Child0", "Child1", "Child2", "Child3",
        "Child4", "Child5", "Child6", "Child7", "Child8", "Child9", "ChildA",
        "ChildB", "ChildC", "ChildD", "ChildE", "ChildF", "Value">>
----------------------------------------------------------------------------
(* _TrieExtensionNode__Assembler *)

TrieExtensionNode_struct == <<Plain("PartialPath", "Bytes"),
        Plain("Child", "Link")>>
TrieExtensionNode_fieldBit == <<"PartialPath", "Child">>
TrieExtensionNode_LookupByString == Rows(<<"PartialPath", "Child">>, {})
TrieExtensionNode_Next == Rows(<<"PartialPath", "Child">>, {})
TrieExtensionNode_valueFinishTidy == Tidy(<<"PartialPath", "Child">>, {})
TrieExtensionNode_AssembleEntry == Rows(<<"PartialPath", "Child">>, {})
TrieExtensionNode_AssembleValue == Rows(<<"PartialPath", "Child">>, {})
TrieExtensionNode_AssignString == <<"PartialPath", "Child">>
----------------------------------------------------------------------------
(* _TrieLeafNode__Assembler *)

TrieLeafNode_struct == <<Plain("PartialPath", "Bytes"),
        Plain("Value", "Value")>>
TrieLeafNode_fieldBit == <<"PartialPath", "Value">>
TrieLeafNode_LookupByString == Rows(<<"PartialPath", "Value">>, {})
TrieLeafNode_Next == Rows(<<"PartialPath", "Value">>, {})
TrieLeafNode_valueFinishTidy == Tidy(<<"PartialPath", "Value">>, {})
TrieLeafNode_AssembleEntry == Rows(<<"PartialPath", "Value">>, {})
TrieLeafNode_AssembleValue == Rows(<<"PartialPath", "Value">>, {})
TrieLeafNode_AssignString == <<"PartialPath", "Value">>
----------------------------------------------------------------------------
(* _TxTrace__Assembler *)

TxTrace_struct == <<Plain("TxCIDs", "TxCIDList"),
        Plain("StateRootCID", "Link"), Plain("Result", "Bytes"),
        Plain("Frames", "FrameList"), Plain("Gas", "Uint"),
        Plain("Failed", "Bool")>>
TxTrace_fieldBit == <<"TxCIDs", "StateRootCID", "Result", "Frames", "Gas",
        "Failed">>
TxTrace_LookupByString == Rows(<<"TxCIDs", "StateRootCID", "Result",
        "Frames", "Gas", "Failed">>, {})
TxTrace_Next == Rows(<<"TxCIDs", "StateRootCID", "Result", "Frames", "Gas",
        "Failed">>, {})
TxTrace_valueFinishTidy == Tidy(<<"TxCIDs", "StateRootCID", "Result",
        "Frames", "Gas", "Failed">>, {})
TxTrace_AssembleEntry == Rows(<<"TxCIDs", "StateRootCID", "Result", "Frames",
        "Gas", "Failed">>, {})
TxTrace_AssembleValue == Rows(<<"TxCIDs", "StateRootCID", "Result", "Frames",
        "Gas", "Failed">>, {})
TxTrace_AssignString == <<"TxCIDs", "StateRootCID", "Result", "Frames",
        "Gas", "Failed">>
----------------------------------------------------------------------------
(* The tables of each struct, for the builders of the types. *)
TypeTables == [
    AccessElement |-> Assembler(AccessElement_struct, AccessElement_fieldBit,
        AccessElement_LookupByString, AccessElement_Next,
        AccessElement_valueFinishTidy, AccessElement_AssembleEntry,
        AccessElement_AssembleValue, AccessElement_AssignString),
    Account |-> Assembler(Account_struct, Account_fieldBit,
        Account_LookupByString, Account_Next, Account_valueFinishTidy,
        Account_AssembleEntry, Account_AssembleValue, Account_AssignString),
    Block |-> Assembler(Block_struct, Block_fieldBit, Block_LookupByString,
        Block_Next, Block_valueFinishTidy, Block_AssembleEntry,
        Block_AssembleValue, Block_AssignString),
    Frame |-> Assembler(Frame_struct, Frame_fieldBit, Frame_LookupByString,
        Frame_Next, Frame_valueFinishTidy, Frame_AssembleEntry,
        Frame_AssembleValue, Frame_AssignString),
    Header |-> Assembler(Header_struct, Header_fieldBit,
        Header_LookupByString, Header_Next, Header_valueFinishTidy,
        Header_AssembleEntry, Header_AssembleValue, Header_AssignString),
    Log |-> Assembler(Log_struct, Log_fieldBit, Log_LookupByString, Log_Next,
        Log_valueFinishTidy, Log_AssembleEntry, Log_AssembleValue,
        Log_AssignString),
    Receipt |-> Assembler(Receipt_struct, Receipt_fieldBit,
        Receipt_LookupByString, Receipt_Next, Receipt_valueFinishTidy,
        Receipt_AssembleEntry, Receipt_AssembleValue, Receipt_AssignString),
    Transaction |-> Assembler(Transaction_struct, Transaction_fieldBit,
        Transaction_LookupByString, Transaction_Next,
        Transaction_valueFinishTidy, Transaction_AssembleEntry,
        Transaction_AssembleValue, Transaction_AssignString),
    TrieBranchNode |-> Assembler(TrieBranchNode_struct,
        TrieBranchNode_fieldBit, TrieBranchNode_LookupByString,
        TrieBranchNode_Next, TrieBranchNode_valueFinishTidy,
        TrieBranchNode_AssembleEntry, TrieBranchNode_AssembleValue,
        TrieBranchNode_AssignString),
    TrieExtensionNode |-> Assembler(TrieExtensionNode_struct,
        TrieExtensionNode_fieldBit, TrieExtensionNode_LookupByString,
        TrieExtensionNode_Next, TrieExtensionNode_valueFinishTidy,
        TrieExtensionNode_AssembleEntry, TrieExtensionNode_AssembleValue,
        TrieExtensionNode_AssignString),
    TrieLeafNode |-> Assembler(TrieLeafNode_struct, TrieLeafNode_fieldBit,
        TrieLeafNode_LookupByString, TrieLeafNode_Next,
        TrieLeafNode_valueFinishTidy, TrieLeafNode_AssembleEntry,
        TrieLeafNode_AssembleValue, TrieLeafNode_AssignString),
    TxTrace |-> Assembler(TxTrace_struct, TxTrace_fieldBit,
        TxTrace_LookupByString, TxTrace_Next, TxTrace_valueFinishTidy,
        TxTrace_AssembleEntry, TxTrace_AssembleValue, TxTrace_AssignString)
]
============================================================================
