---------------------------- MODULE ReprTables -----------------------------
(***************************************************************************)
(* The switches of the representations of the twelve structs (_X__Repr,    *)
(* _X__ReprMapItr and _X__ReprAssembler), as StructTables has those of the *)
(* types. The declaration and the bits are the same.                       *)
(***************************************************************************)
EXTENDS StructTables

----------------------------------------------------------------------------
(* _AccessElement__ReprAssembler *)

AccessElement_Repr_LookupByString == Rows(<<"Address", "StorageKeys">>, {})
AccessElement_Repr_Next == Rows(<<"Address", "StorageKeys">>, {})
AccessElement_Repr_valueFinishTidy == ReprTidy(2, <<>>)
AccessElement_Repr_AssembleEntry == Rows(<<"Address", "StorageKeys">>, {})
AccessElement_Repr_AssembleValue == Rows(<<"Address", "StorageKeys">>, {})
AccessElement_Repr_AssignString == <<"Address", "StorageKeys">>
----------------------------------------------------------------------------
(* _Account__ReprAssembler *)

Account_Repr_LookupByString == Rows(<<"Nonce", "Balance", "StorageRootCID",
        "CodeCID">>, {})
Account_Repr_Next == Rows(<<"Nonce", "Balance", "StorageRootCID",
        "CodeCID">>, {})
Account_Repr_valueFinishTidy == ReprTidy(4, <<>>)
Account_Repr_AssembleEntry == Rows(<<"Nonce", "Balance", "StorageRootCID",
        "CodeCID">>, {})
Account_Repr_AssembleValue == Rows(<<"Nonce", "Balance", "StorageRootCID",
        "CodeCID">>, {})
Account_Repr_AssignString == <<"Nonce", "Balance", "StorageRootCID",
        "CodeCID">>
----------------------------------------------------------------------------
(* _Block__ReprAssembler *)

Block_Repr_LookupByString == Rows(<<"Header", "Transactions", "Receipts">>,
        {})
Block_Repr_Next == Rows(<<"Header", "Transactions", "Receipts">>, {})
Block_Repr_valueFinishTidy == ReprTidy(3, <<>>)
Block_Repr_AssembleEntry == Rows(<<"Header", "Transactions", "Receipts">>,
        {})
Block_Repr_AssembleValue == Rows(<<"Header", "Transactions", "Receipts">>,
        {})
Block_Repr_AssignString == <<"Header", "Transactions", "Receipts">>
----------------------------------------------------------------------------
(* _Frame__ReprAssembler *)

Frame_Repr_LookupByString == Rows(<<"Op", "From", "To", "Input", "Output",
        "Gas", "Cost", "Value">>, {})
Frame_Repr_Next == Rows(<<"Op", "From", "To", "Input", "Output", "Gas",
        "Cost", "Value">>, {})
Frame_Repr_valueFinishTidy == ReprTidy(8, <<>>)
Frame_Repr_AssembleEntry == Rows(<<"Op", "From", "To", "Input", "Output",
        "Gas", "Cost", "Value">>, {})
Frame_Repr_AssembleValue == Rows(<<"Op", "From", "To", "Input", "Output",
        "Gas", "Cost", "Value">>, {})
Frame_Repr_AssignString == <<"Op", "From", "To", "Input", "Output", "Gas",
        "Cost", "Value">>
----------------------------------------------------------------------------
(* _Header__ReprAssembler *)

Header_Repr_LookupByString == Rows(<<"ParentCID", "UnclesCID", "Coinbase",
        "StateRootCID", "TxRootCID", "RctRootCID", "Bloom", "Difficulty",
        "Number", "GasLimit", "GasUsed", "Time", "Extra", "MixDigest",
        "Nonce", "BaseFee">>, {"BaseFee"})
Header_Repr_Next == Rows(<<"ParentCID", "UnclesCID", "Coinbase",
        "StateRootCID", "TxRootCID", "RctRootCID", "Bloom", "Difficulty",
        "Number", "GasLimit", "GasUsed", "Time", "Extra", "MixDigest",
        "Nonce", "BaseFee">>, {"BaseFee"})
Header_Repr_valueFinishTidy == ReprTidy(16, 15 :> "BaseFee")
Header_Repr_AssembleEntry == Rows(<<"ParentCID", "UnclesCID", "Coinbase",
        "StateRootCID", "TxRootCID", "RctRootCID", "Bloom", "Difficulty",
        "Number", "GasLimit", "GasUsed", "Time", "Extra", "MixDigest",
        "Nonce", "BaseFee">>, {"BaseFee"})
Header_Repr_AssembleValue == Rows(<<"ParentCID", "UnclesCID", "Coinbase",
        "StateRootCID", "TxRootCID", "RctRootCID", "Bloom", "Difficulty",
        "Number", "GasLimit", "GasUsed", "Time", "Extra", "MixDigest",
        "Nonce", "BaseFee">>, {"BaseFee"})
Header_Repr_AssignString == <<"ParentCID", "UnclesCID", "Coinbase",
        "StateRootCID", "TxRootCID", "RctRootCID", "Bloom", "Difficulty",
        "Number", "GasLimit", "GasUsed", "Time", "Extra", "MixDigest",
        "Nonce", "BaseFee">>
----------------------------------------------------------------------------
(* _Log__ReprAssembler *)

Log_Repr_LookupByString == Rows(<<"Address", "Topics", "Data">>, {})
Log_Repr_Next == Rows(<<"Address", "Topics", "Data">>, {})
Log_Repr_valueFinishTidy == ReprTidy(3, <<>>)
Log_Repr_AssembleEntry == Rows(<<"Address", "Topics", "Data">>, {})
Log_Repr_AssembleValue == Rows(<<"Address", "Topics", "Data">>, {})
Log_Repr_AssignString == <<"Address", "Topics", "Data">>
----------------------------------------------------------------------------
(* _Receipt__ReprAssembler *)

Receipt_Repr_LookupByString == Rows(<<"TxType", "PostState", "Status",
        "CumulativeGasUsed", "Bloom", "Logs", "LogRootCID">>, {"PostState",
        "Status"})
Receipt_Repr_Next == Rows(<<"TxType", "PostState", "Status",
        "CumulativeGasUsed", "Bloom", "Logs", "LogRootCID">>, {"PostState",
        "Status"})
Receipt_Repr_valueFinishTidy == ReprTidy(7, 1 :> "PostState" @@
        2 :> "Status")
Receipt_Repr_AssembleEntry == Rows(<<"TxType", "PostState", "Status",
        "CumulativeGasUsed", "Bloom", "Logs", "LogRootCID">>, {"PostState",
        "Status"})
Receipt_Repr_AssembleValue == Rows(<<"TxType", "PostState", "Status",
        "CumulativeGasUsed", "Bloom", "Logs", "LogRootCID">>, {"PostState",
        "Status"})
Receipt_Repr_AssignString == <<"TxType", "PostState", "Status",
        "CumulativeGasUsed", "Bloom", "Logs", "LogRootCID">>
----------------------------------------------------------------------------
(* _Transaction__ReprAssembler *)

Transaction_Repr_LookupByString == Rows(<<"TxType", "ChainID",
        "AccountNonce", "GasPrice", "GasTipCap", "GasFeeCap", "GasLimit",
        "Recipient", "Amount", "Data", "AccessList", "V", "R", "S">>,
        {"ChainID", "GasPrice", "GasTipCap", "GasFeeCap", "Recipient",
        "AccessList"})
Transaction_Repr_Next == Rows(<<"TxType", "ChainID", "AccountNonce",
        "GasPrice", "GasTipCap", "GasFeeCap", "GasLimit", "Recipient",
        "Amount", "Data", "AccessList", "V", "R", "S">>, {"ChainID",
        "GasPrice", "GasTipCap", "GasFeeCap", "Recipient", "AccessList"})
Transaction_Repr_valueFinishTidy == ReprTidy(14, 1 :> "ChainID" @@
        3 :> "GasPrice" @@ 4 :> "GasTipCap" @@ 5 :> "GasFeeCap" @@
        7 :> "Recipient" @@ 10 :> "AccessList")
Transaction_Repr_AssembleEntry == Rows(<<"TxType", "ChainID", "AccountNonce",
        "GasPrice", "GasTipCap", "GasFeeCap", "GasLimit", "Recipient",
        "Amount", "Data", "AccessList", "V", "R", "S">>, {"ChainID",
        "GasPrice", "GasTipCap", "GasFeeCap", "Recipient", "AccessList"})
Transaction_Repr_AssembleValue == Rows(<<"TxType", "ChainID", "AccountNonce",
        "GasPrice", "GasTipCap", "GasFeeCap", "GasLimit", "Recipient",
        "Amount", "Data", "AccessList", "V", "R", "S">>, {"ChainID",
        "GasPrice", "GasTipCap", "GasFeeCap", "Recipient", "AccessList"})
Transaction_Repr_AssignString == <<"TxType", "ChainID", "AccountNonce",
        "GasPrice", "GasTipCap", "GasFeeCap", "GasLimit", "Recipient",
        "Amount", "Data", "AccessList", "V", "R", "S">>
----------------------------------------------------------------------------
(* _TrieBranchNode__ReprAssembler *)

TrieBranchNode_Repr_LookupByString == Pointers(<<"Child0", "Child1",
        "Child2", "Child3", "Child4", "Child5", "Child6", "Child7", "Child8",
        "Child9", "ChildA", "ChildB", "ChildC", "ChildD", "ChildE", "ChildF",
        "Value">>)
TrieBranchNode_Repr_Next == Pointers(<<"Child0", "Child1", "Child2",
        "Child3", "Child4", "Child5", "Child6", "Child7", "Child8", "Child9",
        "ChildA", "ChildB", "ChildC", "ChildD", "ChildE", "ChildF",
        "Value">>)
TrieBranchNode_Repr_valueFinishTidy == TidyPointers(<<"Child0", "Child1",
        "Child2", "Child3", "Child4", "Child5", "Child6", "Child7", "Child8",
        "Child9", "ChildA", "ChildB", "ChildC", "ChildD", "ChildE", "ChildF",
        "Value">>)
TrieBranchNode_Repr_AssembleEntry == Pointers(<<"Child0", "Child1", "Child2",
        "Child3", "Child4", "Child5", "Child6", "Child7", "Child8", "Child9",
        "ChildA", "ChildB", "ChildC", "ChildD", "ChildE", "ChildF",
        "Value">>)
TrieBranchNode_Repr_AssembleValue == Pointers(<<"Child0", "Child1", "Child2",
        "Child3", "Child4", "Child5", "Child6", "Child7", "Child8", "Child9",
        "ChildA", "ChildB", "ChildC", "ChildD", "ChildE", "ChildF",
        "Value">>)
TrieBranchNode_Repr_AssignString == <<"Child0", "Child1", "Child2", "Child3",
        "Child4", "Child5", "Child6", "Child7", "Child8", "Child9", "ChildA",
        "ChildB", "ChildC", "ChildD", "ChildE", "ChildF", "Value">>
----------------------------------------------------------------------------
(* _TrieExtensionNode__ReprAssembler *)

TrieExtensionNode_Repr_LookupByString == Rows(<<"PartialPath", "Child">>,
        {})
TrieExtensionNode_Repr_Next == Rows(<<"PartialPath", "Child">>, {})
TrieExtensionNode_Repr_valueFinishTidy == ReprTidy(2, <<>>)
TrieExtensionNode_Repr_AssembleEntry == Rows(<<"PartialPath", "Child">>, {})
TrieExtensionNode_Repr_AssembleValue == Rows(<<"PartialPath", "Child">>, {})
TrieExtensionNode_Repr_AssignString == <<"PartialPath", "Child">>
----------------------------------------------------------------------------
(* _TrieLeafNode__ReprAssembler *)

TrieLeafNode_Repr_LookupByString == Rows(<<"PartialPath", "Value">>, {})
TrieLeafNode_Repr_Next == Rows(<<"PartialPath", "Value">>, {})
TrieLeafNode_Repr_valueFinishTidy == ReprTidy(2, <<>>)
TrieLeafNode_Repr_AssembleEntry == Rows(<<"PartialPath", "Value">>, {})
TrieLeafNode_Repr_AssembleValue == Rows(<<"PartialPath", "Value">>, {})
TrieLeafNode_Repr_AssignString == <<"PartialPath", "Value">>
----------------------------------------------------------------------------
(* _TxTrace__ReprAssembler *)

TxTrace_Repr_LookupByString == Rows(<<"TxCIDs", "StateRootCID", "Result",
        "Frames", "Gas", "Failed">>, {})
TxTrace_Repr_Next == Rows(<<"TxCIDs", "StateRootCID", "Result", "Frames",
        "Gas", "Failed">>, {})
TxTrace_Repr_valueFinishTidy == ReprTidy(6, <<>>)
TxTrace_Repr_AssembleEntry == Rows(<<"TxCIDs", "StateRootCID", "Result",
        "Frames", "Gas", "Failed">>, {})
TxTrace_Repr_AssembleValue == Rows(<<"TxCIDs", "StateRootCID", "Result",
        "Frames", "Gas", "Failed">>, {})
TxTrace_Repr_AssignString == <<"TxCIDs", "StateRootCID", "Result", "Frames",
        "Gas", "Failed">>
----------------------------------------------------------------------------
(* The tables of each struct, for the builders of the representations. *)
RepresentationTables == [
    AccessElement |-> Assembler(AccessElement_struct, AccessElement_fieldBit,
        AccessElement_Repr_LookupByString, AccessElement_Repr_Next,
        AccessElement_Repr_valueFinishTidy, AccessElement_Repr_AssembleEntry,
        AccessElement_Repr_AssembleValue, AccessElement_Repr_AssignString),
    Account |-> Assembler(Account_struct, Account_fieldBit,
        Account_Repr_LookupByString, Account_Repr_Next,
        Account_Repr_valueFinishTidy, Account_Repr_AssembleEntry,
        Account_Repr_AssembleValue, Account_Repr_AssignString),
    Block |-> Assembler(Block_struct, Block_fieldBit,
        Block_Repr_LookupByString, Block_Repr_Next,
        Block_Repr_valueFinishTidy, Block_Repr_AssembleEntry,
        Block_Repr_AssembleValue, Block_Repr_AssignString),
    Frame |-> Assembler(Frame_struct, Frame_fieldBit,
        Frame_Repr_LookupByString, Frame_Repr_Next,
        Frame_Repr_valueFinishTidy, Frame_Repr_AssembleEntry,
        Frame_Repr_AssembleValue, Frame_Repr_AssignString),
    Header |-> Assembler(Header_struct, Header_fieldBit,
        Header_Repr_LookupByString, Header_Repr_Next,
        Header_Repr_valueFinishTidy, Header_Repr_AssembleEntry,
        Header_Repr_AssembleValue, Header_Repr_AssignString),
    Log |-> Assembler(Log_struct, Log_fieldBit, Log_Repr_LookupByString,
        Log_Repr_Next, Log_Repr_valueFinishTidy, Log_Repr_AssembleEntry,
        Log_Repr_AssembleValue, Log_Repr_AssignString),
    Receipt |-> Assembler(Receipt_struct, Receipt_fieldBit,
        Receipt_Repr_LookupByString, Receipt_Repr_Next,
        Receipt_Repr_valueFinishTidy, Receipt_Repr_AssembleEntry,
        Receipt_Repr_AssembleValue, Receipt_Repr_AssignString),
    Transaction |-> Assembler(Transaction_struct, Transaction_fieldBit,
        Transaction_Repr_LookupByString, Transaction_Repr_Next,
        Transaction_Repr_valueFinishTidy, Transaction_Repr_AssembleEntry,
        Transaction_Repr_AssembleValue, Transaction_Repr_AssignString),
    TrieBranchNode |-> Assembler(TrieBranchNode_struct,
        TrieBranchNode_fieldBit, TrieBranchNode_Repr_LookupByString,
        TrieBranchNode_Repr_Next, TrieBranchNode_Repr_valueFinishTidy,
        TrieBranchNode_Repr_AssembleEntry, TrieBranchNode_Repr_AssembleValue,
        TrieBranchNode_Repr_AssignString),
    TrieExtensionNode |-> Assembler(TrieExtensionNode_struct,
        TrieExtensionNode_fieldBit, TrieExtensionNode_Repr_LookupByString,
        TrieExtensionNode_Repr_Next, TrieExtensionNode_Repr_valueFinishTidy,
        TrieExtensionNode_Repr_AssembleEntry,
        TrieExtensionNode_Repr_AssembleValue,
        TrieExtensionNode_Repr_AssignString),
    TrieLeafNode |-> Assembler(TrieLeafNode_struct, TrieLeafNode_fieldBit,
        TrieLeafNode_Repr_LookupByString, TrieLeafNode_Repr_Next,
        TrieLeafNode_Repr_valueFinishTidy, TrieLeafNode_Repr_AssembleEntry,
        TrieLeafNode_Repr_AssembleValue, TrieLeafNode_Repr_AssignString),
    TxTrace |-> Assembler(TxTrace_struct, TxTrace_fieldBit,
        TxTrace_Repr_LookupByString, TxTrace_Repr_Next,
        TxTrace_Repr_valueFinishTidy, TxTrace_Repr_AssembleEntry,
        TxTrace_Repr_AssembleValue, TxTrace_Repr_AssignString)
]
============================================================================
