----------------------- MODULE StructAssemblerProofs -----------------------
(***************************************************************************)
(* Proofs about StructAssembler, for structs with any fields.              *)
(*                                                                         *)
(* They hold for every assembler as long as the caller lets go of a child  *)
(* assembler when its entry is over, and for the assembler of the type     *)
(* whatever the caller does if no field is a union, a struct or a list     *)
(* (Protected); without that they are false, as MCStructAssembler shows    *)
(* when its constants are set so.                                          *)
(*                                                                         *)
(* The properties of the assembler are not inductive: why a stale handle   *)
(* cannot reach the node depends on which child pointers are set when.     *)
(* IInv says how the flags, the pointers and the fields hang together.     *)
(*                                                                         *)
(* The second part is about AssignNode of a foreign node (StructAssign).   *)
(***************************************************************************)
EXTENDS StructAssign, FiniteSetTheorems, TLAPS

Plain == Fields \ Nullable

(* No handle the caller still has reaches a field whose entry is over, nor *)
(* the shared Maybe.                                                       *)
Protected == ~KeepStale \/ (Level = "type" /\ Composite = {})

(* Without a MapAssembler in the caller's hands there is no entry begun;   *)
(* with one, the node is under assembly until Finish.                      *)
HandleInv ==
    /\ ~begun => state = "initial" /\ s = {} /\ m # "midvalue"
    /\ begun => m # "Absent"
    /\ begun /\ m = "Value" => state = "finished"
    /\ state = "finished" => m = "Value" /\ s = Fields

(* The current entry: its key is recorded, its child bound; of the child   *)
(* assemblers the caller has, only that of the current entry points into   *)
(* the node, the nullable ones apart, and only the current entry uses the  *)
(* shared Maybe.                                                           *)
EntryInv ==
    /\ state \in {"expectValue", "midValue"} => f \in s
    /\ state = "midValue" => f \in caw
    /\ state = "expectValue" => f \notin cam
    /\ cam \subseteq s
    /\ \A k \in caw \cap held \cap Plain : state = "midValue" /\ f = k
    /\ KeepStale \/ \A k \in held : state = "midValue" /\ f = k
    /\ cm = "Value" => state = "midValue" /\ f \in Plain

(* A nullable field's own Maybe follows its entry. *)
NullableInv == \A n \in Nullable :
    /\ wm[n] = "allowNull" => state = "midValue" /\ f = n
    /\ m # "Value" /\ n \notin s => wm[n] = "Absent"
    /\ n \in s /\ wm[n] = "Absent" => state = "expectValue" /\ f = n
    /\ wm[n] = "Value" => wv[n] \in Values
    /\ state = "expectValue" /\ f = n => wm[n] = "Absent"

(* A plain field has its value once its entry is over. *)
PlainInv == \A k \in Plain \cap s :
    \/ wv[k] \in Values
    \/ /\ f = k
       /\ state = "expectValue" \/ (state = "midValue" /\ cm = "Absent")

IInv == TypeOK /\ HandleInv /\ EntryInv /\ NullableInv /\ PlainInv
        /\ BuiltNodeComplete

USE SchemaAssumption

LEMMA InitIInv == Init => IInv
<1> SUFFICES ASSUME Init PROVE IInv
  OBVIOUS
<1> USE DEF Init
<1>1. TypeOK
  BY DEF TypeOK, NoneSeen, Out
<1>2. HandleInv /\ EntryInv /\ PlainInv /\ BuiltNodeComplete
  BY DEF HandleInv, EntryInv, PlainInv, BuiltNodeComplete
<1>3. NullableInv
  BY DEF NullableInv, NoneSeen
<1> QED
  BY <1>1, <1>2, <1>3 DEF IInv

(* A refused call changes nothing but ret. *)
LEMMA RefusedKeepsIInv ==
    ASSUME IInv, NEW op, NEW k \in Fields \cup {NoField, UnknownKey},
           NEW out \in Out, Refused(op, k, out),
           op # "Reset", CallerKeepsHandles,
           op = "BeginMap" => out # "ok",
           op \in {"AssembleValue", "AssembleEntry"} => out # "ok"
    PROVE  IInv'
<1>1. UNCHANGED <<node, entry, child, begun>> /\ held' \subseteq held
  BY DEF Refused, Returns, CallerKeepsHandles, Given, IInv, TypeOK
<1>2. ret'.key \in Fields \cup {NoField, UnknownKey} /\ ret'.out \in Out
  BY DEF Refused, Returns
<1> QED
  BY <1>1, <1>2 DEF IInv, TypeOK, HandleInv, EntryInv, NullableInv,
     PlainInv, BuiltNodeComplete, node, entry, child

(* Calls other than these give the caller no handle and take none away.    *)
LEMMA HandlesKept ==
    ASSUME CallerKeepsHandles, NEW op, NEW k, NEW out, Returns(op, k, out),
           op \notin {"Reset", "BeginMap", "AssembleValue", "AssembleEntry"}
    PROVE  begun' = begun /\ held' \subseteq held
           /\ (KeepStale \/ state' # "midValue" => held' = IF KeepStale THEN held ELSE {})
<1>1. ret'.op = op
  BY DEF Returns
<1>2. op # "Reset" /\ op # "BeginMap"
  OBVIOUS
<1>3. begun' = begun
  BY <1>1, <1>2, Zenon DEF CallerKeepsHandles
<1>4. held' \subseteq held
      /\ (KeepStale \/ state' # "midValue" => held' = IF KeepStale THEN held ELSE {})
  BY <1>1 DEF CallerKeepsHandles, Given
<1> QED
  BY <1>3, <1>4

(* BeginMap opens the node. *)
LEMMA BeginMapKeepsIInv ==
    ASSUME IInv, CallerKeepsHandles, BeginMap
    PROVE  IInv'
<1>1. CASE m = "Absent"
  <2> USE <1>1 DEF BeginMap, IInv, TypeOK, entry, child
  <2>1. begun' = TRUE /\ held' \subseteq held
    BY DEF Returns, CallerKeepsHandles, Given
  <2>2. TypeOK'
    BY <2>1 DEF Returns, Out
  <2>3. HandleInv'
    BY <2>1 DEF HandleInv
  <2>4. EntryInv'
    BY <2>1 DEF EntryInv, Plain
  <2>5. NullableInv'
    BY <2>1 DEF NullableInv
  <2>6. PlainInv'
    BY <2>1 DEF PlainInv, Plain, HandleInv
  <2>7. BuiltNodeComplete'
    BY <2>1 DEF BuiltNodeComplete
  <2> QED
    BY <2>2, <2>3, <2>4, <2>5, <2>6, <2>7
<1>2. CASE m # "Absent"
  BY <1>2, RefusedKeepsIInv DEF BeginMap, Out
<1> QED
  BY <1>1, <1>2

(* A whole copy fills every field at once. *)
LEMMA AssignNodeKeepsIInv ==
    ASSUME IInv, CallerKeepsHandles, NEW c \in CompleteNode, AssignNode(c)
    PROVE  IInv'
<1>1. CASE m = "Absent"
  <2> USE <1>1 DEF AssignNode, IInv, TypeOK, CompleteNode, entry, child
  <2>1. begun' = begun /\ held' \subseteq held
    BY HandlesKept
  <2>2. TypeOK'
    BY <2>1 DEF Returns, Out
  <2>3. HandleInv'
    BY <2>1 DEF HandleInv
  <2>4. EntryInv'
    BY <2>1 DEF EntryInv, Plain, HandleInv
  <2>5. NullableInv'
    BY <2>1 DEF NullableInv, HandleInv
  <2>6. PlainInv'
    BY <2>1 DEF PlainInv, Plain, HandleInv
  <2>7. BuiltNodeComplete'
    BY <2>1 DEF BuiltNodeComplete
  <2> QED
    BY <2>2, <2>3, <2>4, <2>5, <2>6, <2>7
<1>2. CASE m # "Absent"
  BY <1>2, RefusedKeepsIInv DEF AssignNode, Out
<1> QED
  BY <1>1, <1>2

(* Reset starts over; handles kept across it are dead. *)
LEMMA ResetKeepsIInv ==
    ASSUME IInv, CallerKeepsHandles, Reset
    PROVE  IInv'
<1>1. CASE TRUE
  <2> USE <1>1 DEF Reset, IInv, TypeOK, NoneSeen
  <2>1. begun' = FALSE /\ held' = IF KeepStale THEN held ELSE {}
    BY DEF Returns, CallerKeepsHandles, Given
  <2>2. TypeOK'
    BY <2>1 DEF Returns, Out
  <2>3. HandleInv'
    BY <2>1 DEF HandleInv
  <2>4. EntryInv'
    BY <2>1 DEF EntryInv, Plain
  <2>5. NullableInv'
    BY <2>1 DEF NullableInv
  <2>6. PlainInv'
    BY <2>1 DEF PlainInv, Plain
  <2>7. BuiltNodeComplete'
    BY <2>1 DEF BuiltNodeComplete
  <2> QED
    BY <2>2, <2>3, <2>4, <2>5, <2>6, <2>7
<1> QED
  BY <1>1

(* AssembleKey ends a complete entry. *)
LEMMA AssembleKeyKeepsIInv ==
    ASSUME Protected, IInv, CallerKeepsHandles, begun, AssembleKey
    PROVE  IInv'
<1>1. CASE Ready
  <2> USE <1>1 DEF AssembleKey, IInv, TypeOK, Ready, ValueFinished, Tidied,
          TidiedChild, TidiedMaybe, node
  <2>1. begun' = begun /\ held' = IF KeepStale THEN held ELSE {}
    BY HandlesKept
  <2>2. TypeOK'
    BY <2>1 DEF Returns, Out
  <2>3. HandleInv'
    BY <2>1 DEF HandleInv, EntryInv
  <2>4. EntryInv'
    BY <2>1 DEF EntryInv, Plain, HandleInv, Protected
  <2>5. NullableInv'
    BY <2>1 DEF NullableInv, EntryInv
  <2>6. PlainInv'
    BY <2>1 DEF PlainInv, Plain, EntryInv
  <2>7. BuiltNodeComplete'
    BY <2>1 DEF BuiltNodeComplete
  <2> QED
    BY <2>2, <2>3, <2>4, <2>5, <2>6, <2>7
<1>2. CASE ~Ready
  BY <1>2, RefusedKeepsIInv DEF AssembleKey, Out
<1> QED
  BY <1>1, <1>2

(* A key is accepted once. *)
LEMMA KeyAssignStringKeepsIInv ==
    ASSUME IInv, CallerKeepsHandles, begun, NEW k \in Keys, KeyAssignString(k)
    PROVE  IInv'
<1>1. CASE state = "midKey" /\ FreshKey(k)
  <2> USE <1>1 DEF KeyAssignString, IInv, TypeOK, FreshKey, Keys, node, child
  <2>1. begun' = begun /\ held' \subseteq held
    BY HandlesKept
  <2>2. TypeOK'
    BY <2>1 DEF Returns, Out
  <2>3. HandleInv'
    BY <2>1 DEF HandleInv
  <2>4. EntryInv'
    BY <2>1 DEF EntryInv, Plain
  <2>5. NullableInv'
    BY <2>1 DEF NullableInv, HandleInv, EntryInv
  <2>6. PlainInv'
    BY <2>1 DEF PlainInv, Plain, EntryInv
  <2>7. BuiltNodeComplete'
    BY <2>1 DEF BuiltNodeComplete
  <2> QED
    BY <2>2, <2>3, <2>4, <2>5, <2>6, <2>7
<1>2. CASE state # "midKey" \/ ~FreshKey(k)
  BY <1>2, RefusedKeepsIInv DEF KeyAssignString, Keys, Out
<1> QED
  BY <1>1, <1>2

(* AssembleValue binds the child of the key given. *)
LEMMA AssembleValueKeepsIInv ==
    ASSUME IInv, CallerKeepsHandles, begun, AssembleValue
    PROVE  IInv'
<1>1. CASE state = "expectValue"
  <2> USE <1>1 DEF AssembleValue, IInv, TypeOK, BindChild, EntryInv
  <2>1. begun' = begun
        /\ held' = {f} \cup (IF KeepStale THEN held ELSE {})
    BY DEF Returns, CallerKeepsHandles, Given
  <2>2. TypeOK'
    BY <2>1 DEF Returns, Out
  <2>3. HandleInv'
    BY <2>1 DEF HandleInv
  <2>4. EntryInv'
    BY <2>1 DEF EntryInv, Plain
  <2>5. NullableInv'
    BY <2>1 DEF NullableInv
  <2>6. PlainInv'
    BY <2>1 DEF PlainInv, Plain
  <2>7. BuiltNodeComplete'
    BY <2>1 DEF BuiltNodeComplete, HandleInv
  <2> QED
    BY <2>2, <2>3, <2>4, <2>5, <2>6, <2>7
<1>2. CASE state # "expectValue"
  BY <1>2, RefusedKeepsIInv DEF AssembleValue, Out
<1> QED
  BY <1>1, <1>2

(* AssembleEntry is both, and refuses a repeated or unknown key. *)
LEMMA AssembleEntryKeepsIInv ==
    ASSUME Protected, IInv, CallerKeepsHandles, begun, NEW k \in Keys, AssembleEntry(k)
    PROVE  IInv'
<1>1. CASE Ready /\ FreshKey(k)
  <2> USE <1>1 DEF AssembleEntry, IInv, TypeOK, BindChild, FreshKey, Ready,
          ValueFinished, Tidied, TidiedChild, TidiedMaybe, EntryInv
  <2>1. begun' = begun
        /\ held' = {k} \cup (IF KeepStale THEN held ELSE {})
    BY DEF Returns, CallerKeepsHandles, Given
  <2>2. TypeOK'
    BY <2>1 DEF Returns, Out
  <2>3. HandleInv'
    BY <2>1 DEF HandleInv
  <2>4. EntryInv'
    BY <2>1 DEF EntryInv, Plain, Protected
  <2>5. NullableInv'
    BY <2>1 DEF NullableInv, HandleInv
  <2>6. PlainInv'
    BY <2>1 DEF PlainInv, Plain
  <2>7. BuiltNodeComplete'
    BY <2>1 DEF BuiltNodeComplete, HandleInv
  <2> QED
    BY <2>2, <2>3, <2>4, <2>5, <2>6, <2>7
<1>2. CASE Ready /\ ~FreshKey(k)
  <2> USE <1>2 DEF AssembleEntry, IInv, TypeOK, Ready, ValueFinished, Tidied,
          TidiedChild, TidiedMaybe, node, EntryInv, Keys
  <2>1. begun' = begun /\ held' = IF KeepStale THEN held ELSE {}
    BY DEF Returns, CallerKeepsHandles, Given
  <2>2. TypeOK'
    BY <2>1 DEF Returns, Out
  <2>3. HandleInv'
    BY <2>1 DEF HandleInv
  <2>4. EntryInv'
    BY <2>1 DEF EntryInv, Plain, Protected
  <2>5. NullableInv'
    BY <2>1 DEF NullableInv
  <2>6. PlainInv'
    BY <2>1 DEF PlainInv, Plain
  <2>7. BuiltNodeComplete'
    BY <2>1 DEF BuiltNodeComplete
  <2> QED
    BY <2>2, <2>3, <2>4, <2>5, <2>6, <2>7
<1>3. CASE ~Ready
  BY <1>3, RefusedKeepsIInv DEF AssembleEntry, Keys, Out
<1> QED
  BY <1>1, <1>2, <1>3

(* Finish completes the node or asks for the missing fields. *)
LEMMA FinishKeepsIInv ==
    ASSUME Protected, IInv, CallerKeepsHandles, begun, Finish
    PROVE  IInv'
<1>1. CASE Ready /\ Sufficient
  <2> USE <1>1 DEF Finish, IInv, TypeOK, Ready, ValueFinished, Sufficient,
          Tidied, TidiedChild, TidiedMaybe, EntryInv
  <2>1. begun' = begun /\ held' = IF KeepStale THEN held ELSE {}
    BY HandlesKept
  <2>2. TypeOK'
    BY <2>1 DEF Returns, Out
  <2>3. HandleInv'
    BY <2>1 DEF HandleInv
  <2>4. EntryInv'
    BY <2>1 DEF EntryInv, Plain, Protected
  <2>5. NullableInv'
    BY <2>1 DEF NullableInv
  <2>6. PlainInv'
    BY <2>1 DEF PlainInv, Plain
  <2>7. BuiltNodeComplete'
    BY <2>1 DEF BuiltNodeComplete, NullableInv, PlainInv, Plain
  <2> QED
    BY <2>2, <2>3, <2>4, <2>5, <2>6, <2>7
<1>2. CASE Ready /\ ~Sufficient
  <2> USE <1>2 DEF Finish, IInv, TypeOK, Ready, ValueFinished, Tidied,
          TidiedChild, TidiedMaybe, node, EntryInv
  <2>1. begun' = begun /\ held' = IF KeepStale THEN held ELSE {}
    BY HandlesKept
  <2>2. TypeOK'
    BY <2>1 DEF Returns, Out
  <2>3. HandleInv'
    BY <2>1 DEF HandleInv
  <2>4. EntryInv'
    BY <2>1 DEF EntryInv, Plain, Protected
  <2>5. NullableInv'
    BY <2>1 DEF NullableInv
  <2>6. PlainInv'
    BY <2>1 DEF PlainInv, Plain
  <2>7. BuiltNodeComplete'
    BY <2>1 DEF BuiltNodeComplete
  <2> QED
    BY <2>2, <2>3, <2>4, <2>5, <2>6, <2>7
<1>3. CASE ~Ready
  BY <1>3, RefusedKeepsIInv DEF Finish, Out
<1> QED
  BY <1>1, <1>2, <1>3

(* A child the caller can fill has its place in the node. *)
LEMMA HeldHasPlace ==
    ASSUME Protected, IInv, NEW k \in held
    PROVE  k \notin Composite \ caw /\ ~(KeepStale /\ k \in Composite)
  BY DEF Protected, IInv, EntryInv

(* Only the child of the current entry can store a value. *)
LEMMA ChildAssignKeepsIInv ==
    ASSUME Protected, IInv, CallerKeepsHandles, NEW k \in held, NEW v \in Values, ChildAssign(k, v)
    PROVE  IInv'
<1>1. CASE k \in cam /\ ~ChildDone(k) /\ k \in caw
  <2> USE <1>1 DEF ChildAssign, IInv, TypeOK, ChildDone, ChildMaybe,
          SetChildMaybe, child, EntryInv, NullableInv, Plain
  <2>1. begun' = begun /\ held' \subseteq held
    BY HandlesKept
  <2>2. TypeOK'
    BY <2>1 DEF Returns, Out
  <2>3. HandleInv'
    BY <2>1 DEF HandleInv
  <2>4. EntryInv'
    BY <2>1 DEF EntryInv, Plain
  <2>5. NullableInv'
    BY <2>1 DEF NullableInv
  <2>6. PlainInv'
    BY <2>1 DEF PlainInv, Plain
  <2>7. BuiltNodeComplete'
    BY <2>1 DEF BuiltNodeComplete, HandleInv
  <2> QED
    BY <2>2, <2>3, <2>4, <2>5, <2>6, <2>7
<1>2. CASE ~(k \in cam /\ ~ChildDone(k) /\ k \in caw)
  BY <1>2, HeldHasPlace, RefusedKeepsIInv DEF ChildAssign, IInv, TypeOK, Out
<1> QED
  BY <1>1, <1>2

(* Null goes into nullable fields only. *)
LEMMA ChildAssignNullKeepsIInv ==
    ASSUME IInv, CallerKeepsHandles, NEW k \in held, ChildAssignNull(k)
    PROVE  IInv'
<1>1. CASE k \in cam /\ ChildMaybe(k) = "allowNull"
  <2> USE <1>1 DEF ChildAssignNull, IInv, TypeOK, ChildDone, ChildMaybe,
          SetChildMaybe, child, EntryInv, NullableInv, Plain
  <2>1. begun' = begun /\ held' \subseteq held
    BY HandlesKept
  <2>2. TypeOK'
    BY <2>1 DEF Returns, Out
  <2>3. HandleInv'
    BY <2>1 DEF HandleInv
  <2>4. EntryInv'
    BY <2>1 DEF EntryInv, Plain
  <2>5. NullableInv'
    BY <2>1 DEF NullableInv
  <2>6. PlainInv'
    BY <2>1 DEF PlainInv, Plain
  <2>7. BuiltNodeComplete'
    BY <2>1 DEF BuiltNodeComplete, HandleInv
  <2> QED
    BY <2>2, <2>3, <2>4, <2>5, <2>6, <2>7
<1>2. CASE ~(k \in cam /\ ChildMaybe(k) = "allowNull")
  BY <1>2, RefusedKeepsIInv DEF ChildAssignNull, IInv, TypeOK, Out
<1> QED
  BY <1>1, <1>2

(* IInv is inductive. *)
LEMMA NextKeepsIInv == Protected /\ IInv /\ [Next]_vars => IInv'
<1> SUFFICES ASSUME Protected, IInv, [Next]_vars PROVE IInv'
  OBVIOUS
<1>1. CASE UNCHANGED vars
  BY <1>1 DEF vars, node, entry, child, handles, IInv, TypeOK, HandleInv,
     EntryInv, NullableInv, PlainInv, BuiltNodeComplete
<1>2. CASE Next
  <2>0. CallerKeepsHandles
    BY <1>2 DEF Next
  <2>1. CASE BeginMap
    BY <2>0, <2>1, BeginMapKeepsIInv
  <2>2. CASE AssignNull
    BY <2>0, <2>2, RefusedKeepsIInv DEF AssignNull, Out
  <2>3. CASE AssignWrongKind
    BY <2>0, <2>3, RefusedKeepsIInv DEF AssignWrongKind, Out
  <2>4. ASSUME NEW c \in CompleteNode, AssignNode(c) PROVE IInv'
    BY <2>0, <2>4, AssignNodeKeepsIInv
  <2>5. CASE Build
    BY <2>0, <2>5, RefusedKeepsIInv DEF Build, Out
  <2>6. CASE Reset
    BY <2>0, <2>6, ResetKeepsIInv
  <2>7. CASE MapCall
    BY <2>0, <2>7, AssembleKeyKeepsIInv, KeyAssignStringKeepsIInv,
       AssembleValueKeepsIInv, AssembleEntryKeepsIInv, FinishKeepsIInv
       DEF MapCall
  <2>8. CASE ChildCall
    <3>1. PICK k \in held : \/ \E v \in Values : ChildAssign(k, v)
                            \/ ChildAssignNull(k)
                            \/ ChildWrongKind(k)
      BY <2>8, HeldHasPlace DEF ChildCall
    <3>2. k \in Fields
      BY DEF IInv, TypeOK
    <3>3. ChildWrongKind(k) => IInv'
      BY <2>0, <3>2, RefusedKeepsIInv DEF ChildWrongKind, Out
    <3> QED
      BY <2>0, <3>1, <3>3, ChildAssignKeepsIInv, ChildAssignNullKeepsIInv
  <2> QED
    BY <1>2, <2>1, <2>2, <2>3, <2>4, <2>5, <2>6, <2>7, <2>8 DEF Next
<1> QED
  BY <1>1, <1>2

LEMMA AlwaysIInv == ASSUME Protected PROVE Spec => []IInv
  BY InitIInv, NextKeepsIInv, PTL DEF Spec

(* The assembler's variables keep their types under every sequence of      *)
(* calls (_Header__Assembler and its child assemblers).                    *)
THEOREM TypeCorrect ==
    ASSUME Protected PROVE Spec => []TypeOK
<1>1. IInv => TypeOK
  BY DEF IInv
<1> QED
  BY <1>1, AlwaysIInv, PTL

(* A node that Build hands out has every field, for any struct type and    *)
(* any sequence of calls, failed ones and stale handles included.          *)
THEOREM BuiltNodesAreComplete ==
    ASSUME Protected PROVE Spec => []BuiltNodeComplete
<1>1. IInv => BuiltNodeComplete
  BY DEF IInv
<1> QED
  BY <1>1, AlwaysIInv, PTL

----------------------------------------------------------------------------
(* Finished nodes do not change.                                           *)

(* No call on a finished node stores anything. *)
LEMMA FinishedStep ==
    ASSUME Protected, IInv, Next, m = "Value", ret'.op # "Reset"
    PROVE  UNCHANGED node
<1> USE DEF Refused, IInv
<1>1. CASE BeginMap \/ AssignNull \/ AssignWrongKind \/ Build
  BY <1>1 DEF BeginMap, AssignNull, AssignWrongKind, Build
<1>2. ASSUME NEW c \in CompleteNode, AssignNode(c) PROVE UNCHANGED node
  BY <1>2 DEF AssignNode
<1>3. CASE Reset
  BY <1>3 DEF Reset, Returns
<1>4. CASE MapCall
  <2>1. state = "finished"
    BY <1>4 DEF MapCall, HandleInv
  <2> QED
    BY <1>4, <2>1 DEF MapCall, AssembleKey, KeyAssignString, AssembleValue,
       AssembleEntry, Finish, Ready
<1>5. CASE ChildCall
  <2>1. PICK k \in held : \/ \E v \in Values : ChildAssign(k, v)
                          \/ ChildAssignNull(k)
                          \/ ChildWrongKind(k)
    BY <1>5, HeldHasPlace DEF ChildCall
  <2>2. CASE \E v \in Values : ChildAssign(k, v)
    <3>1. ~(k \in cam /\ ~ChildDone(k) /\ k \in caw)
      BY DEF ChildDone, ChildMaybe, EntryInv, BuiltNodeComplete, HandleInv,
             Plain, TypeOK
    <3> QED
      BY <2>2, <3>1, HeldHasPlace DEF ChildAssign
  <2>3. CASE ChildAssignNull(k)
    <3>1. ChildMaybe(k) # "allowNull"
      BY DEF ChildMaybe, BuiltNodeComplete, TypeOK
    <3> QED
      BY <2>3, <3>1 DEF ChildAssignNull
  <2>4. CASE ChildWrongKind(k)
    BY <2>4 DEF ChildWrongKind
  <2> QED
    BY <2>1, <2>2, <2>3, <2>4
<1> QED
  BY <1>1, <1>2, <1>3, <1>4, <1>5 DEF Next

(* A node that Build may have handed out never changes, whatever handles   *)
(* the caller has kept from its assembly (_Header__Assembler).             *)
THEOREM FinishedNodesAreImmutable ==
    ASSUME Protected PROVE Spec => FinishedIsImmutable
<1>1. Protected /\ IInv /\ [Next]_vars =>
        [m = "Value" /\ ret'.op # "Reset" => UNCHANGED node]_vars
  BY FinishedStep
<1> QED
  BY <1>1, AlwaysIInv, PTL DEF Spec, FinishedIsImmutable

----------------------------------------------------------------------------
(* The assembler implements NodeBuilder.                                   *)

(* The content is the same when the same fields are filled with the same. *)
LEMMA SameContent ==
    ASSUME \A k \in Fields : Filled(k)' <=> Filled(k),
           \A k \in Fields : Filled(k) => Contents(k)' = Contents(k)
    PROVE  content' = content
<1>1. {j \in Fields : Filled(j)}' = {j \in Fields : Filled(j)}
  OBVIOUS
<1> QED
  BY <1>1 DEF content

LEMMA RefusedSameContent ==
    ASSUME NEW op, NEW k, NEW out, Refused(op, k, out)
    PROVE  /\ content' = content /\ m' = m
           /\ \A j \in Fields : Filled(j)' <=> Filled(j)
<1>1. UNCHANGED <<node, entry>>
  BY DEF Refused
<1>2. \A j \in Fields : Filled(j)' <=> Filled(j)
  BY <1>1 DEF node, entry, Filled, ChildDone, ChildMaybe
<1> QED
  BY <1>1, <1>2, SameContent DEF node, Contents

(* Calls that move from entry to entry fill nothing. *)
LEMMA MapCallSameContent ==
    ASSUME IInv, begun,
           \/ AssembleKey
           \/ \E k \in Keys : KeyAssignString(k)
           \/ AssembleValue
           \/ \E k \in Keys : AssembleEntry(k)
           \/ Finish /\ ~(Ready /\ Sufficient)
    PROVE  /\ content' = content /\ m' = m
           /\ \A j \in Fields : Filled(j)' <=> Filled(j)
<1> USE DEF IInv, TypeOK, HandleInv, EntryInv, NullableInv
<1>1. CASE AssembleKey
  <2>1. CASE Ready
    <3>1. m' = m /\ s' = s /\ f' = f /\ wm' = wm /\ wv' = wv
          /\ state' = "midKey"
      BY <1>1, <2>1 DEF AssembleKey, node, Ready
    <3>2. m # "Value"
      BY <2>1 DEF Ready
    <3>3. \A k \in Fields : Filled(k)' <=> Filled(k)
      BY <2>1, <3>1, <3>2 DEF Filled, Ready, ValueFinished, ChildDone,
         ChildMaybe
    <3>4. \A k \in Fields : Filled(k) => Contents(k)' = Contents(k)
      BY <3>1 DEF Contents
    <3> QED
      BY <3>1, <3>3, <3>4, SameContent
  <2>2. CASE ~Ready
    BY <1>1, <2>2, RefusedSameContent DEF AssembleKey
  <2> QED
    BY <2>1, <2>2
<1>2. ASSUME NEW k \in Keys, KeyAssignString(k)
      PROVE  /\ content' = content /\ m' = m
             /\ \A j \in Fields : Filled(j)' <=> Filled(j)
  <2>1. CASE state = "midKey" /\ FreshKey(k)
    <3>1. m' = m /\ s' = s \cup {k} /\ f' = k /\ wm' = wm /\ wv' = wv
          /\ state' = "expectValue" /\ k \notin s
      BY <1>2, <2>1 DEF KeyAssignString, FreshKey, node
    <3>2. \A j \in Fields : Filled(j)' <=> Filled(j)
      BY <2>1, <3>1 DEF Filled
    <3>3. \A j \in Fields : Filled(j) => Contents(j)' = Contents(j)
      BY <3>1 DEF Contents
    <3> QED
      BY <3>1, <3>2, <3>3, SameContent
  <2>2. CASE ~(state = "midKey" /\ FreshKey(k))
    BY <1>2, <2>2, RefusedSameContent DEF KeyAssignString
  <2> QED
    BY <2>1, <2>2
<1>3. CASE AssembleValue
  <2>1. CASE state = "expectValue"
    <3>1. m' = m /\ s' = s /\ f' = f /\ cm' = cm /\ wv' = wv
          /\ state' = "midValue"
          /\ wm' = [n \in Nullable |-> IF n = f THEN "allowNull" ELSE wm[n]]
      BY <1>3, <2>1 DEF AssembleValue, BindChild
    <3>2. m # "Value" /\ cm = "Absent"
      BY <2>1 DEF Plain
    <3>3. \A j \in Fields : Filled(j)' <=> Filled(j)
      BY <2>1, <3>1, <3>2 DEF Filled, ChildDone, ChildMaybe
    <3>4. \A j \in Fields : Filled(j) => Contents(j)' = Contents(j)
      BY <2>1, <3>1, <3>2 DEF Contents, Filled
    <3> QED
      BY <3>1, <3>3, <3>4, SameContent
  <2>2. CASE state # "expectValue"
    BY <1>3, <2>2, RefusedSameContent DEF AssembleValue
  <2> QED
    BY <2>1, <2>2
<1>4. ASSUME NEW k \in Keys, AssembleEntry(k)
      PROVE  /\ content' = content /\ m' = m
             /\ \A j \in Fields : Filled(j)' <=> Filled(j)
  <2>1. CASE Ready /\ FreshKey(k)
    <3>1. m' = m /\ s' = s \cup {k} /\ f' = k /\ wv' = wv /\ k \notin s
          /\ state' = "midValue" /\ cm' = TidiedMaybe /\ k \in Fields
          /\ wm' = [n \in Nullable |-> IF n = k THEN "allowNull" ELSE wm[n]]
      BY <1>4, <2>1 DEF AssembleEntry, BindChild, FreshKey, Ready
    <3>2. m # "Value" /\ TidiedMaybe = "Absent"
      BY <2>1 DEF Ready, TidiedMaybe, TidiedChild, Plain
    <3>3. \A j \in Fields : Filled(j)' <=> Filled(j)
      BY <2>1, <3>1, <3>2 DEF Filled, Ready, ValueFinished, ChildDone,
         ChildMaybe
    <3>4. \A j \in Fields : Filled(j) => Contents(j)' = Contents(j)
      BY <3>1, <3>2 DEF Contents, Filled
    <3> QED
      BY <3>1, <3>3, <3>4, SameContent
  <2>2. CASE Ready /\ ~FreshKey(k)
    <3>1. m' = m /\ s' = s /\ f' = f /\ wm' = wm /\ wv' = wv
          /\ state' = "initial"
      BY <1>4, <2>2 DEF AssembleEntry, node, Ready
    <3>2. m # "Value"
      BY <2>2 DEF Ready
    <3>3. \A j \in Fields : Filled(j)' <=> Filled(j)
      BY <2>2, <3>1, <3>2 DEF Filled, Ready, ValueFinished, ChildDone,
         ChildMaybe
    <3>4. \A j \in Fields : Filled(j) => Contents(j)' = Contents(j)
      BY <3>1 DEF Contents
    <3> QED
      BY <3>1, <3>3, <3>4, SameContent
  <2>3. CASE ~Ready
    BY <1>4, <2>3, RefusedSameContent DEF AssembleEntry
  <2> QED
    BY <2>1, <2>2, <2>3
<1>5. CASE Finish /\ ~(Ready /\ Sufficient)
  <2>1. CASE Ready
    <3>1. m' = m /\ s' = s /\ f' = f /\ wm' = wm /\ wv' = wv
          /\ state' = "initial"
      BY <1>5, <2>1 DEF Finish, node, Ready
    <3>2. m # "Value"
      BY <2>1 DEF Ready
    <3>3. \A j \in Fields : Filled(j)' <=> Filled(j)
      BY <2>1, <3>1, <3>2 DEF Filled, Ready, ValueFinished, ChildDone,
         ChildMaybe
    <3>4. \A j \in Fields : Filled(j) => Contents(j)' = Contents(j)
      BY <3>1 DEF Contents
    <3> QED
      BY <3>1, <3>3, <3>4, SameContent
  <2>2. CASE ~Ready
    BY <1>5, <2>2, RefusedSameContent DEF Finish
  <2> QED
    BY <2>1, <2>2
<1> QED
  BY <1>1, <1>2, <1>3, <1>4, <1>5

(* The value a child assembler stores, or its null, is a Put of NodeBuilder. *)
LEMMA ChildStepPuts ==
    ASSUME IInv, NEW k \in Fields, NEW v \in Values \cup {Null},
           k \in cam \cap held, ~ChildDone(k), m' = m,
           state' = state, s' = s, f' = f,
           \/ /\ v \in Values /\ k \in caw
              /\ wv' = [wv EXCEPT ![k] = v]
              /\ SetChildMaybe(k, "Value")
           \/ /\ v = Null /\ k \in Nullable /\ wm[k] = "allowNull"
              /\ wv' = wv
              /\ SetChildMaybe(k, "Null")
    PROVE  Abstract!Put(k, v)
<1> USE DEF IInv, TypeOK
<1>1. m # "Value"
  BY DEF ChildDone, ChildMaybe, BuiltNodeComplete, HandleInv, EntryInv, Plain,
         NullableInv
<1>2. k \in s /\ state = "midValue" /\ f = k
  BY DEF ChildDone, ChildMaybe, EntryInv, NullableInv, Plain
<1>3. ~Filled(k)
  BY <1>1, <1>2 DEF Filled
<1>4. Filled(k)'
  BY <1>2 DEF Filled, ChildDone, ChildMaybe, SetChildMaybe
<1>5. \A j \in Fields \ {k} : Filled(j)' <=> Filled(j)
  BY <1>1, <1>2 DEF Filled
<1>6. \A j \in Fields \ {k} : Contents(j)' = Contents(j)
  BY DEF Contents, SetChildMaybe
<1>7. Contents(k)' = v
  BY <1>2 DEF Contents, SetChildMaybe
<1>8. {j \in Fields : Filled(j)}' = {j \in Fields : Filled(j)} \cup {k}
  BY <1>4, <1>5
<1>9. DOMAIN content = {j \in Fields : Filled(j)}
  BY DEF content
<1>10. content' = [j \in DOMAIN content \cup {k} |->
                      IF j = k THEN v ELSE content[j]]
  <2>1. content' = [j \in {i \in Fields : Filled(i)} \cup {k} |-> Contents(j)']
    BY <1>8 DEF content
  <2>2. \A j \in {i \in Fields : Filled(i)} \cup {k} :
            Contents(j)' = IF j = k THEN v ELSE content[j]
    BY <1>6, <1>7 DEF content
  <2> QED
    BY <1>9, <2>1, <2>2
<1>11. v \in Abstract!Allowed(k)
  BY DEF Abstract!Allowed
<1> QED
  BY <1>1, <1>3, <1>9, <1>10, <1>11 DEF Abstract!Put

(* Where Finish succeeds, every field was filled before. *)
LEMMA FinishFillsNone ==
    ASSUME IInv, begun, Finish, Ready, Sufficient
    PROVE  \A j \in Fields : Filled(j) /\ Filled(j)'
<1> USE DEF IInv, TypeOK, HandleInv, EntryInv, NullableInv
<1>1. m' = "Value" /\ s = Fields
  BY DEF Finish, Ready, Sufficient
<1>2. \A j \in Fields : Filled(j)
  BY <1>1 DEF Filled, Ready, ValueFinished, ChildDone, ChildMaybe
<1>3. \A j \in Fields : Filled(j)'
  BY <1>1 DEF Filled
<1> QED
  BY <1>2, <1>3

(* Finish seals a complete node. *)
LEMMA FinishSeals ==
    ASSUME IInv, begun, Finish, Ready, Sufficient
    PROVE  Abstract!Seal
<1> USE DEF IInv, TypeOK, HandleInv, EntryInv, NullableInv
<1>1. m # "Value" /\ m' = "Value" /\ wm' = wm /\ wv' = wv /\ s = Fields
  BY DEF Finish, Ready, Sufficient
<1>2. \A j \in Fields : Filled(j) /\ Filled(j)'
  BY FinishFillsNone
<1>4. content' = content
  BY <1>1, <1>2, SameContent DEF Contents
<1>5. DOMAIN content = Fields
  BY <1>2 DEF content
<1> QED
  BY <1>1, <1>4, <1>5 DEF Abstract!Seal

(* Nothing is filled before the first call, or after Reset. *)
LEMMA NothingFilled ==
    ASSUME s = {}, m # "Value"
    PROVE  content = Abstract!Empty
<1>1. {j \in Fields : Filled(j)} = {}
  BY DEF Filled
<1> QED
  BY <1>1 DEF content, Abstract!Empty

LEMMA AssignNodeAssignsWhole ==
    ASSUME IInv, NEW c \in CompleteNode, AssignNode(c), m = "Absent"
    PROVE  \E d \in Abstract!Complete : Abstract!AssignWhole(d)
<1>1. content = Abstract!Empty
  BY NothingFilled DEF IInv, HandleInv
<1>2. m' = "Value"
      /\ wv' = [k \in Fields |-> IF c[k] = Null THEN Zero ELSE c[k]]
      /\ wm' = [n \in Nullable |-> IF c[n] = Null THEN "Null" ELSE "Value"]
  BY DEF AssignNode
<1>3. c \in Abstract!Complete
  BY DEF CompleteNode, Abstract!Complete, Abstract!Allowed
<1>4. \A k \in Fields : Filled(k)' /\ Contents(k)' = c[k]
  BY <1>2 DEF Filled, Contents, CompleteNode
<1>5. content' = [k \in Fields |-> Contents(k)']
  BY <1>4 DEF content
<1>6. content' = c
  BY <1>4, <1>5 DEF CompleteNode
<1> QED
  BY <1>1, <1>2, <1>3, <1>6 DEF Abstract!AssignWhole

LEMMA ResetClears == Reset => Abstract!Clear
<1> SUFFICES ASSUME Reset PROVE Abstract!Clear
  OBVIOUS
<1>1. s' = {} /\ m' = "Absent"
  BY DEF Reset
<1>2. {j \in Fields : Filled(j)}' = {}
  BY <1>1 DEF Filled
<1>3. content' = Abstract!Empty
  BY <1>2 DEF content, Abstract!Empty
<1> QED
  BY <1>1, <1>3 DEF Abstract!Clear

(* Every step of the assembler is a step of NodeBuilder or changes nothing *)
(* NodeBuilder speaks of.                                                  *)
LEMMA StepRefines ==
    Protected /\ IInv /\ [Next]_vars => [Abstract!Next]_Abstract!vars
<1> DEFINE Stutter == content' = content /\ (m' = "Value" <=> m = "Value")
<1>0. Stutter => UNCHANGED Abstract!vars
  <2>1. (m' = "Value" <=> m = "Value") => (m' = "Value") = (m = "Value")
    OBVIOUS
  <2> QED
    BY <2>1 DEF Abstract!vars
<1> SUFFICES ASSUME Protected, IInv, [Next]_vars
             PROVE  Abstract!Next \/ Stutter
  BY <1>0
<1>1. CASE UNCHANGED vars
  BY <1>1, SameContent DEF vars, node, entry, Filled, Contents, ChildDone,
     ChildMaybe
<1>2. CASE BeginMap
  <2>1. CASE m = "Absent"
    <3>1. m' = "midvalue" /\ UNCHANGED <<wm, wv, entry>>
      BY <1>2, <2>1 DEF BeginMap
    <3>2. content' = content
      BY <2>1, <3>1, SameContent DEF entry, Filled, Contents, ChildDone,
         ChildMaybe
    <3> QED
      BY <2>1, <3>1, <3>2
  <2>2. CASE m # "Absent"
    BY <1>2, <2>2, RefusedSameContent DEF BeginMap
  <2> QED
    BY <2>1, <2>2
<1>3. CASE AssignNull \/ AssignWrongKind \/ Build
  BY <1>3, RefusedSameContent DEF AssignNull, AssignWrongKind, Build
<1>4. ASSUME NEW c \in CompleteNode, AssignNode(c)
      PROVE  Abstract!Next \/ Stutter
  <2>1. CASE m = "Absent"
    BY <1>4, <2>1, AssignNodeAssignsWhole DEF Abstract!Next
  <2>2. CASE m # "Absent"
    BY <1>4, <2>2, RefusedSameContent DEF AssignNode
  <2> QED
    BY <2>1, <2>2
<1>5. CASE Reset
  BY <1>5, ResetClears DEF Abstract!Next
<1>6. CASE MapCall
  <2>1. CASE Finish /\ Ready /\ Sufficient
    BY <1>6, <2>1, FinishSeals DEF MapCall, Abstract!Next
  <2>2. CASE ~(Finish /\ Ready /\ Sufficient)
    BY <1>6, <2>2, MapCallSameContent DEF MapCall
  <2> QED
    BY <2>1, <2>2
<1>7. CASE ChildCall
  <2>1. PICK k \in held : \/ \E v \in Values : ChildAssign(k, v)
                          \/ ChildAssignNull(k)
                          \/ ChildWrongKind(k)
    BY <1>7, HeldHasPlace DEF ChildCall
  <2>2. k \in Fields
    BY DEF IInv, TypeOK
  <2>3. ASSUME NEW v \in Values, ChildAssign(k, v)
        PROVE  Abstract!Next \/ Stutter
    <3>1. CASE k \in cam /\ ~ChildDone(k) /\ k \in caw
      BY <2>2, <2>3, <3>1, ChildStepPuts DEF ChildAssign, Abstract!Next
    <3>2. CASE ~(k \in cam /\ ~ChildDone(k) /\ k \in caw)
      BY <2>3, <3>2, HeldHasPlace, RefusedSameContent DEF ChildAssign
    <3> QED
      BY <3>1, <3>2
  <2>4. CASE ChildAssignNull(k)
    <3>1. CASE k \in cam /\ ChildMaybe(k) = "allowNull"
      <4>1. k \in Nullable /\ wm[k] = "allowNull" /\ ~ChildDone(k)
        BY <3>1 DEF ChildMaybe, ChildDone, IInv, TypeOK
      <4> QED
        BY <2>2, <2>4, <3>1, <4>1, ChildStepPuts
           DEF ChildAssignNull, ChildDone, Abstract!Next
    <3>2. CASE ~(k \in cam /\ ChildMaybe(k) = "allowNull")
      BY <2>4, <3>2, RefusedSameContent DEF ChildAssignNull
    <3> QED
      BY <3>1, <3>2
  <2>5. CASE ChildWrongKind(k)
    BY <2>5, RefusedSameContent DEF ChildWrongKind
  <2> QED
    BY <2>1, <2>3, <2>4, <2>5
<1> QED
  BY <1>1, <1>2, <1>3, <1>4, <1>5, <1>6, <1>7 DEF Next

(* The generated assembler keeps the promises of NodeBuilder for every     *)
(* struct type: each field is filled once, through its own entry, nothing  *)
(* is sealed before it is complete, and nothing sealed ever changes.       *)
THEOREM AssemblerImplementsNodeBuilder ==
    ASSUME Protected PROVE Spec => ImplementsNodeBuilder
<1>1. Init => Abstract!Init
  <2> SUFFICES ASSUME Init PROVE Abstract!Init
    OBVIOUS
  <2>1. s = {} /\ m # "Value"
    BY DEF Init
  <2>2. content = Abstract!Empty
    BY <2>1, NothingFilled
  <2>3. (m = "Value") = FALSE
    BY <2>1
  <2> QED
    BY <2>2, <2>3 DEF Abstract!Init
<1> QED
  BY <1>1, StepRefines, AlwaysIInv, PTL
     DEF Spec, ImplementsNodeBuilder, Abstract!Spec

----------------------------------------------------------------------------
(* What a single call may change.                                          *)

(* A child handle fills its own entry, while it is open, or does nothing.  *)
LEMMA ChildCallFillsOwn ==
    ASSUME Protected, IInv, NEW k \in held,
           \/ \E v \in Values : ChildAssign(k, v)
           \/ ChildAssignNull(k)
           \/ ChildWrongKind(k)
    PROVE  \/ \A j \in Fields : /\ Filled(j)' <=> Filled(j)
                                /\ Contents(j)' = Contents(j)
           \/ /\ ret'.op \in {"ChildAssign", "ChildAssignNull"} /\ ret'.key = k
              /\ state = "midValue" /\ f = k /\ ~Filled(k)
              /\ \A j \in Fields \ {k} : /\ Filled(j)' <=> Filled(j)
                                         /\ Contents(j)' = Contents(j)
<1> USE DEF IInv, TypeOK
<1>1. ASSUME NEW op, NEW out, Refused(op, k, out)
      PROVE  \A j \in Fields : /\ Filled(j)' <=> Filled(j)
                              /\ Contents(j)' = Contents(j)
  BY <1>1, RefusedSameContent DEF Refused, Contents, node
<1>2. ASSUME k \in cam, ~ChildDone(k),
             k \in caw \/ (k \in Nullable /\ wm[k] = "allowNull")
      PROVE  m # "Value" /\ state = "midValue" /\ f = k /\ ~Filled(k)
  <2>1. m # "Value"
    BY <1>2 DEF ChildDone, ChildMaybe, BuiltNodeComplete, HandleInv, EntryInv,
       Plain, NullableInv
  <2>2. state = "midValue" /\ f = k
    BY <1>2 DEF ChildDone, ChildMaybe, EntryInv, NullableInv, Plain
  <2> QED
    BY <1>2, <2>1, <2>2 DEF Filled
<1>3. ASSUME NEW v \in Values, ChildAssign(k, v),
             k \in cam /\ ~ChildDone(k) /\ k \in caw
      PROVE  /\ ret'.op = "ChildAssign" /\ ret'.key = k
             /\ state = "midValue" /\ f = k /\ ~Filled(k)
             /\ \A j \in Fields \ {k} : /\ Filled(j)' <=> Filled(j)
                                        /\ Contents(j)' = Contents(j)
  <2>1. /\ wv' = [wv EXCEPT ![k] = v] /\ SetChildMaybe(k, "Value")
        /\ ret'.op = "ChildAssign" /\ ret'.key = k
        /\ m' = m /\ state' = state /\ s' = s /\ f' = f
    BY <1>3 DEF ChildAssign, Returns
  <2>2. m # "Value" /\ state = "midValue" /\ f = k /\ ~Filled(k)
    BY <1>2, <1>3
  <2>3. \A j \in Fields \ {k} : Filled(j)' <=> Filled(j)
    BY <2>1, <2>2 DEF Filled
  <2>4. \A j \in Fields \ {k} : Contents(j)' = Contents(j)
    BY <2>1 DEF Contents, SetChildMaybe
  <2> QED
    BY <2>1, <2>2, <2>3, <2>4
<1>4. ASSUME ChildAssignNull(k), k \in cam /\ ChildMaybe(k) = "allowNull"
      PROVE  /\ ret'.op = "ChildAssignNull" /\ ret'.key = k
             /\ state = "midValue" /\ f = k /\ ~Filled(k)
             /\ \A j \in Fields \ {k} : /\ Filled(j)' <=> Filled(j)
                                        /\ Contents(j)' = Contents(j)
  <2>1. /\ wv' = wv /\ SetChildMaybe(k, "Null")
        /\ ret'.op = "ChildAssignNull" /\ ret'.key = k
        /\ m' = m /\ state' = state /\ s' = s /\ f' = f
    BY <1>4 DEF ChildAssignNull, ChildDone, Returns
  <2>2. k \in Nullable /\ wm[k] = "allowNull" /\ ~ChildDone(k)
    BY <1>4 DEF ChildMaybe, ChildDone
  <2>3. m # "Value" /\ state = "midValue" /\ f = k /\ ~Filled(k)
    BY <1>2, <1>4, <2>2
  <2>4. \A j \in Fields \ {k} : Filled(j)' <=> Filled(j)
    BY <2>1, <2>3 DEF Filled
  <2>5. \A j \in Fields \ {k} : Contents(j)' = Contents(j)
    BY <2>1 DEF Contents, SetChildMaybe
  <2> QED
    BY <2>1, <2>3, <2>4, <2>5
<1>5. CASE \E v \in Values : ChildAssign(k, v)
  BY <1>1, <1>3, <1>5, HeldHasPlace DEF ChildAssign
<1>6. CASE ChildAssignNull(k)
  BY <1>1, <1>4, <1>6 DEF ChildAssignNull
<1>7. CASE ChildWrongKind(k)
  BY <1>1, <1>7 DEF ChildWrongKind
<1> QED
  BY <1>5, <1>6, <1>7

(* Calls on the map move between entries and store nothing. *)
LEMMA MapCallKeepsContents ==
    ASSUME IInv, MapCall
    PROVE  \A k \in Fields : Contents(k)' = Contents(k)
<1> USE DEF IInv, TypeOK, EntryInv, NullableInv, HandleInv, Contents, Refused, node
<1>1. CASE AssembleKey \/ Finish \/ \E k \in Keys : KeyAssignString(k)
  BY <1>1 DEF AssembleKey, Finish, KeyAssignString
<1>2. CASE AssembleValue
  BY <1>2 DEF AssembleValue, BindChild
<1>3. ASSUME NEW k \in Keys, AssembleEntry(k)
      PROVE  \A j \in Fields : Contents(j)' = Contents(j)
  <2>1. CASE Ready /\ FreshKey(k)
    <3>1. wv' = wv /\ wm' = [n \in Nullable |-> IF n = k THEN "allowNull" ELSE wm[n]]
      BY <1>3, <2>1 DEF AssembleEntry, BindChild, Ready
    <3>2. k \in Nullable => wm[k] = "Absent"
      BY <1>3, <2>1 DEF FreshKey, MapCall, Ready
    <3> QED
      BY <3>1, <3>2
  <2>2. CASE ~(Ready /\ FreshKey(k))
    BY <1>3, <2>2 DEF AssembleEntry
  <2> QED
    BY <2>1, <2>2
<1> QED
  BY <1>1, <1>2, <1>3 DEF MapCall

(* An entry is filled by a call on its own child assembler while it is     *)
(* open and by no other, and then stays as it is, for every struct type,   *)
(* though all plain fields share one Maybe (na.cm).                        *)
THEOREM FieldsChangeByOwnHandle ==
    ASSUME Protected PROVE Spec => OwnHandleOnly
<1> DEFINE Same(k) == (Filled(k)' <=> Filled(k)) /\ Contents(k)' = Contents(k)
           Own(k) == /\ ret'.op \in {"ChildAssign", "ChildAssignNull"}
                     /\ ret'.key = k
                     /\ state = "midValue" /\ f = k /\ ~Filled(k)
           Whole == ret'.op \in {"AssignNode", "Reset"}
<1>1. ASSUME Protected, IInv, Next
      PROVE  \A k \in Fields : Same(k) \/ Own(k) \/ Whole
  <2>1. CASE BeginMap
    <3>1. CASE m = "Absent"
      BY <2>1, <3>1 DEF BeginMap, entry, Filled, Contents, ChildDone,
         ChildMaybe
    <3>2. CASE m # "Absent"
      BY <2>1, <3>2, RefusedSameContent DEF BeginMap, Refused, node, Contents
    <3> QED
      BY <3>1, <3>2
  <2>2. CASE AssignNull \/ AssignWrongKind \/ Build
    BY <2>2, RefusedSameContent DEF AssignNull, AssignWrongKind, Build,
       Refused, node, Contents
  <2>3. CASE Reset \/ \E c \in CompleteNode : AssignNode(c)
    BY <2>3 DEF Reset, AssignNode, Refused, Returns
  <2>4. CASE MapCall
    <3>1. \A k \in Fields : Contents(k)' = Contents(k)
      BY <1>1, <2>4, MapCallKeepsContents
    <3>2. CASE Finish /\ Ready /\ Sufficient
      <4>1. \A k \in Fields : Filled(k) /\ Filled(k)'
        BY <1>1, <2>4, <3>2, FinishFillsNone DEF MapCall
      <4> QED
        BY <3>1, <4>1
    <3>3. CASE ~(Finish /\ Ready /\ Sufficient)
      BY <1>1, <2>4, <3>1, <3>3, MapCallSameContent DEF MapCall
    <3> QED
      BY <3>2, <3>3
  <2>5. CASE ChildCall
    <3>1. PICK k \in held : \/ \E v \in Values : ChildAssign(k, v)
                            \/ ChildAssignNull(k)
                            \/ ChildWrongKind(k)
      BY <1>1, <2>5, HeldHasPlace DEF ChildCall
    <3> QED
      BY <1>1, <3>1, ChildCallFillsOwn
  <2> QED
    BY <1>1, <2>1, <2>2, <2>3, <2>4, <2>5 DEF Next
<1>2. \A k \in Fields : Same(k) => UNCHANGED <<Filled(k), Contents(k)>>
  <2>1. \A k \in Fields : Filled(k) \in BOOLEAN /\ Filled(k)' \in BOOLEAN
    BY DEF Filled
  <2>2. \A p, q \in BOOLEAN : (q <=> p) => q = p
    OBVIOUS
  <2> QED
    BY <2>1, <2>2, Zenon
<1>3. Protected /\ IInv /\ [Next]_vars =>
        [\A k \in Fields :
            \/ UNCHANGED <<Filled(k), Contents(k)>>
            \/ /\ ret'.op \in {"ChildAssign", "ChildAssignNull"} /\ ret'.key = k
               /\ state = "midValue" /\ f = k /\ ~Filled(k)
            \/ ret'.op \in {"AssignNode", "Reset"}]_vars
  BY <1>1, <1>2, Zenon
<1> QED
  BY <1>3, AlwaysIInv, PTL DEF Spec, OwnHandleOnly

(* A call that ends in an error or a panic takes nothing from the node and *)
(* adds nothing to it, for every struct type (AssembleEntry and Finish     *)
(* tidy the entry before they fail).                                       *)
THEOREM FailedCallsKeepContent ==
    ASSUME Protected PROVE Spec => FailedCallKeepsContent
<1>1. ASSUME Protected, IInv, Next, ret'.out # "ok"
      PROVE  content' = content
  <2> USE DEF Returns
  <2>1. CASE BeginMap \/ AssignNull \/ AssignWrongKind \/ Build \/ Reset
    BY <1>1, <2>1, RefusedSameContent
       DEF BeginMap, AssignNull, AssignWrongKind, Build, Reset
  <2>2. ASSUME NEW c \in CompleteNode, AssignNode(c) PROVE content' = content
    BY <1>1, <2>2, RefusedSameContent DEF AssignNode
  <2>3. CASE MapCall
    <3>1. ~(Finish /\ Ready /\ Sufficient)
      BY <1>1 DEF Finish
    <3> QED
      BY <1>1, <2>3, <3>1, MapCallSameContent DEF MapCall
  <2>4. CASE ChildCall
    <3>1. PICK k \in held : \/ \E v \in Values : ChildAssign(k, v)
                            \/ ChildAssignNull(k)
                            \/ ChildWrongKind(k)
      BY <1>1, <2>4, HeldHasPlace DEF ChildCall
    <3> QED
      BY <1>1, <3>1, RefusedSameContent
         DEF ChildAssign, ChildAssignNull, ChildWrongKind
  <2> QED
    BY <1>1, <2>1, <2>2, <2>3, <2>4 DEF Next
<1>2. Protected /\ IInv /\ [Next]_vars =>
        [ret'.out # "ok" => UNCHANGED content]_vars
  BY <1>1
<1> QED
  BY <1>2, AlwaysIInv, PTL DEF Spec, FailedCallKeepsContent

----------------------------------------------------------------------------
(***************************************************************************)
(* AssignNode of a foreign node, for structs with any fields and nodes     *)
(* with any number of entries.                                             *)
(*                                                                         *)
(* The theorems hold for callers that do not assign again to a builder     *)
(* that holds a whole copy (ReuseCopied is FALSE); for those that do, the  *)
(* code's own check does not help, as a run of StructAssign shows.         *)
(*                                                                         *)
(* AssignNode does without BeginMap, so what IInv knows of the caller's    *)
(* handles does not hold here.  Instead the loop itself says which call    *)
(* finds the assembler in which state, and after a failed AssignNode the   *)
(* assembler stays where the failed call left it.                          *)
(***************************************************************************)

(* The current entry: its key is recorded, and its child bound where the   *)
(* value is awaited; only it uses the shared Maybe.                        *)
EntryOK ==
    /\ state \in {"expectValue", "midValue"} => f \in s
    /\ state = "midValue" => f \in caw
    /\ state = "expectValue" => f \notin cam
    /\ cam \subseteq s
    /\ cm = "Value" => state = "midValue" /\ f \in Plain

(* A nullable field's own Maybe follows its entry; a copy overrides it. *)
NullableOK == \A n \in Nullable :
    /\ wm[n] = "allowNull" => state = "midValue" /\ f = n
    /\ m # "Value" /\ n \notin s => wm[n] = "Absent"
    /\ n \in s /\ wm[n] = "Absent" => state = "expectValue" /\ f = n
    /\ wm[n] = "Value" => wv[n] \in Values
    /\ m # "Value" /\ state = "expectValue" /\ f = n => wm[n] = "Absent"

(* A plain field has its value once its entry is over. *)
PlainOK == \A k \in Plain \cap s :
    \/ wv[k] \in Values
    \/ /\ f = k
       /\ state = "expectValue" \/ (state = "midValue" /\ cm = "Absent")

(* Each call of the loop finds the assembler where the call before left    *)
(* it, and a finished node meets the first call only.                      *)
LoopOK ==
    /\ step \in {"idle", "key", "string", "value", "assign"}
    /\ itr \in Seq(Entry)
    /\ step \in {"string", "value", "assign"} => itr # << >>
    /\ step = "string" => state = "midKey"
    /\ step = "value" => state = "expectValue"
    /\ step = "assign" => state = "midValue" /\ ~ChildDone(f)
    /\ state = "finished" => m = "Value" /\ s = Fields
    /\ m = "Value" /\ step # "idle" => step = "key" /\ state = "finished"

(* What is known of the job: a node it did not start from and that can be  *)
(* handed out is its own result.                                           *)
JobOK ==
    /\ job \in [entries : Seq(Entry), from : {"none", "fresh", "dirty", "finished"}]
    /\ step # "idle" => job.from # "none"
    /\ job.from = "none" => job = NoJob
    /\ job.from \in {"fresh", "dirty"} /\ m = "Value"
          => step = "idle" /\ ret.out = "ok"

AssignInv == TypeOK /\ held = {} /\ EntryOK /\ NullableOK /\ PlainOK
             /\ BuiltNodeComplete /\ LoopOK /\ JobOK

(* The entries that the loop is done with. *)
Visited == 1 .. (Len(job.entries) - Len(itr))
InEntry == step \in {"value", "assign"}

(* What the loop has made of the entries of a node it assigns to a fresh   *)
(* builder: those it is done with are stored, one for each key seen.       *)
Progress ==
    /\ Len(itr) <= Len(job.entries)
    /\ \A j \in 1 .. Len(itr) :
          itr[j] = job.entries[(Len(job.entries) - Len(itr)) + j]
    /\ \A i \in Visited :
          /\ job.entries[i].key \in s
          /\ \/ job.entries[i].val \in Values
             \/ job.entries[i].val = Null /\ job.entries[i].key \in Nullable
          /\ Contents(job.entries[i].key) = job.entries[i].val
          /\ InEntry => job.entries[i].key # f
    /\ \A i, j \in Visited : job.entries[i].key = job.entries[j].key => i = j
    /\ \A k \in s : \/ InEntry /\ k = f
                    \/ \E i \in Visited : job.entries[i].key = k
    /\ InEntry => f = itr[1].key
    /\ step = "key" => Ready

FreshInv == job.from = "fresh" /\ step # "idle" => Progress

USE SchemaAssumption, EntriesAssumption

----------------------------------------------------------------------------
(* AssignInv is inductive.                                                 *)

LEMMA AssignInitInv == AssignInit => AssignInv
<1> SUFFICES ASSUME AssignInit PROVE AssignInv
  OBVIOUS
<1> USE DEF AssignInit, Init
<1>1. TypeOK /\ held = {}
  BY DEF TypeOK, NoneSeen, Out
<1>2. EntryOK /\ PlainOK /\ BuiltNodeComplete
  BY DEF EntryOK, PlainOK, BuiltNodeComplete
<1>3. NullableOK
  BY DEF NullableOK, NoneSeen
<1>4. LoopOK
  BY DEF LoopOK
<1>5. JobOK
  BY DEF JobOK, NoJob
<1> QED
  BY <1>1, <1>2, <1>3, <1>4, <1>5 DEF AssignInv

(* A call of the loop that is refused ends it and changes nothing else. *)
LEMMA RefusedEndsLoop ==
    ASSUME AssignInv, NEW op, NEW k \in Fields \cup {NoField, UnknownKey},
           NEW out \in {"error", "panic"}, Refused(op, k, out),
           step # "idle", step' = "idle", itr' \in Seq(Entry),
           UNCHANGED <<job, handles>>
    PROVE  AssignInv'
<1>1. UNCHANGED <<node, entry, child, begun, held>>
  BY DEF Refused, handles
<1>2. ret'.key \in Fields \cup {NoField, UnknownKey} /\ ret'.out \in Out
  BY DEF Refused, Returns, Out
<1>3. TypeOK' /\ held' = {} /\ EntryOK' /\ PlainOK' /\ BuiltNodeComplete'
  BY <1>1, <1>2 DEF AssignInv, TypeOK, EntryOK, PlainOK, BuiltNodeComplete,
     node, entry, child
<1>4. NullableOK'
  BY <1>1 DEF AssignInv, NullableOK, node, entry
<1>5. LoopOK'
  BY <1>1 DEF AssignInv, LoopOK, node, entry
<1>6. JobOK'
  BY <1>1 DEF AssignInv, JobOK, node
<1> QED
  BY <1>3, <1>4, <1>5, <1>6 DEF AssignInv

(* AssignNode is called on a builder that holds no copy. *)
LEMMA StartKeepsInv ==
    ASSUME ~ReuseCopied, AssignInv, NEW es \in Entries, StartAssign(es)
    PROVE  AssignInv'
<1>1. es \in Seq(Entry)
  BY DEF Entries, BoundedSeq, SeqOf
<1>2. UNCHANGED vars /\ step = "idle" /\ step' = "key" /\ itr' = es
  BY DEF StartAssign
<1>3. m = "Value" => state = "finished"
  BY DEF StartAssign, Copied
<1>4. job' = [entries |-> es,
              from |-> IF Fresh THEN "fresh"
                       ELSE IF m = "Value" THEN "finished" ELSE "dirty"]
  BY DEF StartAssign
<1>5. UNCHANGED <<node, entry, child, begun, held, ret>>
  BY <1>2 DEF vars, handles
<1>6. TypeOK' /\ held' = {} /\ EntryOK' /\ PlainOK' /\ BuiltNodeComplete'
  BY <1>5 DEF AssignInv, TypeOK, EntryOK, PlainOK, BuiltNodeComplete,
     node, entry, child
<1>7. NullableOK'
  BY <1>5 DEF AssignInv, NullableOK, node, entry
<1>8. LoopOK'
  BY <1>1, <1>2, <1>3, <1>5 DEF AssignInv, LoopOK, node, entry
<1>9. JobOK'
  BY <1>1, <1>2, <1>4, <1>5 DEF JobOK, Fresh, node
<1> QED
  BY <1>6, <1>7, <1>8, <1>9 DEF AssignInv

(* AssembleKey ends a complete entry; on a finished node it panics. *)
LEMMA LoopKeyKeepsInv ==
    ASSUME AssignInv, LoopKey
    PROVE  AssignInv'
<1>0. step = "key" /\ itr # << >> /\ UNCHANGED <<itr, job, handles>>
  BY DEF LoopKey
<1>1. CASE Ready
  <2> USE <1>0, <1>1 DEF LoopKey, AssembleKey, Goto, AssignInv, TypeOK, Ready,
          ValueFinished, Tidied, TidiedChild, TidiedMaybe, node, handles
  <2>1. ret'.out = "ok" /\ step' = "string" /\ m # "Value"
    BY DEF Returns, LoopOK
  <2>2. TypeOK' /\ held' = {}
    BY DEF Returns, Out
  <2>3. EntryOK'
    BY DEF EntryOK, Plain
  <2>4. NullableOK'
    BY <2>1 DEF NullableOK, EntryOK
  <2>5. PlainOK'
    BY DEF PlainOK, Plain, EntryOK
  <2>6. BuiltNodeComplete'
    BY <2>1 DEF BuiltNodeComplete
  <2>7. LoopOK'
    BY <2>1 DEF LoopOK
  <2>8. JobOK'
    BY <2>1 DEF JobOK
  <2> QED
    BY <2>2, <2>3, <2>4, <2>5, <2>6, <2>7, <2>8
<1>2. CASE ~Ready
  <2>1. Refused("AssembleKey", NoField, "panic")
    BY <1>2 DEF LoopKey, AssembleKey
  <2>2. step' = "idle"
    BY <2>1 DEF LoopKey, Goto, Refused, Returns
  <2>3. itr' \in Seq(Entry)
    BY <1>0 DEF AssignInv, LoopOK
  <2> QED
    BY <1>0, <2>1, <2>2, <2>3, RefusedEndsLoop
<1> QED
  BY <1>1, <1>2

(* The entry at the head of the iterator. *)
LEMMA HeadEntry ==
    ASSUME LoopOK, itr # << >>
    PROVE  /\ Head(itr) = itr[1] /\ Head(itr) \in Entry
           /\ Head(itr).key \in Keys /\ Head(itr).val \in Values \cup {Null, Bad}
           /\ Tail(itr) \in Seq(Entry) /\ Len(Tail(itr)) = Len(itr) - 1
           /\ \A j \in 1 .. Len(itr) - 1 : Tail(itr)[j] = itr[j + 1]
           /\ Len(itr) \in Nat /\ Len(itr) >= 1
<1>1. itr \in Seq(Entry)
  BY DEF LoopOK
<1>2. Head(itr) = itr[1] /\ Head(itr) \in Entry
  BY <1>1
<1>3. Head(itr).key \in Keys /\ Head(itr).val \in Values \cup {Null, Bad}
  BY <1>2 DEF Entry
<1>4. Tail(itr) \in Seq(Entry) /\ Len(Tail(itr)) = Len(itr) - 1
      /\ \A j \in 1 .. Len(itr) - 1 : Tail(itr)[j] = itr[j + 1]
  BY <1>1
<1>5. Len(itr) \in Nat /\ Len(itr) >= 1
  BY <1>1
<1> QED
  BY <1>2, <1>3, <1>4, <1>5

(* The key of an entry is accepted once. *)
LEMMA LoopStringKeepsInv ==
    ASSUME AssignInv, LoopString
    PROVE  AssignInv'
<1>0. step = "string" /\ itr # << >> /\ state = "midKey" /\ m # "Value"
      /\ UNCHANGED <<itr, job, handles>>
  BY DEF LoopString, AssignInv, LoopOK
<1>1. PICK k \in Keys : k = Head(itr).key /\ KeyAssignString(k)
  BY <1>0, HeadEntry DEF LoopString, AssignInv
<1>2. CASE FreshKey(k)
  <2> USE <1>0, <1>1, <1>2 DEF KeyAssignString, AssignInv, TypeOK, FreshKey,
          node, child, handles
  <2>1. ret'.out = "ok" /\ step' = "value"
    BY DEF Returns, LoopString, Goto
  <2>2. TypeOK' /\ held' = {}
    BY DEF Returns, Out
  <2>3. EntryOK'
    BY DEF EntryOK, Plain
  <2>4. NullableOK'
    BY DEF NullableOK
  <2>5. PlainOK'
    BY DEF PlainOK, Plain, EntryOK
  <2>6. BuiltNodeComplete'
    BY DEF BuiltNodeComplete
  <2>7. LoopOK'
    BY <2>1 DEF LoopOK
  <2>8. JobOK'
    BY <2>1 DEF JobOK
  <2> QED
    BY <2>2, <2>3, <2>4, <2>5, <2>6, <2>7, <2>8
<1>3. CASE ~FreshKey(k)
  <2>1. Refused("KeyAssignString", k, "error")
    BY <1>0, <1>1, <1>3 DEF KeyAssignString
  <2>2. step' = "idle"
    BY <2>1 DEF LoopString, Goto, Refused, Returns
  <2>3. itr' \in Seq(Entry) /\ k \in Fields \cup {NoField, UnknownKey}
    BY <1>0 DEF AssignInv, LoopOK, Keys
  <2> QED
    BY <1>0, <2>1, <2>2, <2>3, RefusedEndsLoop
<1> QED
  BY <1>2, <1>3

(* AssembleValue binds the child of that key. *)
LEMMA LoopValueKeepsInv ==
    ASSUME AssignInv, LoopValue
    PROVE  AssignInv'
<1>0. step = "value" /\ itr # << >> /\ state = "expectValue" /\ m # "Value"
      /\ UNCHANGED <<itr, job, handles>>
  BY DEF LoopValue, AssignInv, LoopOK
<1> USE <1>0 DEF AssembleValue, AssignInv, TypeOK, BindChild, handles
<1>1. ret'.out = "ok" /\ step' = "assign"
  BY DEF Returns, LoopValue, Goto
<1>2. f \in s /\ f \in Fields /\ f \notin cam /\ cm = "Absent"
  BY DEF EntryOK
<1>3. /\ state' = "midValue" /\ caw' = caw \cup {f} /\ cam' = cam \cup {f}
      /\ wm' = [n \in Nullable |-> IF n = f THEN "allowNull" ELSE wm[n]]
      /\ UNCHANGED <<m, wv, s, f, cm>>
  BY DEF LoopValue
<1>4. TypeOK' /\ held' = {}
  BY <1>2, <1>3 DEF Returns, Out, LoopValue
<1>5. EntryOK'
  BY <1>2, <1>3 DEF EntryOK, Plain
<1>6. NullableOK'
  BY <1>2, <1>3 DEF NullableOK
<1>7. PlainOK'
  BY <1>2, <1>3 DEF PlainOK, Plain
<1>8. BuiltNodeComplete'
  BY <1>3 DEF BuiltNodeComplete
<1>9. LoopOK'
  BY <1>1, <1>2, <1>3 DEF LoopOK, ChildDone, ChildMaybe
<1>10. JobOK'
  BY <1>1, <1>3 DEF JobOK
<1> QED
  BY <1>4, <1>5, <1>6, <1>7, <1>8, <1>9, <1>10

(* The child stores the value, or refuses it. *)
LEMMA LoopAssignKeepsInv ==
    ASSUME AssignInv, LoopAssign
    PROVE  AssignInv'
<1>0. step = "assign" /\ itr # << >> /\ state = "midValue" /\ m # "Value"
      /\ ~ChildDone(f) /\ itr' = Tail(itr) /\ UNCHANGED <<job, handles>>
  BY DEF LoopAssign, AssignInv, LoopOK
<1>1. f \in s /\ f \in Fields /\ f \in caw /\ f \in cam /\ f # NoField
  BY <1>0 DEF AssignInv, TypeOK, EntryOK
<1>2. itr' \in Seq(Entry) /\ Head(itr).val \in Values \cup {Null, Bad}
  BY <1>0, HeadEntry DEF AssignInv
<1>3. CASE ret'.out # "ok"
  <2>1. \E op : \E out \in {"error", "panic"} : Refused(op, f, out)
    BY <1>1, <1>3 DEF LoopAssign, ChildAssignNode, ChildAssign,
       ChildAssignNull, ChildWrongKind, Returns
  <2>2. step' = "idle"
    BY <1>3 DEF LoopAssign, Goto
  <2> QED
    BY <1>0, <1>1, <1>2, <2>1, <2>2, RefusedEndsLoop
<1>4. CASE ret'.out = "ok"
  <2> DEFINE x == IF Head(itr).val = Null THEN "Null" ELSE "Value"
  <2>1. /\ SetChildMaybe(f, x) /\ x \in {"Null", "Value"}
        /\ \/ x = "Value" /\ \E v \in Values : wv' = [wv EXCEPT ![f] = v]
           \/ x = "Null" /\ f \in Nullable /\ wv' = wv
        /\ UNCHANGED <<m, state, s, f, child>>
        /\ ret'.key = f /\ step' = "key"
    <3>1. CASE Head(itr).val = Null
      <4>1. ChildAssignNull(f)
        BY <3>1 DEF LoopAssign, ChildAssignNode
      <4>2. ChildMaybe(f) = "allowNull" /\ SetChildMaybe(f, "Null")
            /\ UNCHANGED <<m, wv, state, s, f, child>> /\ ret'.key = f
        BY <1>4, <4>1 DEF ChildAssignNull, Refused, Returns
      <4>3. f \in Nullable
        BY <4>2 DEF ChildMaybe, AssignInv, TypeOK
      <4> QED
        BY <3>1, <1>4, <4>2, <4>3 DEF LoopAssign, Goto
    <3>2. CASE Head(itr).val # Null
      <4>1. PICK v \in Values : ChildAssign(f, v)
        BY <1>4, <3>2 DEF LoopAssign, ChildAssignNode, ChildWrongKind, Refused,
           Returns
      <4>2. wv' = [wv EXCEPT ![f] = v] /\ SetChildMaybe(f, "Value")
            /\ UNCHANGED <<m, state, s, f, child>> /\ ret'.key = f
        BY <1>1, <1>4, <4>1 DEF ChildAssign, Refused, Returns
      <4> QED
        BY <3>2, <1>4, <4>2 DEF LoopAssign, Goto
    <3> QED
      BY <3>1, <3>2
  <2> HIDE DEF x
  <2> USE <1>0, <1>1, <2>1 DEF AssignInv, TypeOK, SetChildMaybe, child, handles
  <2>2. cm = "Absent" \/ f \in Nullable
    BY DEF ChildDone, ChildMaybe
  <2>3. TypeOK' /\ held' = {}
    BY <1>4 DEF Out
  <2>4. EntryOK'
    BY DEF EntryOK, Plain
  <2>5. NullableOK'
    BY DEF NullableOK
  <2>6. PlainOK'
    BY DEF PlainOK, Plain
  <2>7. BuiltNodeComplete'
    BY DEF BuiltNodeComplete
  <2>8. LoopOK'
    BY <1>2 DEF LoopOK
  <2>9. JobOK'
    BY DEF JobOK
  <2> QED
    BY <2>3, <2>4, <2>5, <2>6, <2>7, <2>8, <2>9
<1>5. ret'.out \in Out
  BY DEF LoopAssign, ChildAssignNode, ChildAssign, ChildAssignNull,
     ChildWrongKind, Refused, Returns, Out
<1> QED
  BY <1>3, <1>4

(* Finish completes the node, or asks for the missing fields. *)
LEMMA LoopFinishKeepsInv ==
    ASSUME AssignInv, LoopFinish
    PROVE  AssignInv'
<1>0. step = "key" /\ itr = << >> /\ step' = "idle"
      /\ UNCHANGED <<itr, job, handles>>
  BY DEF LoopFinish
<1>1. itr' \in Seq(Entry)
  BY <1>0 DEF AssignInv, LoopOK
<1>2. CASE Ready /\ Sufficient
  <2> USE <1>0, <1>1, <1>2 DEF Finish, AssignInv, TypeOK, Ready, ValueFinished,
          Sufficient, Tidied, TidiedChild, TidiedMaybe, handles
  <2>1. ret'.out = "ok" /\ m # "Value" /\ m' = "Value" /\ s = Fields
    BY DEF Returns, LoopFinish, LoopOK
  <2>2. TypeOK' /\ held' = {}
    BY DEF Returns, Out, LoopFinish
  <2>3. EntryOK'
    BY DEF EntryOK, Plain, LoopFinish
  <2>4. NullableOK'
    BY <2>1 DEF NullableOK, EntryOK, LoopFinish
  <2>5. PlainOK'
    BY DEF PlainOK, Plain, EntryOK, LoopFinish
  <2>6. BuiltNodeComplete'
    BY <2>1 DEF BuiltNodeComplete, NullableOK, PlainOK, Plain, EntryOK,
       LoopFinish
  <2>7. LoopOK'
    BY <2>1 DEF LoopOK, LoopFinish
  <2>8. JobOK'
    BY <2>1 DEF JobOK
  <2> QED
    BY <2>2, <2>3, <2>4, <2>5, <2>6, <2>7, <2>8
<1>3. CASE Ready /\ ~Sufficient
  <2> USE <1>0, <1>1, <1>3 DEF Finish, AssignInv, TypeOK, Ready, ValueFinished,
          Tidied, TidiedChild, TidiedMaybe, node, handles
  <2>1. ret'.out = "error" /\ m # "Value" /\ m' = m
    BY DEF Returns, LoopFinish, LoopOK
  <2>2. TypeOK' /\ held' = {}
    BY DEF Returns, Out, LoopFinish
  <2>3. EntryOK'
    BY DEF EntryOK, Plain, LoopFinish
  <2>4. NullableOK'
    BY <2>1 DEF NullableOK, EntryOK, LoopFinish
  <2>5. PlainOK'
    BY DEF PlainOK, Plain, EntryOK, LoopFinish
  <2>6. BuiltNodeComplete'
    BY <2>1 DEF BuiltNodeComplete
  <2>7. LoopOK'
    BY <2>1 DEF LoopOK, LoopFinish
  <2>8. JobOK'
    BY <2>1 DEF JobOK
  <2> QED
    BY <2>2, <2>3, <2>4, <2>5, <2>6, <2>7, <2>8
<1>4. CASE ~Ready
  <2>1. Refused("Finish", NoField, "panic")
    BY <1>4 DEF LoopFinish, Finish
  <2> QED
    BY <1>0, <1>1, <2>1, RefusedEndsLoop
<1> QED
  BY <1>2, <1>3, <1>4

(* A failing iterator ends the loop. *)
LEMMA LoopFailsKeepsInv ==
    ASSUME AssignInv, LoopFails
    PROVE  AssignInv'
<1>1. /\ Refused("IteratorNext", NoField, "error") /\ step = "key"
      /\ step' = "idle" /\ itr' \in Seq(Entry) /\ UNCHANGED <<job, handles>>
  BY DEF LoopFails, AssignInv, LoopOK
<1> QED
  BY <1>1, RefusedEndsLoop

(* The caller's other calls: they leave a dirty builder dirty, replace its *)
(* node by a whole copy, or reset it.                                      *)
LEMMA OtherCallKeepsInv ==
    ASSUME AssignInv, OtherCall
    PROVE  AssignInv'
<1>0. step = "idle" /\ step' = "idle" /\ job' = NoJob /\ itr' = << >>
  BY DEF OtherCall
<1>1. JobOK'
  BY <1>0 DEF JobOK, NoJob
<1>2. ret'.op \in {"BeginMap", "AssignNull", "AssignWrongKind", "Build",
                   "Reset", "AssignNode"}
      /\ ret'.key = NoField /\ ret'.out \in Out
  BY DEF OtherCall, BeginMap, AssignNull, AssignWrongKind, Build, Reset,
     AssignNode, Refused, Returns, Out
<1>3. held' = {} /\ begun' \in BOOLEAN
  BY <1>2 DEF OtherCall, CallerKeepsHandles, Given, AssignInv, TypeOK
<1> USE <1>0, <1>1, <1>2, <1>3 DEF AssignInv, TypeOK
<1>4. CASE UNCHANGED <<node, entry, child>>
  BY <1>4 DEF node, entry, child, EntryOK, NullableOK, PlainOK,
     BuiltNodeComplete, LoopOK
<1>5. CASE m = "Absent" /\ m' = "midvalue" /\ UNCHANGED <<wm, wv, entry, child>>
  BY <1>5 DEF entry, child, EntryOK, NullableOK, PlainOK,
     BuiltNodeComplete, LoopOK
<1>6. CASE Reset
  <2>1. TypeOK' /\ EntryOK' /\ PlainOK' /\ BuiltNodeComplete'
    BY <1>6 DEF Reset, NoneSeen, EntryOK, PlainOK, BuiltNodeComplete
  <2>2. NullableOK' /\ LoopOK'
    BY <1>6 DEF Reset, NoneSeen, NullableOK, LoopOK
  <2> QED
    BY <2>1, <2>2
<1>7. ASSUME NEW c \in CompleteNode, AssignNode(c), m = "Absent"
      PROVE  AssignInv'
  <2>1. /\ m' = "Value" /\ UNCHANGED <<entry, child>>
        /\ wv' = [k \in Fields |-> IF c[k] = Null THEN Zero ELSE c[k]]
        /\ wm' = [n \in Nullable |-> IF c[n] = Null THEN "Null" ELSE "Value"]
    BY <1>7 DEF AssignNode
  <2>2. TypeOK' /\ EntryOK' /\ BuiltNodeComplete'
    BY <2>1 DEF CompleteNode, EntryOK, BuiltNodeComplete, entry, child
  <2>3. NullableOK'
    BY <2>1 DEF CompleteNode, NullableOK, entry
  <2>4. PlainOK'
    BY <2>1 DEF CompleteNode, PlainOK, Plain, entry
  <2>5. LoopOK'
    BY <1>7, <2>1 DEF LoopOK, entry
  <2> QED
    BY <2>2, <2>3, <2>4, <2>5
<1>8. \/ UNCHANGED <<node, entry, child>>
      \/ m = "Absent" /\ m' = "midvalue" /\ UNCHANGED <<wm, wv, entry, child>>
      \/ Reset
      \/ m = "Absent" /\ \E c \in CompleteNode : AssignNode(c)
  BY DEF OtherCall, BeginMap, AssignNull, AssignWrongKind, Build, AssignNode,
     Refused
<1> QED
  BY <1>4, <1>5, <1>6, <1>7, <1>8

LEMMA AssignNextKeepsInv ==
    ASSUME ~ReuseCopied, AssignInv, [AssignNext]_allVars
    PROVE  AssignInv'
<1>1. CASE UNCHANGED allVars
  <2>1. UNCHANGED <<node, entry, child, begun, held, ret, step, itr, job>>
    BY <1>1 DEF allVars, vars, loopVars, handles
  <2>2. TypeOK' /\ held' = {} /\ EntryOK' /\ PlainOK' /\ BuiltNodeComplete'
    BY <2>1 DEF AssignInv, TypeOK, EntryOK, PlainOK, BuiltNodeComplete,
       node, entry, child
  <2>3. NullableOK'
    BY <2>1 DEF AssignInv, NullableOK, node, entry
  <2>4. LoopOK' /\ JobOK'
    BY <2>1 DEF AssignInv, LoopOK, JobOK, node, entry, ChildDone, ChildMaybe
  <2> QED
    BY <2>2, <2>3, <2>4 DEF AssignInv
<1>2. CASE \E es \in Entries : StartAssign(es)
  BY <1>2, StartKeepsInv
<1>3. CASE Loop \/ LoopFails
  BY <1>3, LoopKeyKeepsInv, LoopStringKeepsInv, LoopValueKeepsInv,
     LoopAssignKeepsInv, LoopFinishKeepsInv, LoopFailsKeepsInv DEF Loop
<1>4. CASE OtherCall
  BY <1>4, OtherCallKeepsInv
<1> QED
  BY <1>1, <1>2, <1>3, <1>4 DEF AssignNext

LEMMA AlwaysAssignInv ==
    ASSUME ~ReuseCopied PROVE AssignSpec => []AssignInv
<1>1. AssignInv /\ [AssignNext]_allVars => AssignInv'
  BY AssignNextKeepsInv
<1> QED
  BY <1>1, AssignInitInv, PTL DEF AssignSpec

(* Every node that Build hands out is complete, for every struct type,     *)
(* however AssignNode of foreign nodes of any size, whole copies, Reset    *)
(* and failed attempts follow one another (AssignNode, Finish).            *)
THEOREM RetriesBuildCompleteNodes ==
    ASSUME ~ReuseCopied PROVE AssignSpec => []CompleteUnderRetries
<1>1. AssignInv => CompleteUnderRetries
  BY DEF AssignInv, CompleteUnderRetries
<1> QED
  BY <1>1, AlwaysAssignInv, PTL

(* An AssignNode that failed, at whatever entry, leaves nothing that Build *)
(* would hand out, for every struct type and every node.                   *)
THEOREM FailedAssignsAreNotBuilt ==
    ASSUME ~ReuseCopied PROVE AssignSpec => []FailedAssignNotBuildable
<1>1. AssignInv => FailedAssignNotBuildable
  BY DEF AssignInv, JobOK, FailedAssignNotBuildable, Ended
<1> QED
  BY <1>1, AlwaysAssignInv, PTL

----------------------------------------------------------------------------
(* What AssignNode accepts on a fresh builder.                             *)

(* Entries that name all fields name each once just when they are as many. *)
LEMMA KeysOnce ==
    ASSUME NEW es \in Seq(Entry), {es[i].key : i \in DOMAIN es} = Fields
    PROVE  Len(es) = Cardinality(Fields)
              <=> \A i, j \in 1 .. Len(es) : es[i].key = es[j].key => i = j
<1> DEFINE n == Len(es)
           g == [i \in 1 .. n |-> es[i].key]
<1>1. n \in Nat /\ DOMAIN es = 1 .. n
  OBVIOUS
<1>2. g \in [1 .. n -> Fields] /\ \A t \in Fields : \E i \in 1 .. n : g[i] = t
  BY <1>1
<1>3. g \in Surjection(1 .. n, Fields)
  BY <1>2 DEF Surjection
<1>4. IsFiniteSet(1 .. n) /\ Cardinality(1 .. n) = n
  <2>1. IsFiniteSet(1 .. n) /\ Cardinality(1 .. n) = IF 1 > n THEN 0 ELSE n - 1 + 1
    BY <1>1, FS_Interval
  <2> QED
    BY <1>1, <2>1
<1>5. Cardinality(Fields) = n <=> g \in Injection(1 .. n, Fields)
  BY <1>3, <1>4, FS_Surjection
<1>6. g \in Injection(1 .. n, Fields) <=>
          \A i, j \in 1 .. n : g[i] = g[j] => i = j
  BY <1>2 DEF Injection, IsInjective
<1> QED
  BY <1>5, <1>6

(* The entry at the head of the iterator is the next of the job. *)
LEMMA NextEntry ==
    ASSUME AssignInv, Progress, itr # << >>,
           NEW n, n = Len(job.entries) - Len(itr)
    PROVE  /\ n \in Nat /\ n + 1 \in 1 .. Len(job.entries)
           /\ Visited = 1 .. n
           /\ job.entries[n + 1] = itr[1] /\ Head(itr) = itr[1]
           /\ job.entries \in Seq(Entry)
           /\ DOMAIN job.entries = 1 .. Len(job.entries)
<1>1. job.entries \in Seq(Entry)
  BY DEF AssignInv, JobOK
<1>2. Len(itr) \in Nat /\ Len(itr) >= 1 /\ Head(itr) = itr[1]
  BY HeadEntry DEF AssignInv
<1>3. Len(job.entries) \in Nat /\ DOMAIN job.entries = 1 .. Len(job.entries)
  BY <1>1
<1>4. n \in Nat /\ n + 1 \in 1 .. Len(job.entries)
  BY <1>2, <1>3 DEF Progress
<1>5. job.entries[n + 1] = itr[1]
  BY <1>2 DEF Progress
<1> QED
  BY <1>1, <1>2, <1>3, <1>4, <1>5 DEF Visited

(* Nothing that Progress speaks of changes. *)
LEMMA ProgressKept ==
    ASSUME AssignInv, Progress, UNCHANGED <<itr, job, s, f>>,
           step' \in {"idle", "key", "string", "value", "assign"},
           InEntry' = InEntry,
           \A i \in Visited : Contents(job.entries[i].key)'
                               = Contents(job.entries[i].key),
           step' = "key" => Ready'
    PROVE  Progress'
<1>1. Visited' = Visited
  BY DEF Visited
<1> QED
  BY <1>1 DEF Progress

(* A node with an entry of an unknown or repeated key is not valid. *)
LEMMA BadKeyInvalid ==
    ASSUME AssignInv, Progress, step = "string", itr # << >>,
           ~FreshKey(Head(itr).key)
    PROVE  ~ValidNode(job.entries)
<1> DEFINE n == Len(job.entries) - Len(itr)
           es == job.entries
           k == Head(itr).key
<1>1. /\ n \in Nat /\ n + 1 \in 1 .. Len(es) /\ Visited = 1 .. n
      /\ es[n + 1].key = k /\ es \in Seq(Entry) /\ DOMAIN es = 1 .. Len(es)
  BY NextEntry
<1> SUFFICES ASSUME ValidNode(es) PROVE FALSE
  OBVIOUS
<1>2. {es[i].key : i \in DOMAIN es} = Fields /\ Len(es) = Cardinality(Fields)
  BY DEF ValidNode
<1>3. k \in Fields
  BY <1>1, <1>2
<1>4. k \in s
  BY <1>3 DEF FreshKey
<1>5. PICK i \in Visited : es[i].key = k
  BY <1>4 DEF Progress, InEntry
<1>6. i \in 1 .. Len(es) /\ i # n + 1
  BY <1>1, <1>5
<1>7. \A x, y \in 1 .. Len(es) : es[x].key = es[y].key => x = y
  BY <1>1, <1>2, KeysOnce
<1> QED
  BY <1>1, <1>5, <1>6, <1>7

(* When the entries have run out, the fields seen tell a valid node. *)
LEMMA AllVisited ==
    ASSUME AssignInv, Progress, step = "key", itr = << >>
    PROVE  /\ Sufficient <=> ValidNode(job.entries)
           /\ \A i \in DOMAIN job.entries :
                 Contents(job.entries[i].key) = job.entries[i].val
<1> DEFINE es == job.entries
<1>1. /\ es \in Seq(Entry) /\ Len(es) \in Nat /\ DOMAIN es = 1 .. Len(es)
      /\ Visited = 1 .. Len(es)
  BY DEF AssignInv, JobOK, Visited
<1>2. \A i \in 1 .. Len(es) : /\ es[i].key \in s
                              /\ \/ es[i].val \in Values
                                 \/ es[i].val = Null /\ es[i].key \in Nullable
                              /\ Contents(es[i].key) = es[i].val
  BY <1>1 DEF Progress
<1>3. \A i, j \in 1 .. Len(es) : es[i].key = es[j].key => i = j
  BY <1>1 DEF Progress
<1>4. \A k \in s : \E i \in 1 .. Len(es) : es[i].key = k
  BY <1>1 DEF Progress, InEntry
<1>5. s \subseteq Fields
  BY DEF AssignInv, TypeOK
<1>6. {es[i].key : i \in DOMAIN es} = s
  BY <1>1, <1>2, <1>4
<1>7. Sufficient => ValidNode(es)
  <2> SUFFICES ASSUME Sufficient PROVE ValidNode(es)
    OBVIOUS
  <2>1. {es[i].key : i \in DOMAIN es} = Fields
    BY <1>5, <1>6 DEF Sufficient
  <2>2. Len(es) = Cardinality(Fields)
    BY <1>1, <1>3, <2>1, KeysOnce
  <2> QED
    BY <1>1, <1>2, <2>1, <2>2 DEF ValidNode
<1>8. ValidNode(es) => Sufficient
  BY <1>6 DEF ValidNode, Sufficient
<1> QED
  BY <1>1, <1>2, <1>7, <1>8

LoopFresh == AssignInv /\ job.from = "fresh" /\ step # "idle" /\ Progress

(* What a step of the loop has to show. *)
Kept == FreshInv' /\ AcceptsExactlyTheSchema'

LEMMA StartFresh ==
    ASSUME AssignInv, NEW es \in Entries, StartAssign(es)
    PROVE  Kept
<1>1. /\ itr' = es /\ job'.entries = es /\ step' = "key"
      /\ job'.from = "fresh" => Fresh /\ UNCHANGED vars
  BY DEF StartAssign
<1>2. es \in Seq(Entry) /\ Len(es) \in Nat
  BY DEF Entries, BoundedSeq, SeqOf
<1>3. ASSUME job'.from = "fresh"
      PROVE  Progress'
  <2>1. s' = {} /\ state' = "initial"
    BY <1>1, <1>3 DEF Fresh, vars, entry
  <2>2. Visited' = {}
    BY <1>1, <1>2 DEF Visited
  <2>3. Len(itr') = Len(es) /\ Len(job'.entries) - Len(itr') = 0
    BY <1>1, <1>2
  <2>4. \A j \in 1 .. Len(es) : es[j] = es[0 + j]
    BY <1>2
  <2>5. Ready'
    BY <2>1 DEF Ready
  <2> QED
    BY <1>1, <1>2, <2>1, <2>2, <2>3, <2>4, <2>5 DEF Progress, InEntry
<1> QED
  BY <1>1, <1>3 DEF Kept, FreshInv, AcceptsExactlyTheSchema, Ended

LEMMA LoopKeyFresh ==
    ASSUME LoopFresh, LoopKey
    PROVE  Kept
<1>1. step = "key" /\ Ready /\ UNCHANGED <<itr, job>>
  BY DEF LoopFresh, LoopKey, Progress
<1>2. ret'.out = "ok" /\ step' = "string" /\ UNCHANGED <<node, s, f>>
  BY <1>1 DEF LoopKey, AssembleKey, Returns, Goto
<1>3. Progress'
  BY <1>1, <1>2, ProgressKept DEF LoopFresh, InEntry, Contents, node
<1> QED
  BY <1>2, <1>3 DEF Kept, FreshInv, AcceptsExactlyTheSchema, Ended

LEMMA LoopStringFresh ==
    ASSUME LoopFresh, LoopString
    PROVE  Kept
<1> DEFINE k == Head(itr).key
<1>1. /\ step = "string" /\ itr # << >> /\ state = "midKey"
      /\ KeyAssignString(k) /\ UNCHANGED <<itr, job>>
  BY DEF LoopFresh, LoopString, AssignInv, LoopOK
<1>2. CASE FreshKey(k)
  <2>1. /\ ret'.out = "ok" /\ s' = s \cup {k} /\ f' = k /\ UNCHANGED node
        /\ k \notin s
    BY <1>1, <1>2 DEF KeyAssignString, Returns, FreshKey
  <2>2. step' = "value"
    BY <2>1 DEF LoopString, Goto
  <2>3. Visited' = Visited
    BY <1>1 DEF Visited
  <2>4. \A j \in Fields : Contents(j)' = Contents(j)
    BY <2>1 DEF Contents, node
  <2>5. k = itr[1].key
    BY <1>1, HeadEntry DEF LoopFresh, AssignInv
  <2>6. s \subseteq Fields
    BY DEF LoopFresh, AssignInv, TypeOK
  <2> HIDE DEF k
  <2>7. Progress'
    BY <1>1, <2>1, <2>2, <2>3, <2>4, <2>5, <2>6 DEF LoopFresh, Progress, InEntry
  <2> QED
    BY <2>2, <2>7 DEF Kept, FreshInv, AcceptsExactlyTheSchema, Ended
<1>3. CASE ~FreshKey(k)
  <2>1. ret'.out = "error"
    BY <1>1, <1>3 DEF KeyAssignString, Refused, Returns
  <2>2. step' = "idle"
    BY <2>1 DEF LoopString, Goto
  <2>3. ~ValidNode(job.entries)
    BY <1>1, <1>3, BadKeyInvalid DEF LoopFresh
  <2>4. ~ValidNode(job'.entries)
    BY <1>1, <2>3
  <2> QED
    BY <2>1, <2>2, <2>4 DEF Kept, FreshInv, AcceptsExactlyTheSchema, ValidNode
<1> QED
  BY <1>2, <1>3

LEMMA LoopValueFresh ==
    ASSUME LoopFresh, LoopValue
    PROVE  Kept
<1>1. step = "value" /\ state = "expectValue" /\ UNCHANGED <<itr, job>>
  BY DEF LoopFresh, LoopValue, AssignInv, LoopOK
<1>2. /\ ret'.out = "ok" /\ UNCHANGED <<wv, s, f>>
      /\ wm' = [n \in Nullable |-> IF n = f THEN "allowNull" ELSE wm[n]]
  BY <1>1 DEF LoopValue, AssembleValue, BindChild, Returns
<1>3. step' = "assign"
  BY <1>2 DEF LoopValue, Goto
<1>4. \A j \in Fields \ {f} : Contents(j)' = Contents(j)
  BY <1>2 DEF Contents
<1>5. \A i \in Visited : job.entries[i].key \in Fields \ {f}
  BY <1>1 DEF LoopFresh, Progress, InEntry, AssignInv, TypeOK
<1>6. \A i \in Visited : Contents(job.entries[i].key)'
                           = Contents(job.entries[i].key)
  BY <1>1, <1>4, <1>5
<1>7. Progress'
  BY <1>1, <1>2, <1>3, <1>6, ProgressKept DEF LoopFresh, InEntry
<1> QED
  BY <1>3, <1>7 DEF Kept, FreshInv, AcceptsExactlyTheSchema, Ended

LEMMA LoopAssignFresh ==
    ASSUME LoopFresh, LoopAssign
    PROVE  Kept
<1> DEFINE v == Head(itr).val
           n == Len(job.entries) - Len(itr)
           es == job.entries
<1>1. /\ step = "assign" /\ itr # << >> /\ state = "midValue" /\ ~ChildDone(f)
      /\ ChildAssignNode(f, v) /\ itr' = Tail(itr) /\ job' = job
  BY DEF LoopFresh, LoopAssign, AssignInv, LoopOK
<1>2. /\ n \in Nat /\ n + 1 \in 1 .. Len(es) /\ Visited = 1 .. n
      /\ es[n + 1] = itr[1] /\ Head(itr) = itr[1] /\ es \in Seq(Entry)
      /\ DOMAIN es = 1 .. Len(es)
  BY <1>1, NextEntry DEF LoopFresh
<1>3. es[n + 1].val = v /\ es[n + 1].key = f
  BY <1>1, <1>2 DEF LoopFresh, Progress, InEntry
<1>4. f \in s /\ f \in Fields /\ f \in caw /\ f \in cam
  BY <1>1 DEF LoopFresh, AssignInv, TypeOK, EntryOK
<1>5. f \in Nullable => wm[f] = "allowNull"
  BY <1>1, <1>4 DEF LoopFresh, AssignInv, TypeOK, NullableOK, ChildDone, ChildMaybe
<1>6. f \notin Nullable => cm = "Absent"
  BY <1>1 DEF LoopFresh, AssignInv, TypeOK, ChildDone, ChildMaybe
<1>7. v \in Values \cup {Null, Bad}
  BY <1>1, HeadEntry DEF LoopFresh, AssignInv
<1> HIDE DEF v, n, es
<1>8. CASE v \in Values \/ (v = Null /\ f \in Nullable)
  <2>1. /\ ret'.out = "ok" /\ UNCHANGED <<state, s, f>>
        /\ Contents(f)' = v /\ \A j \in Fields \ {f} : Contents(j)' = Contents(j)
        /\ ValueFinished'
    <3>1. CASE v \in Values
      <4>1. ChildAssign(f, v)
        BY <1>1, <3>1 DEF ChildAssignNode
      <4>2. /\ wv' = [wv EXCEPT ![f] = v] /\ SetChildMaybe(f, "Value")
            /\ ret'.out = "ok" /\ UNCHANGED <<state, s, f>>
        BY <1>1, <1>4, <4>1 DEF ChildAssign, Returns
      <4> QED
        BY <1>4, <3>1, <4>2 DEF Contents, SetChildMaybe, ValueFinished, LoopFresh,
           AssignInv, TypeOK
    <3>2. CASE v = Null /\ f \in Nullable
      <4>1. ChildAssignNull(f)
        BY <1>1, <3>2 DEF ChildAssignNode
      <4>2. /\ wv' = wv /\ SetChildMaybe(f, "Null")
            /\ ret'.out = "ok" /\ UNCHANGED <<state, s, f>>
        BY <1>1, <1>4, <1>5, <3>2, <4>1 DEF ChildAssignNull, ChildMaybe, Returns,
           ChildDone
      <4> QED
        BY <1>4, <3>2, <4>2 DEF Contents, SetChildMaybe, ValueFinished
    <3> QED
      BY <1>8, <3>1, <3>2
  <2>2. step' = "key"
    BY <2>1 DEF LoopAssign, Goto
  <2>3. Len(itr') = Len(itr) - 1 /\ Len(itr) \in Nat /\ Len(itr) >= 1
        /\ \A j \in 1 .. Len(itr) - 1 : itr'[j] = itr[j + 1]
    BY <1>1, HeadEntry DEF LoopFresh, AssignInv
  <2>4. Len(es) \in Nat
    BY <1>2
  <2>5. Len(es) - Len(itr') = n + 1 /\ n = Len(es) - Len(itr)
    BY <2>3, <2>4 DEF n, es
  <2>6. Visited' = 1 .. n + 1
    BY <1>1, <2>5 DEF Visited, es
  <2>7. /\ \A i \in 1 .. n : /\ es[i].key \in s
                             /\ \/ es[i].val \in Values
                                \/ es[i].val = Null /\ es[i].key \in Nullable
                             /\ Contents(es[i].key) = es[i].val
                             /\ es[i].key # f
        /\ \A i, j \in 1 .. n : es[i].key = es[j].key => i = j
        /\ \A k \in s : k = f \/ \E i \in 1 .. n : es[i].key = k
        /\ \A j \in 1 .. Len(itr) : itr[j] = es[n + j]
    BY <1>1, <1>2 DEF LoopFresh, Progress, InEntry, es, n
  <2>8. \A j \in 1 .. Len(itr') : itr'[j] = es[(n + 1) + j]
    <3> TAKE j \in 1 .. Len(itr')
    <3>0. j \in 1 .. Len(itr) - 1
      BY <2>3
    <3>1. j + 1 \in 1 .. Len(itr) /\ n + (j + 1) = (n + 1) + j
      <4>1. n \in Nat /\ Len(itr) \in Nat
        BY <1>2, <2>3
      <4> QED
        BY <3>0, <4>1
    <3>2. itr[j + 1] = es[n + (j + 1)]
      BY <2>7, <3>1
    <3> QED
      BY <2>3, <3>0, <3>1, <3>2
  <2>9. s \subseteq Fields
    BY DEF LoopFresh, AssignInv, TypeOK
  <2>10. ASSUME NEW i \in 1 .. n + 1
         PROVE  /\ es[i].key \in s
                /\ \/ es[i].val \in Values
                   \/ es[i].val = Null /\ es[i].key \in Nullable
                /\ Contents(es[i].key)' = es[i].val
    <3>1. CASE i = n + 1
      <4>1. es' = es
        BY <1>1 DEF es
      <4>2. Contents(f)' = v /\ es[i].key = f /\ es[i].val = v
        BY <1>3, <2>1, <3>1
      <4>3. f' = f
        BY <2>1
      <4>4. Contents(es[i].key)' = v
        BY <4>1, <4>2, <4>3
      <4> QED
        BY <1>4, <1>8, <4>2, <4>4
    <3>2. CASE i \in 1 .. n
      <4>1. es[i].key \in Fields \ {f}
        BY <2>7, <2>9, <3>2
      <4>2. es' = es
        BY <1>1 DEF es
      <4>3. Contents(es[i].key)' = Contents(es[i].key)
        BY <2>1, <4>1, <4>2
      <4> QED
        BY <2>7, <3>2, <4>3
    <3> QED
      BY <1>2, <3>1, <3>2
  <2>11. \A i, j \in 1 .. n + 1 : es[i].key = es[j].key => i = j
    <3> SUFFICES ASSUME NEW i \in 1 .. n + 1, NEW j \in 1 .. n + 1,
                        es[i].key = es[j].key
                 PROVE  i = j
      OBVIOUS
    <3>1. (i \in 1 .. n \/ i = n + 1) /\ (j \in 1 .. n \/ j = n + 1)
      BY <1>2
    <3> QED
      BY <1>3, <2>7, <3>1
  <2>12. \A k \in s : \E i \in 1 .. n + 1 : es[i].key = k
    <3> TAKE k \in s
    <3>1. CASE k = f
      BY <1>2, <1>3, <3>1
    <3>2. CASE \E i \in 1 .. n : es[i].key = k
      BY <1>2, <3>2
    <3> QED
      BY <2>7, <3>1, <3>2
  <2>13. Ready'
    BY <1>1, <2>1 DEF Ready
  <2>14. es' = es /\ job' = job /\ s' = s /\ Len(itr') <= Len(es)
    BY <1>1, <1>2, <2>1, <2>3, <2>4, <2>5 DEF es
  <2>15. Progress'
    BY <2>2, <2>5, <2>6, <2>8, <2>10, <2>11, <2>12, <2>13, <2>14
       DEF Progress, InEntry, es
  <2> QED
    BY <2>2, <2>15 DEF Kept, FreshInv, AcceptsExactlyTheSchema, Ended
<1>9. CASE ~(v \in Values \/ (v = Null /\ f \in Nullable))
  <2>1. ret'.out = "error"
    <3>1. CASE v = Null
      <4>1. ChildAssignNull(f) /\ ChildMaybe(f) = "Absent"
        BY <1>1, <1>6, <1>9, <3>1 DEF ChildAssignNode, ChildMaybe
      <4> QED
        BY <1>1, <1>4, <4>1 DEF ChildAssignNull, Refused, Returns
    <3>2. CASE v = Bad
      BY <1>1, <3>2 DEF ChildAssignNode, ChildWrongKind, Refused, Returns
    <3> QED
      BY <1>7, <1>9, <3>1, <3>2
  <2>2. step' = "idle"
    BY <2>1 DEF LoopAssign, Goto
  <2>3. ~ValidNode(es)
    BY <1>2, <1>3, <1>9 DEF ValidNode
  <2>4. ~ValidNode(job'.entries)
    BY <1>1, <2>3 DEF es
  <2> QED
    BY <2>1, <2>2, <2>4 DEF Kept, FreshInv, AcceptsExactlyTheSchema
<1> QED
  BY <1>8, <1>9

LEMMA LoopFinishFresh ==
    ASSUME LoopFresh, LoopFinish
    PROVE  Kept
<1>1. step = "key" /\ itr = << >> /\ Ready /\ step' = "idle" /\ job' = job
  BY DEF LoopFresh, LoopFinish, Progress
<1>2. /\ Sufficient <=> ValidNode(job.entries)
      /\ \A i \in DOMAIN job.entries :
            Contents(job.entries[i].key) = job.entries[i].val
  BY <1>1, AllVisited DEF LoopFresh
<1>3. /\ ret'.out = IF Sufficient THEN "ok" ELSE "error"
      /\ UNCHANGED <<wm, wv>>
  BY <1>1 DEF LoopFinish, Finish, Returns, node
<1>4. \A i \in DOMAIN job.entries : Contents(job.entries[i].key)'
                                   = Contents(job.entries[i].key)
  BY <1>1, <1>3 DEF Contents
<1>5. ret'.out = IF ValidNode(job'.entries) THEN "ok" ELSE "error"
  BY <1>1, <1>2, <1>3
<1>6. \A i \in DOMAIN job'.entries :
          Contents(job.entries[i].key)' = job'.entries[i].val
  BY <1>1, <1>2, <1>4
<1>7. FreshInv'
  BY <1>1 DEF FreshInv
<1>8. AcceptsExactlyTheSchema'
  BY <1>5, <1>6 DEF AcceptsExactlyTheSchema, ValidNode
<1> QED
  BY <1>7, <1>8 DEF Kept

(* Where the iterator failed nothing is said of the entries. *)
LEMMA LoopFailsFresh == LoopFails => Kept
  BY DEF LoopFails, Refused, Returns, Kept, FreshInv, AcceptsExactlyTheSchema

LEMMA AcceptStep ==
    ASSUME AssignInv, FreshInv, AcceptsExactlyTheSchema, [AssignNext]_allVars
    PROVE  Kept
<1>1. CASE UNCHANGED allVars
  <2>1. UNCHANGED <<node, entry, ret, step, itr, job>>
    BY <1>1 DEF allVars, vars, loopVars
  <2>2. FreshInv'
    BY <2>1 DEF FreshInv, Progress, Visited, InEntry, Contents, Ready,
       ValueFinished, node, entry
  <2>3. AcceptsExactlyTheSchema'
    BY <2>1 DEF AcceptsExactlyTheSchema, Ended, ValidNode, Contents, node, entry
  <2> QED
    BY <2>2, <2>3 DEF Kept
<1>2. CASE \E es \in Entries : StartAssign(es)
  BY <1>2, StartFresh
<1>3. CASE Loop \/ LoopFails
  <2>1. step # "idle" /\ job' = job
    BY <1>3 DEF Loop, LoopKey, LoopFails, LoopString, LoopValue, LoopAssign,
       LoopFinish
  <2>2. CASE job.from = "fresh"
    <3>1. LoopFresh
      BY <2>1, <2>2 DEF LoopFresh, FreshInv
    <3> QED
      BY <1>3, <3>1, LoopKeyFresh, LoopStringFresh, LoopValueFresh,
         LoopAssignFresh, LoopFinishFresh, LoopFailsFresh DEF Loop
  <2>3. CASE job.from # "fresh"
    BY <2>1, <2>3 DEF Kept, FreshInv, AcceptsExactlyTheSchema
  <2> QED
    BY <2>2, <2>3
<1>4. CASE OtherCall
  BY <1>4 DEF OtherCall, Kept, FreshInv, AcceptsExactlyTheSchema, Ended, NoJob
<1> QED
  BY <1>1, <1>2, <1>3, <1>4 DEF AssignNext

(* On a fresh builder AssignNode accepts exactly the nodes the schema      *)
(* allows and stores what they hold, for every struct type, every node and *)
(* every order of its entries: a missing, repeated, unknown or ill-typed   *)
(* one is an error, and nothing panics.                                    *)
THEOREM AssignAcceptsExactlyTheSchema ==
    ASSUME ~ReuseCopied PROVE AssignSpec => []AcceptsExactlyTheSchema
<1>1. AssignInit => FreshInv /\ AcceptsExactlyTheSchema
  BY DEF AssignInit, NoJob, FreshInv, AcceptsExactlyTheSchema, Ended
<1>2. AssignInv /\ FreshInv /\ AcceptsExactlyTheSchema /\ [AssignNext]_allVars
        => FreshInv' /\ AcceptsExactlyTheSchema'
  BY AcceptStep DEF Kept
<1> QED
  BY <1>1, <1>2, AlwaysAssignInv, PTL DEF AssignSpec
=============================================================================
