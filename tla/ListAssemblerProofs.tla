------------------------ MODULE ListAssemblerProofs ------------------------
(***************************************************************************)
(* Proofs about the assembler of a list of structs, for lists of any       *)
(* length and elements with any fields.                                    *)
(*                                                                         *)
(* They hold for callers that drop an element's handles with it (KeepStale *)
(* is FALSE) and iterators that do not fail (IteratorFails is FALSE): one  *)
(* that fails between two entries leaves a value in the Maybe that the     *)
(* next element inherits.                                                  *)
(*                                                                         *)
(* One element assembler serves all elements, and what valueFinishTidy     *)
(* leaves of one is there for the next: the child pointers, the field of   *)
(* the last entry and the shared Maybe.  ListInv says why none of these    *)
(* matters: whoever finishes an element has used the Maybe up.             *)
(***************************************************************************)
EXTENDS ListAssembler, TLAPS

Plain == Fields \ Nullable

(* The element: where its entry is, what its fields hold. *)
ElementType ==
    /\ m \in {"Absent", "midvalue", "Value"}
    /\ state \in {"initial", "midKey", "expectValue", "midValue", "finished"}
    /\ s \subseteq Fields
    /\ f \in Fields \cup {NoField}
    /\ cm \in {"Absent", "Value"}
    /\ wm \in [Nullable -> {"Absent", "allowNull", "Null", "Value"}]
    /\ wv \in [Fields -> Values \cup {Zero}]
    /\ caw \subseteq cam /\ cam \subseteq Fields

EntryOK ==
    /\ state \in {"expectValue", "midValue"} => f \in s
    /\ state = "midValue" => f \in caw
    /\ state = "finished" => m = "Value" /\ s = Fields
    /\ cm = "Value" => state = "midValue" /\ f \in Plain

NullableOK == \A n \in Nullable :
    /\ wm[n] = "allowNull" => state = "midValue" /\ f = n
    /\ m # "Value" /\ n \notin s => wm[n] = "Absent"
    /\ n \in s /\ wm[n] = "Absent" => state = "expectValue" /\ f = n
    /\ wm[n] = "Value" => wv[n] \in Values
    /\ m # "Value" /\ state = "expectValue" /\ f = n => wm[n] = "Absent"

PlainOK == \A k \in Plain \cap s :
    \/ wv[k] \in Values
    \/ /\ f = k
       /\ state = "expectValue" \/ (state = "midValue" /\ cm = "Absent")

ElementInv == ElementType /\ EntryOK /\ NullableOK /\ PlainOK
              /\ BuiltNodeComplete

(* Who may call the element: the caller on the map it began, or AssignNode *)
(* of a foreign map, and one of them whenever the shared Maybe is in use.  *)
HandlesOK ==
    /\ begun \in BOOLEAN /\ looping \in BOOLEAN
    /\ held # {} => begun /\ state = "midValue" /\ held = {f}
    /\ begun => m # "Absent"
    /\ begun /\ m = "Value" => state = "finished"
    /\ looping => ~begun /\ m = "Absent"
    /\ cm = "Value" => m # "Value" /\ (begun \/ looping)

(* The list: its rows are whole, and an element is in somebody's hands     *)
(* only while it is being assembled.                                       *)
ListOK ==
    /\ lm \in {"Absent", "midvalue", "Value"}
    /\ lstate \in {"initial", "midValue", "finished"}
    /\ rows \in Seq(CompleteNode)
    /\ inList \in BOOLEAN
    /\ holder \in {"nobody", "caller", "loop"}
    /\ lstate = "initial" => /\ ~inList /\ ~begun /\ ~looping
                             /\ m = "Absent" /\ state = "initial" /\ s = {}
    /\ lstate # "midValue" => holder = "nobody"
    /\ holder # "nobody" => lm # "Value"
    /\ looping => holder # "nobody"

ListInv == ElementInv /\ HandlesOK /\ ListOK

USE SchemaAssumption, ListAssumption

LEMMA InitListInv == ListInit => ListInv
<1> SUFFICES ASSUME ListInit PROVE ListInv
  OBVIOUS
<1> USE DEF ListInit, Init
<1>1. ElementInv
  BY DEF ElementInv, ElementType, EntryOK, NullableOK, PlainOK,
     BuiltNodeComplete, NoneSeen
<1>2. HandlesOK
  BY DEF HandlesOK
<1>3. rows \in Seq(CompleteNode)
  OBVIOUS
<1>4. ListOK
  BY <1>3 DEF ListOK
<1> QED
  BY <1>1, <1>2, <1>4 DEF ListInv

----------------------------------------------------------------------------
(* The calls on an element, whoever makes them.                            *)

(* What a call on the element's map does to the entry and to the node. *)
MapStep ==
    /\ ElementInv'
    /\ m' = m \/ (m' = "Value" /\ state' = "finished")
    /\ m = "Value" => UNCHANGED <<node, entry>>
    /\ cm' = "Value" => UNCHANGED <<node, entry>>
    /\ ret'.op \notin {"Reset", "BeginMap"}
    /\ \/ Given = {} /\ state' # "midValue"
       \/ Given = {} /\ UNCHANGED entry
       \/ Given = {f'} /\ state' = "midValue"

(* What a call on the child of the current entry does. *)
ChildStep == /\ ElementInv'
             /\ m' = m /\ state' = state /\ s' = s /\ f' = f
             /\ cm' = "Value" => cm = "Value" \/ ret'.out = "ok"
             /\ Given = {} /\ ret'.op \notin {"Reset", "BeginMap"}

LEMMA RefusedKeepsElement ==
    ASSUME ElementInv, UNCHANGED <<node, entry, child>>
    PROVE  ElementInv'
  BY DEF ElementInv, ElementType, EntryOK, NullableOK, PlainOK,
     BuiltNodeComplete, node, entry, child

LEMMA RefusedMapStep ==
    ASSUME ElementInv, NEW op, NEW k, NEW out, Refused(op, k, out),
           out # "ok", op \notin {"Reset", "BeginMap"}
    PROVE  MapStep
<1>1. UNCHANGED <<node, entry, child>> /\ Given = {}
      /\ ret'.op \notin {"Reset", "BeginMap"}
  BY DEF Refused, Returns, Given
<1> QED
  BY <1>1, RefusedKeepsElement DEF MapStep, node, entry

LEMMA AssembleKeyStep ==
    ASSUME ElementInv, m = "Value" => state = "finished", AssembleKey
    PROVE  MapStep
<1>1. CASE Ready
  <2> USE <1>1 DEF AssembleKey, ElementInv, ElementType, Ready, ValueFinished,
          Tidied, TidiedChild, TidiedMaybe, node
  <2>1. ElementType'
    OBVIOUS
  <2>2. EntryOK'
    BY DEF EntryOK, Plain
  <2>3. NullableOK'
    BY DEF NullableOK, EntryOK
  <2>4. PlainOK'
    BY DEF PlainOK, Plain, EntryOK
  <2>5. BuiltNodeComplete'
    BY DEF BuiltNodeComplete
  <2>6. Given = {} /\ state' = "midKey" /\ m' = m /\ m # "Value"
        /\ ret'.op \notin {"Reset", "BeginMap"}
    BY DEF Returns, Given
  <2>7. cm' = "Absent"
    BY DEF EntryOK, Plain
  <2> QED
    BY <2>1, <2>2, <2>3, <2>4, <2>5, <2>6, <2>7 DEF MapStep
<1>2. CASE ~Ready
  BY <1>2, RefusedMapStep DEF AssembleKey
<1> QED
  BY <1>1, <1>2

LEMMA KeyAssignStringStep ==
    ASSUME ElementInv, m = "Value" => state = "finished",
           NEW k \in Keys, KeyAssignString(k)
    PROVE  MapStep
<1>1. CASE state = "midKey" /\ FreshKey(k)
  <2> USE <1>1 DEF KeyAssignString, ElementInv, ElementType, FreshKey, node,
          child
  <2>1. ElementType'
    OBVIOUS
  <2>2. EntryOK'
    BY DEF EntryOK, Plain
  <2>3. NullableOK'
    BY DEF NullableOK, EntryOK
  <2>4. PlainOK'
    BY DEF PlainOK, Plain, EntryOK
  <2>5. BuiltNodeComplete'
    BY DEF BuiltNodeComplete
  <2>6. Given = {} /\ state' = "expectValue" /\ m' = m /\ m # "Value"
        /\ ret'.op \notin {"Reset", "BeginMap"}
    BY DEF Returns, Given
  <2>7. cm' = "Absent"
    BY DEF EntryOK, Plain
  <2> QED
    BY <2>1, <2>2, <2>3, <2>4, <2>5, <2>6, <2>7 DEF MapStep
<1>2. CASE state # "midKey" \/ ~FreshKey(k)
  BY <1>2, RefusedMapStep DEF KeyAssignString
<1> QED
  BY <1>1, <1>2

LEMMA AssembleValueStep ==
    ASSUME ElementInv, m = "Value" => state = "finished", AssembleValue
    PROVE  MapStep
<1>1. CASE state = "expectValue"
  <2> USE <1>1 DEF AssembleValue, ElementInv, ElementType, BindChild
  <2>0. f \in Fields
    BY DEF EntryOK
  <2>1. ElementType'
    BY <2>0
  <2>2. EntryOK'
    BY DEF EntryOK, Plain
  <2>3. NullableOK'
    BY DEF NullableOK, EntryOK
  <2>4. PlainOK'
    BY DEF PlainOK, Plain, EntryOK
  <2>5. BuiltNodeComplete'
    BY DEF BuiltNodeComplete
  <2>6. Given = {f'} /\ state' = "midValue" /\ m' = m /\ m # "Value"
        /\ ret'.op \notin {"Reset", "BeginMap"}
    BY DEF Returns, Given
  <2>7. cm' = "Absent"
    BY DEF EntryOK, Plain
  <2> QED
    BY <2>1, <2>2, <2>3, <2>4, <2>5, <2>6, <2>7 DEF MapStep
<1>2. CASE state # "expectValue"
  BY <1>2, RefusedMapStep DEF AssembleValue
<1> QED
  BY <1>1, <1>2

LEMMA AssembleEntryStep ==
    ASSUME ElementInv, m = "Value" => state = "finished",
           NEW k \in Keys, AssembleEntry(k)
    PROVE  MapStep
<1>1. CASE Ready /\ FreshKey(k)
  <2> USE <1>1 DEF AssembleEntry, ElementInv, ElementType, BindChild,
          FreshKey, Ready, ValueFinished, Tidied, TidiedChild, TidiedMaybe
  <2>1. ElementType'
    OBVIOUS
  <2>2. EntryOK'
    BY DEF EntryOK, Plain
  <2>3. NullableOK'
    BY DEF NullableOK, EntryOK
  <2>4. PlainOK'
    BY DEF PlainOK, Plain, EntryOK
  <2>5. BuiltNodeComplete'
    BY DEF BuiltNodeComplete
  <2>6. Given = {f'} /\ state' = "midValue" /\ m' = m /\ m # "Value"
        /\ ret'.op \notin {"Reset", "BeginMap"}
    BY DEF Returns, Given
  <2>7. cm' = "Absent"
    BY DEF EntryOK, Plain
  <2> QED
    BY <2>1, <2>2, <2>3, <2>4, <2>5, <2>6, <2>7 DEF MapStep
<1>2. CASE Ready /\ ~FreshKey(k)
  <2> USE <1>2 DEF AssembleEntry, ElementInv, ElementType, Ready,
          ValueFinished, Tidied, TidiedChild, TidiedMaybe, node
  <2>1. ElementType'
    OBVIOUS
  <2>2. EntryOK'
    BY DEF EntryOK, Plain
  <2>3. NullableOK'
    BY DEF NullableOK, EntryOK
  <2>4. PlainOK'
    BY DEF PlainOK, Plain, EntryOK
  <2>5. BuiltNodeComplete'
    BY DEF BuiltNodeComplete
  <2>6. Given = {} /\ state' = "initial" /\ m' = m /\ m # "Value"
        /\ ret'.op \notin {"Reset", "BeginMap"}
    BY DEF Returns, Given
  <2>7. cm' = "Absent"
    BY DEF EntryOK, Plain
  <2> QED
    BY <2>1, <2>2, <2>3, <2>4, <2>5, <2>6, <2>7 DEF MapStep
<1>3. CASE ~Ready
  BY <1>3, RefusedMapStep DEF AssembleEntry
<1> QED
  BY <1>1, <1>2, <1>3

LEMMA FinishStep ==
    ASSUME ElementInv, m = "Value" => state = "finished", Finish
    PROVE  MapStep
<1>1. CASE Ready /\ Sufficient
  <2> USE <1>1 DEF Finish, ElementInv, ElementType, Ready, ValueFinished,
          Sufficient, Tidied, TidiedChild, TidiedMaybe
  <2>1. ElementType'
    OBVIOUS
  <2>2. EntryOK'
    BY DEF EntryOK, Plain
  <2>3. NullableOK'
    BY DEF NullableOK, EntryOK
  <2>4. PlainOK'
    BY DEF PlainOK, Plain, EntryOK
  <2>5. BuiltNodeComplete'
    BY DEF BuiltNodeComplete, NullableOK, PlainOK, Plain, EntryOK
  <2>6. Given = {} /\ state' = "finished" /\ m' = "Value" /\ m # "Value"
        /\ ret'.op \notin {"Reset", "BeginMap"}
    BY DEF Returns, Given
  <2>7. cm' = "Absent"
    BY DEF EntryOK, Plain
  <2> QED
    BY <2>1, <2>2, <2>3, <2>4, <2>5, <2>6, <2>7 DEF MapStep
<1>2. CASE Ready /\ ~Sufficient
  <2> USE <1>2 DEF Finish, ElementInv, ElementType, Ready, ValueFinished,
          Tidied, TidiedChild, TidiedMaybe, node
  <2>1. ElementType'
    OBVIOUS
  <2>2. EntryOK'
    BY DEF EntryOK, Plain
  <2>3. NullableOK'
    BY DEF NullableOK, EntryOK
  <2>4. PlainOK'
    BY DEF PlainOK, Plain, EntryOK
  <2>5. BuiltNodeComplete'
    BY DEF BuiltNodeComplete
  <2>6. Given = {} /\ state' = "initial" /\ m' = m /\ m # "Value"
        /\ ret'.op \notin {"Reset", "BeginMap"}
    BY DEF Returns, Given
  <2>7. cm' = "Absent"
    BY DEF EntryOK, Plain
  <2> QED
    BY <2>1, <2>2, <2>3, <2>4, <2>5, <2>6, <2>7 DEF MapStep
<1>3. CASE ~Ready
  BY <1>3, RefusedMapStep DEF Finish
<1> QED
  BY <1>1, <1>2, <1>3

(* The child of the current entry stores its value, or null, and no other. *)
LEMMA ChildAssignStep ==
    ASSUME ElementInv, m # "Value", state = "midValue",
           NEW v \in Values, ChildAssign(f, v)
    PROVE  ChildStep
<1>0. f \in Fields /\ f \in caw
  BY DEF ElementInv, ElementType, EntryOK
<1>1. CASE f \in cam /\ ~ChildDone(f) /\ f \in caw
  <2> USE <1>0, <1>1 DEF ChildAssign, ElementInv, ElementType, ChildDone,
          ChildMaybe, SetChildMaybe, child
  <2>1. ElementType'
    OBVIOUS
  <2>2. EntryOK'
    BY DEF EntryOK, Plain
  <2>3. NullableOK'
    BY DEF NullableOK, EntryOK
  <2>4. PlainOK'
    BY DEF PlainOK, Plain, EntryOK
  <2>5. BuiltNodeComplete'
    BY DEF BuiltNodeComplete
  <2>6. Given = {} /\ ret'.out = "ok"
        /\ ret'.op \notin {"Reset", "BeginMap"}
    BY DEF Returns, Given
  <2> QED
    BY <2>1, <2>2, <2>3, <2>4, <2>5, <2>6 DEF ChildStep
<1>2. CASE ~(f \in cam /\ ~ChildDone(f) /\ f \in caw)
  <2>1. Refused("ChildAssign", f, "panic")
    BY <1>0, <1>2 DEF ChildAssign
  <2>2. UNCHANGED <<node, entry, child>> /\ Given = {}
        /\ ret'.op \notin {"Reset", "BeginMap"}
    BY <2>1 DEF Refused, Returns, Given
  <2> QED
    BY <2>2, RefusedKeepsElement DEF ChildStep, node, entry
<1> QED
  BY <1>1, <1>2

LEMMA ChildAssignNullStep ==
    ASSUME ElementInv, m # "Value", state = "midValue",
           ChildAssignNull(f) \/ ChildWrongKind(f)
    PROVE  ChildStep
<1>0. f \in Fields
  BY DEF ElementInv, ElementType, EntryOK
<1>1. CASE f \in cam /\ ChildMaybe(f) = "allowNull" /\ SetChildMaybe(f, "Null")
           /\ Returns("ChildAssignNull", f, "ok")
           /\ UNCHANGED <<m, wv, state, s, f, child>>
  <2> USE <1>0, <1>1 DEF ElementInv, ElementType, ChildMaybe, SetChildMaybe,
          child
  <2>1. ElementType'
    OBVIOUS
  <2>2. EntryOK'
    BY DEF EntryOK, Plain
  <2>3. NullableOK'
    BY DEF NullableOK, EntryOK
  <2>4. PlainOK'
    BY DEF PlainOK, Plain, EntryOK
  <2>5. BuiltNodeComplete'
    BY DEF BuiltNodeComplete
  <2>6. Given = {}
        /\ ret'.op \notin {"Reset", "BeginMap"}
    BY DEF Returns, Given
  <2> QED
    BY <2>1, <2>2, <2>3, <2>4, <2>5, <2>6 DEF ChildStep
<1>2. ASSUME NEW op \in {"ChildAssignNull", "ChildWrongKind"}, NEW out,
             Refused(op, f, out)
      PROVE  ChildStep
  <2>1. UNCHANGED <<node, entry, child>> /\ Given = {}
        /\ ret'.op \notin {"Reset", "BeginMap"}
    BY <1>2 DEF Refused, Returns, Given
  <2> QED
    BY <2>1, RefusedKeepsElement DEF ChildStep, node, entry
<1> QED
  BY <1>1, <1>2 DEF ChildAssignNull, ChildWrongKind

----------------------------------------------------------------------------
(* ListInv is inductive: calls on the element.                             *)

(* What a step on the element does for the list. *)
ElementStep == /\ ListInv'
               /\ m = "Value" => UNCHANGED node
               /\ UNCHANGED listVars

(* The list does not move while its element does. *)
LEMMA ElementLeavesListOK ==
    ASSUME ListInv, holder # "nobody", Held, UNCHANGED listVars,
           looping' => ret'.out = "ok"
    PROVE  ListOK'
  BY DEF ListInv, ListOK, Held, listVars

LEMMA MapCallByCaller ==
    ASSUME ~KeepStale, ListInv, begun, MapStep, CallerKeepsHandles,
           looping' = looping
    PROVE  HandlesOK'
<1> USE DEF ListInv, HandlesOK
<1>1. begun' = TRUE
  BY DEF CallerKeepsHandles, MapStep
<1>2. held' = Given \cup (IF Given = {} /\ state' = "midValue"
                           THEN held ELSE {})
  BY DEF CallerKeepsHandles
<1>3. ~looping'
  OBVIOUS
<1>4. held' # {} => state' = "midValue" /\ held' = {f'}
  BY <1>2 DEF MapStep, entry
<1>5. m' # "Absent" /\ (m' = "Value" => state' = "finished")
  BY DEF MapStep, entry
<1>6. cm' = "Value" => m' # "Value"
  BY DEF MapStep, node, entry
<1> QED
  BY <1>1, <1>3, <1>4, <1>5, <1>6

LEMMA ChildCallByCaller ==
    ASSUME ~KeepStale, ListInv, begun, m # "Value", ChildStep,
           CallerKeepsHandles, looping' = looping
    PROVE  HandlesOK'
<1> USE DEF ListInv, HandlesOK
<1>1. begun' = TRUE
  BY DEF CallerKeepsHandles, ChildStep
<1>2. held' = (IF state' = "midValue" THEN held ELSE {})
  BY DEF CallerKeepsHandles, ChildStep
<1> QED
  BY <1>1, <1>2 DEF ChildStep

(* A whole copy of an element that nothing is at work on. *)
LEMMA AssignNodeByCaller ==
    ASSUME ~KeepStale, ListInv, ~looping, NEW c \in CompleteNode,
           AssignNode(c), CallerKeepsHandles, looping' = looping
    PROVE  ElementInv' /\ HandlesOK' /\ (m = "Value" => UNCHANGED node)
<1>0. begun' = begun
      /\ held' = (IF state' = "midValue" THEN held ELSE {})
  <2>1. ret'.op = "AssignNode"
    BY DEF AssignNode, Refused, Returns
  <2>2. Given = {}
    BY <2>1 DEF Given
  <2>3. begun' = begun
    BY <2>1, Zenon DEF CallerKeepsHandles
  <2> QED
    BY <2>2, <2>3 DEF CallerKeepsHandles
<1>1. CASE m = "Absent"
  <2> USE <1>0, <1>1 DEF ListInv, HandlesOK, ElementInv, ElementType,
          AssignNode, CompleteNode, entry, child
  <2>0. ~begun /\ held = {} /\ cm = "Absent"
    OBVIOUS
  <2>1. ElementType'
    OBVIOUS
  <2>2. EntryOK'
    BY <2>0 DEF EntryOK
  <2>3. NullableOK'
    BY DEF NullableOK
  <2>4. PlainOK'
    BY DEF PlainOK, Plain
  <2>5. BuiltNodeComplete'
    BY DEF BuiltNodeComplete
  <2>6. HandlesOK'
    BY <2>0
  <2> QED
    BY <2>1, <2>2, <2>3, <2>4, <2>5, <2>6
<1>2. CASE m # "Absent"
  <2>1. UNCHANGED <<node, entry, child>>
    BY <1>2 DEF AssignNode, Refused
  <2>2. HandlesOK'
    BY <1>0, <2>1 DEF ListInv, HandlesOK, node, entry
  <2> QED
    BY <2>1, <2>2, RefusedKeepsElement DEF ListInv, node
<1> QED
  BY <1>1, <1>2

LEMMA BeginMapByCaller ==
    ASSUME ~KeepStale, ListInv, ~looping, BeginMap \/ AssignNull,
           CallerKeepsHandles, looping' = looping
    PROVE  ElementInv' /\ HandlesOK' /\ (m = "Value" => UNCHANGED node)
<1>1. CASE m = "Absent" /\ BeginMap
  <2> USE <1>1 DEF ListInv, HandlesOK, ElementInv, BeginMap, entry, child
  <2>0. ~begun /\ held = {} /\ cm = "Absent"
    BY DEF ElementType
  <2>1. begun' = TRUE /\ held' = {}
    BY <2>0 DEF Returns, CallerKeepsHandles, Given
  <2>2. ElementType'
    BY DEF ElementType
  <2>3. EntryOK'
    BY <2>0 DEF EntryOK
  <2>4. NullableOK'
    BY DEF NullableOK
  <2>5. PlainOK'
    BY DEF PlainOK
  <2>6. BuiltNodeComplete'
    BY DEF BuiltNodeComplete
  <2>7. HandlesOK'
    BY <2>0, <2>1
  <2> QED
    BY <2>2, <2>3, <2>4, <2>5, <2>6, <2>7
<1>2. CASE ~(m = "Absent" /\ BeginMap)
  <2>1. PICK op \in {"BeginMap", "AssignNull"}, out \in {"error", "panic"} :
            Refused(op, NoField, out)
    BY <1>2 DEF BeginMap, AssignNull
  <2>2. UNCHANGED <<node, entry, child>> /\ Given = {} /\ begun' = begun
    BY <2>1 DEF Refused, Returns, Given, CallerKeepsHandles, ListInv,
       HandlesOK
  <2>3. held' = (IF state' = "midValue" THEN held ELSE {})
    BY <2>2 DEF CallerKeepsHandles
  <2>4. HandlesOK'
    BY <2>2, <2>3 DEF ListInv, HandlesOK, node, entry
  <2> QED
    BY <2>2, <2>4, RefusedKeepsElement DEF ListInv, node
<1> QED
  BY <1>1, <1>2

LEMMA ElementCallKeeps ==
    ASSUME ~KeepStale, ListInv, holder # "nobody", ~looping, ElementCall
    PROVE  ElementStep
<1>1. CallerKeepsHandles /\ Held /\ UNCHANGED listVars /\ looping' = looping
  BY DEF ElementCall
<1>2. ListOK'
  BY <1>1, ElementLeavesListOK
<1> SUFFICES ElementInv' /\ HandlesOK' /\ (m = "Value" => UNCHANGED node)
  BY <1>1, <1>2 DEF ElementStep, ListInv
<1>3. ElementInv /\ (begun /\ m = "Value" => state = "finished")
  BY DEF ListInv, HandlesOK
<1>4. CASE BeginMap \/ AssignNull
  BY <1>1, <1>4, BeginMapByCaller
<1>5. CASE MapCall
  <2>1. begun
    BY <1>5 DEF MapCall
  <2>2. MapStep
    BY <1>3, <1>5, <2>1, AssembleKeyStep, KeyAssignStringStep,
       AssembleValueStep, AssembleEntryStep, FinishStep DEF MapCall
  <2>3. HandlesOK'
    BY <1>1, <2>1, <2>2, MapCallByCaller
  <2> QED
    BY <2>2, <2>3 DEF MapStep, node
<1>6. CASE ChildCall
  <2>1. begun /\ state = "midValue" /\ held = {f} /\ m # "Value"
    BY <1>6 DEF ChildCall, ListInv, HandlesOK
  <2>2. ChildStep
    BY <1>3, <1>6, <2>1, ChildAssignStep, ChildAssignNullStep DEF ChildCall
  <2>3. HandlesOK'
    BY <1>1, <2>1, <2>2, ChildCallByCaller
  <2> QED
    BY <2>1, <2>2, <2>3 DEF ChildStep
<1>7. CASE \E c \in CompleteNode : AssignNode(c)
  BY <1>1, <1>7, AssignNodeByCaller
<1> QED
  BY <1>4, <1>5, <1>6, <1>7 DEF ElementCall

(* AssignNode's loop: whoever finishes an entry has used the Maybe up, and *)
(* a call that is refused finds it so.                                     *)
LEMMA LoopKeeps ==
    ASSUME ~IteratorFails, ListInv, holder # "nobody", Loop
    PROVE  ElementStep
<1>0. ~begun /\ m = "Absent" /\ held = {} /\ ElementInv
      /\ (cm = "Value" => looping /\ state = "midValue" /\ f \in Plain)
      /\ looping \in BOOLEAN
  BY DEF Loop, ListInv, HandlesOK, ElementInv, EntryOK
<1> SUFFICES ASSUME NEW more \in BOOLEAN, Looped(more),
                    \/ /\ more
                       /\ LoopKey \/ LoopString \/ LoopValue \/ LoopAssign
                    \/ ~more /\ LoopFinish
             PROVE  ElementStep
  BY DEF Loop, LoopKey, LoopString, LoopValue, LoopAssign, LoopFinish,
     LoopFails
<1>1. /\ looping' = (more /\ ret'.out = "ok")
      /\ Held /\ UNCHANGED <<handles, listVars>>
  BY DEF Looped
<1>2. ListOK'
  BY <1>1, ElementLeavesListOK
<1>3. begun' = FALSE /\ held' = {}
  BY <1>0, <1>1 DEF handles, ListInv, HandlesOK
<1> SUFFICES /\ ElementInv'
             /\ more /\ ret'.out = "ok" => m' = "Absent"
             /\ cm' = "Value" => m' # "Value" /\ more /\ ret'.out = "ok"
  <2>1. HandlesOK'
    BY <1>1, <1>3 DEF HandlesOK
  <2> QED
    BY <1>0, <1>1, <1>2, <2>1 DEF ElementStep, ListInv
<1>4. CASE LoopKey
  <2>1. MapStep
    BY <1>0, <1>4, AssembleKeyStep DEF LoopKey
  <2>2. m' = m
    BY <1>4 DEF LoopKey, AssembleKey, Refused, node
  <2>3. Ready => state' = "midKey"
    BY <1>4 DEF LoopKey, AssembleKey
  <2>4. looping => Ready
    BY <1>4 DEF LoopKey, AtHead, Ready
  <2>5. cm' # "Value"
    BY <1>0, <2>1, <2>3, <2>4 DEF MapStep, entry
  <2> QED
    BY <1>0, <2>1, <2>2, <2>5 DEF MapStep
<1>5. CASE LoopString
  <2>1. MapStep
    BY <1>0, <1>5, KeyAssignStringStep DEF LoopString
  <2>2. m' = m
    BY <1>5 DEF LoopString, KeyAssignString, Refused, node
  <2>3. cm' # "Value"
    BY <1>0, <1>5, <2>1 DEF MapStep, LoopString, entry
  <2> QED
    BY <1>0, <2>1, <2>2, <2>3 DEF MapStep
<1>6. CASE LoopValue
  <2>1. MapStep
    BY <1>0, <1>6, AssembleValueStep DEF LoopValue
  <2>2. m' = m
    BY <1>6 DEF LoopValue, AssembleValue, BindChild, Refused, node
  <2>3. cm' # "Value"
    BY <1>0, <1>6, <2>1 DEF MapStep, LoopValue, entry
  <2> QED
    BY <1>0, <2>1, <2>2, <2>3 DEF MapStep
<1>7. CASE LoopAssign /\ more
  <2>1. ChildStep
    BY <1>0, <1>7, ChildAssignStep, ChildAssignNullStep DEF LoopAssign
  <2>2. cm # "Value"
    BY <1>0, <1>7 DEF LoopAssign, ValueFinished, Plain
  <2> QED
    BY <1>0, <1>7, <2>1, <2>2 DEF ChildStep
<1>8. CASE LoopFinish /\ ~more
  <2>1. MapStep
    BY <1>0, <1>8, FinishStep DEF LoopFinish
  <2>2. Ready => state' # "midValue"
    BY <1>8 DEF LoopFinish, Finish
  <2>3. looping => Ready
    BY <1>8 DEF LoopFinish, AtHead, Ready
  <2>4. cm' # "Value"
    BY <1>0, <2>1, <2>2, <2>3 DEF MapStep, entry
  <2> QED
    BY <1>8, <2>1, <2>4 DEF MapStep
<1> QED
  BY <1>4, <1>5, <1>6, <1>7, <1>8

----------------------------------------------------------------------------
(* ListInv is inductive: calls on the list.                                *)

(* A finished element is a complete node of its type. *)
LEMMA FinishedRow == ASSUME ElementInv, m = "Value" PROVE Row \in CompleteNode
<1>1. \A k \in Fields : \/ Contents(k) \in Values
                        \/ Contents(k) = Null /\ k \in Nullable
  BY DEF ElementInv, BuiltNodeComplete, Contents
<1> QED
  BY <1>1 DEF Row, CompleteNode

(* Calls that leave everything as it is. *)
LEMMA ListRefusedKeeps ==
    ASSUME ListInv, UNCHANGED <<node, entry, child, callers, listVars>>
    PROVE  ListInv'
<1>1. ElementInv'
  BY RefusedKeepsElement DEF ListInv
<1>2. HandlesOK'
  BY DEF ListInv, HandlesOK, node, entry, callers, handles
<1>3. ListOK'
  BY DEF ListInv, ListOK, node, entry, callers, handles, listVars
<1> QED
  BY <1>1, <1>2, <1>3 DEF ListInv

(* valueFinishTidy takes the element in, if there is one, and leaves the   *)
(* element assembler as it was when it was made, but for the child         *)
(* pointers and the field of the last entry.                               *)
LEMMA TidiedElement ==
    ASSUME ListInv, ElementReady, ElementTidied
    PROVE  /\ ElementInv'
           /\ rows' \in Seq(CompleteNode)
           /\ rows' = IF inList /\ m = "Value" THEN Append(rows, Row) ELSE rows
           /\ m' = "Absent" /\ state' = "initial" /\ s' = {} /\ cm' = "Absent"
           /\ begun' = FALSE /\ held' = {}
<1>1. cm = "Absent"
  BY DEF ElementReady, ListInv, ElementInv, ElementType, EntryOK, HandlesOK,
     ListOK
<1>2. m' = "Absent" /\ state' = "initial" /\ s' = {} /\ cm' = "Absent"
      /\ begun' = FALSE /\ held' = {}
  BY <1>1 DEF ElementTidied, ElementReady, ListInv, ListOK
<1>3. inList => m = "Value"
  BY DEF ElementReady, ListInv, ListOK
<1>4. rows' = IF inList /\ m = "Value" THEN Append(rows, Row) ELSE rows
  BY <1>3 DEF ElementTidied
<1>5. rows' \in Seq(CompleteNode)
  <2>1. rows \in Seq(CompleteNode)
    BY DEF ListInv, ListOK
  <2>2. CASE inList /\ m = "Value"
    <3>1. Row \in CompleteNode
      BY <2>2, FinishedRow DEF ListInv
    <3> HIDE DEF Row
    <3> QED
      BY <1>4, <2>1, <2>2, <3>1
  <2>3. CASE ~(inList /\ m = "Value")
    BY <1>4, <2>1, <2>3
  <2> QED
    BY <2>2, <2>3
<1>6. ElementInv'
  <2> USE <1>2 DEF ElementTidied, NoneSeen, ListInv, ElementInv, child
  <2>1. ElementType'
    BY DEF ElementType
  <2>2. EntryOK'
    BY DEF EntryOK
  <2>3. NullableOK'
    BY DEF NullableOK
  <2>4. PlainOK'
    BY DEF PlainOK
  <2>5. BuiltNodeComplete'
    BY DEF BuiltNodeComplete
  <2> QED
    BY <2>1, <2>2, <2>3, <2>4, <2>5
<1> QED
  BY <1>2, <1>4, <1>5, <1>6

LEMMA ListAssembleValueKeeps ==
    ASSUME ListInv, ~looping, lm # "Value" \/ lstate = "finished",
           ListAssembleValue
    PROVE  ListInv'
<1>1. CASE ElementReady
  <2>1. ElementTidied /\ lstate' = "midValue" /\ inList' = TRUE
        /\ holder' = (IF lm = "midvalue" THEN "caller" ELSE "loop")
        /\ lm' = lm /\ looping' = looping
    BY <1>1 DEF ListAssembleValue
  <2>2. HandlesOK'
    BY <1>1, <2>1, TidiedElement DEF HandlesOK, ListInv
  <2>3. lm # "Value"
    BY <1>1 DEF ElementReady
  <2>4. ListOK'
    BY <1>1, <2>1, <2>3, TidiedElement DEF ListOK, ListInv
  <2> QED
    BY <1>1, <2>1, <2>2, <2>4, TidiedElement DEF ListInv
<1>2. CASE ~ElementReady
  BY <1>2, ListRefusedKeeps DEF ListAssembleValue, ListRefused, Refused
<1> QED
  BY <1>1, <1>2

LEMMA ListFinishKeeps ==
    ASSUME ListInv, ~looping, ListFinish
    PROVE  ListInv'
<1>1. CASE ElementReady
  <2>1. ElementTidied /\ lstate' = "finished" /\ lm' = "Value"
        /\ inList' = FALSE /\ holder' = "nobody" /\ looping' = looping
    BY <1>1 DEF ListFinish
  <2>2. HandlesOK'
    BY <1>1, <2>1, TidiedElement DEF HandlesOK, ListInv
  <2>3. ListOK'
    BY <1>1, <2>1, TidiedElement DEF ListOK, ListInv
  <2> QED
    BY <1>1, <2>1, <2>2, <2>3, TidiedElement DEF ListInv
<1>2. CASE ~ElementReady
  BY <1>2, ListRefusedKeeps DEF ListFinish, ListRefused, Refused
<1> QED
  BY <1>1, <1>2

LEMMA ListsAreComplete == Lists \subseteq Seq(CompleteNode)
  BY DEF Lists

(* The list is begun, or replaced by a whole copy; the element stays. *)
LEMMA BeginOrAssignKeeps ==
    ASSUME ListInv, ~looping,
           \/ \E sizeHint \in 0..1 : BeginList(sizeHint)
           \/ \E l \in Lists : ListAssignNode(l)
    PROVE  ListInv'
<1>1. CASE /\ UNCHANGED <<node, entry, child, handles, lstate, looping>>
           /\ lm' \in {"midvalue", "Value"} /\ holder' = "nobody"
           /\ rows' \in Seq(CompleteNode) /\ inList' \in BOOLEAN
           /\ inList' => inList
  <2>1. ElementInv'
    BY <1>1, RefusedKeepsElement DEF ListInv
  <2>2. HandlesOK'
    BY <1>1 DEF ListInv, HandlesOK, node, entry, handles
  <2>3. ListOK'
    BY <1>1 DEF ListInv, ListOK, node, entry, handles
  <2> QED
    BY <2>1, <2>2, <2>3 DEF ListInv
<1>2. CASE UNCHANGED <<node, entry, child, callers, listVars>>
  BY <1>2, ListRefusedKeeps
<1>3. ASSUME NEW sizeHint \in 0..1, BeginList(sizeHint) PROVE ListInv'
  <2>1. rows \in Seq(CompleteNode) /\ << >> \in Seq(CompleteNode)
        /\ inList \in BOOLEAN
    BY DEF ListInv, ListOK
  <2> QED
    BY <1>1, <1>2, <1>3, <2>1 DEF BeginList, ListRefused, Refused
<1>4. ASSUME NEW l \in Lists, ListAssignNode(l) PROVE ListInv'
  <2>1. l \in Seq(CompleteNode)
    BY ListsAreComplete
  <2> QED
    BY <1>1, <1>2, <1>4, <2>1 DEF ListAssignNode, ListRefused, Refused
<1> QED
  BY <1>3, <1>4

LEMMA ListResetKeeps == ASSUME ListInv, ListReset PROVE ListInv'
<1> USE DEF ListReset, Reset
<1>1. ElementInv'
  BY DEF ElementInv, ElementType, EntryOK, NullableOK, PlainOK,
     BuiltNodeComplete, NoneSeen
<1>2. HandlesOK'
  BY DEF HandlesOK
<1>3. rows' \in Seq(CompleteNode)
  OBVIOUS
<1>4. ListOK'
  BY <1>3 DEF ListOK
<1> QED
  BY <1>1, <1>2, <1>4 DEF ListInv

(* ListInv is inductive. *)
LEMMA NextKeepsListInv ==
    ASSUME ~KeepStale, ~IteratorFails, ListInv, [ListNext]_allVars
    PROVE  ListInv'
<1>1. CASE UNCHANGED allVars
  BY <1>1, ListRefusedKeeps DEF allVars, vars, callers
<1>2. CASE Idle /\ \/ \E sizeHint \in 0..1 : BeginList(sizeHint)
                   \/ \E l \in Lists : ListAssignNode(l)
  BY <1>2, BeginOrAssignKeeps DEF Idle
<1>3. CASE ListAssignNull \/ ListAssignWrongKind \/ ListBuild
  BY <1>3, ListRefusedKeeps DEF ListAssignNull, ListAssignWrongKind,
     ListBuild, ListRefused, Refused
<1>4. CASE ListReset
  BY <1>4, ListResetKeeps
<1>5. CASE /\ ~looping
           /\ lm # "Value" \/ lstate = "finished"
           /\ ListAssembleValue \/ ListFinish
  BY <1>5, ListAssembleValueKeeps, ListFinishKeeps
<1>6. CASE holder # "nobody" /\ ~looping /\ ElementCall
  BY <1>6, ElementCallKeeps DEF ElementStep
<1>7. CASE holder # "nobody" /\ Loop
  BY <1>7, LoopKeeps DEF ElementStep
<1> QED
  BY <1>1, <1>2, <1>3, <1>4, <1>5, <1>6, <1>7 DEF ListNext

LEMMA AlwaysListInv ==
    ASSUME ~KeepStale, ~IteratorFails PROVE ListSpec => []ListInv
  BY InitListInv, NextKeepsListInv, PTL DEF ListSpec

----------------------------------------------------------------------------
(* Theorems.                                                               *)

(* The list assembler and the element assembler under it stay in the       *)
(* states of the code, for lists of any length.                            *)
THEOREM ListTypeCorrect ==
    ASSUME ~KeepStale, ~IteratorFails PROVE ListSpec => []ListTypeOK
<1>1. ASSUME ListInv PROVE ListTypeOK
  <2>1. CompleteNode \subseteq [Fields -> Values \cup {Null, Zero}]
    BY DEF CompleteNode
  <2>2. rows \in Seq([Fields -> Values \cup {Null, Zero}])
    BY <1>1, <2>1 DEF ListInv, ListOK
  <2> QED
    BY <1>1, <2>2 DEF ListInv, ListOK, HandlesOK, ListTypeOK
<1> QED
  BY <1>1, AlwaysListInv, PTL

(* Every element of a list that can be handed out is complete, for lists   *)
(* of any length, though one element assembler serves all of them and      *)
(* nothing that fails is undone (valueFinishTidy and the element's reset). *)
THEOREM BuiltRowsAreComplete ==
    ASSUME ~KeepStale, ~IteratorFails PROVE ListSpec => []BuiltRowsComplete
<1>1. ASSUME ListInv PROVE BuiltRowsComplete
  <2>1. \A i \in DOMAIN rows : rows[i] \in CompleteNode
    BY <1>1 DEF ListInv, ListOK
  <2> QED
    BY <2>1 DEF BuiltRowsComplete, CompleteNode
<1> QED
  BY <1>1, AlwaysListInv, PTL

(* Every element starts with an assembler that has seen no key and holds   *)
(* no value, though its reset leaves the shared Maybe as it is: it has     *)
(* been used up by then.                                                   *)
THEOREM EveryElementStartsFresh ==
    ASSUME ~KeepStale, ~IteratorFails PROVE ListSpec => ElementsStartFresh
<1> DEFINE Starts == ret'.op = "ListAssembleValue" /\ ret'.out = "ok" =>
                        /\ m' = "Absent" /\ state' = "initial" /\ s' = {}
                        /\ cm' = "Absent"
<1>1. ASSUME ListInv, ListNext PROVE Starts
  <2>1. CASE ListAssembleValue
    <3>1. CASE ElementReady
      BY <1>1, <2>1, <3>1, TidiedElement DEF ListAssembleValue
    <3>2. CASE ~ElementReady
      BY <2>1, <3>2 DEF ListAssembleValue, ListRefused, Refused, Returns
    <3> QED
      BY <3>1, <3>2
  <2>2. CASE ~ListAssembleValue
    <3> USE DEF Returns, Refused
    <3>1. CASE \/ \E sizeHint \in 0..1 : BeginList(sizeHint)
               \/ ListAssignNull \/ ListAssignWrongKind \/ ListBuild
               \/ \E l \in Lists : ListAssignNode(l)
               \/ ListReset \/ ListFinish
      BY <3>1 DEF BeginList, ListAssignNull, ListAssignWrongKind, ListBuild,
         ListAssignNode, ListReset, Reset, ListFinish, ListRefused
    <3>2. CASE ElementCall
      <4>1. CASE MapCall
        BY <4>1 DEF MapCall, AssembleKey, KeyAssignString, AssembleValue,
           AssembleEntry, Finish
      <4>2. CASE ChildCall
        BY <4>2 DEF ChildCall, ChildAssign, ChildAssignNull, ChildWrongKind
      <4>3. CASE BeginMap \/ AssignNull \/ \E c \in CompleteNode : AssignNode(c)
        BY <4>3 DEF BeginMap, AssignNull, AssignNode
      <4> QED
        BY <3>2, <4>1, <4>2, <4>3 DEF ElementCall
    <3>3. CASE Loop
      <4>1. CASE LoopKey
        BY <4>1 DEF LoopKey, AssembleKey
      <4>2. CASE LoopString
        BY <4>2 DEF LoopString, KeyAssignString
      <4>3. CASE LoopValue
        BY <4>3 DEF LoopValue, AssembleValue
      <4>4. CASE LoopAssign
        BY <4>4 DEF LoopAssign, ChildAssign, ChildAssignNull, ChildWrongKind
      <4>5. CASE LoopFinish
        BY <4>5 DEF LoopFinish, Finish
      <4>6. CASE LoopFails
        BY <4>6 DEF LoopFails
      <4> QED
        BY <3>3, <4>1, <4>2, <4>3, <4>4, <4>5, <4>6 DEF Loop
    <3> QED
      BY <1>1, <2>2, <3>1, <3>2, <3>3 DEF ListNext
  <2> QED
    BY <2>1, <2>2
<1>2. ListInv /\ [ListNext]_allVars => [Starts]_allVars
  BY <1>1
<1> QED
  BY <1>2, AlwaysListInv, PTL DEF ListSpec, ElementsStartFresh

----------------------------------------------------------------------------
(* The list assembler implements ListBuilder.                              *)

(* The list as ListBuilder sees it: an element counts once it is finished. *)
Taken == IF inList /\ m = "Value" THEN Append(rows, Row) ELSE rows

LEMMA SameTaken ==
    ASSUME UNCHANGED <<node, listVars>> PROVE Taken' = Taken /\ lm' = lm
  BY DEF Taken, Row, Contents, node, listVars

(* A step on the element adds it, whole, or adds nothing. *)
LEMMA ElementStepAdds ==
    ASSUME ListInv, holder # "nobody", ElementStep
    PROVE  \/ \E e \in CompleteNode : Abs!Add(e)
           \/ Taken' = Taken /\ lm' = lm
<1>1. lm # "Value" /\ ElementInv' /\ UNCHANGED listVars
  BY DEF ListInv, ListOK, ElementStep
<1>2. CASE m = "Value"
  BY <1>2, SameTaken DEF ElementStep
<1>3. CASE m # "Value" /\ ~(inList /\ m' = "Value")
  BY <1>1, <1>3 DEF Taken, listVars
<1>4. CASE m # "Value" /\ inList /\ m' = "Value"
  <2>1. Row' \in CompleteNode
    <3>1. \A k \in Fields : \/ Contents(k)' \in Values
                            \/ Contents(k)' = Null /\ k \in Nullable
      BY <1>1, <1>4 DEF ElementInv, BuiltNodeComplete, Contents
    <3> QED
      BY <3>1 DEF Row, CompleteNode
  <2>2. Taken = rows /\ Taken' = Append(rows, Row')
    BY <1>1, <1>4 DEF Taken, listVars
  <2>3. (lm = "Value") = FALSE /\ (lm' = "Value") = FALSE
    BY <1>1 DEF listVars
  <2>4. Abs!Add(Row')
    BY <2>2, <2>3 DEF Abs!Add, Taken
  <2> QED
    BY <2>1, <2>4
<1> QED
  BY <1>2, <1>3, <1>4

(* Every step of the list assembler is a step of ListBuilder or changes    *)
(* nothing ListBuilder speaks of.                                          *)
LEMMA ListStepRefines ==
    ASSUME ~KeepStale, ~IteratorFails, ListInv, [ListNext]_allVars
    PROVE  [Abs!Next]_Abs!vars
<1> DEFINE Stutter == Taken' = Taken /\ (lm' = "Value" <=> lm = "Value")
<1>0. Stutter => UNCHANGED Abs!vars
  <2>1. (lm' = "Value" <=> lm = "Value") => (lm' = "Value") = (lm = "Value")
    OBVIOUS
  <2> QED
    BY <2>1 DEF Abs!vars, Taken
<1> SUFFICES Abs!Next \/ Stutter
  BY <1>0
<1>1. CASE UNCHANGED <<node, listVars>>
  BY <1>1, SameTaken
<1>2. ASSUME NEW sizeHint \in 0..1, BeginList(sizeHint), lm = "Absent"
      PROVE  Abs!Next \/ Stutter
  <2>1. CASE sizeHint = 0
    <3>1. rows' = rows /\ inList' = inList /\ node' = node /\ lm' # "Value"
      BY <1>2, <2>1 DEF BeginList, ListInv, ListOK
    <3> QED
      BY <1>2, <3>1 DEF Taken, Row, Contents, node
  <2>2. CASE sizeHint # 0
    <3>1. rows' = << >> /\ inList' = FALSE /\ lm' = "midvalue"
      BY <1>2, <2>2 DEF BeginList
    <3>2. Taken' = << >> /\ (lm' = "Value") = FALSE
      BY <3>1 DEF Taken
    <3> QED
      BY <3>2 DEF Abs!Next, Abs!Clear, Taken
  <2> QED
    BY <2>1, <2>2
<1>3. ASSUME NEW l \in Lists, ListAssignNode(l), lm = "Absent"
      PROVE  Abs!Next
  <2>1. rows' = l /\ inList' = FALSE /\ lm' = "Value" /\ lm # "Value"
    BY <1>3 DEF ListAssignNode
  <2>2. Taken' = l /\ (lm' = "Value") = TRUE /\ ~(lm = "Value")
    BY <2>1 DEF Taken
  <2>3. l \in Seq(CompleteNode)
    BY ListsAreComplete
  <2> QED
    BY <2>2, <2>3 DEF Abs!Next, Abs!AssignWhole, Taken
<1>4. CASE ListReset
  <2>1. Taken' = << >> /\ (lm' = "Value") = FALSE
    BY <1>4 DEF ListReset, Taken
  <2> QED
    BY <2>1 DEF Abs!Next, Abs!Clear, Taken
<1>5. CASE ListAssembleValue /\ ElementReady
  <2>1. ElementTidied /\ lm' = lm
    BY <1>5 DEF ListAssembleValue
  <2>2. rows' = Taken /\ m' = "Absent"
    BY <1>5, <2>1, TidiedElement DEF Taken
  <2>3. Taken' = rows'
    BY <2>2 DEF Taken
  <2> QED
    BY <2>1, <2>2, <2>3
<1>6. CASE /\ ListFinish /\ ElementReady
           /\ lm # "Value" \/ lstate = "finished"
  <2>1. ElementTidied /\ lm' = "Value"
    BY <1>6 DEF ListFinish
  <2>2. rows' = Taken /\ m' = "Absent"
    BY <1>6, <2>1, TidiedElement DEF Taken
  <2>3. Taken' = Taken
    BY <2>2 DEF Taken
  <2>4. (lm' = "Value") = TRUE /\ ~(lm = "Value")
    BY <1>6, <2>1 DEF ElementReady
  <2> QED
    BY <2>3, <2>4 DEF Abs!Next, Abs!Seal, Taken
<1>7. ASSUME holder # "nobody", ElementStep PROVE Abs!Next \/ Stutter
  <2>1. \/ \E e \in CompleteNode : Abs!Add(e)
        \/ Taken' = Taken /\ lm' = lm
    BY <1>7, ElementStepAdds
  <2> QED
    BY <2>1 DEF Abs!Next
<1>8. CASE holder # "nobody" /\ \/ ~looping /\ ElementCall
                                \/ Loop
  BY <1>7, <1>8, ElementCallKeeps, LoopKeeps
<1>9. CASE \/ ListAssignNull \/ ListAssignWrongKind \/ ListBuild
           \/ lm # "Absent" /\ \E sizeHint \in 0..1 : BeginList(sizeHint)
           \/ lm # "Absent" /\ \E l \in Lists : ListAssignNode(l)
           \/ ~ElementReady /\ (ListAssembleValue \/ ListFinish)
  <2>1. UNCHANGED <<node, listVars>>
    BY <1>9 DEF ListAssignNull, ListAssignWrongKind, ListBuild, BeginList,
       ListAssignNode, ListAssembleValue, ListFinish, ListRefused, Refused
  <2> QED
    BY <1>1, <2>1
<1>10. CASE UNCHANGED allVars
  BY <1>1, <1>10 DEF allVars, vars
<1> QED
  BY <1>2, <1>3, <1>4, <1>5, <1>6, <1>8, <1>9, <1>10 DEF ListNext

(* The generated list assembler keeps the promises of ListBuilder, for     *)
(* lists of any length and elements with any fields: elements come in      *)
(* whole and in order, and neither they nor a finished list change.        *)
THEOREM AssemblerImplementsListBuilder ==
    ASSUME ~KeepStale, ~IteratorFails
    PROVE  ListSpec => ImplementsListBuilder
<1>1. ListInit => Abs!Init
  <2> SUFFICES ASSUME ListInit PROVE Abs!Init
    OBVIOUS
  <2>1. Taken = << >> /\ (lm = "Value") = FALSE
    BY DEF ListInit, Taken
  <2> QED
    BY <2>1 DEF Abs!Init, Taken
<1> QED
  BY <1>1, ListStepRefines, AlwaysListInv, PTL
     DEF ListSpec, ImplementsListBuilder, Abs!Spec
=============================================================================
