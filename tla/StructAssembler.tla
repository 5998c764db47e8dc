-------------------------- MODULE StructAssembler --------------------------
(***************************************************************************)
(* The assembler that go-ipld-prime generates for a struct type, as in     *)
(* ipldsch_satisfaction.go; the lines are those of _Header__Assembler.     *)
(* GeneratedStruct shows that the code generated for each of the twelve    *)
(* structs is this assembler with the struct's fields.                     *)
(*                                                                         *)
(* Every struct has two assemblers: one for the type, and one for its      *)
(* representation (_Header__ReprAssembler).  They make the same steps but  *)
(* for valueFinishTidy: the representation's leaves the child assembler of *)
(* a finished field its pointer into the node.                             *)
(*                                                                         *)
(* A caller drives it call by call, in any order: BeginMap, then for each  *)
(* field a key and a value (or AssembleEntry for both), then Finish; or    *)
(* AssignNode with a finished node of the type.  Build returns the node,   *)
(* Reset prepares for another.  The value of a field is given through a    *)
(* handle on the child assembler of that field, which the caller may keep  *)
(* and call again at any later time.                                       *)
(*                                                                         *)
(* Every call ends "ok", "error" or "panic".  All panics of the code       *)
(* precede its assignments, so a call that panics changes nothing and a    *)
(* caller that recovers may go on.                                         *)
(*                                                                         *)
(* Abstractions: field values are opaque; the bit mask s is a set; a       *)
(* pointer is represented by whether it points to its one place in the     *)
(* node (ca_F.w to w.F, ca_F.m to cm or to w.F.m).  A field's value is     *)
(* given in one call.  The caller drops the MapAssembler that BeginMap     *)
(* returned when it calls Reset.                                           *)
(***************************************************************************)
EXTENDS Naturals

CONSTANTS Fields, Nullable, Values, Null,
          Composite,   \* the fields that are unions, structs or lists;
                       \* the others are scalars (a Header has no other)
          Zero,        \* the zero value of a field not yet assigned
          NoField,     \* "no key": the argument of calls that take none
          UnknownKey,  \* a key that names no field
          Level,       \* which assembler of the struct: "type" or "repr"
          KeepStale    \* the caller may call a child assembler whose
                       \* entry is over, or fill one twice

ASSUME SchemaAssumption ==
    /\ Nullable \subseteq Fields /\ Composite \subseteq Fields
    /\ Null \notin Values
    /\ Zero \notin Values
    /\ Null # Zero
    /\ NoField \notin Fields
    /\ UnknownKey \notin Fields
    /\ Level \in {"type", "repr"}
    /\ KeepStale \in BOOLEAN

VARIABLES
    m,      \* *na.m, how far this node is
    state,  \* na.state, where in an entry the assembly is
    s,      \* na.s, the keys seen
    f,      \* na.f, the field of the current entry
    cm,     \* na.cm, the shared Maybe of the non-nullable fields
    wm,     \* w.F.m for each nullable field F
    wv,     \* the contents of the node's fields
    caw,    \* fields F with ca_F.w = &w.F
    cam,    \* fields F with ca_F.m # nil
    begun,  \* the caller holds the MapAssembler
    held,   \* fields whose child assembler the caller holds
    ret     \* the last call, its key and how it ended

node == <<m, wm, wv>>
entry == <<state, s, f, cm>>
child == <<caw, cam>>
handles == <<begun, held>>
vars == <<node, entry, child, handles, ret>>

Returns(op, k, out) == ret' = [op |-> op, key |-> k, out |-> out]

(* A call that ends without touching the assembler. *)
Refused(op, k, out) == /\ Returns(op, k, out)
                       /\ UNCHANGED <<node, entry, child>>

NoneSeen == [n \in Nullable |-> "Absent"]

Init == /\ m = "Absent" /\ state = "initial" /\ s = {} /\ f = NoField
        /\ cm = "Absent" /\ wm = NoneSeen /\ wv = [k \in Fields |-> Zero]
        /\ caw = {} /\ cam = {} /\ begun = FALSE /\ held = {}
        /\ ret = [op |-> "NewBuilder", key |-> NoField, out |-> "ok"]

----------------------------------------------------------------------------
(* The assembler's own calls.                                              *)

BeginMap ==
    \/ /\ m = "Absent"
       /\ m' = "midvalue"
       /\ Returns("BeginMap", NoField, "ok")
       /\ UNCHANGED <<wm, wv, entry, child>>
    \/ /\ m # "Absent"
       /\ Refused("BeginMap", NoField, "panic")

(* A builder's own Maybe is never allowNull, so null is refused. *)
AssignNull == Refused("AssignNull", NoField,
                      IF m = "Absent" THEN "error" ELSE "panic")

(* BeginList, AssignBool, AssignInt, AssignFloat, AssignString,            *)
(* AssignBytes, AssignLink, and AssignNode of a node that is no map: the   *)
(* wrong kind for a map.                                                   *)
AssignWrongKind == Refused("AssignWrongKind", NoField, "error")

(* Nodes of the type, as their fields. *)
CompleteNode == {c \in [Fields -> Values \cup {Null}] :
                    \A k \in Fields \ Nullable : c[k] # Null}

(* AssignNode of a node of this very type copies it whole. *)
AssignNode(c) ==
    \/ /\ m = "Absent"
       /\ m' = "Value"
       /\ wv' = [k \in Fields |-> IF c[k] = Null THEN Zero ELSE c[k]]
       /\ wm' = [n \in Nullable |-> IF c[n] = Null THEN "Null" ELSE "Value"]
       /\ Returns("AssignNode", NoField, "ok")
       /\ UNCHANGED <<entry, child>>
    \/ /\ m # "Absent"
       /\ Refused("AssignNode", NoField, "panic")

Build == Refused("Build", NoField, IF m = "Value" THEN "ok" ELSE "panic")

Reset ==
    /\ m' = "Absent" /\ state' = "initial" /\ s' = {} /\ f' = NoField
    /\ cm' = "Absent" /\ wm' = NoneSeen /\ wv' = [k \in Fields |-> Zero]
    /\ caw' = {} /\ cam' = {}
    /\ Returns("Reset", NoField, "ok")

----------------------------------------------------------------------------
(* The entries of the map.                                                 *)

(* valueFinishTidy: whether the current value is complete, and what        *)
(* becomes of the child assembler then.                                    *)
ValueFinished == IF f \in Nullable THEN wm[f] \in {"Null", "Value"}
                                   ELSE cm = "Value"
TidiedChild == IF state = "midValue" /\ f \notin Nullable THEN {f} ELSE {}
(* Mutant: a finished child assembler keeps its pointer into the node. *)
TidiedKeepsPointer == caw
Tidied == IF Level = "type" THEN caw \ TidiedChild ELSE caw
TidiedMaybe == IF TidiedChild = {} THEN cm ELSE "Absent"

(* Between two entries, or at the end of one that is complete. *)
Ready == state = "initial" \/ (state = "midValue" /\ ValueFinished)

AssembleKey ==
    \/ /\ Ready
       /\ state' = "midKey" /\ cm' = TidiedMaybe /\ caw' = Tidied
       /\ Returns("AssembleKey", NoField, "ok")
       /\ UNCHANGED <<node, s, f, cam>>
    \/ /\ ~Ready
       /\ Refused("AssembleKey", NoField, "panic")

(* Mutant: a key that names no field is not refused. *)
FreshKeyUnknown(k) == k \notin s
(* Mutant: the repeated key is not refused. *)
FreshKeyUnchecked(k) == k \in Fields
FreshKey(k) == k \in Fields \ s

(* A refused key leaves the assembler in the middle of the key. *)
KeyAssignString(k) ==
    \/ /\ state = "midKey" /\ FreshKey(k)
       /\ s' = s \cup {k} /\ state' = "expectValue" /\ f' = k
       /\ Returns("KeyAssignString", k, "ok")
       /\ UNCHANGED <<node, cm, child>>
    \/ /\ state = "midKey" /\ ~FreshKey(k)
       /\ Refused("KeyAssignString", k, "error")
    \/ /\ state # "midKey"
       /\ Refused("KeyAssignString", k, "panic")

(* The child assembler of field k is pointed at the field and handed out. *)
BindChild(k, w) ==
    /\ state' = "midValue"
    /\ caw' = w \cup {k}
    /\ cam' = cam \cup {k}
    /\ wm' = [n \in Nullable |-> IF n = k THEN "allowNull" ELSE wm[n]]
    /\ UNCHANGED <<m, wv>>

AssembleValue ==
    \/ /\ state = "expectValue"
       /\ BindChild(f, caw)
       /\ Returns("AssembleValue", f, "ok")
       /\ UNCHANGED <<s, f, cm>>
    \/ /\ state # "expectValue"
       /\ Refused("AssembleValue", NoField, "panic")

AssembleEntry(k) ==
    \/ /\ Ready /\ FreshKey(k)
       /\ s' = s \cup {k} /\ f' = k /\ cm' = TidiedMaybe
       /\ BindChild(k, Tidied)
       /\ Returns("AssembleEntry", k, "ok")
    \/ /\ Ready /\ ~FreshKey(k)
       /\ state' = "initial" /\ cm' = TidiedMaybe /\ caw' = Tidied
       /\ Returns("AssembleEntry", k, "error")
       /\ UNCHANGED <<node, s, f, cam>>
    \/ /\ ~Ready
       /\ Refused("AssembleEntry", k, "panic")

(* Mutant: only the fields that are not nullable are required. *)
SufficientWithoutNullable == Fields \ Nullable \subseteq s
Sufficient == Fields \subseteq s

(* Mutant: the node is marked complete before the fields are counted. *)
FinishMarksFirst ==
    \/ /\ Ready
       /\ state' = (IF Sufficient THEN "finished" ELSE "initial")
       /\ m' = "Value" /\ cm' = TidiedMaybe /\ caw' = Tidied
       /\ Returns("Finish", NoField, IF Sufficient THEN "ok" ELSE "error")
       /\ UNCHANGED <<wm, wv, s, f, cam>>
    \/ /\ ~Ready
       /\ Refused("Finish", NoField, "panic")

Finish ==
    \/ /\ Ready /\ Sufficient
       /\ state' = "finished" /\ m' = "Value"
       /\ cm' = TidiedMaybe /\ caw' = Tidied
       /\ Returns("Finish", NoField, "ok")
       /\ UNCHANGED <<wm, wv, s, f, cam>>
    \/ /\ Ready /\ ~Sufficient
       /\ state' = "initial" /\ cm' = TidiedMaybe /\ caw' = Tidied
       /\ Returns("Finish", NoField, "error")
       /\ UNCHANGED <<node, s, f, cam>>
    \/ /\ ~Ready
       /\ Refused("Finish", NoField, "panic")

----------------------------------------------------------------------------
(* Calls through the handle of a child assembler, current or stale.        *)

(* *na.m of the child assembler of field k *)
ChildMaybe(k) == IF k \in Nullable THEN wm[k] ELSE cm
ChildDone(k) == ChildMaybe(k) \in {"Null", "Value"}

SetChildMaybe(k, x) ==
    /\ wm' = [n \in Nullable |-> IF n = k THEN x ELSE wm[n]]
    /\ cm' = IF k \in Nullable THEN cm ELSE x

(* AssignBytes or AssignLink of a scalar, AssignNode of a composite with a *)
(* node of its type.  What already has a value panics.  Where w is nil a   *)
(* scalar or a list panics, too, but a union or a struct takes the given   *)
(* node for its own (na.w = v2 in _Value__Assembler.AssignNode): *na.m     *)
(* says that the value is there, and the node being built lacks it.        *)
ChildAssign(k, v) ==
    \/ /\ k \in cam /\ ~ChildDone(k) /\ k \in caw
       /\ wv' = [wv EXCEPT ![k] = v]
       /\ SetChildMaybe(k, "Value")
       /\ Returns("ChildAssign", k, "ok")
       /\ UNCHANGED <<m, state, s, f, child>>
    \/ /\ k \in cam /\ ~ChildDone(k) /\ k \in Composite \ caw
       /\ SetChildMaybe(k, "Value")
       /\ Returns("ChildAssign", k, "ok")
       /\ UNCHANGED <<m, wv, state, s, f, child>>
    \/ /\ ~(k \in cam /\ ~ChildDone(k) /\ k \in caw)
       /\ Refused("ChildAssign", k, "panic")

(* AssignNode of a list with an empty list of another type, where it is    *)
(* out of place: it looks neither at w nor at *na.m and goes straight to   *)
(* Finish, which panics the second time.                                   *)
ChildAssignEmpty(k) ==
    \/ /\ k \in cam
       /\ SetChildMaybe(k, "Value")
       /\ Returns("ChildAssignEmpty", k, "ok")
       /\ UNCHANGED <<m, wv, state, s, f, child>>
    \/ Refused("ChildAssignEmpty", k, "panic")

ChildAssignNull(k) ==
    \/ /\ k \in cam /\ ChildMaybe(k) = "allowNull"
       /\ SetChildMaybe(k, "Null")
       /\ Returns("ChildAssignNull", k, "ok")
       /\ UNCHANGED <<m, wv, state, s, f, child>>
    \/ /\ k \in cam /\ ChildMaybe(k) = "Absent"
       /\ Refused("ChildAssignNull", k, "error")
    \/ /\ k \notin cam \/ ChildDone(k)
       /\ Refused("ChildAssignNull", k, "panic")

(* Any other kind is refused by the child's type. *)
ChildWrongKind(k) == Refused("ChildWrongKind", k, "error")

----------------------------------------------------------------------------
Keys == Fields \cup {UnknownKey}

MapCall == /\ begun
           /\ \/ AssembleKey
              \/ \E k \in Keys : KeyAssignString(k)
              \/ AssembleValue
              \/ \E k \in Keys : AssembleEntry(k)
              \/ Finish

ChildCall == \E k \in held :
                \/ \E v \in Values : ChildAssign(k, v)
                \/ ChildAssignNull(k)
                \/ ChildWrongKind(k)
                \/ /\ KeepStale /\ k \in Composite
                   /\ k \notin caw \/ ChildDone(k)
                   /\ ChildAssignEmpty(k)

(* The handle the call gave the caller. *)
Given == IF ret'.op \in {"AssembleValue", "AssembleEntry"} /\ ret'.out = "ok"
         THEN {ret'.key} ELSE {}

(* The handles the caller has after the call: all it was ever given, or    *)
(* only that of the entry in progress.                                     *)
CallerKeepsHandles ==
    /\ begun' = IF ret'.op = "Reset" THEN FALSE
                ELSE IF ret'.op = "BeginMap" /\ ret'.out = "ok" THEN TRUE
                ELSE begun
    /\ held' = Given \cup (IF KeepStale \/ (Given = {} /\ state' = "midValue")
                           THEN held ELSE {})

Next == /\ \/ BeginMap \/ AssignNull \/ AssignWrongKind
           \/ Build \/ Reset
           \/ MapCall \/ ChildCall
           \/ \E c \in CompleteNode : AssignNode(c)
        /\ CallerKeepsHandles

Spec == Init /\ [][Next]_vars

----------------------------------------------------------------------------
(* Properties.                                                             *)

Out == {"ok", "error", "panic"}

(* The state the assembler and its caller can be in. *)
TypeOK ==
    /\ m \in {"Absent", "midvalue", "Value"}
    /\ state \in {"initial", "midKey", "expectValue", "midValue", "finished"}
    /\ s \subseteq Fields
    /\ f \in Fields \cup {NoField}
    /\ cm \in {"Absent", "Value"}
    /\ wm \in [Nullable -> {"Absent", "allowNull", "Null", "Value"}]
    /\ wv \in [Fields -> Values \cup {Zero}]
    /\ caw \subseteq cam /\ cam \subseteq Fields /\ held \subseteq Fields
    /\ begun \in BOOLEAN
    /\ ret.key \in Fields \cup {NoField, UnknownKey} /\ ret.out \in Out

(* What a reader of the node finds in field k. *)
Contents(k) == IF k \in Nullable /\ wm[k] = "Null" THEN Null ELSE wv[k]

(* A node that Build hands out has a value in every field, and null only   *)
(* in nullable ones, whatever calls led to it (Finish, valueFinishTidy).   *)
BuiltNodeComplete ==
    m = "Value" => /\ \A k \in Fields \ Nullable : wv[k] \in Values
                   /\ \A n \in Nullable :
                        \/ wm[n] = "Null"
                        \/ wm[n] = "Value" /\ wv[n] \in Values

(* Once a node can be handed out, no call changes it, not even one through *)
(* a child handle kept from its assembly; Reset starts another node.       *)
FinishedIsImmutable ==
    [][m = "Value" /\ ret'.op # "Reset" => UNCHANGED node]_vars

(* The field is in the node for good: its key was accepted and its value   *)
(* given, or the node was finished as a whole.                             *)
Filled(k) ==
    \/ m = "Value"
    \/ /\ k \in s
       /\ f = k => /\ state # "expectValue"
                   /\ state = "midValue" => ChildDone(k)

(* An entry is filled by a call on its own child assembler, made while the *)
(* entry is open, and by no other; after that the field does not change.   *)
(* So a child assembler kept beyond its entry can neither complete the     *)
(* entry in progress, though the two share one Maybe (na.cm), nor write    *)
(* its own field again (valueFinishTidy, ca_F.w = nil).                    *)
OwnHandleOnly ==
    [][\A k \in Fields :
          \/ UNCHANGED <<Filled(k), Contents(k)>>
          \/ /\ ret'.op \in {"ChildAssign", "ChildAssignNull"} /\ ret'.key = k
             /\ state = "midValue" /\ f = k /\ ~Filled(k)
          \/ ret'.op \in {"AssignNode", "Reset"}]_vars

content == [k \in {j \in Fields : Filled(j)} |-> Contents(k)]

(* A call that ends in an error or a panic leaves the node's fields as     *)
(* they were, so a caller may report it and go on.                         *)
FailedCallKeepsContent ==
    [][ret'.out # "ok" => UNCHANGED content]_vars

Abstract == INSTANCE NodeBuilder WITH sealed <- (m = "Value")

(* The assembler keeps the promises of NodeBuilder: every field filled     *)
(* once, nothing sealed before it is complete, nothing changed after.      *)
ImplementsNodeBuilder == Abstract!Spec
=============================================================================
