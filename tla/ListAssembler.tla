--------------------------- MODULE ListAssembler ---------------------------
(***************************************************************************)
(* The assembler generated for a list of structs (Uncles, AccessList,      *)
(* Transactions, Logs, Receipts, FrameList), composed with the assembler   *)
(* of its elements; the lines are those of _Logs__Assembler.  The lists of *)
(* scalars have the same code over an assembler without state.             *)
(*                                                                         *)
(* One element assembler, la.va, serves all elements in turn.  It is       *)
(* StructAssembler here: its *m is la.cm, its node the row in progress,    *)
(* and between two elements valueFinishTidy resets it, which clears its    *)
(* state and its keys but not its own cm.                                  *)
(*                                                                         *)
(* An element is assembled call by call, copied from a node of its type,   *)
(* or assigned from a foreign map: AssignNode's loop, which makes the same *)
(* calls without BeginMap and gives up at the first that fails, or when    *)
(* the iterator it reads from does.  A foreign list is likewise a series   *)
(* of AssembleValue calls and a Finish without BeginList; it ends with the *)
(* first element that is refused, and is not undone.                       *)
(*                                                                         *)
(* Abstractions: the row in progress is appended to the rows when it is    *)
(* tidied up, not when it is begun; no list is handed out in between.  The *)
(* caller drops the handles of an element with it (KeepStale is FALSE) and *)
(* begins no foreign map or list on top of one that was begun or copied    *)
(* (StructAssign, UnionAssembler).                                         *)
(***************************************************************************)
EXTENDS StructAssembler, Sequences, FiniteSets

CONSTANTS MaxRows,       \* bound on the elements of a list
          IteratorFails  \* the iterator of a foreign map may fail

ASSUME ListAssumption == MaxRows \in Nat /\ IteratorFails \in BOOLEAN

VARIABLES
    lm,       \* *la.m, how far the list is
    lstate,   \* la.state
    rows,     \* la.w.x, but for the row in progress
    inList,   \* the row in progress is in la.w.x
    holder,   \* who has the element: the "caller", the "loop" of a foreign
              \* list, or "nobody"
    looping   \* AssignNode of a foreign map is at work on the element
listVars == <<lm, lstate, rows, inList>>
callers == <<handles, holder, looping>>
allVars == <<vars, listVars, holder, looping>>

Row == [k \in Fields |-> Contents(k)]

ListInit == Init /\ lm = "Absent" /\ lstate = "initial" /\ rows = << >>
                 /\ inList = FALSE /\ holder = "nobody" /\ looping = FALSE

(* A list call that ends without touching anything. *)
ListRefused(op, out) == /\ Refused(op, NoField, out)
                        /\ UNCHANGED <<callers, listVars>>

----------------------------------------------------------------------------
(* The list's own calls.                                                   *)

(* With a size hint the list is made anew; without, it is what an earlier  *)
(* attempt left.                                                           *)
BeginList(sizeHint) ==
    \/ /\ lm = "Absent" /\ lm' = "midvalue"
       /\ rows' = IF sizeHint > 0 THEN << >> ELSE rows
       /\ inList' = (inList /\ sizeHint = 0)
       /\ holder' = "nobody"
       /\ Returns("BeginList", NoField, "ok")
       /\ UNCHANGED <<node, entry, child, handles, lstate, looping>>
    \/ lm # "Absent" /\ ListRefused("BeginList", "panic")

(* Mutant: null is accepted wherever the list is. *)
ListAssignNullAccepted == /\ lm' = "Null"
                          /\ Returns("ListAssignNull", NoField, "ok")
                          /\ UNCHANGED <<node, entry, child, callers>>
                          /\ UNCHANGED <<lstate, rows, inList>>
ListAssignNull == ListRefused("ListAssignNull",
                              IF lm = "Absent" THEN "error" ELSE "panic")
ListAssignWrongKind == ListRefused("ListAssignWrongKind", "error")

(* AssignNode of a list of this very type. *)
ListAssignNode(l) ==
    \/ /\ lm = "Absent" /\ lm' = "Value" /\ rows' = l
       /\ inList' = FALSE /\ holder' = "nobody"
       /\ Returns("ListAssignNode", NoField, "ok")
       /\ UNCHANGED <<node, entry, child, handles, lstate, looping>>
    \/ lm # "Absent" /\ ListRefused("ListAssignNode", "panic")

ElementReady == lstate = "initial" \/ (lstate = "midValue" /\ m = "Value")

(* Mutant: the element assembler keeps the keys of the last element. *)
ElementTidiedKeepsKeys ==
    /\ rows' = IF inList THEN Append(rows, Row) ELSE rows
    /\ state' = IF lstate = "midValue" THEN "initial" ELSE state
    /\ m' = "Absent" /\ wm' = NoneSeen /\ wv' = [k \in Fields |-> Zero]
    /\ begun' = FALSE /\ held' = {}
    /\ UNCHANGED <<s, f, cm, child>>
(* valueFinishTidy with the element assembler's reset, and a new row. *)
ElementTidied ==
    /\ rows' = IF inList THEN Append(rows, Row) ELSE rows
    /\ state' = IF lstate = "midValue" THEN "initial" ELSE state
    /\ s' = IF lstate = "midValue" THEN {} ELSE s
    /\ m' = "Absent" /\ wm' = NoneSeen /\ wv' = [k \in Fields |-> Zero]
    /\ begun' = FALSE /\ held' = {}
    /\ UNCHANGED <<f, cm, child>>

ListAssembleValue ==
    \/ /\ ElementReady
       /\ Len(rows) + (IF inList THEN 1 ELSE 0) < MaxRows
       /\ ElementTidied
       /\ lstate' = "midValue" /\ inList' = TRUE
       /\ holder' = IF lm = "midvalue" THEN "caller" ELSE "loop"
       /\ Returns("ListAssembleValue", NoField, "ok")
       /\ UNCHANGED <<lm, looping>>
    \/ ~ElementReady /\ ListRefused("ListAssembleValue", "panic")

(* Mutant: the list is finished without asking for its last element. *)
ListFinishAnyway ==
    \/ /\ lstate # "finished"
       /\ ElementTidied
       /\ lstate' = "finished" /\ lm' = "Value"
       /\ inList' = FALSE /\ holder' = "nobody"
       /\ Returns("ListFinish", NoField, "ok")
       /\ UNCHANGED looping
    \/ lstate = "finished" /\ ListRefused("ListFinish", "panic")
ListFinish ==
    \/ /\ ElementReady
       /\ ElementTidied
       /\ lstate' = "finished" /\ lm' = "Value"
       /\ inList' = FALSE /\ holder' = "nobody"
       /\ Returns("ListFinish", NoField, "ok")
       /\ UNCHANGED looping
    \/ ~ElementReady /\ ListRefused("ListFinish", "panic")

ListBuild == ListRefused("ListBuild", IF lm = "Value" THEN "ok" ELSE "panic")

ListReset == /\ Reset
             /\ begun' = FALSE /\ held' = {}
             /\ lm' = "Absent" /\ lstate' = "initial" /\ rows' = << >>
             /\ inList' = FALSE /\ holder' = "nobody" /\ looping' = FALSE

----------------------------------------------------------------------------
(* The element in progress.                                                *)

(* A foreign list gives its element up when it is refused. *)
Held == holder' = IF holder = "loop" /\ ret'.out # "ok" THEN "nobody" ELSE holder

ElementCall == /\ \/ /\ holder = "caller"
                     /\ BeginMap \/ AssignNull \/ MapCall \/ ChildCall
                  \/ /\ holder = "loop" => m = "Absent"
                     /\ \E c \in CompleteNode : AssignNode(c)
               /\ CallerKeepsHandles
               /\ Held /\ UNCHANGED <<listVars, looping>>

(* The calls of AssignNode's loop, one after the other; it ends with the   *)
(* first that fails.                                                       *)
AtHead == state = "initial" \/ (state = "midValue" /\ ValueFinished)
Looped(more) == /\ looping' = (more /\ ret'.out = "ok")
                /\ Held /\ UNCHANGED <<handles, listVars>>

LoopKey == (looping => AtHead) /\ AssembleKey /\ Looped(TRUE)
LoopString == /\ looping /\ state = "midKey"
              /\ \E k \in Keys : KeyAssignString(k)
              /\ Looped(TRUE)
LoopValue == looping /\ state = "expectValue" /\ AssembleValue /\ Looped(TRUE)
LoopAssign == /\ looping /\ state = "midValue" /\ ~ValueFinished
              /\ \/ \E v \in Values : ChildAssign(f, v)
                 \/ ChildAssignNull(f)
                 \/ ChildWrongKind(f)
              /\ Looped(TRUE)
LoopFinish == (looping => AtHead) /\ Finish /\ Looped(FALSE)
LoopFails == /\ IteratorFails /\ looping /\ AtHead
             /\ Refused("IteratorNext", NoField, "error")
             /\ Looped(FALSE)

Loop == /\ ~begun /\ m = "Absent"
        /\ \/ LoopKey \/ LoopString \/ LoopValue \/ LoopAssign
           \/ LoopFinish \/ LoopFails

----------------------------------------------------------------------------
Lists == {l \in UNION {[1..n -> CompleteNode] : n \in 0..MaxRows} :
            Cardinality({l[i] : i \in DOMAIN l}) <= 1}

(* The caller's turn: no AssignNode is at work. *)
Idle == ~looping /\ (holder # "loop" \/ IteratorFails)

ListNext ==
    \/ /\ Idle
       /\ \/ \E sizeHint \in 0..1 : BeginList(sizeHint)
          \/ ListAssignNull \/ ListAssignWrongKind
          \/ \E l \in Lists : ListAssignNode(l)
          \/ ListBuild \/ ListReset
    \/ /\ ~looping
       /\ lm # "Value" \/ lstate = "finished"
       /\ ListAssembleValue \/ ListFinish
    \/ holder # "nobody" /\ ~looping /\ ElementCall
    \/ holder # "nobody" /\ Loop

ListSpec == ListInit /\ [][ListNext]_allVars

----------------------------------------------------------------------------
(* Properties.                                                             *)

(* The list and the element in progress are in the states of the code. *)
ListTypeOK ==
    /\ lm \in {"Absent", "midvalue", "Value"}
    /\ lstate \in {"initial", "midValue", "finished"}
    /\ rows \in Seq([Fields -> Values \cup {Null, Zero}])
    /\ inList \in BOOLEAN /\ looping \in BOOLEAN
    /\ holder \in {"nobody", "caller", "loop"}

(* Every element of a list that can be handed out has a value in every     *)
(* field of the schema, and null only where it is allowed, whatever was    *)
(* tried and failed while it or an earlier one was assembled.              *)
BuiltRowsComplete ==
    lm = "Value" => \A i \in DOMAIN rows, k \in Fields :
                        \/ rows[i][k] \in Values
                        \/ rows[i][k] = Null /\ k \in Nullable

(* The element assembler that AssembleValue hands out has nothing left of  *)
(* the elements before: no key counts as seen and no value as given.       *)
ElementsStartFresh ==
    [][ret'.op = "ListAssembleValue" /\ ret'.out = "ok" =>
            /\ m' = "Absent" /\ state' = "initial" /\ s' = {}
            /\ cm' = "Absent"]_allVars

Abs == INSTANCE ListBuilder WITH
    Elements <- CompleteNode,
    list <- IF inList /\ m = "Value" THEN Append(rows, Row) ELSE rows,
    sealed <- (lm = "Value")

(* The list assembler keeps the promises of ListBuilder: elements come in  *)
(* whole and in order, neither they nor a finished list change, and what a *)
(* failed attempt left is dropped as a whole or not at all.                *)
ImplementsListBuilder == Abs!Spec
=============================================================================
