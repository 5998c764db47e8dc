---------------------------- MODULE StructAssign ----------------------------
(***************************************************************************)
(* AssignNode of a struct assembler with a node of another type: the loop  *)
(* over the map's entries, each a key and a value, each of the four calls  *)
(* it makes for an entry free to fail, and Finish at the end.  It is what  *)
(* every Encode does first with the node it is given ("wrap in a typed     *)
(* node"), on a builder of its own; a caller may also use it on a builder  *)
(* that other calls have been made on.                                     *)
(***************************************************************************)
EXTENDS StructAssembler, Sequences, SequencesExt

CONSTANTS Bad,         \* a value of a kind no field accepts
          MaxEntries,  \* bound on the entries of an assigned node
          ReuseCopied  \* the caller may assign again after a whole copy

ASSUME EntriesAssumption ==
    /\ MaxEntries \in Nat
    /\ ReuseCopied \in BOOLEAN
    /\ Bad \notin Values \cup {Null}

Entry == [key : Keys, val : Values \cup {Null, Bad}]
Entries == BoundedSeq(Entry, MaxEntries)

VARIABLES
    step,   \* the call the loop makes next; "idle" outside AssignNode
    itr,    \* the entries left to visit
    job     \* the entries of the last AssignNode and what it started from
loopVars == <<step, itr, job>>
allVars == <<vars, loopVars>>

NoJob == [entries |-> << >>, from |-> "none"]

AssignInit == Init /\ step = "idle" /\ itr = << >> /\ job = NoJob

(* A builder nothing was assigned to yet. *)
Fresh == m = "Absent" /\ state = "initial" /\ s = {}

(* The node was copied whole: *na.m is Value, but not by way of Finish. *)
Copied == m = "Value" /\ state # "finished"

(* A finished builder is not turned away here: *na.m is not looked at, and *)
(* na.state tells only a builder that went through Finish.  A node that is *)
(* no map is: AssignWrongKind.                                             *)
StartAssign(es) ==
    /\ step = "idle"
    /\ job = NoJob    \* another call, perhaps Build, came in between
    /\ Copied => ReuseCopied
    /\ step' = "key" /\ itr' = es
    /\ job' = [entries |-> es,
               from |-> IF Fresh THEN "fresh"
                        ELSE IF m = "Value" THEN "finished" ELSE "dirty"]
    /\ UNCHANGED vars

(* Mutant: the loop goes around after an error instead of returning it. *)
GotoOnError(next) == step' = IF ret'.out = "ok" THEN next ELSE "key"
(* The next step of the loop, unless the call just made failed. *)
Goto(next) == step' = IF ret'.out = "ok" THEN next ELSE "idle"

LoopKey == /\ step = "key" /\ itr # << >>
           /\ AssembleKey
           /\ Goto("string") /\ UNCHANGED <<itr, job, handles>>

(* The iterator of the foreign map may fail. *)
LoopFails == /\ step = "key" /\ itr # << >>
             /\ Refused("IteratorNext", NoField, "error")
             /\ step' = "idle" /\ UNCHANGED <<itr, job, handles>>

LoopString == /\ step = "string"
              /\ KeyAssignString(Head(itr).key)
              /\ Goto("value") /\ UNCHANGED <<itr, job, handles>>

LoopValue == /\ step = "value"
             /\ AssembleValue
             /\ Goto("assign") /\ UNCHANGED <<itr, job, handles>>

(* The child assembler's own AssignNode. *)
ChildAssignNode(k, v) == \/ v = Null /\ ChildAssignNull(k)
                         \/ v \in Values /\ ChildAssign(k, v)
                         \/ v = Bad /\ ChildWrongKind(k)

LoopAssign == /\ step = "assign"
              /\ ChildAssignNode(f, Head(itr).val)
              /\ Goto("key") /\ itr' = Tail(itr) /\ UNCHANGED <<job, handles>>

LoopFinish == /\ step = "key" /\ itr = << >>
              /\ Finish
              /\ step' = "idle" /\ UNCHANGED <<itr, job, handles>>

(* Between two AssignNode calls the caller makes other calls on the        *)
(* builder itself; single entries are the matter of StructAssembler.       *)
OtherCall == /\ step = "idle"
             /\ \/ BeginMap \/ AssignNull \/ AssignWrongKind \/ Build \/ Reset
                \/ \E c \in CompleteNode : AssignNode(c)
             /\ CallerKeepsHandles
             /\ job' = NoJob /\ itr' = << >> /\ UNCHANGED step

Loop == LoopKey \/ LoopString \/ LoopValue \/ LoopAssign \/ LoopFinish

AssignNext == \/ \E es \in Entries : StartAssign(es)
              \/ Loop \/ LoopFails
              \/ OtherCall

(* AssignNode runs on its caller's goroutine and waits for nothing: once   *)
(* called, it keeps making steps.  That an iterator fails is not assumed.  *)
AssignSpec == AssignInit /\ [][AssignNext]_allVars /\ WF_allVars(Loop)

----------------------------------------------------------------------------
(* Properties.                                                             *)

(* The entries are those of a node of the type: every field once, no other *)
(* key, values the schema allows.                                          *)
ValidNode(es) ==
    /\ Len(es) = Cardinality(Fields)
    /\ {es[i].key : i \in DOMAIN es} = Fields
    /\ \A i \in DOMAIN es : \/ es[i].val \in Values
                            \/ es[i].val = Null /\ es[i].key \in Nullable

Ended == step = "idle" /\ job # NoJob

(* On a fresh builder AssignNode accepts exactly the nodes the schema      *)
(* allows, in whatever order their fields come, and stores what they hold; *)
(* any other it refuses with an error, and never panics (the schema check  *)
(* at the start of every AppendEncode).                                    *)
AcceptsExactlyTheSchema ==
    Ended /\ job.from = "fresh" /\ ret.op # "IteratorNext" =>
        /\ ret.out = IF ValidNode(job.entries) THEN "ok" ELSE "error"
        /\ ret.out = "ok" => \A i \in DOMAIN job.entries :
              Contents(job.entries[i].key) = job.entries[i].val

(* A failed AssignNode leaves nothing that Build would hand out, even when *)
(* the failure comes after all fields but one have been stored.            *)
FailedAssignNotBuildable ==
    Ended /\ job.from # "finished" /\ ret.out # "ok" => m # "Value"

(* Every node that can be built is complete, however AssignNode and single *)
(* calls were mixed, and though a failed AssignNode is not undone.         *)
CompleteUnderRetries == step = "idle" => BuiltNodeComplete

(* AssignNode always comes back to its caller, from whatever state of the  *)
(* builder it was called in: the entries run out or a call fails, and no   *)
(* failure sends the loop around again.                                    *)
AssignReturns == step # "idle" ~> step = "idle"

(* "cannot assign into assembler that's already finished": a node that     *)
(* Build may have handed out stays as it is.                               *)
FinishedRefusesAssign ==
    [][m = "Value" /\ m' = "Value" => UNCHANGED node]_allVars
=============================================================================
