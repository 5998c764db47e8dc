-------------------------- MODULE GeneratedStruct --------------------------
(***************************************************************************)
(* The code generated for the twelve structs, run on its own tables        *)
(* (StructTables, ReprTables): the assembler of a type or of its           *)
(* representation, and the two readers of the node it builds.  The lines   *)
(* are those of _Account__Assembler.                                       *)
(*                                                                         *)
(* StructAssembler says what every struct's assembler does, from a set of  *)
(* fields.  The code has no such set: it repeats each field's name, number *)
(* and bit in a dozen switches.  Here each switch is a table of its own,   *)
(* the mask s is a number, f the number of a field, a child assembler's    *)
(* Maybe whichever the case at hand pointed it to, and the value of a      *)
(* pointer Maybe stays in the child assembler until valueFinishTidy moves  *)
(* it.  Each step is shown to be a step of StructAssembler.                *)
(*                                                                         *)
(* The caller writes the fields of Wanted, in order or backwards, with     *)
(* AssembleEntry or with AssembleKey and AssembleValue, and at any point   *)
(* makes calls that are out of place.  The value of a field is the field's *)
(* own name, so that one that lands in another field shows.                *)
(***************************************************************************)
EXTENDS ReprTables, Schema, SequencesExt

CONSTANTS Assemblers,  \* pairs of a struct and a level, "type" or "repr"
          Wanted       \* for each struct, the fields a caller writes

ASSUME WantedAssumption ==
    \A x \in Assemblers : /\ x[1] \in DOMAIN TypeTables
                          /\ x[1] \in DOMAIN Wanted
                          /\ x[2] \in {"type", "repr"}

VARIABLES
    x,      \* the assembler at work
    a,      \* its state, and the node
    input,  \* the fields the caller writes, in which order, and the nulls
    phase,  \* where the caller is: what it has to call next
    pos,    \* the number of entries it has written
    right,  \* whether its last call was the one to make
    strays, \* whether it filled a child beyond the child's own entry
    begun, held, ret  \* as in StructAssembler

vars == <<x, a, input, phase, pos, right, strays, begun, held, ret>>

Null == "null"
Zero == "zero"
NoField == "none"
UnknownKey == "unknown"

Tables(t, level) == IF level = "type" THEN TypeTables[t]
                                      ELSE RepresentationTables[t]
G == Tables(x[1], x[2])

(* The struct as declared: its fields, those with a Maybe of their own,    *)
(* and the type of each.                                                   *)
Names(fields) == {fields[i].name : i \in DOMAIN fields}
Nullables(fields) ==
    {fields[i].name : i \in {j \in DOMAIN fields : fields[j].nullable}}
TypeIn(fields, k) ==
    fields[CHOOSE i \in DOMAIN fields : fields[i].name = k].type
Declared(t) == TypeTables[t].struct

Fresh(t) == [m |-> "Absent", state |-> "initial", s |-> 0, f |-> 0,
             cm |-> "Absent",
             wm |-> [n \in Nullables(Declared(t)) |-> "Absent"],
             wv |-> [k \in Names(Declared(t)) |-> Zero],
             caw |-> [k \in Names(Declared(t)) |-> "nil"],
             cam |-> [k \in Names(Declared(t)) |-> "nil"],
             over |-> {}]  \* children that are lists and went through Finish

----------------------------------------------------------------------------
(* The masks.                                                              *)

Position(seq, k) == CHOOSE i \in DOMAIN seq : seq[i] = k
fieldBit(k) == 2 ^ (Position(G.bit, k) - 1)
Has(mask, i) == (mask \div 2 ^ (i - 1)) % 2 = 1
Seen(k) == Has(a.s, Position(G.bit, k))
sufficient == 2 ^ Len(G.bit) - 1

----------------------------------------------------------------------------
(* The assembler.  Each call gives how it ends, the child assembler it     *)
(* hands out and the state it leaves.                                      *)

Result(out, k, b) == [out |-> out, key |-> k, a |-> b]
Panics(k) == Result("panic", k, a)

(* The case of valueFinishTidy for the current field. *)
Case == G.tidy[a.f + 1]
ValueFinished == IF Case.own THEN a.wm[Case.field] \in {"Null", "Value"}
                             ELSE a.cm = "Value"
Ready == a.state = "initial" \/ (a.state = "midValue" /\ ValueFinished)

(* Mutant: the child assembler of a finished field keeps its pointer. *)
valueFinishTidyKeepsPointer ==
    IF a.state # "midValue" THEN a
    ELSE [a EXCEPT !.state = "initial",
                   !.cm = IF Case.own THEN @ ELSE "Absent"]
(* A child that writes behind a pointer keeps what it wrote in ca_F.w. *)
valueFinishTidy ==
    IF a.state # "midValue" THEN a
    ELSE [a EXCEPT
            !.state = "initial",
            !.cm = IF Case.own THEN @ ELSE "Absent",
            !.caw = IF Case.own \/ Case.field = NoName THEN @
                    ELSE [@ EXCEPT ![Case.field] = "nil"],
            !.wv = IF Case.ptr /\ a.wm[Case.field] = "Value"
                   THEN [@ EXCEPT ![Case.field] = a.caw[Case.field]] ELSE @]

(* Points the child assembler of a case's field at the node, or at what    *)
(* the field's pointer holds.                                              *)
Bind(b, row) ==
    [b EXCEPT !.state = "midValue",
              !.caw[row.field] = IF row.ptr THEN b.wv[row.field] ELSE "node",
              !.cam[row.field] = IF row.ptr THEN "behind"
                                 ELSE IF row.own THEN "own" ELSE "shared",
              !.wm = [n \in DOMAIN @ |-> IF row.own /\ n = row.field
                                         THEN "allowNull" ELSE @[n]]]

BeginMap == IF a.m = "Absent"
            THEN Result("ok", NoField, [a EXCEPT !.m = "midvalue"])
            ELSE Panics(NoField)

AssembleKey == IF Ready
               THEN Result("ok", NoField,
                           [valueFinishTidy EXCEPT !.state = "midKey"])
               ELSE Panics(NoField)

KeyAssignString(k) ==
    IF a.state # "midKey" THEN Panics(k)
    ELSE IF ~Contains(G.key, k) \/ Seen(k) THEN Result("error", k, a)
    ELSE Result("ok", k, [a EXCEPT !.s = @ + fieldBit(k),
                                   !.state = "expectValue",
                                   !.f = Position(G.key, k) - 1])

AssembleValue ==
    IF a.state # "expectValue" THEN Panics(NoField)
    ELSE Result("ok", G.value[a.f + 1].field, Bind(a, G.value[a.f + 1]))

AssembleEntry(k) ==
    IF ~Ready THEN Panics(k)
    ELSE IF k \notin {G.entry[i].field : i \in DOMAIN G.entry} \/ Seen(k)
         THEN Result("error", k, valueFinishTidy)
    ELSE LET i == CHOOSE j \in DOMAIN G.entry : G.entry[j].field = k
         IN  Result("ok", k,
                    [Bind(valueFinishTidy, G.entry[i])
                        EXCEPT !.s = @ + fieldBit(k), !.f = i - 1])

(* s & sufficient; no bit is ever outside sufficient. *)
Finish ==
    IF ~Ready THEN Panics(NoField)
    ELSE IF a.s # sufficient THEN Result("error", NoField, valueFinishTidy)
    ELSE Result("ok", NoField, [valueFinishTidy EXCEPT !.state = "finished",
                                                       !.m = "Value"])

AssignNode(nulls) ==
    IF a.m # "Absent" THEN Panics(NoField)
    ELSE Result("ok", NoField,
                [a EXCEPT !.m = "Value",
                          !.wv = [k \in DOMAIN @ |->
                                    IF k \in nulls THEN Zero ELSE k],
                          !.wm = [n \in DOMAIN @ |->
                                    IF n \in nulls THEN "Null" ELSE "Value"]])

Build == Result(IF a.m = "Value" THEN "ok" ELSE "panic", NoField, a)
Reset == Result("ok", NoField, Fresh(x[1]))

----------------------------------------------------------------------------
(* The child assembler of field k.                                         *)

Own(k) == a.cam[k] \in {"own", "behind"}
ChildMaybe(k) == IF Own(k) THEN a.wm[k] ELSE a.cm
ChildOpen(k) == a.cam[k] # "nil" /\ ChildMaybe(k) \in {"Absent", "allowNull"}
SetMaybe(k, y) == IF Own(k) THEN [a EXCEPT !.wm[k] = y]
                            ELSE [a EXCEPT !.cm = y]

(* Behind a pointer the child makes a node of its own. *)
Behind(k) == a.cam[k] = "behind"

Takes(k) == Kind(TypeIn(Declared(x[1]), k))

(* A child without its place in the node: valueFinishTidy has cleared it,  *)
(* or the child took a node that it was given for its own.                 *)
Astray(k) == a.caw[k] # "node" /\ ~Behind(k)

(* A value of the wanted type, given to the child assembler of the         *)
(* declared one: AssignBytes, AssignLink or AssignNode of a node of the    *)
(* type.  Where w is nil only a union takes it (na.w = v2), and the struct *)
(* does not get it.                                                        *)
ChildAssign(k) ==
    IF Takes(k) # Kind(TypeIn(Wanted[x[1]], k)) THEN Result("error", k, a)
    ELSE IF ~ChildOpen(k) \/ (Astray(k) /\ Takes(k) # "map") THEN Panics(k)
    ELSE Result("ok", k,
                IF Behind(k) THEN [SetMaybe(k, "Value") EXCEPT !.caw[k] = k]
                ELSE IF Astray(k)
                     THEN [SetMaybe(k, "Value") EXCEPT !.caw[k] = "elsewhere"]
                ELSE [SetMaybe(k, "Value") EXCEPT !.wv[k] = k])

(* An empty list of another type: AssignNode has no entry to go through,   *)
(* looks neither at w nor at *na.m, and its Finish sets the child's state  *)
(* and then *na.m; the second Finish panics.                               *)
ChildAssignEmpty(k) ==
    IF k \in a.over THEN Panics(k)
    ELSE IF a.cam[k] = "nil"
         THEN Result("panic", k, [a EXCEPT !.over = @ \cup {k}])
    ELSE Result("ok", k, [SetMaybe(k, "Value") EXCEPT !.over = @ \cup {k}])

ChildAssignNull(k) ==
    IF ~ChildOpen(k) THEN Panics(k)
    ELSE IF ChildMaybe(k) = "Absent" THEN Result("error", k, a)
    ELSE Result("ok", k, SetMaybe(k, "Null"))

----------------------------------------------------------------------------
(* The caller.                                                             *)

(* What it calls in each phase, and the phase that follows.  A call that   *)
(* is out of place and succeeds (a key after the last field) loses it the  *)
(* thread: only Reset helps.                                               *)
Script == {<<"start", "BeginMap", "key">>, <<"start", "AssignNode", "built">>,
           <<"key", "AssembleEntry", "child">>, <<"key", "AssembleKey", "name">>,
           <<"name", "KeyAssignString", "value">>,
           <<"value", "AssembleValue", "child">>,
           <<"child", "ChildAssign", "key">>,
           <<"child", "ChildAssignNull", "key">>,
           <<"key", "Finish", "built">>, <<"built", "Build", "built">>}

Total == Len(input.order)
Current == input.order[pos + 1]

InPlace(op, k) ==
    /\ \E p \in Script : p[1] = phase /\ p[2] = op
    /\ op \in {"AssembleEntry", "AssembleKey", "Finish"} =>
            (pos < Total <=> op # "Finish")
    /\ op \in {"AssembleEntry", "KeyAssignString"} => k = Current
    /\ op \in {"ChildAssign", "ChildAssignNull"} =>
            k = Current /\ (k \in input.nulls <=> op = "ChildAssignNull")

(* A call, and what the caller makes of it. *)
Call(op, k, r) ==
    /\ a' = r.a
    /\ ret' = [op |-> op, key |-> r.key, out |-> r.out]
    /\ right' = InPlace(op, k)
    /\ phase' = IF op = "Reset" THEN "start"
                ELSE IF r.out # "ok" THEN phase
                ELSE IF ~right' THEN "lost"
                ELSE (CHOOSE p \in Script : p[1] = phase /\ p[2] = op)[3]
    /\ pos' = IF op = "Reset" THEN 0
              ELSE IF phase = "child" /\ phase' = "key" THEN pos + 1 ELSE pos
    /\ begun' = IF op = "Reset" THEN FALSE
                ELSE begun \/ (op = "BeginMap" /\ r.out = "ok")
    /\ held' = LET given == IF op \in {"AssembleEntry", "AssembleValue"}
                               /\ r.out = "ok" THEN {r.key} ELSE {}
               IN given \cup (IF \/ x[2] = "type"
                                 \/ given = {} /\ a'.state = "midValue"
                              THEN held ELSE {})
    /\ strays' = CASE op = "Reset" -> FALSE
                   [] op = "ChildAssign" -> strays \/ (r.out = "ok" /\ Astray(k))
                   [] op = "ChildAssignEmpty" -> strays \/ r.out = "ok"
                   [] OTHER -> strays
    /\ UNCHANGED <<x, input>>

(* It may offer null where the schema forbids it, but writes no null for a *)
(* value or value for a null.  The keys it uses: the one at hand, the     *)
(* first again, and a foreign one.                                         *)
Keys == {input.order[1], UnknownKey} \cup
        (IF pos < Total THEN {Current} ELSE {})

OwnCall == \/ Call("BeginMap", NoField, BeginMap)
           \/ Call("AssignNode", NoField, AssignNode(input.nulls))
           \/ Call("Build", NoField, Build)
           \/ Call("Reset", NoField, Reset)
MapCall == /\ begun
           /\ \/ Call("AssembleKey", NoField, AssembleKey)
              \/ Call("AssembleValue", NoField, AssembleValue)
              \/ Call("Finish", NoField, Finish)
              \/ \E k \in Keys : \/ Call("KeyAssignString", k, KeyAssignString(k))
                                 \/ Call("AssembleEntry", k, AssembleEntry(k))
Lists == {k \in held : Takes(k) = "list"}
ChildCall == \E k \in held \cap (Keys \cup Lists) :
                \/ /\ k \notin input.nulls
                   /\ Call("ChildAssign", k, ChildAssign(k))
                \/ /\ k \in input.nulls \/ k \notin Nullables(Wanted[x[1]])
                   /\ Call("ChildAssignNull", k, ChildAssignNull(k))
                \/ /\ k \in Lists /\ x[2] = "type"
                   /\ Astray(k) \/ ~ChildOpen(k)
                   /\ Call("ChildAssignEmpty", k, ChildAssignEmpty(k))

Next == OwnCall \/ MapCall \/ ChildCall

(* In the schema's order with every other field null that may be, or       *)
(* backwards with the others null.                                         *)
Inputs(t) ==
    LET w == Wanted[t]
        names == [i \in DOMAIN w |-> w[i].name]
        nulls(p) == {w[i].name : i \in {j \in DOMAIN w : w[j].nullable /\ j % 2 = p}}
    IN  {[order |-> names, nulls |-> nulls(0)],
         [order |-> Reverse(names), nulls |-> nulls(1)]}

Init == /\ x \in Assemblers
        /\ input \in Inputs(x[1])
        /\ a = Fresh(x[1])
        /\ phase = "start" /\ pos = 0 /\ right = TRUE /\ strays = FALSE
        /\ begun = FALSE /\ held = {}
        /\ ret = [op |-> "NewBuilder", key |-> NoField, out |-> "ok"]

Spec == Init /\ [][Next]_vars

----------------------------------------------------------------------------
(* The readers of a finished node, of the type or of the representation.   *)

ReadRow(row) == IF row.own /\ a.wm[row.field] = "Null" THEN Null
                ELSE a.wv[row.field]

LookupByString(level, k) ==
    LET rows == Tables(x[1], level).lookup
        named == {i \in DOMAIN rows : rows[i].field = k}
    IN  IF named = {} THEN NoField ELSE ReadRow(rows[CHOOSE i \in named : TRUE])

(* What MapIterator goes through: keys and values. *)
MapItr(level) == LET rows == Tables(x[1], level).next
                 IN  [i \in DOMAIN rows |-> <<rows[i].field, ReadRow(rows[i])>>]

----------------------------------------------------------------------------
(* Properties.                                                             *)

Given(k) == IF k \in input.nulls THEN Null ELSE k

(* A node that Build hands out reads back as it was written: a lookup by   *)
(* name and a walk with the iterator, of the node and of its               *)
(* representation, give every field of the schema, in the schema's order,  *)
(* with the value the caller gave for it (LookupByString, MapItr.Next),    *)
(* unless the caller filled a union or a list beyond its entry: that may   *)
(* complete another one.                                                   *)
ReadsBack ==
    a.m = "Value" /\ ~strays =>
      LET want == [i \in DOMAIN Wanted[x[1]] |-> Wanted[x[1]][i].name]
      IN  \A level \in {"type", "repr"} :
            /\ \A k \in Range(want) : LookupByString(level, k) = Given(k)
            /\ MapItr(level) = [i \in DOMAIN want |-> <<want[i], Given(want[i])>>]

(* A caller that writes the fields of the schema, in either order and with *)
(* its nulls, is never refused, whatever calls out of place it makes in    *)
(* between: its next right call succeeds.                                  *)
AcceptsWhatTheSchemaSays == right => ret.out = "ok"

(* What of StructAssembler's state the tables spell out. *)
SA(t, level) == INSTANCE StructAssembler WITH
    Fields <- Names(Declared(t)), Nullable <- Nullables(Declared(t)),
    Values <- Names(Declared(t)), Level <- level,
    Composite <- {k \in Names(Declared(t)) :
                    Kind(TypeIn(Declared(t), k)) \in {"list", "map"}},
    KeepStale <- (level = "type"),
    m <- a.m, state <- a.state, cm <- a.cm, wm <- a.wm,
    s <- {G.bit[i] : i \in {j \in DOMAIN G.bit : Has(a.s, j)}},
    f <- IF a.s = 0 THEN NoField ELSE G.bit[a.f + 1],
    wv <- [k \in Names(Declared(t)) |->
             IF Behind(k) /\ a.wm[k] = "Value" /\ a.wv[k] = Zero
             THEN a.caw[k] ELSE a.wv[k]],
    caw <- {k \in Names(Declared(t)) : a.cam[k] # "nil" /\ ~Astray(k)},
    cam <- {k \in Names(Declared(t)) : a.cam[k] # "nil"}

(* The step of StructAssembler for the call that was made. *)
StructStep(t, level) ==
    LET k == ret'.key
    IN  /\ CASE ret'.op = "BeginMap" -> SA(t, level)!BeginMap
             [] ret'.op = "AssignNode" ->
                    SA(t, level)!AssignNode([j \in Names(Declared(t)) |-> Given(j)])
             [] ret'.op = "Build" -> SA(t, level)!Build
             [] ret'.op = "Reset" -> SA(t, level)!Reset
             [] ret'.op = "AssembleKey" -> SA(t, level)!AssembleKey
             [] ret'.op = "KeyAssignString" -> SA(t, level)!KeyAssignString(k)
             [] ret'.op = "AssembleValue" -> SA(t, level)!AssembleValue
             [] ret'.op = "AssembleEntry" -> SA(t, level)!AssembleEntry(k)
             [] ret'.op = "Finish" -> SA(t, level)!Finish
             [] ret'.op = "ChildAssign" -> SA(t, level)!ChildAssign(k, k)
             [] ret'.op = "ChildAssignNull" -> SA(t, level)!ChildAssignNull(k)
             [] ret'.op = "ChildAssignEmpty" ->
                    SA(t, level)!ChildAssignEmpty(k)
        /\ SA(t, level)!CallerKeepsHandles

(* The assembler generated for each struct and for each representation is  *)
(* StructAssembler with the struct's fields: every call, in or out of      *)
(* place, is a step of it, so what is proved of StructAssembler holds of   *)
(* all of them.                                                            *)
ImplementsStructAssembler ==
    /\ \A y \in Assemblers : x = y => SA(y[1], y[2])!Init
    /\ [][\A y \in Assemblers : x = y => StructStep(y[1], y[2])]_vars
============================================================================
