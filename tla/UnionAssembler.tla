-------------------------- MODULE UnionAssembler --------------------------
(***************************************************************************)
(* The assemblers generated for the unions Value, TrieNode and Child, and  *)
(* the readers of what they build; the lines are those of                  *)
(* _Child__Assembler.  A union is assembled as a map with one entry, whose *)
(* key says which member it is.  Only the representation of Child is       *)
(* kinded: a link stands for the member Link and a map for TrieNode,       *)
(* without a key.                                                          *)
(*                                                                         *)
(* The caller wants one member (or null) and goes one of five ways:        *)
(* AssembleEntry; AssembleKey and AssembleValue; AssignNode of a node of   *)
(* the union's type; AssignNode of a foreign map; or, for the kinded one,  *)
(* the call for the member's kind.  At any point it makes calls that are   *)
(* out of place, some with handles it kept; Reset makes it drop them.      *)
(*                                                                         *)
(* An assembler stands alone, in a builder, or behind a pointer: as the    *)
(* child of a nullable field of TrieBranchNode its w is nil until BeginMap *)
(* or AssignNode makes a node.  The value of a member is a name (Another,  *)
(* or that of its type) and is given whole: the assemblers of the members  *)
(* are StructAssembler, this one, or a scalar's.                           *)
(***************************************************************************)
EXTENDS UnionTables, SequencesExt

CONSTANT Cases  \* what is assembled, where, by which ways, for callers
                \* that want which member, 0 for null

ASSUME CasesAssumption ==
    \A c \in Cases :
        /\ c.union \in DOMAIN Unions /\ c.level \in {"type", "repr"}
        /\ c.place \in {"alone", "pointer"}
        /\ c.wants \subseteq 0..Len(Unions[c.union])
        /\ 0 \in c.wants => c.place = "pointer"
        /\ c.ways \subseteq
              IF c.union = "Child" /\ c.level = "repr" THEN {"kind", "copy"}
              ELSE {"entry", "keyvalue", "copy", "foreign"}

VARIABLES
    case,   \* the case at hand
    b,      \* the assembler and its node
    want,   \* the member the caller is after, 0 for null
    phase,  \* where the caller is
    right,  \* whether its last call was the one to make
    held,   \* the members whose assembler it holds
    ret     \* the last call and how it ended

vars == <<case, b, want, phase, right, held, ret>>

Members == Unions[case.union]
Tables(level) == IF level = "type" THEN UnionTypes[case.union]
                                   ELSE UnionReprs[case.union]
T == Tables(case.level)
TypeOf(i) == Members[i].type
KeyOf(level, i) == IF level = "type" THEN Members[i].type ELSE Members[i].repr

Zero == "zero"
UnknownKey == "unknown"
BadValue == "bad"

(* The values a member takes: its own, and one that all have. *)
Another == "another"
ValuesOf(i) == {TypeOf(i), Another}

Fresh(c) == [m |-> IF c.place = "alone" THEN "Absent" ELSE "allowNull",
             w |-> IF c.place = "alone" THEN "node" ELSE "nil",
             state |-> "initial", ca |-> 0, cm |-> "Absent",
             tag |-> 0, x |-> [i \in DOMAIN Unions[c.union] |-> Zero],
             nil |-> ByPointer[c.union]]

----------------------------------------------------------------------------
(* The calls, as functions of the state they find: how they end, the       *)
(* member assembler they hand out and the state they leave.                *)

Result(out, i, c) == [out |-> out, given |-> i, b |-> c]
Ok(c) == Result("ok", 0, c)
Error(c) == Result("error", 0, c)
Panic(c) == Result("panic", 0, c)
Then(r, Op(_)) == IF r.out = "ok" THEN Op(r) ELSE r

Open(c) == c.m \in {"Absent", "allowNull"}

BeginMap(c) == IF Open(c) THEN Ok([c EXCEPT !.m = "midvalue", !.w = "node"])
                          ELSE Panic(c)

AssignNull(c) == IF c.m = "allowNull" THEN Ok([c EXCEPT !.m = "Null"])
                 ELSE IF c.m = "Absent" THEN Error(c) ELSE Panic(c)

(* AssignNode of a union of the same type, whose member is i. *)
AssignNode(c, i) ==
    IF Open(c)
    THEN Ok([c EXCEPT !.m = "Value", !.w = "node", !.tag = i,
                      !.x = [j \in DOMAIN @ |-> IF j = i THEN TypeOf(i) ELSE Zero]])
    ELSE Panic(c)

(* valueFinishTidy: the Maybe of the member stays as it is. *)
Ready(c) == c.state = "initial" \/ (c.state = "midValue" /\ c.cm = "Value")
Tidied(c) == [c EXCEPT !.state = "initial"]

(* Mutant: counted from one too far. *)
IndexPastEnd(names, k) == 1 + CHOOSE i \in DOMAIN names : names[i] = k
Index(names, k) == CHOOSE i \in DOMAIN names : names[i] = k

(* Mutant: the second entry is not refused. *)
FullNever(c) == FALSE
Full(c) == c.ca # 0

(* With the member's own assembler still nil, the pointer is followed      *)
(* after state, ca and tag are set.                                        *)
AssembleEntry(c, k) ==
    IF ~Ready(c) THEN Panic(c)
    ELSE IF Full(c) \/ ~Contains(T.entry, k) THEN Error(Tidied(c))
    ELSE LET i == Index(T.entry, k)
             d == [c EXCEPT !.state = "midValue", !.ca = i, !.tag = i]
         IN  IF i \in c.nil THEN Panic(d) ELSE Result("ok", i, d)

AssembleKey(c) == IF Ready(c) THEN Ok([c EXCEPT !.state = "midKey"])
                              ELSE Panic(c)

(* The tag is in the node: with w nil the write panics, after ca is set. *)
KeyAssignString(c, k) ==
    IF c.state # "midKey" THEN Panic(c)
    ELSE IF Full(c) \/ ~Contains(T.key, k) THEN Error(c)
    ELSE LET i == Index(T.key, k)
         IN  IF c.w = "nil" THEN Panic([c EXCEPT !.ca = i])
             ELSE Ok([c EXCEPT !.ca = i, !.tag = i, !.state = "expectValue"])

(* A nil member assembler is made here. *)
AssembleValue(c) ==
    IF c.state # "expectValue" THEN Panic(c)
    ELSE LET d == [c EXCEPT !.state = "midValue"]
         IN  IF c.ca \notin DOMAIN T.value THEN Panic(d)
             ELSE Result("ok", T.value[c.ca],
                         [d EXCEPT !.nil = @ \ {T.value[c.ca]}])

Finish(c) == IF ~Ready(c) THEN Panic(c)
             ELSE IF c.ca = 0 THEN Error(Tidied(c))
             ELSE Ok([c EXCEPT !.state = "finished", !.m = "Value"])

(* Mutant: the assembler of a member does not look at the Maybe it shares  *)
(* with the union.                                                         *)
MemberAssignAnytime(c, i, v) ==
    IF v \notin ValuesOf(i) THEN Error(c)
    ELSE Ok([c EXCEPT !.x[i] = v, !.cm = "Value"])
(* The assembler of member i, given a value of some member. *)
MemberAssign(c, i, v) ==
    IF v \notin ValuesOf(i) THEN Error(c)
    ELSE IF c.cm = "Value" THEN Panic(c)
    ELSE Ok([c EXCEPT !.x[i] = v, !.cm = "Value"])

(* AssignNode of a foreign map: entry by entry through the key and value   *)
(* assemblers, without BeginMap, up to the first that fails.  The maps     *)
(* here have at most two entries.                                          *)
AssignEntry(c, e) ==
    Then(Then(Then(AssembleKey(c),
                   LAMBDA r : KeyAssignString(r.b, e.key)),
              LAMBDA r : AssembleValue(r.b)),
         LAMBDA r : MemberAssign(r.b, r.given, e.value))
Visit(r, entries, i) ==
    IF i \in DOMAIN entries
    THEN Then(r, LAMBDA q : AssignEntry(q.b, entries[i])) ELSE r
AssignForeign(c, entries) ==
    Then(Visit(Visit(Ok(c), entries, 1), entries, 2),
         LAMBDA r : Finish(r.b))

(* The kinded representation.  The member assemblers share the union's     *)
(* Maybe.  That of TrieNode is behind a pointer that nothing sets: the     *)
(* call panics when it follows it.                                         *)
Link == 1
TrieNode == 2
Chosen(c, i) == [c EXCEPT !.w = "node", !.ca = i, !.tag = i]

(* Mutant: a finished union takes another link. *)
AssignLinkAgain(c, v) == Ok([Chosen(c, Link) EXCEPT !.x[Link] = v, !.m = "Value"])
(* Mutant: no node is made where w is nil. *)
AssignLinkIntoNil(c, v) ==
    IF Open(c) /\ c.w # "nil"
    THEN Ok([Chosen(c, Link) EXCEPT !.x[Link] = v, !.m = "Value"])
    ELSE Panic(c)
AssignLink(c, v) ==
    IF Open(c) THEN Ok([Chosen(c, Link) EXCEPT !.x[Link] = v, !.m = "Value"])
    ELSE Panic(c)

BeginKindedMap(c) == Panic(IF Open(c) THEN Chosen(c, TrieNode) ELSE c)

(* BeginList, AssignBool, AssignInt, AssignFloat, AssignString,            *)
(* AssignBytes, and AssignNull whatever *m says: no kind of the union.     *)
AssignWrongKind(c) == IF Open(c) THEN Error(c) ELSE Panic(c)

(* The call for a kind, which AssignNode of a foreign node makes as well. *)
AssignKind(c, i, v) == CASE i = Link     -> AssignLink(c, v)
                         [] i = TrieNode -> BeginKindedMap(c)
                         [] i = 0        -> AssignWrongKind(c)

Build(c) == IF c.m = "Value" THEN Ok(c) ELSE Panic(c)
Reset(c) == Ok(Fresh(case))

----------------------------------------------------------------------------
(* The caller.                                                             *)

Script == {<<"start", "BeginMap", "key">>, <<"start", "AssignNull", "built">>,
           <<"start", "AssignNode", "built">>,
           <<"start", "AssignForeign", "built">>,
           <<"start", "AssignKind", "built">>,
           <<"key", "AssembleEntry", "member">>,
           <<"key", "AssembleKey", "name">>,
           <<"name", "KeyAssignString", "value">>,
           <<"value", "AssembleValue", "member">>,
           <<"member", "MemberAssign", "end">>, <<"end", "Finish", "built">>,
           <<"built", "Build", "built">>}

(* A call, and whether the caller's purpose asked for it.  One that did    *)
(* not and succeeds loses the caller the thread, and so does a foreign map *)
(* that is refused half way.                                               *)
Call(op, fits, r) ==
    /\ b' = r.b
    /\ right' = (fits /\ \E p \in Script : p[1] = phase /\ p[2] = op)
    /\ phase' = IF op = "Reset" THEN "start"
                ELSE IF r.out # "ok" /\ op # "AssignForeign" THEN phase
                ELSE IF r.out # "ok" \/ ~right' THEN "lost"
                ELSE (CHOOSE p \in Script : p[1] = phase /\ p[2] = op)[3]
    /\ held' = IF op = "Reset" THEN {}
               ELSE held \cup (IF r.given = 0 THEN {} ELSE {r.given})
    /\ ret' = [op |-> op, out |-> r.out]
    /\ UNCHANGED <<case, want>>

Key == IF want = 0 THEN UnknownKey ELSE KeyOf(case.level, want)
Other == (want % Len(Members)) + 1
Keys == {Key, KeyOf(case.level, Other), UnknownKey}
Entry(k, v) == [key |-> k, value |-> v]

(* Maps that are right, empty, too long, misnamed, or hold a bad value. *)
Foreign ==
    LET good == IF want = 0 THEN Entry(UnknownKey, BadValue)
                ELSE Entry(Key, TypeOf(want))
    IN  {<<good>>, <<>>, <<good, Entry(KeyOf(case.level, Other), TypeOf(Other))>>,
         <<Entry(UnknownKey, BadValue)>>, <<Entry(Key, BadValue)>>}

By(way) == way \in case.ways
Begun == b.m = "midvalue" \/ b.state = "finished"

OwnCall ==
    \/ (By("entry") \/ By("keyvalue"))
       /\ Call("BeginMap", want # 0, BeginMap(b))
    \/ ~By("kind") /\ Call("AssignNull", want = 0, AssignNull(b))
    \/ By("kind") /\ \E i \in {0} \cup DOMAIN Members :
         \E v \in IF i = 0 THEN {"null", "other"} ELSE ValuesOf(i) :
            Call("AssignKind",
                 i = want /\ v = (IF want = 0 THEN "null" ELSE TypeOf(want)),
                 AssignKind(b, i, v))
    \/ By("copy") /\ \E i \in {want, Other} \ {0} :
                        Call("AssignNode", i = want, AssignNode(b, i))
    \/ By("foreign") /\ \E e \in Foreign :
                Call("AssignForeign",
                     want # 0 /\ e = <<Entry(Key, TypeOf(want))>>,
                     AssignForeign(b, e))
    \/ case.place = "alone" /\ Call("Build", want # 0, Build(b))
    \/ case.place = "alone" /\ Call("Reset", FALSE, Reset(b))

MapCall ==
    /\ Begun
    /\ \/ By("entry") /\ \E k \in Keys :
                Call("AssembleEntry", k = Key, AssembleEntry(b, k))
       \/ By("keyvalue") /\ Call("AssembleKey", TRUE, AssembleKey(b))
       \/ By("keyvalue") /\ \E k \in Keys :
                Call("KeyAssignString", k = Key, KeyAssignString(b, k))
       \/ By("keyvalue") /\ Call("AssembleValue", TRUE, AssembleValue(b))
       \/ Call("Finish", TRUE, Finish(b))

MemberCall ==
    \E i \in held, v \in {TypeOf(j) : j \in {want, Other} \ {0}} \cup {Another} :
        Call("MemberAssign", want # 0 /\ v = TypeOf(want), MemberAssign(b, i, v))

Next == OwnCall \/ MapCall \/ MemberCall

Init == /\ case \in Cases
        /\ b = Fresh(case)
        /\ want \in case.wants
        /\ phase = "start" /\ right = TRUE /\ held = {}
        /\ ret = [op |-> "NewBuilder", out |-> "ok"]

Spec == Init /\ [][Next]_vars

----------------------------------------------------------------------------
(* The readers: by the key of a level, and of the kinded representation,   *)
(* by its kind and by the calls that the member of that kind answers.      *)

LookupByString(level, k) ==
    LET names == Tables(level).lookup
    IN  IF ~Contains(names, k) THEN "no such field"
        ELSE IF b.tag # Index(names, k) THEN "not exists" ELSE b.x[b.tag]

MapItr(level) == <<Tables(level).next[b.tag], b.x[b.tag]>>

KindOfChild == CASE b.tag = Link -> "link" [] b.tag = TrieNode -> "map"
(* Mutant: the link is read whatever the tag says. *)
AsLinkUntagged == b.x[Link]
AsLink == IF b.tag = Link THEN b.x[Link] ELSE "wrong kind"
AsMap == IF b.tag = TrieNode THEN b.x[TrieNode] ELSE "wrong kind"

----------------------------------------------------------------------------
(* Properties.                                                             *)

Levels == IF case.union \in DOMAIN UnionReprs THEN {"type", "repr"}
                                              ELSE {"type"}

(* The assembler, its node and its caller are in the states of the code. *)
TypeOK ==
    /\ b.m \in {"Absent", "allowNull", "midvalue", "Null", "Value"}
    /\ b.w \in {"nil", "node"} /\ b.cm \in {"Absent", "Value"}
    /\ b.state \in {"initial", "midKey", "expectValue", "midValue", "finished"}
    /\ b.ca \in 0..Len(Members) /\ b.tag \in 0..Len(Members)
    /\ held \subseteq DOMAIN Members

(* A union that can be handed out holds one member, the one its tag names, *)
(* and nothing in the others, however it came about (Finish, AssignNode).  *)
HoldsOneMember ==
    b.m = "Value" => /\ b.tag \in DOMAIN Members
                     /\ b.x[b.tag] \in ValuesOf(b.tag)
                     /\ \A j \in DOMAIN Members \ {b.tag} : b.x[j] = Zero

(* A caller that gets through finds the member it wanted, by lookup and by *)
(* iterator, in the node and in its representation, and no other; also     *)
(* after a map that could not be begun left its tag.                       *)
ReadsBack ==
    phase = "built" /\ want # 0 =>
        /\ \A level \in Levels :
            /\ MapItr(level) = <<KeyOf(level, want), TypeOf(want)>>
            /\ \A i \in DOMAIN Members :
                 LookupByString(level, KeyOf(level, i)) =
                     IF i = want THEN TypeOf(i) ELSE "not exists"
        /\ case.union = "Child" =>
            /\ KindOfChild = Members[want].repr
            /\ AsLink = IF want = Link THEN TypeOf(want) ELSE "wrong kind"
            /\ AsMap = IF want = TrieNode THEN TypeOf(want) ELSE "wrong kind"

(* Every member of the schema, and null where the place allows it, can be  *)
(* assembled in each of the ways: the right call is never refused,         *)
(* whatever single calls out of place were refused before.                 *)
AcceptsEveryMember == right => ret.out = "ok"

(* A finished union does not change, not through a member assembler that   *)
(* the caller kept either (the member's Maybe is never reset).             *)
FinishedIsImmutable ==
    [][b.m \in {"Null", "Value"} /\ ret'.op # "Reset" =>
            UNCHANGED <<b.m, b.tag, b.x>>]_vars
============================================================================
