----------------------- MODULE UnionAssemblerProofs -----------------------
(***************************************************************************)
(* Proofs about the assemblers of the unions, for callers that go any of   *)
(* the ways that go together (Sound), on unions that stand alone or behind *)
(* a pointer.                                                              *)
(*                                                                         *)
(* The Maybe of the member, cm, is never reset, and ca is set once: what   *)
(* makes a union safe is that the two tell whether its member was begun    *)
(* and given, whichever state a refused call left.  MapSane says so of the *)
(* unions that are assembled as maps, KindSane is what the kinded          *)
(* representation, which has no such flags, relies on.                     *)
(***************************************************************************)
EXTENDS UnionAssembler, TLAPS

(* The ways that go together.  A copy and a foreign map do not, nor do the *)
(* calls for a key and a value at the level of the representation, whose   *)
(* AssembleValue counts from zero.                                         *)
Sound(c) == /\ ~({"copy", "foreign"} \subseteq c.ways)
            /\ c.level = "repr" => c.ways \cap {"keyvalue", "foreign"} = {}

MemberValues == {Zero} \cup UNION {ValuesOf(i) : i \in DOMAIN Members}

Types(c) ==
    c \in [m : {"Absent", "allowNull", "midvalue", "Null", "Value"},
           w : {"nil", "node"}, cm : {"Absent", "Value"},
           state : {"initial", "midKey", "expectValue", "midValue",
                    "finished"},
           ca : 0..Len(Members), tag : 0..Len(Members),
           x : [DOMAIN Members -> MemberValues],
           nil : SUBSET DOMAIN Members]

(* The union of c holds the member of its tag and nothing else. *)
Whole(c) == /\ c.tag \in DOMAIN Members
            /\ c.x[c.tag] \in ValuesOf(c.tag)
            /\ \A j \in DOMAIN Members \ {c.tag} : c.x[j] = Zero

(* No entry has been begun. *)
Untouched(c) == c.ca = 0 /\ c.state = "initial" /\ c.cm = "Absent"

MapSane(c) ==
    /\ Types(c)
    /\ c.w = "nil" <=> c.m \in {"allowNull", "Null"}
    /\ c.w = "nil" => c.state \in {"initial", "midKey"} /\ c.cm = "Absent"
    /\ c.state \in {"expectValue", "midValue"} => c.ca # 0 /\ c.tag = c.ca
    /\ c.state = "finished" => c.m = "Value" /\ c.cm = "Value"
    /\ c.state = "initial" /\ c.ca # 0 => c.cm = "Value"
    /\ c.cm = "Value" => /\ c.ca # 0 /\ c.tag = c.ca
                         /\ c.x[c.ca] \in ValuesOf(c.ca)
    /\ c.m # "Value" \/ c.state = "finished" =>
          \A j \in DOMAIN Members \ {c.ca} : c.x[j] = Zero
    /\ c.m = "Value" => Whole(c)
    /\ c.m = "Value" /\ c.state # "finished" =>
          Untouched(c) /\ "copy" \in case.ways
    /\ "copy" \in case.ways /\ c.m \in {"Absent", "allowNull", "Null"} =>
          Untouched(c)

(* The only member assembler the caller may hold is that of the entry. *)
HeldOK == /\ held \subseteq {b.ca} \ {0}
          /\ held # {} => b.tag = b.ca /\ b.w = "node"

KindSane(c) ==
    /\ Types(c)
    /\ c.m \in {"Absent", "allowNull", "Value"}
    /\ c.state = "initial"
    /\ c.m = "Value" => Whole(c)
    /\ c.m # "Value" => \A j \in DOMAIN Members : c.x[j] = Zero

UnionInv ==
    /\ case \in Cases /\ want \in case.wants
    /\ IF "kind" \in case.ways THEN KindSane(b) /\ held = {}
                               ELSE MapSane(b) /\ HeldOK

----------------------------------------------------------------------------
(* The tables.                                                             *)

(* The caller goes through keys. *)
Keyed == case.ways \cap {"entry", "keyvalue", "foreign"} # {}

(* Every switch has a case for every member, in the schema's order, and at *)
(* the level of the type AssembleValue agrees with the others.             *)
LEMMA TablesFit ==
    ASSUME case \in Cases
    PROVE  /\ Len(Members) \in Nat /\ DOMAIN Members = 1..Len(Members)
           /\ ByPointer[case.union] \subseteq DOMAIN Members
           /\ Keyed => /\ Len(T.entry) = Len(Members)
                       /\ Len(T.key) = Len(Members)
                       /\ DOMAIN T.entry = DOMAIN Members
                       /\ DOMAIN T.key = DOMAIN Members
           /\ case.level = "type" =>
                /\ DOMAIN T.value = DOMAIN Members
                /\ \A i \in DOMAIN Members : T.value[i] = i
           /\ "kind" \in case.ways => Len(Members) = 2 /\ ~Keyed
<1>1. case.union \in {"Value", "Child", "TrieNode"}
      /\ case.level \in {"type", "repr"}
  BY CasesAssumption DEF Unions
<1>2. case.ways \subseteq
          IF case.union = "Child" /\ case.level = "repr" THEN {"kind", "copy"}
          ELSE {"entry", "keyvalue", "copy", "foreign"}
  BY CasesAssumption
<1>3. CASE case.union = "Value"
  <2>1. Len(Members) = 5 /\ DOMAIN Members = 1..5
    BY <1>3 DEF Members, Unions, Value_members
  <2>2. "kind" \notin case.ways
    BY <1>2, <1>3
  <2>3. CASE case.level = "type"
    <3>1. T.entry = Value_AssembleEntry /\ T.key = Value_AssignString
          /\ T.value = Value_AssembleValue
      BY <1>3, <2>3 DEF T, Tables, UnionTypes, Union
    <3>2. Len(T.entry) = 5 /\ Len(T.key) = 5
          /\ DOMAIN T.entry = 1..5 /\ DOMAIN T.key = 1..5
      BY <3>1 DEF Value_AssembleEntry, Value_AssignString
    <3>3. DOMAIN T.value = 1..5 /\ \A i \in 1..5 : T.value[i] = i
      BY <3>1 DEF Value_AssembleValue
    <3> QED
      BY <1>3, <2>1, <2>2, <3>2, <3>3 DEF ByPointer
  <2>4. CASE case.level = "repr"
    <3>1. T.entry = Value_Repr_AssembleEntry /\ T.key = Value_Repr_AssignString
      BY <1>3, <2>4 DEF T, Tables, UnionReprs, Union
    <3>2. Len(T.entry) = 5 /\ Len(T.key) = 5
          /\ DOMAIN T.entry = 1..5 /\ DOMAIN T.key = 1..5
      BY <3>1 DEF Value_Repr_AssembleEntry, Value_Repr_AssignString
    <3> QED
      BY <1>3, <2>1, <2>2, <2>4, <3>2 DEF ByPointer
  <2> QED
    BY <1>1, <2>3, <2>4
<1>4. CASE case.union = "TrieNode"
  <2>1. Len(Members) = 3 /\ DOMAIN Members = 1..3
    BY <1>4 DEF Members, Unions, TrieNode_members
  <2>2. "kind" \notin case.ways
    BY <1>2, <1>4
  <2>3. CASE case.level = "type"
    <3>1. T.entry = TrieNode_AssembleEntry /\ T.key = TrieNode_AssignString
          /\ T.value = TrieNode_AssembleValue
      BY <1>4, <2>3 DEF T, Tables, UnionTypes, Union
    <3>2. Len(T.entry) = 3 /\ Len(T.key) = 3
          /\ DOMAIN T.entry = 1..3 /\ DOMAIN T.key = 1..3
      BY <3>1 DEF TrieNode_AssembleEntry, TrieNode_AssignString
    <3>3. DOMAIN T.value = 1..3 /\ \A i \in 1..3 : T.value[i] = i
      BY <3>1 DEF TrieNode_AssembleValue
    <3> QED
      BY <1>4, <2>1, <2>2, <3>2, <3>3 DEF ByPointer
  <2>4. CASE case.level = "repr"
    <3>1. T.entry = TrieNode_Repr_AssembleEntry
          /\ T.key = TrieNode_Repr_AssignString
      BY <1>4, <2>4 DEF T, Tables, UnionReprs, Union
    <3>2. Len(T.entry) = 3 /\ Len(T.key) = 3
          /\ DOMAIN T.entry = 1..3 /\ DOMAIN T.key = 1..3
      BY <3>1 DEF TrieNode_Repr_AssembleEntry, TrieNode_Repr_AssignString
    <3> QED
      BY <1>4, <2>1, <2>2, <2>4, <3>2 DEF ByPointer
  <2> QED
    BY <1>1, <2>3, <2>4
<1>5. CASE case.union = "Child"
  <2>1. Len(Members) = 2 /\ DOMAIN Members = 1..2
    BY <1>5 DEF Members, Unions, Child_members
  <2>2. CASE case.level = "type"
    <3>1. T.entry = Child_AssembleEntry /\ T.key = Child_AssignString
          /\ T.value = Child_AssembleValue
      BY <1>5, <2>2 DEF T, Tables, UnionTypes, Union
    <3>2. Len(T.entry) = 2 /\ Len(T.key) = 2
          /\ DOMAIN T.entry = 1..2 /\ DOMAIN T.key = 1..2
      BY <3>1 DEF Child_AssembleEntry, Child_AssignString
    <3>3. DOMAIN T.value = 1..2 /\ \A i \in 1..2 : T.value[i] = i
      BY <3>1 DEF Child_AssembleValue
    <3>4. "kind" \notin case.ways
      BY <1>2, <2>2
    <3> QED
      BY <1>5, <2>1, <3>2, <3>3, <3>4 DEF ByPointer
  <2>3. CASE case.level = "repr"
    BY <1>2, <1>5, <2>1, <2>3 DEF ByPointer, Keyed
  <2> QED
    BY <1>1, <2>2, <2>3
<1> QED
  BY <1>1, <1>3, <1>4, <1>5

(* A key that a switch knows has a number there. *)
LEMMA IndexFits ==
    ASSUME NEW names, NEW k, NEW n \in Nat, Len(names) = n,
           DOMAIN names = 1..n, Contains(names, k)
    PROVE  Index(names, k) \in 1..n
  BY DEF Contains, Index

----------------------------------------------------------------------------
(* The calls, as functions of the assembler they find.                     *)

(* What no call undoes: an entry keeps its member, a node its place and a  *)
(* finished union its contents; no member loses its own assembler.         *)
Steady(c, d) ==
    /\ c.ca # 0 => d.ca = c.ca /\ d.tag = c.tag
    /\ c.w = "node" => d.w = "node"
    /\ c.m \in {"Null", "Value"} => d.m = c.m /\ d.tag = c.tag /\ d.x = c.x
    /\ d.nil \subseteq c.nil

(* A member assembler is handed out for the entry's member only. *)
Keeps(c, r) ==
    /\ MapSane(r.b) /\ Steady(c, r.b)
    /\ r.given # 0 => /\ r.given = r.b.ca /\ r.b.tag = r.b.ca
                      /\ r.b.w = "node"

(* A union that may be copied whole is begun before it gets an entry. *)
Movable(c) == "copy" \in case.ways => c.m = "midvalue" \/ c.state = "finished"

LEMMA SteadySelf == \A c : Steady(c, c)
  BY DEF Steady

LEMMA SteadyTwice ==
    ASSUME NEW c, NEW d, NEW e, Steady(c, d), Steady(d, e)
    PROVE  Steady(c, e)
  BY DEF Steady

(* Calls that leave the assembler as it is. *)
LEMMA UnmovedKeeps ==
    ASSUME NEW c, MapSane(c)
    PROVE  Keeps(c, Ok(c)) /\ Keeps(c, Error(c)) /\ Keeps(c, Panic(c))
  BY DEF Keeps, Steady, Ok, Error, Panic, Result

LEMMA BeginMapKeeps ==
    ASSUME NEW c, MapSane(c) PROVE Keeps(c, BeginMap(c))
<1>1. CASE Open(c)
  <2> DEFINE d == [c EXCEPT !.m = "midvalue", !.w = "node"]
  <2>1. BeginMap(c) = Ok(d)
    BY <1>1 DEF BeginMap
  <2>2. MapSane(d)
    BY <1>1 DEF MapSane, Types, Whole, Untouched, Open
  <2>3. Steady(c, d)
    BY <1>1 DEF Steady, Open, MapSane, Types
  <2> HIDE DEF d
  <2> QED
    BY <2>1, <2>2, <2>3 DEF Keeps, Ok, Result
<1>2. CASE ~Open(c)
  BY <1>2, UnmovedKeeps DEF BeginMap
<1> QED
  BY <1>1, <1>2

LEMMA AssignNullKeeps ==
    ASSUME NEW c, MapSane(c) PROVE Keeps(c, AssignNull(c))
<1>1. CASE c.m = "allowNull"
  <2> DEFINE d == [c EXCEPT !.m = "Null"]
  <2>1. AssignNull(c) = Ok(d)
    BY <1>1 DEF AssignNull
  <2>2. MapSane(d)
    BY <1>1 DEF MapSane, Types, Whole, Untouched
  <2>3. Steady(c, d)
    BY <1>1 DEF Steady, MapSane, Types
  <2> HIDE DEF d
  <2> QED
    BY <2>1, <2>2, <2>3 DEF Keeps, Ok, Result
<1>2. CASE c.m # "allowNull"
  BY <1>2, UnmovedKeeps DEF AssignNull
<1> QED
  BY <1>1, <1>2

LEMMA AssembleKeyKeeps ==
    ASSUME NEW c, MapSane(c), Movable(c) PROVE Keeps(c, AssembleKey(c))
<1>1. CASE Ready(c)
  <2> DEFINE d == [c EXCEPT !.state = "midKey"]
  <2>1. AssembleKey(c) = Ok(d)
    BY <1>1 DEF AssembleKey
  <2>2. MapSane(d)
    BY <1>1 DEF MapSane, Types, Whole, Untouched, Ready, Movable
  <2>3. Steady(c, d)
    BY <1>1 DEF Steady, MapSane, Types
  <2> HIDE DEF d
  <2> QED
    BY <2>1, <2>2, <2>3 DEF Keeps, Ok, Result
<1>2. CASE ~Ready(c)
  BY <1>2, UnmovedKeeps DEF AssembleKey
<1> QED
  BY <1>1, <1>2

LEMMA TidiedKeeps ==
    ASSUME NEW c, MapSane(c), Movable(c), Ready(c)
    PROVE  Keeps(c, Error(Tidied(c)))
<1>1. MapSane(Tidied(c))
  BY DEF MapSane, Types, Whole, Untouched, Ready, Movable, Tidied
<1>2. Steady(c, Tidied(c))
  BY DEF Steady, MapSane, Types, Tidied
<1> QED
  BY <1>1, <1>2 DEF Keeps, Error, Result

LEMMA FinishKeeps ==
    ASSUME case \in Cases, NEW c, MapSane(c), Movable(c)
    PROVE  Keeps(c, Finish(c))
<1>1. CASE Ready(c) /\ c.ca # 0
  <2> DEFINE d == [c EXCEPT !.state = "finished", !.m = "Value"]
  <2>1. Finish(c) = Ok(d)
    BY <1>1 DEF Finish
  <2>2. c.cm = "Value" /\ c.m # "Value"
    BY <1>1 DEF MapSane, Ready, Movable, Untouched
  <2>3. MapSane(d)
    <3>1. c.ca \in DOMAIN Members /\ c.tag = c.ca
      BY <1>1, <2>2, TablesFit DEF MapSane, Types
    <3> QED
      BY <2>2, <3>1 DEF MapSane, Types, Whole
  <2>4. Steady(c, d)
    BY <2>2 DEF Steady, MapSane, Types
  <2> HIDE DEF d
  <2> QED
    BY <2>1, <2>3, <2>4 DEF Keeps, Ok, Result
<1>2. CASE Ready(c) /\ c.ca = 0
  BY <1>2, TidiedKeeps DEF Finish
<1>3. CASE ~Ready(c)
  BY <1>3, UnmovedKeeps DEF Finish
<1> QED
  BY <1>1, <1>2, <1>3

(* The number of the key is the entry's member from here on. *)
LEMMA KeyAssignStringKeeps ==
    ASSUME case \in Cases, Keyed, NEW c, MapSane(c), Movable(c), NEW k
    PROVE  Keeps(c, KeyAssignString(c, k))
<1>1. CASE c.state = "midKey" /\ ~Full(c) /\ Contains(T.key, k)
  <2>1. PICK i \in DOMAIN Members : i = Index(T.key, k)
    BY <1>1, TablesFit, IndexFits
  <2>2. c.ca = 0 /\ i # 0 /\ i \in 0..Len(Members)
    BY <1>1, TablesFit DEF Full
  <2>3. c.cm = "Absent" /\ c.m # "Value"
    BY <1>1, <2>2 DEF MapSane, Types, Untouched
  <2>4. CASE c.w = "nil"
    <3> DEFINE d == [c EXCEPT !.ca = i]
    <3>1. KeyAssignString(c, k) = Panic(d)
      BY <1>1, <2>1, <2>4 DEF KeyAssignString
    <3>2. MapSane(d)
      BY <1>1, <2>2, <2>3, <2>4 DEF MapSane, Types, Whole, Untouched, Movable
    <3>3. Steady(c, d)
      BY <2>2 DEF Steady, MapSane, Types
    <3> HIDE DEF d
    <3> QED
      BY <3>1, <3>2, <3>3 DEF Keeps, Panic, Result
  <2>5. CASE c.w # "nil"
    <3> DEFINE d == [c EXCEPT !.ca = i, !.tag = i, !.state = "expectValue"]
    <3>1. KeyAssignString(c, k) = Ok(d)
      BY <1>1, <2>1, <2>5 DEF KeyAssignString
    <3>2. Types(d) /\ d.m = c.m /\ d.w = c.w /\ d.cm = c.cm /\ d.x = c.x
          /\ d.ca = i /\ d.tag = i /\ d.state = "expectValue" /\ d.nil = c.nil
      BY <2>2 DEF MapSane, Types
    <3> HIDE DEF d
    <3>3. MapSane(d)
      BY <1>1, <2>2, <2>3, <2>5, <3>2 DEF MapSane, Movable
    <3>4. Steady(c, d)
      BY <2>2, <2>3, <2>5, <3>2 DEF Steady, MapSane
    <3> QED
      BY <3>1, <3>3, <3>4 DEF Keeps, Ok, Result
  <2> QED
    BY <2>4, <2>5
<1>2. CASE ~(c.state = "midKey" /\ ~Full(c) /\ Contains(T.key, k))
  BY <1>2, UnmovedKeeps DEF KeyAssignString
<1> QED
  BY <1>1, <1>2

LEMMA AssembleEntryKeeps ==
    ASSUME case \in Cases, Keyed, NEW c, MapSane(c), Movable(c),
           c.m = "midvalue" \/ c.state = "finished", NEW k
    PROVE  Keeps(c, AssembleEntry(c, k))
<1>1. CASE Ready(c) /\ ~Full(c) /\ Contains(T.entry, k)
  <2>1. PICK i \in DOMAIN Members : i = Index(T.entry, k)
    BY <1>1, TablesFit, IndexFits
  <2>2. c.ca = 0 /\ i # 0 /\ i \in 0..Len(Members)
    BY <1>1, TablesFit DEF Full
  <2>3. c.cm = "Absent" /\ c.m = "midvalue" /\ c.w = "node"
    BY <1>1, <2>2 DEF MapSane, Types, Ready
  <2> DEFINE d == [c EXCEPT !.state = "midValue", !.ca = i, !.tag = i]
  <2>4. AssembleEntry(c, k) \in {Panic(d), Result("ok", i, d)}
    BY <1>1, <2>1 DEF AssembleEntry
  <2>5. Types(d) /\ d.m = c.m /\ d.w = c.w /\ d.cm = c.cm /\ d.x = c.x
        /\ d.ca = i /\ d.tag = i /\ d.state = "midValue" /\ d.nil = c.nil
    BY <2>2 DEF MapSane, Types
  <2> HIDE DEF d
  <2>6. MapSane(d)
    BY <2>2, <2>3, <2>5 DEF MapSane
  <2>7. Steady(c, d)
    BY <2>2, <2>3, <2>5 DEF Steady
  <2> QED
    BY <2>3, <2>4, <2>5, <2>6, <2>7 DEF Keeps, Panic, Result
<1>2. CASE Ready(c) /\ (Full(c) \/ ~Contains(T.entry, k))
  BY <1>2, TidiedKeeps DEF AssembleEntry
<1>3. CASE ~Ready(c)
  BY <1>3, UnmovedKeeps DEF AssembleEntry
<1> QED
  BY <1>1, <1>2, <1>3

(* At the level of the type the member asked for is the entry's. *)
LEMMA AssembleValueKeeps ==
    ASSUME case \in Cases, case.level = "type", NEW c, MapSane(c), Movable(c)
    PROVE  /\ Keeps(c, AssembleValue(c))
           /\ AssembleValue(c).out = "ok" => AssembleValue(c).given # 0
<1>1. CASE c.state = "expectValue"
  <2>1. PICK i \in DOMAIN Members : i = c.ca /\ i = T.value[c.ca] /\ i # 0
    BY <1>1, TablesFit DEF MapSane, Types
  <2>2. c.tag = i /\ c.w = "node" /\ c.m # "Value" /\ c.cm = c.cm
    BY <1>1, <2>1 DEF MapSane, Types, Untouched
  <2> DEFINE d == [[c EXCEPT !.state = "midValue"] EXCEPT !.nil = @ \ {i}]
  <2>3. AssembleValue(c) = Result("ok", i, d)
    BY <1>1, <2>1, TablesFit DEF AssembleValue
  <2>4. MapSane(d)
    BY <1>1, <2>1, <2>2 DEF MapSane, Types, Whole, Untouched, Movable
  <2>5. Steady(c, d) /\ d.ca = i /\ d.tag = i /\ d.w = "node"
    BY <2>1, <2>2 DEF Steady, MapSane, Types
  <2> HIDE DEF d
  <2> QED
    BY <2>1, <2>3, <2>4, <2>5 DEF Keeps, Result
<1>2. CASE c.state # "expectValue"
  <2>1. AssembleValue(c) = Panic(c)
    BY <1>2 DEF AssembleValue
  <2> QED
    BY <2>1, UnmovedKeeps DEF Panic, Result
<1> QED
  BY <1>1, <1>2

(* The member's assembler stores into the entry's member, and only once. *)
LEMMA MemberAssignKeeps ==
    ASSUME case \in Cases, NEW c, MapSane(c), NEW i, NEW v,
           i = c.ca, i # 0, c.tag = c.ca, c.w = "node"
    PROVE  Keeps(c, MemberAssign(c, i, v))
<1>1. CASE c.cm # "Value" /\ v \in ValuesOf(i)
  <2>1. i \in DOMAIN Members /\ v \in MemberValues
    BY <1>1, TablesFit DEF MapSane, Types, MemberValues
  <2>2. c.m \notin {"Null", "Value"}
    BY <1>1 DEF MapSane, Types, Untouched
  <2>3. c.state \in {"midKey", "midValue", "expectValue"}
    BY <1>1, <2>2 DEF MapSane, Types
  <2> DEFINE d == [c EXCEPT !.x[i] = v, !.cm = "Value"]
  <2>4. MemberAssign(c, i, v) = Ok(d)
    BY <1>1 DEF MemberAssign
  <2>5. MapSane(d)
    BY <1>1, <2>1, <2>2, <2>3 DEF MapSane, Types, Whole, Untouched
  <2>6. Steady(c, d)
    BY <2>2 DEF Steady, MapSane, Types
  <2> HIDE DEF d
  <2> QED
    BY <2>4, <2>5, <2>6 DEF Keeps, Ok, Result
<1>2. CASE ~(c.cm # "Value" /\ v \in ValuesOf(i))
  BY <1>2, UnmovedKeeps DEF MemberAssign
<1> QED
  BY <1>1, <1>2

(* One call after the other. *)
LEMMA KeepsThen ==
    ASSUME NEW c, NEW r, NEW q, Keeps(c, r), Keeps(r.b, q)
    PROVE  Keeps(c, q)
  BY SteadyTwice DEF Keeps

LEMMA AssignEntryKeeps ==
    ASSUME case \in Cases, case.level = "type", Keyed,
           "copy" \notin case.ways, NEW c, MapSane(c), NEW e
    PROVE  Keeps(c, AssignEntry(c, e))
<1>0. \A d : Movable(d)
  BY DEF Movable
<1> DEFINE r1 == AssembleKey(c)
           r2 == IF r1.out = "ok" THEN KeyAssignString(r1.b, e.key) ELSE r1
           r3 == IF r2.out = "ok" THEN AssembleValue(r2.b) ELSE r2
           r4 == IF r3.out = "ok" THEN MemberAssign(r3.b, r3.given, e.value)
                                  ELSE r3
<1>1. AssignEntry(c, e) = r4
  BY DEF AssignEntry, Then
<1>2. Keeps(c, r1)
  BY <1>0, AssembleKeyKeeps
<1>3. Keeps(c, r2)
  <2>1. MapSane(r1.b)
    BY <1>2 DEF Keeps
  <2>2. PICK d : d = r1.b
    OBVIOUS
  <2>3. Keeps(r1.b, KeyAssignString(r1.b, e.key))
    BY <1>0, <2>1, <2>2, KeyAssignStringKeeps
  <2> QED
    BY <1>2, <2>3, KeepsThen
<1>4. Keeps(c, r3) /\ (r3.out = "ok" => r3.given # 0)
  <2>1. MapSane(r2.b)
    BY <1>3 DEF Keeps
  <2>2. /\ Keeps(r2.b, AssembleValue(r2.b))
        /\ AssembleValue(r2.b).out = "ok" => AssembleValue(r2.b).given # 0
    BY <1>0, <2>1, AssembleValueKeeps
  <2> QED
    BY <1>3, <2>2, KeepsThen
<1> HIDE DEF r1, r2, r3
<1>5. Keeps(c, r4)
  <2>1. CASE r3.out = "ok"
    <3>1. MapSane(r3.b) /\ r3.given = r3.b.ca /\ r3.given # 0
          /\ r3.b.tag = r3.b.ca /\ r3.b.w = "node"
      BY <1>4, <2>1 DEF Keeps
    <3>2. Keeps(r3.b, MemberAssign(r3.b, r3.given, e.value))
      BY <3>1, MemberAssignKeeps
    <3> QED
      BY <1>4, <2>1, <3>2, KeepsThen
  <2>2. CASE r3.out # "ok"
    BY <1>4, <2>2
  <2> QED
    BY <2>1, <2>2
<1> QED
  BY <1>1, <1>5

(* Up to two entries and Finish. *)
LEMMA AssignForeignKeeps ==
    ASSUME case \in Cases, case.level = "type", Keyed,
           "copy" \notin case.ways, NEW c, MapSane(c), NEW entries
    PROVE  Keeps(c, AssignForeign(c, entries))
<1>1. ASSUME NEW r, Keeps(c, r), NEW i PROVE Keeps(c, Visit(r, entries, i))
  <2>1. MapSane(r.b)
    BY <1>1 DEF Keeps
  <2>2. Keeps(r.b, AssignEntry(r.b, entries[i]))
    BY <2>1, AssignEntryKeeps
  <2>3. Keeps(c, AssignEntry(r.b, entries[i]))
    BY <1>1, <2>2, KeepsThen
  <2>4. Visit(r, entries, i) \in {r, AssignEntry(r.b, entries[i])}
    BY DEF Visit, Then
  <2> QED
    BY <1>1, <2>3, <2>4
<1>2. PICK r : r = Visit(Visit(Ok(c), entries, 1), entries, 2)
  OBVIOUS
<1>3. Keeps(c, r)
  <2>1. Keeps(c, Ok(c))
    BY UnmovedKeeps
  <2> QED
    BY <1>1, <1>2, <2>1
<1>4. AssignForeign(c, entries) \in {r, Finish(r.b)}
  BY <1>2 DEF AssignForeign, Then
<1>5. Keeps(r.b, Finish(r.b))
  BY <1>3, FinishKeeps DEF Keeps, Movable
<1> QED
  BY <1>3, <1>4, <1>5, KeepsThen

(* A copy of a whole union, where nothing was begun. *)
LEMMA AssignNodeKeeps ==
    ASSUME case \in Cases, "copy" \in case.ways, NEW c, MapSane(c),
           NEW i \in DOMAIN Members
    PROVE  Keeps(c, AssignNode(c, i))
<1>1. CASE Open(c)
  <2>1. PICK y \in [DOMAIN Members -> MemberValues] :
            y = [j \in DOMAIN Members |-> IF j = i THEN TypeOf(i) ELSE Zero]
    <3>1. TypeOf(i) \in MemberValues /\ Zero \in MemberValues
      BY DEF MemberValues, ValuesOf
    <3> QED
      BY <3>1
  <2> DEFINE d == [c EXCEPT !.m = "Value", !.w = "node", !.tag = i, !.x = y]
  <2>2. AssignNode(c, i) = Ok(d)
    BY <1>1, <2>1 DEF AssignNode, MapSane, Types
  <2>3. i \in 0..Len(Members)
    BY TablesFit
  <2>4. Types(d) /\ d.m = "Value" /\ d.w = "node" /\ d.cm = c.cm /\ d.x = y
        /\ d.ca = c.ca /\ d.tag = i /\ d.state = c.state /\ d.nil = c.nil
    BY <2>3 DEF MapSane, Types
  <2> HIDE DEF d
  <2>5. Untouched(c) /\ c.m \notin {"Null", "Value"}
    BY <1>1 DEF MapSane, Open
  <2>6. Whole(d)
    BY <2>1, <2>4 DEF Whole, ValuesOf
  <2>7. MapSane(d) /\ Steady(c, d)
    BY <2>4, <2>5, <2>6 DEF MapSane, Untouched, Steady
  <2> QED
    BY <2>2, <2>7 DEF Keeps, Ok, Result
<1>2. CASE ~Open(c)
  BY <1>2, UnmovedKeeps DEF AssignNode
<1> QED
  BY <1>1, <1>2

(* The same calls of the kinded representation, where nothing is begun. *)
KindKeeps(c, r) ==
    /\ KindSane(r.b) /\ r.given = 0
    /\ c.m = "Value" => r.b = c

LEMMA KindUnmoved ==
    ASSUME NEW c, KindSane(c)
    PROVE  KindKeeps(c, Ok(c)) /\ KindKeeps(c, Error(c))
           /\ KindKeeps(c, Panic(c))
  BY DEF KindKeeps, Ok, Error, Panic, Result

LEMMA KindedAssignNode ==
    ASSUME case \in Cases, NEW c, KindSane(c), NEW i \in DOMAIN Members
    PROVE  KindKeeps(c, AssignNode(c, i))
<1>1. CASE Open(c)
  <2>1. PICK y \in [DOMAIN Members -> MemberValues] :
            y = [j \in DOMAIN Members |-> IF j = i THEN TypeOf(i) ELSE Zero]
    <3>1. TypeOf(i) \in MemberValues /\ Zero \in MemberValues
      BY DEF MemberValues, ValuesOf
    <3> QED
      BY <3>1
  <2> DEFINE d == [c EXCEPT !.m = "Value", !.w = "node", !.tag = i, !.x = y]
  <2>2. AssignNode(c, i) = Ok(d)
    BY <1>1, <2>1 DEF AssignNode, KindSane, Types
  <2>3. i \in 0..Len(Members)
    BY TablesFit
  <2>4. Types(d) /\ d.m = "Value" /\ d.x = y /\ d.tag = i /\ d.state = c.state
    BY <2>3 DEF KindSane, Types
  <2> HIDE DEF d
  <2>5. Whole(d)
    BY <2>1, <2>4 DEF Whole, ValuesOf
  <2>6. KindSane(d) /\ c.m # "Value"
    BY <1>1, <2>4, <2>5 DEF KindSane, Open
  <2> QED
    BY <2>2, <2>6 DEF KindKeeps, Ok, Result
<1>2. CASE ~Open(c)
  BY <1>2, KindUnmoved DEF AssignNode
<1> QED
  BY <1>1, <1>2

LEMMA AssignKindKeeps ==
    ASSUME case \in Cases, "kind" \in case.ways, NEW c, KindSane(c),
           NEW i \in {0} \cup DOMAIN Members, NEW v,
           i # 0 => v \in ValuesOf(i)
    PROVE  KindKeeps(c, AssignKind(c, i, v))
<1>0. DOMAIN Members = 1..2 /\ Len(Members) = 2
  BY TablesFit
<1>1. CASE i = 1 /\ Open(c)
  <2>1. v \in ValuesOf(1) /\ v \in MemberValues
    BY <1>0, <1>1 DEF MemberValues
  <2>2. PICK y \in [DOMAIN Members -> MemberValues] : y = [c.x EXCEPT ![1] = v]
    BY <1>0, <2>1 DEF KindSane, Types
  <2> DEFINE d == [c EXCEPT !.w = "node", !.ca = 1, !.tag = 1, !.x = y,
                            !.m = "Value"]
  <2>3. /\ AssignKind(c, i, v) = Ok(d)
        /\ Types(d) /\ d.m = "Value" /\ d.tag = 1 /\ d.state = c.state
        /\ d.x = [c.x EXCEPT ![1] = v]
    <3>1. AssignKind(c, i, v) = AssignLink(c, v)
      BY <1>1 DEF AssignKind, Link, TrieNode
    <3>2. [Chosen(c, 1) EXCEPT !.x[1] = v, !.m = "Value"] = d
      BY <2>2 DEF Chosen, KindSane, Types
    <3>3. AssignLink(c, v) = Ok(d)
      BY <1>1, <3>2 DEF AssignLink, Link
    <3>4. 1 \in 0..Len(Members)
      BY <1>0
    <3>5. Types(d) /\ d.m = "Value" /\ d.tag = 1 /\ d.state = c.state /\ d.x = y
      BY <3>4 DEF KindSane, Types
    <3> QED
      BY <2>2, <3>1, <3>3, <3>5
  <2> HIDE DEF d
  <2>4. c.m # "Value" /\ c.x \in [1..2 -> MemberValues]
    BY <1>0, <1>1 DEF Open, KindSane, Types
  <2>5. Whole(d)
    BY <1>0, <2>1, <2>3, <2>4 DEF Whole, KindSane
  <2>6. KindSane(d)
    BY <2>3, <2>5 DEF KindSane
  <2> QED
    BY <2>3, <2>4, <2>6 DEF KindKeeps, Ok, Result
<1>2. CASE i = 2 /\ Open(c)
  <2> DEFINE d == [c EXCEPT !.w = "node", !.ca = 2, !.tag = 2]
  <2>1. AssignKind(c, i, v) = Panic(d)
    BY <1>2 DEF AssignKind, BeginKindedMap, Chosen, Link, TrieNode
  <2>2. Types(d) /\ d.m = c.m /\ d.x = c.x /\ d.state = c.state
    <3>1. 2 \in 0..Len(Members)
      BY <1>0
    <3> QED
      BY <3>1 DEF KindSane, Types
  <2> HIDE DEF d
  <2>3. c.m # "Value"
    BY <1>2 DEF Open
  <2>4. KindSane(d)
    BY <2>2, <2>3 DEF KindSane
  <2> QED
    BY <2>1, <2>3, <2>4 DEF KindKeeps, Panic, Result
<1>3. CASE i = 0
  <2>1. AssignKind(c, i, v) \in {Error(c), Panic(c)}
    BY <1>3 DEF AssignKind, AssignWrongKind, Link, TrieNode
  <2> QED
    BY <2>1, KindUnmoved
<1>4. CASE i # 0 /\ ~Open(c)
  <2>1. i = 1 \/ i = 2
    BY <1>0, <1>4
  <2>2. AssignKind(c, i, v) = Panic(c)
    BY <1>4, <2>1 DEF AssignKind, AssignLink, BeginKindedMap, Link, TrieNode
  <2> QED
    BY <2>2, KindUnmoved
<1> QED
  BY <1>0, <1>1, <1>2, <1>3, <1>4

(* A new assembler, or one that was reset. *)
LEMMA FreshSane ==
    ASSUME case \in Cases PROVE MapSane(Fresh(case)) /\ KindSane(Fresh(case))
<1>1. case.place \in {"alone", "pointer"}
  BY CasesAssumption
<1> DEFINE d == Fresh(case)
<1>2. Types(d) /\ Untouched(d) /\ d.tag = 0
      /\ d.x = [i \in DOMAIN Members |-> Zero]
      /\ d.m = (IF case.place = "alone" THEN "Absent" ELSE "allowNull")
      /\ d.w = (IF case.place = "alone" THEN "node" ELSE "nil")
  BY <1>1, TablesFit DEF Fresh, Types, Untouched, MemberValues, Members
<1> HIDE DEF d
<1>3. MapSane(d)
  BY <1>1, <1>2 DEF MapSane, Untouched
<1>4. KindSane(d)
  BY <1>1, <1>2 DEF KindSane, Untouched
<1> QED
  BY <1>3, <1>4 DEF d

----------------------------------------------------------------------------
(* UnionInv is inductive, and a finished union does not change.            *)

Unchanging == b.m \in {"Null", "Value"} /\ ret'.op # "Reset" =>
                  UNCHANGED <<b.m, b.tag, b.x>>

LEMMA InitUnionInv == Init => UnionInv
  BY FreshSane DEF Init, UnionInv, HeldOK

(* The caller wants a member of the union, and has another in mind. *)
LEMMA WantedMembers ==
    ASSUME UnionInv
    PROVE  want \in 0..Len(Members) /\ Other \in DOMAIN Members
<1>1. want \in 0..Len(Members)
  BY CasesAssumption DEF UnionInv, Members
<1>2. Len(Members) \in {2, 3, 5} /\ DOMAIN Members = 1..Len(Members)
  <2>1. case.union \in {"Value", "Child", "TrieNode"}
    BY CasesAssumption DEF Unions, UnionInv
  <2> QED
    BY <2>1 DEF Members, Unions, Value_members, Child_members,
       TrieNode_members
<1>3. want % Len(Members) \in 0..(Len(Members) - 1)
  BY <1>1, <1>2
<1> QED
  BY <1>1, <1>2, <1>3 DEF Other

(* A call on a union that is assembled as a map. *)
LEMMA KeepsStep ==
    ASSUME UnionInv, "kind" \notin case.ways, NEW op, NEW fits, NEW r,
           op # "Reset", Keeps(b, r), Call(op, fits, r)
    PROVE  UnionInv' /\ Unchanging
<1>1. b' = r.b /\ case' = case /\ want' = want
      /\ held' = held \cup (IF r.given = 0 THEN {} ELSE {r.given})
  BY DEF Call
<1>2. MapSane(b)' /\ Unchanging
  BY <1>1 DEF Keeps, Steady, Unchanging, MapSane, Types, Whole, Untouched,
     MemberValues, ValuesOf, TypeOf, Members
<1>3. HeldOK'
  BY <1>1 DEF Keeps, Steady, UnionInv, HeldOK
<1> QED
  BY <1>1, <1>2, <1>3 DEF UnionInv

(* A call on the kinded representation. *)
LEMMA KindStep ==
    ASSUME UnionInv, "kind" \in case.ways, NEW op, NEW fits, NEW r,
           op # "Reset", KindKeeps(b, r), Call(op, fits, r)
    PROVE  UnionInv' /\ Unchanging
<1>1. b' = r.b /\ case' = case /\ want' = want /\ held' = held
  BY DEF Call, KindKeeps
<1>2. KindSane(b)'
  BY <1>1 DEF KindKeeps, KindSane, Types, Whole, MemberValues, ValuesOf,
     TypeOf, Members
<1>3. b.m # "Null"
  BY DEF UnionInv, KindSane
<1> QED
  BY <1>1, <1>2, <1>3 DEF UnionInv, Unchanging, KindKeeps

LEMMA ResetStep ==
    ASSUME UnionInv, Call("Reset", FALSE, Reset(b))
    PROVE  UnionInv' /\ Unchanging
<1>1. b' = Fresh(case) /\ case' = case /\ want' = want /\ held' = {}
      /\ ret'.op = "Reset"
  BY DEF Call, Reset, Ok, Result
<1>2. MapSane(b)' /\ KindSane(b)'
  BY <1>1, FreshSane DEF UnionInv, MapSane, KindSane, Types, Whole,
     Untouched, MemberValues, ValuesOf, TypeOf, Members
<1> QED
  BY <1>1, <1>2 DEF UnionInv, HeldOK, Unchanging

LEMMA NextKeepsUnionInv ==
    ASSUME \A c \in Cases : Sound(c), UnionInv, Next
    PROVE  UnionInv' /\ Unchanging
<1>0. case \in Cases /\ want \in 0..Len(Members) /\ Other \in DOMAIN Members
      /\ DOMAIN Members = 1..Len(Members)
  BY WantedMembers, TablesFit DEF UnionInv
<1>1. CASE "kind" \in case.ways
  <2>1. KindSane(b) /\ held = {} /\ ~Keyed
    BY <1>0, <1>1, TablesFit DEF UnionInv
  <2>2. CASE MapCall \/ MemberCall
    BY <2>1, <2>2 DEF MapCall, MemberCall, Begun, KindSane
  <2>3. CASE OwnCall
    <3>1. ASSUME NEW i \in {0} \cup DOMAIN Members,
                 NEW v \in IF i = 0 THEN {"null", "other"} ELSE ValuesOf(i),
                 NEW fits, Call("AssignKind", fits, AssignKind(b, i, v))
          PROVE  UnionInv' /\ Unchanging
      BY <1>0, <1>1, <2>1, <3>1, AssignKindKeeps, KindStep
    <3>2. ASSUME NEW i \in {want, Other} \ {0}, NEW fits,
                 Call("AssignNode", fits, AssignNode(b, i))
          PROVE  UnionInv' /\ Unchanging
      <4>1. i \in DOMAIN Members
        BY <1>0
      <4> QED
        BY <1>0, <1>1, <2>1, <3>2, <4>1, KindedAssignNode, KindStep
    <3>3. ASSUME NEW fits, Call("Build", fits, Build(b))
          PROVE  UnionInv' /\ Unchanging
      BY <1>1, <2>1, <3>3, KindUnmoved, KindStep DEF Build
    <3> QED
      BY <1>1, <2>1, <2>3, <3>1, <3>2, <3>3, ResetStep
         DEF OwnCall, By, Keyed
  <2> QED
    BY <2>2, <2>3 DEF Next
<1>2. CASE "kind" \notin case.ways
  <2>1. MapSane(b) /\ HeldOK /\ Sound(case)
    BY <1>0, <1>2 DEF UnionInv
  <2>2. CASE OwnCall
    <3>1. ASSUME NEW i \in {want, Other} \ {0}, NEW fits, By("copy"),
                 Call("AssignNode", fits, AssignNode(b, i))
          PROVE  UnionInv' /\ Unchanging
      <4>1. i \in DOMAIN Members
        BY <1>0
      <4> QED
        BY <1>0, <1>2, <2>1, <3>1, <4>1, AssignNodeKeeps, KeepsStep DEF By
    <3>2. ASSUME NEW e \in Foreign, NEW fits, By("foreign"),
                 Call("AssignForeign", fits, AssignForeign(b, e))
          PROVE  UnionInv' /\ Unchanging
      <4>1. case.level = "type" /\ Keyed /\ "copy" \notin case.ways
        BY <1>0, <2>1, <3>2, CasesAssumption DEF Sound, By, Keyed
      <4> QED
        BY <1>0, <1>2, <2>1, <3>2, <4>1, AssignForeignKeeps, KeepsStep
    <3>3. ASSUME NEW fits, \/ Call("BeginMap", fits, BeginMap(b))
                           \/ Call("AssignNull", fits, AssignNull(b))
                           \/ Call("Build", fits, Build(b))
          PROVE  UnionInv' /\ Unchanging
      <4>1. Keeps(b, BeginMap(b)) /\ Keeps(b, AssignNull(b))
            /\ Keeps(b, Build(b))
        BY <2>1, BeginMapKeeps, AssignNullKeeps, UnmovedKeeps DEF Build
      <4> QED
        BY <1>2, <3>3, <4>1, KeepsStep
    <3> QED
      BY <1>2, <2>2, <3>1, <3>2, <3>3, ResetStep DEF OwnCall, By
  <2>3. CASE MapCall
    <3>0. Movable(b) /\ (b.m = "midvalue" \/ b.state = "finished")
      BY <2>3 DEF MapCall, Begun, Movable
    <3>1. ASSUME NEW k, NEW fits, By("entry"),
                 Call("AssembleEntry", fits, AssembleEntry(b, k))
          PROVE  UnionInv' /\ Unchanging
      <4>1. Keeps(b, AssembleEntry(b, k))
        BY <1>0, <2>1, <3>0, <3>1, AssembleEntryKeeps DEF By, Keyed
      <4> QED
        BY <1>2, <3>1, <4>1, KeepsStep
    <3>2. ASSUME NEW k, NEW fits, By("keyvalue"),
                 Call("KeyAssignString", fits, KeyAssignString(b, k))
          PROVE  UnionInv' /\ Unchanging
      <4>1. Keeps(b, KeyAssignString(b, k))
        BY <1>0, <2>1, <3>0, <3>2, KeyAssignStringKeeps DEF By, Keyed
      <4> QED
        BY <1>2, <3>2, <4>1, KeepsStep
    <3>3. CASE By("keyvalue") /\ Call("AssembleValue", TRUE, AssembleValue(b))
      <4>1. case.level = "type"
        BY <1>0, <2>1, <3>3, CasesAssumption DEF Sound, By
      <4> QED
        BY <1>0, <1>2, <2>1, <3>0, <3>3, <4>1, AssembleValueKeeps, KeepsStep
    <3>4. CASE \/ Call("AssembleKey", TRUE, AssembleKey(b))
               \/ Call("Finish", TRUE, Finish(b))
      <4>1. Keeps(b, AssembleKey(b)) /\ Keeps(b, Finish(b))
        BY <1>0, <2>1, <3>0, AssembleKeyKeeps, FinishKeeps
      <4> QED
        BY <1>2, <3>4, <4>1, KeepsStep
    <3> QED
      BY <2>3, <3>1, <3>2, <3>3, <3>4 DEF MapCall
  <2>4. CASE MemberCall
    <3>1. ASSUME NEW i \in held, NEW v, NEW fits,
                 Call("MemberAssign", fits, MemberAssign(b, i, v))
          PROVE  UnionInv' /\ Unchanging
      <4>1. i = b.ca /\ i # 0 /\ b.tag = b.ca /\ b.w = "node"
        BY <2>1 DEF HeldOK
      <4> QED
        BY <1>0, <1>2, <2>1, <3>1, <4>1, MemberAssignKeeps, KeepsStep
    <3> QED
      BY <2>4, <3>1 DEF MemberCall
  <2> QED
    BY <2>2, <2>3, <2>4 DEF Next
<1> QED
  BY <1>1, <1>2

LEMMA AlwaysUnionInv ==
    ASSUME \A c \in Cases : Sound(c) PROVE Spec => []UnionInv
<1>1. UnionInv /\ UNCHANGED vars => UnionInv'
  BY DEF UnionInv, vars, MapSane, KindSane, HeldOK, Types, Whole, Untouched,
     MemberValues, ValuesOf, TypeOf, Members
<1>2. UnionInv /\ [Next]_vars => UnionInv'
  BY <1>1, NextKeepsUnionInv
<1> QED
  BY <1>2, InitUnionInv, PTL DEF Spec

----------------------------------------------------------------------------
(* Theorems.                                                               *)

(* The assembler, its node and its caller stay in the states of the code. *)
THEOREM UnionTypeCorrect ==
    ASSUME \A c \in Cases : Sound(c) PROVE Spec => []TypeOK
<1>1. ASSUME UnionInv PROVE TypeOK
  <2>1. Types(b)
    BY <1>1 DEF UnionInv, MapSane, KindSane
  <2>2. held \subseteq DOMAIN Members
    BY <1>1, <2>1, TablesFit DEF UnionInv, HeldOK, Types
  <2> QED
    BY <2>1, <2>2 DEF TypeOK, Types
<1> QED
  BY <1>1, AlwaysUnionInv, PTL

(* A union that can be handed out holds the member its tag names and no    *)
(* other, whatever calls were refused on the way.                          *)
THEOREM UnionsHoldOneMember ==
    ASSUME \A c \in Cases : Sound(c) PROVE Spec => []HoldsOneMember
<1>1. UnionInv => HoldsOneMember
  BY DEF UnionInv, MapSane, KindSane, Whole, HoldsOneMember
<1> QED
  BY <1>1, AlwaysUnionInv, PTL

(* A finished union does not change, through a member assembler that the   *)
(* caller kept either.                                                     *)
THEOREM FinishedUnionsDoNotChange ==
    ASSUME \A c \in Cases : Sound(c) PROVE Spec => FinishedIsImmutable
<1>1. UnionInv /\ [Next]_vars => [Unchanging]_vars
  BY NextKeepsUnionInv
<1> QED
  BY <1>1, AlwaysUnionInv, PTL DEF Spec, FinishedIsImmutable, Unchanging

----------------------------------------------------------------------------
(* The caller that gets through.                                           *)

(* The ways that work for the members asked for: AssembleEntry follows a   *)
(* nil pointer for a Child, the kinded representation has no way to take   *)
(* in a map or null, and AssignNode of a foreign map makes no node where w *)
(* is nil.                                                                 *)
Working(c) == /\ Sound(c)
              /\ "entry" \in c.ways => ByPointer[c.union] = {}
              /\ "kind" \in c.ways => c.wants \subseteq {Link}
              /\ c.place = "pointer" => "foreign" \notin c.ways

(* How far the assembler c is at a phase of the caller's script, when the  *)
(* caller holds the member assemblers h.                                   *)
Started(c) == /\ Open(c) /\ (want = 0 => c.m = "allowNull")
              /\ "kind" \notin case.ways => Untouched(c)
AtKey(c) == c.m = "midvalue" /\ Untouched(c)
AtName(c) == c.m = "midvalue" /\ c.state = "midKey" /\ c.ca = 0
AtValue(c) == /\ c.m = "midvalue" /\ c.state = "expectValue"
              /\ c.ca = want /\ c.cm = "Absent"
AtMember(c, h) == /\ c.m = "midvalue" /\ c.state = "midValue"
                  /\ c.ca = want /\ c.cm = "Absent" /\ h = {want}
AtEnd(c) == /\ c.m = "midvalue" /\ Ready(c) /\ c.cm = "Value"
            /\ c.ca = want /\ c.x[want] = TypeOf(want)
IsBuilt(c) == IF want = 0 THEN c.m = "Null"
              ELSE c.m = "Value" /\ c.tag = want /\ c.x[want] = TypeOf(want)

Here(p, c, h) ==
    /\ p = "start" => Started(c)
    /\ p \in {"key", "name", "value", "member", "end"} =>
            want # 0 /\ "kind" \notin case.ways
    /\ p = "key" => AtKey(c)
    /\ p = "name" => AtName(c)
    /\ p = "value" => AtValue(c)
    /\ p = "member" => AtMember(c, h)
    /\ p = "end" => AtEnd(c)
    /\ p = "built" => IsBuilt(c)

(* A builder has its node, and no member loses its own assembler. *)
Placed(c) == /\ case.place = "alone" => c.w = "node"
             /\ c.nil \subseteq ByPointer[case.union]

PhaseInv ==
    /\ phase \in {"start", "key", "name", "value", "member", "end", "built",
                  "lost"}
    /\ Placed(b) /\ Here(phase, b, held)

(* A switch over the names of a level has the member's name in its place. *)
Named(level, names) ==
    /\ Len(names) = Len(Members) /\ DOMAIN names = DOMAIN Members
    /\ \A i \in DOMAIN Members : names[i] = KeyOf(level, i)

(* Readers and assemblers use the same names, and no two members share     *)
(* one.                                                                    *)
LEMMA NamesFit ==
    ASSUME case \in Cases, NEW level \in Levels
    PROVE  /\ Named(level, Tables(level).lookup)
           /\ Named(level, Tables(level).next)
           /\ Named(level, Tables(level).entry)
           /\ Named(level, Tables(level).key)
           /\ \A i, j \in DOMAIN Members :
                 KeyOf(level, i) = KeyOf(level, j) => i = j
<1>1. case.union \in {"Value", "Child", "TrieNode"}
  BY CasesAssumption DEF Unions
<1>2. level = "type" \/ (level = "repr" /\ case.union # "Child")
  BY DEF Levels, UnionReprs
<1> USE DEF Named, KeyOf
<1>3. CASE case.union = "Value"
  <2>1. Members = Value_members
    BY <1>3 DEF Members, Unions
  <2>2. CASE level = "type"
    <3>1. Tables(level) = UnionTypes.Value
      BY <1>3, <2>2 DEF Tables
    <3> QED
      BY <2>1, <2>2, <3>1 DEF UnionTypes, Union, Value_members, Member,
         Value_LookupByString, Value_Next, Value_AssembleEntry,
         Value_AssignString
  <2>3. CASE level = "repr"
    <3>1. Tables(level) = UnionReprs.Value
      BY <1>3, <2>3 DEF Tables
    <3> QED
      BY <2>1, <2>3, <3>1 DEF UnionReprs, Union, Value_members, Member,
         Value_Repr_LookupByString, Value_Repr_Next, Value_Repr_AssembleEntry,
         Value_Repr_AssignString
  <2> QED
    BY <1>2, <2>2, <2>3
<1>4. CASE case.union = "TrieNode"
  <2>1. Members = TrieNode_members
    BY <1>4 DEF Members, Unions
  <2>2. CASE level = "type"
    <3>1. Tables(level) = UnionTypes.TrieNode
      BY <1>4, <2>2 DEF Tables
    <3> QED
      BY <2>1, <2>2, <3>1 DEF UnionTypes, Union, TrieNode_members, Member,
         TrieNode_LookupByString, TrieNode_Next, TrieNode_AssembleEntry,
         TrieNode_AssignString
  <2>3. CASE level = "repr"
    <3>1. Tables(level) = UnionReprs.TrieNode
      BY <1>4, <2>3 DEF Tables
    <3> QED
      BY <2>1, <2>3, <3>1 DEF UnionReprs, Union, TrieNode_members, Member,
         TrieNode_Repr_LookupByString, TrieNode_Repr_Next,
         TrieNode_Repr_AssembleEntry, TrieNode_Repr_AssignString
  <2> QED
    BY <1>2, <2>2, <2>3
<1>5. CASE case.union = "Child"
  <2>1. Members = Child_members /\ level = "type"
    BY <1>2, <1>5 DEF Members, Unions
  <2>2. Tables(level) = UnionTypes.Child
    BY <1>5, <2>1 DEF Tables
  <2> QED
    BY <2>1, <2>2 DEF UnionTypes, Union, Child_members, Member,
       Child_LookupByString, Child_Next, Child_AssembleEntry,
       Child_AssignString
<1> QED
  BY <1>1, <1>3, <1>4, <1>5

(* A member's name leads to the member. *)
LEMMA NameLeadsToMember ==
    ASSUME case \in Cases, NEW level \in Levels, NEW names,
           Named(level, names), NEW i \in DOMAIN Members
    PROVE  Contains(names, KeyOf(level, i)) /\ Index(names, KeyOf(level, i)) = i
<1>1. \A j \in DOMAIN Members : names[j] = KeyOf(level, i) => j = i
  BY NamesFit DEF Named
<1>2. i \in 1..Len(names) /\ names[i] = KeyOf(level, i)
  BY TablesFit DEF Named
<1>3. Contains(names, KeyOf(level, i))
  BY <1>2 DEF Contains
<1>4. Index(names, KeyOf(level, i)) = i
  BY <1>1, <1>2 DEF Index, Named
<1> QED
  BY <1>3, <1>4

(* What a caller that got through reads. *)
LEMMA BuiltReadsBack ==
    ASSUME UnionInv, PhaseInv PROVE ReadsBack
<1> SUFFICES ASSUME phase = "built", want # 0
             PROVE  /\ \A level \in Levels :
                        /\ MapItr(level) = <<KeyOf(level, want), TypeOf(want)>>
                        /\ \A i \in DOMAIN Members :
                             LookupByString(level, KeyOf(level, i)) =
                                IF i = want THEN TypeOf(i) ELSE "not exists"
                    /\ case.union = "Child" =>
                        /\ KindOfChild = Members[want].repr
                        /\ AsLink = IF want = Link THEN TypeOf(want)
                                                   ELSE "wrong kind"
                        /\ AsMap = IF want = TrieNode THEN TypeOf(want)
                                                      ELSE "wrong kind"
  BY DEF ReadsBack
<1>1. b.tag = want /\ b.x[want] = TypeOf(want) /\ want \in DOMAIN Members
      /\ case \in Cases
  BY WantedMembers, TablesFit DEF PhaseInv, Here, IsBuilt, UnionInv
<1>2. ASSUME NEW level \in Levels
      PROVE  MapItr(level) = <<KeyOf(level, want), TypeOf(want)>>
  BY <1>1, NamesFit DEF MapItr, Named
<1>3. ASSUME NEW level \in Levels, NEW i \in DOMAIN Members
      PROVE  LookupByString(level, KeyOf(level, i)) =
                IF i = want THEN TypeOf(i) ELSE "not exists"
  <2>1. Contains(Tables(level).lookup, KeyOf(level, i))
        /\ Index(Tables(level).lookup, KeyOf(level, i)) = i
    BY <1>1, NamesFit, NameLeadsToMember
  <2> QED
    BY <1>1, <2>1 DEF LookupByString
<1>4. ASSUME case.union = "Child"
      PROVE  /\ KindOfChild = Members[want].repr
             /\ AsLink = IF want = Link THEN TypeOf(want) ELSE "wrong kind"
             /\ AsMap = IF want = TrieNode THEN TypeOf(want) ELSE "wrong kind"
  <2>1. want \in {1, 2} /\ Members[1].repr = "link" /\ Members[2].repr = "map"
    BY <1>1, <1>4 DEF Members, Unions, Child_members, Member
  <2>2. KindOfChild = Members[want].repr
    BY <1>1, <2>1 DEF KindOfChild, Link, TrieNode
  <2> QED
    BY <1>1, <2>2 DEF AsLink, AsMap
<1> QED
  BY <1>2, <1>3, <1>4

----------------------------------------------------------------------------
(* PhaseInv is inductive: a call that is refused leaves the caller where   *)
(* it is, and the right call is not refused and takes it further.          *)

Handed(r) == held \cup (IF r.given = 0 THEN {} ELSE {r.given})

Proceeds(op, from, to, fits, r) ==
    /\ Placed(r.b)
    /\ r.out # "ok" /\ op # "AssignForeign" => Here(phase, r.b, Handed(r))
    /\ fits /\ phase = from => r.out = "ok" /\ Here(to, r.b, Handed(r))

(* Every operation has one place in the script. *)
LEMMA ScriptPlaces ==
    ASSUME NEW s \in Script, NEW p \in Script, s[2] = p[2] PROVE s = p
  BY DEF Script

LEMMA PhaseStep ==
    ASSUME PhaseInv, NEW op, NEW from, NEW to, NEW fits \in BOOLEAN, NEW r,
           op # "Reset", <<from, op, to>> \in Script, Call(op, fits, r),
           Proceeds(op, from, to, fits, r)
    PROVE  PhaseInv' /\ AcceptsEveryMember'
<1>1. \A p \in Script : p[2] = op => p = <<from, op, to>>
  BY ScriptPlaces
<1>2. right' <=> fits /\ phase = from
  <2>1. <<from, op, to>>[1] = from /\ <<from, op, to>>[2] = op
        /\ <<from, op, to>>[3] = to
    OBVIOUS
  <2>2. (\E p \in Script : p[1] = phase /\ p[2] = op) <=> phase = from
    BY <1>1, <2>1
  <2>3. right' = (fits /\ \E p \in Script : p[1] = phase /\ p[2] = op)
    BY DEF Call
  <2> QED
    BY <2>2, <2>3, Zenon
<1>3. b' = r.b /\ held' = Handed(r) /\ case' = case /\ want' = want
      /\ ret'.out = r.out
  BY DEF Call, Handed
<1>4. AcceptsEveryMember'
  BY <1>2, <1>3 DEF AcceptsEveryMember, Proceeds
<1>5. Here(phase', r.b, Handed(r)) /\ phase' \in {"start", "key", "name",
            "value", "member", "end", "built", "lost"}
  <2>1. CASE r.out # "ok" /\ op # "AssignForeign"
    <3>1. phase' = phase
      BY <2>1 DEF Call
    <3> QED
      BY <2>1, <3>1 DEF Proceeds, PhaseInv
  <2>2. CASE ~(r.out # "ok" /\ op # "AssignForeign") /\ (r.out # "ok" \/ ~right')
    <3>1. phase' = "lost"
      BY <2>2 DEF Call
    <3> QED
      BY <3>1 DEF Here
  <2>3. CASE r.out = "ok" /\ right'
    <3>1. phase' = (CHOOSE p \in Script : p[1] = phase /\ p[2] = op)[3]
      BY <2>3 DEF Call
    <3>2. (CHOOSE p \in Script : p[1] = phase /\ p[2] = op) = <<from, op, to>>
      BY <1>1, <1>2, <2>3
    <3>3. phase' = to
      <4>1. <<from, op, to>>[3] = to
        OBVIOUS
      <4> QED
        BY <3>1, <3>2, <4>1, Zenon
    <3>4. to \in {"start", "key", "name", "value", "member", "end", "built"}
      BY DEF Script
    <3> QED
      BY <1>2, <2>3, <3>3, <3>4 DEF Proceeds
  <2> QED
    BY <2>1, <2>2, <2>3
<1>6. Here(phase, b, held)' /\ Placed(b)'
  BY <1>3, <1>5 DEF Proceeds, Here, Placed, Started, AtKey, AtName, AtValue,
     AtMember, AtEnd, IsBuilt, Untouched, Open, Ready, TypeOf, Members
<1> QED
  BY <1>4, <1>5, <1>6 DEF PhaseInv

(* What the lemmas on the calls assume, for unions assembled as maps. *)
Going == UnionInv /\ PhaseInv /\ Working(case) /\ "kind" \notin case.ways

LEMMA GoingSane ==
    ASSUME Going
    PROVE  /\ MapSane(b) /\ Types(b) /\ HeldOK /\ case \in Cases
           /\ Placed(b) /\ Here(phase, b, held)
           /\ want # 0 => want \in DOMAIN Members
  BY WantedMembers, TablesFit DEF Going, UnionInv, PhaseInv, MapSane

(* Calls that change nothing. *)
LEMMA UnmovedStays ==
    ASSUME PhaseInv, NEW r \in {Ok(b), Error(b), Panic(b)}
    PROVE  Placed(r.b) /\ Here(phase, r.b, Handed(r))
  BY DEF PhaseInv, Ok, Error, Panic, Result, Handed

LEMMA TidiedStays ==
    ASSUME Going, Begun, Ready(b)
    PROVE  LET r == Error(Tidied(b))
           IN  Placed(r.b) /\ Here(phase, r.b, Handed(r))
<1> DEFINE d == Tidied(b)
<1>1. d.m = b.m /\ d.w = b.w /\ d.state = "initial" /\ d.ca = b.ca
      /\ d.cm = b.cm /\ d.tag = b.tag /\ d.x = b.x /\ d.nil = b.nil
  BY GoingSane DEF Tidied, Types
<1>2. phase # "start"
  BY GoingSane DEF Here, Started, Untouched, Open, Begun, Going
<1> HIDE DEF d
<1>3. Placed(d) /\ Here(phase, d, held)
  BY <1>1, <1>2, GoingSane DEF Placed, Here, AtKey, AtName, AtValue, AtMember,
     AtEnd, IsBuilt, Untouched, Ready
<1>4. Error(d).b = d /\ Handed(Error(d)) = held
  BY DEF Error, Result, Handed
<1> QED
  BY <1>3, <1>4 DEF d

LEMMA BeginMapProceeds ==
    ASSUME Going
    PROVE  Proceeds("BeginMap", "start", "key", want # 0, BeginMap(b))
<1>1. CASE Open(b)
  <2> DEFINE d == [b EXCEPT !.m = "midvalue", !.w = "node"]
  <2>1. BeginMap(b) = Ok(d)
    BY <1>1 DEF BeginMap
  <2>2. d.m = "midvalue" /\ d.w = "node" /\ d.state = b.state /\ d.ca = b.ca
        /\ d.cm = b.cm /\ d.nil = b.nil
    BY GoingSane DEF Types
  <2> HIDE DEF d
  <2>3. Ok(d).b = d /\ Ok(d).out = "ok"
    BY DEF Ok, Result
  <2>4. Placed(d)
    BY <2>2, GoingSane DEF Placed
  <2>5. want # 0 /\ phase = "start" => \A h : Here("key", d, h)
    BY <2>2, GoingSane DEF Here, Started, AtKey, Untouched, Going
  <2> QED
    BY <2>1, <2>3, <2>4, <2>5 DEF Proceeds
<1>2. CASE ~Open(b)
  BY <1>2, UnmovedStays, GoingSane DEF BeginMap, Proceeds, Here, Started, Going
<1> QED
  BY <1>1, <1>2

LEMMA AssignNullProceeds ==
    ASSUME Going
    PROVE  Proceeds("AssignNull", "start", "built", want = 0, AssignNull(b))
<1>1. CASE b.m = "allowNull"
  <2> DEFINE d == [b EXCEPT !.m = "Null"]
  <2>1. AssignNull(b) = Ok(d)
    BY <1>1 DEF AssignNull
  <2>2. d.m = "Null" /\ d.w = b.w /\ d.nil = b.nil
    BY GoingSane DEF Types
  <2> HIDE DEF d
  <2>3. Ok(d).b = d /\ Ok(d).out = "ok"
    BY DEF Ok, Result
  <2>4. Placed(d)
    BY <2>2, GoingSane DEF Placed
  <2>5. want = 0 => \A h : Here("built", d, h)
    BY <2>2 DEF Here, IsBuilt
  <2> QED
    BY <2>1, <2>3, <2>4, <2>5 DEF Proceeds
<1>2. CASE b.m # "allowNull"
  BY <1>2, UnmovedStays, GoingSane DEF AssignNull, Proceeds, Here, Started,
     Going
<1> QED
  BY <1>1, <1>2

(* A copy, of the kinded representation as well. *)
LEMMA AssignNodeProceeds ==
    ASSUME case \in Cases, Types(b), PhaseInv, NEW i \in DOMAIN Members
    PROVE  Proceeds("AssignNode", "start", "built", i = want, AssignNode(b, i))
<1>1. CASE Open(b)
  <2>1. PICK y : y = [j \in DOMAIN Members |->
                        IF j = i THEN TypeOf(i) ELSE Zero]
    OBVIOUS
  <2> DEFINE d == [b EXCEPT !.m = "Value", !.w = "node", !.tag = i, !.x = y]
  <2>2. AssignNode(b, i) = Ok(d)
    BY <1>1, <2>1 DEF AssignNode, Types
  <2>3. d.m = "Value" /\ d.w = "node" /\ d.tag = i /\ d.x = y
        /\ d.nil = b.nil
    BY DEF Types
  <2> HIDE DEF d
  <2>4. Ok(d).b = d /\ Ok(d).out = "ok"
    BY DEF Ok, Result
  <2>5. Placed(d)
    BY <2>3 DEF Placed, PhaseInv
  <2>6. i = want => \A h : Here("built", d, h)
    <3>1. i # 0 /\ y[i] = TypeOf(i)
      BY <2>1, TablesFit
    <3> QED
      BY <2>3, <3>1 DEF Here, IsBuilt
  <2> QED
    BY <2>2, <2>4, <2>5, <2>6 DEF Proceeds
<1>2. CASE ~Open(b)
  BY <1>2, UnmovedStays DEF AssignNode, Proceeds, Here, Started, PhaseInv
<1> QED
  BY <1>1, <1>2

LEMMA BuildProceeds ==
    ASSUME PhaseInv
    PROVE  Proceeds("Build", "built", "built", want # 0, Build(b))
<1>1. want # 0 /\ phase = "built" => b.m = "Value"
  BY DEF PhaseInv, Here, IsBuilt
<1>2. Build(b) \in {Ok(b), Panic(b)} /\ (b.m = "Value" => Build(b).out = "ok")
  BY DEF Build, Ok, Panic, Result
<1> QED
  BY <1>1, <1>2, UnmovedStays DEF Proceeds

LEMMA AssembleKeyProceeds ==
    ASSUME Going
    PROVE  Proceeds("AssembleKey", "key", "name", TRUE, AssembleKey(b))
<1>1. CASE Ready(b)
  <2> DEFINE d == [b EXCEPT !.state = "midKey"]
  <2>1. AssembleKey(b) = Ok(d)
    BY <1>1 DEF AssembleKey
  <2>2. d.m = b.m /\ d.w = b.w /\ d.state = "midKey" /\ d.ca = b.ca
        /\ d.nil = b.nil
    BY GoingSane DEF Types
  <2> HIDE DEF d
  <2>3. Ok(d).b = d /\ Ok(d).out = "ok"
    BY DEF Ok, Result
  <2>4. Placed(d)
    BY <2>2, GoingSane DEF Placed
  <2>5. phase = "key" => \A h : Here("name", d, h)
    BY <2>2, GoingSane DEF Here, AtKey, AtName, Untouched
  <2> QED
    BY <2>1, <2>3, <2>4, <2>5 DEF Proceeds
<1>2. CASE ~Ready(b)
  BY <1>2, UnmovedStays, GoingSane DEF AssembleKey, Proceeds, Here, AtKey,
     Untouched, Ready, Going
<1> QED
  BY <1>1, <1>2

LEMMA FinishProceeds ==
    ASSUME Going, Begun
    PROVE  Proceeds("Finish", "end", "built", TRUE, Finish(b))
<1>1. CASE Ready(b) /\ b.ca # 0
  <2> DEFINE d == [b EXCEPT !.state = "finished", !.m = "Value"]
  <2>1. Finish(b) = Ok(d)
    BY <1>1 DEF Finish
  <2>2. d.m = "Value" /\ d.w = b.w /\ d.tag = b.tag /\ d.x = b.x
        /\ d.nil = b.nil
    BY GoingSane DEF Types
  <2> HIDE DEF d
  <2>3. Ok(d).b = d /\ Ok(d).out = "ok"
    BY DEF Ok, Result
  <2>4. Placed(d)
    BY <2>2, GoingSane DEF Placed
  <2>5. phase = "end" => \A h : Here("built", d, h)
    BY <2>2, GoingSane DEF Here, AtEnd, IsBuilt, MapSane
  <2> QED
    BY <2>1, <2>3, <2>4, <2>5 DEF Proceeds
<1>2. CASE Ready(b) /\ b.ca = 0
  <2>1. Finish(b) = Error(Tidied(b))
    BY <1>2 DEF Finish
  <2>2. phase # "end"
    BY <1>2, GoingSane DEF Here, AtEnd
  <2> QED
    BY <1>2, <2>1, <2>2, TidiedStays DEF Proceeds
<1>3. CASE ~Ready(b)
  BY <1>3, UnmovedStays, GoingSane DEF Finish, Proceeds, Here, AtEnd, Going
<1> QED
  BY <1>1, <1>2, <1>3

(* The name of the wanted member is one that the switches of the level     *)
(* lead to the member.                                                     *)
LEMMA WantedName ==
    ASSUME Going, Keyed, want # 0
    PROVE  /\ Contains(T.entry, Key) /\ Index(T.entry, Key) = want
           /\ Contains(T.key, Key) /\ Index(T.key, Key) = want
<1>1. case.level \in Levels
  <2>1. /\ case.union \in DOMAIN Unions /\ case.level \in {"type", "repr"}
        /\ case.ways \subseteq
              IF case.union = "Child" /\ case.level = "repr"
              THEN {"kind", "copy"}
              ELSE {"entry", "keyvalue", "copy", "foreign"}
    BY GoingSane, CasesAssumption
  <2>2. ~(case.union = "Child" /\ case.level = "repr")
    BY <2>1 DEF Keyed
  <2> QED
    BY <2>1, <2>2 DEF Levels, Unions, UnionReprs
<1>2. want \in DOMAIN Members /\ case \in Cases
  BY GoingSane
<1>3. Named(case.level, T.entry) /\ Named(case.level, T.key)
  BY <1>1, <1>2, NamesFit DEF T
<1> QED
  BY <1>1, <1>2, <1>3, NameLeadsToMember DEF Key

LEMMA AssembleEntryProceeds ==
    ASSUME Going, Begun, "entry" \in case.ways, NEW k
    PROVE  Proceeds("AssembleEntry", "key", "member", k = Key,
                    AssembleEntry(b, k))
<1>0. b.nil = {}
  BY GoingSane DEF Going, Working, Placed
<1>1. CASE Ready(b) /\ ~Full(b) /\ Contains(T.entry, k)
  <2>1. PICK i \in DOMAIN Members : i = Index(T.entry, k)
    BY <1>1, GoingSane, TablesFit, IndexFits DEF Keyed
  <2> DEFINE d == [b EXCEPT !.state = "midValue", !.ca = i, !.tag = i]
  <2>2. AssembleEntry(b, k) = Result("ok", i, d)
    BY <1>0, <1>1, <2>1 DEF AssembleEntry
  <2>3. d.m = b.m /\ d.w = b.w /\ d.state = "midValue" /\ d.ca = i
        /\ d.cm = b.cm /\ d.nil = b.nil
    BY GoingSane DEF Types
  <2> HIDE DEF d
  <2>4. Result("ok", i, d).b = d /\ Result("ok", i, d).out = "ok"
        /\ Handed(Result("ok", i, d)) = held \cup {i}
    BY <2>1, GoingSane, TablesFit DEF Result, Handed
  <2>5. Placed(d)
    BY <2>3, GoingSane DEF Placed
  <2>6. ASSUME k = Key, phase = "key" PROVE Here("member", d, held \cup {i})
    <3>1. want # 0 /\ AtKey(b) /\ "kind" \notin case.ways
      BY <2>6, GoingSane DEF Here
    <3>2. i = want
      BY <2>1, <2>6, <3>1, WantedName DEF Keyed
    <3>3. held = {}
      BY <3>1, GoingSane DEF HeldOK, AtKey, Untouched
    <3> QED
      BY <2>3, <3>1, <3>2, <3>3 DEF Here, AtKey, AtMember, Untouched
  <2> QED
    BY <2>2, <2>4, <2>5, <2>6 DEF Proceeds
<1>2. CASE ~(Ready(b) /\ ~Full(b) /\ Contains(T.entry, k))
  <2>1. ~(k = Key /\ phase = "key")
    <3>1. phase = "key" => want # 0 /\ Ready(b) /\ ~Full(b)
      BY GoingSane DEF Here, AtKey, Untouched, Ready, Full
    <3> QED
      BY <1>2, <3>1, WantedName DEF Keyed
  <2>2. CASE Ready(b)
    <3>1. AssembleEntry(b, k) = Error(Tidied(b))
      BY <1>2, <2>2 DEF AssembleEntry
    <3> QED
      BY <2>1, <2>2, <3>1, TidiedStays DEF Proceeds
  <2>3. CASE ~Ready(b)
    BY <2>1, <2>3, UnmovedStays DEF AssembleEntry, Proceeds, Going
  <2> QED
    BY <2>2, <2>3
<1> QED
  BY <1>1, <1>2

(* c is b, or what AssembleKey made of it. *)
LEMMA NamedEntry ==
    ASSUME Going, Keyed, want # 0, NEW c, Types(c), c.state = "midKey",
           c.ca = 0, c.w = "node"
    PROVE  \E d : /\ KeyAssignString(c, Key) = Ok(d) /\ Types(d)
                  /\ d.ca = want /\ d.tag = want /\ d.state = "expectValue"
                  /\ d.m = c.m /\ d.w = c.w /\ d.cm = c.cm /\ d.nil = c.nil
                  /\ d.x = c.x
<1>1. want \in 0..Len(Members)
  BY WantedMembers DEF Going
<1> DEFINE d == [c EXCEPT !.ca = want, !.tag = want, !.state = "expectValue"]
<1>2. KeyAssignString(c, Key) = Ok(d)
  BY WantedName DEF KeyAssignString, Full
<1>3. Types(d) /\ d.ca = want /\ d.tag = want /\ d.state = "expectValue"
      /\ d.m = c.m /\ d.w = c.w /\ d.cm = c.cm /\ d.nil = c.nil /\ d.x = c.x
  BY <1>1 DEF Types
<1> QED
  BY <1>2, <1>3

LEMMA KeyAssignStringProceeds ==
    ASSUME Going, Begun, "keyvalue" \in case.ways, NEW k
    PROVE  Proceeds("KeyAssignString", "name", "value", k = Key,
                    KeyAssignString(b, k))
<1>0. b.w = "node"
  BY GoingSane DEF MapSane, Types, Begun
<1>1. CASE b.state = "midKey" /\ ~Full(b) /\ Contains(T.key, k)
  <2>1. PICK i \in DOMAIN Members : i = Index(T.key, k)
    BY <1>1, GoingSane, TablesFit, IndexFits DEF Keyed
  <2> DEFINE d == [b EXCEPT !.ca = i, !.tag = i, !.state = "expectValue"]
  <2>2. KeyAssignString(b, k) = Ok(d)
    BY <1>0, <1>1, <2>1 DEF KeyAssignString
  <2>3. d.m = b.m /\ d.w = b.w /\ d.state = "expectValue" /\ d.ca = i
        /\ d.cm = b.cm /\ d.nil = b.nil
    BY GoingSane DEF Types
  <2> HIDE DEF d
  <2>4. Ok(d).b = d /\ Ok(d).out = "ok"
    BY DEF Ok, Result
  <2>5. Placed(d)
    BY <2>3, GoingSane DEF Placed
  <2>6. ASSUME k = Key, phase = "name", NEW h PROVE Here("value", d, h)
    <3>1. want # 0 /\ AtName(b) /\ "kind" \notin case.ways
      BY <2>6, GoingSane DEF Here
    <3>2. i = want
      BY <2>1, <2>6, <3>1, WantedName DEF Keyed
    <3>3. b.cm = "Absent"
      BY <3>1, GoingSane DEF MapSane, Types, AtName
    <3> QED
      BY <2>3, <3>1, <3>2, <3>3 DEF Here, AtName, AtValue
  <2> QED
    BY <2>2, <2>4, <2>5, <2>6 DEF Proceeds
<1>2. CASE ~(b.state = "midKey" /\ ~Full(b) /\ Contains(T.key, k))
  <2>1. ~(k = Key /\ phase = "name")
    <3>1. phase = "name" => want # 0 /\ b.state = "midKey" /\ ~Full(b)
      BY GoingSane DEF Here, AtName, Full
    <3> QED
      BY <1>2, <3>1, WantedName DEF Keyed
  <2>2. KeyAssignString(b, k) \in {Error(b), Panic(b)}
    BY <1>2 DEF KeyAssignString
  <2> QED
    BY <2>1, <2>2, UnmovedStays DEF Proceeds, Going
<1> QED
  BY <1>1, <1>2

(* The assembler of the entry's member. *)
LEMMA EntryValue ==
    ASSUME Going, case.level = "type", NEW c, Types(c),
           c.state = "expectValue", c.ca # 0
    PROVE  \E d : /\ AssembleValue(c) = Result("ok", c.ca, d) /\ Types(d)
                  /\ d.state = "midValue" /\ d.ca = c.ca /\ d.tag = c.tag
                  /\ d.m = c.m /\ d.w = c.w /\ d.cm = c.cm /\ d.x = c.x
                  /\ d.nil \subseteq c.nil
<1>1. c.ca \in DOMAIN Members /\ c.ca \in DOMAIN T.value
      /\ T.value[c.ca] = c.ca
  BY GoingSane, TablesFit DEF Types
<1> DEFINE d == [[c EXCEPT !.state = "midValue"] EXCEPT !.nil = @ \ {c.ca}]
<1>2. AssembleValue(c) = Result("ok", c.ca, d)
  BY <1>1 DEF AssembleValue
<1>3. Types(d) /\ d.state = "midValue" /\ d.ca = c.ca /\ d.tag = c.tag
      /\ d.m = c.m /\ d.w = c.w /\ d.cm = c.cm /\ d.x = c.x
      /\ d.nil \subseteq c.nil
  BY DEF Types
<1> QED
  BY <1>2, <1>3

LEMMA AssembleValueProceeds ==
    ASSUME Going, Begun, "keyvalue" \in case.ways
    PROVE  Proceeds("AssembleValue", "value", "member", TRUE,
                    AssembleValue(b))
<1>0. case.level = "type"
  BY GoingSane, CasesAssumption DEF Going, Working, Sound
<1>1. CASE b.state = "expectValue"
  <2>1. b.ca # 0
    BY <1>1, GoingSane DEF MapSane
  <2>2. PICK d : /\ AssembleValue(b) = Result("ok", b.ca, d)
                 /\ d.state = "midValue" /\ d.ca = b.ca
                 /\ d.m = b.m /\ d.w = b.w /\ d.cm = b.cm
                 /\ d.nil \subseteq b.nil
    BY <1>0, <1>1, <2>1, GoingSane, EntryValue
  <2>3. /\ Result("ok", b.ca, d).b = d /\ Result("ok", b.ca, d).out = "ok"
        /\ Handed(Result("ok", b.ca, d)) = held \cup {b.ca}
    BY <2>1 DEF Result, Handed
  <2>4. Placed(d)
    BY <2>2, GoingSane DEF Placed
  <2>5. ASSUME phase = "value" PROVE Here("member", d, held \cup {b.ca})
    <3>1. want # 0 /\ AtValue(b) /\ "kind" \notin case.ways
      BY <2>5, GoingSane DEF Here
    <3>2. held \cup {b.ca} = {want}
      BY <3>1, GoingSane DEF HeldOK, AtValue
    <3> QED
      BY <2>2, <3>1, <3>2 DEF Here, AtValue, AtMember
  <2> QED
    BY <2>2, <2>3, <2>4, <2>5 DEF Proceeds
<1>2. CASE b.state # "expectValue"
  BY <1>2, UnmovedStays, GoingSane DEF AssembleValue, Proceeds, Here, AtValue,
     Going
<1> QED
  BY <1>1, <1>2

(* The wanted value for the wanted member. *)
LEMMA ValueTaken ==
    ASSUME Going, want # 0, NEW c, Types(c), c.cm = "Absent"
    PROVE  \E d : /\ MemberAssign(c, want, TypeOf(want)) = Ok(d) /\ Types(d)
                  /\ d.cm = "Value" /\ d.x[want] = TypeOf(want)
                  /\ d.state = c.state /\ d.ca = c.ca /\ d.tag = c.tag
                  /\ d.m = c.m /\ d.w = c.w /\ d.nil = c.nil
<1>1. TypeOf(want) \in ValuesOf(want) /\ TypeOf(want) \in MemberValues
      /\ want \in DOMAIN Members
  BY GoingSane DEF ValuesOf, MemberValues
<1>2. PICK y \in [DOMAIN Members -> MemberValues] :
          y = [c.x EXCEPT ![want] = TypeOf(want)]
  BY <1>1 DEF Types
<1> DEFINE d == [c EXCEPT !.x = y, !.cm = "Value"]
<1>3. MemberAssign(c, want, TypeOf(want)) = Ok(d)
  BY <1>1, <1>2 DEF MemberAssign, Types
<1>4. Types(d) /\ d.cm = "Value" /\ d.x = y /\ d.state = c.state
      /\ d.ca = c.ca /\ d.tag = c.tag /\ d.m = c.m /\ d.w = c.w
      /\ d.nil = c.nil
  BY DEF Types
<1>5. y[want] = TypeOf(want)
  BY <1>1, <1>2 DEF Types
<1> QED
  BY <1>3, <1>4, <1>5

LEMMA MemberAssignProceeds ==
    ASSUME Going, NEW i \in held, NEW v
    PROVE  Proceeds("MemberAssign", "member", "end",
                    want # 0 /\ v = TypeOf(want), MemberAssign(b, i, v))
<1>1. ASSUME phase = "member", want # 0, v = TypeOf(want)
      PROVE  /\ MemberAssign(b, i, v).out = "ok"
             /\ \A h : Here("end", MemberAssign(b, i, v).b, h)
  <2>1. AtMember(b, held) /\ i = want /\ "kind" \notin case.ways
    BY <1>1, GoingSane DEF Here, AtMember
  <2>2. PICK d : /\ MemberAssign(b, want, TypeOf(want)) = Ok(d)
                 /\ d.cm = "Value" /\ d.x[want] = TypeOf(want)
                 /\ d.state = b.state /\ d.ca = b.ca /\ d.m = b.m
    BY <1>1, <2>1, GoingSane, ValueTaken DEF AtMember
  <2>3. Ok(d).out = "ok" /\ Ok(d).b = d
    BY DEF Ok, Result
  <2> QED
    BY <1>1, <2>1, <2>2, <2>3 DEF Here, AtMember, AtEnd, Ready
<1>2. CASE b.cm # "Value" /\ v \in ValuesOf(i)
  <2> DEFINE d == [b EXCEPT !.x[i] = v, !.cm = "Value"]
  <2>1. MemberAssign(b, i, v) = Ok(d)
    BY <1>2 DEF MemberAssign
  <2>2. d.w = b.w /\ d.nil = b.nil
    BY GoingSane DEF Types
  <2> HIDE DEF d
  <2>3. Ok(d).out = "ok" /\ Ok(d).b = d
    BY DEF Ok, Result
  <2>4. Placed(d)
    BY <2>2, GoingSane DEF Placed
  <2> QED
    BY <1>1, <2>1, <2>3, <2>4 DEF Proceeds
<1>3. CASE ~(b.cm # "Value" /\ v \in ValuesOf(i))
  <2>1. MemberAssign(b, i, v) \in {Error(b), Panic(b)}
    BY <1>3 DEF MemberAssign
  <2> QED
    BY <1>1, <2>1, UnmovedStays DEF Proceeds, Going, Error, Panic, Result
<1> QED
  BY <1>2, <1>3

(* The right foreign map goes through key, value and Finish.  A builder    *)
(* has its node, so that the tag can be written without BeginMap.          *)
LEMMA ForeignTaken ==
    ASSUME Going, "foreign" \in case.ways, want # 0, phase = "start"
    PROVE  LET r == AssignForeign(b, <<Entry(Key, TypeOf(want))>>)
           IN  r.out = "ok" /\ \A h : Here("built", r.b, h)
<1> DEFINE e == Entry(Key, TypeOf(want))
<1>0. case.level = "type" /\ Keyed /\ b.w = "node" /\ Untouched(b)
  BY GoingSane, CasesAssumption DEF Going, Working, Sound, Keyed, Placed, Here,
     Started
<1>1. PICK c1 : /\ AssembleKey(b) = Ok(c1) /\ Types(c1)
                /\ c1.state = "midKey" /\ c1.ca = 0 /\ c1.w = "node"
                /\ c1.cm = "Absent"
  <2> DEFINE d == [b EXCEPT !.state = "midKey"]
  <2>1. AssembleKey(b) = Ok(d)
    BY <1>0 DEF AssembleKey, Ready, Untouched
  <2>2. Types(d) /\ d.state = "midKey" /\ d.ca = b.ca /\ d.w = b.w
        /\ d.cm = b.cm
    BY GoingSane DEF Types
  <2> QED
    BY <1>0, <2>1, <2>2 DEF Untouched
<1>2. PICK c2 : /\ KeyAssignString(c1, Key) = Ok(c2) /\ Types(c2)
                /\ c2.state = "expectValue" /\ c2.ca = want
                /\ c2.tag = want /\ c2.cm = "Absent"
  BY <1>0, <1>1, NamedEntry
<1>3. PICK c3 : /\ AssembleValue(c2) = Result("ok", want, c3) /\ Types(c3)
                /\ c3.state = "midValue" /\ c3.ca = want
                /\ c3.tag = want /\ c3.cm = "Absent"
  BY <1>0, <1>2, EntryValue
<1>4. PICK c4 : /\ MemberAssign(c3, want, TypeOf(want)) = Ok(c4) /\ Types(c4)
                /\ c4.state = "midValue" /\ c4.cm = "Value"
                /\ c4.ca = want /\ c4.tag = want
                /\ c4.x[want] = TypeOf(want)
  BY <1>3, ValueTaken
<1>5. PICK c5 : /\ Finish(c4) = Ok(c5) /\ c5.m = "Value" /\ c5.tag = want
                /\ c5.x[want] = TypeOf(want)
  <2> DEFINE d == [c4 EXCEPT !.state = "finished", !.m = "Value"]
  <2>1. Finish(c4) = Ok(d)
    BY <1>4 DEF Finish, Ready
  <2>2. d.m = "Value" /\ d.tag = c4.tag /\ d.x = c4.x
    BY <1>4 DEF Types
  <2> QED
    BY <1>4, <2>1, <2>2
<1>6. \A c : Ok(c).out = "ok" /\ Ok(c).b = c
  BY DEF Ok, Result
<1>7. Result("ok", want, c3).out = "ok" /\ Result("ok", want, c3).b = c3
      /\ Result("ok", want, c3).given = want
  BY DEF Result
<1>8. e.key = Key /\ e.value = TypeOf(want)
  BY DEF Entry
<1>9. AssignEntry(b, e) = Ok(c4)
  <2> HIDE DEF e
  <2> QED
    BY <1>1, <1>2, <1>3, <1>4, <1>6, <1>7, <1>8 DEF AssignEntry, Then
<1>10. PICK m : m = <<e>>
  OBVIOUS
<1>11. 1 \in DOMAIN m /\ m[1] = e /\ 2 \notin DOMAIN m
  BY <1>10
<1>12. Visit(Visit(Ok(b), m, 1), m, 2) = Ok(c4)
  <2> HIDE DEF e
  <2>1. Visit(Ok(b), m, 1) = Ok(c4)
    BY <1>6, <1>9, <1>11 DEF Visit, Then
  <2> QED
    BY <1>11, <2>1 DEF Visit
<1>13. AssignForeign(b, m) = Ok(c5)
  BY <1>5, <1>6, <1>12 DEF AssignForeign, Then
<1>14. \A h : Here("built", c5, h)
  BY <1>5 DEF Here, IsBuilt
<1> QED
  BY <1>6, <1>10, <1>13, <1>14

(* A map that is refused half way loses the caller the thread, but a       *)
(* builder keeps its node.                                                 *)
LEMMA AssignForeignProceeds ==
    ASSUME Going, "foreign" \in case.ways, NEW e
    PROVE  Proceeds("AssignForeign", "start", "built",
                    want # 0 /\ e = <<Entry(Key, TypeOf(want))>>,
                    AssignForeign(b, e))
<1>1. case.level = "type" /\ Keyed /\ "copy" \notin case.ways
  BY GoingSane, CasesAssumption DEF Going, Working, Sound, Keyed
<1>2. Keeps(b, AssignForeign(b, e))
  BY <1>1, GoingSane, AssignForeignKeeps
<1>3. Placed(AssignForeign(b, e).b)
  BY <1>2, GoingSane DEF Placed, Keeps, Steady
<1> QED
  BY <1>3, ForeignTaken DEF Proceeds

(* The calls for a kind: a link is taken, and a map that cannot be begun   *)
(* leaves the union open.                                                  *)
LEMMA AssignKindProceeds ==
    ASSUME UnionInv, PhaseInv, Working(case), "kind" \in case.ways,
           NEW i \in {0} \cup DOMAIN Members, NEW v
    PROVE  Proceeds("AssignKind", "start", "built",
                    i = want /\ v = (IF want = 0 THEN "null" ELSE TypeOf(want)),
                    AssignKind(b, i, v))
<1>0. /\ want = 1 /\ Types(b) /\ case \in Cases
      /\ DOMAIN Members = 1..2 /\ Len(Members) = 2
      /\ Placed(b) /\ Here(phase, b, held)
  BY TablesFit DEF UnionInv, KindSane, PhaseInv, Working, Link
<1>1. CASE i = 1 /\ Open(b)
  <2>1. PICK y : y = [b.x EXCEPT ![1] = v]
    OBVIOUS
  <2> DEFINE d == [b EXCEPT !.w = "node", !.ca = 1, !.tag = 1, !.x = y,
                            !.m = "Value"]
  <2>2. AssignKind(b, i, v) = Ok(d)
    <3>1. AssignKind(b, i, v) = AssignLink(b, v)
      BY <1>1 DEF AssignKind, Link, TrieNode
    <3>2. [Chosen(b, 1) EXCEPT !.x[1] = v, !.m = "Value"] = d
      BY <1>0, <2>1 DEF Chosen, Types
    <3> QED
      BY <1>1, <3>1, <3>2 DEF AssignLink, Link
  <2>3. d.m = "Value" /\ d.w = "node" /\ d.tag = 1 /\ d.x = y
        /\ d.nil = b.nil
    BY <1>0 DEF Types
  <2> HIDE DEF d
  <2>4. Ok(d).b = d /\ Ok(d).out = "ok"
    BY DEF Ok, Result
  <2>5. Placed(d)
    BY <1>0, <2>3 DEF Placed
  <2>6. v = TypeOf(want) => \A h : Here("built", d, h)
    <3>1. y[1] = v
      BY <1>0, <2>1 DEF Types
    <3> QED
      BY <1>0, <2>3, <3>1 DEF Here, IsBuilt
  <2> QED
    BY <1>0, <2>2, <2>4, <2>5, <2>6 DEF Proceeds
<1>2. CASE i = 2 /\ Open(b)
  <2> DEFINE d == [b EXCEPT !.w = "node", !.ca = 2, !.tag = 2]
  <2>1. AssignKind(b, i, v) = Panic(d)
    BY <1>2 DEF AssignKind, BeginKindedMap, Chosen, Link, TrieNode
  <2>2. d.m = b.m /\ d.w = "node" /\ d.nil = b.nil
    BY <1>0 DEF Types
  <2> HIDE DEF d
  <2>3. Panic(d).b = d /\ Panic(d).out = "panic"
    BY DEF Panic, Result
  <2>4. Placed(d)
    BY <1>0, <2>2 DEF Placed
  <2>5. \A h : Here(phase, d, h)
    <3>1. phase # "built"
      BY <1>0, <1>2 DEF Here, IsBuilt, Open
    <3> QED
      BY <1>0, <2>2, <3>1 DEF Here, Started, Open
  <2> QED
    BY <1>0, <1>2, <2>1, <2>3, <2>4, <2>5 DEF Proceeds
<1>3. CASE ~Open(b) \/ i = 0
  <2>1. AssignKind(b, i, v) \in {Error(b), Panic(b)}
    <3>1. i = 0 \/ i = 1 \/ i = 2
      BY <1>0
    <3> QED
      BY <1>3, <3>1 DEF AssignKind, AssignLink, BeginKindedMap,
         AssignWrongKind, Link, TrieNode
  <2>2. ~(i = want /\ phase = "start")
    BY <1>0, <1>3 DEF Here, Started
  <2> QED
    BY <2>1, <2>2, UnmovedStays DEF Proceeds
<1> QED
  BY <1>0, <1>1, <1>2, <1>3

(* A new assembler: null is wanted of one behind a pointer only. *)
LEMMA FreshStarted ==
    ASSUME case \in Cases, want \in case.wants
    PROVE  Placed(Fresh(case)) /\ \A h : Here("start", Fresh(case), h)
<1>1. case.place \in {"alone", "pointer"}
      /\ (0 \in case.wants => case.place = "pointer")
  BY CasesAssumption
<1> DEFINE d == Fresh(case)
<1>2. /\ d.m = (IF case.place = "alone" THEN "Absent" ELSE "allowNull")
      /\ d.w = (IF case.place = "alone" THEN "node" ELSE "nil")
      /\ Untouched(d) /\ d.nil = ByPointer[case.union]
  BY DEF Fresh, Untouched
<1> HIDE DEF d
<1>3. Placed(d) /\ Started(d)
  BY <1>1, <1>2 DEF Placed, Started, Open
<1> QED
  BY <1>3 DEF d, Here

LEMMA ResetStarts ==
    ASSUME UnionInv, Call("Reset", FALSE, Reset(b))
    PROVE  PhaseInv' /\ AcceptsEveryMember'
<1>1. b' = Fresh(case) /\ phase' = "start" /\ right' = FALSE
      /\ case' = case /\ want' = want
  BY DEF Call, Reset, Ok, Result
<1>2. Placed(b)' /\ Here(phase, b, held)'
  <2>1. Placed(Fresh(case)) /\ Here("start", Fresh(case), held')
    BY FreshStarted DEF UnionInv
  <2> QED
    BY <1>1, <2>1 DEF Here, Placed, Started, Untouched, Open
<1> QED
  BY <1>1, <1>2 DEF PhaseInv, AcceptsEveryMember

LEMMA NextKeepsPhaseInv ==
    ASSUME \A c \in Cases : Working(c), UnionInv, PhaseInv, Next
    PROVE  PhaseInv' /\ AcceptsEveryMember'
<1>0. case \in Cases /\ Working(case) /\ Types(b)
      /\ Other \in DOMAIN Members /\ (want # 0 => want \in DOMAIN Members)
  BY WantedMembers, TablesFit DEF UnionInv, MapSane, KindSane
<1>1. ASSUME NEW i \in {want, Other} \ {0},
             Call("AssignNode", i = want, AssignNode(b, i))
      PROVE  PhaseInv' /\ AcceptsEveryMember'
  <2>1. i \in DOMAIN Members /\ (i = want) \in BOOLEAN
        /\ <<"start", "AssignNode", "built">> \in Script
    BY <1>0 DEF Script
  <2> QED
    BY <1>0, <1>1, <2>1, AssignNodeProceeds, PhaseStep
<1>2. ASSUME Call("Build", want # 0, Build(b))
      PROVE  PhaseInv' /\ AcceptsEveryMember'
  <2>1. (want # 0) \in BOOLEAN
        /\ <<"built", "Build", "built">> \in Script
    BY DEF Script
  <2> QED
    BY <1>2, <2>1, BuildProceeds, PhaseStep
<1>3. CASE "kind" \in case.ways
  <2>1. KindSane(b) /\ held = {} /\ ~Keyed
    BY <1>0, <1>3, TablesFit DEF UnionInv
  <2>2. OwnCall
    BY <2>1 DEF Next, MapCall, MemberCall, Begun, KindSane
  <2>3. ASSUME NEW i \in {0} \cup DOMAIN Members, NEW v,
               Call("AssignKind",
                 i = want /\ v = (IF want = 0 THEN "null" ELSE TypeOf(want)),
                 AssignKind(b, i, v))
        PROVE  PhaseInv' /\ AcceptsEveryMember'
    <3> DEFINE fits == i = want /\
                       v = (IF want = 0 THEN "null" ELSE TypeOf(want))
    <3>1. fits \in BOOLEAN /\ <<"start", "AssignKind", "built">> \in Script
      BY DEF Script
    <3>2. Proceeds("AssignKind", "start", "built", fits, AssignKind(b, i, v))
      BY <1>0, <1>3, AssignKindProceeds
    <3>3. Call("AssignKind", fits, AssignKind(b, i, v))
      BY <2>3
    <3> HIDE DEF fits
    <3> QED
      BY <3>1, <3>2, <3>3, PhaseStep
  <2> QED
    BY <1>1, <1>2, <1>3, <2>1, <2>2, <2>3, ResetStarts
       DEF OwnCall, By, Keyed
<1>4. CASE "kind" \notin case.ways
  <2>0. Going
    BY <1>0, <1>4 DEF Going
  <2>1. CASE OwnCall
    <3>1. CASE Call("BeginMap", want # 0, BeginMap(b))
      <4>1. (want # 0) \in BOOLEAN
            /\ <<"start", "BeginMap", "key">> \in Script
        BY DEF Script
      <4> QED
        BY <2>0, <3>1, <4>1, BeginMapProceeds, PhaseStep
    <3>2. CASE Call("AssignNull", want = 0, AssignNull(b))
      <4>1. (want = 0) \in BOOLEAN
            /\ <<"start", "AssignNull", "built">> \in Script
        BY DEF Script
      <4> QED
        BY <2>0, <3>2, <4>1, AssignNullProceeds, PhaseStep
    <3>3. ASSUME NEW e, By("foreign"),
                 Call("AssignForeign",
                      want # 0 /\ e = <<Entry(Key, TypeOf(want))>>,
                      AssignForeign(b, e))
          PROVE  PhaseInv' /\ AcceptsEveryMember'
      <4> DEFINE fits == want # 0 /\ e = <<Entry(Key, TypeOf(want))>>
      <4>1. fits \in BOOLEAN
            /\ <<"start", "AssignForeign", "built">> \in Script
        BY DEF Script
      <4>2. Proceeds("AssignForeign", "start", "built", fits,
                     AssignForeign(b, e))
        BY <2>0, <3>3, AssignForeignProceeds DEF By
      <4>3. Call("AssignForeign", fits, AssignForeign(b, e))
        BY <3>3
      <4> HIDE DEF fits
      <4> QED
        BY <4>1, <4>2, <4>3, PhaseStep
    <3> QED
      BY <1>1, <1>2, <1>4, <2>1, <3>1, <3>2, <3>3, ResetStarts
         DEF OwnCall, By
  <2>2. CASE MapCall
    <3>0. Begun
      BY <2>2 DEF MapCall
    <3>1. ASSUME NEW k, By("entry"),
                 Call("AssembleEntry", k = Key, AssembleEntry(b, k))
          PROVE  PhaseInv' /\ AcceptsEveryMember'
      <4>1. (k = Key) \in BOOLEAN
            /\ <<"key", "AssembleEntry", "member">> \in Script
        BY DEF Script
      <4> QED
        BY <2>0, <3>0, <3>1, <4>1, AssembleEntryProceeds, PhaseStep DEF By
    <3>2. ASSUME NEW k, By("keyvalue"),
                 Call("KeyAssignString", k = Key, KeyAssignString(b, k))
          PROVE  PhaseInv' /\ AcceptsEveryMember'
      <4>1. (k = Key) \in BOOLEAN
            /\ <<"name", "KeyAssignString", "value">> \in Script
        BY DEF Script
      <4> QED
        BY <2>0, <3>0, <3>2, <4>1, KeyAssignStringProceeds, PhaseStep DEF By
    <3>3. CASE By("keyvalue") /\ Call("AssembleValue", TRUE, AssembleValue(b))
      <4>1. <<"value", "AssembleValue", "member">> \in Script
        BY DEF Script
      <4> QED
        BY <2>0, <3>0, <3>3, <4>1, AssembleValueProceeds, PhaseStep DEF By
    <3>4. CASE Call("AssembleKey", TRUE, AssembleKey(b))
      <4>1. <<"key", "AssembleKey", "name">> \in Script
        BY DEF Script
      <4> QED
        BY <2>0, <3>4, <4>1, AssembleKeyProceeds, PhaseStep
    <3>5. CASE Call("Finish", TRUE, Finish(b))
      <4>1. <<"end", "Finish", "built">> \in Script
        BY DEF Script
      <4> QED
        BY <2>0, <3>0, <3>5, <4>1, FinishProceeds, PhaseStep
    <3> QED
      BY <2>2, <3>1, <3>2, <3>3, <3>4, <3>5 DEF MapCall
  <2>3. CASE MemberCall
    <3>1. ASSUME NEW i \in held, NEW v,
                 Call("MemberAssign", want # 0 /\ v = TypeOf(want),
                      MemberAssign(b, i, v))
          PROVE  PhaseInv' /\ AcceptsEveryMember'
      <4> DEFINE fits == want # 0 /\ v = TypeOf(want)
      <4>1. fits \in BOOLEAN
            /\ <<"member", "MemberAssign", "end">> \in Script
        BY DEF Script
      <4>2. Proceeds("MemberAssign", "member", "end", fits,
                     MemberAssign(b, i, v))
        BY <2>0, MemberAssignProceeds
      <4>3. Call("MemberAssign", fits, MemberAssign(b, i, v))
        BY <3>1
      <4> HIDE DEF fits
      <4> QED
        BY <4>1, <4>2, <4>3, PhaseStep
    <3> QED
      BY <2>3, <3>1 DEF MemberCall
  <2> QED
    BY <2>1, <2>2, <2>3 DEF Next
<1> QED
  BY <1>3, <1>4

LEMMA AlwaysPhaseInv ==
    ASSUME \A c \in Cases : Working(c)
    PROVE  Spec => [](UnionInv /\ PhaseInv /\ AcceptsEveryMember)
<1>1. \A c \in Cases : Sound(c)
  BY DEF Working
<1>2. Init => PhaseInv /\ AcceptsEveryMember
  BY FreshStarted DEF Init, PhaseInv, AcceptsEveryMember
<1>3. PhaseInv /\ AcceptsEveryMember /\ UNCHANGED vars =>
          PhaseInv' /\ AcceptsEveryMember'
  BY DEF vars, AcceptsEveryMember, PhaseInv, Here, Placed, Started, AtKey,
     AtName, AtValue, AtMember, AtEnd, IsBuilt, Untouched, Open, Ready, TypeOf,
     Members
<1>4. UnionInv /\ PhaseInv /\ AcceptsEveryMember /\ [Next]_vars =>
          PhaseInv' /\ AcceptsEveryMember'
  BY <1>3, NextKeepsPhaseInv
<1>5. Spec => []UnionInv
  BY <1>1, AlwaysUnionInv
<1> QED
  BY <1>2, <1>4, <1>5, PTL DEF Spec

(* A caller that goes a way that works and gets through finds the member   *)
(* it wanted and no other, by every reader of the node and of its          *)
(* representation, whatever calls of its were refused on the way.          *)
THEOREM UnionsReadBack ==
    ASSUME \A c \in Cases : Working(c) PROVE Spec => []ReadsBack
  BY AlwaysPhaseInv, BuiltReadsBack, PTL

(* By a way that works every member of the schema, and null behind a       *)
(* pointer, can be assembled: no refused call before makes the right one   *)
(* fail.                                                                   *)
THEOREM EveryMemberIsAccepted ==
    ASSUME \A c \in Cases : Working(c) PROVE Spec => []AcceptsEveryMember
  BY AlwaysPhaseInv, PTL
===========================================================================
