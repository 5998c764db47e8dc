------------------------- MODULE MCUnionAssembler -------------------------
(* The unions by the ways that work; the ways of each that do not work;    *)
(* and two ways that do not go together.                                   *)
EXTENDS UnionAssembler
Null(p) == IF p = "pointer" THEN {0} ELSE {}
Case(u, l, p, w) == [union |-> u, level |-> l, place |-> p, ways |-> w,
                     wants |-> DOMAIN Unions[u] \cup Null(p)]
Kinded(p, wants) == [union |-> "Child", level |-> "repr", place |-> p,
                     ways |-> {"kind", "copy"}, wants |-> wants]
MCWorking ==
    {Case(u, "type", "alone", {"entry", "keyvalue", w}) :
            u \in {"Value", "TrieNode"}, w \in {"copy", "foreign"}} \cup
    {Case("Child", "type", "alone", {"keyvalue", w}) : w \in {"copy", "foreign"}} \cup
    {Case("Value", "type", "pointer", {"entry", "keyvalue", "copy"}),
     Case("Child", "type", "pointer", {"keyvalue", "copy"}),
     Case("Value", "repr", "alone", {"entry", "copy"}),
     Case("Value", "repr", "pointer", {"entry", "copy"}),
     Case("TrieNode", "repr", "alone", {"entry", "copy"})} \cup
    {Kinded(p, {Link}) : p \in {"alone", "pointer"}}

MCChildEntry == {Case("Child", "type", "alone", {"entry"})}
MCReprKeyValue == {Case(u, "repr", "alone", {"keyvalue"}) :
                      u \in {"TrieNode", "Value"}}
MCForeignChild == {Case("Child", "type", "pointer", {"foreign"})}
MCKindedMap == {Kinded("alone", {TrieNode})}
MCKindedNull == {Kinded("pointer", {0})}
MCNotWorking == MCChildEntry \cup MCReprKeyValue \cup MCForeignChild
                \cup MCKindedMap \cup MCKindedNull

MCCopyThenForeign == {Case("Value", "type", "alone", {"copy", "foreign"})}
============================================================================
