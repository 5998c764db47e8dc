----------------------------- MODULE FieldRows -----------------------------
(***************************************************************************)
(* The rows the tables of the structs are made of.  A row is what one case *)
(* of a switch of the generated code does for one field: which field it is *)
(* about, whether the field has a Maybe of its own (a nullable field) or   *)
(* shares the assembler's, and whether that Maybe holds its value behind a *)
(* pointer (the nullable unions of TrieBranchNode).                        *)
(***************************************************************************)
EXTENDS Naturals, Sequences, TLC

(* Fields of a declaration, with their types. *)
Plain(n, t) == [name |-> n, type |-> t, nullable |-> FALSE]
Maybe(n, t) == [name |-> n, type |-> t, nullable |-> TRUE]

Row(n, own, ptr) == [field |-> n, own |-> own, ptr |-> ptr]

(* The cases of a switch in order; optional are the fields it treats as    *)
(* having their own Maybe.                                                 *)
Rows(names, optional) ==
    [i \in DOMAIN names |-> Row(names[i], names[i] \in optional, FALSE)]
Pointers(names) == [i \in DOMAIN names |-> Row(names[i], TRUE, TRUE)]

(* The cases of valueFinishTidy, by the number of the field.  The case of  *)
(* a field without its own Maybe clears the child assembler's pointer, in  *)
(* the type's assembler; in the representation's it names no field.        *)
Tidy(names, optional) == Rows(names, optional)
TidyPointers(names) == Pointers(names)
NoName == ""
ReprTidy(n, own) ==
    [i \in 1..n |-> IF i - 1 \in DOMAIN own THEN Row(own[i - 1], TRUE, FALSE)
                                            ELSE Row(NoName, FALSE, FALSE)]

(* All tables of one struct's assembler. *)
Assembler(struct, bit, lookup, next, tidy, entry, value, key) ==
    [struct |-> struct, bit |-> bit, lookup |-> lookup, next |-> next,
     tidy |-> tidy, entry |-> entry, value |-> value, key |-> key]
============================================================================
