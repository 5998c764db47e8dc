---------------------------- MODULE ListBuilder ----------------------------
(***************************************************************************)
(* What a list builder promises its caller: elements are added at the end, *)
(* each of them whole; nothing that was added changes; the list is sealed  *)
(* once, and a sealed list stays as it is until the builder is cleared.    *)
(***************************************************************************)
EXTENDS Sequences

CONSTANTS Elements   \* the complete values of the element type

VARIABLES list, sealed
vars == <<list, sealed>>

Init == list = << >> /\ sealed = FALSE

Add(e) == ~sealed /\ list' = Append(list, e) /\ UNCHANGED sealed

Seal == ~sealed /\ sealed' = TRUE /\ UNCHANGED list

(* In place of what an attempt that failed left. *)
AssignWhole(l) == ~sealed /\ list' = l /\ sealed' = TRUE

Clear == list' = << >> /\ sealed' = FALSE

Next == \/ \E e \in Elements : Add(e)
        \/ Seal
        \/ list' \in Seq(Elements) /\ AssignWhole(list')
        \/ Clear

Spec == Init /\ [][Next]_vars
=============================================================================
