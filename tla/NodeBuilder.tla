---------------------------- MODULE NodeBuilder ----------------------------
(***************************************************************************)
(* What a node builder promises its caller: fields are filled one at a     *)
(* time, each at most once, null only where the schema allows it; a node   *)
(* is sealed only when every field is filled, and a sealed node never      *)
(* changes until the builder is cleared for the next one.                  *)
(***************************************************************************)
CONSTANTS Fields,    \* the fields of the struct type
          Nullable,  \* those the schema declares nullable
          Values,    \* what a field may hold
          Null       \* the null node

VARIABLES content,   \* the fields filled so far
          sealed     \* the node is finished and may be read
vars == <<content, sealed>>

(* The values field k may be given. *)
Allowed(k) == Values \cup (IF k \in Nullable THEN {Null} ELSE {})

(* Nodes with every field filled. *)
Complete == {c \in [Fields -> Values \cup {Null}] :
                \A k \in Fields : c[k] \in Allowed(k)}

Empty == [k \in {} |-> Null]

Init == content = Empty /\ sealed = FALSE

Put(k, v) == /\ ~sealed
             /\ k \notin DOMAIN content
             /\ v \in Allowed(k)
             /\ content' = [j \in DOMAIN content \cup {k} |->
                               IF j = k THEN v ELSE content[j]]
             /\ UNCHANGED sealed

Seal == /\ ~sealed
        /\ DOMAIN content = Fields
        /\ sealed' = TRUE
        /\ UNCHANGED content

AssignWhole(c) == /\ ~sealed
                  /\ content = Empty
                  /\ content' = c
                  /\ sealed' = TRUE

Clear == content' = Empty /\ sealed' = FALSE

Next == \/ \E k \in Fields, v \in Values \cup {Null} : Put(k, v)
        \/ Seal
        \/ \E c \in Complete : AssignWhole(c)
        \/ Clear

Spec == Init /\ [][Next]_vars
=============================================================================
