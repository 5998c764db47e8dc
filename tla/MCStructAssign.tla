--------------------------- MODULE MCStructAssign ---------------------------
(* A plain and a nullable field; nodes of up to three entries, so that     *)
(* missing, repeated, unknown and ill-typed entries all occur.             *)
EXTENDS StructAssign
CONSTANTS Number, BaseFee, v1
MCFields == {Number, BaseFee}
MCNullable == {BaseFee}
MCValues == {v1}
=============================================================================
