------------------------- MODULE MCStructAssembler -------------------------
(* Two plain fields, so that a stale handle of one meets the entry of the  *)
(* other, and a nullable one; two values, so that an overwrite shows.      *)
EXTENDS StructAssembler
CONSTANTS ParentCID, Number, BaseFee, v1, v2
MCFields == {ParentCID, Number, BaseFee}
MCNullable == {BaseFee}
MCValues == {v1, v2}
=============================================================================
