-------------------------- MODULE MCListAssembler --------------------------
(* Two elements, so that one inherits what another left; a plain field and *)
(* a nullable one, two values.                                             *)
EXTENDS ListAssembler
CONSTANTS Address, Status, v1, v2
MCFields == {Address, Status}
MCNullable == {Status}
MCValues == {v1, v2}
=============================================================================
