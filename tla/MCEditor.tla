------------------------------ MODULE MCEditor ------------------------------
(***************************************************************************)
(* TLC instances of Editor.                                                *)
(***************************************************************************)
EXTENDS Editor

NoDraft == {<< >>}
=============================================================================
