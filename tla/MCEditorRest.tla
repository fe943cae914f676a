---------------------------- MODULE MCEditorRest ----------------------------
(***************************************************************************)
(* TLC instances of EditorRest.                                            *)
(***************************************************************************)
EXTENDS EditorRest

NoDraft == {<< >>}
=============================================================================
