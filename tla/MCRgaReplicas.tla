--------------------------- MODULE MCRgaReplicas ---------------------------
(***************************************************************************)
(* TLC instance of RgaReplicas.  The texts make an edit type at the front, *)
(* in the middle or at the end, delete, clear or replace the text, so that *)
(* three edits of three replicas reach concurrent siblings, tombstoned     *)
(* parents and chains that split.                                          *)
(***************************************************************************)
EXTENDS RgaReplicas

MCText == {<< >>, <<"a">>, <<"a", "b">>, <<"b", "a">>, <<"a", "c", "b">>}
=============================================================================
