---------------------------- MODULE MCFileStore ----------------------------
(***************************************************************************)
(* TLC instances of FileStore.                                             *)
(***************************************************************************)
EXTENDS FileStore
=============================================================================
