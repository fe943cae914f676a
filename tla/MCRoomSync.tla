----------------------------- MODULE MCRoomSync -----------------------------
(***************************************************************************)
(* TLC instances of RoomSync.                                              *)
(***************************************************************************)
EXTENDS RoomSync
=============================================================================
