--------------------------- MODULE MCConnections ---------------------------
(***************************************************************************)
(* The TLC instance of Connections: two connections of one browser, as     *)
(* when it reconnects before the old connection has ended.                 *)
(***************************************************************************)
EXTENDS Connections, TLC

CONSTANTS c1, c2, w, here

OneOwner == [c \in Conn |-> w]
OneAddress == [c \in Conn |-> here]
Symmetry == Permutations(Conn)
=============================================================================
