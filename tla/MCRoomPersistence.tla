------------------------- MODULE MCRoomPersistence -------------------------
(***************************************************************************)
(* TLC instances of RoomPersistence: the empty text, a short one and a     *)
(* longer one, and the keys in directory order.                            *)
(***************************************************************************)
EXTENDS RoomPersistence

CONSTANTS empty, a, b, k1, k2, h1

MCText == {empty, a, b}
MCTextLen == [t \in MCText |-> IF t = empty THEN 0 ELSE IF t = a THEN 1 ELSE 2]
MCKnows == [h \in Handler |-> Password]
OneKey == <<k1>>
TwoKeys == <<k1, k2>>
=============================================================================
