---------------------------- MODULE MCRoomStore ----------------------------
(***************************************************************************)
(* TLC instances of RoomStore: one room, the empty text and two texts of   *)
(* one character.  The caps are met in the instances of RoomPersistence.   *)
(***************************************************************************)
EXTENDS RoomStore, TLC

CONSTANTS empty, a, b, h1, h2, secret1, secret2

MCTextLen == [t \in {empty, a, b} |-> IF t = empty THEN 0 ELSE 1]

\* Each handler's client knows one of the two passwords, or none exists.
MCKnows == [h \in Handler |-> IF h = h1 THEN Password \cap {secret1} ELSE Password \cap {secret2}]

\* The texts of one character are interchangeable.
TextSymmetry == Permutations({a, b})
=============================================================================
