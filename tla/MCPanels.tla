------------------------------ MODULE MCPanels ------------------------------
(***************************************************************************)
(* TLC instances of Panels.                                                *)
(***************************************************************************)
EXTENDS Panels

CONSTANTS p1, p2

Unlocked1 == [pw |-> None, scope |-> ""]
Locked(pw, scope) == [pw |-> pw, scope |-> scope]

Bounds(locks, switches, asks, files, fails, drops) ==
    [locks |-> locks, switches |-> switches, asks |-> asks, files |-> files, fails |-> fails,
     drops |-> drops, polled |-> files > 0 /\ asks = 0]

Begun(locks, open, held, bounds) ==
    {[lock |-> lock, open |-> open, edit |-> edit, left |-> bounds] : lock \in locks, edit \in held}

AnyLock == {Unlocked1} \cup {Locked(pw, scope) : pw \in {p1, p2}, scope \in Scopes}

Clean == {None}
Kept1 == {None, p1}

\* The lock is changed by others; two flows meet; requests and connections are lost;
\* files meet the switch, a failure, and a gate.
Rotated == Begun(AnyLock, FALSE, Kept1, Bounds(1, 0, 1, 0, 0, 0))
Twice == Begun({Unlocked1, Locked(p2, "edit")}, FALSE, {p1}, Bounds(0, 0, 2, 0, 0, 0))
Flaky == Begun(AnyLock, FALSE, Kept1, Bounds(0, 0, 1, 0, 1, 1))
Switched == Begun({Unlocked1}, TRUE, Clean, Bounds(0, 1, 0, 1, 0, 0))
Uploads == Begun({Unlocked1}, FALSE, Clean, Bounds(0, 0, 0, 1, 1, 0))
Gated == Begun({Locked(p1, "view")}, FALSE, Kept1, Bounds(0, 0, 0, 1, 0, 0))

Pasted == Begun({Unlocked1}, TRUE, Clean, Bounds(0, 0, 1, 1, 0, 0))

Cases == Pasted \cup Rotated \cup Twice \cup Flaky \cup Switched \cup Uploads \cup Gated
=============================================================================
