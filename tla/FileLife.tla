------------------------------ MODULE FileLife ------------------------------
(***************************************************************************)
(* What the store promises of the files of a room, without its disk, its   *)
(* mutex and its index: the life of a file, from its upload until nothing  *)
(* of it is left.  FileStore implements it.                                *)
(***************************************************************************)
CONSTANT File

VARIABLES
    stage,   \* stage[f]: where f is in its life
    over     \* listed files whose lifetime is over

vars == <<stage, over>>

\* A deletion of the room may cut an upload that was about to be listed: its data
\* is gone, and if it goes on it is listed hollow.
Stage == {"new", "storing", "cut", "listed", "hollow", "leaving", "gone"}
Listed == {"listed", "hollow"}

Init ==
    /\ stage = [f \in File |-> "new"]
    /\ over = {}

\* A lifetime that is over stays so.
Lifetimes ==
    /\ over' \subseteq {f \in File : stage'[f] \in Listed}
    /\ \A f \in over : stage'[f] \in Listed => f \in over'

Store(f) ==
    /\ stage[f] = "new"
    /\ stage' = [stage EXCEPT ![f] = "storing"]

Fail(f) ==
    /\ stage[f] \in {"storing", "cut"}
    /\ stage' = [stage EXCEPT ![f] = "gone"]

\* Uploads are listed and listed files leave, none before the last are gone.
Change ==
    \A f \in File :
        /\ stage[f] # "leaving"
        /\ stage'[f] \in CASE stage[f] \in Listed -> {stage[f], "leaving"}
                           [] stage[f] = "storing" -> {"storing", "listed"}
                           [] stage[f] = "cut" -> {"cut", "hollow"}
                           [] stage[f] \in {"new", "gone"} -> {stage[f]}

Remove(f) ==
    /\ stage[f] = "leaving"
    /\ stage' = [stage EXCEPT ![f] = "gone"]

Cut ==
    \A f \in File :
        stage'[f] \in IF stage[f] = "storing" THEN {"storing", "cut"} ELSE {stage[f]}

\* A crash keeps what is listed and lives; what is on its way in or out is listed
\* or gone; nothing that is gone returns, and nothing hollow stays.
Crash ==
    \A f \in File :
        stage'[f] \in CASE stage[f] \in {"new", "gone"} -> {stage[f]}
                        [] stage[f] \in {"cut", "hollow"} -> {"gone"}
                        [] stage[f] = "listed" -> IF f \in over THEN {"gone"} ELSE {"listed"}
                        [] stage[f] \in {"storing", "leaving"} -> {"listed", "gone"}

Age == stage' = stage

Next ==
    /\ stage' \in [File -> Stage]
    /\ Lifetimes
    /\ Age \/ Change \/ Cut \/ Crash \/ \E f \in File : Store(f) \/ Fail(f) \/ Remove(f)

Spec == Init /\ [][Next]_vars
=============================================================================
