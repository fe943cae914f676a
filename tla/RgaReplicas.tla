---------------------------- MODULE RgaReplicas ----------------------------
(***************************************************************************)
(* Replicas of one document that edit concurrently and exchange batches    *)
(* of operations.  This is the situation the realtime protocol relies on   *)
(* (internal/crdt/converge_test.go): any delivery order in which an        *)
(* insert follows its parent and a delete follows its target, with         *)
(* batches delivered again at will.                                        *)
(*                                                                         *)
(* A local edit replaces the visible text, as static/app.js does from the  *)
(* textarea, and sends the batch diffToOps computes.                       *)
(***************************************************************************)
EXTENDS Rga

CONSTANTS Site,       \* the replicas, each its own site
          Text,       \* the texts a user may leave in the textarea
          MaxBatches  \* bound: edits in a behaviour

\* The characters of the texts.
Chars == UNION {ToSet(t) : t \in Text}

ASSUME SiteAssumption == Site \subseteq Nat \ {0}
ASSUME TextAssumption == Text \subseteq Seq(Chars)

VARIABLES doc,      \* doc[s]: the document of replica s
          batches,  \* the batches sent so far, in the order of sending
          got       \* got[s]: the indices of the batches s has applied

vars == <<doc, batches, got>>

Init ==
    /\ doc = [s \in Site |-> NewDoc]
    /\ batches = << >>
    /\ got = [s \in Site |-> {}]

\* bumpClockFromDoc: a fresh identifier outranks every clock in the document.
\* Mutant: a site counts its own identifiers only.
OwnClock(s) == MaxOf({id.clock : id \in {i \in Known(doc[s]) : i.site = s}} \cup {0})

ClockStart(s) == MaxClock(doc[s])

\* applyLocalText
Diff(s, new) ==
    DiffToOps(VisibleIDs(doc[s]), Materialize(doc[s]), new, s, ClockStart(s))

EditText(s, new) ==
    /\ Len(batches) < MaxBatches
    /\ LET ops == Diff(s, new)
       IN  /\ ops # << >>
           /\ doc' = [doc EXCEPT ![s] = ApplyBatch(@, ops).doc]
           /\ batches' = Append(batches, ops)
    /\ got' = [got EXCEPT ![s] = @ \cup {Len(batches) + 1}]

\* The causal order the tests call topological: parents before their
\* children, targets before their deletes, within the batch or before it.
Ready(d, ops) ==
    \A i \in DOMAIN ops :
        LET known == Known(d) \cup {Root} \cup {ops[j].id : j \in 1 .. (i - 1)}
        IN  IF ops[i].op = "ins" THEN ops[i].after \in known ELSE ops[i].id \in known

Deliver(s, b) ==
    /\ Ready(doc[s], batches[b])
    /\ doc' = [doc EXCEPT ![s] = ApplyBatch(@, batches[b]).doc]
    /\ got' = [got EXCEPT ![s] = @ \cup {b}]
    /\ UNCHANGED batches

Next ==
    \/ \E s \in Site, new \in Text : EditText(s, new)
    \/ \E s \in Site, b \in DOMAIN batches : Deliver(s, b)

Spec == Init /\ [][Next]_vars

-----------------------------------------------------------------------------
(* Properties *)

\* Strong convergence: replicas that have applied the same set of batches, in
\* whatever orders and however often, hold the same items in the same tree
\* (Doc.Insert and Doc.Delete are idempotent and commute when causally ready).
Convergence ==
    \A s, t \in Site : got[s] = got[t] => doc[s] = doc[t]

\* All replicas order the characters they share in the same way, also while
\* they still miss some of each other's batches and whatever is tombstoned:
\* no later operation ever makes two characters change places (CompareSibling
\* and the traversal of Doc.walk).
OneOrder ==
    \A v, w \in {Walk(doc[s]) : s \in Site} :
        \A i, j \in DOMAIN v : i < j =>
            ~ \E k, l \in DOMAIN w : k < l /\ w[k] = v[j] /\ w[l] = v[i]

\* An edit shows its author exactly what was typed: the batch diffToOps makes
\* of any document and any new text is accepted whole and materializes to
\* that text, although the inserted chain competes with older siblings,
\* tombstones and the subtrees below them (the Lamport rule above
\* CompareSibling).
EditShowsText ==
    \A s \in Site, new \in Text :
        LET ops == Diff(s, new)
            res == ApplyBatch(doc[s], ops)
        IN  ops # << >> => res.ok /\ Materialize(res.doc) = new

\* A document sent or stored as its text and a site, or as its items in document
\* order, is rebuilt exactly, the order of the children included (Doc.linearChain
\* and buildFromString, Doc.toItems and fromItems).
SnapshotsLossless ==
    \A s \in Site :
        /\ FromItems(Items(doc[s])) = doc[s]
        /\ \A site \in LinearSites(doc[s]) : BuildFromString(site, Materialize(doc[s])) = doc[s]
=============================================================================
