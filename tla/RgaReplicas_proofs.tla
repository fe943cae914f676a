------------------------- MODULE RgaReplicas_proofs -------------------------
(***************************************************************************)
(* Replicas converge, whatever the texts, the number of sites and of       *)
(* batches, and the order in which batches arrive.                         *)
(*                                                                         *)
(* The inductive invariant says that the batches a replica has applied     *)
(* describe its document: what is known is what they insert, as they       *)
(* insert it, and buried when one of them deletes it.  No identifier is    *)
(* inserted twice, because whoever creates one knows all that it created   *)
(* before and counts above it.  A document is given by its items, since    *)
(* the order of siblings is total.                                         *)
(***************************************************************************)
EXTENDS RgaReplicas, Rga_proofs

OpsOf(G) == UNION {ToSet(batches[b]) : b \in G}
Sent == OpsOf(DOMAIN batches)

TypeInv ==
    /\ doc \in [Site -> Doc(Chars)]
    /\ batches \in Seq(Seq(Op(Chars)))
    /\ got \in [Site -> SUBSET DOMAIN batches]

Described == \A s \in Site : Describes(OpsOf(got[s]), doc[s])

\* Whoever created a character knows it.
AuthorKnows ==
    \A op \in Sent : op.op = "ins" => op.id.site \in Site /\ op.id \in Known(doc[op.id.site])

InsertedOnce ==
    \A o, p \in Sent : o.op = "ins" /\ p.op = "ins" /\ o.id = p.id => o = p

Inv == TypeInv /\ Described /\ AuthorKnows /\ InsertedOnce

LEMMA InitInv == Init => Inv
<1> SUFFICES ASSUME Init PROVE Inv
  OBVIOUS
<1>1. NewDoc \in Doc(Chars) /\ Known(NewDoc) = {}
  BY NewDocIsDoc
<1>2. DOMAIN batches = {} /\ Sent = {} /\ \A s \in Site : got[s] = {} /\ OpsOf(got[s]) = {}
  BY DEF Init, Sent, OpsOf
<1>3. TypeInv
  <2>1. << >> \in Seq(Seq(Op(Chars)))  OBVIOUS
  <2>2. QED BY <1>1, <2>1 DEF Init, TypeInv
<1>4. Described
  <2>1. \A s \in Site : doc[s] = NewDoc  BY DEF Init
  <2>2. Describes({}, NewDoc)  BY <1>1 DEF Describes
  <2>3. QED BY <1>2, <2>1, <2>2 DEF Described
<1>5. QED BY <1>2, <1>3, <1>4 DEF Inv, AuthorKnows, InsertedOnce

\* What was sent stays what it is when a batch is appended.
LEMMA SentBefore ==
    ASSUME NEW B \in Seq(Seq(Op(Chars))), NEW ops \in Seq(Op(Chars))
    PROVE  /\ Append(B, ops) \in Seq(Seq(Op(Chars)))
           /\ DOMAIN B = 1 .. Len(B) /\ Len(B) \in Nat
           /\ DOMAIN Append(B, ops) = DOMAIN B \cup {Len(B) + 1}
           /\ \A b \in DOMAIN B : Append(B, ops)[b] = B[b]
           /\ Append(B, ops)[Len(B) + 1] = ops
<1> DEFINE S == Seq(Op(Chars))
<1>1. B \in Seq(S) /\ ops \in S  OBVIOUS
<1> HIDE DEF S
<1>2. /\ Append(B, ops) \in Seq(S) /\ Len(Append(B, ops)) = Len(B) + 1
      /\ \A b \in 1 .. Len(B) : Append(B, ops)[b] = B[b]
      /\ Append(B, ops)[Len(B) + 1] = ops
      /\ Len(B) \in Nat /\ DOMAIN B = 1 .. Len(B) /\ DOMAIN Append(B, ops) = 1 .. Len(B) + 1
  BY <1>1
<1>3. 1 .. Len(B) + 1 = (1 .. Len(B)) \cup {Len(B) + 1}  BY <1>2
<1>4. QED BY <1>2, <1>3 DEF S

LEMMA EditKeeps ==
    ASSUME Inv, NEW s \in Site, NEW new \in Text, EditText(s, new)
    PROVE  Inv'
<1> DEFINE d == doc[s]
           ops == Diff(s, new)
           e == ApplyBatch(d, ops).doc
           n == Len(batches) + 1
<1>1. d \in Doc(Chars) /\ new \in Seq(Chars) /\ s \in Nat \ {0} /\ batches \in Seq(Seq(Op(Chars)))
  BY SiteAssumption, TextAssumption DEF Inv, TypeInv
<1>2. /\ doc' = [doc EXCEPT ![s] = e] /\ batches' = Append(batches, ops)
      /\ got' = [got EXCEPT ![s] = @ \cup {n}]
  BY DEF EditText
<1>3. ops \in Seq(Op(Chars)) /\ Fitting(d, ops, s)
  <2>1. ops = EditOps(d, new, s)  BY DEF Diff, EditOps, ClockStart
  <2> HIDE DEF ops, d
  <2>2. QED BY <1>1, <2>1, EditFits
<1> HIDE DEF ops, d
<1>4. Describes(OpsOf(got[s]), d)  BY DEF Inv, Described, d
<1>5. /\ e \in Doc(Chars) /\ Describes(OpsOf(got[s]) \cup ToSet(ops), e)
      /\ Known(d) \subseteq Known(e)
  <2>1. \A i \in DOMAIN ops : FollowsIn(d, ops, i)  BY <1>3 DEF Fitting
  <2>2. QED BY <1>1, <1>3, <1>4, <2>1, BatchDescribes
<1> HIDE DEF e
<1>6. /\ batches' \in Seq(Seq(Op(Chars)))
      /\ DOMAIN batches' = DOMAIN batches \cup {n} /\ n \notin DOMAIN batches
      /\ \A b \in DOMAIN batches : batches'[b] = batches[b]
      /\ batches'[n] = ops
  <2>1. DOMAIN batches = 1 .. Len(batches) /\ Len(batches) \in Nat  BY <1>1
  <2>2. n \notin DOMAIN batches  BY <2>1
  <2>3. /\ Append(batches, ops) \in Seq(Seq(Op(Chars)))
        /\ DOMAIN Append(batches, ops) = DOMAIN batches \cup {Len(batches) + 1}
        /\ \A b \in DOMAIN batches : Append(batches, ops)[b] = batches[b]
        /\ Append(batches, ops)[Len(batches) + 1] = ops
    BY <1>1, <1>3, SentBefore
  <2>4. QED BY <1>2, <2>2, <2>3
<1> HIDE DEF n
<1>7. /\ got \in [Site -> SUBSET DOMAIN batches] /\ doc \in [Site -> Doc(Chars)]
      /\ \A t \in Site : got'[t] = IF t = s THEN got[s] \cup {n} ELSE got[t]
      /\ \A t \in Site : doc'[t] = IF t = s THEN e ELSE doc[t]
  BY <1>2 DEF Inv, TypeInv
<1>8. \A G \in SUBSET DOMAIN batches : /\ OpsOf(G)' = OpsOf(G)
                                       /\ UNION {ToSet(batches'[b]) : b \in G} = OpsOf(G)
  BY <1>6 DEF OpsOf
<1>9. \A t \in Site : OpsOf(got[t])' = IF t = s THEN OpsOf(got[s]) \cup ToSet(ops) ELSE OpsOf(got[t])
  BY <1>6, <1>7 DEF OpsOf
<1>10. Sent' = Sent \cup ToSet(ops)
  BY <1>6 DEF Sent, OpsOf
<1>11. TypeInv'
  BY <1>2, <1>5, <1>6, <1>7 DEF TypeInv
<1>12. Described'
  BY <1>5, <1>7, <1>9 DEF Inv, Described
<1>13. ASSUME NEW i \in DOMAIN ops, ops[i].op = "ins"
       PROVE  ops[i].id.site = s /\ ops[i].id \in Known(e) /\ ops[i].id \notin Known(d)
  <2>1. ops[i].id.site = s /\ ops[i].id.clock > MaxClock(d)  BY <1>3, <1>13 DEF Fitting
  <2>2. ops[i].id \in Known(e)
    <3>1. ops[i] \in ToSet(ops)  BY <1>13 DEF ToSet
    <3>2. QED BY <1>5, <3>1 DEF Describes
  <2>3. ops[i].id \notin Known(d)
    <3>1. MaxClock(d) \in Nat /\ \A id \in Known(d) : id.clock <= MaxClock(d)  BY <1>1, DocIsTree, MaxClockIs
    <3>2. ops[i].id.clock \in Nat
      <4>1. ops[i] \in Op(Chars)  BY <1>3
      <4>2. QED BY <4>1 DEF Op, Id
    <3>3. QED BY <2>1, <3>1, <3>2
  <2>4. QED BY <2>1, <2>2, <2>3
<1>14. \A op \in ToSet(ops) : op.op = "ins" =>
          op.id.site = s /\ op.id \in Known(e) /\ op.id \notin Known(d)
  BY <1>13 DEF ToSet
<1>15. AuthorKnows'
  <2> SUFFICES ASSUME NEW op \in Sent', op.op = "ins"
               PROVE  op.id.site \in Site /\ op.id \in Known(doc'[op.id.site])
    BY DEF AuthorKnows, Known
  <2>1. CASE op \in ToSet(ops)  BY <2>1, <1>14, <1>7
  <2>2. CASE op \in Sent
    <3>1. op.id.site \in Site /\ op.id \in Known(doc[op.id.site])  BY <2>2 DEF Inv, AuthorKnows
    <3>2. QED BY <3>1, <1>5, <1>7 DEF d
  <2>3. QED BY <2>1, <2>2, <1>10
<1>16. InsertedOnce'
  <2> SUFFICES ASSUME NEW o \in Sent', NEW p \in Sent', o.op = "ins", p.op = "ins", o.id = p.id
               PROVE  o = p
    BY DEF InsertedOnce
  <2>1. \A x \in ToSet(ops), y \in Sent : x.op = "ins" /\ y.op = "ins" => x.id # y.id
    <3> SUFFICES ASSUME NEW x \in ToSet(ops), NEW y \in Sent, x.op = "ins", y.op = "ins", x.id = y.id
                 PROVE  FALSE
      OBVIOUS
    <3>1. y.id \in Known(doc[y.id.site])  BY DEF Inv, AuthorKnows
    <3>2. QED BY <1>14, <3>1 DEF d
  <2>2. CASE o \in Sent /\ p \in Sent  BY <2>2 DEF Inv, InsertedOnce
  <2>3. CASE o \in ToSet(ops) /\ p \in ToSet(ops)
    <3>1. PICK i \in DOMAIN ops, j \in DOMAIN ops : o = ops[i] /\ p = ops[j]  BY <2>3 DEF ToSet
    <3>2. QED BY <1>3, <3>1 DEF Fitting
  <2>4. QED BY <1>10, <2>1, <2>2, <2>3
<1>17. QED BY <1>11, <1>12, <1>15, <1>16 DEF Inv

LEMMA DeliverKeeps ==
    ASSUME Inv, NEW s \in Site, NEW b \in DOMAIN batches, Deliver(s, b)
    PROVE  Inv'
<1> DEFINE d == doc[s]
           ops == batches[b]
           e == ApplyBatch(d, ops).doc
<1>1. d \in Doc(Chars) /\ ops \in Seq(Op(Chars))
  BY DEF Inv, TypeInv
<1>2. /\ doc' = [doc EXCEPT ![s] = e] /\ batches' = batches
      /\ got' = [got EXCEPT ![s] = @ \cup {b}] /\ Ready(d, ops)
  BY DEF Deliver
<1>3. /\ got \in [Site -> SUBSET DOMAIN batches] /\ doc \in [Site -> Doc(Chars)]
      /\ \A t \in Site : got'[t] = IF t = s THEN got[s] \cup {b} ELSE got[t]
      /\ \A t \in Site : doc'[t] = IF t = s THEN e ELSE doc[t]
  BY <1>2 DEF Inv, TypeInv
<1>4. Describes(OpsOf(got[s]), d)  BY DEF Inv, Described
<1>5. \A t \in Site : OpsOf(got[t])' = IF t = s THEN OpsOf(got[s]) \cup ToSet(ops) ELSE OpsOf(got[t])
  BY <1>2, <1>3 DEF OpsOf
<1>6. Sent' = Sent
  BY <1>2 DEF Sent, OpsOf
<1> HIDE DEF ops, d
<1>7. /\ e \in Doc(Chars) /\ Describes(OpsOf(got[s]) \cup ToSet(ops), e)
      /\ Known(d) \subseteq Known(e)
  <2>1. \A i \in DOMAIN ops : FollowsIn(d, ops, i)  BY <1>2 DEF Ready, FollowsIn
  <2>2. QED BY <1>1, <1>4, <2>1, BatchDescribes
<1> HIDE DEF e
<1>8. TypeInv'
  BY <1>2, <1>3, <1>7 DEF Inv, TypeInv
<1>9. Described'
  BY <1>3, <1>5, <1>7 DEF Inv, Described
<1>10. AuthorKnows'
  <2> SUFFICES ASSUME NEW op \in Sent, op.op = "ins"
               PROVE  op.id.site \in Site /\ op.id \in Known(doc'[op.id.site])
    BY <1>6 DEF AuthorKnows, Known
  <2>1. op.id.site \in Site /\ op.id \in Known(doc[op.id.site])  BY DEF Inv, AuthorKnows
  <2>2. QED BY <2>1, <1>3, <1>7 DEF d
<1>11. InsertedOnce'
  BY <1>6 DEF Inv, InsertedOnce
<1>12. QED BY <1>8, <1>9, <1>10, <1>11 DEF Inv

LEMMA StutterKeeps == Inv /\ UNCHANGED vars => Inv'
BY DEF Inv, vars, TypeInv, Described, AuthorKnows, InsertedOnce, Sent, OpsOf

\* The batches a replica has applied describe its document.
THEOREM ReplicasInvariant == Spec => []Inv
<1>1. Inv /\ [Next]_vars => Inv'
  BY EditKeeps, DeliverKeeps, StutterKeeps DEF Next
<1>2. QED BY InitInv, <1>1, PTL DEF Spec

\* Strong convergence: replicas that have applied the same set of batches, in whatever
\* orders and however often, hold the same document (Doc.Insert and Doc.Delete).
THEOREM ReplicasConverge == Spec => []Convergence
<1>1. Inv => Convergence
  <2> SUFFICES ASSUME Inv, NEW s \in Site, NEW t \in Site, got[s] = got[t]
               PROVE  doc[s] = doc[t]
    BY DEF Convergence
  <2>1. doc[s] \in Doc(Chars) /\ doc[t] \in Doc(Chars) /\ got[s] \in SUBSET DOMAIN batches
    BY DEF Inv, TypeInv
  <2>2. Describes(OpsOf(got[s]), doc[s]) /\ Describes(OpsOf(got[s]), doc[t])
    BY DEF Inv, Described
  <2>3. OpsOf(got[s]) \subseteq Sent  BY <2>1 DEF Sent, OpsOf
  <2>4. \A o, p \in OpsOf(got[s]) : o.op = "ins" /\ p.op = "ins" /\ o.id = p.id => o = p
    BY <2>3 DEF Inv, InsertedOnce
  <2>5. QED BY <2>1, <2>2, <2>4, DescribedOnce
<1>2. QED BY <1>1, ReplicasInvariant, PTL

\* Two replicas that know a character have put it under the same parent.
LEMMA SameParents ==
    ASSUME Inv, NEW s \in Site, NEW t \in Site, NEW k \in Known(doc[s]) \cap Known(doc[t])
    PROVE  Parent(doc[s], k) = Parent(doc[t], k)
<1>1. got[s] \in SUBSET DOMAIN batches /\ got[t] \in SUBSET DOMAIN batches
  BY DEF Inv, TypeInv
<1>2. OpsOf(got[s]) \subseteq Sent /\ OpsOf(got[t]) \subseteq Sent
  BY <1>1 DEF Sent, OpsOf
<1>3. PICK o \in OpsOf(got[s]) : o.op = "ins" /\ o.id = k /\ o.after = doc[s].items[k].after
  BY DEF Inv, Described, Describes
<1>4. PICK p \in OpsOf(got[t]) : p.op = "ins" /\ p.id = k /\ p.after = doc[t].items[k].after
  BY DEF Inv, Described, Describes
<1>5. o = p
  BY <1>2, <1>3, <1>4 DEF Inv, InsertedOnce
<1>6. QED BY <1>3, <1>4, <1>5 DEF Parent

\* All replicas order the characters they share in the same way, also while they miss
\* some of each other's batches: no later operation makes two characters change places
\* (CompareSibling and the traversal of Doc.walk).
THEOREM ReplicasOneOrder == Spec => []OneOrder
<1>1. Inv => OneOrder
  <2> SUFFICES ASSUME Inv, NEW s \in Site, NEW t \in Site,
                      NEW i \in DOMAIN Walk(doc[s]), NEW j \in DOMAIN Walk(doc[s]), i < j,
                      NEW k \in DOMAIN Walk(doc[t]), NEW l \in DOMAIN Walk(doc[t]), k < l,
                      Walk(doc[t])[k] = Walk(doc[s])[j], Walk(doc[t])[l] = Walk(doc[s])[i]
               PROVE  FALSE
    BY DEF OneOrder
  <2> DEFINE v == Walk(doc[s])
             w == Walk(doc[t])
  <2>1. doc[s] \in Doc(Chars) /\ doc[t] \in Doc(Chars)  BY DEF Inv, TypeInv
  <2>2. Traverses(v, doc[s]) /\ Traverses(w, doc[t])  BY <2>1, WalkTraverses
  <2>3. DOMAIN v = 1 .. Len(v) /\ DOMAIN w = 1 .. Len(w)
    <3>1. v \in Seq(Known(doc[s])) /\ w \in Seq(Known(doc[t]))  BY <2>2 DEF Traverses
    <3> HIDE DEF v, w
    <3>2. QED BY <3>1
  <2>4. i < j /\ k < l /\ w[k] = v[j] /\ w[l] = v[i]  OBVIOUS
  <2>5. \A x \in Known(doc[s]) \cap Known(doc[t]) : Parent(doc[s], x) = Parent(doc[t], x)
    BY SameParents
  <2>6. i \in DOMAIN v /\ j \in DOMAIN v /\ k \in DOMAIN w /\ l \in DOMAIN w  OBVIOUS
  <2> HIDE DEF v, w
  <2>7. Crossing(v, w, v[i], v[j])  BY <2>3, <2>4, <2>6 DEF Crossing
  <2>8. QED BY <2>1, <2>2, <2>5, <2>7, NoCrossing
<1>2. QED BY <1>1, ReplicasInvariant, PTL

\* An edit shows its author exactly what was typed: the batch diffToOps makes of any
\* document and any new text is accepted whole and materializes to that text, although
\* the inserted chain competes with older siblings, tombstones and what hangs below them.
THEOREM EditsShowText == Spec => []EditShowsText
<1>1. Inv => EditShowsText
  <2> SUFFICES ASSUME Inv, NEW s \in Site, NEW new \in Text
               PROVE  ApplyBatch(doc[s], Diff(s, new)).ok
                      /\ Materialize(ApplyBatch(doc[s], Diff(s, new)).doc) = new
    BY DEF EditShowsText
  <2>1. doc[s] \in Doc(Chars) /\ new \in Seq(Chars) /\ s \in Nat \ {0}
    BY SiteAssumption, TextAssumption DEF Inv, TypeInv
  <2>2. Diff(s, new) = EditOps(doc[s], new, s)  BY DEF Diff, EditOps, ClockStart
  <2>3. QED BY <2>1, <2>2, EditShows
<1>2. QED BY <1>1, ReplicasInvariant, PTL

\* A document sent or stored as its text and a site, or as its items in document order, is
\* rebuilt exactly (Doc.linearChain and buildFromString, Doc.toItems and fromItems).
THEOREM SnapshotsRestore == Spec => []SnapshotsLossless
<1>1. Inv => SnapshotsLossless
  <2>1. Inv => \A s \in Site : doc[s] \in Doc(Chars)  BY DEF Inv, TypeInv
  <2>2. QED BY <2>1, ItemsRestored, LinearRestored DEF SnapshotsLossless
<1>2. QED BY <1>1, ReplicasInvariant, PTL
=============================================================================
