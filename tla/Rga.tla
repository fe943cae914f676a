-------------------------------- MODULE Rga --------------------------------
(***************************************************************************)
(* The insert-after sequence CRDT of static/crdt.js and its mirror         *)
(* internal/crdt (Go): identifiers, the tree of items, insert, delete,     *)
(* batches and the document order.  The module is pure: a document is a    *)
(* value.                                                                  *)
(*                                                                         *)
(* An identifier "site:clock" is a record; sites, which the code compares  *)
(* as strings, are natural numbers.  The parent "" of a top-level item is  *)
(* Root.  A character is any value.                                        *)
(***************************************************************************)
EXTENDS Integers, FiniteSets, SequencesExt

Root == [clock |-> 0, site |-> 0]

MaxOf(S) == CHOOSE x \in S : \A y \in S : y <= x

\* Siblings: the newer Lamport clock first, then the smaller site.
SiblingBefore(a, b) ==
    \/ a.clock > b.clock
    \/ a.clock = b.clock /\ a.site < b.site

(***************************************************************************)
(* A document: what is known of each identifier, and the ordered children  *)
(* of each parent.                                                         *)
(***************************************************************************)
NewDoc == [items |-> << >>, children |-> [p \in {Root} |-> << >>]]

Known(d) == DOMAIN d.items

\* insertChild: the first position whose occupant does not come before id.
\* Mutants: appending instead of searching, and a tie left unbroken.
InsertChildAppend(kids, id) == Append(kids, id)

InsertChild(kids, id) ==
    LET before == {i \in DOMAIN kids : SiblingBefore(kids[i], id)}
        i == Cardinality({j \in DOMAIN kids : 1 .. j \subseteq before})
    IN  InsertAt(kids, i + 1, id)

\* A function with an entry more, or another one.
With(f, x, v) == [y \in DOMAIN f \cup {x} |-> IF y = x THEN v ELSE f[y]]

\* Insert: known identifiers change nothing, an unknown parent is an error.
InsertForgetsTombstones(d, id, after, ch) ==
    [doc |-> [items |-> With(d.items, id, [after |-> after, ch |-> ch, del |-> FALSE]),
              children |-> IF id \in Known(d) THEN d.children
                           ELSE With([d.children EXCEPT ![after] = InsertChild(@, id)], id, << >>)],
     ok |-> TRUE]

Insert(d, id, after, ch) ==
    IF id \in Known(d) THEN [doc |-> d, ok |-> TRUE]
    ELSE IF after \notin Known(d) \cup {Root} THEN [doc |-> d, ok |-> FALSE]
    ELSE [doc |-> [items |-> With(d.items, id, [after |-> after, ch |-> ch, del |-> FALSE]),
                   children |-> With([d.children EXCEPT ![after] = InsertChild(@, id)], id, << >>)],
          ok |-> TRUE]

\* Delete: a tombstone; a missing or already deleted identifier is no error.
Delete(d, id) ==
    IF id \in Known(d) THEN [d EXCEPT !.items[id].del = TRUE] ELSE d

InsOp(id, after, ch) == [op |-> "ins", id |-> id, after |-> after, ch |-> ch]
DelOp(id) == [op |-> "del", id |-> id]

\* A deletion without an identifier, which Root stands for here, is an error.
Apply(d, op) ==
    IF op.op = "ins" THEN Insert(d, op.id, op.after, op.ch)
    ELSE [doc |-> Delete(d, op.id), ok |-> op.id # Root]

\* ApplyBatch stops at the first error.  The server works on a clone, so an error
\* leaves its document as it was; the client keeps what was applied.
ApplyNext(res, op) == IF res.ok THEN Apply(res.doc, op) ELSE res

ApplyBatch(d, ops) ==
    LET res[n \in 0 .. Len(ops)] ==
            IF n = 0 THEN [doc |-> d, ok |-> TRUE] ELSE ApplyNext(res[n - 1], ops[n])
    IN  res[Len(ops)]

(***************************************************************************)
(* walk: the iterative pre-order traversal.  One turn of the loop pops the *)
(* top of the stack, visits it and pushes its children, first child on top.*)
(***************************************************************************)
WalkStep(d, st) ==
    IF st.stack = << >> THEN st
    ELSE [stack |-> d.children[Head(st.stack)] \o Tail(st.stack),
          out |-> Append(st.out, Head(st.stack))]

Walk(d) ==
    LET turn[n \in 0 .. Cardinality(Known(d))] ==
            IF n = 0 THEN [stack |-> d.children[Root], out |-> << >>]
            ELSE WalkStep(d, turn[n - 1])
    IN  turn[Cardinality(Known(d))].out

\* visit, of a character that is shown.
Visit(d, shown, id) == IF d.items[id].del THEN shown ELSE Append(shown, id)

VisibleIDs(d) ==
    LET w == Walk(d)
        shown[n \in 0 .. Len(w)] == IF n = 0 THEN << >> ELSE Visit(d, shown[n - 1], w[n])
    IN  shown[Len(w)]

Materialize(d) == LET v == VisibleIDs(d) IN [i \in DOMAIN v |-> d.items[v[i]].ch]

MaxClock(d) == MaxOf({id.clock : id \in Known(d)} \cup {0})

\* BuildFromString: one site's chain with clocks 1..n.
BuildFromString(site, text) ==
    LET id(n) == IF n = 0 THEN Root ELSE [clock |-> n, site |-> site]
    IN  ApplyBatch(NewDoc, [n \in DOMAIN text |-> InsOp(id(n), id(n - 1), text[n])]).doc

\* Items: the snapshot of all items in document order, tombstones included.
Items(d) ==
    LET w == Walk(d)
        it(id) == d.items[id]
    IN  [i \in DOMAIN w |-> [id |-> w[i], after |-> it(w[i]).after, ch |-> it(w[i]).ch,
                             del |-> it(w[i]).del]]

\* FromItems: register every item, then put each below its parent.
Place(kids, it) == [kids EXCEPT ![it.after] = InsertChild(@, it.id)]

FromItems(items) ==
    LET ids == {items[i].id : i \in DOMAIN items}
        at(id) == CHOOSE i \in DOMAIN items : items[i].id = id
        placed[n \in 0 .. Len(items)] ==
            IF n = 0 THEN [p \in ids \cup {Root} |-> << >>] ELSE Place(placed[n - 1], items[n])
    IN  [items |-> [id \in ids |-> [after |-> items[at(id)].after, ch |-> items[at(id)].ch,
                                    del |-> items[at(id)].del]],
         children |-> placed[Len(items)]]

(***************************************************************************)
(* LinearChain: the sites whose BuildFromString the document claims to be, *)
(* for a document that is not empty.  The set is empty when any item is a  *)
(* tombstone, has a sibling, a foreign site or a clock out of sequence.    *)
(***************************************************************************)
\* Mutant: tombstones are not looked at.
LinearSitesWithTombstones(d) ==
    {s \in {id.site : id \in Known(d)} :
        LET w == Walk(d)
        IN  \A i \in DOMAIN w :
               /\ w[i] = [clock |-> i, site |-> s]
               /\ d.items[w[i]].after = IF i = 1 THEN Root ELSE w[i - 1]}

LinearSites(d) ==
    {s \in {id.site : id \in Known(d)} :
        LET w == Walk(d)
        IN  \A i \in DOMAIN w :
               /\ w[i] = [clock |-> i, site |-> s]
               /\ ~d.items[w[i]].del
               /\ d.items[w[i]].after = IF i = 1 THEN Root ELSE w[i - 1]}

(***************************************************************************)
(* diffToOps: the batch a client sends for a local edit.  The common       *)
(* prefix and suffix are kept, the middle of the old text is deleted and   *)
(* the middle of the new one inserted as a chain after the prefix, with    *)
(* clocks above clockStart.                                                *)
(***************************************************************************)
CommonPrefix(s, t) ==
    Cardinality({n \in 1 .. (IF Len(s) < Len(t) THEN Len(s) ELSE Len(t)) :
                    SubSeq(s, 1, n) = SubSeq(t, 1, n)})

DiffToOps(ids, old, new, site, clockStart) ==
    LET lo == CommonPrefix(old, new)
        suffix == CommonPrefix(Reverse(SubSeq(old, lo + 1, Len(old))),
                               Reverse(SubSeq(new, lo + 1, Len(new))))
        dels == [i \in 1 .. (Len(old) - suffix - lo) |-> DelOp(ids[lo + i])]
        fresh(n) == [clock |-> clockStart + n, site |-> site]
        anchor == IF lo = 0 THEN Root ELSE ids[lo]
    IN  dels \o [n \in 1 .. (Len(new) - suffix - lo) |->
                    InsOp(fresh(n), IF n = 1 THEN anchor ELSE fresh(n - 1), new[lo + n])]
=============================================================================
